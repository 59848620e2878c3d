------------------------------ MODULE EthStack ------------------------------
(***************************************************************************)
(* The IPv6 stack (ethernet/eth.c, eth_ipv6.c, eth_ndp.c, eth_icmpv6.c,    *)
(* eth_udp.c, eth_ntp.c) on the queues of EthQueue.                        *)
(*                                                                         *)
(* ethernet_packet_received runs in the interrupt handler, and does what   *)
(* it does before the main loop goes on.  The main loop calls ETH_Handler, *)
(* and composes packets of its own from a neighbour table and addresses    *)
(* that the interrupt handler may change meanwhile.                        *)
(***************************************************************************)
EXTENDS EthQueue, Sequences

CONSTANTS
  ETH_NDP_TABLE_SIZE,
  GlobalHosts, LocalHosts,        \* addresses of others below 0xF0, and at 0xFD
  GlobalPrefixes, LocalPrefixes,  \* prefixes that routers announce, likewise
  MACs,                           \* hardware addresses of others
  Unspecified,                    \* the address ::, all zeros
  NoMAC,                          \* the hardware address of zeros
  NoAddress,                      \* no prefix set, and the nullptr of ETH_GetMyIP
  Senders,                        \* bound: what hosts send from, <<address, MAC>>
  MaxOptions                      \* bound: prefixes in one advertisement

Hosts == GlobalHosts \cup LocalHosts
Prefixes == GlobalPrefixes \cup LocalPrefixes

ASSUME EthStackAssumption ==
  /\ ETH_NDP_TABLE_SIZE \in Nat \ {0}
  /\ GlobalHosts \cap LocalHosts = {}
  /\ GlobalPrefixes \cap LocalPrefixes = {}
  /\ Unspecified \notin Hosts
  /\ NoMAC \notin MACs
  /\ NoAddress \notin Prefixes
  /\ MaxOptions \in Nat
  /\ Senders \subseteq (Hosts \cup {Unspecified}) \X MACs

VARIABLES
  ndp_table,        \* item: the entries; p: ndp_table_p, the one replaced next
  eth_instance,     \* router_mac_address, and the prefixes of our addresses
  ntp_time_is_set,
  options,          \* the prefixes that a router advertisement still has
  composing,        \* what ETH_UDP_Send of the main loop is at, at most one
  latest,           \* history: the hardware address each host last gave
  masked            \* history: an entry of a full table was given to ::

stackVars ==
  <<ndp_table, eth_instance, ntp_time_is_set, options, composing, latest, masked>>
vars == <<queueVars, stackVars>>

Entries == 0..(ETH_NDP_TABLE_SIZE - 1)
Items == [ip_address : Hosts \cup {Unspecified}, hwaddr : MACs \cup {NoMAC}]
Router == ETH_NDP_TABLE_SIZE  \* the pointer to router_mac_address

-----------------------------------------------------------------------------
(* The neighbour table.                                                    *)

\* Mutant: too few bytes are compared, the first entry in use matches all.
SearchFirst(table, ip) == {i \in {0} : table.item[i].ip_address # Unspecified}

\* search: an entry of zeros ends it
Search(table, ip) ==
  {i \in Entries : /\ table.item[i].ip_address = ip
                   /\ \A j \in 0..(i - 1) :
                        table.item[j].ip_address \notin {ip, Unspecified}}

\* The pointer that ETH_GetHWAddr returns, and what it points at.
GetHWAddr(ip) == IF Search(ndp_table, ip) = {} THEN Router
                 ELSE CHOOSE i \in Search(ndp_table, ip) : TRUE
PointedAt(hwAddr) == IF hwAddr = Router THEN eth_instance.router_mac_address
                     ELSE ndp_table.item[hwAddr].hwaddr

NextEntry(p) == IF p = ETH_NDP_TABLE_SIZE - 1 THEN 0 ELSE p + 1

\* Mutant: a new entry is made without a search.
InsertAlways(table, ip, mac) ==
  [item |-> [table.item EXCEPT ![table.p] = [ip_address |-> ip, hwaddr |-> mac]],
   p |-> NextEntry(table.p)]

UpdateNdpTable(table, ip, mac) ==
  LET found == Search(table, ip)
  IN IF found # {}
     THEN [table EXCEPT !.item = [i \in Entries |->
             IF i \in found THEN [@[i] EXCEPT !.hwaddr = mac] ELSE @[i]]]
     ELSE [item |-> [table.item EXCEPT ![table.p] =
                       [ip_address |-> ip, hwaddr |-> mac]],
           p |-> NextEntry(table.p)]

-----------------------------------------------------------------------------
(* Our addresses: one under each prefix, an own address is its prefix.     *)

\* ETH_IP_Match
OwnAddresses == {eth_instance.global_prefix, eth_instance.local_prefix} \ {NoAddress}

\* ETH_GetMyIP
GetMyIP(destIP) == IF destIP \in LocalHosts THEN eth_instance.local_prefix
                   ELSE eth_instance.global_prefix

\* ETH_Set_Prefix, without the callback
SetPrefix(prefix, router_mac) ==
  IF prefix \in LocalPrefixes
  THEN [eth_instance EXCEPT !.local_prefix = prefix]
  ELSE IF prefix = eth_instance.global_prefix THEN eth_instance
  ELSE [eth_instance EXCEPT !.global_prefix = prefix,
                            !.router_mac_address = router_mac]

-----------------------------------------------------------------------------
(* ethernet_packet_received, of a packet that is sent to us or to all, by  *)
(* the host at address ip with the hardware address mac.                   *)

Parsing == options # <<>>

\* What the main loop composes is not told; its history is.
Observe ==
  composing' =
    {[c EXCEPT !.valid = @ \cup IF c.hwAddr = Router
                                THEN {eth_instance'.router_mac_address}
                                ELSE {latest'[c.destIP]},
               !.replaced = @ \/ /\ c.hwAddr # Router
                                 /\ ndp_table'.item[c.hwAddr].ip_address # c.destIP]
      : c \in composing}

\* Both handlers of eth_ipv6.c enter the sender first.
Learn(ip, mac) ==
  /\ ~Parsing
  /\ ndp_table' = UpdateNdpTable(ndp_table, ip, mac)
  /\ latest' = [h \in Hosts |-> IF h = ip THEN mac ELSE latest[h]]
  /\ masked' = (masked \/ (ip = Unspecified /\ Search(ndp_table, ip) = {}))
  /\ UNCHANGED eth_instance
  /\ Observe

\* A packet of no further consequence: sent to an address that is not ours,
\* of another protocol or type, or malformed.
Ignored(ip, mac) ==
  /\ Learn(ip, mac)
  /\ UNCHANGED <<queueVars, ntp_time_is_set, options>>

\* A packet that is answered at once, on eth_irq_queue.
Answered(ip, mac) ==
  /\ Learn(ip, mac)
  /\ Add(IRQ)
  /\ UNCHANGED <<ntp_time_is_set, options>>

\* A UDP packet to the echo port
send_echo(ip, mac, destIP) == destIP \in OwnAddresses /\ Answered(ip, mac)

\* ETH_ICMPV6_Handler of an echo request
EchoRequest(ip, mac, destIP) == destIP \in OwnAddresses /\ Answered(ip, mac)

\* A solicitation of one of our addresses; :: asks whether it may have it.
parse_ns(ip, mac, target) == target \in OwnAddresses /\ Answered(ip, mac)

\* A UDP packet from the NTP port
TimestampReply(ip, mac, destIP) ==
  /\ destIP \in OwnAddresses
  /\ Learn(ip, mac)
  /\ ntp_time_is_set' = TRUE
  /\ UNCHANGED <<queueVars, options>>

\* The target is entered after the sender.
parse_na(ip, mac, destIP, target, target_mac) ==
  /\ ~Parsing
  /\ destIP \in OwnAddresses
  /\ ndp_table' = UpdateNdpTable(UpdateNdpTable(ndp_table, ip, mac), target, target_mac)
  /\ latest' = [h \in Hosts |-> IF h = target THEN target_mac
                                ELSE IF h = ip THEN mac ELSE latest[h]]
  /\ UNCHANGED <<queueVars, eth_instance, ntp_time_is_set, options, masked>>
  /\ Observe

\* The prefixes are found one after the other.  The last option may have the
\* length 0: then the loop stays at it.  (Options of other kinds are passed
\* over; one of length 0 holds the loop like a prefix that we already have.)
parse_ra(ip, mac, prefixes, endless) ==
  /\ Learn(ip, mac)
  /\ prefixes # <<>>
  /\ added[IRQ] + Len(prefixes) <= MaxAnswers
  /\ options' = [i \in 1..Len(prefixes) |->
       [prefix |-> prefixes[i], source_mac |-> mac,
        length |-> IF endless /\ i = Len(prefixes) THEN 0 ELSE 1]]
  /\ UNCHANGED <<queueVars, ntp_time_is_set>>

\* eth_set_prefix_callback is the firmware's: it asks the NTP server, a global
\* host, for the time until it is set.  Round and round an option of length 0
\* it asks without end, here MaxAnswers times.
Callback ==
  IF \/ Head(options).prefix \in LocalPrefixes \/ ntp_time_is_set
     \/ Head(options).length = 0 /\ ~Bounded(IRQ)
  THEN UNCHANGED queueVars
  ELSE Add(IRQ)

ETH_Set_Prefix ==
  /\ Parsing
  /\ eth_instance' = SetPrefix(Head(options).prefix, Head(options).source_mac)
  /\ Callback
  /\ options' = IF Head(options).length = 0 THEN options ELSE Tail(options)
  /\ UNCHANGED <<ndp_table, ntp_time_is_set, latest, masked>>
  /\ Observe

Receive(ip, mac) ==
  \/ Ignored(ip, mac)
  \/ \E target \in Prefixes : parse_ns(ip, mac, target)
  \/ /\ ip # Unspecified
     /\ \/ \E destIP \in Prefixes : \/ send_echo(ip, mac, destIP)
                                   \/ EchoRequest(ip, mac, destIP)
                                   \/ TimestampReply(ip, mac, destIP)
        \/ \E destIP \in Prefixes, target \in Hosts, target_mac \in MACs :
             /\ <<target, target_mac>> \in Senders
             /\ parse_na(ip, mac, destIP, target, target_mac)
        \/ \E prefixes \in UNION {[1..n -> Prefixes] : n \in 1..MaxOptions},
              endless \in BOOLEAN : parse_ra(ip, mac, prefixes, endless)

-----------------------------------------------------------------------------
(* The main loop, while no interrupt is handled and outside ETH_Handler.   *)

Main == ~Parsing /\ handler = MainLoop

\* ETH_UDP_Send takes two pointers.  It is called for hosts that an own
\* address reaches: nothing in it looks whether myip is nullptr.
BeginSend(destIP) ==
  /\ Main /\ composing = {}
  /\ GetMyIP(destIP) # NoAddress
  /\ Bounded(USER)
  /\ LET hwAddr == GetHWAddr(destIP)
     IN composing' = {[destIP |-> destIP, hwAddr |-> hwAddr,
                       high |-> NoMAC, copying |-> FALSE,
                       valid |-> {IF hwAddr = Router THEN PointedAt(Router)
                                  ELSE latest[destIP]},
                       replaced |-> FALSE]}
  /\ UNCHANGED <<queueVars, ndp_table, eth_instance, ntp_time_is_set, options,
                 latest, masked>>

\* The bytes of the hardware address are copied one by one: a first part ...
CopyHigh ==
  /\ Main
  /\ \E c \in composing :
       /\ ~c.copying
       /\ composing' = {[c EXCEPT !.high = PointedAt(c.hwAddr), !.copying = TRUE]}
  /\ UNCHANGED <<queueVars, ndp_table, eth_instance, ntp_time_is_set, options,
                 latest, masked>>

\* ... and the rest, and all that follows.
FinishSend ==
  /\ Main
  /\ \E c \in composing : c.copying
  /\ Add(USER)
  /\ composing' = {}
  /\ UNCHANGED <<ndp_table, eth_instance, ntp_time_is_set, options, latest, masked>>

\* ETH_NS_Send has no use for the table.
ETH_NS_Send(address) ==
  /\ Main /\ composing = {}
  /\ GetMyIP(address) # NoAddress
  /\ Add(USER)
  /\ UNCHANGED stackVars

Handle ==
  /\ ~Parsing /\ composing = {}
  /\ ETH_Handler
  /\ UNCHANGED stackVars

-----------------------------------------------------------------------------
\* ETH_Common_Init
Init ==
  /\ QueueInit
  /\ ndp_table = [item |-> [i \in Entries |-> [ip_address |-> Unspecified,
                                               hwaddr |-> NoMAC]],
                  p |-> 0]
  /\ eth_instance = [router_mac_address |-> NoMAC,
                     global_prefix |-> NoAddress, local_prefix |-> NoAddress]
  /\ ntp_time_is_set = FALSE
  /\ options = <<>>
  /\ composing = {}
  /\ latest = [h \in Hosts |-> NoMAC]
  /\ masked = FALSE

Next ==
  \/ \E s \in Senders : Receive(s[1], s[2])
  \/ ETH_Set_Prefix
  \/ \E destIP \in Hosts : BeginSend(destIP) \/ ETH_NS_Send(destIP)
  \/ CopyHigh \/ FinishSend
  \/ Handle

Spec == Init /\ [][Next]_vars

-----------------------------------------------------------------------------
TypeOK ==
  /\ QueueTypeOK
  /\ ndp_table \in [item : [Entries -> Items], p : Entries]
  /\ eth_instance \in [router_mac_address : MACs \cup {NoMAC},
                       global_prefix : GlobalPrefixes \cup {NoAddress},
                       local_prefix : LocalPrefixes \cup {NoAddress}]
  /\ ntp_time_is_set \in BOOLEAN
  /\ \A c \in composing : c.hwAddr \in Entries \cup {Router}
  /\ latest \in [Hosts -> MACs \cup {NoMAC}]
  /\ masked \in BOOLEAN

\* A neighbour has one entry, and a search ends with it or with none: what
\* goes to a neighbour goes where it last said it is, or to the router.  This
\* is so until a packet from :: comes when the table is full: its entry ends
\* every search before the entries behind it (eth_ndp.c:23-60).
NeighboursKnown ==
  ~masked =>
    \A h \in Hosts :
      LET entries == {i \in Entries : ndp_table.item[i].ip_address = h}
      IN /\ entries = Search(ndp_table, h)
         /\ \A i \in entries : ndp_table.item[i].hwaddr = latest[h]

\* A packet that the main loop composes while neighbours move goes, part by
\* part, to a hardware address that its destination, or the router, had
\* meanwhile - if no other host was given the entry (eth_udp.c:51-60).
WellAddressed ==
  [][FinishSend =>
       \A c \in composing :
         ~c.replaced /\ ~masked => {c.high, PointedAt(c.hwAddr)} \subseteq c.valid]_vars

=============================================================================
