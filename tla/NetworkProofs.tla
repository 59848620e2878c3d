---------------------------- MODULE NetworkProofs ----------------------------
(***************************************************************************)
(* Proofs about the two ways onto a network, the ethernet library and the  *)
(* driver of the radio.                                                    *)
(***************************************************************************)
EXTENDS EthStack, Nrf24, TLAPS

-----------------------------------------------------------------------------
(* Ethernet: the packet queues, the neighbour table and the packets that   *)
(* the main loop composes, for rings and tables of every size and every    *)
(* interleaving of the interrupt handler, the main loop and ETH_Handler.   *)

\* The slot j before s.
Back(q, s, j) == IF s - j < 0 THEN s - j + Size(q) ELSE s - j

InFlight(q) == handler = q /\ sending # {}

\* The last packet that was polled.
Last(q) == added[q] - Waiting(q)

Heads(q) ==
  /\ rx_head[q] \in Slots(q) /\ tx_head[q] \in Slots(q)
  /\ added[q] \in Nat /\ sent[q] \in Nat
  /\ DOMAIN buffer[q] = Slots(q)

\* Counted back from tx_head, the slots hold the last packets added.
Filled(q) ==
  \A j \in 1..Size(q) :
    j <= added[q] => buffer[q][Back(q, tx_head[q], j)] = added[q] - j + 1

\* What is in flight is in the slot before rx_head.
Flight(q) ==
  handler = q => \A s \in sending : s.slot = Back(q, rx_head[q], 1)

\* What is waiting was added after what was sent, overrun or not.
Ordered(q) == IF InFlight(q) THEN sent[q] < Last(q) ELSE sent[q] <= Last(q)

\* Without an overrun nothing is between them.
Exact(q) ==
  q \notin overrun =>
    IF InFlight(q)
    THEN Last(q) = sent[q] + 1 /\ \A s \in sending : s.message_size = Last(q)
    ELSE Last(q) = sent[q]

Ring(q) == Heads(q) /\ Filled(q) /\ Flight(q) /\ Ordered(q) /\ Exact(q)

Domains ==
  /\ DOMAIN rx_head = Queues /\ DOMAIN tx_head = Queues /\ DOMAIN buffer = Queues
  /\ DOMAIN added = Queues /\ DOMAIN sent = Queues
  /\ sending # {} => handler \in Queues

RingInv == Domains /\ \A q \in Queues : Ring(q)

-----------------------------------------------------------------------------
\* A ring has two slots or more.
LEMMA SizeType == ASSUME NEW q \in Queues
                  PROVE  Size(q) \in Nat /\ Size(q) >= 2
  BY EthQueueAssumption DEF Size, Queues

\* In the terms of the queues every step is an addition, a step of
\* ETH_Handler, or none.
LEMMA QueueSteps ==
  ASSUME [Next]_vars
  PROVE  (\E q \in Queues : Add(q)) \/ ETH_Handler \/ UNCHANGED queueVars
<1>1. CASE UNCHANGED vars
  BY <1>1 DEF vars
<1>2. CASE \E s \in Senders : Receive(s[1], s[2])
  BY <1>2 DEF Receive, Ignored, Answered, send_echo, EchoRequest, parse_ns,
              TimestampReply, parse_na, parse_ra, Queues
<1>3. CASE ETH_Set_Prefix
  BY <1>3 DEF ETH_Set_Prefix, Callback, Queues
<1>4. CASE \E destIP \in Hosts : BeginSend(destIP) \/ ETH_NS_Send(destIP)
  BY <1>4 DEF BeginSend, ETH_NS_Send, Queues
<1>5. CASE CopyHigh \/ FinishSend
  BY <1>5 DEF CopyHigh, FinishSend, Queues
<1>6. CASE Handle
  BY <1>6 DEF Handle
<1> QED BY <1>1, <1>2, <1>3, <1>4, <1>5, <1>6 DEF Next

-----------------------------------------------------------------------------
\* The initial state.
LEMMA RingInit == Init => RingInv
<1> SUFFICES ASSUME QueueInit PROVE RingInv
  BY DEF Init
<1>1. Domains
  BY DEF QueueInit, Domains, MainLoop
<1>2. ASSUME NEW q \in Queues PROVE Ring(q)
  <2>1. Size(q) \in Nat /\ Size(q) >= 2
    BY SizeType
  <2>2. rx_head[q] = 0 /\ tx_head[q] = 0 /\ added[q] = 0 /\ sent[q] = 0
        /\ DOMAIN buffer[q] = Slots(q) /\ sending = {}
    BY DEF QueueInit
  <2>3. Waiting(q) = 0
    BY <2>2 DEF Waiting
  <2> QED
    BY <2>1, <2>2, <2>3 DEF Ring, Heads, Filled, Flight, Ordered, Exact, InFlight, Last, Slots
<1> QED BY <1>1, <1>2 DEF RingInv

\* Waiting packets are fewer than slots, and rx_head is that far behind.
LEMMA WaitingType ==
  ASSUME NEW q \in Queues, Heads(q)
  PROVE  /\ Waiting(q) \in Nat /\ Waiting(q) < Size(q)
         /\ rx_head[q] = Back(q, tx_head[q], Waiting(q))
         /\ Back(q, rx_head[q], 1) = Back(q, tx_head[q], Waiting(q) + 1)
         /\ Waiting(q) = 0 <=> rx_head[q] = tx_head[q]
<1> DEFINE n == Size(q)
           rx == rx_head[q]
           tx == tx_head[q]
           k == IF tx >= rx THEN tx - rx ELSE n - rx + tx
<1>1. n \in Nat /\ n >= 2
  BY SizeType
<1>2. rx \in 0..(n - 1) /\ tx \in 0..(n - 1)
  BY DEF Heads, Slots
<1>3. Waiting(q) = k
  BY DEF Waiting
<1> HIDE DEF n, rx, tx
<1>4. /\ k \in Nat /\ k < n
      /\ rx = IF tx - k < 0 THEN tx - k + n ELSE tx - k
      /\ (IF rx - 1 < 0 THEN rx - 1 + n ELSE rx - 1)
           = IF tx - (k + 1) < 0 THEN tx - (k + 1) + n ELSE tx - (k + 1)
      /\ k = 0 <=> rx = tx
  BY <1>1, <1>2
<1> QED BY <1>3, <1>4 DEF Back, n, rx, tx

\* A queue whose part of the state a step leaves alone stays as it is.
LEMMA Kept ==
  ASSUME NEW q \in Queues, Ring(q),
         rx_head'[q] = rx_head[q], tx_head'[q] = tx_head[q],
         buffer'[q] = buffer[q], added'[q] = added[q], sent'[q] = sent[q],
         q \in overrun' <=> q \in overrun,
         \/ handler' = handler /\ sending' = sending
         \/ ~InFlight(q) /\ ~InFlight(q)'
  PROVE  Ring(q)'
<1>1. Heads(q)' /\ Filled(q)' /\ Waiting(q)' = Waiting(q) /\ Last(q)' = Last(q)
  BY DEF Ring, Heads, Filled, Waiting, Last
<1>2. CASE handler' = handler /\ sending' = sending
  BY <1>1, <1>2 DEF Ring, Flight, Ordered, Exact, InFlight
<1>3. CASE ~InFlight(q) /\ ~InFlight(q)'
  BY <1>1, <1>3 DEF Ring, Flight, Ordered, Exact, InFlight
<1> QED BY <1>2, <1>3

-----------------------------------------------------------------------------
\* Adding a packet moves tx_head over the slot it was composed in.  If all
\* others wait, none is waiting any more: Last moves by as many as are lost.
LEMMA AddKeeps ==
  ASSUME RingInv, NEW q \in Queues, Add(q)
  PROVE  RingInv'
<1> DEFINE k == Waiting(q)
           t == tx_head[q]
           n == Size(q)
<1>1. n \in Nat /\ n >= 2
  BY SizeType
<1>2. Ring(q) /\ Heads(q) /\ Domains
  BY DEF RingInv, Ring
<1>3. k \in Nat /\ k < n
  BY <1>2, WaitingType
<1>4. t \in 0..(n - 1) /\ rx_head[q] \in 0..(n - 1)
  BY <1>2 DEF Heads, Slots
<1>5. /\ tx_head'[q] = After(q, t) /\ rx_head'[q] = rx_head[q]
      /\ added'[q] = added[q] + 1 /\ sent'[q] = sent[q]
      /\ buffer'[q] = [buffer[q] EXCEPT ![t] = added[q] + 1]
      /\ handler' = handler /\ sending' = sending
      /\ k # n - 1 => (q \in overrun' <=> q \in overrun)
      /\ k = n - 1 => q \in overrun'
  BY <1>2 DEF Add, Domains
<1>6. Waiting(q)' = IF k = n - 1 THEN 0 ELSE k + 1
  BY <1>1, <1>3, <1>4, <1>5 DEF Waiting, After
<1>7. Heads(q)'
  BY <1>1, <1>2, <1>4, <1>5 DEF Heads, Slots, After
<1>8. tx_head'[q] = After(q, t) /\ added'[q] = added[q] + 1
  BY <1>5
<1>9. Filled(q)'
  <2>1. added[q] \in Nat /\ \A s \in 0..(n - 1) :
          buffer'[q][s] = IF s = t THEN added[q] + 1 ELSE buffer[q][s]
    BY <1>2, <1>5 DEF Heads, Slots
  <2>2. ASSUME NEW j \in 1..n, j <= added[q] + 1
        PROVE  buffer'[q][Back(q, After(q, t), j)] = added[q] + 1 - j + 1
    <3>1. CASE j = 1
      <4>1. Back(q, After(q, t), j) = t
        BY <1>1, <1>4, <3>1 DEF Back, After
      <4> QED BY <4>1, <2>1, <3>1, <1>4
    <3>2. CASE j # 1
      <4>1. Back(q, After(q, t), j) = Back(q, t, j - 1)
            /\ Back(q, t, j - 1) \in 0..(n - 1) /\ Back(q, t, j - 1) # t
        BY <1>1, <1>4, <3>2 DEF Back, After
      <4>2. buffer[q][Back(q, t, j - 1)] = added[q] - (j - 1) + 1
        BY <1>1, <1>2, <2>1, <2>2, <3>2 DEF Ring, Filled
      <4> QED BY <4>1, <4>2, <2>1
    <3> QED BY <3>1, <3>2
  <2>3. \A j \in 1..n : j <= added'[q] =>
          buffer'[q][Back(q, tx_head'[q], j)] = added'[q] - j + 1
    BY <1>1, <2>1, <2>2, <1>8
  <2> QED BY <2>3 DEF Filled
<1>10. Flight(q)'
  BY <1>2, <1>5 DEF Ring, Flight, Back
<1>11. Last(q) \in Int /\ Last(q)' = IF k = n - 1 THEN Last(q) + n ELSE Last(q)
  BY <1>1, <1>2, <1>3, <1>5, <1>6 DEF Last, Heads
<1>12. Ordered(q)'
  BY <1>1, <1>2, <1>5, <1>11 DEF Ring, Ordered, InFlight, Heads
<1>13. Exact(q)'
  BY <1>2, <1>5, <1>11 DEF Ring, Exact, InFlight
<1>14. Ring(q)'
  BY <1>7, <1>9, <1>10, <1>12, <1>13 DEF Ring
<1>15. ASSUME NEW o \in Queues, o # q PROVE Ring(o)'
  <2>1. Ring(o)
    BY DEF RingInv
  <2>2. /\ rx_head'[o] = rx_head[o] /\ tx_head'[o] = tx_head[o]
        /\ buffer'[o] = buffer[o] /\ added'[o] = added[o] /\ sent'[o] = sent[o]
        /\ o \in overrun' <=> o \in overrun
        /\ handler' = handler /\ sending' = sending
    BY <1>2, <1>15 DEF Add, Domains
  <2> QED BY <2>1, <2>2, Kept
<1>16. Domains'
  BY <1>2 DEF Add, Domains
<1> QED BY <1>14, <1>15, <1>16 DEF RingInv

-----------------------------------------------------------------------------
\* The packet polled is the next after Last, and its slot is before rx_head.
LEMMA PollKeeps ==
  ASSUME RingInv, NEW q \in Queues, Poll(q)
  PROVE  RingInv'
<1> DEFINE k == Waiting(q)
           r == rx_head[q]
           n == Size(q)
<1>1. n \in Nat /\ n >= 2
  BY SizeType
<1>2. Ring(q) /\ Heads(q) /\ Domains
  BY DEF RingInv, Ring
<1>3. k \in Nat /\ k < n /\ k # 0 /\ r = Back(q, tx_head[q], k)
  BY <1>2, WaitingType DEF Poll, NotEmpty
<1>4. tx_head[q] \in 0..(n - 1) /\ r \in 0..(n - 1) /\ added[q] \in Nat /\ sent[q] \in Nat
  BY <1>2 DEF Heads, Slots
<1>5. /\ rx_head'[q] = After(q, r) /\ tx_head'[q] = tx_head[q]
      /\ added'[q] = added[q] /\ sent'[q] = sent[q] /\ buffer'[q] = buffer[q]
      /\ overrun' = overrun /\ handler' = q /\ handler = q /\ sending = {}
      /\ sending' = {[slot |-> r, message_size |-> buffer[q][r]]}
  BY <1>2 DEF Poll, Domains
<1>6. Waiting(q)' = k - 1
  BY <1>1, <1>3, <1>4, <1>5 DEF Waiting, After
<1>7. Heads(q)' /\ Filled(q)'
  BY <1>1, <1>2, <1>4, <1>5 DEF Ring, Heads, Filled, Slots, After
<1>8. Flight(q)'
  BY <1>1, <1>4, <1>5 DEF Flight, Back, After
<1>9. Last(q) \in Int /\ Last(q)' = Last(q) + 1 /\ sent[q] <= Last(q)
  BY <1>2, <1>3, <1>4, <1>5, <1>6 DEF Last, Ring, Ordered, InFlight
<1>10. buffer[q][r] = Last(q) + 1
  BY <1>1, <1>2, <1>3, <1>4, <1>9 DEF Ring, Filled, Last
<1>11. Ordered(q)' /\ Exact(q)'
  BY <1>2, <1>4, <1>5, <1>9, <1>10 DEF Ring, Ordered, Exact, InFlight
<1>12. Ring(q)'
  BY <1>7, <1>8, <1>11 DEF Ring
<1>13. ASSUME NEW o \in Queues, o # q PROVE Ring(o)'
  <2>1. Ring(o)
    BY DEF RingInv
  <2>2. /\ rx_head'[o] = rx_head[o] /\ tx_head'[o] = tx_head[o]
        /\ buffer'[o] = buffer[o] /\ added'[o] = added[o] /\ sent'[o] = sent[o]
        /\ o \in overrun' <=> o \in overrun
    BY <1>2, <1>13 DEF Poll, Domains
  <2>3. ~InFlight(o) /\ ~InFlight(o)'
    BY <1>5, <1>13 DEF InFlight
  <2> QED BY <2>1, <2>2, <2>3, Kept
<1>14. Domains'
  BY <1>2, <1>5 DEF Poll, Domains
<1> QED BY <1>12, <1>13, <1>14 DEF RingInv

-----------------------------------------------------------------------------
\* What is in flight is sent as it is found in its slot: the packet Last.
LEMMA SendsLast ==
  ASSUME RingInv, NEW q \in Queues, Send(q)
  PROVE  sent'[q] = Last(q) /\ sent[q] < Last(q)
<1> DEFINE k == Waiting(q)
           n == Size(q)
<1>1. PICK s \in sending : sent' = [sent EXCEPT ![q] = buffer[q][s.slot]]
  BY DEF Send
<1>2. Ring(q) /\ Heads(q) /\ Domains /\ InFlight(q) /\ handler = q
  BY <1>1 DEF RingInv, Ring, Send, InFlight
<1>3. k \in Nat /\ k < n /\ n \in Nat /\ s.slot = Back(q, tx_head[q], k + 1)
  BY <1>1, <1>2, WaitingType, SizeType DEF Ring, Flight
<1>4. added[q] \in Nat /\ sent[q] \in Nat /\ sent[q] < added[q] - k
  BY <1>2 DEF Ring, Heads, Ordered, Last
<1>5. buffer[q][s.slot] = added[q] - (k + 1) + 1
  BY <1>2, <1>3, <1>4 DEF Ring, Filled
<1> QED BY <1>1, <1>2, <1>3, <1>4, <1>5 DEF Last, Domains

LEMMA SendKeeps ==
  ASSUME RingInv, NEW q \in Queues, Send(q)
  PROVE  RingInv'
<1>1. Ring(q) /\ Heads(q) /\ Domains /\ InFlight(q)
  BY DEF RingInv, Ring, Send, InFlight
<1>2. sent'[q] = Last(q) /\ sent[q] < Last(q)
  BY SendsLast
<1>3. /\ rx_head' = rx_head /\ tx_head' = tx_head /\ buffer' = buffer
      /\ added' = added /\ overrun' = overrun
      /\ handler' = handler /\ handler = q /\ sending' = {}
  BY DEF Send
<1>4. Waiting(q)' = Waiting(q) /\ Last(q)' = Last(q)
  BY <1>3 DEF Waiting, Last
<1>5. Waiting(q) \in Nat /\ added[q] \in Nat /\ sent[q] \in Nat
  BY <1>1, WaitingType DEF Heads
<1>6. Heads(q)' /\ Filled(q)' /\ Flight(q)'
  BY <1>1, <1>2, <1>3, <1>5 DEF Ring, Heads, Filled, Flight, Last
<1>7. Ordered(q)' /\ Exact(q)'
  BY <1>1, <1>2, <1>3, <1>4, <1>5 DEF Ordered, Exact, InFlight, Last
<1>8. ASSUME NEW o \in Queues, o # q PROVE Ring(o)'
  <2>1. Ring(o)
    BY DEF RingInv
  <2>2. sent'[o] = sent[o]
    BY <1>1, <1>8 DEF Send, Domains
  <2>3. ~InFlight(o) /\ ~InFlight(o)'
    BY <1>3, <1>8 DEF InFlight
  <2> QED BY <2>1, <2>2, <2>3, <1>3, Kept
<1>9. Domains'
  BY <1>1, <1>3 DEF Domains, Send
<1> QED BY <1>6, <1>7, <1>8, <1>9 DEF RingInv, Ring

\* Entering and leaving touch no ring.
LEMMA MoveKeeps ==
  ASSUME RingInv, Enter \/ \E q \in Queues : Leave(q)
  PROVE  RingInv'
<1>1. /\ rx_head' = rx_head /\ tx_head' = tx_head /\ buffer' = buffer
      /\ added' = added /\ sent' = sent /\ overrun' = overrun
      /\ sending' = sending
  BY DEF Enter, Leave
<1>2. Domains /\ (handler = MainLoop \/ sending = {})
  BY DEF Enter, Leave, RingInv
<1>3. sending = {}
  BY <1>2 DEF Domains, MainLoop, Queues, IRQ, USER
<1>4. ASSUME NEW o \in Queues PROVE Ring(o)'
  <2>1. Ring(o) /\ ~InFlight(o) /\ ~InFlight(o)'
    BY <1>1, <1>3 DEF RingInv, InFlight
  <2> QED BY <2>1, <1>1, Kept
<1>5. Domains'
  BY <1>1, <1>2, <1>3 DEF Domains
<1> QED BY <1>4, <1>5 DEF RingInv

-----------------------------------------------------------------------------
\* RingInv is an inductive invariant.
THEOREM RingsHold == Spec => []RingInv
<1>1. Init => RingInv
  BY RingInit
<1>2. RingInv /\ [Next]_vars => RingInv'
  <2> SUFFICES ASSUME RingInv, [Next]_vars PROVE RingInv'
    OBVIOUS
  <2>1. ASSUME NEW q \in Queues, Add(q) PROVE RingInv'
    BY <2>1, AddKeeps
  <2>2. CASE ETH_Handler
    BY <2>2, PollKeeps, SendKeeps, MoveKeeps DEF ETH_Handler
  <2>3. CASE UNCHANGED queueVars
    BY <2>3 DEF queueVars, RingInv, Domains, Ring, Heads, Filled, Flight, Ordered,
                Exact, InFlight, Last, Waiting
  <2> QED BY <2>1, <2>2, <2>3, QueueSteps
<1> QED BY <1>1, <1>2, PTL DEF Spec

\* A queue that is not overrun loses no packet, and none is sent with the size
\* or the bytes of another (queue.c:12-50, eth_queue.c:50-57).
THEOREM NoneLost == Spec => []NothingLost
<1>1. RingInv => NothingLost
  <2> SUFFICES ASSUME RingInv, NEW q \in Queues \ overrun
               PROVE  IF handler = q /\ sending # {}
                      THEN \A s \in sending :
                             /\ Last(q) = sent[q] + 1
                             /\ s.message_size = Last(q)
                             /\ buffer[q][s.slot] = Last(q)
                      ELSE Last(q) = sent[q]
    BY DEF NothingLost, Last
  <2>1. Ring(q) /\ Heads(q)
    BY DEF RingInv, Ring
  <2>2. CASE handler = q /\ sending # {}
    <3> SUFFICES ASSUME NEW s \in sending PROVE buffer[q][s.slot] = Last(q)
      BY <2>1, <2>2 DEF Ring, Exact, InFlight
    <3> DEFINE k == Waiting(q)
    <3>1. k \in Nat /\ k < Size(q) /\ Size(q) \in Nat /\ s.slot = Back(q, tx_head[q], k + 1)
      BY <2>1, <2>2, WaitingType, SizeType DEF Ring, Flight
    <3>2. added[q] \in Nat /\ sent[q] \in Nat /\ sent[q] < added[q] - k
      BY <2>1, <2>2 DEF Ring, Heads, Ordered, Last, InFlight
    <3> QED BY <2>1, <3>1, <3>2 DEF Ring, Filled, Last
  <2>3. CASE ~(handler = q /\ sending # {})
    BY <2>1, <2>3 DEF Ring, Exact, InFlight
  <2> QED BY <2>2, <2>3
<1> QED BY <1>1, RingsHold, PTL

\* Overrun or not, every packet that is sent is newer than all that were sent
\* before (queue.c:12-50, eth_queue.c:50-57).
THEOREM NeverBackwards == Spec => SentInOrder
<1>1. RingInv /\ [Next]_vars => [\A q \in Queues : Send(q) => sent'[q] > sent[q]]_queueVars
  <2> SUFFICES ASSUME RingInv, NEW q \in Queues, Send(q) PROVE sent'[q] > sent[q]
    OBVIOUS
  <2>1. sent'[q] = Last(q) /\ sent[q] < Last(q)
    BY SendsLast
  <2>2. sent[q] \in Nat /\ Last(q) \in Int
    BY WaitingType DEF RingInv, Ring, Heads, Last
  <2> QED BY <2>1, <2>2
<1> QED BY <1>1, RingsHold, PTL DEF Spec, SentInOrder


-----------------------------------------------------------------------------
(* The neighbour table.  What a search finds depends on where the entries  *)
(* of zeros are: behind ndp_table_p until it has gone round once, nowhere  *)
(* after that.                                                             *)

Tables == [item : [Entries -> Items], p : Entries]
LatestMACs == [Hosts -> MACs \cup {NoMAC}]

Distinct(t) ==
  \A i, j \in Entries :
    t.item[i].ip_address = t.item[j].ip_address /\ t.item[i].ip_address \in Hosts => i = j

Current(t, l) ==
  \A i \in Entries :
    t.item[i].ip_address \in Hosts => t.item[i].hwaddr = l[t.item[i].ip_address]

Filling(t) == \A i \in Entries : t.item[i].ip_address = Unspecified <=> i >= t.p
Full(t) == \A i \in Entries : t.item[i].ip_address # Unspecified

Known(t, l) == Distinct(t) /\ Current(t, l) /\ (Filling(t) \/ Full(t))

NdpInv ==
  /\ ndp_table \in Tables /\ latest \in LatestMACs /\ masked \in BOOLEAN
  /\ ~masked => Known(ndp_table, latest)

Heard(l, ip, mac) == [h \in Hosts |-> IF h = ip THEN mac ELSE l[h]]

\* A search finds whoever is in the table.
LEMMA SearchFinds ==
  ASSUME NEW t \in Tables, NEW l, Known(t, l), NEW h \in Hosts
  PROVE  Search(t, h) = {i \in Entries : t.item[i].ip_address = h}
<1> SUFFICES ASSUME NEW i \in Entries, t.item[i].ip_address = h,
                    NEW j \in 0..(i - 1)
             PROVE  t.item[j].ip_address \notin {h, Unspecified}
  BY DEF Search
<1>1. j \in Entries /\ i \in Nat /\ j < i /\ t.p \in Nat
  BY EthStackAssumption DEF Entries, Tables
<1>2. h # Unspecified
  BY EthStackAssumption
<1>3. t.item[j].ip_address # h
  BY <1>1 DEF Known, Distinct
<1>4. t.item[j].ip_address # Unspecified
  BY <1>1, <1>2 DEF Known, Filling, Full
<1> QED BY <1>3, <1>4

\* An update keeps the table's type.
LEMMA UpdateType ==
  ASSUME NEW t \in Tables, NEW ip \in Hosts \cup {Unspecified}, NEW mac \in MACs
  PROVE  UpdateNdpTable(t, ip, mac) \in Tables
<1>1. t.item \in [Entries -> Items] /\ t.p \in Entries
  BY DEF Tables
<1>2. NextEntry(t.p) \in Entries
  BY <1>1, EthStackAssumption DEF NextEntry, Entries
<1>3. [ip_address |-> ip, hwaddr |-> mac] \in Items
  BY DEF Items
<1>4. \A i \in Entries : [t.item[i] EXCEPT !.hwaddr = mac] \in Items
  BY <1>1 DEF Items
<1>5. CASE Search(t, ip) # {}
  BY <1>1, <1>4, <1>5 DEF UpdateNdpTable, Tables
<1>6. CASE Search(t, ip) = {}
  BY <1>1, <1>2, <1>3, <1>6 DEF UpdateNdpTable, Tables
<1> QED BY <1>5, <1>6

\* An update for a host, or for :: with an entry of zeros left, keeps each
\* host at most once, with what it was last heard to say.
LEMMA UpdateKnown ==
  ASSUME NEW t \in Tables, NEW l \in LatestMACs, Known(t, l),
         NEW ip \in Hosts \cup {Unspecified}, NEW mac \in MACs,
         ip = Unspecified => Search(t, ip) # {}
  PROVE  Known(UpdateNdpTable(t, ip, mac), Heard(l, ip, mac))
<1> DEFINE u == UpdateNdpTable(t, ip, mac)
           found == Search(t, ip)
<1>1. t.item \in [Entries -> Items] /\ t.p \in Entries /\ Unspecified \notin Hosts
  BY EthStackAssumption DEF Tables
<1>2. CASE found # {}
  <2>1. u.p = t.p /\ \A i \in Entries :
          /\ u.item[i].ip_address = t.item[i].ip_address
          /\ u.item[i].hwaddr = IF i \in found THEN mac ELSE t.item[i].hwaddr
    BY <1>1, <1>2 DEF UpdateNdpTable, Tables, Items
  <2>2. Distinct(u) /\ (Filling(u) \/ Full(u))
    BY <2>1 DEF Known, Distinct, Filling, Full
  <2>3. ip \in Hosts => found = {i \in Entries : t.item[i].ip_address = ip}
    BY SearchFinds
  <2>4. ip = Unspecified => \A i \in found : t.item[i].ip_address = Unspecified
    BY DEF Search
  <2>5. Current(u, Heard(l, ip, mac))
    BY <1>1, <2>1, <2>3, <2>4 DEF Known, Current, Heard
  <2> QED BY <2>2, <2>5 DEF Known
<1>3. CASE found = {}
  <2>1. ip \in Hosts /\ \A i \in Entries : t.item[i].ip_address # ip
    BY <1>3, SearchFinds
  <2>2. u.p = NextEntry(t.p) /\ \A i \in Entries :
          u.item[i] = IF i = t.p THEN [ip_address |-> ip, hwaddr |-> mac] ELSE t.item[i]
    BY <1>1, <1>3 DEF UpdateNdpTable
  <2>3. Distinct(u)
    BY <1>1, <2>1, <2>2 DEF Known, Distinct
  <2>4. Current(u, Heard(l, ip, mac))
    BY <1>1, <2>1, <2>2 DEF Known, Current, Heard
  <2>5. Filling(u) \/ Full(u)
    <3>1. CASE Full(t)
      BY <1>1, <2>1, <2>2, <3>1 DEF Full
    <3>2. CASE Filling(t) /\ t.p = ETH_NDP_TABLE_SIZE - 1
      <4>1. \A i \in Entries : i # t.p => i < t.p
        BY <3>2, EthStackAssumption DEF Entries
      <4>2. \A i \in Entries : i < t.p => ~(i >= t.p)
        BY <1>1, EthStackAssumption DEF Entries
      <4> QED BY <1>1, <2>1, <2>2, <3>2, <4>1, <4>2 DEF Filling, Full
    <3>3. CASE Filling(t) /\ t.p # ETH_NDP_TABLE_SIZE - 1
      <4>1. u.p = t.p + 1
        BY <2>2, <3>3 DEF NextEntry
      <4>2. \A i \in Entries : i >= t.p + 1 <=> (i # t.p /\ i >= t.p)
        BY <1>1, EthStackAssumption DEF Entries
      <4> QED BY <1>1, <2>1, <2>2, <3>3, <4>1, <4>2 DEF Filling
    <3> QED BY <3>1, <3>2, <3>3 DEF Known
  <2> QED BY <2>3, <2>4, <2>5 DEF Known
<1> QED BY <1>2, <1>3

\* Hearing a host keeps the type of what was heard.
LEMMA HeardType ==
  ASSUME NEW l \in LatestMACs, NEW ip, NEW mac \in MACs
  PROVE  Heard(l, ip, mac) \in LatestMACs
  BY DEF Heard, LatestMACs

\* Every packet's sender is entered.
LEMMA LearnKeeps ==
  ASSUME NdpInv, NEW ip \in Hosts \cup {Unspecified}, NEW mac \in MACs, Learn(ip, mac)
  PROVE  NdpInv'
<1>1. /\ ndp_table' = UpdateNdpTable(ndp_table, ip, mac)
      /\ latest' = Heard(latest, ip, mac)
      /\ masked' = (masked \/ (ip = Unspecified /\ Search(ndp_table, ip) = {}))
  BY DEF Learn, Heard
<1>2. ndp_table' \in Tables /\ latest' \in LatestMACs /\ masked' \in BOOLEAN
  BY <1>1, UpdateType, HeardType DEF NdpInv
<1>3. ASSUME ~masked' PROVE Known(ndp_table', latest')
  BY <1>1, <1>3, UpdateKnown DEF NdpInv
<1> QED BY <1>2, <1>3 DEF NdpInv

\* An advertisement enters its sender and its target.
LEMMA AdvertisementKeeps ==
  ASSUME NdpInv, NEW ip \in Hosts, NEW mac \in MACs, NEW destIP,
         NEW target \in Hosts, NEW target_mac \in MACs,
         parse_na(ip, mac, destIP, target, target_mac)
  PROVE  NdpInv'
<1> DEFINE t == UpdateNdpTable(ndp_table, ip, mac)
           l == Heard(latest, ip, mac)
<1>1. /\ ndp_table' = UpdateNdpTable(t, target, target_mac)
      /\ latest' = Heard(l, target, target_mac)
      /\ masked' = masked
  BY DEF parse_na, Heard
<1>2. t \in Tables /\ l \in LatestMACs
  BY UpdateType, HeardType DEF NdpInv
<1>3. ndp_table' \in Tables /\ latest' \in LatestMACs /\ masked' \in BOOLEAN
  BY <1>1, <1>2, UpdateType, HeardType DEF NdpInv
<1>4. Unspecified \notin Hosts
  BY EthStackAssumption
<1>5. ASSUME ~masked' PROVE Known(ndp_table', latest')
  <2>1. Known(t, l)
    BY <1>1, <1>4, <1>5, UpdateKnown DEF NdpInv
  <2> HIDE DEF t, l
  <2> QED BY <1>1, <1>2, <1>4, <2>1, UpdateKnown
<1> QED BY <1>3, <1>5 DEF NdpInv

\* NdpInv is an inductive invariant.
THEOREM TableHolds == Spec => []NdpInv
<1>1. Init => NdpInv
  <2> SUFFICES ASSUME Init PROVE NdpInv
    OBVIOUS
  <2>1. \A i \in Entries : /\ ndp_table.item[i].ip_address = Unspecified
                           /\ i >= ndp_table.p
    BY EthStackAssumption DEF Init, Entries
  <2>2. ndp_table \in Tables /\ latest \in LatestMACs /\ masked \in BOOLEAN
    <3>1. 0 \in Entries
      BY EthStackAssumption DEF Entries
    <3>2. [ip_address |-> Unspecified, hwaddr |-> NoMAC] \in Items
      BY DEF Items
    <3>3. ndp_table \in Tables
      BY <3>1, <3>2 DEF Init, Tables
    <3> QED BY <3>3 DEF Init, LatestMACs
  <2> QED BY <2>1, <2>2, EthStackAssumption
          DEF NdpInv, Known, Distinct, Current, Filling
<1>2. NdpInv /\ [Next]_vars => NdpInv'
  <2> SUFFICES ASSUME NdpInv, [Next]_vars PROVE NdpInv'
    OBVIOUS
  <2>1. CASE UNCHANGED <<ndp_table, latest, masked>>
    BY <2>1 DEF NdpInv
  <2>2. ASSUME NEW s \in Senders, Receive(s[1], s[2]) PROVE NdpInv'
    <3>1. s[1] \in Hosts \cup {Unspecified} /\ s[2] \in MACs
      BY EthStackAssumption
    <3>2. CASE Learn(s[1], s[2])
      BY <3>1, <3>2, LearnKeeps
    <3>3. CASE s[1] # Unspecified /\ \E destIP \in Prefixes, target \in Hosts, target_mac \in MACs :
                 parse_na(s[1], s[2], destIP, target, target_mac)
      BY <3>1, <3>3, AdvertisementKeeps
    <3> QED BY <2>2, <3>2, <3>3
            DEF Receive, Ignored, Answered, send_echo, EchoRequest, parse_ns,
                TimestampReply, parse_ra
  <2>3. CASE ETH_Set_Prefix
    BY <2>1, <2>3 DEF ETH_Set_Prefix
  <2>4. CASE \E destIP \in Hosts : BeginSend(destIP) \/ ETH_NS_Send(destIP)
    BY <2>1, <2>4 DEF BeginSend, ETH_NS_Send, stackVars
  <2>5. CASE CopyHigh \/ FinishSend
    BY <2>1, <2>5 DEF CopyHigh, FinishSend
  <2>6. CASE Handle
    BY <2>1, <2>6 DEF Handle, stackVars
  <2>7. CASE UNCHANGED vars
    BY <2>1, <2>7 DEF vars, stackVars
  <2> QED BY <2>2, <2>3, <2>4, <2>5, <2>6, <2>7 DEF Next
<1> QED BY <1>1, <1>2, PTL DEF Spec

\* For every size of the table and any number of hosts: until :: is given an
\* entry, a search finds whoever is in the table, with the hardware address
\* last heard (eth_ndp.c:23-60).
THEOREM NeighboursStayKnown == Spec => []NeighboursKnown
<1>1. NdpInv => NeighboursKnown
  <2> SUFFICES ASSUME NdpInv, ~masked, NEW h \in Hosts
               PROVE  /\ {i \in Entries : ndp_table.item[i].ip_address = h}
                           = Search(ndp_table, h)
                      /\ \A i \in {i \in Entries : ndp_table.item[i].ip_address = h} :
                           ndp_table.item[i].hwaddr = latest[h]
    BY DEF NeighboursKnown
  <2>1. ndp_table \in Tables /\ Known(ndp_table, latest)
    BY DEF NdpInv
  <2> QED BY <2>1, SearchFinds DEF Known, Current
<1> QED BY <1>1, TableHolds, PTL

-----------------------------------------------------------------------------
(* What the main loop composes, while the interrupt handler moves the      *)
(* neighbours that its pointers point at.                                  *)

HardwareAddresses == MACs \cup {NoMAC}
Instances == [router_mac_address : HardwareAddresses,
              global_prefix : GlobalPrefixes \cup {NoAddress},
              local_prefix : LocalPrefixes \cup {NoAddress}]
Options == [prefix : Prefixes, source_mac : MACs, length : {0, 1}]
Packets == [destIP : Hosts, hwAddr : Entries \cup {Router}, high : HardwareAddresses,
            copying : BOOLEAN, valid : SUBSET HardwareAddresses, replaced : BOOLEAN]

\* Where the pointer of a packet points, its destination is now.
Addressed(c) ==
  ~c.replaced /\ ~masked =>
    /\ PointedAt(c.hwAddr) \in c.valid
    /\ c.hwAddr # Router => ndp_table.item[c.hwAddr].ip_address = c.destIP
    /\ c.copying => c.high \in c.valid

StackTypes ==
  /\ eth_instance \in Instances
  /\ ntp_time_is_set \in BOOLEAN
  /\ options \in Seq(Options)
  /\ composing \subseteq Packets
  /\ \A c, d \in composing : c = d

ComposingInv == StackTypes /\ \A c \in composing : Addressed(c)

\* The pointer to the router's address is not one into the table.
LEMMA RouterApart == Router \notin Entries
  BY EthStackAssumption DEF Router, Entries

\* What a pointer points at is a hardware address, in a table entry that is
\* known to be its host's the one that the host gave last.
LEMMA PointedAtType ==
  ASSUME NdpInv, eth_instance \in Instances, NEW a \in Entries \cup {Router}
  PROVE  /\ PointedAt(a) \in HardwareAddresses
         /\ a \in Entries /\ ~masked /\ ndp_table.item[a].ip_address \in Hosts =>
              PointedAt(a) = latest[ndp_table.item[a].ip_address]
  BY RouterApart DEF NdpInv, Tables, Items, Instances, HardwareAddresses, PointedAt,
     Known, Current

\* The same after a step.
LEMMA PointedAtTypeNext ==
  ASSUME NdpInv', eth_instance' \in Instances, NEW a \in Entries \cup {Router}
  PROVE  /\ PointedAt(a)' \in HardwareAddresses
         /\ a \in Entries /\ ~masked' /\ ndp_table'.item[a].ip_address \in Hosts =>
              PointedAt(a)' = latest'[ndp_table'.item[a].ip_address]
  BY RouterApart DEF NdpInv, Tables, Items, Instances, HardwareAddresses, PointedAt,
     Known, Current

\* Whatever the interrupt handler learns, the packet's valid addresses follow.
LEMMA ObserveKeeps ==
  ASSUME ComposingInv, NdpInv', eth_instance' \in Instances, masked => masked', Observe
  PROVE  /\ composing' \subseteq Packets /\ \A c \in composing' : Addressed(c)'
         /\ \A c, d \in composing' : c = d
<1>0. \A c, d \in composing' : c = d
  <2> DEFINE moved(c) ==
        [c EXCEPT !.valid = @ \cup IF c.hwAddr = Router
                                   THEN {eth_instance'.router_mac_address}
                                   ELSE {latest'[c.destIP]},
                  !.replaced = @ \/ /\ c.hwAddr # Router
                                    /\ ndp_table'.item[c.hwAddr].ip_address # c.destIP]
  <2>1. composing' = {moved(c) : c \in composing}
    BY DEF Observe
  <2> HIDE DEF moved
  <2> QED BY <2>1 DEF ComposingInv, StackTypes
<1> SUFFICES ASSUME NEW d \in composing' PROVE d \in Packets /\ Addressed(d)'
  BY <1>0
<1> DEFINE news(c) == IF c.hwAddr = Router THEN {eth_instance'.router_mac_address}
                      ELSE {latest'[c.destIP]}
           other(c) == /\ c.hwAddr # Router
                       /\ ndp_table'.item[c.hwAddr].ip_address # c.destIP
<1>1. PICK c \in composing :
        d = [c EXCEPT !.valid = @ \cup news(c), !.replaced = @ \/ other(c)]
  BY DEF Observe
<1>2. c \in Packets /\ Addressed(c)
  BY DEF ComposingInv, StackTypes
<1>3. news(c) \subseteq HardwareAddresses
  BY <1>2 DEF NdpInv, LatestMACs, HardwareAddresses, Instances, Packets
<1>4. PointedAt(c.hwAddr)' \in news(c) \/ other(c) \/ masked'
  <2>1. CASE c.hwAddr = Router
    BY <2>1 DEF PointedAt
  <2>2. CASE c.hwAddr # Router
    BY <1>2, <2>2, PointedAtTypeNext DEF Packets
  <2> QED BY <2>1, <2>2
<1> HIDE DEF news
<1>5. other(c) \in BOOLEAN
  OBVIOUS
<1>6. other(c) = (c.hwAddr # Router /\ ndp_table'.item[c.hwAddr].ip_address # c.destIP)
  OBVIOUS
<1> HIDE DEF other
<1>7. /\ d \in Packets
      /\ d.destIP = c.destIP /\ d.hwAddr = c.hwAddr
      /\ d.high = c.high /\ d.copying = c.copying
      /\ d.valid = c.valid \cup news(c)
      /\ d.replaced = (c.replaced \/ other(c))
  BY <1>1, <1>2, <1>3, <1>5 DEF Packets
<1>8. ASSUME ~d.replaced, ~masked'
      PROVE  /\ PointedAt(d.hwAddr)' \in d.valid
             /\ d.hwAddr # Router => ndp_table'.item[d.hwAddr].ip_address = d.destIP
             /\ d.copying => d.high \in d.valid
  BY <1>2, <1>4, <1>6, <1>7, <1>8 DEF Addressed
<1> QED BY <1>7, <1>8 DEF Addressed

\* A packet that is handled learns the sender, and nothing else of the stack
\* but the time and the options changes.
LEMMA ReceiveKeeps ==
  ASSUME ComposingInv, NdpInv', NEW s \in Senders, Receive(s[1], s[2])
  PROVE  ComposingInv'
<1>1. /\ Observe /\ eth_instance' = eth_instance
      /\ masked => masked'
      /\ ntp_time_is_set' = ntp_time_is_set \/ ntp_time_is_set' = TRUE
  <2>1. CASE Ignored(s[1], s[2])
    BY <2>1 DEF Ignored, Learn
  <2>2. CASE Answered(s[1], s[2])
    BY <2>2 DEF Answered, Learn
  <2>3. CASE \E destIP \in Prefixes : TimestampReply(s[1], s[2], destIP)
    BY <2>3 DEF TimestampReply, Learn
  <2>4. CASE \E destIP \in Prefixes, target \in Hosts, target_mac \in MACs :
               parse_na(s[1], s[2], destIP, target, target_mac)
    BY <2>4 DEF parse_na
  <2>5. CASE \E prefixes \in UNION {[1..n -> Prefixes] : n \in 1..MaxOptions},
                endless \in BOOLEAN : parse_ra(s[1], s[2], prefixes, endless)
    BY <2>5 DEF parse_ra, Learn
  <2> QED BY <2>1, <2>2, <2>3, <2>4, <2>5 DEF Receive, send_echo, EchoRequest, parse_ns
<1>2. options' \in Seq(Options)
  <2>1. CASE options' = options
    BY <2>1 DEF ComposingInv, StackTypes
  <2>2. ASSUME NEW n \in 1..MaxOptions, NEW prefixes \in [1..n -> Prefixes],
               NEW endless \in BOOLEAN,
               options' = [i \in 1..Len(prefixes) |->
                             [prefix |-> prefixes[i], source_mac |-> s[2],
                              length |-> IF endless /\ i = Len(prefixes) THEN 0 ELSE 1]]
        PROVE  options' \in Seq(Options)
    <3>1. n \in Nat /\ prefixes \in Seq(Prefixes) /\ Len(prefixes) = n
      BY EthStackAssumption
    <3>2. s[2] \in MACs
      BY EthStackAssumption
    <3>3. \A i \in 1..n : [prefix |-> prefixes[i], source_mac |-> s[2],
                            length |-> IF endless /\ i = Len(prefixes) THEN 0 ELSE 1]
                             \in Options
      BY <3>2 DEF Options
    <3> QED BY <2>2, <3>1, <3>3
  <2> QED BY <2>1, <2>2
          DEF Receive, Ignored, Answered, send_echo, EchoRequest, parse_ns,
              TimestampReply, parse_na, parse_ra
<1>3. eth_instance' \in Instances /\ ntp_time_is_set' \in BOOLEAN
  BY <1>1 DEF ComposingInv, StackTypes
<1> QED BY <1>1, <1>2, <1>3, ObserveKeeps DEF ComposingInv, StackTypes

\* A prefix of a router advertisement, with our address under it.
LEMMA SetPrefixKeeps ==
  ASSUME ComposingInv, NdpInv', ETH_Set_Prefix
  PROVE  ComposingInv'
<1>1. options \in Seq(Options) /\ options # <<>> /\ eth_instance \in Instances
  BY DEF ComposingInv, StackTypes, ETH_Set_Prefix, Parsing
<1>2. Head(options) \in Options /\ options' \in Seq(Options)
  BY <1>1 DEF ETH_Set_Prefix
<1>3. eth_instance' \in Instances
  BY <1>1, <1>2 DEF ETH_Set_Prefix, SetPrefix, Instances, Options, Prefixes,
                    HardwareAddresses
<1> QED BY <1>2, <1>3, ObserveKeeps DEF ETH_Set_Prefix, ComposingInv, StackTypes

\* The pointer is taken ...
LEMMA BeginSendKeeps ==
  ASSUME ComposingInv, NdpInv, NEW destIP \in Hosts, BeginSend(destIP)
  PROVE  ComposingInv'
<1> DEFINE a == GetHWAddr(destIP)
           addresses == {IF a = Router THEN PointedAt(Router) ELSE latest[destIP]}
           packet == [destIP |-> destIP, hwAddr |-> a, high |-> NoMAC,
                      copying |-> FALSE, valid |-> addresses, replaced |-> FALSE]
<1>1. composing' = {packet}
  BY DEF BeginSend
<1>2. a \in Entries \cup {Router} /\ (a # Router => ndp_table.item[a].ip_address = destIP)
  BY RouterApart DEF GetHWAddr, Search
<1>3. eth_instance \in Instances
  BY DEF ComposingInv, StackTypes
<1>4. addresses \subseteq HardwareAddresses
  BY <1>2, <1>3, PointedAtType DEF NdpInv, LatestMACs, HardwareAddresses
<1>5. ~masked => PointedAt(a) \in addresses
  BY <1>2, <1>3, PointedAtType
<1> HIDE DEF a, addresses
<1>6. packet \in Packets
  BY <1>2, <1>4 DEF Packets, HardwareAddresses
<1> PICK d : d = packet
  OBVIOUS
<1>7. UNCHANGED <<ndp_table, eth_instance, ntp_time_is_set, options, masked>>
  BY DEF BeginSend
<1>8. Addressed(d)
  BY <1>2, <1>5 DEF Addressed
<1>9. Addressed(d)'
  BY <1>7, <1>8 DEF Addressed, PointedAt
<1> QED BY <1>1, <1>6, <1>7, <1>9 DEF ComposingInv, StackTypes

\* ... and a part of the hardware address copied.
LEMMA CopyHighKeeps ==
  ASSUME ComposingInv, NdpInv, CopyHigh
  PROVE  ComposingInv'
<1>1. PICK c \in composing :
        composing' = {[c EXCEPT !.high = PointedAt(c.hwAddr), !.copying = TRUE]}
  BY DEF CopyHigh
<1> PICK d : d = [c EXCEPT !.high = PointedAt(c.hwAddr), !.copying = TRUE]
  OBVIOUS
<1>2. c \in Packets /\ Addressed(c) /\ eth_instance \in Instances
  BY DEF ComposingInv, StackTypes
<1>3. PointedAt(c.hwAddr) \in HardwareAddresses
  BY <1>2, PointedAtType DEF Packets
<1>4. /\ d \in Packets
      /\ d.destIP = c.destIP /\ d.hwAddr = c.hwAddr
      /\ d.high = PointedAt(c.hwAddr)
      /\ d.valid = c.valid /\ d.replaced = c.replaced
  BY <1>2, <1>3 DEF Packets
<1>5. UNCHANGED <<ndp_table, eth_instance, ntp_time_is_set, options, masked>>
  BY DEF CopyHigh
<1>6. Addressed(d)
  BY <1>2, <1>4 DEF Addressed
<1>7. Addressed(d)'
  BY <1>5, <1>6 DEF Addressed, PointedAt
<1>8. composing' = {d}
  BY <1>1
<1> QED BY <1>4, <1>5, <1>7, <1>8 DEF ComposingInv, StackTypes

\* ComposingInv is an invariant, given the table's.
THEOREM ComposingHolds == Spec => []ComposingInv
<1>1. Init => ComposingInv
  <2> SUFFICES ASSUME Init PROVE ComposingInv
    OBVIOUS
  <2>1. <<>> \in Seq(Options)
    OBVIOUS
  <2>2. eth_instance \in Instances
    BY DEF Init, Instances, HardwareAddresses
  <2> QED BY <2>1, <2>2 DEF Init, ComposingInv, StackTypes
<1>2. ComposingInv /\ NdpInv /\ NdpInv' /\ [Next]_vars => ComposingInv'
  <2> SUFFICES ASSUME ComposingInv, NdpInv, NdpInv', [Next]_vars PROVE ComposingInv'
    OBVIOUS
  <2>1. CASE UNCHANGED stackVars
    BY <2>1 DEF stackVars, ComposingInv, StackTypes, Addressed, PointedAt
  <2>2. CASE \E s \in Senders : Receive(s[1], s[2])
    BY <2>2, ReceiveKeeps
  <2>3. CASE ETH_Set_Prefix
    BY <2>3, SetPrefixKeeps
  <2>4. CASE \E destIP \in Hosts : BeginSend(destIP) \/ ETH_NS_Send(destIP)
    BY <2>1, <2>4, BeginSendKeeps DEF ETH_NS_Send
  <2>5. CASE CopyHigh
    BY <2>5, CopyHighKeeps
  <2>6. CASE FinishSend
    BY <2>6 DEF FinishSend, ComposingInv, StackTypes
  <2>7. CASE Handle \/ UNCHANGED vars
    BY <2>1, <2>7 DEF Handle, vars
  <2> QED BY <2>2, <2>3, <2>4, <2>5, <2>6, <2>7 DEF Next
<1> QED BY <1>1, <1>2, TableHolds, PTL DEF Spec

\* For every interleaving of the interrupt handler with the copying of the
\* hardware address: unless the table's entry was given to another host, each
\* part of it is one that the destination, or the router, had since the
\* pointer was taken (eth_udp.c:51-60).
THEOREM AlwaysWellAddressed == Spec => WellAddressed
<1>1. ComposingInv => [FinishSend =>
        \A c \in composing :
          ~c.replaced /\ ~masked => {c.high, PointedAt(c.hwAddr)} \subseteq c.valid]_vars
  <2> SUFFICES ASSUME ComposingInv, FinishSend, NEW c \in composing,
                      ~c.replaced, ~masked
               PROVE  {c.high, PointedAt(c.hwAddr)} \subseteq c.valid
    OBVIOUS
  <2>1. Addressed(c)
    BY DEF ComposingInv
  <2>2. c.copying
    BY DEF FinishSend, ComposingInv, StackTypes
  <2> QED BY <2>1, <2>2 DEF Addressed
<1> QED BY <1>1, ComposingHolds, PTL DEF WellAddressed

-----------------------------------------------------------------------------
(* Types.                                                                  *)

\* The slot that is being sent is one of its queue's.
LEMMA FlightSlots ==
  ASSUME RingInv
  PROVE  \A s \in sending : handler \in Queues /\ s.slot \in Slots(handler)
<1> SUFFICES ASSUME NEW s \in sending PROVE handler \in Queues /\ s.slot \in Slots(handler)
  OBVIOUS
<1>1. handler \in Queues
  BY DEF RingInv, Domains
<1>2. rx_head[handler] \in Slots(handler) /\ s.slot = Back(handler, rx_head[handler], 1)
  BY <1>1 DEF RingInv, Ring, Heads, Flight
<1> QED BY <1>1, <1>2, SizeType DEF Back, Slots

\* A slot holds a packet that was added, or none.
Stored ==
  /\ handler \in Queues \cup {MainLoop}
  /\ \A q \in Queues : \A s \in Slots(q) : buffer[q][s] \in 0..added[q]

LEMMA StoredKept ==
  ASSUME RingInv, RingInv', Stored, [Next]_vars
  PROVE  Stored'
<1>1. \A q \in Queues : added[q] \in Nat
  BY DEF RingInv, Ring, Heads
<1>2. ASSUME NEW q \in Queues, Add(q) PROVE Stored'
  <2>1. handler' = handler
    BY <1>2 DEF Add
  <2>2. ASSUME NEW o \in Queues, NEW s \in Slots(o) PROVE buffer'[o][s] \in 0..added'[o]
    <3>1. buffer' = [buffer EXCEPT ![q][tx_head[q]] = added[q] + 1]
      BY <1>2 DEF Add
    <3>2. added' = [added EXCEPT ![q] = @ + 1]
      BY <1>2 DEF Add
    <3>3. buffer[o][s] \in 0..added[o]
      BY <2>2 DEF Stored
    <3>4. DOMAIN buffer = Queues /\ DOMAIN added = Queues /\ DOMAIN buffer[o] = Slots(o)
      BY <2>2 DEF RingInv, Domains, Ring, Heads
    <3>5. CASE o = q
      <4>1. added'[o] = added[o] + 1
        BY <3>2, <3>4, <3>5
      <4>2. buffer'[o][s] = IF s = tx_head[q] THEN added[o] + 1 ELSE buffer[o][s]
        BY <2>2, <3>1, <3>4, <3>5
      <4> QED BY <1>1, <3>3, <4>1, <4>2
    <3>6. CASE o # q
      BY <3>1, <3>2, <3>3, <3>4, <3>6
    <3> QED BY <3>5, <3>6
  <2> QED BY <2>1, <2>2 DEF Stored
<1>3. CASE ETH_Handler
  BY <1>3 DEF ETH_Handler, Enter, Poll, Send, Leave, Stored, Queues
<1>4. CASE UNCHANGED queueVars
  BY <1>4 DEF queueVars, Stored
<1> QED BY <1>2, <1>3, <1>4, QueueSteps

\* The variables keep their types: the slot being sent, the entry that the
\* table replaces next and every pointer of the main loop are within bounds
\* (queue.c:12-50, eth_ndp.c:23-60).
THEOREM TypeCorrect == Spec => []TypeOK
<1>1. Init => Stored
  BY DEF Init, QueueInit, Stored, Queues
<1>2. RingInv /\ RingInv' /\ Stored /\ [Next]_vars => Stored'
  BY StoredKept
<1>3. RingInv /\ Stored /\ NdpInv /\ ComposingInv => TypeOK
  <2> SUFFICES ASSUME RingInv, Stored, NdpInv, ComposingInv PROVE TypeOK
    OBVIOUS
  <2>1. handler = MainLoop => sending = {}
    BY DEF RingInv, Domains, MainLoop, Queues, IRQ, USER
  <2>2. QueueTypeOK
    BY <2>1, FlightSlots DEF QueueTypeOK, Stored, RingInv, Ring, Heads
  <2>3. \A c \in composing : c.hwAddr \in Entries \cup {Router}
    BY DEF ComposingInv, StackTypes, Packets
  <2> QED BY <2>2, <2>3 DEF TypeOK, NdpInv, Tables, LatestMACs, ComposingInv, StackTypes,
                           Instances, HardwareAddresses
<1> QED BY <1>1, <1>2, <1>3, RingsHold, TableHolds, ComposingHolds, PTL DEF Spec

-----------------------------------------------------------------------------
(* The radio: what holds of the nRF24L01 driver for every number of polls, *)
(* calls and failing transfers and every depth of the chip's FIFO.         *)

Chips == [config : Configs, fifo : Seq(Nat), flight : Nat,
          tx_ds : BOOLEAN, max_rt : BOOLEAN, retransmit : BOOLEAN]

Steps == {"idle", "registers", "flush_init", "fifo", "poll", "clear_flags",
          "receive", "flush"}

\* The payloads are numbered in the order of the calls.
TypeInv ==
  /\ nrf24_configByte \in Configs
  /\ chip \in Chips
  /\ payload \in Nat
  /\ \A i \in 1..Len(chip.fifo) : chip.fifo[i] \in 1..payload
  /\ chip.flight \in 0..payload
  /\ last_sent \in 0..payload
  /\ ce \in BOOLEAN
  /\ pc \in Steps
  /\ pc = "fifo" => payload > 0
  /\ doubt \in BOOLEAN /\ late \in BOOLEAN

-----------------------------------------------------------------------------
(* The invariant.                                                          *)

\* The payload of the call in progress has gone out ...
WentOut ==
  /\ chip.fifo = <<>> /\ chip.flight = None
  /\ chip.tx_ds /\ ~ chip.max_rt
  /\ last_sent = payload

\* ... or is waiting, being sent, or given up.
Underway ==
  /\ chip.fifo = <<payload>> /\ chip.flight \in {None, payload}
  /\ ~ chip.tx_ds
  /\ chip.max_rt => chip.flight = None
  /\ last_sent < payload

\* Behind the loop nothing is being sent, and nothing starts to be.
Stopped ==
  /\ ~ ce /\ ~ chip.config.rx /\ chip.flight = None
  /\ rc \in {"sent", "max_rt", "timeout"}
  /\ rc = "sent" => chip.fifo = <<>> /\ last_sent = payload

ConfigInv ==
  /\ chip.flight # None => chip.config.up /\ ~ chip.config.rx
  /\ pc \in {"registers", "flush_init"} => ~ chip.config.up /\ doubt
  /\ pc = "flush_init" => NoFlags
  /\ pc # "idle" => out = "none"

\* What each step of nrf24_transmit can count on.
CallInv ==
  /\ ~ late
  /\ pc = "idle" => /\ Clean
                    /\ out = "sent" => last_sent = payload
                    /\ out \in {"sent", "max_rt", "timeout"} => chip.config.rx /\ ce
  /\ pc = "fifo" => Clean /\ ~ ce /\ ~ chip.config.rx /\ last_sent < payload
  /\ pc = "poll" => ~ chip.config.rx /\ (WentOut \/ Underway)
  /\ pc = "clear_flags" => Stopped
  /\ pc = "receive" => Stopped /\ NoFlags
  /\ pc = "flush" => /\ ce /\ chip.config.rx /\ chip.flight = None /\ NoFlags
                     /\ rc \in {"max_rt", "timeout"}

IInv == TypeInv /\ ConfigInv /\ (~ doubt => CallInv)

-----------------------------------------------------------------------------
(* The transfers.                                                          *)

LEMMA WithConfigChip ==
  ASSUME TypeInv, NEW config \in Configs
  PROVE  /\ WithConfig(config) \in Chips
         /\ WithConfig(config).config = config
         /\ WithConfig(config).flight =
              IF config.up /\ ~ config.rx THEN chip.flight ELSE None
         /\ WithConfig(config).fifo = chip.fifo
         /\ WithConfig(config).tx_ds = chip.tx_ds
         /\ WithConfig(config).max_rt = chip.max_rt
BY DEF WithConfig, TypeInv, Chips, None

LEMMA WithoutFlagsChip ==
  ASSUME TypeInv
  PROVE  /\ WithoutFlags \in Chips
         /\ WithoutFlags.config = chip.config
         /\ WithoutFlags.flight = chip.flight
         /\ WithoutFlags.fifo = chip.fifo
         /\ ~ WithoutFlags.tx_ds /\ ~ WithoutFlags.max_rt
BY DEF WithoutFlags, TypeInv, Chips

LEMMA FlushedChip ==
  ASSUME TypeInv
  PROVE  /\ Flushed \in Chips
         /\ Flushed.config = chip.config
         /\ Flushed.flight = chip.flight
         /\ Flushed.fifo = <<>>
         /\ Flushed.tx_ds = chip.tx_ds /\ Flushed.max_rt = chip.max_rt
<1>1. <<>> \in Seq(Nat) /\ chip \in Chips
  BY DEF TypeInv
<1>2. QED
  BY <1>1 DEF Flushed, Chips

LEMMA ResetType == ResetConfig \in Configs
BY DEF ResetConfig, Configs

-----------------------------------------------------------------------------
(* nrf24_Init.                                                             *)

LEMMA InitialState == RadioInit => IInv
<1>1. SUFFICES ASSUME RadioInit PROVE IInv
  OBVIOUS
<1>2. TypeInv
  <2>1. <<>> \in Seq(Nat)
    OBVIOUS
  <2>2. chip \in Chips /\ chip.fifo = <<>> /\ chip.flight = 0
    BY <1>1, <2>1, ResetType DEF RadioInit, Chips, None
  <2>3. \A i \in 1..Len(chip.fifo) : chip.fifo[i] \in 1..payload
    <3>1. Len(chip.fifo) = 0
      BY <2>2
    <3>2. QED
      BY <3>1
  <2>4. /\ payload \in Nat /\ last_sent \in 0..payload /\ chip.flight \in 0..payload
        /\ pc \in Steps /\ pc # "fifo" /\ nrf24_configByte \in Configs
    BY <1>1, <2>2, ResetType DEF RadioInit, Steps, None
  <2>5. ce \in BOOLEAN /\ doubt \in BOOLEAN /\ late \in BOOLEAN
    BY <1>1, Zenon DEF RadioInit
  <2>6. QED
    BY <2>2, <2>3, <2>4, <2>5 DEF TypeInv
<1>3. ConfigInv
  BY <1>1 DEF RadioInit, ConfigInv, None
<1>4. QED
  BY <1>1, <1>2, <1>3 DEF RadioInit, IInv

LEMMA InitConfigRegisterInv ==
  ASSUME IInv, NEW flag \in BOOLEAN, NEW done \in BOOLEAN, InitConfigRegister(flag, done)
  PROVE  IInv'
<1>1. PICK config : config = [ResetConfig EXCEPT !.crc2 = flag]
  OBVIOUS
<1>2. config \in Configs /\ ~ config.up /\ ~ config.rx
  BY <1>1 DEF ResetConfig, Configs
<1>3. PICK wanted \in Chips : wanted = WithConfig(config) /\ wanted.config = config
        /\ wanted.flight = None /\ wanted.fifo = chip.fifo
  BY <1>2, WithConfigChip DEF IInv
<1>4. /\ chip' = wanted \/ (~ done /\ chip' = chip)
      /\ nrf24_configByte' = IF done THEN config ELSE ResetConfig
      /\ doubt' /\ doubt' = TRUE
      /\ pc' = IF done THEN "registers" ELSE "idle"
      /\ out' = "none"
      /\ UNCHANGED <<ce, payload, last_sent, late>>
  BY <1>1, <1>3 DEF InitConfigRegister, WriteConfig, Transfer
<1>5. TypeInv'
  BY <1>2, <1>3, <1>4, ResetType DEF IInv, TypeInv, Steps, None
<1>6. ConfigInv'
  BY <1>2, <1>3, <1>4 DEF IInv, ConfigInv, None
<1>7. QED
  BY <1>4, <1>5, <1>6 DEF IInv

LEMMA InitRegistersInv ==
  ASSUME IInv, NEW done \in BOOLEAN, InitRegisters(done)
  PROVE  IInv'
<1>1. PICK wanted \in Chips : wanted = [WithoutFlags EXCEPT !.retransmit = FALSE]
        /\ wanted.config = chip.config /\ wanted.flight = chip.flight
        /\ wanted.fifo = chip.fifo /\ ~ wanted.tx_ds /\ ~ wanted.max_rt
  <2>1. PICK d \in Chips : d = WithoutFlags /\ d.config = chip.config
          /\ d.flight = chip.flight /\ d.fifo = chip.fifo /\ ~ d.tx_ds /\ ~ d.max_rt
    BY WithoutFlagsChip DEF IInv
  <2>2. PICK w : w = [d EXCEPT !.retransmit = FALSE]
    OBVIOUS
  <2>3. /\ w \in Chips /\ w.config = d.config /\ w.flight = d.flight /\ w.fifo = d.fifo
        /\ w.tx_ds = d.tx_ds /\ w.max_rt = d.max_rt
    BY <2>2 DEF Chips
  <2>4. QED
    BY <2>1, <2>2, <2>3
<1>2. /\ chip' = wanted \/ (~ done /\ chip' = chip)
      /\ pc = "registers" /\ pc' = IF done THEN "flush_init" ELSE "idle"
      /\ UNCHANGED <<nrf24_configByte, ce, payload, out, last_sent, late, doubt>>
  BY <1>1 DEF InitRegisters, Transfer
<1>3. TypeInv'
  BY <1>1, <1>2 DEF IInv, TypeInv, Steps
<1>4. ConfigInv'
  BY <1>1, <1>2 DEF IInv, ConfigInv, NoFlags
<1>5. doubt' = TRUE
  BY <1>2 DEF IInv, ConfigInv, TypeInv
<1>6. QED
  BY <1>3, <1>4, <1>5 DEF IInv

LEMMA InitFlushInv ==
  ASSUME IInv, NEW done \in BOOLEAN, InitFlush(done)
  PROVE  IInv'
<1>1. PICK wanted \in Chips : wanted = Flushed
        /\ wanted.config = chip.config /\ wanted.flight = chip.flight
        /\ wanted.fifo = <<>> /\ wanted.tx_ds = chip.tx_ds /\ wanted.max_rt = chip.max_rt
  BY FlushedChip DEF IInv
<1>2. /\ chip' = wanted \/ (~ done /\ chip' = chip)
      /\ pc = "flush_init" /\ pc' = "idle"
      /\ doubt' = ~ done /\ late' = (late /\ ~ done)
      /\ UNCHANGED <<nrf24_configByte, ce, payload, out, last_sent>>
  BY <1>1 DEF InitFlush, Transfer
<1>3. TypeInv'
  BY <1>1, <1>2 DEF IInv, TypeInv, Steps
<1>4. ConfigInv'
  BY <1>1, <1>2 DEF IInv, ConfigInv
<1>5. ASSUME ~ doubt' PROVE CallInv'
  <2>1. done /\ chip' = wanted /\ ~ late'
    BY <1>2, <1>5
  <2>2. chip.flight = None /\ NoFlags /\ out = "none"
    BY <1>2 DEF IInv, ConfigInv
  <2>3. Clean'
    BY <1>1, <2>1, <2>2 DEF Clean, NoFlags
  <2>4. QED
    BY <1>2, <2>1, <2>2, <2>3 DEF CallInv
<1>6. QED
  BY <1>3, <1>4, <1>5 DEF IInv

LEMMA InitInvalidInv ==
  ASSUME IInv, InitInvalid
  PROVE  IInv'
<1>1. /\ pc = "registers" /\ pc' = "idle"
      /\ UNCHANGED <<nrf24_configByte, ce, payload, out, chip, last_sent, late, doubt>>
  BY DEF InitInvalid, history
<1>2. TypeInv' /\ ConfigInv'
  BY <1>1 DEF IInv, TypeInv, Steps, ConfigInv
<1>3. doubt'
  BY <1>1 DEF IInv, ConfigInv
<1>4. QED
  BY <1>2, <1>3 DEF IInv

-----------------------------------------------------------------------------
(* nrf24_powerControl, nrf24_RX, nrf24_setRetransmit.                      *)

LEMMA ConfigEdits ==
  ASSUME NEW c \in Configs, NEW b \in BOOLEAN
  PROVE  /\ [c EXCEPT !.up = b] \in Configs /\ [c EXCEPT !.rx = b] \in Configs
         /\ [c EXCEPT !.rx = b].rx = b /\ [c EXCEPT !.up = b].up = b
         /\ [c EXCEPT !.up = b].rx = c.rx
BY DEF Configs

\* A write of CONFIG between two steps or at the end of one.
LEMMA WriteConfigInv ==
  ASSUME IInv, NEW config \in Configs, NEW done \in BOOLEAN,
         WriteConfig(config, nrf24_configByte, done)
  PROVE  /\ chip' \in Chips /\ nrf24_configByte' \in Configs
         /\ chip'.flight # None => chip'.config.up /\ ~ chip'.config.rx
         /\ chip'.fifo = chip.fifo /\ chip'.flight \in {chip.flight, None}
         /\ chip'.tx_ds = chip.tx_ds /\ chip'.max_rt = chip.max_rt
         /\ done => chip'.config = config
<1>1. PICK wanted \in Chips :
        /\ wanted = WithConfig(config) /\ wanted.config = config
        /\ wanted.flight = IF config.up /\ ~ config.rx THEN chip.flight ELSE None
        /\ wanted.fifo = chip.fifo
        /\ wanted.tx_ds = chip.tx_ds /\ wanted.max_rt = chip.max_rt
  BY WithConfigChip DEF IInv
<1>2. /\ chip' = wanted \/ (~ done /\ chip' = chip)
      /\ nrf24_configByte' = IF done THEN config ELSE nrf24_configByte
  BY <1>1 DEF WriteConfig, Transfer
<1>3. CASE chip' = wanted
  BY <1>1, <1>2, <1>3 DEF IInv, TypeInv, ConfigInv
<1>4. CASE ~ done /\ chip' = chip
  BY <1>2, <1>4 DEF IInv, TypeInv, ConfigInv
<1>5. QED
  BY <1>2, <1>3, <1>4

LEMMA PowerControlInv ==
  ASSUME IInv, NEW up \in BOOLEAN, NEW done \in BOOLEAN, PowerControl(up, done)
  PROVE  IInv'
<1>1. PICK config \in Configs : config = [nrf24_configByte EXCEPT !.up = up]
  BY ConfigEdits DEF IInv, TypeInv
<1>2. WriteConfig(config, nrf24_configByte, done)
  BY <1>1 DEF PowerControl
<1>3. /\ chip' \in Chips /\ nrf24_configByte' \in Configs
      /\ chip'.flight # None => chip'.config.up /\ ~ chip'.config.rx
      /\ chip'.fifo = chip.fifo /\ chip'.flight \in {chip.flight, None}
      /\ chip'.tx_ds = chip.tx_ds /\ chip'.max_rt = chip.max_rt
  BY <1>2, WriteConfigInv
<1>4. /\ pc = "idle" /\ pc' = pc /\ out' = "none"
      /\ ce' = (ce /\ (up \/ ~ done)) /\ doubt' = (doubt \/ ~ done)
      /\ UNCHANGED <<payload, last_sent, late>>
  BY DEF PowerControl, Doubt
<1>5. TypeInv'
  BY <1>3, <1>4 DEF IInv, TypeInv, None
<1>6. ConfigInv'
  BY <1>3, <1>4 DEF ConfigInv
<1>7. ~ doubt' => CallInv'
  BY <1>3, <1>4 DEF IInv, CallInv, Clean, NoFlags
<1>8. QED
  BY <1>5, <1>6, <1>7 DEF IInv

LEMMA RXInv ==
  ASSUME IInv, NEW done \in BOOLEAN, RX(done)
  PROVE  IInv'
<1>1. PICK config \in Configs : config = [nrf24_configByte EXCEPT !.rx = TRUE]
  BY ConfigEdits DEF IInv, TypeInv
<1>2. WriteConfig(config, nrf24_configByte, done)
  BY <1>1 DEF RX, ReceiveMode
<1>3. /\ chip' \in Chips /\ nrf24_configByte' \in Configs
      /\ chip'.flight # None => chip'.config.up /\ ~ chip'.config.rx
      /\ chip'.fifo = chip.fifo /\ chip'.flight \in {chip.flight, None}
      /\ chip'.tx_ds = chip.tx_ds /\ chip'.max_rt = chip.max_rt
  BY <1>2, WriteConfigInv
<1>4. /\ pc = "idle" /\ pc' = pc /\ out' = "none"
      /\ ce' = (ce \/ done) /\ doubt' = (doubt \/ ~ done)
      /\ UNCHANGED <<payload, last_sent, late>>
  BY DEF RX, ReceiveMode, Doubt
<1>5. TypeInv'
  BY <1>3, <1>4 DEF IInv, TypeInv, None
<1>6. ConfigInv'
  BY <1>3, <1>4 DEF ConfigInv
<1>7. ~ doubt' => CallInv'
  BY <1>3, <1>4 DEF IInv, CallInv, Clean, NoFlags
<1>8. QED
  BY <1>5, <1>6, <1>7 DEF IInv

LEMMA SetRetransmitInv ==
  ASSUME IInv, NEW on \in BOOLEAN, NEW done \in BOOLEAN, SetRetransmit(on, done)
  PROVE  IInv'
<1>1. PICK wanted : wanted = [chip EXCEPT !.retransmit = on]
  OBVIOUS
<1>2. /\ wanted \in Chips /\ wanted.config = chip.config /\ wanted.fifo = chip.fifo
      /\ wanted.flight = chip.flight
      /\ wanted.tx_ds = chip.tx_ds /\ wanted.max_rt = chip.max_rt
  BY <1>1 DEF IInv, TypeInv, Chips
<1>3. /\ chip' = wanted \/ chip' = chip
      /\ pc = "idle" /\ pc' = pc /\ out' = "none" /\ doubt' = (doubt \/ ~ done)
      /\ UNCHANGED <<nrf24_configByte, ce, payload, last_sent, late>>
  BY <1>1 DEF SetRetransmit, Transfer, Doubt
<1>4. /\ chip' \in Chips /\ chip'.config = chip.config /\ chip'.fifo = chip.fifo
      /\ chip'.flight = chip.flight
      /\ chip'.tx_ds = chip.tx_ds /\ chip'.max_rt = chip.max_rt
  BY <1>2, <1>3 DEF IInv, TypeInv
<1>5. TypeInv'
  BY <1>3, <1>4 DEF IInv, TypeInv
<1>6. ConfigInv'
  BY <1>3, <1>4 DEF IInv, ConfigInv
<1>7. ~ doubt' => CallInv'
  BY <1>3, <1>4 DEF IInv, CallInv, Clean, NoFlags
<1>8. QED
  BY <1>5, <1>6, <1>7 DEF IInv

-----------------------------------------------------------------------------
(* nrf24_transmit.                                                         *)

LEMMA TransmitTXInv ==
  ASSUME IInv, NEW done \in BOOLEAN, TransmitTX(done)
  PROVE  IInv'
<1>1. PICK config \in Configs : config = [nrf24_configByte EXCEPT !.rx = FALSE]
        /\ ~ config.rx
  BY ConfigEdits DEF IInv, TypeInv
<1>2. WriteConfig(config, nrf24_configByte, done)
  BY <1>1 DEF TransmitTX
<1>3. /\ chip' \in Chips /\ nrf24_configByte' \in Configs
      /\ chip'.flight # None => chip'.config.up /\ ~ chip'.config.rx
      /\ chip'.fifo = chip.fifo /\ chip'.flight \in {chip.flight, None}
      /\ chip'.tx_ds = chip.tx_ds /\ chip'.max_rt = chip.max_rt
      /\ done => chip'.config = config
  BY <1>2, WriteConfigInv
<1>4. /\ pc = "idle" /\ payload' = payload + 1 /\ ce' = FALSE
      /\ IF done THEN pc' = "fifo" /\ out' = "none" ELSE pc' = "idle" /\ out' = "failed"
      /\ doubt' = (doubt \/ ~ done) /\ UNCHANGED <<last_sent, late>>
  BY DEF TransmitTX, Doubt, Return
<1>5. TypeInv'
  <2>1. payload \in Nat /\ payload' \in Nat /\ 0..payload \subseteq 0..payload'
        /\ 1..payload \subseteq 1..payload'
    BY <1>4 DEF IInv, TypeInv
  <2>2. chip'.flight \in 0..payload' /\ last_sent' \in 0..payload'
    BY <1>3, <1>4, <2>1 DEF IInv, TypeInv, None
  <2>3. \A i \in 1..Len(chip'.fifo) : chip'.fifo[i] \in 1..payload'
    BY <1>3, <2>1 DEF IInv, TypeInv
  <2>4. pc' \in Steps /\ ce' \in BOOLEAN /\ doubt' \in BOOLEAN /\ late' \in BOOLEAN
    BY <1>4 DEF IInv, TypeInv, Steps
  <2>5. payload' > 0
    BY <1>4, <2>1
  <2>6. QED
    BY <1>3, <2>1, <2>2, <2>3, <2>4, <2>5 DEF TypeInv
<1>6. ConfigInv'
  BY <1>3, <1>4 DEF ConfigInv
<1>7. ASSUME ~ doubt' PROVE CallInv'
  <2>1. /\ done /\ ~ doubt /\ CallInv
    BY <1>4, <1>7 DEF IInv
  <2>2. Clean /\ ~ late
    BY <1>4, <2>1 DEF CallInv
  <2>3. Clean'
    BY <1>3, <2>2 DEF Clean, NoFlags
  <2>4. last_sent' < payload'
    BY <1>4 DEF IInv, TypeInv
  <2>5. ~ chip'.config.rx
    BY <1>1, <1>3, <2>1
  <2>6. QED
    BY <1>4, <2>1, <2>2, <2>3, <2>4, <2>5 DEF CallInv
<1>8. QED
  BY <1>5, <1>6, <1>7 DEF IInv

LEMMA TooLongInv ==
  ASSUME IInv, TooLong
  PROVE  IInv'
<1>1. /\ pc = "fifo" /\ pc' = "idle" /\ out' = "failed"
      /\ UNCHANGED <<nrf24_configByte, ce, payload, chip, last_sent, late, doubt>>
  BY DEF TooLong, Return, history
<1>2. TypeInv' /\ ConfigInv'
  BY <1>1 DEF IInv, TypeInv, Steps, ConfigInv
<1>3. ~ doubt' => CallInv'
  BY <1>1 DEF IInv, CallInv, Clean, NoFlags
<1>4. QED
  BY <1>2, <1>3 DEF IInv

LEMMA WriteTXFifoInv ==
  ASSUME IInv, NEW done \in BOOLEAN, WriteTXFifo(done)
  PROVE  IInv'
<1>1. PICK wanted : wanted =
        [chip EXCEPT !.fifo = IF Len(@) < FifoDepth THEN Append(@, payload) ELSE @]
  OBVIOUS
<1>2. /\ chip \in Chips /\ chip.fifo \in Seq(Nat) /\ payload \in Nat
      /\ \A i \in 1..Len(chip.fifo) : chip.fifo[i] \in 1..payload
  BY DEF IInv, TypeInv, Chips
<1>3. /\ wanted \in Chips /\ wanted.config = chip.config /\ wanted.flight = chip.flight
      /\ wanted.tx_ds = chip.tx_ds /\ wanted.max_rt = chip.max_rt
      /\ wanted.fifo = IF Len(chip.fifo) < FifoDepth THEN Append(chip.fifo, payload)
                       ELSE chip.fifo
  <2>1. Append(chip.fifo, payload) \in Seq(Nat)
    BY <1>2
  <2>2. QED
    BY <1>1, <1>2, <2>1 DEF Chips
<1>4. /\ chip' = wanted \/ (~ done /\ chip' = chip)
      /\ pc = "fifo"
      /\ IF done THEN ce' = TRUE /\ pc' = "poll" /\ out' = out
         ELSE pc' = "idle" /\ out' = "failed" /\ ce' = ce
      /\ doubt' = (doubt \/ ~ done)
      /\ UNCHANGED <<nrf24_configByte, payload, last_sent, late>>
  BY <1>1 DEF WriteTXFifo, Transfer, Return, Doubt
<1>5. /\ chip' \in Chips /\ chip'.config = chip.config /\ chip'.flight = chip.flight
      /\ chip'.tx_ds = chip.tx_ds /\ chip'.max_rt = chip.max_rt
  BY <1>2, <1>3, <1>4
<1>6. TypeInv'
  <2>1. ASSUME NEW i \in 1..Len(chip'.fifo) PROVE chip'.fifo[i] \in 1..payload'
    <3>1. CASE chip'.fifo = chip.fifo
      BY <1>2, <1>4, <2>1, <3>1
    <3>2. CASE chip'.fifo = Append(chip.fifo, payload)
      <4>1. payload >= 1
        BY <1>4 DEF IInv, TypeInv
      <4>2. i \in 1..(Len(chip.fifo) + 1)
        BY <1>2, <2>1, <3>2
      <4>3. CASE i = Len(chip.fifo) + 1
        BY <1>2, <1>4, <3>2, <4>1, <4>3
      <4>4. CASE i \in 1..Len(chip.fifo)
        BY <1>2, <1>4, <3>2, <4>4
      <4>5. QED
        BY <1>2, <4>2, <4>3, <4>4
    <3>3. QED
      BY <1>3, <1>4, <3>1, <3>2
  <2>2. pc' \in Steps /\ ce' \in BOOLEAN /\ doubt' \in BOOLEAN
    BY <1>4 DEF IInv, TypeInv, Steps
  <2>3. QED
    BY <1>4, <1>5, <2>1, <2>2 DEF IInv, TypeInv
<1>7. ConfigInv'
  BY <1>4, <1>5 DEF IInv, ConfigInv
<1>8. ASSUME ~ doubt' PROVE CallInv'
  <2>1. done /\ CallInv
    BY <1>4, <1>8 DEF IInv
  <2>2. Clean /\ ~ chip.config.rx /\ last_sent < payload /\ ~ late
    BY <1>4, <2>1 DEF CallInv
  <2>3. chip'.fifo = <<payload>>
    <3>1. Len(chip.fifo) < FifoDepth
      BY <2>2, Nrf24Assumption DEF Clean
    <3>2. chip'.fifo = Append(<<>>, payload)
      BY <1>3, <1>4, <2>1, <2>2, <3>1 DEF Clean
    <3>3. QED
      BY <3>2
  <2>4. Underway'
    BY <1>4, <1>5, <2>2, <2>3 DEF Clean, NoFlags, Underway
  <2>5. QED
    BY <1>4, <1>5, <2>1, <2>2, <2>4 DEF CallInv
<1>9. QED
  BY <1>6, <1>7, <1>8 DEF IInv

\* The loop ends: a status has been seen.
LEMMA PollStatusInv ==
  ASSUME IInv, NEW done \in BOOLEAN, PollStatus(done)
  PROVE  IInv'
<1>1. /\ pc = "poll" /\ chip' = chip /\ doubt' = (doubt \/ ~ done)
      /\ UNCHANGED <<nrf24_configByte, payload, out, last_sent, late>>
  BY DEF PollStatus, Transfer, Doubt
<1>2. \/ ~ done /\ pc' = "clear_flags" /\ ce' = FALSE
      \/ /\ done /\ Status # "none" /\ rc' = Status /\ pc' = "clear_flags" /\ ce' = FALSE
      \/ UNCHANGED <<rc, pc, ce>>
  BY DEF PollStatus, EndOfLoop
<1>3. TypeInv'
  BY <1>1, <1>2 DEF IInv, TypeInv, Steps
<1>4. ConfigInv'
  BY <1>1, <1>2 DEF IInv, ConfigInv
<1>5. ASSUME ~ doubt' PROVE CallInv'
  <2>1. done /\ ~ late /\ ~ chip.config.rx /\ (WentOut \/ Underway)
    BY <1>1, <1>5 DEF IInv, CallInv
  <2>2. CASE UNCHANGED <<rc, pc, ce>>
    BY <1>1, <2>1, <2>2 DEF CallInv, WentOut, Underway
  <2>3. CASE Status # "none" /\ rc' = Status /\ pc' = "clear_flags" /\ ce' = FALSE
    <3>1. CASE WentOut
      <4>1. Status = "sent"
        BY <3>1 DEF WentOut, Status
      <4>2. Stopped'
        BY <1>1, <2>1, <2>3, <3>1, <4>1 DEF Stopped, WentOut
      <4>3. QED
        BY <1>1, <2>1, <2>3, <4>2 DEF CallInv
    <3>2. CASE Underway
      <4>1. Status = "max_rt" /\ chip.flight = None
        BY <2>3, <3>2 DEF Underway, Status
      <4>2. Stopped'
        BY <1>1, <2>1, <2>3, <4>1 DEF Stopped
      <4>3. QED
        BY <1>1, <2>1, <2>3, <4>2 DEF CallInv
    <3>3. QED
      BY <2>1, <3>1, <3>2
  <2>4. QED
    BY <1>2, <2>1, <2>2, <2>3
<1>6. QED
  BY <1>3, <1>4, <1>5 DEF IInv

LEMMA TimeoutInv ==
  ASSUME IInv, Timeout
  PROVE  IInv'
<1>1. /\ pc = "poll" /\ rc' = "timeout" /\ pc' = "clear_flags" /\ ce' = FALSE
      /\ doubt' = (doubt \/ CanSend)
      /\ UNCHANGED <<nrf24_configByte, payload, out, chip, last_sent, late>>
  BY DEF Timeout, EndOfLoop
<1>2. doubt' \in BOOLEAN
  BY <1>1 DEF IInv, TypeInv, CanSend
<1>3. TypeInv' /\ ConfigInv'
  BY <1>1, <1>2 DEF IInv, TypeInv, Steps, ConfigInv
<1>4. ASSUME ~ doubt' PROVE CallInv'
  <2>1. ~ late /\ ~ chip.config.rx /\ (WentOut \/ Underway) /\ ~ CanSend
    BY <1>1, <1>4 DEF IInv, CallInv
  <2>2. chip.flight = None
    <3>1. CASE WentOut
      BY <3>1 DEF WentOut
    <3>2. CASE Underway
      <4>1. chip.fifo # <<>>
        BY <3>2 DEF Underway
      <4>2. QED
        BY <2>1, <4>1 DEF CanSend, IInv, ConfigInv
    <3>3. QED
      BY <2>1, <3>1, <3>2
  <2>3. Stopped'
    BY <1>1, <2>1, <2>2 DEF Stopped
  <2>4. QED
    BY <1>1, <2>1, <2>3 DEF CallInv
<1>5. QED
  BY <1>3, <1>4 DEF IInv

LEMMA ClearIRQFlagsInv ==
  ASSUME IInv, NEW done \in BOOLEAN, ClearIRQFlags(done)
  PROVE  IInv'
<1>1. PICK wanted \in Chips : wanted = WithoutFlags
        /\ wanted.config = chip.config /\ wanted.flight = chip.flight
        /\ wanted.fifo = chip.fifo /\ ~ wanted.tx_ds /\ ~ wanted.max_rt
  BY WithoutFlagsChip DEF IInv
<1>2. /\ chip' = wanted \/ (~ done /\ chip' = chip)
      /\ pc = "clear_flags" /\ pc' = "receive" /\ doubt' = (doubt \/ ~ done)
      /\ UNCHANGED <<nrf24_configByte, ce, rc, payload, out, last_sent, late>>
  BY <1>1 DEF ClearIRQFlags, Transfer, CleanUp, Doubt
<1>3. TypeInv'
  BY <1>1, <1>2 DEF IInv, TypeInv, Steps
<1>4. ConfigInv'
  BY <1>1, <1>2 DEF IInv, ConfigInv
<1>5. ASSUME ~ doubt' PROVE CallInv'
  <2>1. chip' = wanted /\ Stopped /\ ~ late
    BY <1>2, <1>5 DEF IInv, CallInv
  <2>2. Stopped' /\ NoFlags'
    BY <1>1, <1>2, <2>1 DEF Stopped, NoFlags
  <2>3. QED
    BY <1>2, <2>1, <2>2 DEF CallInv
<1>6. QED
  BY <1>3, <1>4, <1>5 DEF IInv

LEMMA CleanupRXInv ==
  ASSUME IInv, NEW done \in BOOLEAN, CleanupRX(done)
  PROVE  IInv'
<1>1. PICK config \in Configs : config = [nrf24_configByte EXCEPT !.rx = TRUE]
        /\ config.rx
  BY ConfigEdits DEF IInv, TypeInv
<1>2. WriteConfig(config, nrf24_configByte, done)
  BY <1>1 DEF CleanupRX, ReceiveMode
<1>3. /\ chip' \in Chips /\ nrf24_configByte' \in Configs
      /\ chip'.flight # None => chip'.config.up /\ ~ chip'.config.rx
      /\ chip'.fifo = chip.fifo /\ chip'.flight \in {chip.flight, None}
      /\ chip'.tx_ds = chip.tx_ds /\ chip'.max_rt = chip.max_rt
      /\ done => chip'.config = config
  BY <1>2, WriteConfigInv
<1>4. /\ pc = "receive" /\ ce' = (ce \/ done) /\ doubt' = (doubt \/ ~ done)
      /\ \/ rc \in NeedsFlush /\ pc' = "flush" /\ out' = out
         \/ rc \notin NeedsFlush /\ pc' = "idle" /\ out' = rc
      /\ UNCHANGED <<rc, payload, last_sent, late>>
  BY DEF CleanupRX, ReceiveMode, CleanUp, Doubt, Return
<1>5. TypeInv'
  BY <1>3, <1>4 DEF IInv, TypeInv, Steps, None
<1>6. ConfigInv'
  BY <1>3, <1>4 DEF IInv, ConfigInv
<1>7. ASSUME ~ doubt' PROVE CallInv'
  <2>1. done /\ Stopped /\ NoFlags /\ ~ late
    BY <1>4, <1>7 DEF IInv, CallInv
  <2>2. chip'.config.rx /\ ce' /\ chip'.flight = None /\ NoFlags'
    BY <1>1, <1>3, <1>4, <2>1 DEF Stopped, NoFlags
  <2>3. CASE rc \in NeedsFlush /\ pc' = "flush"
    <3>1. rc' \in {"max_rt", "timeout"}
      BY <1>4, <2>1, <2>3 DEF Stopped, NeedsFlush
    <3>2. QED
      BY <1>4, <2>1, <2>2, <2>3, <3>1 DEF CallInv
  <2>4. CASE rc \notin NeedsFlush /\ pc' = "idle" /\ out' = rc
    <3>1. rc = "sent" /\ chip'.fifo = <<>> /\ last_sent' = payload'
      BY <1>3, <1>4, <2>1, <2>4 DEF Stopped, NeedsFlush
    <3>2. QED
      BY <1>4, <2>1, <2>2, <2>4, <3>1 DEF CallInv, Clean
  <2>5. QED
    BY <1>4, <2>3, <2>4
<1>8. QED
  BY <1>5, <1>6, <1>7 DEF IInv

LEMMA FlushTXInv ==
  ASSUME IInv, NEW done \in BOOLEAN, FlushTX(done)
  PROVE  IInv'
<1>1. PICK wanted \in Chips : wanted = Flushed
        /\ wanted.config = chip.config /\ wanted.flight = chip.flight
        /\ wanted.fifo = <<>> /\ wanted.tx_ds = chip.tx_ds /\ wanted.max_rt = chip.max_rt
  BY FlushedChip DEF IInv
<1>2. /\ chip' = wanted \/ (~ done /\ chip' = chip)
      /\ pc = "flush" /\ pc' = "idle" /\ out' = rc /\ doubt' = (doubt \/ ~ done)
      /\ UNCHANGED <<nrf24_configByte, ce, rc, payload, last_sent, late>>
  BY <1>1 DEF FlushTX, Transfer, CleanUp, Doubt, Return
<1>3. TypeInv'
  BY <1>1, <1>2 DEF IInv, TypeInv, Steps
<1>4. ConfigInv'
  BY <1>1, <1>2 DEF IInv, ConfigInv
<1>5. ASSUME ~ doubt' PROVE CallInv'
  <2>1. /\ chip' = wanted /\ ~ late /\ ce /\ chip.config.rx /\ chip.flight = None
        /\ NoFlags /\ rc \in {"max_rt", "timeout"}
    BY <1>2, <1>5 DEF IInv, CallInv
  <2>2. Clean'
    BY <1>1, <2>1 DEF Clean, NoFlags
  <2>3. QED
    BY <1>1, <1>2, <2>1, <2>2 DEF CallInv
<1>6. QED
  BY <1>3, <1>4, <1>5 DEF IInv

-----------------------------------------------------------------------------
(* The chip.                                                               *)

LEMMA StartSendingInv ==
  ASSUME IInv, StartSending
  PROVE  IInv'
<1>1. PICK head : head = Head(chip.fifo)
  OBVIOUS
<1>2. /\ CanSend /\ ce /\ chip.flight = None /\ ~ chip.max_rt
      /\ chip' = [chip EXCEPT !.flight = head]
      /\ UNCHANGED <<nrf24_configByte, ce, pc, rc, payload, out, last_sent, late, doubt>>
  BY <1>1 DEF StartSending, driver, history
<1>3. chip \in Chips /\ chip.fifo \in Seq(Nat) /\ chip.fifo # <<>>
  BY <1>2 DEF IInv, TypeInv, Chips, CanSend
<1>4. head \in 1..payload /\ head \in Nat
  <2>1. 1 \in 1..Len(chip.fifo) /\ head = chip.fifo[1]
    BY <1>1, <1>3
  <2>2. QED
    BY <2>1 DEF IInv, TypeInv
<1>5. /\ chip' \in Chips /\ chip'.config = chip.config /\ chip'.fifo = chip.fifo
      /\ chip'.flight = head
      /\ chip'.tx_ds = chip.tx_ds /\ chip'.max_rt = chip.max_rt
  BY <1>2, <1>3, <1>4 DEF Chips
<1>6. TypeInv'
  BY <1>2, <1>4, <1>5 DEF IInv, TypeInv
<1>7. ConfigInv'
  BY <1>2, <1>5 DEF IInv, ConfigInv, CanSend, NoFlags
<1>8. ASSUME ~ doubt' PROVE CallInv'
  <2>1. CallInv
    BY <1>2, <1>8 DEF IInv
  <2>2. chip.config.up /\ ~ chip.config.rx /\ ~ doubt
    BY <1>2, <1>8 DEF CanSend
  <2>3. pc = "poll"
    BY <1>2, <1>3, <2>1, <2>2 DEF CallInv, Clean, Stopped, IInv, ConfigInv, TypeInv, Steps
  <2>4. Underway /\ ~ late
    BY <1>3, <2>1, <2>3 DEF CallInv, WentOut
  <2>5. head = payload
    BY <1>1, <2>4 DEF Underway
  <2>6. Underway'
    BY <1>2, <1>5, <2>4, <2>5 DEF Underway
  <2>7. QED
    BY <1>2, <1>5, <2>2, <2>3, <2>4, <2>6 DEF CallInv
<1>9. QED
  BY <1>6, <1>7, <1>8 DEF IInv

LEMMA FinishSendingInv ==
  ASSUME IInv, FinishSending
  PROVE  IInv'
<1>1. PICK rest : rest = IF chip.fifo # <<>> /\ Head(chip.fifo) = chip.flight
                         THEN Tail(chip.fifo) ELSE chip.fifo
  OBVIOUS
<1>2. /\ chip.flight # None
      /\ chip' = [chip EXCEPT !.flight = None, !.tx_ds = TRUE, !.fifo = rest]
      /\ last_sent' = chip.flight
      /\ late' = (late \/ pc = "idle" \/ chip.flight # payload \/ chip.flight = last_sent)
      /\ UNCHANGED <<nrf24_configByte, ce, pc, rc, payload, out, doubt>>
  BY <1>1 DEF FinishSending, driver
<1>3. chip \in Chips /\ chip.fifo \in Seq(Nat) /\ chip.flight \in 0..payload
      /\ \A i \in 1..Len(chip.fifo) : chip.fifo[i] \in 1..payload
  BY DEF IInv, TypeInv, Chips
<1>4. rest \in Seq(Nat) /\ \A i \in 1..Len(rest) : rest[i] \in 1..payload
  <2>1. CASE rest = chip.fifo
    BY <1>3, <2>1
  <2>2. CASE chip.fifo # <<>> /\ rest = Tail(chip.fifo)
    <3>1. /\ rest \in Seq(Nat) /\ Len(rest) = Len(chip.fifo) - 1
          /\ Len(chip.fifo) \in Nat
          /\ \A i \in 1..Len(rest) : rest[i] = chip.fifo[i + 1]
      BY <1>3, <2>2
    <3>2. \A i \in 1..Len(rest) : i + 1 \in 1..Len(chip.fifo)
      BY <3>1
    <3>3. QED
      BY <1>3, <3>1, <3>2
  <2>3. QED
    BY <1>1, <2>1, <2>2
<1>5. /\ chip' \in Chips /\ chip'.config = chip.config /\ chip'.fifo = rest
      /\ chip'.flight = None /\ chip'.tx_ds = TRUE /\ chip'.max_rt = chip.max_rt
  BY <1>2, <1>3, <1>4 DEF Chips, None
<1>6. TypeInv'
  <2>1. late' \in BOOLEAN
    BY <1>2 DEF IInv, TypeInv
  <2>2. QED
    BY <1>2, <1>3, <1>4, <1>5, <2>1 DEF IInv, TypeInv, None
<1>7. ConfigInv'
  BY <1>2, <1>5 DEF IInv, ConfigInv
<1>8. ASSUME ~ doubt' PROVE CallInv'
  <2>1. CallInv /\ ~ doubt
    BY <1>2, <1>8 DEF IInv
  <2>2. pc = "poll"
    BY <1>2, <2>1 DEF CallInv, Clean, Stopped, IInv, ConfigInv, TypeInv, Steps
  <2>3. Underway /\ ~ late /\ ~ chip.config.rx
    BY <1>2, <2>1, <2>2 DEF CallInv, WentOut
  <2>4. chip.flight = payload /\ ~ chip.max_rt /\ last_sent < payload
    BY <1>2, <2>3 DEF Underway
  <2>5. rest = <<>>
    <3>1. chip.fifo = <<payload>>
      BY <2>3 DEF Underway
    <3>2. Head(chip.fifo) = payload /\ chip.fifo # <<>> /\ Tail(chip.fifo) = <<>>
      BY <3>1
    <3>3. QED
      BY <1>1, <2>4, <3>2
  <2>6. ~ late'
    <3>1. chip.flight # last_sent
      BY <2>4 DEF IInv, TypeInv
    <3>2. QED
      BY <1>2, <2>2, <2>3, <2>4, <3>1
  <2>7. WentOut'
    BY <1>2, <1>5, <2>4, <2>5 DEF WentOut
  <2>8. QED
    BY <1>2, <1>5, <2>2, <2>3, <2>6, <2>7 DEF CallInv
<1>9. QED
  BY <1>6, <1>7, <1>8 DEF IInv

LEMMA GiveUpInv ==
  ASSUME IInv, GiveUp
  PROVE  IInv'
<1>1. /\ chip.flight # None
      /\ chip' = [chip EXCEPT !.flight = None, !.max_rt = TRUE]
      /\ UNCHANGED <<nrf24_configByte, ce, pc, rc, payload, out, last_sent, late, doubt>>
  BY DEF GiveUp, driver, history
<1>2. /\ chip' \in Chips /\ chip'.config = chip.config /\ chip'.fifo = chip.fifo
      /\ chip'.flight = None /\ chip'.tx_ds = chip.tx_ds /\ chip'.max_rt = TRUE
  BY <1>1 DEF IInv, TypeInv, Chips, None
<1>3. TypeInv'
  BY <1>1, <1>2 DEF IInv, TypeInv, None
<1>4. ConfigInv'
  BY <1>1, <1>2 DEF IInv, ConfigInv
<1>5. ASSUME ~ doubt' PROVE CallInv'
  <2>1. CallInv /\ ~ doubt
    BY <1>1, <1>5 DEF IInv
  <2>2. pc = "poll"
    BY <1>1, <2>1 DEF CallInv, Clean, Stopped, IInv, ConfigInv, TypeInv, Steps
  <2>3. Underway /\ ~ late /\ ~ chip.config.rx
    BY <1>1, <2>1, <2>2 DEF CallInv, WentOut
  <2>4. Underway'
    BY <1>1, <1>2, <2>3 DEF Underway
  <2>5. QED
    BY <1>1, <1>2, <2>2, <2>3, <2>4 DEF CallInv
<1>6. QED
  BY <1>3, <1>4, <1>5 DEF IInv

-----------------------------------------------------------------------------

LEMMA NextInv == IInv /\ [RadioNext]_radio_vars => IInv'
<1>1. SUFFICES ASSUME IInv, [RadioNext]_radio_vars PROVE IInv'
  OBVIOUS
<1>2. CASE StartSending \/ FinishSending \/ GiveUp
  BY <1>1, <1>2, StartSendingInv, FinishSendingInv, GiveUpInv
<1>3. CASE InitInvalid \/ TooLong \/ Timeout
  BY <1>1, <1>3, InitInvalidInv, TooLongInv, TimeoutInv
<1>4. ASSUME NEW done \in BOOLEAN, NEW flag \in BOOLEAN,
             \/ InitConfigRegister(flag, done) \/ PowerControl(flag, done)
             \/ SetRetransmit(flag, done)
      PROVE  IInv'
  BY <1>1, <1>4, InitConfigRegisterInv, PowerControlInv, SetRetransmitInv
<1>5. ASSUME NEW done \in BOOLEAN, InitRegisters(done) \/ InitFlush(done) \/ RX(done)
      PROVE  IInv'
  BY <1>1, <1>5, InitRegistersInv, InitFlushInv, RXInv
<1>6. ASSUME NEW done \in BOOLEAN,
             TransmitTX(done) \/ WriteTXFifo(done) \/ PollStatus(done)
      PROVE  IInv'
  BY <1>1, <1>6, TransmitTXInv, WriteTXFifoInv, PollStatusInv
<1>7. ASSUME NEW done \in BOOLEAN,
             ClearIRQFlags(done) \/ CleanupRX(done) \/ FlushTX(done)
      PROVE  IInv'
  BY <1>1, <1>7, ClearIRQFlagsInv, CleanupRXInv, FlushTXInv
<1>8. CASE UNCHANGED radio_vars
  BY <1>1, <1>8 DEF radio_vars, driver, history, IInv, TypeInv, ConfigInv, CallInv, Clean,
     NoFlags, WentOut, Underway, Stopped
<1>9. QED
  BY <1>1, <1>2, <1>3, <1>4, <1>5, <1>6, <1>7, <1>8 DEF RadioNext

\* At every step of nrf24_transmit the chip and its FIFO hold what the call
\* left there and nothing of another call, as long as no transfer has failed.
THEOREM CallsHold == RadioSpec => []IInv
<1>1. QED
  BY InitialState, NextInv, PTL DEF RadioSpec

-----------------------------------------------------------------------------
\* The payload of the call went out, and nothing is left behind it.
SentAndGone == chip.fifo = <<>> /\ chip.flight = None /\ last_sent = payload

\* The clean-up, and what it leaves, whatever has failed before the call:
\* nothing is being sent behind the loop, unless a packet was in the air ...
CleaningUp ==
  /\ ~ ce
  /\ "in_air" \notin trouble => chip.flight = None
  /\ (rc = "sent" /\ "before" \notin trouble) => SentAndGone

\* ... no flag can rise any more ...
FlagsDown ==
  "cleanup" \notin trouble => (NoFlags /\ chip.flight = None) \/ "in_air" \in trouble

\* ... and the radio listens.
Listening ==
  "cleanup" \notin trouble =>
    /\ chip.config = nrf24_configByte /\ chip.config.rx /\ ce
    /\ NoFlags \/ "in_air" \in trouble

Ended == {"sent", "no_status", "max_rt", "timeout"}

CleanupInv ==
  /\ (pc = "fifo" /\ "before" \notin trouble) => Clean /\ ~ ce /\ last_sent < payload
  /\ (pc = "poll" /\ "before" \notin trouble) => WentOut \/ Underway
  /\ pc = "clear_flags" => CleaningUp
  /\ pc = "receive" => CleaningUp /\ FlagsDown
  /\ pc = "flush" => Listening /\ rc # "sent"
  /\ pc \in {"clear_flags", "receive", "flush"} => rc \in Ended
  /\ (pc = "idle" /\ out \in Ended) =>
        /\ Listening
        /\ (out = "sent" /\ "before" \notin trouble) => SentAndGone
        /\ (out # "sent" /\ "cleanup" \notin trouble) => chip.fifo = <<>>


LEMMA CleanupStart == RadioInit => CleanupInv
BY DEF RadioInit, CleanupInv, Ended

\* What the user's other calls do to it: nothing is known of no call.
LEMMA OtherCalls ==
  ASSUME pc' \in {"idle", "registers", "flush_init"}, out' \notin Ended
  PROVE  CleanupInv'
BY DEF CleanupInv

LEMMA OtherCallsCleanup ==
  ASSUME IInv, NEW done \in BOOLEAN, NEW flag \in BOOLEAN,
         \/ InitConfigRegister(flag, done) \/ PowerControl(flag, done)
         \/ SetRetransmit(flag, done) \/ InitRegisters(done) \/ InitFlush(done)
         \/ RX(done) \/ InitInvalid
  PROVE  CleanupInv'
<1>1. pc # "idle" => out = "none"
  BY DEF IInv, ConfigInv
<1>2. out' = "none" /\ pc' \in {"idle", "registers", "flush_init"}
  BY <1>1 DEF InitConfigRegister, PowerControl, SetRetransmit, InitRegisters, InitFlush, RX,
     InitInvalid
<1>3. QED
  BY <1>2, OtherCalls DEF Ended

LEMMA TransmitTXCleanup ==
  ASSUME IInv, NEW done \in BOOLEAN, TransmitTX(done)
  PROVE  CleanupInv'
<1>1. CASE ~ done
  <2>1. pc' = "idle" /\ out' = "failed"
    BY <1>1 DEF TransmitTX, Return
  <2>2. QED
    BY <2>1, OtherCalls DEF Ended
<1>2. CASE done
  <2>1. /\ pc' = "fifo" /\ out' = "none" /\ ce' = FALSE
        /\ trouble' = IF Clean THEN {} ELSE {"before"}
    BY <1>2 DEF TransmitTX
  <2>2. PICK config \in Configs : config = [nrf24_configByte EXCEPT !.rx = FALSE]
    BY ConfigEdits DEF IInv, TypeInv
  <2>3. /\ chip'.fifo = chip.fifo /\ chip'.flight \in {chip.flight, None}
        /\ chip'.tx_ds = chip.tx_ds /\ chip'.max_rt = chip.max_rt
    BY <2>2, WriteConfigInv DEF TransmitTX
  <2>4. Clean => Clean'
    BY <2>3 DEF Clean, NoFlags
  <2>5. "before" \notin trouble' => Clean'
    BY <2>1, <2>4
  <2>6. last_sent' < payload'
    BY DEF TransmitTX, IInv, TypeInv
  <2>7. QED
    BY <2>1, <2>5, <2>6 DEF CleanupInv, Ended
<1>3. QED
  BY <1>1, <1>2

LEMMA TooLongCleanup ==
  ASSUME TooLong
  PROVE  CleanupInv'
<1>1. pc' = "idle" /\ out' = "failed"
  BY DEF TooLong, Return
<1>2. QED
  BY <1>1, OtherCalls DEF Ended

LEMMA WriteTXFifoCleanup ==
  ASSUME IInv, CleanupInv, NEW done \in BOOLEAN, WriteTXFifo(done)
  PROVE  CleanupInv'
<1>1. CASE ~ done
  <2>1. pc' = "idle" /\ out' = "failed"
    BY <1>1 DEF WriteTXFifo, Return
  <2>2. QED
    BY <2>1, OtherCalls DEF Ended
<1>2. CASE done
  <2>1. PICK wanted : wanted =
          [chip EXCEPT !.fifo = IF Len(@) < FifoDepth THEN Append(@, payload) ELSE @]
    OBVIOUS
  <2>2. /\ chip' = wanted /\ pc = "fifo" /\ pc' = "poll" /\ out' = out
        /\ UNCHANGED <<payload, last_sent, trouble>>
    BY <1>2, <2>1 DEF WriteTXFifo, Transfer
  <2>3. chip \in Chips /\ payload \in Nat /\ payload > 0 /\ last_sent \in 0..payload
        /\ out = "none"
    BY <2>2 DEF IInv, TypeInv, ConfigInv
  <2>4. ASSUME "before" \notin trouble' PROVE Underway'
    <3>1. Clean
      BY <2>2, <2>4 DEF CleanupInv
    <3>2. Len(chip.fifo) < FifoDepth /\ Append(chip.fifo, payload) = <<payload>>
      BY <3>1, Nrf24Assumption DEF Clean
    <3>3. /\ wanted.fifo = <<payload>> /\ wanted.flight = chip.flight
          /\ wanted.tx_ds = chip.tx_ds /\ wanted.max_rt = chip.max_rt
      BY <2>1, <2>3, <3>2 DEF Chips
    <3>4. last_sent < payload
      BY <2>2, <2>4 DEF CleanupInv
    <3>5. QED
      BY <2>2, <3>1, <3>3, <3>4 DEF Clean, NoFlags, Underway
  <2>5. QED
    BY <2>2, <2>3, <2>4 DEF CleanupInv, Ended
<1>3. QED
  BY <1>1, <1>2

LEMMA EndOfLoopCleanup ==
  ASSUME CleanupInv, NEW result, EndOfLoop(result), result \in Ended, pc = "poll",
         chip' = chip, out' = out, out = "none", last_sent' = last_sent,
         payload' = payload,
         result = "sent" => chip.tx_ds
  PROVE  CleanupInv'
<1>1. /\ rc' = result /\ pc' = "clear_flags" /\ ce' = FALSE
      /\ trouble' = IF chip.flight = None THEN trouble ELSE trouble \cup {"in_air"}
  BY DEF EndOfLoop
<1>2. "in_air" \notin trouble' => chip'.flight = None
  BY <1>1
<1>3. (result = "sent" /\ "before" \notin trouble') => SentAndGone'
  BY <1>1 DEF CleanupInv, WentOut, Underway, SentAndGone
<1>4. CleaningUp'
  BY <1>1, <1>2, <1>3 DEF CleaningUp
<1>5. QED
  BY <1>1, <1>4 DEF CleanupInv, Ended

LEMMA PollCleanup ==
  ASSUME IInv, CleanupInv, NEW done \in BOOLEAN, PollStatus(done) \/ Timeout
  PROVE  CleanupInv'
<1>1. pc = "poll" /\ chip' = chip /\ out' = out /\ out = "none"
      /\ UNCHANGED <<payload, last_sent>>
  BY DEF PollStatus, Timeout, Transfer, IInv, ConfigInv
<1>2. CASE UNCHANGED <<rc, pc, ce, trouble>>
  BY <1>1, <1>2 DEF CleanupInv, WentOut, Underway, Ended
<1>3. CASE EndOfLoop("no_status")
  BY <1>1, <1>3, EndOfLoopCleanup DEF Ended
<1>4. CASE EndOfLoop("timeout")
  BY <1>1, <1>4, EndOfLoopCleanup DEF Ended
<1>5. CASE EndOfLoop(Status) /\ Status # "none"
  <2>1. Status \in Ended /\ (Status = "sent" => chip.tx_ds)
    BY <1>5 DEF Status, Ended
  <2>2. QED
    BY <1>1, <1>5, <2>1, EndOfLoopCleanup
<1>6. QED
  BY <1>2, <1>3, <1>4, <1>5 DEF PollStatus, Timeout

LEMMA ClearIRQFlagsCleanup ==
  ASSUME IInv, CleanupInv, NEW done \in BOOLEAN, ClearIRQFlags(done)
  PROVE  CleanupInv'
<1>1. PICK wanted : wanted = WithoutFlags
        /\ wanted.flight = chip.flight /\ wanted.fifo = chip.fifo
        /\ ~ wanted.tx_ds /\ ~ wanted.max_rt
  BY WithoutFlagsChip DEF IInv
<1>2. /\ chip' = wanted \/ (~ done /\ chip' = chip)
      /\ pc = "clear_flags" /\ pc' = "receive" /\ out' = out /\ out = "none"
      /\ trouble' = IF done THEN trouble ELSE trouble \cup {"cleanup"}
      /\ UNCHANGED <<ce, rc, payload, last_sent>>
  BY <1>1 DEF ClearIRQFlags, Transfer, CleanUp, IInv, ConfigInv
<1>3. CleaningUp /\ rc \in Ended
  BY <1>2 DEF CleanupInv
<1>4. CleaningUp'
  BY <1>1, <1>2, <1>3 DEF CleaningUp, SentAndGone
<1>5. FlagsDown'
  BY <1>1, <1>2, <1>3 DEF CleaningUp, FlagsDown, NoFlags
<1>6. QED
  BY <1>2, <1>3, <1>4, <1>5 DEF CleanupInv, Ended

LEMMA CleanupRXCleanup ==
  ASSUME IInv, CleanupInv, NEW done \in BOOLEAN, CleanupRX(done)
  PROVE  CleanupInv'
<1>1. PICK config \in Configs : config = [nrf24_configByte EXCEPT !.rx = TRUE]
        /\ config.rx
  BY ConfigEdits DEF IInv, TypeInv
<1>2. WriteConfig(config, nrf24_configByte, done)
  BY <1>1 DEF CleanupRX, ReceiveMode
<1>3. /\ chip'.fifo = chip.fifo /\ chip'.flight \in {chip.flight, None}
      /\ chip'.tx_ds = chip.tx_ds /\ chip'.max_rt = chip.max_rt
      /\ done => chip'.config = config /\ nrf24_configByte' = config
  BY <1>2, WriteConfigInv DEF WriteConfig
<1>4. /\ pc = "receive" /\ ce' = (ce \/ done) /\ out = "none"
      /\ trouble' = IF done THEN trouble ELSE trouble \cup {"cleanup"}
      /\ \/ rc \in NeedsFlush /\ pc' = "flush" /\ out' = out
         \/ rc \notin NeedsFlush /\ pc' = "idle" /\ out' = rc
      /\ UNCHANGED <<rc, payload, last_sent>>
  BY DEF CleanupRX, ReceiveMode, CleanUp, Return, IInv, ConfigInv
<1>5. CleaningUp /\ FlagsDown /\ rc \in Ended
  BY <1>4 DEF CleanupInv
<1>6. Listening'
  <2>1. SUFFICES ASSUME "cleanup" \notin trouble'
                 PROVE  /\ chip'.config = nrf24_configByte' /\ chip'.config.rx /\ ce'
                        /\ NoFlags' \/ "in_air" \in trouble'
    BY DEF Listening
  <2>2. done /\ trouble' = trouble
    BY <1>4, <2>1
  <2>3. NoFlags' = NoFlags
    BY <1>3 DEF NoFlags
  <2>4. QED
    BY <1>1, <1>3, <1>4, <1>5, <2>1, <2>2, <2>3 DEF FlagsDown
<1>7. CASE rc \in NeedsFlush /\ pc' = "flush" /\ out' = out
  BY <1>4, <1>5, <1>6, <1>7 DEF CleanupInv, NeedsFlush, Ended
<1>8. CASE rc \notin NeedsFlush /\ pc' = "idle" /\ out' = rc
  <2>1. rc = "sent"
    BY <1>5, <1>8 DEF NeedsFlush, Ended
  <2>2. "before" \notin trouble' => SentAndGone'
    BY <1>3, <1>4, <1>5, <2>1 DEF CleaningUp, SentAndGone
  <2>3. QED
    BY <1>6, <1>8, <2>1, <2>2 DEF CleanupInv
<1>9. QED
  BY <1>4, <1>7, <1>8

LEMMA FlushTXCleanup ==
  ASSUME IInv, CleanupInv, NEW done \in BOOLEAN, FlushTX(done)
  PROVE  CleanupInv'
<1>1. PICK wanted : wanted = Flushed
        /\ wanted.config = chip.config /\ wanted.fifo = <<>>
        /\ wanted.tx_ds = chip.tx_ds /\ wanted.max_rt = chip.max_rt
  BY FlushedChip DEF IInv
<1>2. /\ chip' = wanted \/ (~ done /\ chip' = chip)
      /\ pc = "flush" /\ pc' = "idle"
      /\ trouble' = IF done THEN trouble ELSE trouble \cup {"cleanup"}
      /\ UNCHANGED <<nrf24_configByte, ce>>
  BY <1>1 DEF FlushTX, Transfer, CleanUp, Return
<1>3. Listening
  BY <1>2 DEF CleanupInv
<1>4. Listening'
  BY <1>1, <1>2, <1>3 DEF Listening, NoFlags
<1>5. "cleanup" \notin trouble' => chip'.fifo = <<>>
  BY <1>1, <1>2
<1>6. out' # "sent"
  BY DEF FlushTX, Return, CleanupInv
<1>7. QED
  BY <1>2, <1>4, <1>5, <1>6 DEF CleanupInv

\* The chip by itself: it starts to send only with CE set and not in receive
\* mode, and what it sends can raise a flag only while it is in the air.
LEMMA ChipCleanup ==
  ASSUME IInv, CleanupInv,
         chip'.config = chip.config, ce' = ce, pc' = pc, rc' = rc, out' = out,
         nrf24_configByte' = nrf24_configByte, trouble' = trouble,
         payload' = payload,
         pc = "fifo" /\ "before" \notin trouble => Clean' /\ last_sent' < payload,
         pc = "poll" /\ "before" \notin trouble => (WentOut \/ Underway)',
         ~ ce /\ chip.flight = None => chip'.flight = None /\ NoFlags' = NoFlags,
         chip.config.rx => chip'.flight = None /\ NoFlags' = NoFlags,
         chip.fifo = <<>> => chip'.fifo = <<>>,
         SentAndGone => SentAndGone'
  PROVE  CleanupInv'
<1>1. CleaningUp => CleaningUp'
  BY DEF CleaningUp
<1>2. CleaningUp /\ FlagsDown => FlagsDown'
  BY DEF CleaningUp, FlagsDown
<1>3. Listening => Listening'
  BY DEF Listening
<1>4. CASE pc = "idle"
  BY <1>3, <1>4 DEF CleanupInv
<1>5. CASE pc \in {"fifo", "poll", "clear_flags", "receive", "flush"}
  BY <1>1, <1>2, <1>3, <1>5 DEF CleanupInv
<1>6. CASE pc \in {"registers", "flush_init"}
  BY <1>6 DEF CleanupInv
<1>7. QED
  BY <1>4, <1>5, <1>6 DEF IInv, TypeInv, Steps

LEMMA StartSendingCleanup ==
  ASSUME IInv, CleanupInv, StartSending
  PROVE  CleanupInv'
<1>1. PICK head : head = Head(chip.fifo)
  OBVIOUS
<1>2. /\ CanSend /\ ce /\ chip.flight = None /\ ~ chip.max_rt
      /\ chip' = [chip EXCEPT !.flight = head]
      /\ UNCHANGED <<nrf24_configByte, ce, pc, rc, payload, out, last_sent, trouble>>
  BY <1>1 DEF StartSending, driver, history
<1>3. chip \in Chips /\ chip.fifo # <<>> /\ ~ chip.config.rx
  BY <1>2 DEF IInv, TypeInv, CanSend
<1>4. /\ chip'.config = chip.config /\ chip'.fifo = chip.fifo /\ chip'.flight = head
      /\ chip'.tx_ds = chip.tx_ds /\ chip'.max_rt = chip.max_rt
  BY <1>2, <1>3 DEF Chips
<1>5. pc = "fifo" => "before" \in trouble
  BY <1>2 DEF CleanupInv
<1>6. ASSUME pc = "poll", "before" \notin trouble PROVE Underway'
  <2>1. Underway
    BY <1>3, <1>6 DEF CleanupInv, WentOut
  <2>2. head = payload
    BY <1>1, <2>1 DEF Underway
  <2>3. QED
    BY <1>2, <1>4, <2>1, <2>2 DEF Underway
<1>7. ~ SentAndGone
  BY <1>3 DEF SentAndGone
<1>8. QED
  BY <1>2, <1>3, <1>4, <1>5, <1>6, <1>7, ChipCleanup

LEMMA FinishSendingCleanup ==
  ASSUME IInv, CleanupInv, FinishSending
  PROVE  CleanupInv'
<1>1. PICK rest : rest = IF chip.fifo # <<>> /\ Head(chip.fifo) = chip.flight
                         THEN Tail(chip.fifo) ELSE chip.fifo
  OBVIOUS
<1>2. /\ chip.flight # None
      /\ chip' = [chip EXCEPT !.flight = None, !.tx_ds = TRUE, !.fifo = rest]
      /\ last_sent' = chip.flight
      /\ UNCHANGED <<nrf24_configByte, ce, pc, rc, payload, out, trouble>>
  BY <1>1 DEF FinishSending, driver
<1>3. chip \in Chips /\ ~ chip.config.rx
  BY <1>2 DEF IInv, TypeInv, ConfigInv
<1>4. /\ chip'.config = chip.config /\ chip'.fifo = rest /\ chip'.flight = None
      /\ chip'.tx_ds /\ chip'.max_rt = chip.max_rt
  BY <1>2, <1>3 DEF Chips
<1>5. pc = "fifo" => "before" \in trouble
  BY <1>2 DEF CleanupInv, Clean
<1>6. ASSUME pc = "poll", "before" \notin trouble PROVE WentOut'
  <2>1. Underway
    BY <1>2, <1>6 DEF CleanupInv, WentOut
  <2>2. chip.flight = payload /\ ~ chip.max_rt /\ chip.fifo = <<payload>>
    BY <1>2, <2>1 DEF Underway
  <2>3. Head(chip.fifo) = payload /\ chip.fifo # <<>> /\ Tail(chip.fifo) = <<>>
    BY <2>2
  <2>4. rest = <<>>
    BY <1>1, <2>2, <2>3
  <2>5. QED
    BY <1>2, <1>4, <2>2, <2>4 DEF WentOut
<1>7. chip.fifo = <<>> => chip'.fifo = <<>>
  BY <1>1, <1>4
<1>8. ~ SentAndGone
  BY <1>2 DEF SentAndGone
<1>9. QED
  BY <1>2, <1>3, <1>4, <1>5, <1>6, <1>7, <1>8, ChipCleanup

LEMMA GiveUpCleanup ==
  ASSUME IInv, CleanupInv, GiveUp
  PROVE  CleanupInv'
<1>1. /\ chip.flight # None
      /\ chip' = [chip EXCEPT !.flight = None, !.max_rt = TRUE]
      /\ UNCHANGED <<nrf24_configByte, ce, pc, rc, payload, out, last_sent, trouble>>
  BY DEF GiveUp, driver, history
<1>2. chip \in Chips /\ ~ chip.config.rx
  BY <1>1 DEF IInv, TypeInv, ConfigInv
<1>3. /\ chip'.config = chip.config /\ chip'.fifo = chip.fifo /\ chip'.flight = None
      /\ chip'.tx_ds = chip.tx_ds /\ chip'.max_rt
  BY <1>1, <1>2 DEF Chips
<1>4. pc = "fifo" => "before" \in trouble
  BY <1>1 DEF CleanupInv, Clean
<1>5. ASSUME pc = "poll", "before" \notin trouble PROVE Underway'
  <2>1. Underway
    BY <1>1, <1>5 DEF CleanupInv, WentOut
  <2>2. QED
    BY <1>1, <1>3, <2>1 DEF Underway
<1>6. ~ SentAndGone
  BY <1>1 DEF SentAndGone
<1>7. QED
  BY <1>1, <1>2, <1>3, <1>4, <1>5, <1>6, ChipCleanup

LEMMA CleanupNext == IInv /\ CleanupInv /\ [RadioNext]_radio_vars => CleanupInv'
<1>1. SUFFICES ASSUME IInv, CleanupInv, [RadioNext]_radio_vars PROVE CleanupInv'
  OBVIOUS
<1>2. CASE StartSending \/ FinishSending \/ GiveUp
  BY <1>1, <1>2, StartSendingCleanup, FinishSendingCleanup, GiveUpCleanup
<1>3. CASE InitInvalid \/ TooLong \/ Timeout
  BY <1>1, <1>3, OtherCallsCleanup, TooLongCleanup, PollCleanup
<1>4. ASSUME NEW done \in BOOLEAN, NEW flag \in BOOLEAN,
             \/ InitConfigRegister(flag, done) \/ PowerControl(flag, done)
             \/ SetRetransmit(flag, done) \/ InitRegisters(done) \/ InitFlush(done)
             \/ RX(done)
      PROVE  CleanupInv'
  BY <1>1, <1>4, OtherCallsCleanup
<1>5. ASSUME NEW done \in BOOLEAN,
             \/ TransmitTX(done) \/ WriteTXFifo(done) \/ PollStatus(done)
             \/ ClearIRQFlags(done) \/ CleanupRX(done) \/ FlushTX(done)
      PROVE  CleanupInv'
  BY <1>1, <1>5, TransmitTXCleanup, WriteTXFifoCleanup, PollCleanup, ClearIRQFlagsCleanup,
     CleanupRXCleanup, FlushTXCleanup
<1>6. CASE UNCHANGED radio_vars
  BY <1>1, <1>6 DEF radio_vars, driver, history, CleanupInv, Clean, NoFlags, WentOut, Underway,
     CleaningUp, FlagsDown, Listening, SentAndGone
<1>7. QED
  BY <1>1, <1>2, <1>3, <1>4, <1>5, <1>6 DEF RadioNext

THEOREM CleanupHolds == RadioSpec => []CleanupInv
<1>1. QED
  BY CallsHold, CleanupStart, CleanupNext, PTL DEF RadioSpec

\* nrf24_transmit returns 1 only if its own payload went out, whatever
\* transfers fail, unless the chip was not clean when it began; as long as no
\* transfer has failed since nrf24_Init and no retransmission outlived the
\* timeout it always is, and no payload goes out after its call, with a later
\* one, or twice (nrf24.c:359-399).
THEOREM AlwaysSentInItsCall == RadioSpec => []SentInItsCall
<1>1. IInv /\ CleanupInv => SentInItsCall
  <2>1. SUFFICES ASSUME IInv, CleanupInv PROVE SentInItsCall
    OBVIOUS
  <2>2. out = "sent" => pc = "idle"
    BY <2>1 DEF IInv, ConfigInv
  <2>3. (out = "sent" /\ ~ doubt) => last_sent = payload
    BY <2>1, <2>2 DEF IInv, CallInv
  <2>4. (out = "sent" /\ "before" \notin trouble) => last_sent = payload
    BY <2>1, <2>2 DEF CleanupInv, Ended, SentAndGone
  <2>5. QED
    BY <2>1, <2>3, <2>4 DEF SentInItsCall, IInv, CallInv
<1>2. QED
  BY <1>1, CallsHold, CleanupHolds, PTL

\* Every nrf24_transmit that gets as far as its clean-up leaves a radio that
\* listens, with nothing left over in the chip, whatever failed before it; but
\* for a transfer of the clean-up itself that failed, a packet that was still
\* in the air, and a return of 1 from a chip that was not clean before
\* (nrf24.c:352-399).
THEOREM AlwaysListensAgain == RadioSpec => []ListensAgain
<1>1. IInv /\ CleanupInv => ListensAgain
  <2>1. SUFFICES ASSUME IInv, CleanupInv, out \in Ended, "cleanup" \notin trouble
                 PROVE  /\ chip.config = nrf24_configByte /\ chip.config.rx /\ ce
                        /\ chip.flight = None
                        /\ chip.fifo = <<>> \/ (out = "sent" /\ "before" \in trouble)
                        /\ NoFlags \/ "in_air" \in trouble
    BY DEF ListensAgain, Ended
  <2>2. pc = "idle"
    BY <2>1 DEF IInv, ConfigInv, Ended
  <2>3. Listening
    BY <2>1, <2>2 DEF CleanupInv
  <2>4. chip.flight = None
    BY <2>1, <2>3 DEF Listening, IInv, ConfigInv
  <2>5. QED
    BY <2>1, <2>2, <2>3, <2>4 DEF CleanupInv, Listening, SentAndGone
<1>2. QED
  BY <1>1, CallsHold, CleanupHolds, PTL

=============================================================================
