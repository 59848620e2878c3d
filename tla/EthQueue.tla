------------------------------ MODULE EthQueue ------------------------------
(***************************************************************************)
(* The packet queues of the ethernet library (queue.c, ethernet/           *)
(* eth_queue.c): rings of slots that a packet is composed in and sent      *)
(* from.  The interrupt handler, which answers packets, adds to            *)
(* eth_irq_queue, the main loop to eth_user_queue; ETH_Handler, called by  *)
(* the main loop, empties both.  Nothing checks whether a ring is full.    *)
(*                                                                         *)
(* A packet is its number: the nth of its queue.  The log level is         *)
(* ETH_LOGLEVEL_NONE, so the third queue, of debug lines, stays empty.     *)
(***************************************************************************)
EXTENDS Integers

CONSTANTS
  ETH_IRQ_QUEUE_SIZE,
  ETH_USER_QUEUE_SIZE,
  MaxAnswers, MaxSends  \* bounds: packets added to either queue

ASSUME EthQueueAssumption ==
  /\ ETH_IRQ_QUEUE_SIZE \in Nat \ {0, 1}
  /\ ETH_USER_QUEUE_SIZE \in Nat \ {0, 1}
  /\ MaxAnswers \in Nat /\ MaxSends \in Nat

VARIABLES
  rx_head,  \* the slot of each queue that is sent next
  tx_head,  \* the slot that the next packet is composed in
  buffer,   \* the packet in each slot
  handler,  \* the queue that ETH_Handler is at
  sending,  \* the slots and sizes given to ethernet_packet_send, at most one
  added,    \* history: the number of packets added to each queue
  sent,     \* history: the last packet sent from each queue
  overrun   \* history: the queues that got a packet when they were full

queueVars == <<rx_head, tx_head, buffer, handler, sending, added, sent, overrun>>

IRQ == "eth_irq_queue"
USER == "eth_user_queue"
Queues == {IRQ, USER}
MainLoop == "not in ETH_Handler"

Size(q) == IF q = IRQ THEN ETH_IRQ_QUEUE_SIZE ELSE ETH_USER_QUEUE_SIZE
Slots(q) == 0..(Size(q) - 1)

-----------------------------------------------------------------------------
QueueInit ==
  /\ rx_head = [q \in Queues |-> 0]
  /\ tx_head = [q \in Queues |-> 0]
  /\ buffer = [q \in Queues |-> [s \in Slots(q) |-> 0]]
  /\ handler = MainLoop
  /\ sending = {}
  /\ added = [q \in Queues |-> 0]
  /\ sent = [q \in Queues |-> 0]
  /\ overrun = {}

\* Mutant: the last slot is never used.
AfterTooShort(q, s) == IF s + 1 > Size(q) THEN 0 ELSE s + 1

After(q, s) == IF s + 1 >= Size(q) THEN 0 ELSE s + 1

\* How many packets the two heads say are waiting.
Waiting(q) == IF tx_head[q] >= rx_head[q] THEN tx_head[q] - rx_head[q]
              ELSE Size(q) - rx_head[q] + tx_head[q]

\* Mutant: the comparison is not strict.
NotEmptyOrEqual(q) == rx_head[q] <= tx_head[q]

NotEmpty(q) == rx_head[q] # tx_head[q]

MaxPackets(q) == IF q = IRQ THEN MaxAnswers ELSE MaxSends
Bounded(q) == added[q] < MaxPackets(q)

\* A packet composed in queue_peekTx's slot, and queue_add.
Add(q) ==
  /\ Bounded(q)
  /\ buffer' = [buffer EXCEPT ![q][tx_head[q]] = added[q] + 1]
  /\ tx_head' = [tx_head EXCEPT ![q] = After(q, @)]
  /\ added' = [added EXCEPT ![q] = @ + 1]
  /\ overrun' = IF Waiting(q) = Size(q) - 1 THEN overrun \cup {q} ELSE overrun
  /\ UNCHANGED <<rx_head, handler, sending, sent>>

-----------------------------------------------------------------------------
(* ETH_Handler, a step at a time: the interrupt handler may run between    *)
(* any two.                                                                *)

Enter ==
  /\ handler = MainLoop
  /\ handler' = IRQ
  /\ UNCHANGED <<rx_head, tx_head, buffer, sending, added, sent, overrun>>

\* Mutant: the slot is taken at the head already moved.
PollNext(q) ==
  /\ handler = q /\ sending = {}
  /\ NotEmpty(q)
  /\ rx_head' = [rx_head EXCEPT ![q] = After(q, @)]
  /\ sending' = {[slot |-> rx_head'[q], message_size |-> buffer[q][rx_head'[q]]]}
  /\ UNCHANGED <<tx_head, buffer, handler, added, sent, overrun>>

\* queue_poll leaves the slot to its caller, with rx_head already past it.
Poll(q) ==
  /\ handler = q /\ sending = {}
  /\ NotEmpty(q)
  /\ sending' = {[slot |-> rx_head[q], message_size |-> buffer[q][rx_head[q]]]}
  /\ rx_head' = [rx_head EXCEPT ![q] = After(q, @)]
  /\ UNCHANGED <<tx_head, buffer, handler, added, sent, overrun>>

\* ethernet_packet_send has taken the packet out of the slot.
Send(q) ==
  /\ handler = q
  /\ \E s \in sending : sent' = [sent EXCEPT ![q] = buffer[q][s.slot]]
  /\ sending' = {}
  /\ UNCHANGED <<rx_head, tx_head, buffer, handler, added, overrun>>

\* Nothing is left: on to the next queue, or back to the caller.
Leave(q) ==
  /\ handler = q /\ sending = {}
  /\ ~NotEmpty(q)
  /\ handler' = IF q = IRQ THEN USER ELSE MainLoop
  /\ UNCHANGED <<rx_head, tx_head, buffer, sending, added, sent, overrun>>

ETH_Handler == Enter \/ \E q \in Queues : Poll(q) \/ Send(q) \/ Leave(q)

-----------------------------------------------------------------------------
QueueTypeOK ==
  /\ \A q \in Queues : rx_head[q] \in Slots(q) /\ tx_head[q] \in Slots(q)
  /\ handler \in Queues \cup {MainLoop}
  /\ handler = MainLoop => sending = {}
  /\ \A q \in Queues : \A s \in Slots(q) : buffer[q][s] \in 0..added[q]
  /\ \A s \in sending : s.slot \in Slots(handler)

\* However many packets are added to a ring that is full, none is sent twice,
\* and none after one that was added later: a ring that is overrun only loses
\* (queue.c:12-50, eth_queue.c:50-57).
SentInOrder == [][\A q \in Queues : Send(q) => sent'[q] > sent[q]]_queueVars

\* A queue that was never given a packet when size - 1 were waiting loses
\* none: what has been sent, what is being sent, with its own size and nothing
\* of another packet, and what is waiting are all the packets, in order.  The
\* slot being sent needs no room (queue.c:24-30, eth_queue.c:54).
NothingLost ==
  \A q \in Queues \ overrun :
    LET last == added[q] - Waiting(q)
    IN IF handler = q /\ sending # {}
       THEN \A s \in sending :
              /\ last = sent[q] + 1
              /\ s.message_size = last
              /\ buffer[q][s.slot] = last
       ELSE last = sent[q]

=============================================================================
