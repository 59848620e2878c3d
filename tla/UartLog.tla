------------------------------ MODULE UartLog ------------------------------
(***************************************************************************)
(* The log of uart_log.c.  uart_log_printf0 .. uart_log_printf4 put a      *)
(* record of words into a ring, with interrupts disabled: the number of    *)
(* parameters, the address of the format, the parameters.  They are called *)
(* from the main loop and from interrupt handlers.  uart_log_process, in   *)
(* the main loop, takes a record off the ring word by word, with           *)
(* interrupts enabled, formats it into one buffer and has a DMA controller *)
(* send it.                                                                *)
(*                                                                         *)
(* The format of the nth message is at an address of its own, 4 + n.       *)
(***************************************************************************)
EXTENDS Integers, Sequences

CONSTANTS
  UART_LOG_BUFFER_SIZE,
  Counts,        \* bound: the numbers of parameters that are used
  Values,        \* bound: the parameters that are passed
  MaxMessages    \* bound: the messages that are logged

ASSUME UartLogAssumption ==
  /\ UART_LOG_BUFFER_SIZE \in Nat /\ UART_LOG_BUFFER_SIZE > 6
  /\ Counts \subseteq 0..4
  /\ Values \subseteq Nat
  /\ MaxMessages \in Nat

VARIABLES
  log_buffer, log_buffer_write_p, log_buffer_read_p,
  printf_buffer,  \* what was formatted last
  taking,         \* uart_log_process is between its two ends ...
  taken,          \* ... and has read these words of a record
  stuck,          \* it is in its endless loop, or follows a wrong address
  dma,            \* the addresses that the DMA controller sends from, at most one
  logged, sent,   \* history: the messages logged, the texts sent
  overrun         \* history: a record did not fit into the ring

logVars == <<log_buffer, log_buffer_write_p, log_buffer_read_p>>
vars == <<logVars, printf_buffer, taking, taken, stuck, dma, logged, sent, overrun>>

Words == 0..(UART_LOG_BUFFER_SIZE - 1)
Format(n) == 4 + n
Formats == {Format(n) : n \in 1..MaxMessages}
PrintfBuffer == 0  \* the address of printf_buffer

\* Mutant: the pointer is compared before it is moved.
AfterLate(p) == IF p = UART_LOG_BUFFER_SIZE THEN 0 ELSE p + 1

After(p) == IF p + 1 = UART_LOG_BUFFER_SIZE THEN 0 ELSE p + 1

\* How many words a pointer is behind another one.
Ahead(from, to) == IF to >= from THEN to - from
                   ELSE UART_LOG_BUFFER_SIZE - from + to

Init ==
  /\ log_buffer = [i \in Words |-> 0]
  /\ log_buffer_write_p = 0 /\ log_buffer_read_p = 0
  /\ printf_buffer = <<>>
  /\ taking = FALSE /\ taken = <<>> /\ stuck = FALSE
  /\ dma = {}
  /\ logged = <<>> /\ sent = <<>>
  /\ overrun = FALSE

-----------------------------------------------------------------------------
(* Logging a message: log_buffer_add of each word of its record.  The read *)
(* pointer is not looked at.                                               *)

Record(parameters) ==
  <<Len(parameters), Format(Len(logged) + 1)>> \o parameters

AddAll(record) ==
  /\ log_buffer' = [i \in Words |->
       LET k == Ahead(log_buffer_write_p, i)
       IN IF k < Len(record) THEN record[k + 1] ELSE log_buffer[i]]
  /\ log_buffer_write_p' =
       LET end == log_buffer_write_p + Len(record)
       IN IF end < UART_LOG_BUFFER_SIZE THEN end ELSE end - UART_LOG_BUFFER_SIZE

\* uart_log_printf0 .. uart_log_printf4
uart_log_printf(parameters) ==
  /\ Len(logged) < MaxMessages
  /\ AddAll(Record(parameters))
  /\ overrun' = (overrun \/ Ahead(log_buffer_read_p, log_buffer_write_p)
                              + Len(parameters) + 2 >= UART_LOG_BUFFER_SIZE)
  /\ logged' = Append(logged, Tail(Record(parameters)))
  /\ UNCHANGED <<log_buffer_read_p, printf_buffer, taking, taken, stuck, dma, sent>>

-----------------------------------------------------------------------------
(* uart_log_process, a step at a time: messages are logged between any two. *)

\* Mutant: the buffer may still be being sent.
TakeAnyTime ==
  /\ ~taking
  /\ log_buffer_write_p # log_buffer_read_p
  /\ taking' = TRUE
  /\ UNCHANGED <<logVars, printf_buffer, taken, stuck, dma, logged, sent, overrun>>

\* Mutant: pointers that have wrapped are not thought of.
TakeIfAhead ==
  /\ ~taking
  /\ dma = {}
  /\ log_buffer_write_p > log_buffer_read_p
  /\ taking' = TRUE
  /\ UNCHANGED <<logVars, printf_buffer, taken, stuck, dma, logged, sent, overrun>>

Take ==
  /\ ~taking
  /\ dma = {}
  /\ log_buffer_write_p # log_buffer_read_p
  /\ taking' = TRUE
  /\ UNCHANGED <<logVars, printf_buffer, taken, stuck, dma, logged, sent, overrun>>

\* The number of parameters and the format are read, and the number is one
\* that the switch has a case for.
Understood == Len(taken) >= 2 /\ taken[1] \in 0..4
Complete == Understood /\ Len(taken) = taken[1] + 2

log_buffer_read ==
  /\ taking /\ ~stuck
  /\ Len(taken) < 2 \/ (Understood /\ ~Complete)
  /\ taken' = Append(taken, log_buffer[log_buffer_read_p])
  /\ log_buffer_read_p' = After(log_buffer_read_p)
  /\ UNCHANGED <<log_buffer, log_buffer_write_p, printf_buffer, taking, stuck, dma,
                 logged, sent, overrun>>

\* while (1), or a format that is none.
Lost ==
  /\ taking /\ ~stuck
  /\ Len(taken) >= 2
  /\ taken[1] \notin 0..4 \/ (Complete /\ taken[2] \notin Formats)
  /\ stuck' = TRUE
  /\ UNCHANGED <<logVars, printf_buffer, taking, taken, dma, logged, sent, overrun>>

\* C leaves open in which order the calls of log_buffer_read among the
\* arguments of snprintf are made; compilers take one of two.
Orders(words) == {words, [i \in 1..Len(words) |-> words[Len(words) + 1 - i]]}

Parameters(words) == SubSeq(words, 3, Len(words))

\* The rest of uart_log_process: a message without parameters is sent from
\* where its format is, others are formatted first.
Send ==
  /\ taking /\ ~stuck
  /\ Complete /\ taken[2] \in Formats
  /\ IF taken[1] = 0
     THEN /\ dma' = {taken[2]}
          /\ UNCHANGED printf_buffer
     ELSE /\ dma' = {PrintfBuffer}
          /\ \E parameters \in Orders(Parameters(taken)) :
               printf_buffer' = <<taken[2]>> \o parameters
  /\ taking' = FALSE
  /\ taken' = <<>>
  /\ UNCHANGED <<logVars, stuck, logged, sent, overrun>>

\* Nothing is waiting, or the DMA is busy: return 0.
ReturnZero ==
  /\ ~taking
  /\ dma # {} \/ log_buffer_write_p = log_buffer_read_p
  /\ UNCHANGED vars

EndlessLoop ==
  /\ stuck
  /\ UNCHANGED vars

uart_log_process ==
  Take \/ log_buffer_read \/ Lost \/ EndlessLoop \/ Send \/ ReturnZero

\* The DMA controller has sent what is at its address by now.
DmaEnd ==
  /\ \E address \in dma :
       sent' = Append(sent, IF address = PrintfBuffer THEN printf_buffer ELSE <<address>>)
  /\ dma' = {}
  /\ UNCHANGED <<logVars, printf_buffer, taking, taken, stuck, logged, overrun>>

-----------------------------------------------------------------------------
Next ==
  \/ \E n \in Counts : \E parameters \in [1..n -> Values] : uart_log_printf(parameters)
  \/ uart_log_process
  \/ DmaEnd

Spec == Init /\ [][Next]_vars

\* The main loop calls uart_log_process again and again, and the DMA controller
\* comes to an end.
FairSpec == Spec /\ WF_vars(uart_log_process) /\ WF_vars(DmaEnd)

-----------------------------------------------------------------------------
TypeOK ==
  /\ log_buffer_write_p \in Words /\ log_buffer_read_p \in Words
  /\ \A i \in Words : log_buffer[i] \in Nat
  /\ taking \in BOOLEAN /\ stuck \in BOOLEAN /\ overrun \in BOOLEAN
  /\ \A i \in 1..Len(taken) : taken[i] \in Nat
  /\ \A address \in dma : address \in Formats \cup {PrintfBuffer}

\* Unless a record did not fit, messages are sent in the order they were logged
\* in, each with its own parameters, from a buffer that nobody writes to while
\* the DMA controller reads it, and uart_log_process is never lost: whatever
\* is logged between two reads of a record (uart_log.c:23-53).
SentAsLogged ==
  ~overrun =>
    /\ ~stuck
    /\ Len(sent) <= Len(logged)
    /\ \A i \in 1..Len(sent) :
         /\ Head(sent[i]) = Head(logged[i])
         /\ Tail(sent[i]) \in Orders(Tail(logged[i]))

\* A message that is logged is sent some time, unless a record did not fit
\* (uart_log.c:25-53): nobody waits for the DMA, who is asked at the next call.
EverythingSent ==
  \A n \in 1..MaxMessages :
    Len(logged) >= n ~> overrun \/ Len(sent) >= n

=============================================================================
