----------------------------- MODULE UartLogProofs -----------------------------
(***************************************************************************)
(* uart_log.c for rings of every size, any number of messages and          *)
(* parameters, and every interleaving of uart_log_printf, which interrupt  *)
(* handlers call, with the word by word reading of uart_log_process.       *)
(*                                                                         *)
(* The ring has no marks between its records: what uart_log_process takes  *)
(* for the beginning of one is wherever it stopped.  The invariant says    *)
(* where each record begins, counted from the read pointer, as a function  *)
(* that exists: a read makes all of its values one less, a message that is *)
(* logged adds one.                                                        *)
(***************************************************************************)
EXTENDS UartLog, SequenceTheorems, TLAPS

N == UART_LOG_BUFFER_SIZE
Texts == Seq(Nat)

\* The words that are waiting, and the place j words behind p.
Waiting == Ahead(log_buffer_read_p, log_buffer_write_p)
At(p, j) == IF p + j < N THEN p + j ELSE p + j - N

\* The messages that uart_log_process is finished with.
Done == Len(sent) + (IF dma = {} THEN 0 ELSE 1)

\* The record of the nth message.
RecordLen(n) == Len(logged[n]) + 1
Word(n, k) == IF k = 1 THEN Len(logged[n]) - 1 ELSE logged[n][k - 1]

\* What the DMA controller sends from an address, if it is asked now.
Text(address) == IF address = PrintfBuffer THEN printf_buffer ELSE <<address>>

Conveys(text, message) ==
  Head(text) = Head(message) /\ Tail(text) \in Orders(Tail(message))

TypeInv ==
  /\ log_buffer \in [Words -> Nat]
  /\ log_buffer_write_p \in Words /\ log_buffer_read_p \in Words
  /\ taking \in BOOLEAN /\ stuck \in BOOLEAN /\ overrun \in BOOLEAN
  /\ taken \in Texts
  /\ dma \subseteq Formats \cup {PrintfBuffer}
  /\ \A a, b \in dma : a = b
  /\ logged \in Seq(Texts) /\ Len(logged) <= MaxMessages
  /\ \A n \in 1..Len(logged) :
       Len(logged[n]) \in 1..5 /\ logged[n][1] = Format(n)
  /\ sent \in Seq(Texts) /\ printf_buffer \in Texts

\* uart_log_process is at a word of the record it took up.
Control ==
  /\ ~stuck
  /\ Done <= Len(logged)
  /\ ~taking => taken = <<>>
  /\ taking =>
       /\ dma = {}
       /\ Done < Len(logged)
       /\ Len(taken) <= RecordLen(Done + 1)
       /\ \A k \in 1..Len(taken) : taken[k] = Word(Done + 1, k)

\* The records in the ring, the first of them as far as it was not read.
Layout(start) ==
  /\ start \in [1..(Len(logged) + 1) -> Int]
  /\ start[Done + 1] = 0 - Len(taken)
  /\ start[Len(logged) + 1] = Waiting
  /\ \A n \in (Done + 1)..Len(logged) : start[n + 1] = start[n] + RecordLen(n)
  /\ \A n \in (Done + 1)..(Len(logged) + 1) : start[n] <= Waiting
  /\ \A n \in (Done + 1)..Len(logged) : \A k \in 1..RecordLen(n) :
       start[n] + k - 1 >= 0 =>
         log_buffer[At(log_buffer_read_p, start[n] + k - 1)] = Word(n, k)

Delivered ==
  /\ \A i \in 1..Len(sent) : Conveys(sent[i], logged[i])
  /\ \A address \in dma : Conveys(Text(address), logged[Len(sent) + 1])

RingInv == Control /\ Delivered /\ \E start : Layout(start)

IInv == TypeInv /\ (~overrun => RingInv)

-----------------------------------------------------------------------------
(* The record of a message.                                                *)

LEMMA RecordFacts ==
  ASSUME NEW parameters, NEW n \in Counts, parameters \in [1..n -> Values],
         Len(logged) \in Nat
  PROVE  /\ Len(parameters) = n /\ n \in 0..4
         /\ parameters \in Seq(Nat)
         /\ Record(parameters) \in Seq(Nat)
         /\ Len(Record(parameters)) = n + 2
         /\ Record(parameters)[1] = n
         /\ Tail(Record(parameters)) \in Seq(Nat)
         /\ Len(Tail(Record(parameters))) = n + 1
         /\ \A k \in 1..(n + 1) :
              Tail(Record(parameters))[k] = Record(parameters)[k + 1]
         /\ Tail(Record(parameters))[1] = Format(Len(logged) + 1)
<1>1. n \in 0..4 /\ parameters \in [1..n -> Nat]
  BY UartLogAssumption
<1>2. parameters \in Seq(Nat) /\ Len(parameters) = n
  BY <1>1
<1>3. PICK head : head = <<n, Format(Len(logged) + 1)>>
  OBVIOUS
<1>4. head \in Seq(Nat) /\ Len(head) = 2 /\ head[1] = n
      /\ head[2] = Format(Len(logged) + 1)
  BY <1>1, <1>3 DEF Format
<1>5. PICK record : record = head \o parameters
  OBVIOUS
<1>6. record \in Seq(Nat) /\ Len(record) = n + 2 /\ record[1] = n
      /\ record[2] = Format(Len(logged) + 1)
  <2>1. record \in Seq(Nat) /\ Len(record) = 2 + n
        /\ \A i \in 1..(2 + n) :
             record[i] = IF i <= 2 THEN head[i] ELSE parameters[i - 2]
    <3>1. /\ head \o parameters \in Seq(Nat)
          /\ Len(head \o parameters) = Len(head) + Len(parameters)
          /\ \A i \in 1..(Len(head) + Len(parameters)) :
               (head \o parameters)[i] =
                 IF i <= Len(head) THEN head[i] ELSE parameters[i - Len(head)]
      BY <1>2, <1>4, ConcatProperties, Zenon
    <3>2. QED
      BY <1>2, <1>4, <1>5, <3>1, Zenon
  <2>2. QED
    BY <1>1, <1>4, <2>1
<1>7. Record(parameters) = record
  BY <1>2, <1>3, <1>5 DEF Record
<1>8. Tail(record) \in Seq(Nat) /\ Len(Tail(record)) = n + 1
      /\ \A k \in 1..(n + 1) : Tail(record)[k] = record[k + 1]
  BY <1>1, <1>6
<1>9. Tail(record)[1] = Format(Len(logged) + 1)
  BY <1>1, <1>6, <1>8
<1>10. QED
  BY <1>1, <1>2, <1>6, <1>7, <1>8, <1>9

-----------------------------------------------------------------------------
(* Places of the ring.                                                     *)

\* Ahead counts from one pointer to another, At goes there.
LEMMA RingPlaces ==
  ASSUME NEW p \in Words
  PROVE  /\ \A q \in Words : /\ Ahead(p, q) \in 0..(N - 1)
                             /\ Ahead(p, q) = 0 <=> p = q
         /\ \A j \in 0..(N - 1) : At(p, j) \in Words /\ Ahead(p, At(p, j)) = j
BY UartLogAssumption DEF Words, Ahead, At, N

\* What a pointer that is moved by one leaves behind.
LEMMA RingRead ==
  ASSUME NEW p \in Words
  PROVE  /\ After(p) \in Words
         /\ At(p, 0) = p
         /\ \A q \in Words : q # p => Ahead(After(p), q) = Ahead(p, q) - 1
         /\ \A j \in 1..(N - 1) : At(After(p), j - 1) = At(p, j)
BY UartLogAssumption DEF Words, Ahead, At, After, N

\* What is written at a pointer that is j words ahead, and what is not.
LEMMA RingWrite ==
  ASSUME NEW r \in Words, NEW w \in Words, NEW l \in 0..6,
         Ahead(r, w) + l < N
  PROVE  /\ At(w, l) \in Words
         /\ Ahead(r, At(w, l)) = Ahead(r, w) + l
         /\ \A j \in 0..(N - 1) :
              /\ j < Ahead(r, w) => Ahead(w, At(r, j)) >= l
              /\ j >= Ahead(r, w) => Ahead(w, At(r, j)) = j - Ahead(r, w)
BY UartLogAssumption DEF Words, Ahead, At, N

-----------------------------------------------------------------------------
(* Types, whether a record did not fit or not.                             *)

LEMMA InitType ==
  ASSUME Init
  PROVE  TypeInv
BY UartLogAssumption DEF Init, TypeInv, Words, Texts

LEMMA AddAllMoves ==
  ASSUME NEW record, AddAll(record), Len(record) \in Nat, TypeInv
  PROVE  log_buffer_write_p' =
           IF log_buffer_write_p + Len(record) < UART_LOG_BUFFER_SIZE
           THEN log_buffer_write_p + Len(record)
           ELSE log_buffer_write_p + Len(record) - UART_LOG_BUFFER_SIZE
BY UartLogAssumption DEF AddAll, TypeInv, Words

LEMMA PrintfType ==
  ASSUME TypeInv, NEW n \in Counts, NEW parameters \in [1..n -> Values],
         uart_log_printf(parameters)
  PROVE  TypeInv'
<1>1. Len(logged) \in Nat /\ logged \in Seq(Texts) /\ Len(logged) < MaxMessages
  BY DEF TypeInv, uart_log_printf
<1>2. PICK record : record = Record(parameters)
  OBVIOUS
<1>3. /\ n \in 0..4 /\ record \in Seq(Nat) /\ Len(record) = n + 2
      /\ Tail(record) \in Seq(Nat) /\ Len(Tail(record)) = n + 1
      /\ Tail(record)[1] = Format(Len(logged) + 1)
      /\ Len(parameters) = n
  BY <1>1, <1>2, RecordFacts
<1>4. log_buffer' \in [Words -> Nat]
  <2>1. ASSUME NEW i \in Words
        PROVE  Ahead(log_buffer_write_p, i) \in Nat
    BY UartLogAssumption DEF TypeInv, Ahead, Words
  <2>2. ASSUME NEW i \in Words, Ahead(log_buffer_write_p, i) < Len(record)
        PROVE  record[Ahead(log_buffer_write_p, i) + 1] \in Nat
    BY <1>3, <2>1, <2>2, SMTT(30)
  <2>3. QED
    BY <1>2, <2>2 DEF TypeInv, uart_log_printf, AddAll
<1>5. log_buffer_write_p' \in Words
  <2>1. log_buffer_write_p' =
          IF log_buffer_write_p + (n + 2) < UART_LOG_BUFFER_SIZE
          THEN log_buffer_write_p + (n + 2)
          ELSE log_buffer_write_p + (n + 2) - UART_LOG_BUFFER_SIZE
    <3>1. Len(Record(parameters)) = n + 2
      BY <1>2, <1>3
    <3>2. log_buffer_write_p' =
            IF log_buffer_write_p + Len(Record(parameters)) < UART_LOG_BUFFER_SIZE
            THEN log_buffer_write_p + Len(Record(parameters))
            ELSE log_buffer_write_p + Len(Record(parameters)) - UART_LOG_BUFFER_SIZE
      BY <1>2, <1>3, <3>1, AddAllMoves DEF uart_log_printf
    <3>3. QED
      BY <3>1, <3>2, Zenon
  <2>2. QED
    BY <1>3, <2>1, UartLogAssumption, SMTT(30) DEF TypeInv, Words
<1>6. overrun' \in BOOLEAN
  BY DEF TypeInv, uart_log_printf
<1>7. /\ logged' \in Seq(Texts) /\ Len(logged') = Len(logged) + 1
      /\ \A m \in 1..Len(logged) : logged'[m] = logged[m]
      /\ logged'[Len(logged) + 1] = Tail(record)
  BY <1>1, <1>2, <1>3 DEF uart_log_printf, Texts
<1>8. ASSUME NEW m \in 1..Len(logged')
      PROVE  Len(logged'[m]) \in 1..5 /\ logged'[m][1] = Format(m)
  <2>1. CASE m = Len(logged) + 1
    <3>1. logged'[m] = Tail(record)
      BY <2>1, <1>7
    <3>2. n + 1 \in 1..5
      BY <1>3
    <3>3. QED
      BY <3>1, <3>2, <2>1, <1>3
  <2>2. CASE m \in 1..Len(logged)
    BY <2>2, <1>7 DEF TypeInv
  <2>3. QED
    BY <1>1, <1>7, <2>1, <2>2
<1>9. Len(logged') <= MaxMessages
  BY <1>1, <1>7, UartLogAssumption
<1>10. /\ UNCHANGED <<log_buffer_read_p, taking, stuck, taken>>
       /\ UNCHANGED <<dma, sent, printf_buffer>>
  BY Zenon DEF uart_log_printf
<1>11. QED
  BY <1>4, <1>5, <1>6, <1>7, <1>8, <1>9, <1>10, Zenon DEF TypeInv

LEMMA ReadType ==
  ASSUME TypeInv, log_buffer_read
  PROVE  TypeInv'
<1>1. After(log_buffer_read_p) \in Words
  BY UartLogAssumption DEF TypeInv, After, Words
<1>2. taken' \in Texts
  BY DEF TypeInv, log_buffer_read, Texts
<1>3. QED
  BY <1>1, <1>2 DEF TypeInv, log_buffer_read

\* The words in either order are a text.
LEMMA OrdersType ==
  ASSUME NEW words \in Seq(Nat), NEW text \in Orders(words)
  PROVE  text \in Seq(Nat) /\ Len(text) = Len(words)
<1>1. CASE text = words
  BY <1>1
<1>2. CASE text = [i \in 1..Len(words) |-> words[Len(words) + 1 - i]]
  <2>1. Len(words) \in Nat
    OBVIOUS
  <2>2. ASSUME NEW i \in 1..Len(words)
        PROVE  words[Len(words) + 1 - i] \in Nat
    BY <2>1, ElementOfSeq
  <2>3. text \in [1..Len(words) -> Nat]
    BY <1>2, <2>2
  <2>4. QED
    BY <2>1, <2>3
<1>3. QED
  BY <1>1, <1>2 DEF Orders

LEMMA ParametersType ==
  ASSUME NEW words \in Seq(Nat), Len(words) >= 2
  PROVE  /\ Parameters(words) \in Seq(Nat)
         /\ Len(Parameters(words)) = Len(words) - 2
         /\ \A i \in 1..(Len(words) - 2) : Parameters(words)[i] = words[i + 2]
<1>1. Len(words) \in Nat
  OBVIOUS
<1>2. \A i \in 3..Len(words) : words[i] \in Nat
  BY <1>1, ElementOfSeq
<1>3. /\ SubSeq(words, 3, Len(words)) \in Seq(Nat)
      /\ Len(SubSeq(words, 3, Len(words)))
           = IF 3 <= Len(words) THEN Len(words) - 3 + 1 ELSE 0
      /\ \A i \in 1..(Len(words) - 3 + 1) :
           SubSeq(words, 3, Len(words))[i] = words[3 + i - 1]
  BY <1>1, <1>2, SubSeqProperties
<1>4. QED
  <2>1. Len(words) - 3 + 1 = Len(words) - 2
    BY <1>1
  <2>2. ASSUME NEW i \in 1..(Len(words) - 2)
        PROVE  SubSeq(words, 3, Len(words))[i] = words[i + 2]
    <3>1. 3 + i - 1 = i + 2
      OBVIOUS
    <3>2. QED
      BY <1>3, <2>1, <3>1
  <2>3. Len(SubSeq(words, 3, Len(words))) = Len(words) - 2
    <3>1. ASSUME NEW l \in Nat, l >= 2
          PROVE  (IF 3 <= l THEN l - 3 + 1 ELSE 0) = l - 2
      BY <3>1
    <3>2. QED
      BY <1>1, <1>3, <3>1, Zenon
  <2>4. QED
    BY <1>3, <2>2, <2>3 DEF Parameters

LEMMA HeadTailOfCons ==
  ASSUME NEW head \in Nat, NEW tail \in Seq(Nat)
  PROVE  Head(<<head>> \o tail) = head /\ Tail(<<head>> \o tail) = tail
<1>1. PICK text : text = <<head>> \o tail
  OBVIOUS
<1>2. <<head>> \in Seq(Nat) /\ Len(<<head>>) = 1
  OBVIOUS
<1>3. PICK l \in Nat : l = Len(tail)
  OBVIOUS
<1>4. /\ text \in Seq(Nat) /\ Len(text) = 1 + l
      /\ \A i \in 1..(1 + l) : text[i] = IF i <= 1 THEN <<head>>[i] ELSE tail[i - 1]
  <2>1. /\ <<head>> \o tail \in Seq(Nat)
        /\ Len(<<head>> \o tail) = Len(<<head>>) + Len(tail)
        /\ \A i \in 1..(Len(<<head>>) + Len(tail)) : (<<head>> \o tail)[i] =
             IF i <= Len(<<head>>) THEN <<head>>[i] ELSE tail[i - Len(<<head>>)]
    BY <1>2, ConcatProperties, Zenon
  <2>2. QED
    BY <1>1, <1>2, <1>3, <2>1, Zenon
<1>5. text # <<>> /\ Head(text) = text[1] /\ text[1] = head
  BY <1>4
<1>6. /\ Tail(text) \in Seq(Nat) /\ Len(Tail(text)) = Len(text) - 1
      /\ \A i \in 1..Len(Tail(text)) : Tail(text)[i] = text[i + 1]
  BY <1>4, <1>5, HeadTailProperties
<1>7. Len(Tail(text)) = l
  BY <1>4, <1>6
<1>8. ASSUME NEW i \in 1..l
      PROVE  Tail(text)[i] = tail[i]
  <2>1. i + 1 \in 1..(1 + l) /\ ~(i + 1 <= 1) /\ i + 1 - 1 = i
    OBVIOUS
  <2>2. QED
    BY <1>4, <1>6, <1>7, <2>1
<1>9. Tail(text) = tail
  BY <1>3, <1>6, <1>7, <1>8, SeqEqual
<1>10. QED
  BY <1>1, <1>5, <1>9

LEMMA SendType ==
  ASSUME TypeInv, Send
  PROVE  TypeInv'
<1>1. taken \in Seq(Nat) /\ Len(taken) >= 2 /\ taken[2] \in Formats
  BY DEF TypeInv, Send, Complete, Understood, Texts
<1>2. printf_buffer' \in Texts
  <2>1. CASE taken[1] = 0
    BY <2>1 DEF TypeInv, Send
  <2>2. CASE taken[1] # 0
    <3>1. PICK parameters \in Orders(Parameters(taken)) :
            printf_buffer' = <<taken[2]>> \o parameters
      BY <2>2 DEF Send
    <3>2. parameters \in Seq(Nat)
      BY <1>1, ParametersType, OrdersType
    <3>3. <<taken[2]>> \in Seq(Nat)
      BY <1>1
    <3>4. QED
      BY <3>1, <3>2, <3>3, ConcatProperties DEF Texts
  <2>3. QED
    BY <2>1, <2>2
<1>3. dma' \subseteq Formats \cup {PrintfBuffer} /\ \A a, b \in dma' : a = b
  BY <1>1 DEF Send
<1>4. taken' \in Texts
  BY DEF Send, Texts
<1>5. QED
  BY <1>2, <1>3, <1>4 DEF TypeInv, Send, logVars

LEMMA DmaEndType ==
  ASSUME TypeInv, DmaEnd
  PROVE  TypeInv'
<1>1. PICK address \in dma :
        sent' = Append(sent, IF address = PrintfBuffer THEN printf_buffer ELSE <<address>>)
  BY DEF DmaEnd
<1>2. address \in Nat
  BY UartLogAssumption DEF TypeInv, Formats, Format, PrintfBuffer
<1>3. (IF address = PrintfBuffer THEN printf_buffer ELSE <<address>>) \in Texts
  BY <1>2 DEF TypeInv, Texts
<1>4. sent' \in Seq(Texts)
  BY <1>1, <1>3 DEF TypeInv
<1>5. QED
  BY <1>4 DEF TypeInv, DmaEnd, logVars

LEMMA NextType ==
  ASSUME TypeInv, [Next]_vars
  PROVE  TypeInv'
<1>1. ASSUME NEW n \in Counts, NEW parameters \in [1..n -> Values],
             uart_log_printf(parameters)
      PROVE  TypeInv'
  BY <1>1, PrintfType
<1>2. CASE Take
  BY <1>2 DEF TypeInv, Take, logVars
<1>3. CASE log_buffer_read
  BY <1>3, ReadType
<1>4. CASE Lost
  BY <1>4 DEF TypeInv, Lost, logVars
<1>5. CASE Send
  BY <1>5, SendType
<1>6. CASE DmaEnd
  BY <1>6, DmaEndType
<1>7. CASE UNCHANGED vars
  BY <1>7 DEF TypeInv, vars, logVars
<1>8. QED
  BY <1>1, <1>2, <1>3, <1>4, <1>5, <1>6, <1>7
     DEF Next, uart_log_process, ReturnZero, EndlessLoop

-----------------------------------------------------------------------------
(* The layout of the ring.                                                 *)

LEMMA Sizes ==
  ASSUME TypeInv
  PROVE  /\ Len(logged) \in Nat /\ Len(sent) \in Nat /\ Len(taken) \in Nat
         /\ Done \in Nat
         /\ Waiting \in 0..(N - 1)
         /\ Waiting = 0 <=> log_buffer_read_p = log_buffer_write_p
         /\ \A n \in 1..Len(logged) :
              RecordLen(n) \in 2..6 /\ Len(logged[n]) = RecordLen(n) - 1
<1>1. Len(logged) \in Nat /\ Len(sent) \in Nat /\ Len(taken) \in Nat
  BY DEF TypeInv, Texts
<1>2. Done \in Nat
  BY <1>1 DEF Done
<1>3. /\ Waiting \in 0..(N - 1)
      /\ Waiting = 0 <=> log_buffer_read_p = log_buffer_write_p
  BY RingPlaces DEF Waiting, TypeInv
<1>4. ASSUME NEW n \in 1..Len(logged)
      PROVE  RecordLen(n) \in 2..6 /\ Len(logged[n]) = RecordLen(n) - 1
  <2>1. Len(logged[n]) \in 1..5
    BY DEF TypeInv
  <2>2. PICK l : l = Len(logged[n])
    OBVIOUS
  <2>3. l \in 1..5 /\ RecordLen(n) = l + 1
    BY <2>1, <2>2 DEF RecordLen
  <2>4. l + 1 \in 2..6 /\ l = (l + 1) - 1
    BY <2>3
  <2>5. QED
    BY <2>2, <2>3, <2>4, Zenon
<1>5. QED
  BY <1>1, <1>2, <1>3, <1>4

\* Where the words of a record are.
LEMMA WordPlaces ==
  ASSUME TypeInv, NEW start, Layout(start),
         NEW n \in (Done + 1)..Len(logged), NEW k \in 1..RecordLen(n)
  PROVE  /\ start[n] \in Int /\ start[n + 1] \in Int
         /\ start[n] + k - 1 < Waiting
<1>1. /\ n \in 1..Len(logged) /\ n + 1 \in (Done + 1)..(Len(logged) + 1)
      /\ n \in 1..(Len(logged) + 1) /\ n + 1 \in 1..(Len(logged) + 1)
  BY Sizes
<1>2. start[n] \in Int /\ start[n + 1] \in Int
  BY <1>1 DEF Layout
<1>3. start[n + 1] = start[n] + RecordLen(n) /\ start[n + 1] <= Waiting
  BY <1>1 DEF Layout
<1>4. QED
  <2>1. RecordLen(n) \in 2..6 /\ Waiting \in Nat
    BY <1>1, Sizes
  <2>2. QED
    BY <1>2, <1>3, <2>1, SMTT(30)

LEMMA InitRing ==
  ASSUME Init
  PROVE  RingInv
<1>1. /\ Len(logged) = 0 /\ Len(sent) = 0 /\ Done = 0 /\ Len(taken) = 0
      /\ Waiting = 0
  BY DEF Init, Done, Waiting, Ahead
<1>2. PICK start : start = [n \in 1..1 |-> 0]
  OBVIOUS
<1>3. Layout(start)
  <2>1. 0 + 1 = 1 /\ 0 - 0 = 0
    OBVIOUS
  <2>2. start \in [1..(Len(logged) + 1) -> Int]
    BY <1>1, <1>2
  <2>3. start[Done + 1] = 0 - Len(taken) /\ start[Len(logged) + 1] = Waiting
    BY <1>1, <1>2, <2>1
  <2>4. \A n \in (Done + 1)..Len(logged) : FALSE
    BY <1>1
  <2>5. \A n \in (Done + 1)..(Len(logged) + 1) : start[n] <= Waiting
    BY <1>1, <1>2
  <2>6. QED
    BY <2>2, <2>3, <2>4, <2>5 DEF Layout
<1>4. Control /\ Delivered
  BY <1>1 DEF Init, Control, Delivered
<1>5. QED
  BY <1>3, <1>4 DEF RingInv

-----------------------------------------------------------------------------
(* A message is logged, in between whatever uart_log_process does.         *)

LEMMA PrintfRing ==
  ASSUME TypeInv, RingInv, NEW n \in Counts, NEW parameters \in [1..n -> Values],
         uart_log_printf(parameters), ~overrun'
  PROVE  RingInv'
<1>1. PICK L \in Nat : L = Len(logged)
  BY Sizes
<1>2. PICK record : record = Record(parameters)
  OBVIOUS
<1>3. /\ n \in 0..4 /\ record \in Seq(Nat) /\ Len(record) = n + 2 /\ record[1] = n
      /\ Tail(record) \in Seq(Nat) /\ Len(Tail(record)) = n + 1
      /\ \A k \in 1..(n + 1) : Tail(record)[k] = record[k + 1]
      /\ Len(parameters) = n
  BY <1>1, <1>2, RecordFacts
<1>4. Waiting + (n + 2) < N
  <2>1. ~(Waiting + Len(parameters) + 2 >= N)
    BY DEF uart_log_printf, Waiting, N
  <2>2. QED
    BY <1>3, <2>1, Sizes, UartLogAssumption DEF N
<1>5. /\ log_buffer_read_p' = log_buffer_read_p /\ taking' = taking
      /\ taken' = taken /\ stuck' = stuck /\ dma' = dma /\ sent' = sent
      /\ printf_buffer' = printf_buffer
      /\ logged' = Append(logged, Tail(record))
  BY <1>2 DEF uart_log_printf
<1>6. Done' = Done
  BY <1>5 DEF Done
<1>7. /\ Len(logged') = L + 1
      /\ \A m \in 1..L : logged'[m] = logged[m]
      /\ logged'[L + 1] = Tail(record)
  BY <1>1, <1>3, <1>5 DEF TypeInv, Texts
<1>8. \A m \in 1..L : /\ RecordLen(m)' = RecordLen(m)
                      /\ \A k \in Nat : Word(m, k)' = Word(m, k)
  BY <1>7 DEF RecordLen, Word
<1>9. RecordLen(L + 1)' = n + 2
  BY <1>3, <1>7 DEF RecordLen
<1>10. ASSUME NEW k \in 1..(n + 2)
       PROVE  Word(L + 1, k)' = record[k]
  <2>1. CASE k = 1
    <3>1. Word(L + 1, k)' = Len(logged'[L + 1]) - 1
      BY <2>1 DEF Word
    <3>2. QED
      BY <1>3, <1>7, <2>1, <3>1
  <2>2. CASE k # 1
    <3>1. Word(L + 1, k)' = Tail(record)[k - 1]
      BY <1>7, <2>2 DEF Word
    <3>2. k - 1 \in 1..(n + 1) /\ k - 1 + 1 = k
      BY <1>3, <2>2
    <3>3. QED
      BY <1>3, <3>1, <3>2
  <2>3. QED
    BY <2>1, <2>2
<1>11. log_buffer_read_p \in Words /\ log_buffer_write_p \in Words
  BY DEF TypeInv
<1>12. Waiting' = Waiting + (n + 2)
  <2>1. PICK l : l = n + 2
    OBVIOUS
  <2>2. l \in 0..6 /\ l \in Nat
    BY <1>3, <2>1
  <2>3. log_buffer_write_p' = At(log_buffer_write_p, l)
    <3>1. Len(Record(parameters)) = l /\ AddAll(Record(parameters))
      BY <1>2, <1>3, <2>1 DEF uart_log_printf
    <3>2. QED
      BY <2>2, <3>1, AddAllMoves DEF N, At
  <2>4. Ahead(log_buffer_read_p, log_buffer_write_p) + l < N
    BY <1>4, <2>1 DEF Waiting
  <2>5. Ahead(log_buffer_read_p, At(log_buffer_write_p, l))
          = Ahead(log_buffer_read_p, log_buffer_write_p) + l
    BY <1>11, <2>2, <2>4, RingWrite
  <2>6. QED
    BY <1>5, <2>1, <2>3, <2>5 DEF Waiting
<1>13. ASSUME NEW j \in 0..(N - 1)
       PROVE  log_buffer'[At(log_buffer_read_p, j)] =
                IF j < Waiting THEN log_buffer[At(log_buffer_read_p, j)]
                ELSE IF j < Waiting + (n + 2) THEN record[j - Waiting + 1]
                ELSE log_buffer[At(log_buffer_read_p, j)]
  <2>1. PICK i : i = At(log_buffer_read_p, j)
    OBVIOUS
  <2>2. i \in Words
    BY <1>11, <2>1, RingPlaces
  <2>3. log_buffer'[i] = IF Ahead(log_buffer_write_p, i) < n + 2
                         THEN record[Ahead(log_buffer_write_p, i) + 1]
                         ELSE log_buffer[i]
    <3>1. AddAll(record) /\ Len(record) = n + 2
      BY <1>2, <1>3 DEF uart_log_printf
    <3>2. QED
      BY <2>2, <3>1 DEF AddAll
  <2>4. /\ j < Waiting => Ahead(log_buffer_write_p, i) >= n + 2
        /\ j >= Waiting => Ahead(log_buffer_write_p, i) = j - Waiting
    <3>1. n + 2 \in 0..6
      BY <1>3
    <3>2. QED
      BY <1>4, <1>11, <2>1, <3>1, RingWrite DEF Waiting
  <2>5. Ahead(log_buffer_write_p, i) \in 0..(N - 1)
    BY <1>11, <2>2, RingPlaces
  <2>6. QED
    BY <1>3, <2>1, <2>3, <2>4, <2>5, Sizes
<1>14. PICK start : Layout(start)
  BY DEF RingInv
<1>15. PICK new : new = [m \in 1..(L + 2) |->
                           IF m <= L + 1 THEN start[m] ELSE Waiting + (n + 2)]
  OBVIOUS
<1>16. Done <= L /\ Done \in Nat /\ Waiting \in Nat
  BY <1>1, Sizes DEF RingInv, Control
<1>17. /\ start \in [1..(L + 1) -> Int]
       /\ start[Done + 1] = 0 - Len(taken)
       /\ start[L + 1] = Waiting
  BY <1>1, <1>14 DEF Layout
<1>18. Layout(new)'
  <2>1. new \in [1..(L + 1 + 1) -> Int]
    <3>1. L + 2 = L + 1 + 1
      OBVIOUS
    <3>2. Waiting + (n + 2) \in Int
      BY <1>3, <1>16
    <3>3. \A m \in 1..(L + 2) : m <= L + 1 => start[m] \in Int
      BY <1>17
    <3>4. QED
      BY <1>15, <3>1, <3>2, <3>3
  <2>2. /\ \A m \in 1..(L + 1) : new[m] = start[m]
        /\ new[L + 2] = Waiting + (n + 2)
    BY <1>15
  <2>3. new[Done + 1] = 0 - Len(taken)
    BY <1>16, <1>17, <2>2
  <2>4. ASSUME NEW m \in (Done + 1)..(L + 1)
        PROVE  new[m + 1] = new[m] + RecordLen(m)'
    <3>1. CASE m = L + 1
      <4>1. new[m] = Waiting /\ new[m + 1] = Waiting + (n + 2)
        BY <1>16, <1>17, <2>2, <3>1
      <4>2. QED
        BY <1>9, <3>1, <4>1
    <3>2. CASE m \in (Done + 1)..L
      <4>1. m \in 1..L /\ m \in 1..(L + 1) /\ m + 1 \in 1..(L + 1)
        BY <1>16, <3>2
      <4>2. start[m + 1] = start[m] + RecordLen(m)
        BY <1>1, <1>14, <3>2 DEF Layout
      <4>3. QED
        BY <1>8, <2>2, <4>1, <4>2
    <3>3. QED
      BY <1>16, <3>1, <3>2
  <2>5. ASSUME NEW m \in (Done + 1)..(L + 2)
        PROVE  new[m] <= Waiting'
    <3>1. CASE m = L + 2
      BY <1>3, <1>12, <1>16, <2>2, <3>1
    <3>2. CASE m \in (Done + 1)..(L + 1)
      <4>1. m \in 1..(L + 1)
        BY <1>16, <3>2
      <4>2. start[m] <= Waiting /\ start[m] \in Int
        BY <1>1, <1>14, <1>17, <3>2, <4>1 DEF Layout
      <4>3. QED
        BY <1>3, <1>12, <1>16, <2>2, <4>1, <4>2
    <3>3. QED
      BY <1>16, <3>1, <3>2
  <2>6. ASSUME NEW m \in (Done + 1)..(L + 1), NEW k \in 1..RecordLen(m)',
               new[m] + k - 1 >= 0
        PROVE  log_buffer'[At(log_buffer_read_p, new[m] + k - 1)] = Word(m, k)'
    <3>1. CASE m = L + 1
      <4>1. new[m] = Waiting /\ k \in 1..(n + 2)
        BY <1>9, <1>16, <1>17, <2>2, <3>1
      <4>2. PICK j : j = Waiting + k - 1
        OBVIOUS
      <4>3. j \in 0..(N - 1) /\ j >= Waiting /\ j < Waiting + (n + 2)
            /\ j - Waiting + 1 = k
        BY <1>3, <1>4, <1>16, <4>1, <4>2, UartLogAssumption DEF N
      <4>4. log_buffer'[At(log_buffer_read_p, j)] = record[k]
        BY <1>13, <1>16, <4>3
      <4>5. QED
        BY <1>10, <3>1, <4>1, <4>2, <4>4
    <3>2. CASE m \in (Done + 1)..L
      <4>1. m \in 1..L /\ new[m] = start[m] /\ k \in 1..RecordLen(m) /\ k \in Nat
        BY <1>1, <1>8, <1>16, <2>2, <3>2, Sizes
      <4>2. start[m] \in Int /\ start[m] + k - 1 < Waiting
        BY <1>1, <1>14, <3>2, <4>1, WordPlaces
      <4>3. PICK j : j = start[m] + k - 1
        OBVIOUS
      <4>4. j \in 0..(N - 1) /\ j < Waiting
        BY <2>6, <4>1, <4>2, <4>3, Sizes, UartLogAssumption DEF N
      <4>5. log_buffer[At(log_buffer_read_p, j)] = Word(m, k)
        BY <1>1, <1>14, <3>2, <4>1, <4>3, <4>4 DEF Layout
      <4>6. QED
        BY <1>8, <1>13, <4>1, <4>3, <4>4, <4>5
    <3>3. QED
      BY <1>16, <3>1, <3>2
  <2>7. L + 1 + 1 = L + 2
    OBVIOUS
  <2>8. QED
    BY <1>5, <1>6, <1>7, <1>12, <2>1, <2>2, <2>3, <2>4, <2>5, <2>6, <2>7 DEF Layout
<1>19. Control'
  <2>1. Done + 1 <= L => Done + 1 \in 1..L
    BY <1>16
  <2>2. \A k \in 1..Len(taken) : k \in Nat
    BY Sizes
  <2>3. L <= L + 1 /\ Done <= L + 1
    BY <1>16
  <2>4. taking => Done + 1 \in 1..L
    BY <1>1, <1>16 DEF RingInv, Control
  <2>5. QED
    BY <1>1, <1>5, <1>6, <1>7, <1>8, <1>16, <2>2, <2>3, <2>4 DEF RingInv, Control
<1>20. Delivered'
  <2>1. \A i \in 1..Len(sent) : i \in 1..L
    BY <1>1, <1>16, Sizes DEF Done
  <2>2. dma # {} => Len(sent) + 1 \in 1..L
    BY <1>1, <1>16, Sizes DEF Done
  <2>3. QED
    BY <1>5, <1>7, <2>1, <2>2 DEF RingInv, Delivered, Text, Conveys
<1>21. QED
  BY <1>18, <1>19, <1>20 DEF RingInv

-----------------------------------------------------------------------------
(* uart_log_process, and the DMA controller.                               *)

\* Something waits: a whole message does.
LEMMA TakeRing ==
  ASSUME TypeInv, RingInv, Take
  PROVE  RingInv'
<1>1. PICK start : Layout(start)
  BY DEF RingInv
<1>2. Done <= Len(logged) /\ taken = <<>> /\ dma = {}
  BY DEF RingInv, Control, Take
<1>3. Done # Len(logged)
  <2>1. ASSUME Done = Len(logged)  PROVE FALSE
    <3>1. Waiting = 0 - Len(taken)
      BY <1>1, <2>1 DEF Layout
    <3>2. Len(taken) = 0
      BY <1>2
    <3>3. Waiting = 0
      BY <3>1, <3>2
    <3>4. QED
      BY <3>3, Sizes DEF Take
  <2>2. QED
    BY <2>1
<1>4. Done < Len(logged)
  BY <1>2, <1>3, Sizes
<1>5. /\ UNCHANGED <<log_buffer, log_buffer_read_p, log_buffer_write_p>>
      /\ UNCHANGED <<printf_buffer, taken, stuck, dma, logged, sent>>
  BY DEF Take, logVars
<1>6. Done' = Done /\ Waiting' = Waiting
  BY <1>5 DEF Done, Waiting
<1>7. \A m : RecordLen(m)' = RecordLen(m) /\ \A k : Word(m, k)' = Word(m, k)
  BY <1>5 DEF RecordLen, Word
<1>8. Layout(start)'
  BY <1>1, <1>5, <1>6, <1>7, Zenon DEF Layout
<1>9. Control'
  <2>1. Len(taken) = 0 /\ RecordLen(Done + 1) \in 2..6
    BY <1>2, <1>4, Sizes
  <2>2. QED
    BY <1>2, <1>4, <1>5, <1>6, <1>7, <2>1 DEF RingInv, Control, Take
<1>10. Delivered'
  BY <1>5, Zenon DEF RingInv, Delivered, Text, Conveys
<1>11. QED
  BY <1>8, <1>9, <1>10 DEF RingInv

\* The beginnings come nearer by one.
LEMMA ReadRing ==
  ASSUME TypeInv, RingInv, log_buffer_read
  PROVE  RingInv'
<1>1. PICK start : Layout(start)
  BY DEF RingInv
<1>2. PICK L \in Nat : L = Len(logged)
  BY Sizes
<1>3. PICK t \in Nat : t = Len(taken)
  BY Sizes
<1>4. PICK d \in Nat : d = Done
  BY Sizes
<1>5. d < L /\ taking /\ dma = {}
  BY <1>2, <1>4 DEF RingInv, Control, log_buffer_read
<1>6. PICK l \in 2..6 : l = RecordLen(d + 1) /\ Len(logged[d + 1]) = l - 1
  <2>1. d + 1 \in 1..Len(logged)
    BY <1>2, <1>5
  <2>2. RecordLen(d + 1) \in 2..6 /\ Len(logged[d + 1]) = RecordLen(d + 1) - 1
    BY <2>1, Sizes
  <2>3. QED
    BY <2>2
<1>7. t < l
  <2>1. t <= l /\ \A k \in 1..t : taken[k] = Word(d + 1, k)
    BY <1>3, <1>4, <1>5, <1>6 DEF RingInv, Control
  <2>2. t # l
    <3>1. ASSUME t = l  PROVE Complete
      <4>1. taken[1] = l - 1 - 1
        BY <1>6, <2>1, <3>1 DEF Word
      <4>2. taken[1] \in 0..4 /\ t >= 2 /\ t = taken[1] + 2
        BY <3>1, <4>1
      <4>3. QED
        BY <1>3, <4>2 DEF Complete, Understood
    <3>2. ASSUME t = l  PROVE ~(t < 2)
      BY <3>2
    <3>3. QED
      BY <1>3, <3>1, <3>2 DEF log_buffer_read
  <2>3. QED
    BY <2>1, <2>2
<1>8. start[d + 1] = 0 - t /\ t + 1 \in 1..l
  BY <1>1, <1>3, <1>4, <1>7 DEF Layout
<1>9. 0 < Waiting /\ Waiting \in 0..(N - 1)
  <2>1. d + 1 \in (Done + 1)..Len(logged) /\ t + 1 \in 1..RecordLen(d + 1)
    BY <1>2, <1>4, <1>5, <1>6, <1>8
  <2>2. start[d + 1] + (t + 1) - 1 < Waiting
    BY <1>1, <2>1, WordPlaces
  <2>3. QED
    BY <1>8, <2>2, Sizes
<1>10. log_buffer_read_p \in Words /\ log_buffer_write_p \in Words
  BY DEF TypeInv
<1>11. /\ log_buffer_read_p' = After(log_buffer_read_p)
       /\ taken' = Append(taken, log_buffer[log_buffer_read_p])
       /\ UNCHANGED <<log_buffer, log_buffer_write_p, printf_buffer, taking, stuck>>
       /\ UNCHANGED <<dma, logged, sent>>
  BY DEF log_buffer_read
<1>12. Waiting' = Waiting - 1
  <2>1. log_buffer_write_p # log_buffer_read_p
    BY <1>9, Sizes
  <2>2. QED
    BY <1>10, <1>11, <2>1, RingRead DEF Waiting
<1>13. log_buffer[log_buffer_read_p] = Word(d + 1, t + 1)
  <2>1. /\ d + 1 \in (Done + 1)..Len(logged) /\ t + 1 \in 1..RecordLen(d + 1)
        /\ start[d + 1] + (t + 1) - 1 = 0
    BY <1>2, <1>4, <1>5, <1>6, <1>8
  <2>2. log_buffer[At(log_buffer_read_p, start[d + 1] + (t + 1) - 1)]
          = Word(d + 1, t + 1)
    BY <1>1, <2>1 DEF Layout
  <2>3. QED
    BY <1>10, <2>1, <2>2, RingRead
<1>14. /\ Len(taken') = t + 1
       /\ \A k \in 1..t : taken'[k] = taken[k]
       /\ taken'[t + 1] = Word(d + 1, t + 1)
  BY <1>3, <1>11, <1>13 DEF TypeInv, Texts
<1>15. Done' = Done
  BY <1>11 DEF Done
<1>16. \A m : RecordLen(m)' = RecordLen(m) /\ \A k : Word(m, k)' = Word(m, k)
  BY <1>11 DEF RecordLen, Word
<1>17. PICK new : new = [m \in 1..(L + 1) |-> start[m] - 1]
  OBVIOUS
<1>18. /\ start \in [1..(L + 1) -> Int] /\ start[L + 1] = Waiting
  BY <1>1, <1>2 DEF Layout
<1>19. Layout(new)'
  <2>1. /\ new \in [1..(L + 1) -> Int]
        /\ \A m \in 1..(L + 1) : new[m] = start[m] - 1 /\ start[m] \in Int
    BY <1>17, <1>18
  <2>2. new[d + 1] = 0 - (t + 1)
    BY <1>5, <1>8, <2>1
  <2>3. new[L + 1] = Waiting'
    BY <1>12, <1>18, <2>1
  <2>4. ASSUME NEW m \in (d + 1)..L
        PROVE  new[m + 1] = new[m] + RecordLen(m)
    <3>1. start[m + 1] = start[m] + RecordLen(m)
      BY <1>1, <1>2, <1>4 DEF Layout
    <3>2. m \in 1..L /\ m \in 1..(L + 1) /\ m + 1 \in 1..(L + 1)
      OBVIOUS
    <3>3. RecordLen(m) \in Int
      BY <1>2, <3>2, Sizes
    <3>4. QED
      BY <2>1, <3>1, <3>2, <3>3
  <2>5. ASSUME NEW m \in (d + 1)..(L + 1)
        PROVE  new[m] <= Waiting'
    <3>1. start[m] <= Waiting
      BY <1>1, <1>2, <1>4 DEF Layout
    <3>2. QED
      BY <1>9, <1>12, <2>1, <3>1
  <2>6. ASSUME NEW m \in (d + 1)..L, NEW k \in 1..RecordLen(m),
               new[m] + k - 1 >= 0
        PROVE  log_buffer[At(After(log_buffer_read_p), new[m] + k - 1)] = Word(m, k)
    <3>1. RecordLen(m) \in Int /\ m \in 1..(L + 1)
      BY <1>2, Sizes, SMTT(30)
    <3>2. start[m] \in Int /\ start[m] + k - 1 < Waiting
      BY <1>1, <1>2, <1>4, WordPlaces
    <3>3. PICK j : j = start[m] + k - 1
      OBVIOUS
    <3>4. j \in 1..(N - 1) /\ j - 1 = new[m] + k - 1 /\ start[m] + k - 1 >= 0
      <4>1. new[m] = start[m] - 1 /\ k \in Int /\ j \in Int
        BY <2>1, <3>1, <3>2, <3>3
      <4>2. j - 1 >= 0 /\ j - 1 = new[m] + k - 1
        BY <2>6, <3>2, <3>3, <4>1
      <4>3. j <= N - 1
        BY <1>9, <3>2, <3>3, <4>1, UartLogAssumption DEF N
      <4>4. QED
        BY <3>3, <4>1, <4>2, <4>3, UartLogAssumption DEF N
    <3>5. log_buffer[At(log_buffer_read_p, j)] = Word(m, k)
      BY <1>1, <1>2, <1>4, <3>3, <3>4 DEF Layout
    <3>6. At(After(log_buffer_read_p), j - 1) = At(log_buffer_read_p, j)
      BY <1>10, <3>4, RingRead
    <3>7. QED
      BY <3>4, <3>5, <3>6
  <2>7. QED
    BY <1>2, <1>4, <1>11, <1>14, <1>15, <1>16, <2>1, <2>2, <2>3, <2>4, <2>5, <2>6
       DEF Layout
<1>20. Control'
  <2>1. t + 1 <= RecordLen(d + 1)
    BY <1>6, <1>7
  <2>2. ASSUME NEW k \in 1..(t + 1)
        PROVE  taken'[k] = Word(d + 1, k)
    <3>1. \A i \in 1..t : taken[i] = Word(d + 1, i)
      BY <1>3, <1>4, <1>5 DEF RingInv, Control
    <3>2. QED
      BY <1>14, <3>1
  <2>3. QED
    BY <1>4, <1>5, <1>11, <1>14, <1>15, <1>16, <2>1, <2>2 DEF RingInv, Control
<1>21. Delivered'
  BY <1>11, Zenon DEF RingInv, Delivered, Text, Conveys
<1>22. QED
  BY <1>19, <1>20, <1>21 DEF RingInv

\* The words that were read are a record, so there is a case for its number
\* of parameters, and its format is one.
LEMMA NeverLost ==
  ASSUME TypeInv, RingInv
  PROVE  ~Lost
<1>1. SUFFICES ASSUME Lost  PROVE FALSE
  OBVIOUS
<1>2. Done + 1 \in 1..Len(logged) /\ Done + 1 <= MaxMessages
  <2>1. Done < Len(logged)
    BY <1>1, Zenon DEF RingInv, Control, Lost
  <2>2. Len(logged) <= MaxMessages
    BY DEF TypeInv
  <2>3. QED
    BY <2>1, <2>2, Sizes, UartLogAssumption
<1>3. PICK l \in 2..6 : l = RecordLen(Done + 1) /\ Len(logged[Done + 1]) = l - 1
  BY <1>2, Sizes
<1>4. taken[1] = Word(Done + 1, 1) /\ taken[2] = Word(Done + 1, 2)
  <2>1. Len(taken) >= 2 /\ \A k \in 1..Len(taken) : taken[k] = Word(Done + 1, k)
    BY <1>1, Zenon DEF RingInv, Control, Lost
  <2>2. 1 \in 1..Len(taken) /\ 2 \in 1..Len(taken)
    BY <2>1, Sizes
  <2>3. QED
    BY <2>1, <2>2
<1>5. taken[1] \in 0..4
  BY <1>3, <1>4 DEF Word
<1>6. taken[2] \in Formats
  <2>1. logged[Done + 1][1] = Format(Done + 1)
    BY <1>2 DEF TypeInv
  <2>2. taken[2] = logged[Done + 1][1]
    BY <1>4 DEF Word
  <2>3. QED
    BY <1>2, <2>1, <2>2 DEF Formats
<1>7. QED
  BY <1>1, <1>5, <1>6, Zenon DEF Lost

LEMMA SendRing ==
  ASSUME TypeInv, RingInv, Send
  PROVE  RingInv'
<1>1. PICK start : Layout(start)
  BY DEF RingInv
<1>2. PICK d \in Nat : d = Done
  BY Sizes
<1>3. /\ d < Len(logged) /\ dma = {} /\ taking /\ d = Len(sent)
      /\ taken \in Seq(Nat) /\ Len(taken) >= 2 /\ taken[1] \in 0..4
      /\ Len(taken) = taken[1] + 2 /\ taken[2] \in Formats
  <2>1. dma = {} /\ d < Len(logged)
    BY <1>2 DEF RingInv, Control, Send
  <2>2. d = Len(sent)
    BY <1>2, <2>1, Sizes DEF Done
  <2>3. QED
    BY <2>1, <2>2 DEF TypeInv, Texts, Send, Complete, Understood
<1>4. d + 1 \in 1..Len(logged)
  BY <1>3, Sizes
<1>5. PICK l \in 2..6 : l = RecordLen(d + 1) /\ Len(logged[d + 1]) = l - 1
  BY <1>4, Sizes
<1>6. PICK message : message = logged[d + 1]
  OBVIOUS
<1>7. message \in Seq(Nat) /\ Len(message) = l - 1
  BY <1>4, <1>5, <1>6 DEF TypeInv, Texts
<1>8. \A k \in 1..Len(taken) : taken[k] = Word(d + 1, k)
  BY <1>2, <1>3 DEF RingInv, Control
<1>9. Len(taken) = l
  <2>1. taken[1] = l - 1 - 1
    BY <1>3, <1>5, <1>8 DEF Word
  <2>2. QED
    BY <1>3, <2>1
<1>10. taken[2] = message[1]
  BY <1>3, <1>6, <1>8 DEF Word
<1>11. Parameters(taken) = Tail(message)
  <2>1. /\ Parameters(taken) \in Seq(Nat) /\ Len(Parameters(taken)) = l - 2
        /\ \A i \in 1..(l - 2) : Parameters(taken)[i] = taken[i + 2]
    BY <1>3, <1>9, ParametersType
  <2>2. /\ Tail(message) \in Seq(Nat) /\ Len(Tail(message)) = l - 2
        /\ \A i \in 1..(l - 2) : Tail(message)[i] = message[i + 1]
    <3>1. message # <<>>
      BY <1>7
    <3>2. /\ Tail(message) \in Seq(Nat) /\ Len(Tail(message)) = Len(message) - 1
          /\ \A i \in 1..Len(Tail(message)) : Tail(message)[i] = message[i + 1]
      BY <1>7, <3>1, HeadTailProperties
    <3>3. Len(message) - 1 = l - 2
      BY <1>7
    <3>4. QED
      BY <3>2, <3>3
  <2>3. ASSUME NEW i \in 1..(l - 2)
        PROVE  Parameters(taken)[i] = Tail(message)[i]
    <3>1. i + 2 \in 1..l /\ i + 2 # 1 /\ i + 2 - 1 = i + 1
      OBVIOUS
    <3>2. taken[i + 2] = message[i + 1]
      BY <1>6, <1>8, <1>9, <3>1 DEF Word
    <3>3. QED
      BY <2>1, <2>2, <3>2
  <2>4. QED
    BY <2>1, <2>2, <2>3, SeqEqual
<1>12. /\ UNCHANGED <<log_buffer, log_buffer_read_p, log_buffer_write_p>>
       /\ UNCHANGED <<stuck, logged, sent>>
       /\ taken' = <<>> /\ taking' = FALSE
  BY DEF Send, logVars
<1>13. PICK address : dma' = {address} /\ Conveys(Text(address)', message)
  <2>1. Head(message) = message[1] /\ taken[2] \in Nat
    BY <1>3, <1>7, SMTT(30)
  <2>2. CASE taken[1] = 0
    <3>1. dma' = {taken[2]}
      BY <2>2 DEF Send
    <3>2. PICK address : address = taken[2]
      OBVIOUS
    <3>3. Text(address)' = <<address>>
      <4>1. address # PrintfBuffer
        BY <1>3, <3>2, UartLogAssumption DEF Formats, Format, PrintfBuffer
      <4>2. QED
        BY <4>1 DEF Text
    <3>4. Tail(<<taken[2]>>) = Tail(message) /\ Head(<<taken[2]>>) = message[1]
      <4>1. Len(taken) = 2
        BY <1>3, <2>2
      <4>2. Parameters(taken) = <<>>
        BY <1>3, <4>1, SubSeqEmpty, SMTT(30) DEF Parameters
      <4>3. QED
        BY <1>10, <1>11, <4>2
    <3>5. Tail(message) \in Orders(Tail(message))
      BY DEF Orders
    <3>6. QED
      BY <2>1, <3>1, <3>2, <3>3, <3>4, <3>5 DEF Conveys
  <2>3. CASE taken[1] # 0
    <3>1. dma' = {PrintfBuffer}
      BY <2>3 DEF Send
    <3>2. PICK parameters \in Orders(Parameters(taken)) :
            printf_buffer' = <<taken[2]>> \o parameters
      BY <2>3 DEF Send
    <3>3. parameters \in Seq(Nat)
      BY <1>3, <3>2, ParametersType, OrdersType
    <3>4. Text(PrintfBuffer)' = printf_buffer'
      BY DEF Text
    <3>5. Head(printf_buffer') = taken[2] /\ Tail(printf_buffer') = parameters
      BY <2>1, <3>2, <3>3, HeadTailOfCons
    <3>6. QED
      BY <1>10, <1>11, <2>1, <3>1, <3>2, <3>4, <3>5 DEF Conveys
  <2>4. QED
    BY <2>2, <2>3
<1>14. Done' = d + 1
  BY <1>3, <1>12, <1>13 DEF Done
<1>15. /\ \A m : RecordLen(m)' = RecordLen(m) /\ \A k : Word(m, k)' = Word(m, k)
       /\ Waiting' = Waiting
  BY <1>12 DEF RecordLen, Word, Waiting
<1>16. Layout(start)'
  <2>1. start[d + 2] = 0
    <3>1. start[d + 1 + 1] = start[d + 1] + RecordLen(d + 1)
      BY <1>1, <1>2, <1>4 DEF Layout
    <3>2. start[d + 1] = 0 - l
      BY <1>1, <1>2, <1>9 DEF Layout
    <3>3. d + 1 + 1 = d + 2
      OBVIOUS
    <3>4. QED
      BY <1>5, <3>1, <3>2, <3>3
  <2>2. PICK L \in Nat : L = Len(logged)
    BY Sizes
  <2>3. \A m \in (d + 1 + 1)..L : m \in (d + 1)..L
    OBVIOUS
  <2>4. \A m \in (d + 1 + 1)..(L + 1) : m \in (d + 1)..(L + 1)
    OBVIOUS
  <2>5. start[d + 1 + 1] = 0 - Len(taken')
    <3>1. d + 1 + 1 = d + 2 /\ Len(taken') = 0
      BY <1>12
    <3>2. QED
      BY <2>1, <3>1
  <2>6. QED
    BY <1>1, <1>2, <1>12, <1>14, <1>15, <2>2, <2>3, <2>4, <2>5, Zenon DEF Layout
<1>17. Control'
  <2>1. Len(logged) \in Nat
    BY Sizes
  <2>2. QED
    BY <1>3, <1>12, <1>14, <2>1 DEF RingInv, Control
<1>18. Delivered'
  <2>1. \A a \in dma' : Conveys(Text(a)', logged[Len(sent) + 1])
    BY <1>3, <1>6, <1>13
  <2>2. QED
    BY <1>12, <2>1 DEF RingInv, Delivered, Conveys
<1>19. QED
  BY <1>16, <1>17, <1>18 DEF RingInv

LEMMA DmaEndRing ==
  ASSUME TypeInv, RingInv, DmaEnd
  PROVE  RingInv'
<1>1. PICK address \in dma : sent' = Append(sent, Text(address))
  BY DEF DmaEnd, Text
<1>2. /\ UNCHANGED <<log_buffer, log_buffer_read_p, log_buffer_write_p>>
      /\ UNCHANGED <<printf_buffer, taking, taken, stuck, logged>>
      /\ dma' = {}
  BY DEF DmaEnd, logVars
<1>3. PICK s \in Nat : s = Len(sent)
  BY Sizes
<1>4. Text(address) \in Texts
  <2>1. address \in Nat
    BY UartLogAssumption DEF TypeInv, Formats, Format, PrintfBuffer
  <2>2. QED
    BY <2>1 DEF TypeInv, Text, Texts
<1>5. /\ Len(sent') = s + 1
      /\ \A i \in 1..s : sent'[i] = sent[i]
      /\ sent'[s + 1] = Text(address)
  BY <1>1, <1>3, <1>4 DEF TypeInv
<1>6. Done' = Done
  BY <1>1, <1>2, <1>3, <1>5 DEF Done
<1>7. /\ \A m : RecordLen(m)' = RecordLen(m) /\ \A k : Word(m, k)' = Word(m, k)
      /\ Waiting' = Waiting
  BY <1>2 DEF RecordLen, Word, Waiting
<1>8. \E start : Layout(start)'
  BY <1>2, <1>6, <1>7, SMTT(30) DEF RingInv, Layout
<1>9. Control'
  <2>1. ~taking
    BY <1>1 DEF RingInv, Control
  <2>2. QED
    BY <1>2, <1>6, <2>1, Zenon DEF RingInv, Control
<1>10. Delivered'
  <2>1. Conveys(Text(address), logged[s + 1])
    BY <1>1, <1>3 DEF RingInv, Delivered
  <2>2. \A i \in 1..s : Conveys(sent[i], logged[i])
    BY <1>3 DEF RingInv, Delivered
  <2>3. \A i \in 1..(s + 1) : Conveys(sent'[i], logged[i])
    BY <1>5, <2>1, <2>2
  <2>4. QED
    BY <1>2, <1>5, <2>3 DEF Delivered, Conveys
<1>11. QED
  BY <1>8, <1>9, <1>10 DEF RingInv

-----------------------------------------------------------------------------
(* The theorems.                                                           *)

LEMMA NextInv ==
  ASSUME IInv, [Next]_vars
  PROVE  IInv'
<1>1. TypeInv /\ TypeInv'
  BY NextType DEF IInv
<1>2. ASSUME ~overrun'  PROVE RingInv'
  <2>1. ASSUME overrun' = overrun  PROVE RingInv
    BY <1>2, <2>1 DEF IInv
  <2>2. ASSUME NEW n \in Counts, NEW parameters \in [1..n -> Values],
               uart_log_printf(parameters)
        PROVE  RingInv'
    <3>1. ~overrun
      BY <1>2, <2>2 DEF uart_log_printf
    <3>2. QED
      BY <1>1, <1>2, <2>2, <3>1, PrintfRing DEF IInv
  <2>3. CASE Take
    BY <1>1, <2>1, <2>3, TakeRing DEF Take
  <2>4. CASE log_buffer_read
    BY <1>1, <2>1, <2>4, ReadRing DEF log_buffer_read
  <2>5. CASE Lost
    BY <1>1, <2>1, <2>5, NeverLost DEF Lost
  <2>6. CASE Send
    BY <1>1, <2>1, <2>6, SendRing DEF Send
  <2>7. CASE DmaEnd
    BY <1>1, <2>1, <2>7, DmaEndRing DEF DmaEnd
  <2>8. CASE UNCHANGED vars
    <3>1. RingInv
      BY <2>1, <2>8 DEF vars
    <3>2. QED
      <4>1. /\ UNCHANGED <<log_buffer, log_buffer_read_p, log_buffer_write_p>>
            /\ UNCHANGED <<printf_buffer, taking, taken, stuck, dma, logged, sent>>
        BY <2>8 DEF vars, logVars
      <4>2. /\ \A m : RecordLen(m)' = RecordLen(m) /\ \A k : Word(m, k)' = Word(m, k)
            /\ Waiting' = Waiting /\ Done' = Done
        BY <4>1 DEF RecordLen, Word, Waiting, Done
      <4>3. Control'
        BY <3>1, <4>1, <4>2, Zenon DEF RingInv, Control
      <4>4. \E start : Layout(start)'
        BY <3>1, <4>1, <4>2, SMTT(30) DEF RingInv, Layout
      <4>5. Delivered'
        BY <3>1, <4>1, Zenon DEF RingInv, Delivered, Text, Conveys
      <4>6. QED
        BY <4>3, <4>4, <4>5 DEF RingInv
  <2>9. QED
    BY <2>2, <2>3, <2>4, <2>5, <2>6, <2>7, <2>8
       DEF Next, uart_log_process, ReturnZero, EndlessLoop
<1>3. QED
  BY <1>1, <1>2 DEF IInv

\* What is in the ring is known of every reachable state, whatever is logged
\* between two steps of uart_log_process (uart_log.c:23-84).
THEOREM RingHolds == Spec => []IInv
<1>1. Init => IInv
  BY InitType, InitRing DEF IInv
<1>2. IInv /\ [Next]_vars => IInv'
  BY NextInv
<1>3. QED
  BY <1>1, <1>2, PTL DEF Spec

LEMMA InvImpliesType == ASSUME IInv PROVE TypeOK
<1>1. TypeInv
  BY DEF IInv
<1>2. \A i \in 1..Len(taken) : taken[i] \in Nat
  BY <1>1, ElementOfSeq DEF TypeInv, Texts
<1>3. QED
  BY <1>1, <1>2 DEF TypeOK, TypeInv

\* The pointers stay inside the ring and the DMA controller is given no address
\* but that of a format or of the buffer (uart_log.c:23-84), also when records
\* did not fit.
THEOREM TypeCorrect == Spec => []TypeOK
<1>1. IInv => TypeOK
  BY InvImpliesType
<1>2. QED
  BY <1>1, RingHolds, PTL

LEMMA InvImpliesSent == ASSUME IInv PROVE SentAsLogged
<1>1. SUFFICES ASSUME ~overrun
      PROVE  /\ ~stuck
             /\ Len(sent) <= Len(logged)
             /\ \A i \in 1..Len(sent) :
                  /\ Head(sent[i]) = Head(logged[i])
                  /\ Tail(sent[i]) \in Orders(Tail(logged[i]))
  BY DEF SentAsLogged
<1>2. TypeInv /\ Control /\ Delivered
  BY <1>1 DEF IInv, RingInv
<1>3. Len(sent) <= Done
  BY <1>2, Sizes DEF Done
<1>4. Len(sent) <= Len(logged)
  BY <1>2, <1>3, Sizes DEF Control
<1>5. QED
  BY <1>2, <1>4 DEF Control, Delivered, Conveys

\* Messages come out as they were logged, as long as every record fitted into
\* the ring (uart_log.c:23-84).
THEOREM AlwaysSentAsLogged == Spec => []SentAsLogged
<1>1. IInv => SentAsLogged
  BY InvImpliesSent
<1>2. QED
  BY <1>1, RingHolds, PTL

=============================================================================
