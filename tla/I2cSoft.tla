------------------------------ MODULE I2cSoft ------------------------------
(***************************************************************************)
(* The I2C master of i2c_soft.c, which moves two wires by hand.  A wire is *)
(* high unless somebody pulls it low.  A target may refuse a byte, and it  *)
(* may hold SCL low before the bit of acknowledgement, for as long as it   *)
(* likes; the master waits for it so many times and then gives up.         *)
(*                                                                         *)
(* A call is a sequence of starts, bytes and stops, and each of these a    *)
(* sequence of accesses to the wires.  An access is a step.  A bit, and    *)
(* the level of a wire, is TRUE for high; a byte is a sequence of bits.    *)
(***************************************************************************)
EXTENDS Integers, Sequences, SequencesExt

CONSTANTS
  BITS,       \* the bits of a byte, 8
  Own,        \* the address of the target on the bus, without its last bit
  Addresses,  \* the addresses that calls are made with
  Bytes,      \* bound: the bytes that are sent, either way
  MaxLength,  \* bound: how many of them
  Timeout

ASSUME I2cSoftAssumption ==
  /\ BITS \in Nat /\ BITS > 1
  /\ {Own} \cup Addresses \subseteq [1..(BITS - 1) -> BOOLEAN]
  /\ Bytes \subseteq [1..BITS -> BOOLEAN]
  /\ MaxLength \in Nat /\ Timeout \in Nat \ {0}

VARIABLES
  sda, scl,  \* what the master does to the wires
  target,    \* what the target does to them, and where it is
  todo,      \* what the call in progress has still to do, from where it is
  accesses,  \* the accesses to the wires that Head(todo) has still to do
  bits,      \* what it has read
  timeout,   \* of Head(todo)
  in_data, rc,
  asked,     \* history: the call in progress, or the last one
  held,      \* history: the target pulled at a wire when it was made
  late       \* history: a wait for SCL ended it

locals == <<todo, accesses, bits, timeout, in_data, rc>>
history == <<asked, held, late>>
vars == <<sda, scl, target, locals, history>>

SDA_IN == sda /\ target.sda
SCL_IN == scl /\ target.scl

-----------------------------------------------------------------------------
(* The target: what it does when it sees a wire change.  It changes SDA    *)
(* and pulls SCL only after SCL has fallen.                                *)

Quiet(t) == [t EXCEPT !.phase = "quiet", !.slot = "bits", !.byte = <<>>, !.sda = TRUE]

StartSeen(t) == [Quiet(t) EXCEPT !.phase = "address"]

Taking(t) == t.phase \in {"address", "write"} /\ t.slot = "bits"

ClockUp(t, level) ==
  IF Taking(t) THEN [t EXCEPT !.byte = Append(@, level)]
  ELSE IF t.phase = "read" /\ t.slot = "ack" /\ level THEN Quiet(t)
  ELSE t

\* A byte that is for the target is acknowledged or refused, sooner or later.
Answers(t) ==
  LET acknowledged == [t EXCEPT !.slot = "ack", !.sda = FALSE,
                                !.heard = IF t.phase = "write" THEN Append(@, t.byte) ELSE @]
  IN IF t.phase = "address" /\ Front(t.byte) # Own THEN {Quiet(t)}
     ELSE {[a EXCEPT !.scl = now] : a \in {acknowledged, Quiet(t)}, now \in BOOLEAN}

Sends(t) ==
  {[t EXCEPT !.phase = "read", !.slot = "bits", !.byte = Tail(b), !.sda = Head(b),
             !.given = Append(@, b)] : b \in Bytes}

ClockDown(t) ==
  CASE Taking(t) -> IF Len(t.byte) = BITS THEN Answers(t) ELSE {t}
    [] t.phase = "read" /\ t.slot = "bits" ->
         IF t.byte # <<>> THEN {[t EXCEPT !.byte = Tail(@), !.sda = Head(t.byte)]}
         ELSE {[t EXCEPT !.slot = "ack", !.sda = TRUE, !.scl = now] : now \in BOOLEAN}
    [] t.phase = "read" /\ t.slot = "ack" -> Sends(t)
    [] t.phase = "address" /\ t.slot = "ack" /\ Last(t.byte) -> Sends(t)
    [] t.phase \in {"address", "write"} /\ t.slot = "ack" ->
         {[Quiet(t) EXCEPT !.phase = "write"]}
    [] OTHER -> {t}

\* The wires were at levels data and clock and are now as t and the master
\* (d, c) make them.
Reactions(t, data, clock, d, c) ==
  LET data2 == d /\ t.sda
      clock2 == c /\ t.scl
  IN CASE clock /\ clock2 /\ data /\ ~data2 -> {StartSeen(t)}
       [] clock /\ clock2 /\ ~data /\ data2 -> {Quiet(t)}
       [] ~clock /\ clock2 -> {ClockUp(t, data2)}
       [] clock /\ ~clock2 -> ClockDown(t)
       [] OTHER -> {t}

TargetReleases ==
  /\ ~target.scl
  /\ target' \in Reactions([target EXCEPT !.scl = TRUE], SDA_IN, SCL_IN, sda, scl)
  /\ UNCHANGED <<sda, scl, locals, history>>

-----------------------------------------------------------------------------
(* The parts of a call.                                                    *)

Part(do, byte, code) == [do |-> do, byte |-> byte, code |-> code]
Start == Part("start", <<>>, 0)
Stop == Part("stop", <<>>, 0)
Tx(byte, code) == Part("tx", byte, code)  \* code: what the call returns if it fails
Rx(ack) == Part("rx", <<ack>>, 1)

Level(bit) == IF bit THEN "SDA_HIGH" ELSE "SDA_LOW"

\* Mutant: SDA is left at the last bit, for the target to pull.
TxWithoutRelease(byte) ==
  FlattenSeq([i \in 1..BITS |-> <<Level(byte[i]), "SCL_HIGH", "SCL_LOW">>])
    \o <<"SCL_HIGH", "wait", "SDA_IN", "SCL_LOW">>

\* i2c_soft_tx
TxAccesses(byte) ==
  FlattenSeq([i \in 1..BITS |-> <<Level(byte[i]), "SCL_HIGH", "SCL_LOW">>])
    \o <<"SDA_HIGH", "SCL_HIGH", "wait", "SDA_IN", "SCL_LOW">>

\* i2c_soft_rx
RxAccesses(ack) ==
  <<"SDA_HIGH">> \o FlattenSeq([i \in 1..BITS |-> <<"SCL_HIGH", "SDA_IN", "SCL_LOW">>])
    \o <<Level(~ack), "SCL_HIGH", "wait", "SCL_LOW", "SDA_HIGH">>

Accesses(part) ==
  CASE part.do = "start" -> <<"SDA_HIGH", "SCL_HIGH", "SDA_LOW", "SCL_LOW">>
    [] part.do = "stop" -> <<"SDA_LOW", "SCL_HIGH", "SDA_HIGH">>
    [] part.do = "tx" -> TxAccesses(part.byte)
    [] part.do = "rx" -> RxAccesses(Head(part.byte))

-----------------------------------------------------------------------------
(* Calls.                                                                  *)

Data == UNION {[1..n -> Bytes] : n \in 0..MaxLength}
Lengths == 0..MaxLength

Address(a, read) == Append(a, read)
Txs(data, code) == [i \in 1..Len(data) |-> Tx(data[i], code)]

\* Mutant: the last byte is acknowledged as well.
RxsAcknowledged(length) == [i \in 1..length |-> Rx(TRUE)]

\* All bytes but the last are acknowledged.
Rxs(length) == [i \in 1..length |-> Rx(i < length)]

Begin(parts, what) ==
  /\ todo = <<>>
  /\ todo' = parts
  /\ accesses' = Accesses(Head(parts))
  /\ bits' = <<>> /\ timeout' = Timeout
  /\ in_data' = <<>> /\ rc' = 0
  /\ target' = [target EXCEPT !.heard = <<>>, !.given = <<>>]
  /\ asked' = what
  /\ held' = ~(target.sda /\ target.scl)
  /\ late' = FALSE
  /\ UNCHANGED <<sda, scl>>

i2c_soft_command(a, commands, out_data, in_data_length) ==
  Begin(<<Start, Tx(Address(a, FALSE), 1)>> \o Txs(commands, 2) \o Txs(out_data, 3)
          \o (IF in_data_length = 0 THEN <<>>
              ELSE <<Start, Tx(Address(a, TRUE), 4)>> \o Rxs(in_data_length))
          \o <<Stop>>,
        [commands |-> commands, out |-> out_data, in |-> in_data_length,
         ignore_nack |-> FALSE])

i2c_soft_read(a, in_data_length) ==
  Begin(<<Start, Tx(Address(a, TRUE), 1)>> \o Rxs(in_data_length) \o <<Stop>>,
        [commands |-> <<>>, out |-> <<>>, in |-> in_data_length, ignore_nack |-> FALSE])

\* With ignore_nack the bytes are not sent at all.
i2c_soft_write(a, out_data, ignore_nack) ==
  LET sent == IF ignore_nack THEN <<>> ELSE out_data
  IN Begin(<<Start, Tx(Address(a, FALSE), 1)>> \o Txs(sent, 2) \o <<Stop>>,
           [commands |-> out_data, out |-> <<>>, in |-> 0, ignore_nack |-> ignore_nack])

-----------------------------------------------------------------------------
(* The accesses of a part, one by one.                                     *)

Now(access) == accesses # <<>> /\ Head(accesses) = access

Drive(d, c) ==
  /\ sda' = d /\ scl' = c
  /\ target' \in Reactions(target, SDA_IN, SCL_IN, d, c)
  /\ accesses' = Tail(accesses)
  /\ UNCHANGED <<todo, bits, timeout, in_data, rc, history>>

MoveWires ==
  \/ Now("SDA_HIGH") /\ Drive(TRUE, scl)
  \/ Now("SDA_LOW") /\ Drive(FALSE, scl)
  \/ Now("SCL_HIGH") /\ Drive(sda, TRUE)
  \/ Now("SCL_LOW") /\ Drive(sda, FALSE)

ReadSDA ==
  /\ Now("SDA_IN")
  /\ bits' = Append(bits, SDA_IN)
  /\ accesses' = Tail(accesses)
  /\ UNCHANGED <<sda, scl, target, todo, timeout, in_data, rc, history>>

\* A byte is given up: i2c_soft_rx leaves the bus as it is, after i2c_soft_tx
\* the caller stops.
Fail ==
  /\ rc' = Head(todo).code
  /\ todo' = IF Head(todo).do = "tx" THEN <<Stop>> ELSE <<>>
  /\ accesses' = IF Head(todo).do = "tx" THEN Accesses(Stop) ELSE <<>>
  /\ bits' = <<>>
  /\ UNCHANGED <<timeout, in_data>>

WaitForSCL ==
  /\ Now("wait")
  /\ \/ /\ timeout > 0 /\ SCL_IN
        /\ accesses' = Tail(accesses)
        /\ UNCHANGED <<todo, bits, timeout, in_data, rc, late>>
     \/ /\ timeout > 0 /\ ~SCL_IN
        /\ timeout' = timeout - 1
        /\ UNCHANGED <<todo, accesses, bits, in_data, rc, late>>
     \/ /\ timeout = 0
        /\ Fail
        /\ late' = TRUE
  /\ UNCHANGED <<sda, scl, target, asked, held>>

\* The part is done: it returns, and the next one begins.
Return ==
  /\ todo # <<>> /\ accesses = <<>>
  /\ IF Head(todo).do = "tx" /\ bits = <<TRUE>>
     THEN Fail
     ELSE /\ todo' = Tail(todo)
          /\ accesses' = IF Tail(todo) = <<>> THEN <<>> ELSE Accesses(todo[2])
          /\ bits' = <<>> /\ timeout' = Timeout
          /\ in_data' = IF Head(todo).do = "rx" THEN Append(in_data, bits) ELSE in_data
          /\ UNCHANGED rc
  /\ UNCHANGED <<sda, scl, target, history>>

\* i2c_soft_init
Init ==
  /\ sda = TRUE /\ scl = TRUE
  /\ target = [phase |-> "quiet", slot |-> "bits", byte |-> <<>>, sda |-> TRUE, scl |-> TRUE,
               heard |-> <<>>, given |-> <<>>]
  /\ todo = <<>> /\ accesses = <<>> /\ bits = <<>> /\ timeout = Timeout
  /\ in_data = <<>> /\ rc = 0
  /\ asked = [commands |-> <<>>, out |-> <<>>, in |-> 0, ignore_nack |-> FALSE]
  /\ held = FALSE /\ late = FALSE

Next ==
  \/ \E a \in Addresses, commands \in Data, out \in Data, in \in Lengths :
       i2c_soft_command(a, commands, out, in)
  \/ \E a \in Addresses, in \in Lengths : i2c_soft_read(a, in)
  \/ \E a \in Addresses, out \in Data, ignore_nack \in BOOLEAN :
       i2c_soft_write(a, out, ignore_nack)
  \/ MoveWires \/ ReadSDA \/ WaitForSCL \/ Return
  \/ TargetReleases

Spec == Init /\ [][Next]_vars

-----------------------------------------------------------------------------
Returned == todo = <<>>

\* A call that is made while the target lets both wires go tells by what it
\* returns how far it came: 0 means that the target acknowledged every byte
\* that the caller passed and nothing else, and sent the bytes that were read;
\* another code, which bytes it had acknowledged when it refused one.  This is
\* so whatever failed before, for a call that ended without a stop left wires
\* that the next start makes sense of (i2c_soft.c:30-192).  A byte whose wait
\* was given up may have been acknowledged.  The exception is i2c_soft_write
\* with ignore_nack: the target gets none of the caller's bytes, and 0 says
\* that it acknowledged its address (line 210).
ReturnTellsHowFar ==
  (Returned /\ ~held) =>
    LET all == IF asked.ignore_nack THEN <<>> ELSE asked.commands \o asked.out
        heard == target.heard
        n == Len(heard)
        more == IF late THEN 1 ELSE 0
    IN /\ IsPrefix(heard, all)
       /\ rc = 0 => heard = all /\ IsPrefix(in_data, target.given) /\ Len(in_data) = asked.in
       /\ rc = 1 => n <= more \/ (late /\ heard = all)
       /\ rc = 2 => n < Len(asked.commands) + more
       /\ rc = 3 => n \in Len(asked.commands)..(Len(all) - 1 + more)
       /\ rc = 4 => heard = all

\* A call made while the target lets both wires go leaves the bus free, with
\* the target waiting for a start, also when the target refused a byte at any
\* place - unless a wait was given up, or nothing was to be read from a target
\* that has begun to send (i2c_soft.c:22-29, 104-126, 163-190).
BusLeftFree ==
  (Returned /\ ~held /\ ~late) =>
    \/ sda /\ scl /\ target.sda /\ target.scl /\ target.phase = "quiet"
    \/ asked.in = 0 /\ target.phase = "read"
=============================================================================
