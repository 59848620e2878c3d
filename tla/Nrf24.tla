------------------------------- MODULE Nrf24 -------------------------------
(***************************************************************************)
(* The driver of the nRF24L01 radio (rf/nrf24.c): initialisation, power,   *)
(* receive mode and nrf24_transmit, one SPI transfer per step.  The driver *)
(* never reads the CONFIG register: it keeps a copy, nrf24_configByte, and *)
(* writes the whole byte.  A transfer may fail, and a failed one may or    *)
(* may not have reached the chip; MaxFaults of them fail.                  *)
(*                                                                         *)
(* The chip is external.  With CE high, in transmit mode, it sends the     *)
(* head of its FIFO and raises TX_DS, or - if the user turned automatic    *)
(* retransmission on - gives up and raises MAX_RT.  Without retransmission *)
(* a packet that is being sent is out before nrf24_transmit gives up.      *)
(* Left out: receiving, and the registers that say how to send.            *)
(***************************************************************************)
EXTENDS Integers, Sequences

CONSTANTS
  Polls,        \* status polls of nrf24_transmit before its timeout
  FifoDepth,    \* payloads that fit into the chip's FIFO
  MaxTransmits, \* bound on the calls of nrf24_transmit
  MaxInits,     \* bound on the calls of nrf24_Init
  MaxFaults     \* bound on the SPI transfers that fail

ASSUME Nrf24Assumption ==
  /\ Polls \in Nat \ {0} /\ FifoDepth \in Nat \ {0}
  /\ MaxTransmits \in Nat /\ MaxInits \in Nat /\ MaxFaults \in Nat

VARIABLES
  nrf24_configByte,  \* the copy of CONFIG: CRC length, PWR_UP, PRIM_RX
  chip,              \* CONFIG, FIFO, packet in the air, flags, retransmission
  ce,                \* the CE pin
  pc,                \* the next transfer of the call in progress
  rc,                \* what nrf24_transmit is going to return
  counter,           \* its polls that are left
  payload,           \* the payload of the last nrf24_transmit, numbered
  out,               \* what the last call returned, if it was nrf24_transmit
  last_sent,         \* history: the payload sent last
  late,              \* history: a payload was sent after its call, or twice
  trouble,           \* history: what kept the last nrf24_transmit from cleaning up
  doubt,             \* history: since the last nrf24_Init that worked a transfer
                     \* failed, or a retransmission went on after the timeout
  inits, faults      \* for the bounds

driver == <<nrf24_configByte, ce, pc, rc, counter, payload, out>>
history == <<last_sent, late, trouble, doubt, inits, faults>>
radio_vars == <<driver, chip, history>>

Configs == [crc2 : BOOLEAN, up : BOOLEAN, rx : BOOLEAN]
ResetConfig == [crc2 |-> FALSE, up |-> FALSE, rx |-> FALSE]
None == 0

-----------------------------------------------------------------------------
(* An SPI transfer with an effect on the chip; done says that it worked.   *)

Transfer(effect, done) ==
  /\ \/ chip' = effect
     \/ ~ done /\ chip' = chip
  /\ ~ done => faults < MaxFaults
  /\ faults' = IF done THEN faults ELSE faults + 1

\* A chip that is powered down, or leaves transmit mode, drops its packet.
WithConfig(config) ==
  [chip EXCEPT !.config = config,
               !.flight = IF config.up /\ ~ config.rx THEN @ ELSE None]
WithoutFlags == [chip EXCEPT !.tx_ds = FALSE, !.max_rt = FALSE]
Flushed == [chip EXCEPT !.fifo = <<>>]

\* A write of CONFIG, after which the copy is one of two values.
WriteConfig(config, copyIfFailed, done) ==
  /\ Transfer(WithConfig(config), done)
  /\ nrf24_configByte' = IF done THEN config ELSE copyIfFailed

Doubt(done) == doubt' = (doubt \/ ~ done)

(* What may be left in the chip behind a call: it held a payload or a flag *)
(* before the call; a packet was in the air when the loop ended; one of    *)
(* the transfers of the clean-up, whose results nobody looks at, failed.   *)
Troubles == {"before", "in_air", "cleanup"}

NoFlags == ~ chip.tx_ds /\ ~ chip.max_rt
Clean == chip.fifo = <<>> /\ chip.flight = None /\ NoFlags

CleanUp(done) ==
  /\ Doubt(done)
  /\ trouble' = IF done THEN trouble ELSE trouble \cup {"cleanup"}

Return(result) == pc' = "idle" /\ out' = result

-----------------------------------------------------------------------------

RadioInit ==
  /\ nrf24_configByte = ResetConfig
  /\ chip = [config |-> ResetConfig, fifo |-> <<>>, flight |-> None,
             tx_ds |-> FALSE, max_rt |-> FALSE, retransmit |-> FALSE]
  /\ ce = FALSE
  /\ pc = "idle" /\ rc = "none" /\ counter = 0 /\ payload = 0 /\ out = "none"
  /\ last_sent = None /\ late = FALSE /\ trouble = {} /\ doubt = TRUE
  /\ inits = 0 /\ faults = 0

(* nrf24_Init: CONFIG, whose copy is set before the write; then the other  *)
(* registers and the flags; then the FIFOs.  It ends where a transfer      *)
(* fails or the configuration is out of range.  It leaves CE alone.        *)

InitConfigRegister(twoCRCBytes, done) ==
  /\ pc = "idle" /\ inits < MaxInits
  /\ inits' = inits + 1
  /\ WriteConfig([ResetConfig EXCEPT !.crc2 = twoCRCBytes], ResetConfig, done)
  /\ pc' = IF done THEN "registers" ELSE "idle"
  /\ doubt' = TRUE
  /\ out' = "none"
  /\ UNCHANGED <<ce, rc, counter, payload, last_sent, late, trouble>>

InitRegisters(done) ==
  /\ pc = "registers"
  /\ Transfer([WithoutFlags EXCEPT !.retransmit = FALSE], done)
  /\ pc' = IF done THEN "flush_init" ELSE "idle"
  /\ UNCHANGED <<nrf24_configByte, ce, rc, counter, payload, out, last_sent, late,
                 trouble, doubt, inits>>

\* A channel above 125, an address width or a packet size out of range.
InitInvalid ==
  /\ pc = "registers"
  /\ pc' = "idle"
  /\ UNCHANGED <<nrf24_configByte, ce, rc, counter, payload, out, chip, history>>

InitFlush(done) ==
  /\ pc = "flush_init"
  /\ Transfer(Flushed, done)
  /\ pc' = "idle"
  /\ doubt' = ~ done
  /\ late' = (late /\ ~ done)
  /\ UNCHANGED <<nrf24_configByte, ce, rc, counter, payload, out, last_sent, trouble, inits>>

-----------------------------------------------------------------------------
(* nrf24_powerControl, nrf24_RX, nrf24_setAA and nrf24_setRetransmit.      *)

PowerControl(up, done) ==
  /\ pc = "idle"
  /\ WriteConfig([nrf24_configByte EXCEPT !.up = up], nrf24_configByte, done)
  /\ ce' = (ce /\ (up \/ ~ done))
  /\ Doubt(done) /\ out' = "none"
  /\ UNCHANGED <<pc, rc, counter, payload, last_sent, late, trouble, inits>>

\* CE is set only if the write worked.
ReceiveMode(done) ==
  /\ WriteConfig([nrf24_configByte EXCEPT !.rx = TRUE], nrf24_configByte, done)
  /\ ce' = (ce \/ done)

RX(done) ==
  /\ pc = "idle"
  /\ ReceiveMode(done)
  /\ Doubt(done) /\ out' = "none"
  /\ UNCHANGED <<pc, rc, counter, payload, last_sent, late, trouble, inits>>

SetRetransmit(on, done) ==
  /\ pc = "idle" /\ chip.retransmit # on
  /\ Transfer([chip EXCEPT !.retransmit = on], done)
  /\ Doubt(done) /\ out' = "none"
  /\ UNCHANGED <<nrf24_configByte, ce, pc, rc, counter, payload, last_sent, late, trouble, inits>>

-----------------------------------------------------------------------------
(* nrf24_transmit.                                                         *)

TransmitTX(done) ==
  /\ pc = "idle" /\ payload < MaxTransmits
  /\ payload' = payload + 1
  /\ ce' = FALSE
  /\ WriteConfig([nrf24_configByte EXCEPT !.rx = FALSE], nrf24_configByte, done)
  /\ IF done THEN pc' = "fifo" /\ out' = "none" ELSE Return("failed")
  /\ Doubt(done)
  /\ trouble' = IF Clean THEN {} ELSE {"before"}
  /\ UNCHANGED <<rc, counter, last_sent, late, inits>>

\* A payload of more than 32 bytes: the chip stays in transmit mode, CE low.
TooLong ==
  /\ pc = "fifo"
  /\ Return("failed")
  /\ UNCHANGED <<nrf24_configByte, ce, rc, counter, payload, chip, history>>

WriteTXFifo(done) ==
  /\ pc = "fifo"
  /\ Transfer([chip EXCEPT !.fifo = IF Len(@) < FifoDepth THEN Append(@, payload) ELSE @], done)
  /\ IF done THEN /\ ce' = TRUE /\ counter' = Polls
                  /\ pc' = "poll" /\ UNCHANGED out
     ELSE Return("failed") /\ UNCHANGED <<ce, counter>>
  /\ Doubt(done)
  /\ UNCHANGED <<nrf24_configByte, rc, payload, last_sent, late, trouble, inits>>

\* transmitCleanup begins where the loop ends: CE is cleared.
EndOfLoop(result) ==
  /\ rc' = result /\ pc' = "clear_flags" /\ ce' = FALSE
  /\ trouble' = IF chip.flight = None THEN trouble ELSE trouble \cup {"in_air"}

\* Mutant: MAX_RT is taken for TX_DS.
StatusEither == IF chip.tx_ds \/ chip.max_rt THEN "sent" ELSE "none"

Status == IF chip.max_rt THEN "max_rt" ELSE IF chip.tx_ds THEN "sent" ELSE "none"

CanSend == chip.config.up /\ ~ chip.config.rx /\ chip.fifo # <<>>

\* The polls run out only if the chip cannot send or is retransmitting.
Counted ==
  IF counter = 1 /\ CanSend /\ ~ chip.retransmit THEN counter ELSE counter - 1

PollStatus(done) ==
  /\ pc = "poll" /\ counter > 0
  /\ Transfer(chip, done)
  /\ counter' = Counted
  /\ IF ~ done THEN EndOfLoop("no_status")
     ELSE IF Status # "none" THEN EndOfLoop(Status)
     ELSE UNCHANGED <<rc, pc, ce, trouble>>
  /\ Doubt(done)
  /\ UNCHANGED <<nrf24_configByte, payload, out, last_sent, late, inits>>

Timeout ==
  /\ pc = "poll" /\ counter = 0
  /\ EndOfLoop("timeout")
  /\ doubt' = (doubt \/ CanSend)
  /\ UNCHANGED <<nrf24_configByte, counter, payload, out, chip, last_sent, late,
                 inits, faults>>

ClearIRQFlags(done) ==
  /\ pc = "clear_flags"
  /\ Transfer(WithoutFlags, done)
  /\ pc' = "receive"
  /\ CleanUp(done)
  /\ UNCHANGED <<nrf24_configByte, ce, rc, counter, payload, out, last_sent, late, inits>>

\* Mutant: after a timeout, too, the FIFO is left alone.
FlushedOnFailure == {"no_status", "max_rt"}

\* Only a payload that was sent leaves nothing to flush.  The caller gets 0,
\* -1 or -2.
NeedsFlush == {"no_status", "max_rt", "timeout"}

CleanupRX(done) ==
  /\ pc = "receive"
  /\ ReceiveMode(done)
  /\ CleanUp(done)
  /\ IF rc \in NeedsFlush THEN pc' = "flush" /\ UNCHANGED out ELSE Return(rc)
  /\ UNCHANGED <<rc, counter, payload, last_sent, late, inits>>

FlushTX(done) ==
  /\ pc = "flush"
  /\ Transfer(Flushed, done)
  /\ Return(rc)
  /\ CleanUp(done)
  /\ UNCHANGED <<nrf24_configByte, ce, rc, counter, payload, last_sent, late, inits>>

-----------------------------------------------------------------------------
(* The chip.                                                               *)

StartSending ==
  /\ CanSend /\ ce /\ chip.flight = None /\ ~ chip.max_rt
  /\ chip' = [chip EXCEPT !.flight = Head(chip.fifo)]
  /\ UNCHANGED <<driver, history>>

FinishSending ==
  /\ chip.flight # None
  /\ chip' = [chip EXCEPT !.flight = None, !.tx_ds = TRUE,
                !.fifo = IF @ # <<>> /\ Head(@) = chip.flight THEN Tail(@) ELSE @]
  /\ last_sent' = chip.flight
  /\ late' = (late \/ pc = "idle" \/ chip.flight # payload \/ chip.flight = last_sent)
  /\ UNCHANGED <<driver, trouble, doubt, inits, faults>>

GiveUp ==
  /\ chip.flight # None /\ chip.retransmit
  /\ chip' = [chip EXCEPT !.flight = None, !.max_rt = TRUE]
  /\ UNCHANGED <<driver, history>>

-----------------------------------------------------------------------------

RadioNext ==
  \/ StartSending \/ FinishSending \/ GiveUp
  \/ InitInvalid \/ TooLong \/ Timeout
  \/ \E done \in BOOLEAN :
       \/ \E flag \in BOOLEAN :
            \/ InitConfigRegister(flag, done)
            \/ PowerControl(flag, done)
            \/ SetRetransmit(flag, done)
       \/ InitRegisters(done) \/ InitFlush(done)
       \/ RX(done)
       \/ TransmitTX(done) \/ WriteTXFifo(done) \/ PollStatus(done)
       \/ ClearIRQFlags(done) \/ CleanupRX(done) \/ FlushTX(done)

RadioSpec == RadioInit /\ [][RadioNext]_radio_vars

-----------------------------------------------------------------------------
(* nrf24_transmit, against a chip that sends at its own pace, may be        *)
(* powered down, and may be given payloads after timeouts and after MAX_RT: *)
(* it returns 1 only if its own payload went out, whatever transfers fail,  *)
(* unless the chip held a payload or a flag of an earlier call when it      *)
(* began; it never does as long as no transfer has failed since nrf24_Init  *)
(* and no retransmission outlived the timeout.  As long as that is so, no   *)
(* payload goes out after its call, with a later one, or twice.             *)
SentInItsCall ==
  /\ (out = "sent" /\ (~ doubt \/ "before" \notin trouble)) => last_sent = payload
  /\ ~ doubt => ~ late

(* Every nrf24_transmit that gets past the returns of 0 at lines 368 and    *)
(* 371 cleans up behind itself, whatever failed before it, and also when    *)
(* its poll fails and it returns 0 (line 382) - unless a transfer of its    *)
(* own clean-up fails (lines 355, 356 and the flush: ignored, the return    *)
(* value does not tell).  CONFIG is what the driver believes, in receive    *)
(* mode, CE is set and nothing is being sent.  The FIFO is empty - or the   *)
(* call returned 1 and had found a payload or a flag of an earlier one.     *)
(* There is no flag that the next call would take for its own - or a packet *)
(* was still in the air when the call stopped waiting for it.               *)
ListensAgain ==
  (out \in {"sent", "no_status", "max_rt", "timeout"} /\ "cleanup" \notin trouble) =>
    /\ chip.config = nrf24_configByte /\ chip.config.rx /\ ce
    /\ chip.flight = None
    /\ chip.fifo = <<>> \/ (out = "sent" /\ "before" \in trouble)
    /\ NoFlags \/ "in_air" \in trouble
=============================================================================
