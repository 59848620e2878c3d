----------------------------- MODULE MCUartLog -----------------------------
(* TLC instance of UartLog. *)
EXTENDS UartLog
=============================================================================
