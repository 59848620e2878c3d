------------------------------ MODULE MCNrf24 ------------------------------
(* TLC instance of Nrf24. *)
EXTENDS Nrf24
=============================================================================
