----------------------------- MODULE MCEthStack -----------------------------
(* TLC instance of EthStack: host d moves from one hardware address to another. *)
EXTENDS EthStack

CONSTANTS d, e, f, m, n, pg, pl

Seen == {<<d, m>>, <<d, n>>, <<e, n>>, <<f, m>>, <<Unspecified, n>>}

NotMasked == ~masked
=============================================================================
