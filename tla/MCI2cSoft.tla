----------------------------- MODULE MCI2cSoft -----------------------------
(* TLC instance of I2cSoft: bytes of two bits, one target on the bus. *)
EXTENDS I2cSoft

MCOwn == <<FALSE>>
MCAddresses == {<<FALSE>>, <<TRUE>>}
MCBytes == {<<FALSE, TRUE>>, <<TRUE, FALSE>>}
=============================================================================
