------------------------- MODULE MCPropertySeqlock -------------------------
(* Two entries share the backup slot; values of one and of two bytes.   *)
EXTENDS PropertySeqlock

CONSTANTS a, b

MCByte   == {a, b}
MCValues == {<<a>>, <<b, a>>}
=============================================================================
