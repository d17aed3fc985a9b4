------------------------- MODULE MCFixedArrayHandler --------------------------
(* A small instance of FixedArrayHandler for TLC.                           *)
EXTENDS FixedArrayHandler

CONSTANT k

OneKey == {k}
===============================================================================
