---------------------------- MODULE MCArrayHandler ----------------------------
(* A small instance of ArrayHandler for TLC.                                *)
EXTENDS ArrayHandler

CONSTANT k

OneKey == {k}
===============================================================================
