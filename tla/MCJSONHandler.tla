---------------------------- MODULE MCJSONHandler -----------------------------
(* A small instance of JSONHandler for TLC.                                  *)
EXTENDS JSONHandler

CONSTANTS a, b

TwoKeys == {a, b}
===============================================================================
