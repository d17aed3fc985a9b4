------------------------ MODULE MCForwardingHandlers -------------------------
(* A small instance of ForwardingHandlers for TLC.                          *)
EXTENDS ForwardingHandlers

CONSTANTS a, b

TwoKeys == {a, b}
===============================================================================
