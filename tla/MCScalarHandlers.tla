--------------------------- MODULE MCScalarHandlers ---------------------------
(* Small types for TLC: int of 3 bits, std::int64_t of 5; a double keeps    *)
(* every int but not every int64_t, a float not every int.                  *)
EXTENDS ScalarHandlers

CONSTANTS x, y, E1, E2

TwoNames == {x, y}
TwoEnumerators == {E1, E2}

Pairs == TwoNames \X TwoEnumerators
SmallMappings == {<<p>> : p \in Pairs} \cup (Pairs \X Pairs)
===============================================================================
