--------------------------- MODULE ContractedHandler ---------------------------
(***************************************************************************)
(* What a handler promises the handler above it, whatever its C++ type: it  *)
(* is a part as HandlerContract describes them, for every event that fits   *)
(* its own progress.  This is what the composite handlers assume of their   *)
(* parts; that they promise it themselves lets them be put into each other. *)
(***************************************************************************)
EXTENDS HandlerContract

VARIABLES
    part,       \* the handler, as a part
    text        \* its value: "ready", "reading", "complete", or "failed"

contractedVars == <<part, text>>

Init == part = Fresh /\ text = "ready"

(* One of the methods: it returns true, or false.  A parse does not go on   *)
(* after a refusal, nor after the end of the value.                         *)
Accept(event) ==
    /\ part' \in Accepted(part, event)
    /\ text' = IF part'.open = 0 THEN "complete" ELSE "reading"

Refuse(event) == part' \in Rejected(part, event) /\ text' = "failed"

Answer(event) ==
    /\ text \in {"ready", "reading"} /\ Fits(part, event)
    /\ Accept(event) \/ Refuse(event)

Reap == part.error /\ part' = Reaped(part) /\ UNCHANGED text

PrepareForReuse == part' = Fresh /\ text' = "ready"

(* A second value comes although nothing has been prepared for it.          *)
Again == text = "complete" /\ text' = "ready" /\ UNCHANGED part

Next ==
    \/ \E event \in Events : Answer(event)
    \/ Reap \/ PrepareForReuse \/ Again

Spec == Init /\ [][Next]_contractedVars
===============================================================================
