---------------------------- MODULE ParsedSequence ----------------------------
(***************************************************************************)
(* What a handler of a C++ sequence promises, whatever its type: a value is *)
(* begun, collects its elements one at a time and in order, and is either   *)
(* accepted with a length its type allows or rejected; a verdict stands     *)
(* until the handler is renewed.                                            *)
(***************************************************************************)
EXTENDS Naturals

CONSTANT Lengths    \* the lengths the type allows

VARIABLES status, length

sequenceVars == <<status, length>>

Init == status = "idle" /\ length = 0

Begin == status = "idle" /\ status' = "open" /\ UNCHANGED length

Add == status = "open" /\ length' = length + 1 /\ UNCHANGED status

Conclude ==
    /\ status = "open" /\ length \in Lengths
    /\ status' = "accepted"
    /\ UNCHANGED length

Refuse ==
    /\ status \in {"idle", "open"}
    /\ status' = "rejected"
    /\ UNCHANGED length

Renew == status' = "idle" /\ length' = 0

Next == Begin \/ Add \/ Conclude \/ Refuse \/ Renew

Spec == Init /\ [][Next]_sequenceVars
===============================================================================
