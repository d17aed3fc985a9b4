-------------------------- MODULE FixedArrayHandler ---------------------------
(***************************************************************************)
(* Handler<std::array<T, N>> (stl_types.hpp:195-351): elements are read     *)
(* like those of a vector, into slots; count is the next slot.  More or     *)
(* fewer than N elements are an error.                                      *)
(***************************************************************************)
EXTENDS ElementFeed

CONSTANT N

ASSUME LengthAssumption == N \in Nat

VARIABLES m_value, count

vars == <<readerVars, feedVars, historyVars, m_value, count>>

Contents == {"old", "own", "mixed"}

TypeOK ==
    /\ FeedTypeOK
    /\ m_value \in [1..N -> Contents]
    /\ count \in 0..N

Init == FeedInit /\ m_value = [i \in 1..N |-> "old"] /\ count = 0

-------------------------------------------------------------------------------
LengthError == Reject(Error("ARRAY_LENGTH_MISMATCH", 0))

(* Mutant: a full array is noticed one element early.                       *)
Full_Early == count + 1 >= N

Full == count >= N

(* Mutant: the element's object is not made anew.                           *)
Store_KeepsElement ==
    /\ m_value' = [m_value EXCEPT ![count + 1] = Touched]
    /\ count' = count + 1
    /\ internal' = Fresh
    /\ element' = Touched
    /\ Return

Store ==
    /\ m_value' = [m_value EXCEPT ![count + 1] = Touched]
    /\ count' = count + 1
    /\ RenewElement
    /\ Return

(* postcheck(internal.event).                                               *)
Postcheck(event) ==
    \E response \in Responses(internal, event) :
        \/ /\ response.error
           /\ Forwarded(response)
           /\ ElementError(count)
           /\ UNCHANGED <<m_value, count>>
        \/ /\ ~response.error /\ response.parsed /\ Full
           /\ Forwarded(response)
           /\ LengthError
           /\ UNCHANGED <<m_value, count>>
        \/ /\ ~response.error /\ response.parsed /\ ~Full
           /\ Store
        \/ /\ ~response.error /\ ~response.parsed
           /\ Forwarded(response)
           /\ Return
           /\ UNCHANGED <<m_value, count>>

Element(event) ==
    /\ \/ MismatchAtRoot /\ UNCHANGED <<m_value, count>>
       \/ depth > 0 /\ Postcheck(event)
    /\ UNCHANGED <<depth, parsed, historyVars>>

Scalar == ReadScalar /\ Element("scalar")
Key == (\E k \in Keys : ReadKey(k)) /\ Element("key")
StartObject == ReadStart("object") /\ Element("start")
EndObject == ReadEnd("object") /\ Element("end")

(* Unlike ArrayHandler's, this StartArray leaves count and the slots alone. *)
StartArray ==
    /\ ReadStart("array")
    /\ depth' = depth + 1
    /\ \/ depth' > 1 /\ Postcheck("start")
       \/ /\ depth' <= 1
          /\ Return
          /\ UNCHANGED <<internal, element, m_value, count>>
    /\ UNCHANGED <<parsed, historyVars>>

(* Mutant: a short array is accepted.                                       *)
WrongLength_Never == FALSE

WrongLength == count # N

EndArray ==
    /\ ReadEnd("array")
    /\ depth' = depth - 1
    /\ \/ depth' > 0 /\ Postcheck("end") /\ UNCHANGED parsed
       \/ /\ depth' <= 0
          /\ IF WrongLength
             THEN LengthError /\ UNCHANGED parsed
             ELSE Return /\ parsed' = TRUE
          /\ UNCHANGED <<internal, element, m_value, count>>
    /\ UNCHANGED historyVars

Restart == count' = 0

PrepareForReuse == PrepareFeed /\ Restart /\ UNCHANGED m_value

Next == \/ Scalar \/ Key \/ StartObject \/ EndObject \/ StartArray \/ EndArray
        \/ ReapError /\ UNCHANGED <<m_value, count>>
        \/ PrepareForReuse

Spec == Init /\ [][Next]_vars

-------------------------------------------------------------------------------
(* Slots are filled in the order of the text and without a gap, by unmixed  *)
(* elements; in an accepted array no slot keeps what it held before.        *)
SlotsFilledInOrder ==
    /\ phase = "reading" => depth > 0 /\ count = Size(nest[1])
    /\ phase \in {"reading", "complete"} =>
           \A i \in 1..count : m_value[i] = "own"
    /\ phase = "complete" => count = N

(* A length error is justified: the text has completed more elements than   *)
(* there are slots, or it has ended with fewer.                             *)
LengthErrorJustified ==
    the_error.type = "ARRAY_LENGTH_MISMATCH" =>
        IF nest = <<>> THEN count < N ELSE Size(nest[1]) > N

(* Every error tells its cause: a length error that the length is wrong,    *)
(* an element's error, after ArrayElementError, what is wrong in it.        *)
ErrorsJustified == LengthErrorJustified /\ ReportEndsInCause

(* Handler<std::array<T, N>> implements ParsedSequence with length N only.  *)
Sequence == INSTANCE ParsedSequence WITH
    Lengths <- {N},
    status <- IF phase = "failed" THEN "rejected"
              ELSE IF parsed THEN "accepted"
              ELSE IF depth > 0 THEN "open" ELSE "idle",
    length <- count

ImplementsSequence == Sequence!Spec
===============================================================================
