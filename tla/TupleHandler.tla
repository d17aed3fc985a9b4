----------------------------- MODULE TupleHandler -----------------------------
(***************************************************************************)
(* TupleHander (stl_types.hpp:777-952), the handler of std::tuple: one      *)
(* handler per element, each reading in place; index is the next element.   *)
(* Nothing is tested at depth 0, and what comes after the last element is   *)
(* swallowed.                                                               *)
(***************************************************************************)
EXTENDS JsonReader, HandlerContract

CONSTANTS N, MaxReuses

VARIABLES
    handlers,   \* the element handlers, 1..N
    m_value,    \* what the elements hold: "old", "own" or "mixed" data
    index,      \* elements read
    depth,      \* arrays open
    the_error, parsed,
    root,       \* history: the kind of the text's value
    length,     \* history: the values that value held, when it is complete
    report, uses

tupleVars == <<handlers, m_value, index, depth, the_error, parsed>>
historyVars == <<root, length, report, uses>>
vars == <<readerVars, tupleVars, historyVars>>

Element == 1..N
NoError == N    \* the index of no element

TypeOK ==
    /\ ReaderTypeOK
    /\ handlers \in [Element -> Part]
    /\ m_value \in [Element -> {"old", "own", "mixed"}]
    /\ index \in 0..N /\ depth \in Nat
    /\ the_error \in 0..N
    /\ parsed \in BOOLEAN
    /\ root \in {"none", "scalar"} \cup Kinds
    /\ length \in Nat
    /\ report \in Seq({"ARRAY_ELEMENT", "part"}) /\ uses \in Nat

Init ==
    /\ ReaderInit
    /\ handlers = [i \in Element |-> Fresh]
    /\ m_value = [i \in Element |-> "old"]
    /\ index = 0 /\ depth = 0
    /\ the_error = NoError /\ parsed = FALSE
    /\ root = "none" /\ length = 0 /\ report = <<>> /\ uses = 0

-------------------------------------------------------------------------------
Root(kind) == root' = IF root = "none" THEN kind ELSE root

(* What the element holds once its handler has had an event.                *)
Touched(i) ==
    IF handlers[i].open > 0 THEN m_value[i]
    ELSE IF m_value[i] = "old" THEN "own" ELSE "mixed"

(* Mutant: the error is stored with the number of the next element.         *)
ErrorIndex_Next == IF index + 1 < N THEN index + 1 ELSE index

ErrorIndex == index

(* postcheck(handlers[index].event).                                        *)
Postcheck(event) ==
    LET i == index + 1 IN
    \E response \in Responses(handlers[i], event) :
        /\ handlers' = [handlers EXCEPT ![i] = response]
        /\ m_value' = [m_value EXCEPT ![i] = Touched(i)]
        /\ \/ /\ response.error
              /\ the_error' = ErrorIndex
              /\ Terminate
              /\ UNCHANGED index
           \/ /\ ~response.error
              /\ index' = IF response.parsed THEN index + 1 ELSE index
              /\ Accept
              /\ UNCHANGED the_error

Full == index >= N

Swallow == Accept /\ UNCHANGED <<handlers, m_value, index, the_error>>

(* The event belongs to the element at index, if there is one.              *)
Forward(event) == IF Full THEN Swallow ELSE Postcheck(event)

Scalar ==
    /\ ReadScalar /\ Root("scalar")
    /\ Forward("scalar")
    /\ UNCHANGED <<depth, parsed, length, report, uses>>

Key ==
    /\ \E k \in Keys : ReadKey(k)
    /\ Forward("key")
    /\ UNCHANGED <<depth, parsed, historyVars>>

StartObject ==
    /\ ReadStart("object") /\ Root("object")
    /\ Forward("start")
    /\ UNCHANGED <<depth, parsed, length, report, uses>>

EndObject ==
    /\ ReadEnd("object")
    /\ Forward("end")
    /\ UNCHANGED <<depth, parsed, historyVars>>

Opened == depth + 1

StartArray ==
    /\ ReadStart("array") /\ Root("array")
    /\ depth' = Opened
    /\ IF depth' > 1 THEN Forward("start") ELSE Swallow
    /\ UNCHANGED <<parsed, length, report, uses>>

EndsElement == depth - 1 > 0

EndArray ==
    /\ ReadEnd("array")
    /\ depth' = depth - 1
    /\ IF EndsElement
       THEN Forward("end") /\ UNCHANGED parsed
       ELSE Swallow /\ parsed' = TRUE
    /\ length' = IF Len(nest) = 1 THEN Size(nest[1]) ELSE length
    /\ UNCHANGED <<root, report, uses>>

(* The handlers that have an error to add: all of them are asked.           *)
FailedParts == {i \in Element : handlers[i].error}

ReapError ==
    /\ the_error # NoError
    /\ report' = <<"ARRAY_ELEMENT">> \o [j \in 1..Cardinality(FailedParts) |-> "part"]
    /\ the_error' = NoError
    /\ handlers' = [i \in Element |-> Reaped(handlers[i])]
    /\ UNCHANGED <<readerVars, m_value, index, depth, parsed, root, length, uses>>

ResetHandlers == [i \in Element |-> Fresh]

(* prepare_for_reuse; the elements keep what they hold, which is old to the *)
(* next text.                                                               *)
PrepareForReuse ==
    /\ uses < MaxReuses
    /\ NextText
    /\ handlers' = ResetHandlers
    /\ index' = 0 /\ depth' = 0
    /\ the_error' = NoError /\ parsed' = FALSE
    /\ root' = "none" /\ length' = 0 /\ report' = <<>> /\ uses' = uses + 1
    /\ m_value' = [i \in Element |-> "old"]

Next == \/ Scalar \/ Key \/ StartObject \/ EndObject \/ StartArray \/ EndArray
        \/ ReapError \/ PrepareForReuse

Spec == Init /\ [][Next]_vars

-------------------------------------------------------------------------------
Least(m, n) == IF m < n THEN m ELSE n

(* The contract is kept for a text that is an array: any other is not       *)
(* answered as a handler should, and is left out.                           *)
Covered == root \in {"none", "array"}

(* The handler as its own parent sees it: see HandlerContract.              *)
AsPart ==
    IF Covered
    THEN [open |-> Len(nest), parsed |-> parsed, error |-> the_error # NoError]
    ELSE Fresh

(* The elements of an array reach the elements of the tuple in order, each  *)
(* handler as deep in its value as the text is, and none gets data of two;  *)
(* those the array is too short for are left as they were, and all beyond   *)
(* the last is swallowed without a trace (postcheck, the tests of depth).   *)
(* A value that is no array is not covered: the code rejects it nowhere.    *)
ElementsInOrder ==
    root = "array" /\ phase \in {"reading", "complete"} =>
        /\ index = Least(N, IF AtRoot THEN length ELSE Size(nest[1]))
        /\ \A i \in Element :
               /\ handlers[i].open =
                      IF i = index + 1 /\ ~AtRoot THEN Len(nest) - 1 ELSE 0
               /\ handlers[i].parsed <=> i <= index
               /\ m_value[i] =
                      IF i <= index \/ handlers[i].open > 0 THEN "own" ELSE "old"

(* A chain of errors ends in a cause: the handler that failed is asked, and *)
(* it alone has an error to add (reap_error asks all).                      *)
OneCause == report # <<>> => Len(report) = 2

(* The index in an ArrayElementError is that of the element being read.     *)
NamesIndex ==
    root = "array" /\ the_error = NoError /\ the_error' # NoError =>
        the_error' = Size(nest[1])
===============================================================================
