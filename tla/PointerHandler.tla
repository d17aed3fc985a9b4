---------------------------- MODULE PointerHandler ----------------------------
(***************************************************************************)
(* PointerHandler (stl_types.hpp:353-517), the handler of unique_ptr and    *)
(* shared_ptr, and Handler<optional<T>> (optional_support.hpp:39-200),      *)
(* which has the same text over another owner.  The object is made when the *)
(* first event of its value comes, its handler with it; null destroys the   *)
(* object only.                                                             *)
(***************************************************************************)
EXTENDS JsonReader, HandlerContract

CONSTANT MaxReuses      \* bound: texts read by one handler, after the first

VARIABLES
    m_value,            \* what the pointer holds
    internal_handler,   \* "none", "live", or "stale": its object is destroyed
    internal,           \* that handler, while there is one
    depth, parsed,
    again,              \* the text repeats a value, the handler not prepared
    strayed,            \* history: a stale handler was used
    isNull,             \* history: the text's value is null
    report, uses        \* history: the errors reaped, texts begun again

pointerVars == <<m_value, internal_handler, internal, depth, parsed>>
historyVars == <<again, strayed, isNull, report, uses>>
vars == <<readerVars, pointerVars, historyVars>>

(* "old": what the user's pointer held; "default": an object just made;     *)
(* "own" and "mixed": it has data of one value, or of several.              *)
Values == {"null", "old", "default", "own", "mixed"}

TypeOK ==
    /\ ReaderTypeOK
    /\ m_value \in Values
    /\ internal_handler \in {"none", "live", "stale"}
    /\ internal \in Part
    /\ depth \in Nat
    /\ \A flag \in {parsed, again, strayed, isNull} : flag \in BOOLEAN
    /\ report \in Seq({"part"}) /\ uses \in Nat

Init ==
    /\ ReaderInit
    /\ m_value \in {"null", "old"}
    /\ internal_handler = "none" /\ internal = Fresh
    /\ depth = 0 /\ parsed = FALSE
    /\ again = FALSE /\ strayed = FALSE /\ isNull = FALSE
    /\ report = <<>> /\ uses = 0

-------------------------------------------------------------------------------
NoHandler == internal_handler = "none"

(* initialize(): a new object and its handler, unless there is a handler.   *)
InitializedHandler == IF NoHandler THEN Fresh ELSE internal
InitializedValue == IF NoHandler THEN "default" ELSE m_value

(* What the object holds once its handler has had an event: see Values.     *)
Touched ==
    CASE internal_handler = "stale" -> m_value
      [] InitializedValue = "default" -> "own"
      [] internal.open > 0 -> m_value
      [] OTHER -> "mixed"

has_error == ~NoHandler /\ internal.error

(* postcheck: parsed is the object's; StartObject does not call it.         *)
ParsedAfterwards(response, event) ==
    IF event = "startObject" THEN parsed ELSE response.parsed

SaxEvent(event) ==
    IF event \in {"startObject", "startArray"} THEN "start" ELSE event

(* initialize() and the event's method of internal_handler.                 *)
Forward(event) ==
    \E response \in Responses(InitializedHandler, SaxEvent(event)) :
        /\ internal' = response
        /\ internal_handler' = IF NoHandler THEN "live" ELSE internal_handler
        /\ m_value' = Touched
        /\ strayed' = (strayed \/ internal_handler = "stale")
        /\ \/ response.error /\ Terminate /\ UNCHANGED parsed
           \/ /\ ~response.error /\ Accept
              /\ parsed' = ParsedAfterwards(response, event)
        /\ isNull' = (isNull /\ ~AtRoot)
        /\ UNCHANGED <<again, report, uses>>

(* A repeated value begins with StartObject: see Again.                     *)
FirstOfRepeated == again /\ AtRoot

Scalar ==
    /\ ReadScalar /\ ~FirstOfRepeated
    /\ Forward("scalar")
    /\ UNCHANGED depth

(* Mutant: a null anywhere is taken for the pointer's own.                  *)
OwnNull_Always == TRUE

OwnNull == depth = 0

Null ==
    /\ ReadScalar /\ ~FirstOfRepeated
    /\ \/ /\ OwnNull
          /\ m_value' = "null"
          /\ parsed' = TRUE
          /\ internal_handler' = IF NoHandler THEN "none" ELSE "stale"
          /\ Accept
          /\ isNull' = (isNull \/ AtRoot)
          /\ UNCHANGED <<internal, again, strayed, report, uses>>
       \/ ~OwnNull /\ Forward("scalar")
    /\ UNCHANGED depth

Key == (\E k \in Keys : ReadKey(k)) /\ Forward("key") /\ UNCHANGED depth

Opened(kind) == depth + 1

StartObject ==
    /\ ReadStart("object")
    /\ depth' = Opened("object")
    /\ Forward("startObject")

StartArray ==
    /\ ReadStart("array") /\ ~FirstOfRepeated
    /\ depth' = Opened("array")
    /\ Forward("startArray")

End(kind) == ReadEnd(kind) /\ depth' = depth - 1 /\ Forward("end")
EndObject == End("object")
EndArray == End("array")

(* reset(): the handler and its object are dropped.                         *)
Drop == m_value' = "null" /\ internal_handler' = "none" /\ internal' = Fresh

PrepareForReuse ==
    /\ uses < MaxReuses
    /\ NextText
    /\ Drop
    /\ depth' = 0 /\ parsed' = FALSE
    /\ again' = FALSE /\ isNull' = FALSE
    /\ report' = <<>> /\ uses' = uses + 1
    /\ UNCHANGED strayed

(* An ObjectHandler gives a member that is parsed a second value without    *)
(* preparing it, if that value is an object (staticjson.cpp:567).           *)
Again ==
    /\ uses < MaxReuses /\ phase = "complete"
    /\ NextText
    /\ again' = TRUE /\ uses' = uses + 1
    /\ UNCHANGED <<pointerVars, strayed, isNull, report>>

(* reap_error is the internal handler's.                                    *)
ReapError ==
    /\ has_error
    /\ report' = Append(report, "part")
    /\ internal' = Reaped(internal)
    /\ UNCHANGED <<readerVars, m_value, internal_handler, depth, parsed,
                   again, strayed, isNull, uses>>

Next == \/ Scalar \/ Null \/ Key \/ StartObject \/ EndObject \/ StartArray
        \/ EndArray \/ PrepareForReuse \/ Again \/ ReapError

Spec == Init /\ [][Next]_vars

-------------------------------------------------------------------------------
(* The handler as its own parent sees it: see HandlerContract.              *)
AsPart == [open |-> Len(nest), parsed |-> parsed, error |-> has_error]

(* An error has one cause, the object's handler, and it is reported once.   *)
OneCause == Len(report) <= 1 /\ (report # <<>> => ~has_error)

(* The pointer is null exactly when the text's value is null, wherever      *)
(* nulls occur in the object and whatever the pointer held before; and the  *)
(* object has data of this value alone, or of the two it was merged from.   *)
ValueFollowsText ==
    phase = "complete" =>
        /\ m_value = "null" <=> isNull
        /\ m_value = "mixed" => again
        /\ m_value \notin {"old", "default"}

(* The object's handler is as deep in its value as the text is: no null,    *)
(* bracket or key of the object is taken for the pointer's own.             *)
ObjectInStep ==
    phase = "reading" =>
        /\ internal_handler = "live" /\ m_value # "null"
        /\ internal.open = Len(nest) /\ depth = Len(nest)

(* Null leaves a handler behind whose object is gone, and initialize tests  *)
(* for a handler, not for an object: the handler is never used.             *)
NeverStrays == ~strayed
===============================================================================
