-------------------------- MODULE ConversionHandler ---------------------------
(***************************************************************************)
(* ConversionHandler (basic.hpp:443-542): every event goes to the handler   *)
(* of a shadow value; whenever that handler is parsed, Converter's          *)
(* from_shadow makes the user's value of the shadow, or returns an error.   *)
(***************************************************************************)
EXTENDS JsonReader, HandlerContract

CONSTANT MaxReuses      \* bound: texts read by one handler, after the first

VARIABLES
    shadow,     \* what the shadow holds: "default", "own" or "mixed" data
    internal,   \* its handler
    m_value,    \* the user's value: "old", or what it was made of; "partial"
                \* if the shadow's value was not complete
    the_error,  \* from_shadow has returned an error
    parsed,
    again,      \* the text repeats a value, the handler not prepared
    calls,      \* history: calls of from_shadow in this text
    report, uses

handlerVars == <<shadow, internal, m_value, the_error, parsed>>
historyVars == <<again, calls, report, uses>>
vars == <<readerVars, handlerVars, historyVars>>

TypeOK ==
    /\ ReaderTypeOK
    /\ shadow \in {"default", "own", "mixed"}
    /\ internal \in Part
    /\ m_value \in {"old", "own", "mixed", "partial"}
    /\ the_error \in BOOLEAN /\ parsed \in BOOLEAN /\ again \in BOOLEAN
    /\ calls \in Nat /\ uses \in Nat
    /\ report \in Seq({"conversion", "part"})

Init ==
    /\ ReaderInit
    /\ shadow = "default" /\ internal = Fresh /\ m_value = "old"
    /\ the_error = FALSE /\ parsed = FALSE /\ again = FALSE
    /\ calls = 0 /\ report = <<>> /\ uses = 0

-------------------------------------------------------------------------------
Touched ==
    IF internal.open > 0 THEN shadow
    ELSE IF shadow = "default" THEN "own" ELSE "mixed"

(* from_shadow(shadow, *m_value): the user's Converter may refuse.          *)
FromShadow(response) ==
    \E refused \in BOOLEAN :
        /\ the_error' = (the_error \/ refused)
        /\ m_value' = IF refused THEN m_value
                      ELSE IF response.open > 0 THEN "partial" ELSE Touched
        /\ calls' = calls + 1
        /\ IF refused THEN Terminate ELSE Accept

Convertible(response) == response.parsed

(* postprocess(internal.event).                                             *)
Forward(event) ==
    /\ \E response \in Responses(internal, event) :
           /\ internal' = response
           /\ shadow' = Touched
           /\ \/ /\ response.error
                 /\ Terminate
                 /\ UNCHANGED <<m_value, the_error, parsed, calls>>
              \/ /\ ~response.error /\ ~Convertible(response)
                 /\ Accept
                 /\ UNCHANGED <<m_value, the_error, parsed, calls>>
              \/ /\ ~response.error /\ Convertible(response)
                 /\ parsed' = TRUE
                 /\ FromShadow(response)
    /\ UNCHANGED <<again, report, uses>>

(* A repeated value begins with StartObject: see Again.                     *)
FirstOfRepeated == again /\ AtRoot

Scalar == ReadScalar /\ ~FirstOfRepeated /\ Forward("scalar")
Key == (\E k \in Keys : ReadKey(k)) /\ Forward("key")
StartObject == ReadStart("object") /\ Forward("start")
StartArray == ReadStart("array") /\ ~FirstOfRepeated /\ Forward("start")
End == (\E kind \in Kinds : ReadEnd(kind)) /\ Forward("end")

Reset == shadow' = "default" /\ internal' = Fresh

ClearVerdict == the_error' = FALSE /\ parsed' = FALSE

PrepareForReuse ==
    /\ uses < MaxReuses
    /\ NextText
    /\ Reset
    /\ ClearVerdict
    /\ again' = FALSE /\ calls' = 0 /\ report' = <<>> /\ uses' = uses + 1
    /\ UNCHANGED m_value

(* An ObjectHandler gives a member that is parsed a second value without    *)
(* preparing it, if that value is an object (staticjson.cpp:567).           *)
Again ==
    /\ uses < MaxReuses /\ phase = "complete"
    /\ NextText
    /\ again' = TRUE /\ calls' = 0 /\ uses' = uses + 1
    /\ UNCHANGED <<handlerVars, report>>

has_error == the_error \/ internal.error

(* Mutant: the error is copied, not released.                               *)
ErrorLeft_Kept == the_error

ErrorLeft == FALSE

(* reap_error: the error of the conversion, or else the shadow handler's.   *)
ReapError ==
    /\ has_error
    /\ report' = Append(report, IF the_error THEN "conversion" ELSE "part")
    /\ the_error' = ErrorLeft
    /\ internal' = IF the_error THEN internal ELSE Reaped(internal)
    /\ UNCHANGED <<readerVars, shadow, m_value, parsed, again, calls, uses>>

Next == \/ Scalar \/ Key \/ StartObject \/ StartArray \/ End
        \/ PrepareForReuse \/ Again \/ ReapError

Spec == Init /\ [][Next]_vars

-------------------------------------------------------------------------------
(* The handler as its own parent sees it: see HandlerContract.              *)
AsPart == [open |-> Len(nest), parsed |-> parsed, error |-> has_error]

(* The user's value is made exactly once for a text, when the shadow is     *)
(* complete, and of this text's data alone (postprocess, reset).  A         *)
(* repeated object may be converted while it is read, of merged data.       *)
ConvertedOnceWhole ==
    ~again =>
        /\ calls = IF parsed THEN 1 ELSE 0
        /\ phase = "complete" => m_value = "own"

(* Whatever was repeated and converted meanwhile, the user's value agrees   *)
(* with the shadow as the complete text left it (postprocess).              *)
ValueAgreesWithShadow == phase = "complete" => m_value = shadow

(* An error has one cause: that of the conversion, or that of the shadow's  *)
(* handler; reap_error finds no other after it.                             *)
OneCause == Len(report) <= 1 /\ (report # <<>> => ~has_error)
===============================================================================
