----------------------------- MODULE ElementFeed ------------------------------
(***************************************************************************)
(* The state that the handlers of std::vector (deque, list: ArrayHandler)   *)
(* and of std::array share: one element object and its handler, which read  *)
(* the elements of the JSON array in turn.                                  *)
(***************************************************************************)
EXTENDS JsonReader, HandlerContract

CONSTANT MaxReuses      \* bound: texts read by one handler, after the first

ASSUME MaxReusesAssumption == MaxReuses \in Nat

VARIABLES
    internal,   \* the handler of the element
    element,    \* what the element object holds
    depth,      \* arrays open
    the_error, parsed,
    report,     \* history: the errors reaped
    uses        \* history: texts begun after the first

feedVars == <<internal, element, depth, the_error, parsed>>
historyVars == <<report, uses>>

(* As constructed; data of the value being read only; or also data that an  *)
(* earlier value left.                                                      *)
Elements == {"default", "own", "mixed"}

ErrorTypes == {"TYPE_MISMATCH", "ARRAY_ELEMENT", "ARRAY_LENGTH_MISMATCH"}
Error(type, index) == [type |-> type, index |-> index]
NoError == Error("none", 0)

FeedTypeOK ==
    /\ ReaderTypeOK
    /\ internal \in Part
    /\ element \in Elements
    /\ depth \in Nat
    /\ the_error \in [type: ErrorTypes, index: Nat] \cup {NoError}
    /\ parsed \in BOOLEAN
    /\ report \in Seq(ErrorTypes \cup {"part"})
    /\ uses \in Nat

FeedInit ==
    /\ ReaderInit
    /\ internal = Fresh
    /\ element = "default"
    /\ depth = 0
    /\ the_error = NoError
    /\ parsed = FALSE
    /\ report = <<>>
    /\ uses = 0

Reject(error) == the_error' = error /\ Terminate
Return == UNCHANGED the_error /\ Accept

(* The element object once its handler has had an event: the first event of *)
(* a value finds it as constructed, or with what an earlier value left.     *)
Touched ==
    IF internal.open > 0 THEN element
    ELSE IF element = "default" THEN "own" ELSE "mixed"

Forwarded(response) == internal' = response /\ element' = Touched

(* prepare_for_reuse of the element's handler, on a new element object.     *)
RenewElement == internal' = Fresh /\ element' = "default"

(* Mutant: the error is stored, and true is returned.                       *)
ElementError_ReturnsTrue(index) ==
    the_error' = Error("ARRAY_ELEMENT", index) /\ Accept

ElementError(index) == Reject(Error("ARRAY_ELEMENT", index))

MismatchAtRoot ==
    /\ depth <= 0
    /\ Reject(Error("TYPE_MISMATCH", 0))
    /\ UNCHANGED <<internal, element>>

(* Mutant: the element's error stays where it is.                           *)
ElementReap_Skipped == <<>>

ElementReap == IF internal.error THEN <<"part">> ELSE <<>>

(* reap_error of both handlers: the own error, then the element's.          *)
ReapError ==
    /\ the_error # NoError
    /\ report' = report \o <<the_error.type>> \o ElementReap
    /\ the_error' = NoError
    /\ internal' = Reaped(internal)
    /\ UNCHANGED <<readerVars, element, depth, parsed, uses>>

ClearVerdict == the_error' = NoError /\ parsed' = FALSE

(* BaseHandler::prepare_for_reuse and the reset of both handlers, as far as *)
(* they agree.                                                              *)
PrepareFeed ==
    /\ uses < MaxReuses
    /\ NextText
    /\ RenewElement
    /\ depth' = 0
    /\ ClearVerdict
    /\ report' = <<>>
    /\ uses' = uses + 1

-------------------------------------------------------------------------------
(* The handler as its own parent sees it: see HandlerContract.              *)
AsPart == [open |-> Len(nest), parsed |-> parsed, error |-> the_error # NoError]

Promise == INSTANCE ContractedHandler WITH
    part <- AsPart, text <- phase

(* The handler promises its parent what it assumes of its elements: every   *)
(* event is answered as BaseHandler's contract has it, whatever the         *)
(* elements answer; the error stays until it is reaped.                     *)
ContractKept == Promise!Spec

(* A chain of errors ends in a cause: ArrayElementError is always followed  *)
(* by the error of the element's handler.                                   *)
ReportEndsInCause == report # <<>> => Last(report) # "ARRAY_ELEMENT"

(* The index in an ArrayElementError is that of the element being read.     *)
ErrorNamesIndex ==
    [][the_error = NoError /\ the_error'.type = "ARRAY_ELEMENT" =>
           the_error'.index = Size(nest[1])]_<<readerVars, feedVars>>
===============================================================================
