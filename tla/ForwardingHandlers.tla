-------------------------- MODULE ForwardingHandlers ---------------------------
(***************************************************************************)
(* The handlers that pass the events of their value on to the handlers of   *)
(* its parts, other than an array's or an object's: of a map, of a pointer  *)
(* or optional, of a tuple, and of a converted type.  The type of the value *)
(* a text is read into decides, once, which of them reads (class); what     *)
(* BaseHandler promises of each is then one statement.                      *)
(***************************************************************************)
EXTENDS JsonReader, HandlerContract

CONSTANTS
    N,          \* elements of the tuple
    MaxReuses   \* bound: texts read by one handler, after the first

ASSUME ForwardingAssumption == N \in Nat \ {0} /\ MaxReuses \in Nat

VARIABLES
    class,      \* the class template that reads
    m_value, internal, depth, the_error, parsed, again,
    report, uses,
    element, unique, current_key, given,    \* MapHandler's own
    internal_handler, strayed, isNull,      \* PointerHandler's own
    handlers, index, root, length,          \* TupleHander's own
    shadow, calls                           \* ConversionHandler's own

mapOwn == <<element, unique, current_key, given>>
pointerOwn == <<internal_handler, strayed, isNull>>
tupleOwn == <<handlers, index, root, length>>
conversionOwn == <<shadow, calls>>

vars == <<class, readerVars, m_value, internal, depth, the_error, parsed, again,
          report, uses, mapOwn, pointerOwn, tupleOwn, conversionOwn>>

Map == INSTANCE MapHandler
Pointer == INSTANCE PointerHandler
Tuple == INSTANCE TupleHandler
Conversion == INSTANCE ConversionHandler

NoMap == element = 0 /\ unique = 0 /\ current_key = 0 /\ given = 0
NoPointer == internal_handler = 0 /\ strayed = 0 /\ isNull = 0
NoTuple == handlers = 0 /\ index = 0 /\ root = 0 /\ length = 0
NoConversion == shadow = 0 /\ calls = 0

(* What a class has no member for is 0.                                     *)
Init ==
    \/ /\ class = "MapHandler"
       /\ Map!Init /\ NoPointer /\ NoTuple /\ NoConversion
    \/ /\ class = "PointerHandler"
       /\ Pointer!Init /\ NoMap /\ NoTuple /\ NoConversion /\ the_error = 0
    \/ /\ class = "TupleHander"
       /\ Tuple!Init /\ NoMap /\ NoPointer /\ NoConversion
       /\ internal = 0 /\ again = 0
    \/ /\ class = "ConversionHandler"
       /\ Conversion!Init /\ NoMap /\ NoPointer /\ NoTuple /\ depth = 0

MapStep ==
    /\ class = "MapHandler" /\ Map!Next
    /\ UNCHANGED <<class, pointerOwn, tupleOwn, conversionOwn>>

PointerStep ==
    /\ class = "PointerHandler" /\ Pointer!Next
    /\ UNCHANGED <<class, the_error, mapOwn, tupleOwn, conversionOwn>>

TupleStep ==
    /\ class = "TupleHander" /\ Tuple!Next
    /\ UNCHANGED <<class, internal, again, mapOwn, pointerOwn, conversionOwn>>

ConversionStep ==
    /\ class = "ConversionHandler" /\ Conversion!Next
    /\ UNCHANGED <<class, depth, mapOwn, pointerOwn, tupleOwn>>

Next == MapStep \/ PointerStep \/ TupleStep \/ ConversionStep

Spec == Init /\ [][Next]_vars

-------------------------------------------------------------------------------
(* The handler as the one above it sees it, whichever class reads.          *)
AsPart ==
    CASE class = "MapHandler" -> Map!AsPart
      [] class = "PointerHandler" -> Pointer!AsPart
      [] class = "TupleHander" -> Tuple!AsPart
      [] class = "ConversionHandler" -> Conversion!AsPart

Promise == INSTANCE ContractedHandler WITH
    part <- AsPart,
    text <- IF class = "TupleHander" /\ ~Tuple!Covered THEN "ready" ELSE phase

(* The handler promises the one above it what it assumes of the handlers of *)
(* its parts: every event is answered as BaseHandler's contract has it,     *)
(* whatever the parts answer, a value that is repeated without preparation  *)
(* included; the error stays until it is reaped.                            *)
ContractKept == Promise!Spec

(* A chain of errors has a cause at its end, and only one (reap_error of    *)
(* the four classes, which ask one part, all of them, or none).             *)
ErrorsHaveCause ==
    CASE class = "MapHandler" -> Map!TypeOK /\ Map!MemberErrorHasCause
      [] class = "PointerHandler" -> Pointer!TypeOK /\ Pointer!OneCause
      [] class = "TupleHander" -> Tuple!TypeOK /\ Tuple!OneCause
      [] class = "ConversionHandler" -> Conversion!TypeOK /\ Conversion!OneCause

(* The handler of a part is as deep in its value as the text is: no null,   *)
(* bracket or key inside a part is taken for the handler's own (the tests   *)
(* of depth in precheck, Null, Key and the End methods), and no handler of  *)
(* a destroyed object is used (PointerHandler::initialize).                 *)
PartInStep ==
    CASE class = "MapHandler" -> Map!ElementInStep
      [] class = "PointerHandler" -> Pointer!ObjectInStep /\ Pointer!NeverStrays
      [] OTHER -> TRUE

(* The value that results is the text's, part by part: entries under their  *)
(* keys, null where the text has null, elements in their places, the        *)
(* conversion of the whole; none mixed with another value's or text's data. *)
ValueFollowsText ==
    CASE class = "MapHandler" -> Map!EntriesMatchText
      [] class = "PointerHandler" -> Pointer!ValueFollowsText
      [] class = "TupleHander" -> Tuple!ElementsInOrder
      [] class = "ConversionHandler" ->
             Conversion!ConvertedOnceWhole /\ Conversion!ValueAgreesWithShadow

(* What the note in examples/failure/duplicate_key.json:50 says of a map     *)
(* that does not support a repeated key: it is an error.                    *)
MapKeysDetected == class = "MapHandler" => Map!KeysDetected

(* An error that names a place names that of the part being read, whatever  *)
(* was nested, moved from or swallowed before (postcheck of map and tuple). *)
ErrorNamesPlace ==
    [][ /\ class = "MapHandler" => Map!NamesKey
        /\ class = "TupleHander" => Tuple!NamesIndex ]_vars
===============================================================================
