----------------------------- MODULE JSONHandler ------------------------------
(***************************************************************************)
(* JSONHandler and Handler<Document> (staticjson.cpp:845-1010,              *)
(* document.hpp), which build a DOM.  What the methods do to the values is  *)
(* in DomStack.                                                             *)
(***************************************************************************)
EXTENDS JsonReader, HandlerContract

INSTANCE DomStack

CONSTANTS
    MaxValues,     \* bound: values in one text
    MaxReuses,     \* bound: texts read by one handler, after the first
    NoValue        \* no text is complete (for the refinement)

ASSUME DomBoundsAssumption == {MaxValues, MaxReuses} \subseteq Nat

VARIABLES
    m_stack, m_value,
    m_alloc,       \* the Document whose allocator m_alloc points to
    document,      \* the Document that is the object *m_value now
    parsed, the_error,
    repeated,      \* the text repeats a value, the handler not prepared
    cut,           \* history: the handler was prepared inside that text
    values, uses   \* history: values the text has begun, texts begun again

domVars == <<m_stack, m_value, m_alloc, document, parsed, the_error,
             repeated, cut, values, uses>>
vars == <<readerVars, domVars>>

Scalars == [kind: {"string", "null"}, id: 1..MaxValues, items: {<<>>}]
ValueKinds == {"null", "string", "array", "object"}

TypeOK ==
    /\ ReaderTypeOK
    /\ \A i \in DOMAIN m_stack : m_stack[i].kind \in ValueKinds
    /\ Len(m_stack) <= 2 * MaxNesting
    /\ m_value.kind \in ValueKinds
    /\ m_alloc \in Nat /\ document \in Nat /\ m_alloc <= document
    /\ {parsed, the_error, repeated, cut} \subseteq BOOLEAN
    /\ values \in 0..MaxValues /\ uses \in 0..MaxReuses

Init ==
    /\ ReaderInit
    /\ m_stack = <<>> /\ m_value \in {NullValue, Empty("object")}
    /\ m_alloc = 0 /\ document = 0
    /\ parsed = FALSE /\ the_error = FALSE
    /\ repeated = FALSE /\ cut = FALSE
    /\ values = 0 /\ uses = 0

-------------------------------------------------------------------------------
Whole == <<m_value>> \o m_stack

(* ObjectHandler::precheck, before all events but those of objects, of a    *)
(* member with AllowDuplicateKey: if the handler is parsed it is prepared,  *)
(* be it in the middle of a repeated value.                                 *)
Prepared == repeated /\ parsed
WholePrechecked == IF Prepared THEN <<m_value>> ELSE Whole
Prechecked == cut' = (cut \/ (Prepared /\ ~AtRoot))

(* A method did result to the values; before is what parsed was.           *)
Done(result, before) ==
    /\ m_value' = Head(result.whole) /\ m_stack' = Tail(result.whole)
    /\ the_error' = (result.verdict = "corrupted")
    /\ parsed' = (result.verdict = "parsed" \/ before)
    /\ IF result.verdict = "corrupted" THEN Terminate ELSE Accept
    /\ UNCHANGED <<m_alloc, document, repeated, uses>>

NextValue == values < MaxValues /\ values' = values + 1

(* Null, String; Bool and numbers are, here, as Null.                        *)
Scalar ==
    /\ ReadScalar /\ NextValue /\ Prechecked
    /\ \E kind \in {"string", "null"} :
           Done(OnScalar(WholePrechecked, Value(kind, values', <<>>)),
                parsed /\ ~Prepared)

StartArray ==
    /\ ReadStart("array") /\ NextValue /\ Prechecked
    /\ Done(OnStartArray(WholePrechecked), parsed /\ ~Prepared)

EndArray ==
    /\ ReadEnd("array") /\ UNCHANGED <<values, cut>>
    /\ Done(OnEndArray(Whole), parsed)

StartObject ==
    /\ ReadStart("object") /\ NextValue /\ UNCHANGED cut
    /\ Done(OnStartObject(Whole), parsed)

Key ==
    /\ UNCHANGED <<values, cut>>
    /\ \E k \in Keys : ReadKey(k) /\ Done(OnKey(Whole, k), parsed)

EndObject ==
    /\ ReadEnd("object") /\ UNCHANGED <<values, cut>>
    /\ Done(OnEndObject(Whole), parsed)

(* Mutant: the allocator of the handler's construction is kept.             *)
Allocator_Kept(now) == m_alloc

(* &m_value->GetAllocator().                                                *)
Allocator(now) == now

(* Mutant: the values of the last text stay on the stack.                   *)
StackCleared_Kept == m_stack

StackCleared == <<>>

(* BaseHandler::prepare_for_reuse and Handler<Document>::reset.             *)
Prepare(now) ==
    /\ m_stack' = StackCleared
    /\ m_alloc' = Allocator(now)
    /\ document' = now
    /\ parsed' = FALSE /\ the_error' = FALSE
    /\ repeated' = FALSE /\ cut' = FALSE
    /\ values' = 0
    /\ uses < MaxReuses /\ uses' = uses + 1
    /\ NextText

(* A container's handler moves the Document away, with its allocator, puts  *)
(* a new one in its place and prepares the handler.                         *)
RenewAndPrepare == m_value' = NullValue /\ Prepare(document + 1)

(* A parent that goes on with the same Document.                            *)
PrepareForReuse == UNCHANGED m_value /\ Prepare(document)

(* An ObjectHandler gives a member that is parsed an object again without   *)
(* preparing it (staticjson.cpp:567).                                       *)
Again ==
    /\ phase = "complete" /\ uses < MaxReuses
    /\ NextText
    /\ repeated' = TRUE
    /\ values' = 0 /\ uses' = uses + 1
    /\ UNCHANGED <<m_stack, m_value, m_alloc, document, parsed, the_error, cut>>

Next == \/ Scalar \/ Key \/ StartArray \/ EndArray \/ StartObject \/ EndObject
        \/ RenewAndPrepare \/ PrepareForReuse \/ Again

Spec == Init /\ [][Next]_vars

-------------------------------------------------------------------------------
(* Nothing of what a handler held before gets into a text that it accepts:  *)
(* a broken-off text leaves nothing on the stack for the next one; what is  *)
(* put into the Document is allocated where the Document says, also after a *)
(* container has moved the first one away (reset); and a value in whose     *)
(* middle ObjectHandler::precheck prepared the handler, which forgets the   *)
(* open containers, is never accepted in part.  No other event of a         *)
(* well-formed text is refused (set_corrupted_dom).                         *)
NothingStale ==
    /\ TypeOK
    /\ AtRoot /\ phase # "failed" => m_stack = <<>>
    /\ phase # "ready" => m_alloc = document
    /\ phase = "complete" => parsed /\ ~cut
    /\ phase = "failed" <=> the_error
    /\ the_error => cut

(* The handler as its own parent sees it: see HandlerContract.  After it    *)
(* was prepared inside a text the events do not fit it, and are left out.   *)
AsPart ==
    IF cut THEN Fresh
    ELSE [open |-> Len(nest), parsed |-> parsed, error |-> the_error]

Promise == INSTANCE ContractedHandler WITH
    part <- AsPart, text <- IF cut THEN "ready" ELSE phase

(* A Document is a part like any other: every event is answered as          *)
(* BaseHandler's contract has it, although parsed is found out from what is *)
(* on the stack, and a repeated value may leave it set.                     *)
ContractKept == Promise!Spec

(* The containers that are open lie in Whole in their order, and the name   *)
(* of a member above the object it is for.                                  *)
Containers(s) == {i \in DOMAIN s : s[i].kind \in Kinds}

(* Where the j-th container lies.                                           *)
Nth(s, j) ==
    CHOOSE i \in Containers(s) : Cardinality(Containers(s) \cap 1..i) = j

NameAbove(s, i) ==
    IF i < Len(s) /\ s[i + 1].kind = "string" THEN s[i + 1].id ELSE NoKey

OpenIn(s) ==
    [j \in 1..Cardinality(Containers(s)) |->
         [value |-> s[Nth(s, j)], key |-> NameAbove(s, Nth(s, j))]]

Open == IF AtRoot \/ cut THEN <<>> ELSE OpenIn(Whole)

Built == IF phase = "complete" /\ ~cut THEN m_value ELSE NoValue

Tree == INSTANCE DomTree WITH open <- Open, whole <- Built

(* The DOM is the text's: every value in its place and order, under its     *)
(* name, although values wait on a stack beside keys and empty slots.       *)
ImplementsTree == Tree!Spec
===============================================================================
