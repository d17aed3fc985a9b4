------------------------------ MODULE TreeReading -----------------------------
(***************************************************************************)
(* One text is offered, event by event, to a handler of each of several     *)
(* types at once; a handler that has returned false is called no more.      *)
(***************************************************************************)
EXTENDS JsonReader, HandlerOutput

CONSTANTS
    Types,       \* a sequence of types
    Scalars,     \* the scalar events that may occur
    MaxValues    \* bound: values in the text

ASSUME TreeAssumption == MaxValues \in Nat /\ Keys \subseteq STRING

VARIABLES
    handlers,    \* the handler of each type
    text,        \* the events so far
    before       \* history: nest before the last event

vars == <<readerVars, handlers, text, before>>

TypeOK ==
    /\ ReaderTypeOK
    /\ \A i \in DOMAIN Types :
           /\ handlers[i].parsed \in BOOLEAN /\ handlers[i].ok \in BOOLEAN
           /\ handlers[i].depth \in 0..MaxNesting
           /\ handlers[i].at \in 0..Max({Len(Types[i].of), Types[i].size})
    /\ Len(text) <= 4 * MaxValues

Init ==
    /\ ReaderInit /\ before = <<>>
    /\ text = <<>>
    /\ handlers = [i \in DOMAIN Types |-> New(Types[i])]

Offer(ev) ==
    /\ \E i \in DOMAIN Types : handlers[i].ok
    /\ handlers' = [i \in DOMAIN Types |-> Called(Types[i], handlers[i], ev)]
    /\ text' = Append(text, ev)
    /\ before' = nest
    /\ Accept

Begun == Cardinality({i \in DOMAIN text :
                          text[i].e \notin {"key", "endArray", "endObject"}})

NextValue == Begun < MaxValues

Scalar == \E s \in Scalars : ReadScalar /\ NextValue /\ Offer(s)
StartArray == ReadStart("array") /\ NextValue /\ Offer(Event("startArray", "", 0))
StartObject == ReadStart("object") /\ NextValue /\ Offer(Event("startObject", "", 0))
Key == \E k \in Keys : ReadKey(k) /\ NextValue /\ Offer(Event("key", k, 0))
EndArray == ReadEnd("array") /\ Offer(Event("endArray", "", Size(Last(nest))))
EndObject == ReadEnd("object") /\ Offer(Event("endObject", "", Size(Last(nest))))

Next == Scalar \/ StartArray \/ StartObject \/ Key \/ EndArray \/ EndObject

Spec == Init /\ [][Next]_vars

-------------------------------------------------------------------------------
RECURSIVE Uses(_, _, _)

(* t or a type in it is of the kind, or has the flag for itself or a member. *)
Uses(t, kind, flag) ==
    \/ t.is = kind \/ flag \in t.own
    \/ \E i \in DOMAIN t.flags : flag \in t.flags[i]
    \/ \E i \in DOMAIN t.of : Uses(t.of[i], kind, flag)

Accepted(i) == phase = "complete" /\ handlers[i].ok

ADocument == Type("document", <<>>, <<>>, <<>>, {}, 0)

(* The text as a DOM.                                                       *)
TextDom == Head(Read(ADocument, text).value)

RECURSIVE Repeats(_)
Repeats(d) ==
    \/ \E i, j \in DOMAIN d.items :
           i < j /\ d.kind = "object" /\ d.items[i].key = d.items[j].key
    \/ \E i \in DOMAIN d.items : Repeats(d.items[i].value)

(* The handlers of all types keep the contract that the composite ones      *)
(* count on (HandlerContract): parsed as soon as the value is complete and  *)
(* not before.  A tuple that is not given an array never is.                *)
TreeKeepsContract ==
    /\ TypeOK
    /\ \A i \in DOMAIN Types :
           handlers[i].ok =>
               /\ phase = "complete" /\ ~Uses(Types[i], "tuple", "")
                      => handlers[i].parsed
               /\ phase = "reading" => ~handlers[i].parsed

(* Where in the text the last event was: a key or an index for each open    *)
(* container, but for an object between two members.                        *)
Place(frame) == [key |-> frame.key,
                 index |-> IF frame.kind = "array" THEN Size(frame) ELSE 0]
Path ==
    LET placed == IF before # <<>> /\ Last(before).kind = "object"
                                   /\ Last(before).key = NoKey
                  THEN Front(before) ELSE before
    IN [i \in DOMAIN placed |-> Place(placed[i])]

Places(errors) ==
    LET steps == SelectSeq(errors,
                     LAMBDA e : e.type \in {"ARRAY_ELEMENT", "OBJECT_MEMBER"})
    IN [i \in DOMAIN steps |-> [key |-> steps[i].key, index |-> steps[i].index]]

(* The traceback of a rejection leads from the root of the text to the      *)
(* value at hand, level by level, and a type that does not fit is reported  *)
(* of that very value, whatever the levels are (of an outer one if          *)
(* ObjectHandler::precheck prepared a handler in the middle of a value).    *)
TracebackNamesPlace ==
    [][\A i \in DOMAIN Types :
           (handlers[i].ok /\ ~handlers'[i].ok
               /\ ~Uses(Types[i], "tuple", "")) =>
                  LET errors == Reaped(Types[i], handlers'[i])
                  IN /\ errors # <<>>
                     /\ IsPrefix(Places(errors), Path')
                     /\ (Last(errors).type \in {"TYPE_MISMATCH", "INVALID_ENUM"}
                           /\ ~Uses(Types[i], "", "AllowDuplicateKey")) =>
                            Places(errors) = Path']_vars

(* Whether a value of Types[i] comes back from its written form.            *)
ReadAgain(i, value, written) ==
    LET again == Read(Types[i], written.events) IN
    IF written.ok
    THEN /\ IsText(written.events)
         /\ again.ok /\ again.parsed /\ ValueOf(Types[i], again) = value
    ELSE ~IsText(written.events)

(* Whether a DOM repeats the events of the written form.                    *)
RepeatedByDom(written) ==
    LET dom == Read(ADocument, written.events) IN
    written.ok => /\ dom.ok /\ dom.parsed /\ Len(dom.value) = 1
                  /\ WriteDom(Head(dom.value)) = written

(* What write makes of a value that was read is a JSON text, and is read as *)
(* the same value, unless members are not written; what it cannot write to  *)
(* the end is not a text, although the string serialisers return it.  A     *)
(* value goes through a DOM as it goes through a text: JSONHandler takes    *)
(* every write to the end and its own write repeats the very events         *)
(* (read_value; write_value is Accept, which gives them to the handler).    *)
RoundTrip ==
    \A i \in DOMAIN Types :
        Accepted(i) =>
            LET value == ValueOf(Types[i], handlers[i])
                written == Write(Types[i], value)
            IN /\ Uses(Types[i], "", "IgnoreWrite") \/ ReadAgain(i, value, written)
               /\ RepeatedByDom(written)

(* The schema rejects what the reader rejects, but for repeated keys,       *)
(* refusing conversions and members that are required and ignored.          *)
ValidIsAccepted ==
    phase = "complete" /\ ~Repeats(TextDom) =>
        \A i \in DOMAIN Types :
            (Valid(SchemaOf(Types[i]), TextDom)
                /\ ~Uses(Types[i], "conversion", "IgnoreRead")) => Accepted(i)

(* And it accepts what the reader accepts, but for tuples, which read other *)
(* values than arrays, and members that are ignored.                        *)
AcceptedIsValid ==
    \A i \in DOMAIN Types :
        (Accepted(i) /\ ~Uses(Types[i], "tuple", "IgnoreRead")) =>
            Valid(SchemaOf(Types[i]), TextDom)

(* The exported schema and the reader say the same of a text, with those    *)
(* exceptions.                                                              *)
SchemaAgrees == ValidIsAccepted /\ AcceptedIsValid
===============================================================================
