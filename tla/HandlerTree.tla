------------------------------ MODULE HandlerTree -----------------------------
(***************************************************************************)
(* The handlers put together, each with its data, for types that nest in    *)
(* one another: what they read (every SAX method), prepare_for_reuse,       *)
(* reap_error, write and generate_schema.  The methods are deterministic,   *)
(* so a handler is a value and Step(t, h, ev) is what the handler h of type *)
(* t becomes when ev is called.  The limits of GlobalConfig are unset and   *)
(* the text is given once.                                                  *)
(***************************************************************************)
EXTENDS Integers, Sequences, SequencesExt

CONSTANTS
    Names,       \* the names in an enum's mapping
    Refused      \* the values that Converter::from_shadow refuses

Dom == INSTANCE DomStack WITH NoKey <- ""

(* is: the handler; of: the types of its parts; names and flags: an         *)
(* object's members; own: the object's flags, or "unique" of a map; size:   *)
(* of a fixed array.                                                        *)
Type(is, of, names, flags, own, size) ==
    [is |-> is, of |-> of, names |-> names, flags |-> flags, own |-> own,
     size |-> size]

(* e: the method; v: its argument; n: the size an End is called with.       *)
Event(e, v, n) == [e |-> e, v |-> v, n |-> n]

-------------------------------------------------------------------------------
(* A handler: its data, is_parsed, the_error, what its last method returned,*)
(* the handlers of its parts, depth, the part it is at (the object's        *)
(* current, the count or index of an array or tuple, 1 if a pointer has a   *)
(* handler) and the key read last.                                          *)
RECURSIVE New(_)
New(t) ==
    [value |->
        CASE t.is \in {"int", "string", "enum"} -> "unset"
          [] t.is \in {"seq", "map", "pointer"} -> <<>>
          [] t.is = "fixed" -> [i \in 1..t.size |-> New(t.of[1]).value]
          [] t.is = "document" -> <<Dom!NullValue>>
          [] t.is \in {"object", "tuple"} -> <<>>
          [] t.is = "conversion" -> New(t.of[1]).value,
     parsed |-> FALSE, error |-> <<>>, ok |-> TRUE,
     parts |-> [i \in DOMAIN t.of |-> New(t.of[i])],
     depth |-> 0, at |-> 0, key |-> ""]

(* The C++ value; an object's and a tuple's are its parts'.                 *)
RECURSIVE ValueOf(_, _)
ValueOf(t, h) ==
    CASE t.is \in {"object", "tuple"} ->
             [i \in DOMAIN t.of |-> ValueOf(t.of[i], h.parts[i])]
      [] t.is = "pointer" ->
             IF h.value = <<>> THEN <<>> ELSE <<ValueOf(t.of[1], h.parts[1])>>
      [] t.is = "document" -> Head(h.value)
      [] OTHER -> h.value

(* BaseHandler::prepare_for_reuse and each type's reset.                    *)
RECURSIVE Prepared(_, _)
Prepared(t, h) ==
    LET renewed == [h EXCEPT !.parsed = FALSE, !.error = <<>>, !.ok = TRUE,
                             !.depth = 0, !.at = 0, !.key = ""]
    IN CASE t.is \in {"seq", "fixed", "map", "conversion"} ->
                [renewed EXCEPT !.parts = New(t).parts]
         [] t.is \in {"object", "tuple"} ->
                [renewed EXCEPT !.parts =
                     [i \in DOMAIN t.of |-> Prepared(t.of[i], h.parts[i])]]
         [] t.is = "pointer" -> New(t)
         [] t.is = "document" -> [renewed EXCEPT !.value = <<Head(@)>>]
         [] OTHER -> renewed

Error(type, index, key) == <<[type |-> type, index |-> index, key |-> key]>>
Fail(h, error) == [h EXCEPT !.ok = FALSE, !.error = error]
Deeper(h) == [h EXCEPT !.depth = @ + 1]

Shallower(h) == [h EXCEPT !.depth = @ - 1]
Parsed(h) == [h EXCEPT !.parsed = TRUE]
Mismatch(h) == Fail(h, Error("TYPE_MISMATCH", 0, ""))

RECURSIVE Step(_, _, _)

(* A method of part i's handler.                                            *)
Fed(t, h, i, ev) == [h EXCEPT !.parts[i] = Step(t.of[i], @, ev)]

(* Integers, strings and enums: one method of theirs does not mismatch.     *)
StepScalar(t, h, ev) ==
    CASE ev.e = "int" /\ t.is = "int" -> [Parsed(h) EXCEPT !.value = ev.v]
      [] ev.e = "string" /\ (t.is = "string" \/ (t.is = "enum" /\ ev.v \in Names)) ->
             [Parsed(h) EXCEPT !.value = ev.v]
      [] ev.e = "string" /\ t.is = "enum" /\ ev.v \notin Names ->
             Fail(h, Error("INVALID_ENUM", 0, ""))
      [] OTHER -> Mismatch(h)

(* Mutant: the index of an element error counts from the element's end.     *)
ElementIndex_Next(t, h) == (IF t.is = "seq" THEN Len(h.value) ELSE h.at) + 1

ElementIndex(t, h) == IF t.is = "seq" THEN Len(h.value) ELSE h.at

ElementError(t, h) ==
    IF t.is = "map" THEN Error("OBJECT_MEMBER", 0, h.key)
    ELSE Error("ARRAY_ELEMENT", ElementIndex(t, h), "")

(* postcheck's move of a parsed element into the container.                 *)
Stored(t, h, element) ==
    LET renewed == [h EXCEPT !.parts = New(t).parts]
    IN CASE t.is = "seq" -> [renewed EXCEPT !.value = Append(@, element)]
         [] t.is = "fixed" /\ h.at < t.size ->
                [renewed EXCEPT !.value[h.at + 1] = element, !.at = @ + 1]
         [] t.is = "fixed" /\ h.at >= t.size ->
                Fail(h, Error("ARRAY_LENGTH_MISMATCH", 0, ""))
         [] t.is = "map" /\ "unique" \in t.own
                         /\ \E i \in DOMAIN h.value : h.value[i].key = h.key ->
                renewed
         [] OTHER ->
                [renewed EXCEPT !.value =
                     Append(@, [key |-> h.key, value |-> element])]

InElement(t, h, ev) ==
    LET fed == Fed(t, h, 1, ev)
        element == fed.parts[1]
    IN CASE ~element.ok -> Fail(fed, ElementError(t, h))
         [] element.ok /\ element.parsed ->
                Stored(t, fed, ValueOf(t.of[1], element))
         [] OTHER -> fed

(* ArrayHandler, Handler<std::array> and MapHandler; open and close are the *)
(* events the container itself is made of.                                  *)
StepContainer(t, h, ev, open, close) ==
    CASE ev.e = open ->
             IF h.depth > 0 THEN InElement(t, Deeper(h), ev)
             ELSE [Deeper(h) EXCEPT !.value = IF t.is = "fixed" THEN @ ELSE <<>>]
      [] ev.e = close ->
             IF h.depth > 1 THEN InElement(t, Shallower(h), ev)
             ELSE IF t.is = "fixed" /\ h.at # t.size
             THEN Fail(Shallower(h), Error("ARRAY_LENGTH_MISMATCH", 0, ""))
             ELSE Parsed(Shallower(h))
      [] t.is = "map" /\ ev.e = "key" /\ h.depth <= 1 -> [h EXCEPT !.key = ev.v]
      [] OTHER -> IF h.depth <= 0 THEN Mismatch(h) ELSE InElement(t, h, ev)

(* TupleHander.                                                             *)
InPart(t, h, ev) ==
    LET fed == Fed(t, h, h.at + 1, ev)
        part == fed.parts[h.at + 1]
    IN CASE ~part.ok -> Fail(fed, Error("ARRAY_ELEMENT", h.at, ""))
         [] part.ok /\ part.parsed -> [fed EXCEPT !.at = @ + 1]
         [] OTHER -> fed

StepTuple(t, h, ev) ==
    LET moved == CASE ev.e = "startArray" -> Deeper(h)
                   [] ev.e = "endArray" -> Shallower(h)
                   [] OTHER -> h
    IN CASE ev.e = "startArray" /\ moved.depth <= 1 -> moved
         [] ev.e = "endArray" /\ moved.depth <= 0 -> Parsed(moved)
         [] OTHER -> IF h.at >= Len(t.of) THEN moved ELSE InPart(t, moved, ev)

(* PointerHandler and Handler<optional>.                                    *)
StepPointer(t, h, ev) ==
    LET initialized == IF h.at = 1 THEN h
                       ELSE [h EXCEPT !.parts = New(t).parts, !.at = 1,
                                      !.value = <<"object">>]
        moved == CASE ev.e \in {"startArray", "startObject"} -> Deeper(initialized)
                   [] ev.e \in {"endArray", "endObject"} -> Shallower(initialized)
                   [] OTHER -> initialized
        fed == Fed(t, moved, 1, ev)
    IN CASE ev.e = "null" /\ h.depth = 0 -> [Parsed(h) EXCEPT !.value = <<>>]
         [] ~fed.parts[1].ok -> [fed EXCEPT !.ok = FALSE]
         [] ev.e = "startObject" -> fed
         [] OTHER -> [fed EXCEPT !.parsed = fed.parts[1].parsed]

(* ConversionHandler.                                                       *)
StepConversion(t, h, ev) ==
    LET fed == Fed(t, h, 1, ev)
        shadow == ValueOf(t.of[1], fed.parts[1])
    IN CASE ~fed.parts[1].ok -> [fed EXCEPT !.ok = FALSE]
         [] fed.parts[1].ok /\ ~fed.parts[1].parsed -> fed
         [] OTHER -> IF shadow \in Refused
                     THEN Fail(Parsed(fed), Error("CUSTOM", 0, ""))
                     ELSE [Parsed(fed) EXCEPT !.value = shadow]

(* ObjectHandler: precheck and postcheck, each given what follows it.       *)
InMember(t, h, ev) ==
    LET fed == Fed(t, h, h.at, ev)
    IN IF h.at = 0 THEN h
       ELSE IF fed.parts[h.at].ok THEN fed
       ELSE Fail(fed, Error("OBJECT_MEMBER", 0, h.key))

PrecheckedMember(t, h, ev) ==
    CASE h.depth <= 0 -> Mismatch(h)
      [] h.depth > 0 /\ (h.at = 0 \/ ~h.parts[h.at].parsed) -> InMember(t, h, ev)
      [] OTHER ->
             IF "AllowDuplicateKey" \in t.own
             THEN InMember(t, [h EXCEPT !.parts[h.at] = Prepared(t.of[h.at], @)], ev)
             ELSE Fail(h, Error("DUPLICATE_KEYS", 0, h.key))

LookedUp(t, h, key) ==
    LET found == {i \in DOMAIN t.names : t.names[i] = key}
        named == [h EXCEPT !.key = key, !.at = 0]
    IN CASE found = {} /\ "DisallowUnknownKey" \in t.own ->
                Fail(named, Error("UNKNOWN_FIELD", 0, key))
         [] \E i \in found : "IgnoreRead" \notin t.flags[i] ->
                [named EXCEPT !.at = CHOOSE i \in found : TRUE]
         [] OTHER -> named

(* Mutant: an object whose members are all there is not parsed.             *)
Concluded_Unparsed(t, h) ==
    IF \E i \in DOMAIN t.of : "Optional" \notin t.flags[i] /\ ~h.parts[i].parsed
    THEN Fail(h, Error("MISSING_REQUIRED", 0, ""))
    ELSE h

Concluded(t, h) ==
    IF \E i \in DOMAIN t.of : "Optional" \notin t.flags[i] /\ ~h.parts[i].parsed
    THEN Fail(h, Error("MISSING_REQUIRED", 0, ""))
    ELSE Parsed(h)

StepObject(t, h, ev) ==
    CASE ev.e = "key" ->
             IF h.depth <= 0 THEN Fail(h, Error("CORRUPTED_DOM", 0, ""))
             ELSE IF h.depth = 1 THEN LookedUp(t, h, ev.v)
             ELSE InMember(t, h, ev)
      [] ev.e = "startObject" ->
             IF h.depth > 0 THEN InMember(t, Deeper(h), ev) ELSE Deeper(h)
      [] ev.e = "endObject" ->
             IF h.depth > 1 THEN InMember(t, Shallower(h), ev)
             ELSE Concluded(t, Shallower(h))
      [] OTHER -> PrecheckedMember(t, h, ev)

(* JSONHandler.                                                             *)
DomResult(s, ev) ==
    CASE ev.e = "startArray" -> Dom!OnStartArray(s)
      [] ev.e = "endArray" -> Dom!OnEndArray(s)
      [] ev.e = "startObject" -> Dom!OnStartObject(s)
      [] ev.e = "endObject" -> Dom!OnEndObject(s)
      [] ev.e = "key" -> Dom!OnKey(s, ev.v)
      [] OTHER -> Dom!OnScalar(s, Dom!Value(ev.e, ev.v, <<>>))

StepDocument(h, ev) ==
    LET result == DomResult(h.value, ev)
        taken == [h EXCEPT !.value = result.whole]
    IN CASE result.verdict = "corrupted" ->
                Fail(taken, Error("CORRUPTED_DOM", 0, ""))
         [] result.verdict = "parsed" -> Parsed(taken)
         [] OTHER -> taken

Step(t, h, ev) ==
    CASE t.is \in {"int", "string", "enum"} -> StepScalar(t, h, ev)
      [] t.is \in {"seq", "fixed"} ->
             StepContainer(t, h, ev, "startArray", "endArray")
      [] t.is = "map" -> StepContainer(t, h, ev, "startObject", "endObject")
      [] t.is = "tuple" -> StepTuple(t, h, ev)
      [] t.is = "pointer" -> StepPointer(t, h, ev)
      [] t.is = "conversion" -> StepConversion(t, h, ev)
      [] t.is = "object" -> StepObject(t, h, ev)
      [] t.is = "document" -> StepDocument(h, ev)

Called(t, h, ev) == IF h.ok THEN Step(t, h, ev) ELSE h

Read(t, events) ==
    FoldLeft(LAMBDA h, ev : Called(t, h, ev), New(t), events)

-------------------------------------------------------------------------------
(* reap_error: the errors, the handler's own first.                         *)
RECURSIVE Reaped(_, _)
Reaped(t, h) ==
    LET parts == [i \in DOMAIN t.of |-> Reaped(t.of[i], h.parts[i])]
    IN CASE t.is = "pointer" -> IF h.at = 1 THEN parts[1] ELSE <<>>
         [] t.is = "conversion" -> IF h.error # <<>> THEN h.error ELSE parts[1]
         [] t.is \notin {"pointer", "conversion"} /\ h.error = <<>> -> <<>>
         [] t.is \in {"seq", "fixed", "map"} /\ h.error # <<>> -> h.error \o parts[1]
         [] t.is = "object" /\ h.error # <<>> ->
                h.error \o (IF h.at = 0 THEN <<>> ELSE parts[h.at])
         [] t.is = "tuple" /\ h.error # <<>> -> h.error \o FlattenSeq(parts)
         [] OTHER -> h.error
===============================================================================
