----------------------------- MODULE HandlerOutput ----------------------------
(***************************************************************************)
(* What the handlers of HandlerTree produce: the events of write and the    *)
(* schema of generate_schema; and what validation by that schema means,     *)
(* which is JSON Schema's business and not StaticJSON's.                    *)
(***************************************************************************)
EXTENDS HandlerTree

Written(events, ok) == [events |-> events, ok |-> ok]

(* One write after the other, until one fails.                              *)
InTurn(writes) ==
    FoldLeft(LAMBDA done, next :
                 IF done.ok THEN Written(done.events \o next.events, next.ok) ELSE done,
             Written(<<>>, TRUE), writes)

Just(e, v) == Written(<<Event(e, v, 0)>>, TRUE)
End(e, n) == Written(<<Event(e, "", n)>>, TRUE)

InArray(writes) ==
    InTurn(<<Just("startArray", "")>> \o writes \o <<End("endArray", Len(writes))>>)

(* A member's key, then its value.                                          *)
Member(key, write) == InTurn(<<Just("key", key), write>>)

InObject(members) ==
    InTurn(<<Just("startObject", "")>> \o members \o <<End("endObject", Len(members))>>)

(* rapidjson's Value::Accept, for JSONHandler::write.                       *)
RECURSIVE WriteDom(_)
WriteDom(d) ==
    CASE d.kind = "array" ->
             InArray([i \in DOMAIN d.items |-> WriteDom(d.items[i].value)])
      [] d.kind = "object" ->
             InObject([i \in DOMAIN d.items |->
                           Member(d.items[i].key, WriteDom(d.items[i].value))])
      [] OTHER -> Just(d.kind, d.id)

(* Mutant: an enumerator without a name is left out.                        *)
WriteEnum_LeavesOut(value) == IF value \in Names THEN Just("string", value)
                              ELSE Written(<<>>, TRUE)

WriteEnum(value) == IF value \in Names THEN Just("string", value)
                    ELSE Written(<<>>, FALSE)

(* internals without IgnoreWrite.                                           *)
WrittenMembers(t) ==
    SelectSeq([i \in DOMAIN t.of |-> i], LAMBDA i : "IgnoreWrite" \notin t.flags[i])

(* write of a value.                                                        *)
RECURSIVE Write(_, _)
Write(t, value) ==
    CASE t.is \in {"int", "string"} -> Just(t.is, value)
      [] t.is = "enum" -> WriteEnum(value)
      [] t.is \in {"seq", "fixed"} ->
             InArray([i \in DOMAIN value |-> Write(t.of[1], value[i])])
      [] t.is = "tuple" -> InArray([i \in DOMAIN value |-> Write(t.of[i], value[i])])
      [] t.is = "map" ->
             InObject([i \in DOMAIN value |->
                           Member(value[i].key, Write(t.of[1], value[i].value))])
      [] t.is = "object" ->
             LET written == WrittenMembers(t)
             IN InObject([j \in DOMAIN written |->
                    Member(t.names[written[j]],
                           Write(t.of[written[j]], value[written[j]]))])
      [] t.is = "pointer" ->
             IF value = <<>> THEN Just("null", "") ELSE Write(t.of[1], Head(value))
      [] t.is = "conversion" -> Write(t.of[1], value)
      [] t.is = "document" -> WriteDom(value)

(* What rapidjson's Writer makes of the events is a JSON text: one value,   *)
(* every name followed by its value, every End called with the number of    *)
(* values there are.                                                        *)
Level(kind, size, named) == [kind |-> kind, size |-> size, named |-> named]
Outline(levels, whole, ok) == [levels |-> levels, whole |-> whole, ok |-> ok]

(* The outline once a value is complete, and levels are around it.          *)
Counted(levels) ==
    IF levels = <<>> THEN Outline(<<>>, TRUE, TRUE)
    ELSE Outline([levels EXCEPT ![Len(levels)] = Level(@.kind, @.size + 1, FALSE)],
                 FALSE, TRUE)

Outlined(o, ev) ==
    LET inner == Last(o.levels)
        atRoot == o.levels = <<>>
        value == ~o.whole /\ (atRoot \/ inner.kind = "Array" \/ inner.named)
        kind == IF ev.e \in {"startArray", "endArray"} THEN "Array" ELSE "Object"
    IN CASE ev.e \in {"startArray", "startObject"} ->
                Outline(Append(o.levels, Level(kind, 0, FALSE)), FALSE, o.ok /\ value)
         [] ev.e = "key" /\ ~atRoot ->
                Outline([o.levels EXCEPT ![Len(o.levels)].named = TRUE], FALSE,
                        o.ok /\ inner.kind = "Object" /\ ~inner.named)
         [] ev.e \in {"endArray", "endObject"} /\ ~atRoot ->
                [Counted(Front(o.levels)) EXCEPT !.ok =
                    o.ok /\ inner = Level(kind, ev.n, FALSE)]
         [] ev.e \in {"key", "endArray", "endObject"} /\ atRoot ->
                [o EXCEPT !.ok = FALSE]
         [] OTHER -> [Counted(o.levels) EXCEPT !.ok = o.ok /\ value]

IsText(events) ==
    LET o == FoldLeft(Outlined, Outline(<<>>, FALSE, TRUE), events)
    IN o.whole /\ o.ok

-------------------------------------------------------------------------------
(* The JSON schema: of holds the schemas of items, properties or anyOf, and *)
(* the last of an object's, if it has one more than names, is that of       *)
(* additionalProperties, "no" says there are none.                          *)
Schema(type, of, names, required, additional) ==
    [type |-> type, of |-> of, names |-> names, required |-> required,
     additional |-> additional, enum |-> {}, least |-> 0, most |-> 0]

Plain(type) == Schema(type, <<>>, <<>>, {}, "any")

(* required.                                                                *)
Asked(t) == {t.names[i] : i \in {j \in DOMAIN t.of : "Optional" \notin t.flags[j]}}

(* Mutant: as of a sequence of any length.                                  *)
FixedSchema_AnyLength(schema, size) == schema

(* minItems and maxItems.                                                   *)
FixedSchema(schema, size) == [schema EXCEPT !.least = size, !.most = size]

RECURSIVE SchemaOf(_)
SchemaOf(t) ==
    LET parts == [i \in DOMAIN t.of |-> SchemaOf(t.of[i])]
    IN CASE t.is = "int" -> Plain("int")
         [] t.is = "string" -> Plain("string")
         [] t.is = "enum" -> [Plain("string") EXCEPT !.enum = Names]
         [] t.is = "seq" -> Schema("array", parts, <<>>, {}, "any")
         [] t.is = "fixed" ->
                FixedSchema(Schema("array", parts, <<>>, {}, "any"), t.size)
         [] t.is = "tuple" -> Schema("tuple", parts, <<>>, {}, "any")
         [] t.is = "map" -> Schema("object", parts, <<>>, {}, "schema")
         [] t.is = "object" ->
                Schema("object", parts, t.names, Asked(t),
                       IF "DisallowUnknownKey" \in t.own THEN "no" ELSE "any")
         [] t.is = "pointer" ->
                Schema("anyOf", <<Plain("null")>> \o parts, <<>>, {}, "any")
         [] t.is = "conversion" -> Head(parts)
         [] t.is = "document" -> Plain("any")

(* d, a DOM as in DomStack, is valid.  A "tuple" is an array whose items    *)
(* have a schema each; those beyond the last may be anything, and there may *)
(* be fewer.                                                                *)
RECURSIVE Valid(_, _)

ValidMember(s, item) ==
    LET named == {i \in DOMAIN s.names : s.names[i] = item.key}
    IN IF named # {} THEN \A i \in named : Valid(s.of[i], item.value)
       ELSE \/ s.additional = "any"
            \/ s.additional = "schema" /\ Valid(Last(s.of), item.value)

Valid(s, d) ==
    CASE s.type = "any" -> TRUE
      [] s.type = "anyOf" -> \E i \in DOMAIN s.of : Valid(s.of[i], d)
      [] s.type \in {"int", "string", "null"} ->
             d.kind = s.type /\ (s.enum # {} => d.id \in s.enum)
      [] s.type = "array" ->
             /\ d.kind = "array"
             /\ s.most > 0 => Len(d.items) \in s.least..s.most
             /\ \A i \in DOMAIN d.items : Valid(Head(s.of), d.items[i].value)
      [] s.type = "tuple" ->
             /\ d.kind = "array"
             /\ \A i \in DOMAIN d.items \cap DOMAIN s.of : Valid(s.of[i], d.items[i].value)
      [] s.type = "object" ->
             /\ d.kind = "object"
             /\ s.required \subseteq {d.items[i].key : i \in DOMAIN d.items}
             /\ \A i \in DOMAIN d.items : ValidMember(s, d.items[i])
===============================================================================
