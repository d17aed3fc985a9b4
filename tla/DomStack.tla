------------------------------- MODULE DomStack -------------------------------
(***************************************************************************)
(* What JSONHandler's methods do to *m_value and m_stack                    *)
(* (staticjson.cpp:845-993).  m_stack holds what hangs together with        *)
(* *m_value but has not been moved into it: for an open array the slot of   *)
(* its next element, for an open object, between a key and the end of its   *)
(* value, the key and the slot of the value; a container fills the slot     *)
(* where it starts.  The operators take both as one sequence, *m_value      *)
(* first, that is never empty.                                              *)
(***************************************************************************)
EXTENDS Sequences, SequencesExt

CONSTANT NoKey    \* an element of an array has no key

(* id: a key's name, or what tells other scalars apart.                     *)
Value(kind, id, items) == [kind |-> kind, id |-> id, items |-> items]
NullValue == Value("null", 0, <<>>)
Empty(kind) == Value(kind, 0, <<>>)
Item(key, value) == [key |-> key, value |-> value]
Holds(value, item) == [value EXCEPT !.items = Append(@, item)]

Top(s) == Last(s)
SetTop(s, value) == Append(Front(s), value)
Push(s) == Append(s, NullValue)

(* stack_pop leaves *m_value alone.                                         *)
Pop(s) == IF Len(s) = 1 THEN s ELSE Front(s)

(* A method's verdict: "parsed" if the root is complete, "open" if not,     *)
(* "corrupted" if it calls set_corrupted_dom.                               *)
Result(s, verdict) == [whole |-> s, verdict |-> verdict]

NextSlot(s) == Push(s)

(* Mutant: the member's key stays on the stack.                             *)
KeyRemoved_Kept(s) == s

KeyRemoved(s) == Pop(s)

(* postprocess, the value just completed on top: it moves into the array,   *)
(* or into the object below its key.                                        *)
Postprocess(s) ==
    LET value == Top(s)
        rest == Pop(s)
        below == KeyRemoved(rest)
    IN CASE Len(s) = 1 -> Result(s, "parsed")
         [] Len(s) > 1 /\ Top(rest).kind = "array" ->
                Result(NextSlot(SetTop(rest, Holds(Top(rest), Item(NoKey, value)))),
                       "open")
         [] Len(s) > 1 /\ Top(rest).kind = "string" ->
                IF Top(below).kind = "object"
                THEN Result(SetTop(below, Holds(Top(below), Item(Top(rest).id, value))),
                            "open")
                ELSE Result(below, "corrupted")
         [] OTHER -> Result(rest, "corrupted")

OnScalar(s, value) == Postprocess(SetTop(s, value))

OnKey(s, name) ==
    IF Top(s).kind = "object"
    THEN Result(Push(SetTop(Push(s), Value("string", name, <<>>))), "open")
    ELSE Result(s, "corrupted")

OnStartArray(s) == Result(Push(SetTop(s, Empty("array"))), "open")

OnStartObject(s) == Result(SetTop(s, Empty("object")), "open")

LastSlot(s) == Pop(s)

OnEndArray(s) ==
    IF Top(LastSlot(s)).kind = "array" THEN Postprocess(LastSlot(s))
    ELSE Result(LastSlot(s), "corrupted")

EndsObject(s) == Top(s).kind = "object"

OnEndObject(s) ==
    IF EndsObject(s) THEN Postprocess(s) ELSE Result(s, "corrupted")
===============================================================================
