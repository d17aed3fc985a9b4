------------------------------- MODULE DomTree --------------------------------
(***************************************************************************)
(* What a builder of JSON values promises: the values of a text come to be  *)
(* in the order of the text, each inside the container it was written in    *)
(* and under the name it was given; when the outermost one is complete it   *)
(* is the whole text's value.                                               *)
(***************************************************************************)
EXTENDS Naturals, Sequences, SequencesExt

CONSTANTS Keys, NoKey, Scalars, NoValue

VARIABLES
    open,    \* the containers begun and not ended, outermost first
    whole    \* the value of the text, or NoValue

treeVars == <<open, whole>>

Container(kind, items) == [kind |-> kind, id |-> 0, items |-> items]
Item(key, value) == [key |-> key, value |-> value]
Frame(value, key) == [value |-> value, key |-> key]

Init == open = <<>> /\ whole = NoValue

WithItem(frame, value) ==
    Frame(Container(frame.value.kind,
                    Append(frame.value.items, Item(frame.key, value))), NoKey)

(* The value takes its place, and the containers in rest are the open ones. *)
Place(value, rest) ==
    IF rest = <<>> THEN open' = <<>> /\ whole' = value
    ELSE open' = Append(Front(rest), WithItem(Last(rest), value)) /\ UNCHANGED whole

Expected ==
    open # <<>> => Last(open).value.kind = "array" \/ Last(open).key # NoKey

Scalar == Expected /\ \E value \in Scalars : Place(value, open)

Begin ==
    /\ Expected
    /\ \E kind \in {"array", "object"} :
           open' = Append(open, Frame(Container(kind, <<>>), NoKey))
    /\ whole' = NoValue

Name ==
    /\ open # <<>> /\ Last(open).value.kind = "object" /\ Last(open).key = NoKey
    /\ \E k \in Keys :
           open' = Append(Front(open), Frame(Last(open).value, k))
    /\ UNCHANGED whole

End ==
    /\ open # <<>> /\ Last(open).key = NoKey
    /\ Place(Last(open).value, Front(open))

Renew == open' = <<>> /\ whole' = NoValue

Next == Scalar \/ Begin \/ Name \/ End \/ Renew

Spec == Init /\ [][Next]_treeVars
===============================================================================
