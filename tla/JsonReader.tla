------------------------------ MODULE JsonReader ------------------------------
(***************************************************************************)
(* The event source of a parse, as StaticJSON sees it: rapidjson's Reader   *)
(* walks one JSON text and calls a handler's methods in document order.     *)
(* Only the shape of the text is kept: which containers are open, what they *)
(* already hold and which key waits for its value.  nest is that stack,     *)
(* outermost container first.  A handler that returns false ends the parse  *)
(* (staticjson.cpp:725, rapidjson's kParseErrorTermination).                *)
(***************************************************************************)
EXTENDS Naturals, Sequences, SequencesExt

CONSTANTS
    Keys,        \* the member names that may occur in a text
    NoKey,       \* no key is pending
    MaxNesting,  \* bound: containers open at once
    MaxWidth     \* bound: values held by one container

ASSUME NoKeyAssumption == NoKey \notin Keys
ASSUME ReaderBoundsAssumption == MaxNesting \in Nat /\ MaxWidth \in Nat

VARIABLES
    nest,        \* the open containers, outermost first
    phase        \* how far the reader is with the text at hand

readerVars == <<nest, phase>>

Kinds == {"array", "object"}
Phases == {"ready", "reading", "complete", "failed"}

(* key: in an object, the name read last, until its value is complete.      *)
Frame == [kind: Kinds, scalars: Nat, containers: Nat, key: Keys \cup {NoKey}]

NewFrame(kind) == [kind |-> kind, scalars |-> 0, containers |-> 0, key |-> NoKey]

(* The number of values a container holds: the argument of EndArray and     *)
(* EndObject.                                                               *)
Size(frame) == frame.scalars + frame.containers

ReaderTypeOK == nest \in Seq(Frame) /\ phase \in Phases

ReaderInit == nest = <<>> /\ phase = "ready"

-------------------------------------------------------------------------------
Active == phase = "reading" \/ (phase = "ready" /\ nest = <<>>)

AtRoot == nest = <<>>

ValueExpected ==
    Active /\ (~AtRoot => Last(nest).kind = "array" \/ Last(nest).key # NoKey)

KeyExpected ==
    Active /\ ~AtRoot /\ Last(nest).kind = "object" /\ Last(nest).key = NoKey

HasRoom == ~AtRoot => Size(Last(nest)) < MaxWidth

(* A value is complete: the container around it counts it.                  *)
AfterScalar(frame) ==
    [kind |-> frame.kind, scalars |-> frame.scalars + 1,
     containers |-> frame.containers, key |-> NoKey]

AfterContainer(frame) ==
    [kind |-> frame.kind, scalars |-> frame.scalars,
     containers |-> frame.containers + 1, key |-> NoKey]

WithScalar(s) ==
    IF s = <<>> THEN s ELSE [s EXCEPT ![Len(s)] = AfterScalar(@)]

WithContainer(s) ==
    IF s = <<>> THEN s ELSE [s EXCEPT ![Len(s)] = AfterContainer(@)]

WithKey(frame, k) == [frame EXCEPT !.key = k]

(* Null, Bool, Int, Uint, Int64, Uint64, Double and String.                 *)
ReadScalar == ValueExpected /\ HasRoom /\ nest' = WithScalar(nest)

ReadStart(kind) ==
    /\ ValueExpected /\ HasRoom /\ Len(nest) < MaxNesting
    /\ nest' = Append(nest, NewFrame(kind))

ReadKey(k) ==
    /\ KeyExpected /\ HasRoom
    /\ nest' = [nest EXCEPT ![Len(nest)] = WithKey(@, k)]

(* EndArray or EndObject: an object cannot end between a key and its value. *)
ReadEnd(kind) ==
    /\ Active /\ ~AtRoot /\ Last(nest).kind = kind /\ Last(nest).key = NoKey
    /\ nest' = WithContainer(Front(nest))

(* The handler's method returned true, or false.                            *)
Accept == phase' = IF nest' = <<>> THEN "complete" ELSE "reading"
Terminate == phase' = "failed"

(* The caller drops the text at hand, wherever the reader is in it (at its  *)
(* end, or where it is malformed), and turns to the next one.               *)
NextText == nest' = <<>> /\ phase' = "ready"

-------------------------------------------------------------------------------
(* The member whose value the next value event belongs to, in the outermost *)
(* object of the text.                                                      *)
OpenMember == IF AtRoot THEN NoKey ELSE nest[1].key

(* The step completes a value that is a member of the outermost container.  *)
CompletesMember ==
    /\ Len(nest') = 1
    /\ ~AtRoot
    /\ nest[1].key # NoKey
    /\ nest'[1].key = NoKey

MemberKind == IF Len(nest) = 1 THEN "scalar" ELSE nest[2].kind
===============================================================================
