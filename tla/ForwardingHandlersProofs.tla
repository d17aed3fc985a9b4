----------------------- MODULE ForwardingHandlersProofs ------------------------
(***************************************************************************)
(* Proofs about ForwardingHandlers: what its run checks of a few texts with *)
(* two keys and a tuple of two holds for any keys, any depth and width of   *)
(* the text, any number of elements and of texts read by one handler.       *)
(*                                                                         *)
(* There is an inductive invariant for each class, and it says more than    *)
(* the properties do: where the handler is with its value in each phase of  *)
(* the text, and how deep the handlers of its parts are.                    *)
(***************************************************************************)
EXTENDS ForwardingHandlers, JsonReaderTheorems

(* JsonReader and HandlerContract, as each of the four modules has them.    *)
LEMMA MapReader ==
    /\ Map!ReadScalar <=> ReadScalar
    /\ \A k : Map!ReadKey(k) <=> ReadKey(k)
    /\ \A kind : Map!ReadStart(kind) <=> ReadStart(kind)
    /\ \A kind : Map!ReadEnd(kind) <=> ReadEnd(kind)
  BY DEF ReadScalar, ReadKey, ReadStart, ReadEnd, ValueExpected, KeyExpected,
         HasRoom, Active, AtRoot, WithScalar, WithContainer, WithKey,
         AfterScalar, AfterContainer, NewFrame, Size, Last, Front,
         Map!ReadScalar, Map!ReadKey, Map!ReadStart, Map!ReadEnd,
         Map!ValueExpected, Map!KeyExpected, Map!HasRoom, Map!Active,
         Map!AtRoot, Map!WithScalar, Map!WithContainer, Map!WithKey,
         Map!AfterScalar, Map!AfterContainer, Map!NewFrame, Map!Size,
         Map!Last, Map!Front

LEMMA MapContract ==
    /\ \A part, event : Map!Responses(part, event) = Responses(part, event)
    /\ \A part : Map!Reaped(part) = Reaped(part)
    /\ Map!Fresh = Fresh /\ Map!Part = Part
    /\ Map!Kinds = Kinds /\ Map!Frame = Frame
    /\ Map!Phases = Phases
  BY DEF Responses, Accepted, Rejected, ParsedAfter, OpenAfter, Fits, Fresh,
         Reaped, Part, Kinds, Frame, Phases,
         Map!Responses, Map!Accepted, Map!Rejected, Map!ParsedAfter,
         Map!OpenAfter, Map!Fits, Map!Fresh, Map!Reaped, Map!Part, Map!Kinds,
         Map!Frame, Map!Phases

LEMMA PointerReader ==
    /\ Pointer!ReadScalar <=> ReadScalar
    /\ \A k : Pointer!ReadKey(k) <=> ReadKey(k)
    /\ \A kind : Pointer!ReadStart(kind) <=> ReadStart(kind)
    /\ \A kind : Pointer!ReadEnd(kind) <=> ReadEnd(kind)
  BY DEF ReadScalar, ReadKey, ReadStart, ReadEnd, ValueExpected, KeyExpected,
         HasRoom, Active, AtRoot, WithScalar, WithContainer, WithKey,
         AfterScalar, AfterContainer, NewFrame, Size, Last, Front,
         Pointer!ReadScalar, Pointer!ReadKey, Pointer!ReadStart,
         Pointer!ReadEnd, Pointer!ValueExpected, Pointer!KeyExpected,
         Pointer!HasRoom, Pointer!Active, Pointer!AtRoot, Pointer!WithScalar,
         Pointer!WithContainer, Pointer!WithKey, Pointer!AfterScalar,
         Pointer!AfterContainer, Pointer!NewFrame, Pointer!Size, Pointer!Last,
         Pointer!Front

LEMMA PointerContract ==
    /\ \A part, event : Pointer!Responses(part, event) = Responses(part, event)
    /\ \A part : Pointer!Reaped(part) = Reaped(part)
    /\ Pointer!Fresh = Fresh /\ Pointer!Part = Part
    /\ Pointer!Kinds = Kinds /\ Pointer!Frame = Frame
    /\ Pointer!Phases = Phases
  BY DEF Responses, Accepted, Rejected, ParsedAfter, OpenAfter, Fits, Fresh,
         Reaped, Part, Kinds, Frame, Phases,
         Pointer!Responses, Pointer!Accepted, Pointer!Rejected,
         Pointer!ParsedAfter, Pointer!OpenAfter, Pointer!Fits, Pointer!Fresh,
         Pointer!Reaped, Pointer!Part, Pointer!Kinds, Pointer!Frame,
         Pointer!Phases

LEMMA TupleReader ==
    /\ Tuple!ReadScalar <=> ReadScalar
    /\ \A k : Tuple!ReadKey(k) <=> ReadKey(k)
    /\ \A kind : Tuple!ReadStart(kind) <=> ReadStart(kind)
    /\ \A kind : Tuple!ReadEnd(kind) <=> ReadEnd(kind)
  BY DEF ReadScalar, ReadKey, ReadStart, ReadEnd, ValueExpected, KeyExpected,
         HasRoom, Active, AtRoot, WithScalar, WithContainer, WithKey,
         AfterScalar, AfterContainer, NewFrame, Size, Last, Front,
         Tuple!ReadScalar, Tuple!ReadKey, Tuple!ReadStart, Tuple!ReadEnd,
         Tuple!ValueExpected, Tuple!KeyExpected, Tuple!HasRoom, Tuple!Active,
         Tuple!AtRoot, Tuple!WithScalar, Tuple!WithContainer, Tuple!WithKey,
         Tuple!AfterScalar, Tuple!AfterContainer, Tuple!NewFrame, Tuple!Size,
         Tuple!Last, Tuple!Front

LEMMA TupleContract ==
    /\ \A part, event : Tuple!Responses(part, event) = Responses(part, event)
    /\ \A part : Tuple!Reaped(part) = Reaped(part)
    /\ Tuple!Fresh = Fresh /\ Tuple!Part = Part
    /\ Tuple!Kinds = Kinds /\ Tuple!Frame = Frame
    /\ Tuple!Phases = Phases
  BY DEF Responses, Accepted, Rejected, ParsedAfter, OpenAfter, Fits, Fresh,
         Reaped, Part, Kinds, Frame, Phases,
         Tuple!Responses, Tuple!Accepted, Tuple!Rejected, Tuple!ParsedAfter,
         Tuple!OpenAfter, Tuple!Fits, Tuple!Fresh, Tuple!Reaped, Tuple!Part,
         Tuple!Kinds, Tuple!Frame, Tuple!Phases

LEMMA ConversionReader ==
    /\ Conversion!ReadScalar <=> ReadScalar
    /\ \A k : Conversion!ReadKey(k) <=> ReadKey(k)
    /\ \A kind : Conversion!ReadStart(kind) <=> ReadStart(kind)
    /\ \A kind : Conversion!ReadEnd(kind) <=> ReadEnd(kind)
  BY DEF ReadScalar, ReadKey, ReadStart, ReadEnd, ValueExpected, KeyExpected,
         HasRoom, Active, AtRoot, WithScalar, WithContainer, WithKey,
         AfterScalar, AfterContainer, NewFrame, Size, Last, Front,
         Conversion!ReadScalar, Conversion!ReadKey, Conversion!ReadStart,
         Conversion!ReadEnd, Conversion!ValueExpected, Conversion!KeyExpected,
         Conversion!HasRoom, Conversion!Active, Conversion!AtRoot,
         Conversion!WithScalar, Conversion!WithContainer, Conversion!WithKey,
         Conversion!AfterScalar, Conversion!AfterContainer,
         Conversion!NewFrame, Conversion!Size, Conversion!Last,
         Conversion!Front

LEMMA ConversionContract ==
    /\ \A part, event : Conversion!Responses(part, event) = Responses(part, event)
    /\ \A part : Conversion!Reaped(part) = Reaped(part)
    /\ Conversion!Fresh = Fresh /\ Conversion!Part = Part
    /\ Conversion!Kinds = Kinds /\ Conversion!Frame = Frame
    /\ Conversion!Phases = Phases
  BY DEF Responses, Accepted, Rejected, ParsedAfter, OpenAfter, Fits, Fresh,
         Reaped, Part, Kinds, Frame, Phases,
         Conversion!Responses, Conversion!Accepted, Conversion!Rejected,
         Conversion!ParsedAfter, Conversion!OpenAfter, Conversion!Fits,
         Conversion!Fresh, Conversion!Reaped, Conversion!Part,
         Conversion!Kinds, Conversion!Frame, Conversion!Phases

-------------------------------------------------------------------------------
(* Reading, as all four classes see it.                                     *)
ReadEvent(event) ==
    \/ event = "scalar" /\ ReadScalar
    \/ event = "key" /\ \E k \in Keys : ReadKey(k)
    \/ event = "start" /\ \E kind \in Kinds : ReadStart(kind)
    \/ event = "end" /\ \E kind \in Kinds : ReadEnd(kind)

LEMMA ReadAtRoot ==
    ASSUME nest = <<>>, NEW event, ReadEvent(event)
    PROVE  /\ event \in {"scalar", "start"}
           /\ event = "scalar" => nest' = <<>>
  <1>1. ~ (\E k \in Keys : ReadKey(k)) /\ ~ (\E kind \in Kinds : ReadEnd(kind))
    BY DEF ReadKey, KeyExpected, ReadEnd, AtRoot
  <1> QED
    BY <1>1 DEF ReadEvent, ReadScalar, WithScalar

(* A part whose handler is as deep as the text, or as the text within its   *)
(* outermost container, stays so.                                           *)
LEMMA ReadEventFacts ==
    ASSUME nest \in Seq(Frame), NEW event, ReadEvent(event)
    PROVE  /\ event \in Events /\ Active
           /\ nest' \in Seq(Frame) /\ Len(nest) \in Nat /\ Len(nest') \in Nat
           /\ nest = <<>> <=> Len(nest) = 0
           /\ nest' = <<>> <=> Len(nest') = 0
           /\ \A part \in Part :
                  part.open = Len(nest) =>
                      Fits(part, event) /\ OpenAfter(part, event) = Len(nest')
           /\ \A part \in Part :
                  /\ nest # <<>> /\ part.open = Len(nest) - 1
                  /\ event \in {"key", "end"} => Len(nest) > 1
                  => Fits(part, event) /\ OpenAfter(part, event) = Len(nest') - 1
  <1>1. /\ Len(nest) \in Nat
        /\ nest = <<>> <=> Len(nest) = 0
        /\ \A s \in Seq(Frame) : Len(s) \in Nat /\ (s = <<>> <=> Len(s) = 0)
    OBVIOUS
  <1>2. Active
    BY DEF ReadEvent, ReadScalar, ReadKey, ReadStart, ReadEnd, ValueExpected,
           KeyExpected
  <1>3. CASE event = "scalar" /\ ReadScalar
    <2>1. nest' \in Seq(Frame) /\ Len(nest') = Len(nest)
      <3>1. CASE nest = <<>>
        BY <1>3, <3>1 DEF ReadScalar, WithScalar
      <3>2. CASE nest # <<>>
        BY <1>3, <3>2, ReadScalarFacts
      <3> QED
        BY <3>1, <3>2
    <2> QED
      BY <1>1, <1>2, <1>3, <2>1 DEF Fits, OpenAfter, Events
  <1>4. CASE event = "key" /\ \E k \in Keys : ReadKey(k)
    <2>1. nest # <<>> /\ nest' \in Seq(Frame) /\ Len(nest') = Len(nest)
      BY <1>4, ReadKeyFacts
    <2> QED
      BY <1>1, <1>2, <1>4, <2>1 DEF Fits, OpenAfter, Events
  <1>5. CASE event = "start" /\ \E kind \in Kinds : ReadStart(kind)
    <2>1. nest' \in Seq(Frame) /\ Len(nest') = Len(nest) + 1
      BY <1>5, ReadStartFacts
    <2> QED
      BY <1>1, <1>2, <1>5, <2>1 DEF Fits, OpenAfter, Events
  <1>6. CASE event = "end" /\ \E kind \in Kinds : ReadEnd(kind)
    <2>1. nest # <<>> /\ nest' \in Seq(Frame) /\ Len(nest') = Len(nest) - 1
      BY <1>6, ReadEndFacts
    <2> QED
      BY <1>1, <1>2, <1>6, <2>1 DEF Fits, OpenAfter, Events
  <1> QED
    BY <1>3, <1>4, <1>5, <1>6 DEF ReadEvent

(* How a handler answers an event that fits its progress.                   *)
LEMMA ResponseFacts ==
    ASSUME NEW part \in Part, NEW event \in Events, Fits(part, event),
           NEW response \in Responses(part, event)
    PROVE  /\ response \in Part
           /\ OpenAfter(part, event) \in Nat
           /\ ~response.error =>
                  /\ response.open = OpenAfter(part, event)
                  /\ response.open = 0 => response.parsed
                  /\ response.open # 0 =>
                         response.parsed = FALSE \/ response.parsed = part.parsed
  <1>0. /\ part.open \in Nat /\ part.parsed \in BOOLEAN
        /\ OpenAfter(part, event) \in Nat
    BY DEF Part, OpenAfter, Events
  <1>1. CASE response \in Rejected(part, event)
    BY <1>0, <1>1, RejectedFacts
  <1>2. CASE response \in Accepted(part, event)
    <2>1. PICK p \in ParsedAfter(part, event) :
              response = [open |-> OpenAfter(part, event), parsed |-> p,
                          error |-> FALSE]
      BY <1>2 DEF Accepted
    <2>2. /\ response.open = OpenAfter(part, event) /\ response.parsed = p
          /\ response.error = FALSE
      BY <2>1
    <2>3. CASE OpenAfter(part, event) = 0
      <3>1. p = TRUE
        BY <2>1, <2>3 DEF ParsedAfter
      <3> QED
        BY <1>0, <2>1, <2>2, <2>3, <3>1 DEF Part
    <2>4. CASE OpenAfter(part, event) # 0
      <3>1. p = FALSE \/ p = part.parsed
        BY <2>1, <2>4 DEF ParsedAfter
      <3> QED
        BY <1>0, <2>1, <2>2, <2>4, <3>1 DEF Part
    <2> QED
      BY <2>3, <2>4
  <1> QED
    BY <1>1, <1>2 DEF Responses

LEMMA FreshFacts ==
    /\ Fresh \in Part /\ Fresh.open = 0
    /\ Fresh.parsed = FALSE /\ Fresh.error = FALSE
  BY DEF Fresh, Part

(* The outermost container counts its values, and stays until its own end.  *)
LEMMA WithinFacts ==
    ASSUME nest \in Seq(Frame), nest # <<>>, NEW event, ReadEvent(event)
    PROVE  /\ Len(nest) \in Nat \ {0} /\ nest[1] \in Frame
           /\ nest' = <<>> <=> event = "end" /\ Len(nest) = 1
           /\ nest' # <<>> =>
                 /\ nest'[1].kind = nest[1].kind
                 /\ Len(nest') = 1 /\ event \in {"scalar", "end"} =>
                        Size(nest'[1]) = Size(nest[1]) + 1 /\ nest'[1].key = NoKey
                 /\ Len(nest') # 1 => nest'[1] = nest[1]
                 /\ event = "key" => Size(nest'[1]) = Size(nest[1])
                 /\ event = "start" => Len(nest') # 1
  <1>0. Len(nest) \in Nat \ {0} /\ nest[1] \in Frame
    BY FrontFacts
  <1>1. CASE event = "scalar" /\ ReadScalar
    <2>1. /\ nest' # <<>> /\ Len(nest') = Len(nest)
          /\ nest'[1].kind = nest[1].kind
          /\ Len(nest) = 1 => Size(nest'[1]) = Size(nest[1]) + 1
          /\ \A i \in 1..Len(nest) - 1 : nest'[i] = nest[i]
          /\ nest'[Len(nest)].key = NoKey
      BY <1>1, ReadScalarFacts
    <2>2. Len(nest) # 1 => nest'[1] = nest[1]
      BY <1>0, <2>1
    <2> QED
      BY <1>0, <1>1, <2>1, <2>2
  <1>2. CASE event = "key" /\ \E k \in Keys : ReadKey(k)
    <2>1. PICK k \in Keys : ReadKey(k)
      BY <1>2
    <2>2. /\ nest' # <<>> /\ Len(nest') = Len(nest)
          /\ \A i \in 1..Len(nest) - 1 : nest'[i] = nest[i]
          /\ nest[Len(nest)].kind = "object" /\ nest'[Len(nest)].kind = "object"
          /\ Size(nest'[Len(nest)]) = Size(nest[Len(nest)])
      BY <2>1, ReadKeyFacts
    <2>3. CASE Len(nest) = 1
      BY <1>0, <1>2, <2>2, <2>3
    <2>4. CASE Len(nest) # 1
      <3>1. nest'[1] = nest[1]
        BY <1>0, <2>2, <2>4
      <3> QED
        BY <1>0, <1>2, <2>2, <3>1
    <2> QED
      BY <2>3, <2>4
  <1>3. CASE event = "start" /\ \E kind \in Kinds : ReadStart(kind)
    <2>1. /\ nest' # <<>> /\ Len(nest') = Len(nest) + 1
          /\ \A i \in 1..Len(nest) : nest'[i] = nest[i]
      BY <1>3, ReadStartFacts
    <2>2. nest'[1] = nest[1] /\ Len(nest') # 1
      BY <1>0, <2>1
    <2> QED
      BY <1>0, <1>3, <2>1, <2>2
  <1>4. CASE event = "end" /\ \E kind \in Kinds : ReadEnd(kind)
    <2>1. /\ Len(nest') = Len(nest) - 1
          /\ nest' = <<>> <=> Len(nest) = 1
          /\ \A i \in 1..Len(nest) - 2 : nest'[i] = nest[i]
          /\ Len(nest) > 1 =>
                /\ nest'[1].kind = nest[1].kind
                /\ Size(nest'[Len(nest) - 1]) = Size(nest[Len(nest) - 1]) + 1
                /\ nest'[Len(nest) - 1].key = NoKey
      BY <1>4, ReadEndFacts
    <2>2. CASE Len(nest) = 1
      BY <1>0, <1>4, <2>1, <2>2
    <2>3. CASE Len(nest) = 2
      BY <1>0, <1>4, <2>1, <2>3
    <2>4. CASE Len(nest) # 1 /\ Len(nest) # 2
      <3>1. nest'[1] = nest[1] /\ Len(nest') # 1 /\ nest' # <<>>
        BY <1>0, <2>1, <2>4
      <3> QED
        BY <1>0, <1>4, <2>4, <3>1
    <2> QED
      BY <2>2, <2>3, <2>4, Zenon
  <1> QED
    BY <1>0, <1>1, <1>2, <1>3, <1>4 DEF ReadEvent

LEMMA SizeType ==
    ASSUME NEW f \in Frame
    PROVE  Size(f) \in Nat
  BY DEF Frame, Size

-------------------------------------------------------------------------------
(* ConversionHandler.  While a text is read, the shadow's handler is as     *)
(* deep as the text, and, unless the text repeats a value, not parsed: so   *)
(* it is converted at the end of the text only, and then as a whole.        *)
ConversionIdle ==
    /\ nest = <<>> /\ internal.open = 0
    /\ ~the_error /\ ~internal.error /\ calls = 0 /\ report = <<>>
    /\ IF again THEN shadow # "default" /\ parsed
       ELSE shadow = "default" /\ ~internal.parsed /\ ~parsed

ConversionGoes ==
    /\ nest # <<>> /\ internal.open = Len(nest)
    /\ ~the_error /\ ~internal.error /\ report = <<>>
    /\ shadow # "default"
    /\ IF again THEN parsed
       ELSE shadow = "own" /\ ~internal.parsed /\ ~parsed /\ calls = 0

ConversionDone ==
    /\ nest = <<>> /\ internal.open = 0
    /\ ~the_error /\ ~internal.error /\ report = <<>>
    /\ parsed /\ m_value = shadow /\ shadow # "default"
    /\ ~again => shadow = "own" /\ calls = 1

ConversionBroken ==
    /\ ~(the_error /\ internal.error)
    /\ report = <<>> <=> the_error \/ internal.error
    /\ Len(report) <= 1
    /\ ~again => /\ calls = IF parsed THEN 1 ELSE 0
                 /\ parsed => the_error \/ report # <<>>

ConversionInv ==
    /\ phase = "ready" => ConversionIdle
    /\ phase = "reading" => ConversionGoes
    /\ phase = "complete" => ConversionDone
    /\ phase = "failed" => ConversionBroken

LEMMA ConversionForward ==
    ASSUME Conversion!TypeOK, ConversionInv, NEW event, ReadEvent(event),
           Conversion!Forward(event), again /\ nest = <<>> => event = "start"
    PROVE  Conversion!TypeOK' /\ ConversionInv'
  <1>0. /\ nest \in Seq(Frame) /\ phase \in Phases /\ internal \in Part
        /\ shadow \in {"default", "own", "mixed"}
        /\ m_value \in {"old", "own", "mixed", "partial"}
        /\ the_error \in BOOLEAN /\ parsed \in BOOLEAN /\ again \in BOOLEAN
        /\ calls \in Nat /\ uses \in Nat
        /\ report \in Seq({"conversion", "part"})
    BY ConversionContract DEF Conversion!TypeOK, Conversion!ReaderTypeOK
  <1>1. /\ event \in Events /\ Active
        /\ nest' \in Seq(Frame) /\ Len(nest') \in Nat
        /\ nest = <<>> <=> Len(nest) = 0
        /\ nest' = <<>> <=> Len(nest') = 0
    BY <1>0, ReadEventFacts
  <1>2. /\ ConversionIdle \/ ConversionGoes
        /\ nest = <<>> <=> ConversionIdle
    BY <1>1 DEF Active, ConversionInv, ConversionIdle, ConversionGoes
  <1>3. /\ internal.open = Len(nest)
        /\ ~the_error /\ ~internal.error /\ report = <<>>
        /\ IF again THEN parsed ELSE ~internal.parsed /\ ~parsed /\ calls = 0
    BY <1>1, <1>2 DEF ConversionIdle, ConversionGoes
  <1>4. Fits(internal, event) /\ OpenAfter(internal, event) = Len(nest')
    BY <1>0, <1>3, ReadEventFacts
  <1>5. /\ Conversion!Touched \in {"own", "mixed"}
        /\ ~again => Conversion!Touched = "own"
    <2>1. CASE nest = <<>>
      <3>1. ~(internal.open > 0)
        BY <1>1, <1>3, <2>1
      <3> QED
        BY <1>2, <2>1, <3>1 DEF Conversion!Touched, ConversionIdle
    <2>2. CASE nest # <<>>
      <3>1. internal.open > 0 /\ shadow \in {"own", "mixed"}
        BY <1>0, <1>1, <1>2, <1>3, <2>2 DEF ConversionGoes, Part
      <3> QED
        BY <1>2, <2>2, <3>1 DEF Conversion!Touched, ConversionGoes
    <2> QED
      BY <2>1, <2>2
  <1>6. PICK response \in Responses(internal, event) :
           /\ internal' = response
           /\ shadow' = Conversion!Touched
           /\ \/ /\ response.error
                 /\ Conversion!Terminate
                 /\ UNCHANGED <<m_value, the_error, parsed, calls>>
              \/ /\ ~response.error /\ ~Conversion!Convertible(response)
                 /\ Conversion!Accept
                 /\ UNCHANGED <<m_value, the_error, parsed, calls>>
              \/ /\ ~response.error /\ Conversion!Convertible(response)
                 /\ parsed' = TRUE
                 /\ Conversion!FromShadow(response)
    BY ConversionContract DEF Conversion!Forward
  <1>7. UNCHANGED <<again, report, uses>>
    BY DEF Conversion!Forward
  <1>8. /\ response \in Part
        /\ ~response.error =>
               /\ response.open = Len(nest')
               /\ response.open = 0 => response.parsed
               /\ response.open # 0 => 
                     response.parsed = FALSE \/ response.parsed = internal.parsed
    BY <1>0, <1>1, <1>4, <1>6, ResponseFacts
  <1>9. CASE response.error
    <2>1. /\ phase' = "failed" /\ internal' \in Part /\ internal'.error
          /\ UNCHANGED <<m_value, the_error, parsed, calls, again, report, uses>>
          /\ shadow' \in {"own", "mixed"}
      BY <1>5, <1>6, <1>7, <1>8, <1>9 DEF Conversion!Terminate
    <2>2. Conversion!TypeOK'
      BY <1>0, <1>1, <2>1, ConversionContract
         DEF Conversion!TypeOK, Conversion!ReaderTypeOK, Phases
    <2> QED
      BY <1>3, <2>1, <2>2 DEF ConversionInv, ConversionBroken
  <1>10. CASE ~response.error /\ ~response.parsed
    <2>1. /\ internal' = response /\ ~response.parsed /\ ~response.error
          /\ response.open = Len(nest')
          /\ nest' # <<>> /\ phase' = "reading"
          /\ UNCHANGED <<m_value, the_error, parsed, calls, again, report, uses>>
          /\ shadow' \in {"own", "mixed"} /\ (~again => shadow' = "own")
      BY <1>1, <1>5, <1>6, <1>7, <1>8, <1>10
         DEF Conversion!Accept, Conversion!Convertible
    <2>2. Conversion!TypeOK'
      BY <1>0, <1>1, <1>8, <2>1, ConversionContract
         DEF Conversion!TypeOK, Conversion!ReaderTypeOK, Phases
    <2>3. ConversionGoes'
      BY <1>3, <2>1 DEF ConversionGoes
    <2> QED
      BY <2>1, <2>2, <2>3 DEF ConversionInv
  <1>11. CASE ~response.error /\ response.parsed
    <2>1. PICK refused \in BOOLEAN :
              /\ the_error' = (the_error \/ refused)
              /\ m_value' = IF refused THEN m_value
                            ELSE IF response.open > 0 THEN "partial"
                            ELSE Conversion!Touched
              /\ calls' = calls + 1
              /\ IF refused THEN Conversion!Terminate ELSE Conversion!Accept
      BY <1>6, <1>11 DEF Conversion!Convertible, Conversion!FromShadow
    <2>2. /\ internal' = response /\ response.open = Len(nest') /\ parsed' = TRUE
          /\ UNCHANGED <<again, report, uses>>
          /\ shadow' = Conversion!Touched
          /\ ~again => nest' = <<>>
      BY <1>1, <1>3, <1>6, <1>7, <1>8, <1>11 DEF Conversion!Convertible
    <2>3. CASE refused
      <3>1. /\ phase' = "failed" /\ the_error' = TRUE /\ m_value' = m_value
            /\ calls' = calls + 1
        BY <2>1, <2>3 DEF Conversion!Terminate
      <3>2. Conversion!TypeOK'
        BY <1>0, <1>1, <1>5, <1>8, <2>2, <3>1, ConversionContract
           DEF Conversion!TypeOK, Conversion!ReaderTypeOK, Phases
      <3> QED
        BY <1>3, <1>11, <2>2, <3>1, <3>2 DEF ConversionInv, ConversionBroken
    <2>4. CASE ~refused
      <3>1. /\ the_error' = FALSE /\ calls' = calls + 1
            /\ m_value' = IF response.open > 0 THEN "partial" ELSE shadow'
            /\ phase' = IF nest' = <<>> THEN "complete" ELSE "reading"
        BY <1>3, <2>1, <2>2, <2>4 DEF Conversion!Accept
      <3>2. Conversion!TypeOK'
        <4>1. /\ m_value' \in {"old", "own", "mixed", "partial"}
              /\ shadow' \in {"default", "own", "mixed"}
              /\ phase' \in Phases /\ calls' \in Nat
          BY <1>0, <1>5, <2>2, <3>1 DEF Phases
        <4>2. internal' \in Part /\ parsed' \in BOOLEAN /\ the_error' \in BOOLEAN
          BY <1>8, <2>2, <3>1
        <4> QED
          BY <1>0, <1>1, <2>2, <4>1, <4>2, ConversionContract
             DEF Conversion!TypeOK, Conversion!ReaderTypeOK
      <3>3. CASE nest' = <<>>
        <4>1. response.open = 0 /\ m_value' = shadow' /\ phase' = "complete"
          BY <1>1, <2>2, <3>1, <3>3
        <4>2. ConversionDone'
          BY <1>3, <1>5, <1>11, <2>2, <3>1, <3>3, <4>1 DEF ConversionDone
        <4> QED
          BY <3>2, <4>1, <4>2 DEF ConversionInv
      <3>4. CASE nest' # <<>>
        <4>1. phase' = "reading" /\ again'
          BY <1>0, <2>2, <3>1, <3>4
        <4>2. ConversionGoes'
          BY <1>3, <1>5, <1>11, <2>2, <3>1, <3>4, <4>1 DEF ConversionGoes
        <4> QED
          BY <3>2, <4>1, <4>2 DEF ConversionInv
      <3> QED
        BY <3>3, <3>4
    <2> QED
      BY <2>3, <2>4
  <1> QED
    BY <1>9, <1>10, <1>11

LEMMA ConversionNext ==
    Conversion!TypeOK /\ ConversionInv /\ Conversion!Next
        => Conversion!TypeOK' /\ ConversionInv'
  <1> SUFFICES ASSUME Conversion!TypeOK, ConversionInv, Conversion!Next
               PROVE  Conversion!TypeOK' /\ ConversionInv'
    OBVIOUS
  <1>0. /\ nest \in Seq(Frame) /\ phase \in Phases /\ internal \in Part
        /\ shadow \in {"default", "own", "mixed"}
        /\ m_value \in {"old", "own", "mixed", "partial"}
        /\ the_error \in BOOLEAN /\ parsed \in BOOLEAN /\ again \in BOOLEAN
        /\ calls \in Nat /\ uses \in Nat
        /\ report \in Seq({"conversion", "part"})
    BY ConversionContract DEF Conversion!TypeOK, Conversion!ReaderTypeOK
  <1>1. CASE Conversion!Scalar
    <2>1. ReadEvent("scalar") /\ Conversion!Forward("scalar")
      BY <1>1, ConversionReader DEF Conversion!Scalar, ReadEvent
    <2>2. ~(again /\ nest = <<>>)
      BY <1>1 DEF Conversion!Scalar, Conversion!FirstOfRepeated, Conversion!AtRoot
    <2> QED
      BY <2>1, <2>2, ConversionForward
  <1>2. CASE Conversion!Key
    <2>1. ReadEvent("key") /\ Conversion!Forward("key")
      BY <1>2, ConversionReader DEF Conversion!Key, ReadEvent
    <2>2. nest # <<>>
      BY <2>1, ReadAtRoot
    <2> QED
      BY <2>1, <2>2, ConversionForward
  <1>3. CASE Conversion!StartObject \/ Conversion!StartArray
    <2>1. ReadEvent("start") /\ Conversion!Forward("start")
      BY <1>3, ConversionReader
         DEF Conversion!StartObject, Conversion!StartArray, ReadEvent, Kinds
    <2> QED
      BY <2>1, ConversionForward
  <1>4. CASE Conversion!End
    <2>1. ReadEvent("end") /\ Conversion!Forward("end")
      BY <1>4, ConversionReader, ConversionContract DEF Conversion!End, ReadEvent
    <2>2. nest # <<>>
      BY <2>1, ReadAtRoot
    <2> QED
      BY <2>1, <2>2, ConversionForward
  <1>5. CASE Conversion!PrepareForReuse
    <2>1. /\ nest' = <<>> /\ phase' = "ready"
          /\ shadow' = "default" /\ internal' = Fresh /\ m_value' = m_value
          /\ the_error' = FALSE /\ parsed' = FALSE
          /\ again' = FALSE /\ calls' = 0 /\ report' = <<>> /\ uses' = uses + 1
      BY <1>5, ConversionContract
         DEF Conversion!PrepareForReuse, Conversion!NextText, Conversion!Reset,
             Conversion!ClearVerdict
    <2>2. nest' \in Seq(Frame) /\ report' \in Seq({"conversion", "part"})
      BY <2>1
    <2>3. Conversion!TypeOK'
      <3>1. calls' \in Nat /\ uses' \in Nat /\ phase' \in Phases
        BY <1>0, <2>1 DEF Phases
      <3>2. /\ the_error' \in BOOLEAN /\ parsed' \in BOOLEAN
            /\ again' \in BOOLEAN
        BY <2>1, Zenon
      <3>3. internal' \in Part /\ shadow' \in {"default", "own", "mixed"}
        BY <2>1, FreshFacts
      <3> QED
        BY <1>0, <2>1, <2>2, <3>1, <3>2, <3>3, ConversionContract
           DEF Conversion!TypeOK, Conversion!ReaderTypeOK
    <2> QED
      BY <2>1, <2>3, FreshFacts DEF ConversionInv, ConversionIdle
  <1>6. CASE Conversion!Again
    <2>1. /\ nest' = <<>> /\ phase' = "ready" /\ ConversionDone
          /\ UNCHANGED <<shadow, internal, m_value, the_error, parsed, report>>
          /\ again' = TRUE /\ calls' = 0 /\ uses' = uses + 1
      BY <1>6
         DEF Conversion!Again, Conversion!NextText, Conversion!handlerVars,
             ConversionInv
    <2>2. nest' \in Seq(Frame)
      BY <2>1
    <2>3. Conversion!TypeOK'
      BY <1>0, <2>1, <2>2, ConversionContract
         DEF Conversion!TypeOK, Conversion!ReaderTypeOK, Phases
    <2> QED
      BY <2>1, <2>3 DEF ConversionInv, ConversionIdle, ConversionDone
  <1>7. CASE Conversion!ReapError
    <2>1. /\ the_error \/ internal.error
          /\ report' = Append(report, IF the_error THEN "conversion" ELSE "part")
          /\ the_error' = FALSE
          /\ internal' = IF the_error THEN internal ELSE Reaped(internal)
          /\ UNCHANGED <<nest, phase, shadow, m_value, parsed, again, calls, uses>>
      BY <1>7, ConversionContract
         DEF Conversion!ReapError, Conversion!has_error, Conversion!readerVars,
             Conversion!ErrorLeft
    <2>2. phase = "failed" /\ ConversionBroken /\ report = <<>>
      BY <1>0, <2>1
         DEF Phases, ConversionInv, ConversionIdle, ConversionGoes,
             ConversionDone, ConversionBroken
    <2>3. /\ internal' \in Part /\ internal'.error = FALSE
      BY <1>0, <2>1, <2>2 DEF Part, Reaped, ConversionBroken
    <2>4. /\ report' \in Seq({"conversion", "part"})
          /\ report' # <<>> /\ Len(report') = 1
      BY <1>0, <2>1, <2>2
    <2>5. Conversion!TypeOK'
      BY <1>0, <2>1, <2>2, <2>3, <2>4, ConversionContract
         DEF Conversion!TypeOK, Conversion!ReaderTypeOK
    <2>6. ConversionBroken'
      BY <2>1, <2>2, <2>3, <2>4 DEF ConversionBroken
    <2> QED
      BY <2>1, <2>2, <2>5, <2>6 DEF ConversionInv
  <1> QED
    BY <1>1, <1>2, <1>3, <1>4, <1>5, <1>6, <1>7 DEF Conversion!Next

LEMMA ConversionKeeps ==
    Conversion!TypeOK /\ ConversionInv
        => /\ Conversion!OneCause
           /\ Conversion!ConvertedOnceWhole /\ Conversion!ValueAgreesWithShadow
  <1> SUFFICES ASSUME Conversion!TypeOK, ConversionInv
               PROVE  /\ Conversion!OneCause /\ Conversion!ConvertedOnceWhole
                      /\ Conversion!ValueAgreesWithShadow
    OBVIOUS
  <1>1. /\ phase \in Phases /\ Len(<<>>) = 0
        /\ report \in Seq({"conversion", "part"})
        /\ parsed \in BOOLEAN
    BY ConversionContract DEF Conversion!TypeOK, Conversion!ReaderTypeOK
  <1>2. CASE phase = "ready" /\ ConversionIdle
    BY <1>1, <1>2
       DEF ConversionIdle, Conversion!has_error, Conversion!OneCause, Conversion!ConvertedOnceWhole,
           Conversion!ValueAgreesWithShadow
  <1>3. CASE phase = "reading" /\ ConversionGoes
    BY <1>1, <1>3
       DEF ConversionGoes, Conversion!has_error, Conversion!OneCause, Conversion!ConvertedOnceWhole,
           Conversion!ValueAgreesWithShadow
  <1>4. CASE phase = "complete" /\ ConversionDone
    BY <1>1, <1>4
       DEF ConversionDone, Conversion!has_error, Conversion!OneCause, Conversion!ConvertedOnceWhole,
           Conversion!ValueAgreesWithShadow
  <1>5. CASE phase = "failed" /\ ConversionBroken
    BY <1>1, <1>5
       DEF ConversionBroken, Conversion!has_error, Conversion!OneCause, Conversion!ConvertedOnceWhole,
           Conversion!ValueAgreesWithShadow
  <1> QED
    BY <1>1, <1>2, <1>3, <1>4, <1>5 DEF Phases, ConversionInv

-------------------------------------------------------------------------------
(* PointerHandler.  A null is taken for the pointer's own only where no     *)
(* handler exists yet: a handler that does exist belongs to a live object,  *)
(* and is as deep as the text.                                              *)
PointerIdle ==
    /\ nest = <<>> /\ depth = 0
    /\ IF again THEN m_value # "old"
       ELSE internal_handler = "none" /\ ~parsed /\ ~isNull
    /\ IF internal_handler = "none" THEN internal = Fresh
       ELSE m_value \in {"own", "mixed"}
    /\ internal.open = 0 /\ ~internal.error
    /\ internal.parsed => parsed
    /\ report = <<>>

PointerGoes ==
    /\ nest # <<>> /\ depth = Len(nest) /\ internal.open = Len(nest)
    /\ internal_handler = "live" /\ m_value \in {"own", "mixed"}
    /\ ~internal.error /\ ~isNull /\ report = <<>>
    /\ internal.parsed => parsed
    /\ ~again => m_value = "own" /\ ~internal.parsed /\ ~parsed

PointerDone ==
    /\ nest = <<>> /\ depth = 0 /\ parsed
    /\ IF isNull THEN internal_handler = "none" /\ m_value = "null"
       ELSE internal_handler = "live" /\ m_value \in {"own", "mixed"}
    /\ internal_handler = "none" => internal = Fresh
    /\ internal.open = 0 /\ ~internal.error
    /\ m_value = "mixed" => again
    /\ report = <<>>

PointerBroken ==
    /\ parsed => again
    /\ internal_handler = "live"
    /\ report = IF internal.error THEN <<>> ELSE <<"part">>

PointerInv ==
    /\ internal_handler # "stale" /\ ~strayed
    /\ phase = "ready" => PointerIdle
    /\ phase = "reading" => PointerGoes
    /\ phase = "complete" => PointerDone
    /\ phase = "failed" => PointerBroken

PointerTyped ==
    /\ nest \in Seq(Frame) /\ phase \in Phases /\ internal \in Part
    /\ m_value \in Pointer!Values
    /\ internal_handler \in {"none", "live", "stale"}
    /\ depth \in Nat
    /\ parsed \in BOOLEAN /\ again \in BOOLEAN
    /\ strayed \in BOOLEAN /\ isNull \in BOOLEAN
    /\ report \in Seq({"part"}) /\ uses \in Nat

LEMMA PointerTypes ==
    /\ Pointer!TypeOK <=> PointerTyped
    /\ Pointer!TypeOK' <=> PointerTyped'
  BY PointerContract, Zenon DEF Pointer!TypeOK, Pointer!ReaderTypeOK, PointerTyped

(* A method returns; before the end of the value it does not set parsed.    *)
PointerReturns ==
    /\ report' = report
    /\ phase' = "failed" \/ Accept
    /\ phase' = "reading" => (parsed' => parsed)

(* An event of the object, the first of which makes it.  Its depth is       *)
(* counted by the handler and by the object's own alike.                    *)
LEMMA PointerForward ==
    ASSUME PointerTyped, PointerInv, NEW event, NEW method,
           Pointer!SaxEvent(method) = event,
           ReadEvent(event), Pointer!Forward(method),
           depth' = OpenAfter([Fresh EXCEPT !.open = depth], event),
           again /\ nest = <<>> => method = "startObject"
    PROVE  PointerTyped' /\ PointerInv' /\ PointerReturns
  <1> DEFINE handler == IF internal_handler = "none" THEN Fresh ELSE internal
  <1>1. /\ event \in Events /\ Active
        /\ nest' \in Seq(Frame) /\ Len(nest) \in Nat /\ Len(nest') \in Nat
        /\ nest = <<>> <=> Len(nest) = 0
        /\ nest' = <<>> <=> Len(nest') = 0
    BY ReadEventFacts DEF PointerTyped
  <1>2. /\ PointerIdle \/ PointerGoes
        /\ nest = <<>> <=> PointerIdle
    BY <1>1 DEF Active, PointerInv, PointerIdle, PointerGoes
  <1>3. /\ depth = Len(nest) /\ handler \in Part /\ handler.open = Len(nest)
        /\ ~handler.error /\ report = <<>>
        /\ internal_handler # "stale" /\ ~strayed
        /\ ~again => ~handler.parsed /\ ~parsed
        /\ handler.parsed => parsed
        /\ nest # <<>> => ~isNull
    <2>1. internal_handler # "stale" /\ ~strayed
      BY DEF PointerInv
    <2>2. CASE PointerIdle
      BY <1>1, <2>1, <2>2, FreshFacts DEF PointerIdle, PointerTyped
    <2>3. CASE PointerGoes
      BY <1>1, <2>1, <2>3 DEF PointerGoes, PointerTyped
    <2> QED
      BY <1>2, <2>2, <2>3
  <1>4. Fits(handler, event) /\ OpenAfter(handler, event) = Len(nest')
    BY <1>3, ReadEventFacts DEF PointerTyped
  <1>5. depth' = Len(nest')
    <2> DEFINE part == [Fresh EXCEPT !.open = depth]
    <2>1. part \in Part /\ part.open = Len(nest)
      BY <1>1, <1>3, FreshFacts DEF Part
    <2>2. OpenAfter(part, event) = Len(nest')
      <3> HIDE DEF part
      <3> QED
        BY <2>1, ReadEventFacts DEF PointerTyped
    <2> QED
      BY <2>2
  <1>6. /\ Pointer!Touched \in {"own", "mixed"}
        /\ ~again => Pointer!Touched = "own"
    <2>1. CASE internal_handler = "none"
      <3>1. Pointer!InitializedValue = "default"
        BY <2>1 DEF Pointer!InitializedValue, Pointer!NoHandler
      <3>2. ~(internal.open > 0)
        BY <1>2, <2>1, FreshFacts DEF PointerIdle, PointerGoes
      <3> QED
        BY <2>1, <3>1, <3>2 DEF Pointer!Touched
    <2>2. CASE internal_handler # "none"
      <3>1. /\ Pointer!InitializedValue = m_value
            /\ m_value \in {"own", "mixed"}
            /\ internal.open = Len(nest)
        BY <1>1, <1>2, <2>2
           DEF Pointer!InitializedValue, Pointer!NoHandler, PointerIdle, PointerGoes
      <3>2. ~again => internal.open > 0 /\ m_value = "own"
        BY <1>1, <1>2, <2>2, <3>1 DEF PointerIdle, PointerGoes
      <3> QED
        BY <1>3, <3>1, <3>2 DEF Pointer!Touched
    <2> QED
      BY <2>1, <2>2
  <1>7. PICK response \in Responses(handler, event) :
            /\ internal' = response
            /\ internal_handler' = IF internal_handler = "none" THEN "live"
                                   ELSE internal_handler
            /\ m_value' = Pointer!Touched
            /\ strayed' = (strayed \/ internal_handler = "stale")
            /\ \/ response.error /\ phase' = "failed" /\ UNCHANGED parsed
               \/ /\ ~response.error
                  /\ phase' = IF nest' = <<>> THEN "complete" ELSE "reading"
                  /\ parsed' = Pointer!ParsedAfterwards(response, method)
            /\ isNull' = (isNull /\ ~Pointer!AtRoot)
            /\ UNCHANGED <<again, report, uses>>
    BY PointerContract
       DEF Pointer!Forward, Pointer!InitializedHandler, Pointer!NoHandler,
           Pointer!Terminate, Pointer!Accept
  <1>8. /\ response \in Part
        /\ ~response.error =>
               /\ response.open = Len(nest')
               /\ response.open = 0 => response.parsed
               /\ response.open # 0 => 
                     response.parsed = FALSE \/ response.parsed = handler.parsed
    <2> HIDE DEF handler
    <2> QED
      BY <1>1, <1>3, <1>4, <1>7, ResponseFacts
  <1>9. /\ internal' = response /\ internal_handler' = "live"
        /\ m_value' \in {"own", "mixed"} /\ (~again => m_value' = "own")
        /\ strayed' = FALSE /\ isNull' = FALSE
        /\ UNCHANGED <<again, report, uses>>
    <2>1. internal_handler' = "live"
      BY <1>3, <1>7 DEF PointerTyped
    <2>2. strayed' = FALSE
      BY <1>3, <1>7
    <2>3. isNull' = FALSE
      BY <1>3, <1>7 DEF Pointer!AtRoot
    <2> QED
      BY <1>6, <1>7, <2>1, <2>2, <2>3
  <1>10. CASE response.error
    <2>1. phase' = "failed" /\ parsed' = parsed
      BY <1>7, <1>10
    <2>2. PointerTyped'
      <3>1. strayed' \in BOOLEAN /\ isNull' \in BOOLEAN
        BY <1>9, Zenon
      <3> QED
        BY <1>1, <1>5, <1>8, <1>9, <2>1, <3>1 
           DEF PointerTyped, Phases, Pointer!Values
    <2>3. PointerReturns
      BY <1>9, <2>1 DEF PointerReturns
    <2> QED
      BY <1>3, <1>9, <1>10, <2>1, <2>2, <2>3 DEF PointerInv, PointerBroken
  <1>11. CASE ~response.error
    <2>1. /\ phase' = IF nest' = <<>> THEN "complete" ELSE "reading"
          /\ parsed' = IF method = "startObject" THEN parsed ELSE response.parsed
      BY <1>7, <1>11 DEF Pointer!ParsedAfterwards
    <2>2. PointerTyped'
      <3>1. strayed' \in BOOLEAN /\ isNull' \in BOOLEAN
        BY <1>9, Zenon
      <3>2. parsed' \in BOOLEAN
        BY <1>8, <2>1 DEF Part, PointerTyped
      <3>3. phase' \in Phases
        BY <2>1 DEF Phases
      <3> QED
        BY <1>1, <1>5, <1>8, <1>9, <3>1, <3>2, <3>3 
           DEF PointerTyped, Pointer!Values
    <2>3. CASE nest' = <<>>
      <3>1. method # "startObject"
        <4>1. nest' = <<>> => event # "start"
          BY <1>1, <1>3, <1>4, <1>8 DEF OpenAfter
        <4> QED
          BY <2>3, <4>1 DEF Pointer!SaxEvent
      <3>2. phase' = "complete" /\ parsed' = response.parsed
        BY <2>1, <2>3, <3>1
      <3>3. PointerDone'
        <4>1. /\ depth' = 0 /\ response.open = 0 /\ response.parsed
          BY <1>1, <1>5, <1>8, <1>11, <2>3
        <4> QED
          BY <1>3, <1>9, <1>11, <2>3, <3>2, <4>1 DEF PointerDone
      <3>4. PointerReturns
        BY <1>9, <2>1, <2>3, <3>2 DEF PointerReturns, Accept
      <3> QED
        BY <1>9, <2>2, <3>2, <3>3, <3>4 DEF PointerInv
    <2>4. CASE nest' # <<>>
      <3>1. phase' = "reading" /\ response.open = Len(nest') /\ response.open # 0
        BY <1>1, <1>8, <1>11, <2>1, <2>4
      <3>2. /\ ~again => ~response.parsed /\ ~parsed'
            /\ response.parsed => parsed'
            /\ parsed' => parsed
        BY <1>3, <1>8, <1>11, <2>1, <3>1
      <3>3. PointerGoes'
        BY <1>3, <1>5, <1>9, <1>11, <2>4, <3>1, <3>2 DEF PointerGoes
      <3>4. PointerReturns
        BY <1>9, <2>1, <2>4, <3>1, <3>2 DEF PointerReturns, Accept
      <3> QED
        BY <1>9, <2>2, <3>1, <3>3, <3>4 DEF PointerInv
    <2> QED
      BY <2>3, <2>4
  <1> QED
    BY <1>10, <1>11

PointerEvent ==
    \/ Pointer!Scalar \/ Pointer!Null \/ Pointer!Key \/ Pointer!StartObject
    \/ Pointer!EndObject \/ Pointer!StartArray \/ Pointer!EndArray

LEMMA PointerEvents ==
    ASSUME PointerTyped, PointerInv, PointerEvent
    PROVE  PointerTyped' /\ PointerInv' /\ PointerReturns
  <1> DEFINE own == [Fresh EXCEPT !.open = depth]
  <1>0. depth \in Nat /\ own.open = depth
    BY DEF PointerTyped, Fresh
  <1>1. CASE Pointer!Scalar
    <2>1. /\ ReadEvent("scalar") /\ Pointer!Forward("scalar")
          /\ ~(again /\ nest = <<>>)
          /\ depth' = OpenAfter(own, "scalar")
          /\ Pointer!SaxEvent("scalar") = "scalar"
      BY <1>0, <1>1, PointerReader
         DEF Pointer!Scalar, Pointer!FirstOfRepeated, Pointer!AtRoot, ReadEvent,
             OpenAfter, Pointer!SaxEvent
    <2> QED
      BY <2>1, PointerForward
  <1>2. CASE Pointer!Null
    <2>1. ReadEvent("scalar") /\ ~(again /\ nest = <<>>) /\ depth' = depth
      BY <1>2, PointerReader
         DEF Pointer!Null, Pointer!FirstOfRepeated, Pointer!AtRoot, ReadEvent
    <2>2. CASE ~Pointer!OwnNull
      <3>1. /\ Pointer!Forward("scalar")
            /\ depth' = OpenAfter(own, "scalar")
            /\ Pointer!SaxEvent("scalar") = "scalar"
        BY <1>0, <1>2, <2>1, <2>2
           DEF Pointer!Null, OpenAfter, Pointer!SaxEvent
      <3> QED
        BY <2>1, <3>1, PointerForward
    <2>3. CASE Pointer!OwnNull
      <3>1. /\ depth = 0
            /\ m_value' = "null" /\ parsed' = TRUE
            /\ internal_handler'
                   = IF internal_handler = "none" THEN "none" ELSE "stale"
            /\ phase' = IF nest' = <<>> THEN "complete" ELSE "reading"
            /\ isNull' = (isNull \/ nest = <<>>)
            /\ UNCHANGED <<internal, again, strayed, report, uses>>
        BY <1>2, <2>3
           DEF Pointer!Null, Pointer!OwnNull, Pointer!NoHandler, Pointer!Accept,
               Pointer!AtRoot
      <3>2. /\ Active /\ nest \in Seq(Frame) /\ Len(nest) \in Nat
            /\ nest = <<>> <=> Len(nest) = 0
        BY <2>1, ReadEventFacts DEF PointerTyped
      <3>3. nest = <<>> /\ nest' = <<>> /\ PointerIdle /\ ~again
        <4>1. ~PointerGoes
          BY <3>1, <3>2 DEF PointerGoes
        <4>2. nest = <<>> /\ PointerIdle
          BY <3>2, <4>1 DEF Active, PointerInv, PointerIdle
        <4> QED
          BY <2>1, <4>2, ReadAtRoot
      <3>4. /\ internal_handler' = "none" /\ internal' = Fresh
            /\ phase' = "complete" /\ isNull' = TRUE
        BY <3>1, <3>3 DEF PointerIdle
      <3>5. PointerTyped'
        <4>1. parsed' \in BOOLEAN /\ isNull' \in BOOLEAN
          BY <3>1, <3>4, Zenon
        <4>2. nest' \in Seq(Frame)
          BY <3>3
        <4> QED
          BY <2>1, <3>1, <3>4, <4>1, <4>2, FreshFacts
             DEF PointerTyped, Phases, Pointer!Values
      <3>6. PointerDone'
        BY <2>1, <3>1, <3>3, <3>4, FreshFacts DEF PointerDone, PointerIdle
      <3>7. PointerReturns
        BY <3>1, <3>4 DEF PointerReturns, Accept
      <3> QED
        BY <3>1, <3>4, <3>5, <3>6, <3>7 DEF PointerInv
    <2> QED
      BY <2>2, <2>3
  <1>3. CASE Pointer!Key
    <2>1. /\ ReadEvent("key") /\ Pointer!Forward("key")
          /\ depth' = OpenAfter(own, "key")
          /\ Pointer!SaxEvent("key") = "key"
      BY <1>0, <1>3, PointerReader
         DEF Pointer!Key, ReadEvent, OpenAfter, Pointer!SaxEvent
    <2>2. nest # <<>>
      BY <2>1, ReadAtRoot
    <2> QED
      BY <2>1, <2>2, PointerForward
  <1>4. CASE Pointer!StartObject
    <2>1. /\ ReadEvent("start") /\ Pointer!Forward("startObject")
          /\ depth' = OpenAfter(own, "start")
          /\ Pointer!SaxEvent("startObject") = "start"
      BY <1>0, <1>4, PointerReader
         DEF Pointer!StartObject, Pointer!Opened, ReadEvent, OpenAfter,
             Pointer!SaxEvent, Kinds
    <2> QED
      BY <2>1, PointerForward
  <1>5. CASE Pointer!StartArray
    <2>1. /\ ReadEvent("start") /\ Pointer!Forward("startArray")
          /\ depth' = OpenAfter(own, "start")
          /\ Pointer!SaxEvent("startArray") = "start"
          /\ ~(again /\ nest = <<>>)
      BY <1>0, <1>5, PointerReader
         DEF Pointer!StartArray, Pointer!Opened, ReadEvent, OpenAfter,
             Pointer!SaxEvent, Pointer!FirstOfRepeated, Pointer!AtRoot, Kinds
    <2> QED
      BY <2>1, PointerForward
  <1>6. CASE Pointer!EndObject \/ Pointer!EndArray
    <2>1. /\ ReadEvent("end") /\ Pointer!Forward("end") /\ depth' = depth - 1
          /\ Pointer!SaxEvent("end") = "end"
      BY <1>6, PointerReader
         DEF Pointer!EndObject, Pointer!EndArray, Pointer!End, ReadEvent,
             Pointer!SaxEvent, Kinds
    <2>2. nest # <<>>
      BY <2>1, ReadAtRoot
    <2>3. depth > 0
      <3>1. Active /\ Len(nest) \in Nat /\ Len(nest) # 0
        BY <2>1, <2>2, ReadEventFacts DEF PointerTyped
      <3>2. PointerGoes
        BY <2>2, <3>1 DEF Active, PointerInv
      <3> QED
        BY <3>1, <3>2 DEF PointerGoes
    <2>4. depth' = OpenAfter(own, "end")
      BY <1>0, <2>1, <2>3 DEF OpenAfter
    <2> QED
      BY <2>1, <2>2, <2>4, PointerForward
  <1> QED
    BY <1>1, <1>2, <1>3, <1>4, <1>5, <1>6 DEF PointerEvent

LEMMA PointerNext ==
    PointerTyped /\ PointerInv /\ Pointer!Next => PointerTyped' /\ PointerInv'
  <1> SUFFICES ASSUME PointerTyped, PointerInv, Pointer!Next
               PROVE  PointerTyped' /\ PointerInv'
    OBVIOUS
  <1>1. CASE PointerEvent
    BY <1>1, PointerEvents
  <1>2. CASE Pointer!PrepareForReuse
    <2>1. /\ nest' = <<>> /\ phase' = "ready"
          /\ m_value' = "null" /\ internal_handler' = "none" /\ internal' = Fresh
          /\ depth' = 0 /\ parsed' = FALSE /\ again' = FALSE /\ isNull' = FALSE
          /\ report' = <<>> /\ uses' = uses + 1 /\ strayed' = strayed
      BY <1>2, PointerContract
         DEF Pointer!PrepareForReuse, Pointer!NextText, Pointer!Drop
    <2>2. PointerTyped'
      <3>1. /\ parsed' \in BOOLEAN /\ again' \in BOOLEAN /\ isNull' \in BOOLEAN
        BY <2>1, Zenon
      <3>2. /\ nest' \in Seq(Frame) /\ report' \in Seq({"part"})
        BY <2>1
      <3> QED
        BY <2>1, <3>1, <3>2, FreshFacts DEF PointerTyped, Phases, Pointer!Values
    <2> QED
      BY <2>1, <2>2, FreshFacts DEF PointerInv, PointerIdle
  <1>3. CASE Pointer!Again
    <2>1. /\ nest' = <<>> /\ phase' = "ready" /\ PointerDone
          /\ UNCHANGED <<m_value, internal_handler, internal, depth, parsed,
                         strayed, isNull, report>>
          /\ again' = TRUE /\ uses' = uses + 1
      BY <1>3
         DEF Pointer!Again, Pointer!NextText, Pointer!pointerVars, PointerInv
    <2>2. PointerTyped'
      <3>1. again' \in BOOLEAN /\ nest' \in Seq(Frame)
        BY <2>1
      <3> QED
        BY <2>1, <3>1 DEF PointerTyped, Phases
    <2>3. PointerIdle'
      BY <2>1 DEF PointerIdle, PointerDone, PointerTyped
    <2> QED
      BY <2>1, <2>2, <2>3 DEF PointerInv
  <1>4. CASE Pointer!ReapError
    <2>1. /\ internal_handler # "none" /\ internal.error
          /\ report' = Append(report, "part") /\ internal' = Reaped(internal)
          /\ UNCHANGED <<nest, phase, m_value, internal_handler, depth, parsed,
                         again, strayed, isNull, uses>>
      BY <1>4, PointerContract
         DEF Pointer!ReapError, Pointer!has_error, Pointer!NoHandler,
             Pointer!readerVars
    <2>2. phase = "failed" /\ PointerBroken
      BY <2>1
         DEF PointerTyped, Phases, PointerInv, PointerIdle, PointerGoes,
             PointerDone
    <2>3. internal' \in Part /\ internal'.error = FALSE
      BY <2>1 DEF PointerTyped, Part, Reaped
    <2>4. report' = <<"part">> /\ report' \in Seq({"part"})
      BY <2>1, <2>2 DEF PointerBroken
    <2>5. PointerTyped'
      BY <2>1, <2>3, <2>4 DEF PointerTyped
    <2>6. PointerBroken'
      BY <2>1, <2>2, <2>3, <2>4 DEF PointerBroken
    <2> QED
      BY <2>1, <2>2, <2>5, <2>6 DEF PointerInv
  <1> QED
    BY <1>1, <1>2, <1>3, <1>4 DEF Pointer!Next, PointerEvent

LEMMA PointerKeeps ==
    PointerTyped /\ PointerInv
        => /\ Pointer!OneCause /\ Pointer!ValueFollowsText
           /\ Pointer!ObjectInStep /\ Pointer!NeverStrays
  <1> SUFFICES ASSUME PointerTyped, PointerInv
               PROVE  /\ Pointer!OneCause /\ Pointer!ValueFollowsText
                      /\ Pointer!ObjectInStep /\ Pointer!NeverStrays
    OBVIOUS
  <1>1. Pointer!OneCause
    <2>1. phase # "failed" => report = <<>>
      BY DEF PointerTyped, Phases, PointerInv, PointerIdle, PointerGoes,
             PointerDone
    <2>2. \/ report = <<>>
          \/ report = <<"part">> /\ ~internal.error
      BY <2>1 DEF PointerInv, PointerBroken
    <2>3. Len(<<>>) = 0 /\ Len(<<"part">>) = 1
      OBVIOUS
    <2>4. CASE report = <<>>
      BY <2>3, <2>4 DEF Pointer!OneCause, Pointer!has_error
    <2>5. CASE report = <<"part">> /\ ~internal.error
      BY <2>3, <2>5 DEF Pointer!OneCause, Pointer!has_error
    <2> QED
      BY <2>2, <2>4, <2>5
  <1>2. Pointer!ValueFollowsText
    BY DEF PointerInv, PointerDone, Pointer!ValueFollowsText
  <1>3. Pointer!ObjectInStep /\ Pointer!NeverStrays
    BY DEF PointerInv, PointerGoes, Pointer!ObjectInStep, Pointer!NeverStrays
  <1> QED
    BY <1>1, <1>2, <1>3

-------------------------------------------------------------------------------
(* TupleHander.  Whatever the text is, at most one element's handler has an *)
(* error, that of the element the error names; this is why the chain that   *)
(* reap_error collects from all of them has one cause.  Within an array,    *)
(* the handler at index is as deep as the text, those before it are parsed  *)
(* and those after it have seen nothing.                                    *)
TupleErrors ==
    /\ depth = Count(nest, "array")
    /\ \A i \in 1..N : handlers[i].error <=> the_error = i - 1
    /\ phase # "failed" => the_error = N /\ report = <<>>
    /\ report # <<>> => Len(report) = 2 /\ the_error = N
    /\ phase = "reading" => nest # <<>>
    /\ phase \in {"ready", "complete"} => nest = <<>>

TupleIdle ==
    /\ root = "none" /\ index = 0 /\ ~parsed
    /\ \A i \in 1..N : handlers[i] = Fresh /\ m_value[i] = "old"

TuplePlaces(size, open) ==
    /\ index = IF N < size THEN N ELSE size
    /\ \A i \in 1..N :
          /\ handlers[i].open = IF i = index + 1 THEN open ELSE 0
          /\ handlers[i].parsed <=> i <= index
          /\ m_value[i] = IF i <= index \/ handlers[i].open > 0
                          THEN "own" ELSE "old"

InTuple ==
    /\ nest[1].kind = "array" /\ ~parsed
    /\ TuplePlaces(Size(nest[1]), Len(nest) - 1)

TupleDone == parsed /\ TuplePlaces(length, 0)

TupleBroken == ~parsed /\ (report = <<>> => the_error # N)

TupleInv ==
    /\ TupleErrors
    /\ phase = "ready" => TupleIdle
    /\ phase # "ready" => root # "none"
    /\ root = "array" =>
          /\ phase = "reading" => InTuple
          /\ phase = "complete" => TupleDone
          /\ phase = "failed" => TupleBroken

TupleTyped ==
    /\ nest \in Seq(Frame) /\ phase \in Phases
    /\ handlers \in [1..N -> Part]
    /\ m_value \in [1..N -> {"old", "own", "mixed"}]
    /\ index \in 0..N /\ depth \in Nat
    /\ the_error \in 0..N
    /\ parsed \in BOOLEAN
    /\ root \in {"none", "scalar"} \cup Kinds
    /\ length \in Nat
    /\ report \in Seq({"ARRAY_ELEMENT", "part"}) /\ uses \in Nat

LEMMA TupleTypes ==
    /\ Tuple!TypeOK <=> TupleTyped
    /\ Tuple!TypeOK' <=> TupleTyped'
  BY TupleContract, Zenon
     DEF Tuple!TypeOK, Tuple!ReaderTypeOK, Tuple!Element, TupleTyped

LEMMA ResponseType ==
    ASSUME NEW part \in Part, NEW event \in Events,
           NEW response \in Responses(part, event)
    PROVE  response \in Part
  <1>0. OpenAfter(part, event) \in Nat /\ part.parsed \in BOOLEAN
    BY DEF Part, OpenAfter, Events
  <1>1. CASE response \in Rejected(part, event)
    BY <1>0, <1>1, RejectedFacts
  <1>2. CASE response \in Accepted(part, event)
    <2>1. PICK p \in ParsedAfter(part, event) :
              response = [open |-> OpenAfter(part, event), parsed |-> p,
                          error |-> FALSE]
      BY <1>2 DEF Accepted
    <2>2. p \in BOOLEAN
      BY <1>0, <2>1 DEF ParsedAfter
    <2> QED
      BY <1>0, <2>1, <2>2 DEF Part
  <1> QED
    BY <1>1, <1>2 DEF Responses

(* What becomes of the elements: nothing, or one handler answers.           *)
TupleSwallows ==
    /\ UNCHANGED <<handlers, m_value, index, the_error>>
    /\ phase' = IF nest' = <<>> THEN "complete" ELSE "reading"

TupleAnswers(i, response) ==
    /\ i = index + 1 /\ i \in 1..N
    /\ handlers' = [handlers EXCEPT ![i] = response]
    /\ m_value' = [m_value EXCEPT ![i] = Tuple!Touched(i)]
    /\ \/ /\ response.error
          /\ the_error' = index /\ phase' = "failed" /\ index' = index
       \/ /\ ~response.error
          /\ the_error' = the_error
          /\ phase' = IF nest' = <<>> THEN "complete" ELSE "reading"
          /\ index' = IF response.parsed THEN index + 1 ELSE index

LEMMA TupleForwards ==
    ASSUME TupleTyped, NEW event \in Events, Tuple!Forward(event)
    PROVE  \/ index = N /\ TupleSwallows
           \/ \E i \in 1..N : \E response \in Responses(handlers[i], event) :
                  TupleAnswers(i, response)
  <1>0. N \in Nat \ {0} /\ index \in 0..N
    BY ForwardingAssumption DEF TupleTyped
  <1>1. CASE Tuple!Full
    BY <1>0, <1>1
       DEF Tuple!Full, Tuple!Forward, Tuple!Swallow, Tuple!Accept, TupleSwallows
  <1>2. CASE ~Tuple!Full
    <2>1. Tuple!Postcheck(event) /\ index + 1 \in 1..N
      BY <1>0, <1>2 DEF Tuple!Full, Tuple!Forward
    <2>2. PICK response \in Responses(handlers[index + 1], event) :
              /\ handlers' = [handlers EXCEPT ![index + 1] = response]
              /\ m_value' = [m_value EXCEPT
                                ![index + 1] = Tuple!Touched(index + 1)]
              /\ \/ /\ response.error
                    /\ the_error' = Tuple!ErrorIndex
                    /\ Tuple!Terminate
                    /\ UNCHANGED index
                 \/ /\ ~response.error
                    /\ index' = IF response.parsed THEN index + 1 ELSE index
                    /\ Tuple!Accept
                    /\ UNCHANGED the_error
      BY <2>1, TupleContract DEF Tuple!Postcheck
    <2>3. TupleAnswers(index + 1, response)
      BY <2>1, <2>2
         DEF TupleAnswers, Tuple!ErrorIndex, Tuple!Terminate, Tuple!Accept
    <2> QED
      BY <2>1, <2>2, <2>3
  <1> QED
    BY <1>1, <1>2

LEMMA TupleAnswered ==
    ASSUME TupleTyped, NEW i \in 1..N, NEW event \in Events,
           NEW response \in Responses(handlers[i], event),
           TupleAnswers(i, response), the_error = N,
           \A j \in 1..N : handlers[j].error <=> the_error = j - 1
    PROVE  /\ handlers' \in [1..N -> Part]
           /\ m_value' \in [1..N -> {"old", "own", "mixed"}]
           /\ index' \in 0..N /\ the_error' \in 0..N
           /\ \A j \in 1..N : handlers'[j].error <=> the_error' = j - 1
           /\ phase' = "failed" => the_error' # N
           /\ phase' # "failed" => the_error' = N
           /\ phase' \in {"failed", IF nest' = <<>> THEN "complete" ELSE "reading"}
  <1>0. /\ N \in Nat \ {0} /\ index \in 0..N /\ i = index + 1
        /\ handlers \in [1..N -> Part]
        /\ m_value \in [1..N -> {"old", "own", "mixed"}]
    BY ForwardingAssumption DEF TupleTyped, TupleAnswers
  <1>1. response \in Part
    BY <1>0, ResponseType
  <1>2. Tuple!Touched(i) \in {"old", "own", "mixed"}
    BY <1>0 DEF Tuple!Touched
  <1>3. /\ handlers' = [handlers EXCEPT ![i] = response]
        /\ m_value' = [m_value EXCEPT ![i] = Tuple!Touched(i)]
    BY DEF TupleAnswers
  <1>4. /\ handlers' \in [1..N -> Part]
        /\ m_value' \in [1..N -> {"old", "own", "mixed"}]
    BY <1>0, <1>1, <1>2, <1>3
  <1>5. /\ handlers'[i] = response
        /\ \A j \in 1..N : j # i => handlers'[j] = handlers[j]
    BY <1>0, <1>3
  <1>6. \A j \in 1..N : ~handlers[j].error
    <2> SUFFICES ASSUME NEW j \in 1..N PROVE ~handlers[j].error
      OBVIOUS
    <2>1. the_error # j - 1
      BY <1>0
    <2> QED
      BY <2>1
  <1>7. CASE response.error
    <2>1. the_error' = index /\ phase' = "failed" /\ index' = index
      BY <1>7 DEF TupleAnswers
    <2>2. \A j \in 1..N : handlers'[j].error <=> j = i
      BY <1>5, <1>6, <1>7
    <2>3. \A j \in 1..N : j = i <=> the_error' = j - 1
      BY <1>0, <2>1
    <2>4. \A j \in 1..N : handlers'[j].error <=> the_error' = j - 1
      BY <2>2, <2>3, Zenon
    <2>5. index' \in 0..N /\ the_error' \in 0..N /\ the_error' # N
      BY <1>0, <2>1
    <2> QED
      BY <1>4, <2>1, <2>4, <2>5
  <1>8. CASE ~response.error
    <2>1. /\ the_error' = the_error
          /\ phase' = IF nest' = <<>> THEN "complete" ELSE "reading"
          /\ index' = IF response.parsed THEN index + 1 ELSE index
      BY <1>8 DEF TupleAnswers
    <2>2. \A j \in 1..N : ~handlers'[j].error
      BY <1>5, <1>6, <1>8
    <2>3. \A j \in 1..N : the_error' # j - 1
      BY <1>0, <2>1
    <2>4. \A j \in 1..N : handlers'[j].error <=> the_error' = j - 1
      BY <2>2, <2>3, Zenon
    <2>5. index' \in 0..N /\ the_error' \in 0..N /\ the_error' = N
      BY <1>0, <2>1
    <2>6. phase' # "failed"
      BY <2>1
    <2> QED
      BY <1>4, <2>1, <2>4, <2>5, <2>6
  <1> QED
    BY <1>7, <1>8

(* An event of any text: the elements answer or nothing happens to them.    *)
TupleReads(event) ==
    /\ ReadEvent(event)
    /\ Tuple!Forward(event) \/ Tuple!Swallow
    /\ depth' = Count(nest', "array")
    /\ UNCHANGED <<report, uses>>
    /\ parsed' \in BOOLEAN /\ length' \in Nat
    /\ root' \in {"scalar"} \cup Kinds

LEMMA TupleReadsTyped ==
    ASSUME TupleTyped, TupleErrors, NEW event, TupleReads(event)
    PROVE  /\ TupleTyped' /\ TupleErrors'
           /\ phase' = "failed" => the_error' # N
           /\ phase' \in {"failed", IF nest' = <<>> THEN "complete" ELSE "reading"}
  <1>1. /\ event \in Events /\ Active /\ nest' \in Seq(Frame)
    BY ReadEventFacts DEF TupleReads, TupleTyped
  <1>2. /\ the_error = N /\ report = <<>> /\ report' = <<>>
        /\ \A j \in 1..N : handlers[j].error <=> the_error = j - 1
    BY <1>1 DEF Active, TupleErrors, TupleReads
  <1>3. depth' \in Nat /\ depth' = Count(nest', "array")
    BY <1>1, CountFinite DEF TupleReads
  <1>4. CASE TupleSwallows
    <2>1. phase' = IF nest' = <<>> THEN "complete" ELSE "reading"
      BY <1>4 DEF TupleSwallows
    <2>2. TupleTyped'
      <3>1. phase' \in Phases
        BY <2>1 DEF Phases
      <3> QED
        BY <1>1, <1>3, <1>4, <3>1 DEF TupleTyped, TupleSwallows, TupleReads
    <2>3. TupleErrors'
      BY <1>2, <1>3, <1>4, <2>1 DEF TupleErrors, TupleSwallows
    <2> QED
      BY <2>1, <2>2, <2>3
  <1>5. ASSUME NEW i \in 1..N, NEW response \in Responses(handlers[i], event),
               TupleAnswers(i, response)
        PROVE  /\ TupleTyped' /\ TupleErrors'
               /\ phase' = "failed" => the_error' # N
               /\ phase' \in {"failed", IF nest' = <<>> THEN "complete" ELSE "reading"}
    <2>1. /\ handlers' \in [1..N -> Part]
          /\ m_value' \in [1..N -> {"old", "own", "mixed"}]
          /\ index' \in 0..N /\ the_error' \in 0..N
          /\ \A j \in 1..N : handlers'[j].error <=> the_error' = j - 1
          /\ phase' = "failed" => the_error' # N
          /\ phase' # "failed" => the_error' = N
          /\ phase' \in {"failed", IF nest' = <<>> THEN "complete" ELSE "reading"}
      BY <1>1, <1>2, <1>5, TupleAnswered
    <2>2. TupleTyped'
      <3>1. phase' \in Phases
        BY <2>1 DEF Phases
      <3> QED
        BY <1>1, <1>3, <2>1, <3>1 DEF TupleTyped, TupleReads
    <2>3. TupleErrors'
      BY <1>2, <1>3, <2>1 DEF TupleErrors
    <2> QED
      BY <2>1, <2>2, <2>3
  <1>6. Tuple!Swallow => TupleSwallows
    BY DEF Tuple!Swallow, Tuple!Accept, TupleSwallows
  <1> QED
    BY <1>1, <1>4, <1>5, <1>6, TupleForwards DEF TupleReads

(* Within an array, an answer leaves the elements in their places.          *)
TupleWithin(event) ==
    /\ InTuple /\ root = "array"
    /\ Tuple!Forward(event) /\ UNCHANGED <<parsed, length>>
    /\ event \in {"key", "end"} => Len(nest) > 1

LEMMA TuplePlaced ==
    ASSUME TupleTyped, TupleErrors, nest # <<>>,
           NEW event, TupleReads(event), TupleWithin(event), phase' # "failed"
    PROVE  phase' = "reading" /\ InTuple'
  <1>1. /\ event \in Events /\ Active /\ nest' \in Seq(Frame)
        /\ Len(nest) \in Nat /\ Len(nest') \in Nat
        /\ \A part \in Part :
               nest # <<>> /\ part.open = Len(nest) - 1
               /\ (event \in {"key", "end"} => Len(nest) > 1)
               => Fits(part, event) /\ OpenAfter(part, event) = Len(nest') - 1
    BY ReadEventFacts DEF TupleReads, TupleTyped
  <1>2. /\ nest' # <<>> /\ nest'[1].kind = "array" /\ Len(nest') # 0
        /\ Size(nest'[1]) = Size(nest[1]) + (IF Len(nest') = 1 THEN 1 ELSE 0)
        /\ Size(nest[1]) \in Nat
    <2>1. nest' # <<>>
      <3>1. nest' = <<>> => event = "end" /\ Len(nest) = 1
        BY WithinFacts DEF TupleReads, TupleTyped
      <3>2. event = "end" => Len(nest) > 1
        BY DEF TupleWithin
      <3>3. \A n \in Nat : n > 1 => n # 1
        OBVIOUS
      <3> QED
        BY <1>1, <3>1, <3>2, <3>3, Zenon
    <2>2. /\ nest'[1].kind = nest[1].kind /\ nest[1] \in Frame
          /\ Len(nest') = 1 /\ event \in {"scalar", "end"} =>
                 Size(nest'[1]) = Size(nest[1]) + 1
          /\ Len(nest') # 1 => nest'[1] = nest[1]
          /\ event = "key" => Size(nest'[1]) = Size(nest[1])
          /\ event = "start" => Len(nest') # 1
      BY <2>1, WithinFacts DEF TupleReads, TupleTyped
    <2>3. event = "key" => Len(nest') # 1
      BY <2>1, ReadKeyFacts DEF TupleReads, ReadEvent, TupleWithin, TupleTyped
    <2>4. Len(nest') # 0
      BY <1>1, <2>1
    <2>5. Size(nest[1]) \in Nat
      BY <2>2, SizeType
    <2>6. Size(nest'[1]) = Size(nest[1]) + (IF Len(nest') = 1 THEN 1 ELSE 0)
      BY <1>1, <2>2, <2>3, <2>5 DEF Events
    <2> QED
      BY <2>1, <2>2, <2>4, <2>5, <2>6 DEF TupleWithin, InTuple
  <1>3. phase' = "reading"
    BY <1>2, TupleReadsTyped
  <1>4. /\ nest[1].kind = "array" /\ ~parsed'
        /\ TuplePlaces(Size(nest[1]), Len(nest) - 1)
    BY DEF TupleWithin, InTuple
  <1> DEFINE size == Size(nest[1])
  <1>5. /\ N \in Nat \ {0} /\ index \in 0..N /\ size \in Nat
        /\ index = IF N < size THEN N ELSE size
        /\ \A i \in 1..N :
              /\ handlers[i].open = IF i = index + 1 THEN Len(nest) - 1 ELSE 0
              /\ handlers[i].parsed <=> i <= index
              /\ m_value[i] = IF i <= index \/ handlers[i].open > 0 THEN "own"
                              ELSE "old"
        /\ handlers \in [1..N -> Part]
        /\ m_value \in [1..N -> {"old", "own", "mixed"}]
    BY <1>2, <1>4, ForwardingAssumption DEF TupleTyped, TuplePlaces
  <1>6. Size(nest'[1]) = size + (IF Len(nest') = 1 THEN 1 ELSE 0)
    BY <1>2
  <1> HIDE DEF size
  <1>7. CASE index = N /\ TupleSwallows
    <2>1. /\ handlers' = handlers /\ m_value' = m_value /\ index' = index
      BY <1>7 DEF TupleSwallows
    <2>2. index = IF N < Size(nest'[1]) THEN N ELSE Size(nest'[1])
      BY <1>5, <1>6, <1>7
    <2>3. \A i \in 1..N : i # index + 1
      BY <1>5, <1>7
    <2>4. TuplePlaces(Size(nest[1]), Len(nest) - 1)'
      BY <1>5, <2>1, <2>2, <2>3 DEF TuplePlaces
    <2> QED
      BY <1>2, <1>3, <1>4, <2>4 DEF InTuple
  <1>8. ASSUME NEW i \in 1..N, NEW response \in Responses(handlers[i], event),
               TupleAnswers(i, response)
        PROVE  InTuple'
    <2>1. /\ i = index + 1 /\ handlers[i] \in Part
          /\ handlers[i].open = Len(nest) - 1 /\ ~handlers[i].parsed
          /\ size = index
      BY <1>5, <1>8 DEF TupleAnswers
    <2>2. /\ Fits(handlers[i], event)
          /\ OpenAfter(handlers[i], event) = Len(nest') - 1
      BY <1>1, <2>1 DEF TupleWithin
    <2>3. /\ ~response.error
          /\ handlers' = [handlers EXCEPT ![i] = response]
          /\ m_value' = [m_value EXCEPT ![i] = Tuple!Touched(i)]
          /\ index' = IF response.parsed THEN index + 1 ELSE index
      BY <1>3, <1>8 DEF TupleAnswers
    <2>4. /\ response \in Part /\ response.open = Len(nest') - 1
          /\ response.open = 0 => response.parsed
          /\ response.open # 0 => response.parsed = FALSE
      <3>1. /\ response \in Part
            /\ response.open = OpenAfter(handlers[i], event)
            /\ response.open = 0 => response.parsed
            /\ response.open # 0 =>
                   response.parsed = FALSE \/ response.parsed = handlers[i].parsed
        <4>1. /\ handlers[i] \in Part /\ event \in Events
              /\ Fits(handlers[i], event) /\ ~response.error
              /\ response \in Responses(handlers[i], event)
          BY <1>1, <1>8, <2>1, <2>2, <2>3
        <4> QED
          BY <4>1, ResponseFacts
      <3>2. handlers[i].parsed = FALSE
        BY <2>1 DEF Part
      <3> QED
        BY <2>2, <3>1, <3>2
    <2>5. Tuple!Touched(i) = "own"
      <3>1. m_value[i] = IF handlers[i].open > 0 THEN "own" ELSE "old"
        BY <1>5, <2>1
      <3> QED
        BY <3>1 DEF Tuple!Touched
    <2>6. /\ handlers'[i] = response /\ m_value'[i] = "own"
          /\ \A j \in 1..N : j # i =>
                 handlers'[j] = handlers[j] /\ m_value'[j] = m_value[j]
      BY <1>5, <2>3, <2>5
    <2>7. CASE Len(nest') = 1
      <3>1. response.open = 0 /\ response.parsed /\ index' = index + 1
        BY <2>3, <2>4, <2>7
      <3>2. index' = IF N < Size(nest'[1]) THEN N ELSE Size(nest'[1])
        BY <1>5, <1>6, <2>1, <2>7, <3>1
      <3>3. TuplePlaces(Size(nest[1]), Len(nest) - 1)'
        <4>1. ASSUME NEW j \in 1..N
              PROVE  /\ handlers'[j].open = IF j = index' + 1 THEN Len(nest') - 1
                                            ELSE 0
                     /\ handlers'[j].parsed <=> j <= index'
                     /\ m_value'[j] = IF j <= index' \/ handlers'[j].open > 0
                                      THEN "own" ELSE "old"
          <5>0. Len(nest') - 1 = 0
            BY <2>7
          <5>1. CASE j = i
            BY <1>5, <2>1, <2>6, <3>1, <5>0, <5>1
          <5>2. CASE j # i
            <6>1. handlers'[j] = handlers[j] /\ m_value'[j] = m_value[j]
              BY <2>6, <5>2
            <6>2. /\ handlers[j].open = 0 /\ (handlers[j].parsed <=> j <= index)
                  /\ m_value[j] = IF j <= index THEN "own" ELSE "old"
              BY <1>5, <2>1, <5>2
            <6>3. j <= index <=> j <= index'
              BY <1>5, <2>1, <3>1, <5>2
            <6>4. ~(handlers'[j].open > 0)
              BY <6>1, <6>2
            <6> QED
              BY <5>0, <6>1, <6>2, <6>3, <6>4, Zenon
          <5> QED
            BY <5>1, <5>2
        <4> QED
          BY <3>2, <4>1 DEF TuplePlaces
      <3> QED
        BY <1>2, <1>4, <3>3 DEF InTuple
    <2>8. CASE Len(nest') # 1
      <3>1. response.open = Len(nest') - 1 /\ response.open > 0
            /\ response.parsed = FALSE /\ index' = index
        <4>0. \A n \in Nat : n # 0 /\ n # 1 => n - 1 > 0 /\ n - 1 # 0
          OBVIOUS
        <4>1. Len(nest') - 1 > 0 /\ Len(nest') - 1 # 0
          BY <1>1, <1>2, <2>8, <4>0, Zenon
        <4>2. response.open > 0 /\ response.open # 0
          BY <2>4, <4>1
        <4> QED
          BY <2>3, <2>4, <4>2
      <3>2. index' = IF N < Size(nest'[1]) THEN N ELSE Size(nest'[1])
        BY <1>5, <1>6, <2>1, <2>8, <3>1
      <3>3. TuplePlaces(Size(nest[1]), Len(nest) - 1)'
        <4>1. ASSUME NEW j \in 1..N
              PROVE  /\ handlers'[j].open = IF j = index' + 1 THEN Len(nest') - 1
                                            ELSE 0
                     /\ handlers'[j].parsed <=> j <= index'
                     /\ m_value'[j] = IF j <= index' \/ handlers'[j].open > 0
                                      THEN "own" ELSE "old"
          <5>1. CASE j = i
            BY <1>5, <2>1, <2>6, <3>1, <5>1
          <5>2. CASE j # i
            BY <1>5, <2>1, <2>6, <3>1, <5>2
          <5> QED
            BY <5>1, <5>2
        <4> QED
          BY <3>2, <4>1 DEF TuplePlaces
      <3> QED
        BY <1>2, <1>4, <3>3 DEF InTuple
    <2> QED
      BY <2>7, <2>8
  <1> QED
    BY <1>1, <1>3, <1>7, <1>8, TupleForwards DEF TupleWithin

(* The events of a text: it is no array; or it begins with one; or it is    *)
(* within it, or at its end.                                                *)
TupleBegins ==
    /\ TupleIdle /\ root' = "array" /\ Tuple!Swallow /\ UNCHANGED parsed
    /\ Len(nest') = 1 /\ nest'[1] = NewFrame("array")

TupleEnds ==
    /\ InTuple /\ root = "array" /\ root' = "array" /\ Tuple!Swallow
    /\ Len(nest) = 1 /\ nest' = <<>> /\ parsed' = TRUE /\ length' = Size(nest[1])

TupleEvent(event) ==
    /\ TupleReads(event)
    /\ \/ root # "array" /\ root' # "array"
       \/ TupleBegins
       \/ TupleWithin(event) /\ nest # <<>> /\ root' = root
       \/ TupleEnds

LEMMA TupleEventStep ==
    ASSUME TupleTyped, TupleInv, NEW event, TupleEvent(event)
    PROVE  TupleTyped' /\ TupleInv'
  <1>0. /\ TupleErrors /\ TupleReads(event)
        /\ N \in Nat \ {0} /\ report' = report
    BY ForwardingAssumption DEF TupleInv, TupleEvent, TupleReads
  <1>1. /\ TupleTyped' /\ TupleErrors'
        /\ phase' = "failed" => the_error' # N
        /\ phase' \in {"failed", IF nest' = <<>> THEN "complete" ELSE "reading"}
        /\ root' # "none"
    BY <1>0, TupleReadsTyped DEF TupleReads, Kinds
  <1>2. CASE root' # "array"
    BY <1>1, <1>2 DEF TupleInv
  <1>3. CASE TupleBegins
    <2>1. /\ nest' # <<>> /\ phase' = "reading"
          /\ UNCHANGED <<handlers, m_value, index, parsed>>
      BY <1>3 DEF TupleBegins, Tuple!Swallow, Tuple!Accept
    <2>2. nest'[1].kind = "array" /\ Size(nest'[1]) = 0 /\ Len(nest') - 1 = 0
      <3>1. "array" \in Kinds
        BY DEF Kinds
      <3> QED
        BY <1>3, <3>1, NewFrameType DEF TupleBegins
    <2>3. TuplePlaces(Size(nest[1]), Len(nest) - 1)'
      <3>1. index' = 0 /\ 0 = IF N < 0 THEN N ELSE 0
        BY <1>0, <1>3, <2>1 DEF TupleBegins, TupleIdle
      <3>2. ASSUME NEW i \in 1..N
            PROVE  /\ handlers'[i].open = 0 /\ handlers'[i].parsed = FALSE
                   /\ m_value'[i] = "old" /\ ~(i <= 0)
        BY <1>0, <1>3, <2>1, FreshFacts DEF TupleBegins, TupleIdle
      <3>3. index' = IF N < Size(nest'[1]) THEN N ELSE Size(nest'[1])
        BY <2>2, <3>1, Zenon
      <3>4. ASSUME NEW i \in 1..N
            PROVE  /\ handlers'[i].open = IF i = index' + 1 THEN Len(nest') - 1
                                          ELSE 0
                   /\ handlers'[i].parsed <=> i <= index'
                   /\ m_value'[i] = IF i <= index' \/ handlers'[i].open > 0
                                    THEN "own" ELSE "old"
        <4>1. handlers'[i].open = 0
          BY <3>2
        <4>2. ~(0 > 0)
          OBVIOUS
        <4> QED
          BY <2>2, <3>1, <3>2, <4>1, <4>2, Zenon
      <3> QED
        BY <3>3, <3>4 DEF TuplePlaces
    <2>4. InTuple'
      BY <1>3, <2>1, <2>2, <2>3 DEF InTuple, TupleBegins, TupleIdle
    <2> QED
      BY <1>1, <2>1, <2>4 DEF TupleInv
  <1>4. CASE TupleWithin(event) /\ nest # <<>> /\ root' = root
    <2>1. CASE phase' = "failed"
      <3>1. ~parsed'
        BY <1>4 DEF TupleWithin, InTuple
      <3> QED
        BY <1>1, <2>1, <3>1 DEF TupleInv, TupleBroken
    <2>2. CASE phase' # "failed"
      <3>1. phase' = "reading" /\ InTuple'
        BY <1>0, <1>4, <2>2, TuplePlaced
      <3> QED
        BY <1>1, <3>1 DEF TupleInv
    <2> QED
      BY <2>1, <2>2
  <1>5. CASE TupleEnds
    <2>1. /\ phase' = "complete" /\ parsed' = TRUE /\ length' = Size(nest[1])
          /\ UNCHANGED <<handlers, m_value, index>>
      BY <1>5 DEF TupleEnds, Tuple!Swallow, Tuple!Accept
    <2>2. TuplePlaces(Size(nest[1]), 0)
      <3>1. TuplePlaces(Size(nest[1]), Len(nest) - 1) /\ Len(nest) - 1 = 0
        BY <1>5 DEF TupleEnds, InTuple
      <3> QED
        BY <3>1, Zenon
    <2>3. TuplePlaces(length, 0)'
      BY <2>1, <2>2 DEF TuplePlaces
    <2> QED
      BY <1>1, <2>1, <2>3 DEF TupleInv, TupleDone
  <1> QED
    BY <1>2, <1>3, <1>4, <1>5 DEF TupleEvent

(* While a text can go on, it is the phase that says whether it has begun.  *)
LEMMA TupleActive ==
    ASSUME TupleTyped, TupleInv, NEW event, ReadEvent(event)
    PROVE  /\ nest \in Seq(Frame) /\ depth = Count(nest, "array") /\ depth \in Nat
           /\ parsed \in BOOLEAN /\ length \in Nat
           /\ root \in {"none", "scalar"} \cup Kinds
           /\ nest = <<>> <=> root = "none"
           /\ nest = <<>> => TupleIdle /\ event \in {"scalar", "start"}
           /\ nest # <<>> /\ root = "array" =>
                 /\ InTuple /\ Len(nest) \in Nat \ {0}
                 /\ depth >= 1
                 /\ nest[Len(nest)].kind = "array" => (depth = 1 <=> Len(nest) = 1)
                 /\ nest[Len(nest)].kind # "array" => Len(nest) > 1
  <1>1. /\ nest \in Seq(Frame) /\ depth \in Nat /\ Active
        /\ parsed \in BOOLEAN /\ length \in Nat
        /\ root \in {"none", "scalar"} \cup Kinds
        /\ depth = Count(nest, "array")
    BY ReadEventFacts DEF TupleTyped, TupleInv, TupleErrors
  <1>2. /\ nest = <<>> <=> root = "none"
        /\ nest = <<>> => TupleIdle
        /\ nest # <<>> /\ root = "array" => InTuple
    BY <1>1 DEF Active, TupleInv, TupleErrors, TupleIdle
  <1>3. nest = <<>> => event \in {"scalar", "start"}
    BY ReadAtRoot
  <1>4. ASSUME nest # <<>>, root = "array"
        PROVE  /\ Len(nest) \in Nat \ {0}
               /\ depth >= 1
               /\ nest[Len(nest)].kind = "array" => (depth = 1 <=> Len(nest) = 1)
               /\ nest[Len(nest)].kind # "array" => Len(nest) > 1
    <2>1. /\ Len(nest) \in Nat \ {0} /\ nest[1].kind = "array"
          /\ Last(nest) = nest[Len(nest)]
      BY <1>1, <1>2, <1>4, FrontFacts DEF InTuple
    <2>2. /\ Count(nest, "array") >= 1
          /\ Last(nest).kind = "array" =>
                 (Count(nest, "array") = 1 <=> Len(nest) = 1)
      BY <1>1, <1>4, <2>1, CountOne
    <2>3. nest[Len(nest)].kind # "array" => Len(nest) # 1
      BY <2>1
    <2>4. \A n \in Nat \ {0} : n # 1 => n > 1
      OBVIOUS
    <2> QED
      BY <1>1, <2>1, <2>2, <2>3, <2>4, Zenon
  <1> QED
    BY <1>1, <1>2, <1>3, <1>4

(* The kind of the text's value, once it is known.                          *)
LEMMA TupleRoot ==
    ASSUME root \in {"none", "scalar"} \cup Kinds,
           NEW kind \in {"scalar"} \cup Kinds, Tuple!Root(kind)
    PROVE  /\ root' \in {"scalar"} \cup Kinds
           /\ root # "none" => root' = root
           /\ root = "none" => root' = kind
  BY DEF Tuple!Root, Kinds

LEMMA TupleScalar ==
    ASSUME TupleTyped, TupleInv, Tuple!Scalar
    PROVE  TupleEvent("scalar")
  <1>1. /\ ReadEvent("scalar") /\ ReadScalar /\ Tuple!Root("scalar")
        /\ Tuple!Forward("scalar")
        /\ UNCHANGED <<depth, parsed, length, report, uses>>
    BY TupleReader DEF Tuple!Scalar, ReadEvent
  <1>2. depth' = Count(nest', "array")
    <2>1. CASE nest = <<>>
      BY <1>1, <2>1, ReadAtRoot, TupleActive
    <2>2. CASE nest # <<>>
      BY <1>1, <2>2, TupleActive, ReadScalarFacts
    <2> QED
      BY <2>1, <2>2
  <1>3. /\ root' \in {"scalar"} \cup Kinds
        /\ root # "none" => root' = root
        /\ root = "none" => root' = "scalar"
    BY <1>1, TupleActive, TupleRoot
  <1>4. TupleReads("scalar")
    BY <1>1, <1>2, <1>3, TupleActive DEF TupleReads
  <1>5. root' = "array" => TupleWithin("scalar") /\ nest # <<>> /\ root' = root
    BY <1>1, <1>3, TupleActive DEF TupleWithin
  <1>6. root = "array" => root' = "array"
    BY <1>3
  <1> QED
    BY <1>4, <1>5, <1>6 DEF TupleEvent

LEMMA TupleKey ==
    ASSUME TupleTyped, TupleInv, Tuple!Key
    PROVE  TupleEvent("key")
  <1>1. /\ ReadEvent("key") /\ Tuple!Forward("key")
        /\ UNCHANGED <<depth, parsed, root, length, report, uses>>
    BY TupleReader DEF Tuple!Key, Tuple!historyVars, ReadEvent
  <1>2. PICK k \in Keys : ReadKey(k)
    BY <1>1 DEF ReadEvent
  <1>3. nest # <<>> /\ nest[Len(nest)].kind = "object"
        /\ Count(nest', "array") = Count(nest, "array")
    BY <1>1, <1>2, TupleActive, ReadKeyFacts
  <1>4. root # "none" /\ root \in {"scalar"} \cup Kinds
    BY <1>1, <1>3, TupleActive
  <1>5. TupleReads("key")
    BY <1>1, <1>3, <1>4, TupleActive DEF TupleReads
  <1>6. root = "array" => TupleWithin("key")
    <2>1. "object" # "array"
      OBVIOUS
    <2> QED
      BY <1>1, <1>3, <2>1, TupleActive DEF TupleWithin
  <1> QED
    BY <1>1, <1>3, <1>5, <1>6 DEF TupleEvent

LEMMA TupleStartObject ==
    ASSUME TupleTyped, TupleInv, Tuple!StartObject
    PROVE  TupleEvent("start")
  <1>1. /\ ReadStart("object") /\ Tuple!Root("object") /\ "object" \in Kinds
        /\ ReadEvent("start") /\ Tuple!Forward("start")
        /\ UNCHANGED <<depth, parsed, length, report, uses>>
    BY TupleReader DEF Tuple!StartObject, ReadEvent, Kinds
  <1>2. depth' = Count(nest', "array")
    <2>1. Count(nest', "array") = Count(nest, "array") + 0
      BY <1>1, TupleActive, ReadStartFacts
    <2> QED
      BY <1>1, <2>1, TupleActive
  <1>3. /\ root' \in {"scalar"} \cup Kinds
        /\ root # "none" => root' = root
        /\ root = "none" => root' = "object"
    BY <1>1, TupleActive, TupleRoot
  <1>4. TupleReads("start")
    BY <1>1, <1>2, <1>3, TupleActive DEF TupleReads
  <1>5. root' = "array" => TupleWithin("start") /\ nest # <<>> /\ root' = root
    BY <1>1, <1>3, TupleActive DEF TupleWithin
  <1>6. root = "array" => root' = "array"
    BY <1>3
  <1> QED
    BY <1>4, <1>5, <1>6 DEF TupleEvent

LEMMA TupleEndObject ==
    ASSUME TupleTyped, TupleInv, Tuple!EndObject
    PROVE  TupleEvent("end")
  <1>1. /\ ReadEnd("object") /\ "object" \in Kinds
        /\ ReadEvent("end") /\ Tuple!Forward("end")
        /\ UNCHANGED <<depth, parsed, root, length, report, uses>>
    BY TupleReader DEF Tuple!EndObject, Tuple!historyVars, ReadEvent, Kinds
  <1>2. /\ nest # <<>> /\ nest[Len(nest)].kind = "object"
        /\ Count(nest', "array") = Count(nest, "array") - 0
    BY <1>1, TupleActive, ReadEndFacts
  <1>3. depth' = Count(nest', "array")
    BY <1>1, <1>2, TupleActive
  <1>4. root # "none" /\ root \in {"scalar"} \cup Kinds
    BY <1>1, <1>2, TupleActive
  <1>5. TupleReads("end")
    BY <1>1, <1>3, <1>4, TupleActive DEF TupleReads
  <1>6. root = "array" => TupleWithin("end")
    <2>1. "object" # "array"
      OBVIOUS
    <2> QED
      BY <1>1, <1>2, <2>1, TupleActive DEF TupleWithin
  <1> QED
    BY <1>1, <1>2, <1>5, <1>6 DEF TupleEvent

LEMMA TupleStartArray ==
    ASSUME TupleTyped, TupleInv, Tuple!StartArray
    PROVE  TupleEvent("start")
  <1>1. /\ ReadStart("array") /\ Tuple!Root("array") /\ "array" \in Kinds
        /\ ReadEvent("start") /\ depth' = depth + 1
        /\ UNCHANGED <<parsed, length, report, uses>>
        /\ IF depth' > 1 THEN Tuple!Forward("start") ELSE Tuple!Swallow
    BY TupleReader DEF Tuple!StartArray, Tuple!Opened, ReadEvent, Kinds
  <1>2. /\ depth' = Count(nest', "array")
        /\ Len(nest') = Len(nest) + 1
        /\ nest'[Len(nest) + 1] = NewFrame("array")
    <2>1. Count(nest', "array") = Count(nest, "array") + 1
      BY <1>1, TupleActive, ReadStartFacts
    <2> QED
      BY <1>1, <2>1, TupleActive, ReadStartFacts
  <1>3. /\ root' \in {"scalar"} \cup Kinds
        /\ root # "none" => root' = root
        /\ root = "none" => root' = "array"
    BY <1>1, TupleActive, TupleRoot
  <1>4. TupleReads("start")
    BY <1>1, <1>2, <1>3, TupleActive DEF TupleReads
  <1>5. CASE nest = <<>>
    <2>1. Len(nest) = 0 /\ depth = 0 /\ TupleIdle /\ root = "none"
      BY <1>1, <1>5, TupleActive, CountEmpty
    <2>2. Tuple!Swallow
      BY <1>1, <2>1
    <2>3. Len(nest') = 1 /\ nest'[1] = NewFrame("array")
      BY <1>2, <2>1
    <2> QED
      BY <1>1, <1>3, <1>4, <2>1, <2>2, <2>3 DEF TupleEvent, TupleBegins
  <1>6. CASE nest # <<>> /\ root = "array"
    <2>1. depth >= 1 /\ InTuple /\ depth \in Nat
      BY <1>1, <1>6, TupleActive
    <2>2. Tuple!Forward("start")
      BY <1>1, <2>1
    <2> QED
      BY <1>1, <1>3, <1>4, <1>6, <2>1, <2>2 DEF TupleEvent, TupleWithin
  <1>7. CASE nest # <<>> /\ root # "array"
    <2>1. root' # "array"
      BY <1>1, <1>3, <1>7, TupleActive
    <2> QED
      BY <1>4, <1>7, <2>1 DEF TupleEvent
  <1> QED
    BY <1>5, <1>6, <1>7

LEMMA TupleEndArray ==
    ASSUME TupleTyped, TupleInv, Tuple!EndArray
    PROVE  TupleEvent("end")
  <1>1. /\ ReadEnd("array") /\ "array" \in Kinds
        /\ ReadEvent("end") /\ depth' = depth - 1
        /\ IF depth - 1 > 0
           THEN Tuple!Forward("end") /\ UNCHANGED parsed
           ELSE Tuple!Swallow /\ parsed' = TRUE
        /\ length' = IF Len(nest) = 1 THEN Size(nest[1]) ELSE length
        /\ UNCHANGED <<root, report, uses>>
    BY TupleReader, TupleContract
       DEF Tuple!EndArray, Tuple!EndsElement, Tuple!Size, Size, ReadEvent, Kinds
  <1>2. /\ nest # <<>> /\ nest[Len(nest)].kind = "array"
        /\ Len(nest) \in Nat \ {0}
        /\ nest' = <<>> <=> Len(nest) = 1
        /\ Count(nest', "array") = Count(nest, "array") - 1
    BY <1>1, TupleActive, ReadEndFacts
  <1>3. depth' = Count(nest', "array")
    BY <1>1, <1>2, TupleActive
  <1>4. root # "none" /\ root \in {"scalar"} \cup Kinds
    BY <1>1, <1>2, TupleActive
  <1>5. parsed' \in BOOLEAN /\ length' \in Nat
    <2>1. nest[1] \in Frame
      BY <1>1, <1>2, TupleActive
    <2>2. length' \in Nat
      BY <1>1, <2>1, SizeType, TupleActive
    <2>3. parsed' = parsed \/ parsed' = TRUE
      BY <1>1
    <2> QED
      BY <1>1, <2>2, <2>3, TupleActive
  <1>6. TupleReads("end")
    BY <1>1, <1>3, <1>4, <1>5 DEF TupleReads
  <1>7. CASE root # "array"
    BY <1>1, <1>6, <1>7 DEF TupleEvent
  <1>8. CASE root = "array" /\ Len(nest) = 1
    <2>1. depth = 1 /\ InTuple
      BY <1>1, <1>2, <1>8, TupleActive
    <2>2. Tuple!Swallow /\ parsed' = TRUE
      BY <1>1, <2>1
    <2> QED
      BY <1>1, <1>2, <1>6, <1>8, <2>1, <2>2 DEF TupleEvent, TupleEnds
  <1>9. CASE root = "array" /\ Len(nest) # 1
    <2>1. depth >= 1 /\ depth # 1 /\ InTuple /\ depth \in Nat
      BY <1>1, <1>2, <1>9, TupleActive
    <2>2. Tuple!Forward("end") /\ UNCHANGED <<parsed, length>>
      BY <1>1, <1>9, <2>1
    <2>3. Len(nest) > 1
      <3>1. \A n \in Nat \ {0} : n # 1 => n > 1
        OBVIOUS
      <3> QED
        BY <1>2, <1>9, <3>1, Zenon
    <2> QED
      BY <1>1, <1>2, <1>6, <1>9, <2>1, <2>2, <2>3 DEF TupleEvent, TupleWithin
  <1> QED
    BY <1>7, <1>8, <1>9

LEMMA TupleEvents ==
    ASSUME TupleTyped, TupleInv,
           \/ Tuple!Scalar \/ Tuple!Key \/ Tuple!StartObject
           \/ Tuple!EndObject \/ Tuple!StartArray \/ Tuple!EndArray
    PROVE  \E event : TupleEvent(event)
  BY TupleScalar, TupleKey, TupleStartObject, TupleEndObject, TupleStartArray,
     TupleEndArray

LEMMA TupleCardinality == \A S : Tuple!Cardinality(S) = Cardinality(S)
  BY DEF Tuple!Cardinality, Cardinality

(* The one part that has an error is the one the error names.               *)
LEMMA TupleReap ==
    ASSUME TupleTyped, TupleInv, Tuple!ReapError
    PROVE  TupleTyped' /\ TupleInv'
  <1>0. /\ N \in Nat \ {0} /\ TupleErrors /\ the_error \in 0..N
        /\ handlers \in [1..N -> Part]
    BY ForwardingAssumption DEF TupleTyped, TupleInv
  <1>1. /\ the_error # N
        /\ report' = <<"ARRAY_ELEMENT">>
                         \o [j \in 1..Cardinality(Tuple!FailedParts) |-> "part"]
        /\ the_error' = N
        /\ handlers' = [i \in 1..N |-> Reaped(handlers[i])]
        /\ UNCHANGED <<nest, phase, m_value, index, depth, parsed, root,
                       length, uses>>
    BY TupleContract, TupleCardinality
       DEF Tuple!ReapError, Tuple!NoError, Tuple!Element, Tuple!readerVars
  <1>2. Tuple!FailedParts = {the_error + 1}
    <2>1. \A i \in 1..N : handlers[i].error <=> the_error = i - 1
      BY <1>0 DEF TupleErrors
    <2>2. \A i \in 1..N : the_error = i - 1 <=> i = the_error + 1
      BY <1>0
    <2>3. the_error + 1 \in 1..N
      BY <1>0, <1>1
    <2> QED
      BY <2>1, <2>2, <2>3 DEF Tuple!FailedParts, Tuple!Element
  <1>3. Cardinality(Tuple!FailedParts) = 1
    BY <1>2, FS_Singleton
  <1> DEFINE S == {"ARRAY_ELEMENT", "part"}
             a == <<"ARRAY_ELEMENT">>
             b == [j \in 1..1 |-> "part"]
  <1>4. a \in Seq(S) /\ b \in Seq(S) /\ Len(a) = 1 /\ Len(b) = 1
    OBVIOUS
  <1>5. report' = a \o b
    BY <1>1, <1>3, Zenon
  <1> HIDE DEF a, b
  <1>6. report' \in Seq(S) /\ Len(report') = 2
    BY <1>4, <1>5, ConcatProperties
  <1>7. \A i \in 1..N : handlers'[i] \in Part /\ handlers'[i].error = FALSE
    <2> SUFFICES ASSUME NEW i \in 1..N
                 PROVE  handlers'[i] \in Part /\ handlers'[i].error = FALSE
      OBVIOUS
    <2>1. handlers'[i] = Reaped(handlers[i]) /\ handlers[i] \in Part
      BY <1>0, <1>1
    <2> QED
      BY <2>1 DEF Reaped, Part
  <1>8. handlers' \in [1..N -> Part]
    BY <1>1, <1>7
  <1>9. phase = "failed" /\ phase' = "failed"
    BY <1>0, <1>1 DEF TupleErrors
  <1>10. TupleTyped'
    <2>1. the_error' \in 0..N
      BY <1>0, <1>1
    <2> QED
      BY <1>1, <1>6, <1>8, <2>1 DEF TupleTyped
  <1>11. TupleErrors'
    <2>1. depth' = Count(nest', "array")
      BY <1>0, <1>1 DEF TupleErrors
    <2>2. \A i \in 1..N : handlers'[i].error <=> the_error' = i - 1
      <3>1. \A i \in 1..N : N # i - 1
        BY <1>0
      <3> QED
        BY <1>1, <1>7, <3>1, Zenon
    <2> QED
      BY <1>1, <1>6, <1>9, <2>1, <2>2 DEF TupleErrors
  <1>12. root = "array" => TupleBroken'
    <2>1. root = "array" => TupleBroken
      BY <1>9 DEF TupleInv
    <2>2. report' # <<>>
      <3>1. Len(<<>>) = 0
        OBVIOUS
      <3> QED
        BY <1>6, <3>1
    <2> QED
      BY <1>1, <2>1, <2>2 DEF TupleBroken
  <1> QED
    BY <1>1, <1>9, <1>10, <1>11, <1>12 DEF TupleInv

LEMMA TupleNext ==
    TupleTyped /\ TupleInv /\ Tuple!Next => TupleTyped' /\ TupleInv'
  <1> SUFFICES ASSUME TupleTyped, TupleInv, Tuple!Next
               PROVE  TupleTyped' /\ TupleInv'
    OBVIOUS
  <1>1. CASE \/ Tuple!Scalar \/ Tuple!Key \/ Tuple!StartObject
             \/ Tuple!EndObject \/ Tuple!StartArray \/ Tuple!EndArray
    BY <1>1, TupleEvents, TupleEventStep
  <1>2. CASE Tuple!PrepareForReuse
    <2>1. /\ nest' = <<>> /\ phase' = "ready"
          /\ handlers' = [i \in 1..N |-> Fresh]
          /\ m_value' = [i \in 1..N |-> "old"]
          /\ index' = 0 /\ depth' = 0 /\ the_error' = N /\ parsed' = FALSE
          /\ root' = "none" /\ length' = 0 /\ report' = <<>> /\ uses' = uses + 1
      BY <1>2, TupleContract
         DEF Tuple!PrepareForReuse, Tuple!NextText, Tuple!ResetHandlers,
             Tuple!NoError, Tuple!Element
    <2>2. N \in Nat \ {0} /\ depth' = Count(nest', "array")
      BY <2>1, CountEmpty, ForwardingAssumption
    <2>3. TupleTyped'
      <3>1. /\ handlers' \in [1..N -> Part]
            /\ m_value' \in [1..N -> {"old", "own", "mixed"}]
        BY <2>1, FreshFacts
      <3>2. parsed' \in BOOLEAN
        BY <2>1, Zenon
      <3>3. /\ nest' \in Seq(Frame) /\ report' \in Seq({"ARRAY_ELEMENT", "part"})
        BY <2>1
      <3>4. /\ index' \in 0..N /\ depth' \in Nat /\ the_error' \in 0..N
            /\ length' \in Nat /\ uses' \in Nat
        BY <2>1, <2>2 DEF TupleTyped
      <3>5. phase' \in Phases /\ root' \in {"none", "scalar"} \cup Kinds
        BY <2>1 DEF Phases
      <3> QED
        BY <3>1, <3>2, <3>3, <3>4, <3>5 DEF TupleTyped
    <2>4. \A i \in 1..N : handlers'[i] = Fresh /\ m_value'[i] = "old"
      BY <2>1
    <2>5. TupleErrors'
      <3>1. \A i \in 1..N : N # i - 1
        BY <2>2
      <3>2. \A i \in 1..N : handlers'[i].error <=> the_error' = i - 1
        BY <2>1, <2>4, <3>1, FreshFacts, Zenon
      <3> QED
        BY <2>1, <2>2, <3>2 DEF TupleErrors
    <2> QED
      BY <2>1, <2>3, <2>4, <2>5 DEF TupleInv, TupleIdle
  <1> QED
    BY <1>1, <1>2, TupleReap DEF Tuple!Next

LEMMA TupleKeeps ==
    TupleTyped /\ TupleInv
        => Tuple!OneCause /\ Tuple!ElementsInOrder
  <1> SUFFICES ASSUME TupleTyped, TupleInv
               PROVE  Tuple!OneCause /\ Tuple!ElementsInOrder
    OBVIOUS
  <1>1. Tuple!OneCause
    BY DEF TupleInv, TupleErrors, Tuple!OneCause
  <1>2. Tuple!ElementsInOrder
    <2> DEFINE size == IF Tuple!AtRoot THEN length ELSE Size(nest[1])
               open == IF ~Tuple!AtRoot THEN Len(nest) - 1 ELSE 0
    <2>1. ASSUME root = "array", phase \in {"reading", "complete"}
          PROVE  TuplePlaces(size, open)
      BY <2>1
         DEF TupleInv, TupleErrors, InTuple, TupleDone, Tuple!AtRoot
    <2> HIDE DEF size
    <2>2. TuplePlaces(size, open)
              => /\ index = Tuple!Least(N, size)
                 /\ \A i \in Tuple!Element :
                        /\ handlers[i].open =
                               IF i = index + 1 /\ ~Tuple!AtRoot
                               THEN Len(nest) - 1 ELSE 0
                        /\ handlers[i].parsed <=> i <= index
                        /\ m_value[i] = IF i <= index \/ handlers[i].open > 0
                                        THEN "own" ELSE "old"
      BY DEF TuplePlaces, Tuple!Least, Tuple!Element
    <2>3. size = IF Tuple!AtRoot THEN length ELSE Tuple!Size(nest[1])
      BY DEF size, Tuple!Size, Size
    <2> QED
      BY <2>1, <2>2, <2>3 DEF Tuple!ElementsInOrder
  <1> QED
    BY <1>1, <1>2

(* The index in the error is the number of elements complete before.        *)
LEMMA TupleNames ==
    ASSUME TupleTyped, TupleInv, Tuple!Next \/ the_error' = the_error
    PROVE  Tuple!NamesIndex
  <1> SUFFICES ASSUME root = "array", the_error = N, the_error' # N
               PROVE  the_error' = Size(nest[1])
    BY DEF Tuple!NamesIndex, Tuple!NoError, Tuple!Size, Size
  <1>0. ~Tuple!ReapError /\ ~Tuple!PrepareForReuse /\ the_error' # the_error
    BY DEF Tuple!ReapError, Tuple!PrepareForReuse, Tuple!NoError
  <1>1. PICK event : TupleEvent(event)
    BY <1>0, TupleEvents DEF Tuple!Next
  <1>2. TupleReads(event) /\ event \in Events
    BY <1>1, ReadEventFacts DEF TupleEvent, TupleReads, TupleTyped
  <1>3. ~Tuple!Swallow
    BY <1>0 DEF Tuple!Swallow
  <1>4. TupleWithin(event)
    BY <1>1, <1>3 DEF TupleEvent, TupleBegins, TupleEnds
  <1>5. PICK i \in 1..N : \E response \in Responses(handlers[i], event) :
            TupleAnswers(i, response)
    BY <1>0, <1>2, <1>4, TupleForwards DEF TupleWithin, TupleSwallows
  <1>6. the_error' = index /\ index + 1 \in 1..N
    BY <1>0, <1>5 DEF TupleAnswers
  <1>7. /\ index = IF N < Size(nest[1]) THEN N ELSE Size(nest[1])
        /\ N \in Nat \ {0} /\ index \in 0..N
    BY <1>4, ForwardingAssumption DEF TupleWithin, InTuple, TuplePlaces, TupleTyped
  <1>8. index # N
    BY <1>6, <1>7
  <1> QED
    BY <1>6, <1>7, <1>8

-------------------------------------------------------------------------------
(* MapHandler.  While the text is read, depth is the number of open objects, *)
(* which tells a nested object's keys and '}' from the map's own; the       *)
(* value's handler is as deep as the text within the map; and the key that  *)
(* is stored is that of the member whose value is read.                     *)
KeptOf(keys, once) ==
    {i \in DOMAIN keys : once => \A j \in 1..(i - 1) : keys[j] # keys[i]}

EntriesOf(keys, once) ==
    {Map!Entry(keys[i], i, "own") : i \in KeptOf(keys, once)}

(* What is repeated has a first one.                                        *)
Represented(keys, once) ==
    \A i \in DOMAIN keys : \E j \in KeptOf(keys, once) : keys[j] = keys[i]

MapIdle ==
    /\ nest = <<>> /\ depth = 0
    /\ internal = Fresh /\ element = "default"
    /\ parsed <=> again
    /\ the_error = Map!NoError /\ report = <<>> /\ given = <<>>

MapElement ==
    /\ ~internal.parsed /\ ~internal.error
    /\ element = IF internal.open = 0 THEN "default" ELSE "own"

InMap ==
    /\ nest # <<>> /\ nest[1].kind = "object"
    /\ depth = Count(nest, "object")
    /\ internal.open = Len(nest) - 1
    /\ MapElement
    /\ Len(given) = Size(nest[1])
    /\ m_value = EntriesOf(given, unique)
    /\ MemberPending
    /\ nest[1].key # NoKey => current_key = nest[1].key
    /\ parsed <=> again
    /\ the_error = Map!NoError /\ report = <<>>

MapDone ==
    /\ nest = <<>> /\ m_value = EntriesOf(given, unique)
    /\ depth = 0 /\ internal = Fresh /\ element = "default"
    /\ parsed /\ the_error = Map!NoError /\ report = <<>>

MapBroken ==
    /\ IF report = <<>> THEN the_error # Map!NoError
       ELSE the_error = Map!NoError /\ Last(report) # "OBJECT_MEMBER"
    /\ the_error.type = "OBJECT_MEMBER" => internal.error

MapInv ==
    /\ Represented(given, unique)
    /\ phase = "ready" => MapIdle
    /\ phase = "reading" => InMap
    /\ phase = "complete" => MapDone
    /\ phase = "failed" => MapBroken

MapErrors == {Map!NoError, Map!Mismatch} \cup {Map!MemberError(k) : k \in Keys}

EntryTyped(e) ==
    e.key \in Keys /\ e.item \in Nat /\ e.data \in {"old", "own", "mixed"}

MapTyped ==
    /\ nest \in Seq(Frame) /\ phase \in Phases
    /\ internal \in Part /\ element \in {"default", "own", "mixed"}
    /\ depth \in Nat
    /\ the_error \in MapErrors
    /\ parsed \in BOOLEAN /\ unique \in BOOLEAN /\ again \in BOOLEAN
    /\ current_key \in Keys \cup {NoKey}
    /\ \A e \in m_value : EntryTyped(e)
    /\ given \in Seq(Keys)

LEMMA MapTypes ==
    /\ Map!TypeOK <=> MapTyped
    /\ Map!TypeOK' <=> MapTyped'
  BY MapContract, Zenon
     DEF Map!TypeOK, Map!ReaderTypeOK, Map!Elements, EntryTyped, MapErrors,
         MapTyped

LEMMA MapErrorFacts ==
    /\ Map!NoError \in MapErrors /\ Map!Mismatch \in MapErrors
    /\ Map!Mismatch # Map!NoError
    /\ Map!Mismatch.type = "TYPE_MISMATCH" /\ Map!NoError.type = "none"
    /\ \A k \in Keys : /\ Map!MemberError(k) \in MapErrors
                       /\ Map!MemberError(k) # Map!NoError
                       /\ Map!MemberError(k).type = "OBJECT_MEMBER"
                       /\ Map!MemberError(k).key = k
  <1>1. Map!Mismatch.type = "TYPE_MISMATCH" /\ Map!NoError.type = "none"
    BY DEF Map!Mismatch, Map!NoError, Map!Error
  <1>2. ASSUME NEW k \in Keys
        PROVE  /\ Map!MemberError(k).type = "OBJECT_MEMBER"
               /\ Map!MemberError(k).key = k
    BY DEF Map!MemberError
  <1>3. "TYPE_MISMATCH" # "none" /\ "OBJECT_MEMBER" # "none"
    OBVIOUS
  <1> QED
    BY <1>1, <1>2, <1>3, Zenon DEF MapErrors

(* A key that is given once more: what emplace makes of the entries is what *)
(* the keys given so far say.                                               *)
LEMMA EmplaceFacts ==
    ASSUME NEW keys \in Seq(Keys), NEW k \in Keys, NEW once \in BOOLEAN,
           Represented(keys, once), NEW new, new = Append(keys, k)
    PROVE  /\ new \in Seq(Keys) /\ Len(new) = Len(keys) + 1
           /\ EntriesOf(new, once)
                = IF once /\ \E e \in EntriesOf(keys, once) : e.key = k
                  THEN EntriesOf(keys, once)
                  ELSE EntriesOf(keys, once)
                           \cup {Map!Entry(k, Len(keys) + 1, "own")}
           /\ Represented(new, once)
  <1> DEFINE n == Len(keys)
  <1>1. /\ new \in Seq(Keys) /\ Len(new) = n + 1 /\ n \in Nat
        /\ \A i \in 1..n : new[i] = keys[i]
        /\ new[n + 1] = k
        /\ DOMAIN keys = 1..n /\ DOMAIN new = 1..(n + 1)
    BY AppendFacts
  <1> HIDE DEF n
  <1>2. \A i \in 1..n : i \in KeptOf(new, once) <=> i \in KeptOf(keys, once)
    <2> SUFFICES ASSUME NEW i \in 1..n
                 PROVE  i \in KeptOf(new, once) <=> i \in KeptOf(keys, once)
      OBVIOUS
    <2>1. \A j \in 1..(i - 1) : new[j] = keys[j]
      BY <1>1
    <2>2. new[i] = keys[i] /\ i \in 1..(n + 1)
      BY <1>1
    <2> QED
      BY <1>1, <2>1, <2>2 DEF KeptOf
  <1>3. n + 1 \in KeptOf(new, once) <=> (once => \A j \in 1..n : keys[j] # k)
    <2>1. (n + 1) - 1 = n /\ n + 1 \in 1..(n + 1)
      BY <1>1
    <2> QED
      BY <1>1, <2>1 DEF KeptOf
  <1>4. KeptOf(new, once) \subseteq 1..(n + 1) /\ KeptOf(keys, once) \subseteq 1..n
    BY <1>1 DEF KeptOf
  <1>5. \A i \in 1..(n + 1) : i \in 1..n \/ i = n + 1
    BY <1>1
  <1>6. \A e : e \in EntriesOf(keys, once)
              <=> \E i \in KeptOf(keys, once) : e = Map!Entry(keys[i], i, "own")
    BY DEF EntriesOf
  <1>7. \A e : e \in EntriesOf(new, once)
              <=> \E i \in KeptOf(new, once) : e = Map!Entry(new[i], i, "own")
    BY DEF EntriesOf
  <1>8. \A e : e \in EntriesOf(new, once)
              <=> \/ e \in EntriesOf(keys, once)
                  \/ n + 1 \in KeptOf(new, once) /\ e = Map!Entry(k, n + 1, "own")
    <2>1. ASSUME NEW e, NEW i \in KeptOf(new, once),
                 e = Map!Entry(new[i], i, "own")
          PROVE  \/ e \in EntriesOf(keys, once)
                 \/ n + 1 \in KeptOf(new, once) /\ e = Map!Entry(k, n + 1, "own")
      <3>1. CASE i \in 1..n
        <4>1. i \in KeptOf(keys, once) /\ new[i] = keys[i]
          BY <1>1, <1>2, <3>1
        <4> QED
          BY <1>6, <2>1, <4>1, Zenon
      <3>2. CASE i = n + 1
        BY <1>1, <2>1, <3>2, Zenon
      <3> QED
        BY <1>4, <1>5, <3>1, <3>2
    <2>2. ASSUME NEW e, NEW i \in KeptOf(keys, once),
                 e = Map!Entry(keys[i], i, "own")
          PROVE  e \in EntriesOf(new, once)
      <3>1. i \in KeptOf(new, once) /\ new[i] = keys[i]
        BY <1>1, <1>2, <1>4
      <3> QED
        BY <1>7, <2>2, <3>1, Zenon
    <2>3. n + 1 \in KeptOf(new, once)
              => Map!Entry(k, n + 1, "own") \in EntriesOf(new, once)
      BY <1>1, <1>7, Zenon
    <2> QED
      BY <1>6, <1>7, <2>1, <2>2, <2>3, Zenon
  <1>9. (\E e \in EntriesOf(keys, once) : e.key = k)
            <=> \E j \in 1..n : keys[j] = k
    <2>1. ASSUME NEW e \in EntriesOf(keys, once), e.key = k
          PROVE  \E j \in 1..n : keys[j] = k
      <3>1. PICK i \in KeptOf(keys, once) : e = Map!Entry(keys[i], i, "own")
        BY <1>6
      <3>2. e.key = keys[i]
        BY <3>1 DEF Map!Entry
      <3> QED
        BY <1>4, <2>1, <3>2
    <2>2. ASSUME NEW j \in 1..n, keys[j] = k
          PROVE  \E e \in EntriesOf(keys, once) : e.key = k
      <3>1. PICK i \in KeptOf(keys, once) : keys[i] = keys[j]
        BY <1>1 DEF Represented
      <3>2. Map!Entry(keys[i], i, "own").key = k
        BY <2>2, <3>1 DEF Map!Entry
      <3> QED
        BY <1>6, <3>1, <3>2
    <2> QED
      BY <2>1, <2>2
  <1>10. n + 1 \in KeptOf(new, once)
            <=> ~(once /\ \E e \in EntriesOf(keys, once) : e.key = k)
    BY <1>3, <1>9, Zenon
  <1>11. Represented(new, once)
    <2> SUFFICES ASSUME NEW i \in 1..(n + 1)
                 PROVE  \E j \in KeptOf(new, once) : new[j] = new[i]
      BY <1>1 DEF Represented
    <2>1. ASSUME NEW m \in 1..n
          PROVE  \E j \in KeptOf(new, once) : new[j] = keys[m]
      <3>1. PICK j \in KeptOf(keys, once) : keys[j] = keys[m]
        BY <1>1 DEF Represented
      <3> QED
        BY <1>1, <1>2, <1>4, <3>1
    <2>2. CASE i \in 1..n
      BY <1>1, <2>1, <2>2
    <2>3. CASE i = n + 1
      <3>1. CASE n + 1 \in KeptOf(new, once)
        BY <2>3, <3>1
      <3>2. CASE n + 1 \notin KeptOf(new, once)
        <4>1. PICK m \in 1..n : keys[m] = k
          BY <1>3, <3>2
        <4>2. \E j \in KeptOf(new, once) : new[j] = k
          BY <2>1, <4>1
        <4>3. new[i] = k
          BY <1>1, <2>3
        <4> QED
          BY <4>2, <4>3, Zenon
      <3> QED
        BY <3>1, <3>2
    <2> QED
      BY <1>5, <2>2, <2>3
  <1>12. EntriesOf(new, once)
            = IF once /\ \E e \in EntriesOf(keys, once) : e.key = k
              THEN EntriesOf(keys, once)
              ELSE EntriesOf(keys, once) \cup {Map!Entry(k, n + 1, "own")}
    <2>1. CASE once /\ \E e \in EntriesOf(keys, once) : e.key = k
      BY <1>8, <1>10, <2>1
    <2>2. CASE ~(once /\ \E e \in EntriesOf(keys, once) : e.key = k)
      BY <1>8, <1>10, <2>2
    <2> QED
      BY <2>1, <2>2
  <1> QED
    BY <1>1, <1>11, <1>12 DEF n

LEMMA EntryFacts ==
    ASSUME NEW k \in Keys, NEW i \in Nat, NEW data \in {"old", "own", "mixed"}
    PROVE  EntryTyped(Map!Entry(k, i, data))
  BY DEF Map!Entry, EntryTyped

(* The handler of the value fails; or the value is complete and stored under *)
(* the current key; or it goes on.                                          *)
LEMMA MapPostcheck ==
    ASSUME MapTyped, MapElement, NEW event \in Events, Fits(internal, event),
           Map!Postcheck(event)
    PROVE  \/ /\ phase' = "failed" /\ the_error' = Map!MemberError(current_key)
              /\ internal' \in Part /\ internal'.error /\ element' = "own"
              /\ UNCHANGED <<current_key, m_value>>
           \/ /\ OpenAfter(internal, event) = 0
              /\ internal' = Fresh /\ element' = "default"
              /\ current_key' \in {NoKey, current_key}
              /\ m_value' = Map!Emplaced(Map!Entry(current_key,
                                                   Size(nest[1]) + 1, "own"))
              /\ Accept /\ the_error' = the_error
           \/ /\ OpenAfter(internal, event) > 0
              /\ internal' \in Part /\ ~internal'.parsed /\ ~internal'.error
              /\ internal'.open = OpenAfter(internal, event)
              /\ element' = "own"
              /\ Accept /\ the_error' = the_error
              /\ UNCHANGED <<current_key, m_value>>
  <1>1. internal \in Part /\ Map!Touched = "own" /\ internal.parsed = FALSE
    BY DEF MapTyped, MapElement, Map!Touched, Part
  <1>2. PICK response \in Responses(internal, event) :
            \/ /\ response.error
               /\ Map!Forwarded(response)
               /\ Map!Reject(Map!MemberError(current_key))
               /\ UNCHANGED <<current_key, m_value>>
            \/ /\ ~response.error /\ response.parsed
               /\ Map!Store
            \/ /\ ~response.error /\ ~response.parsed
               /\ Map!Forwarded(response)
               /\ Map!Return
               /\ UNCHANGED <<current_key, m_value>>
    BY MapContract DEF Map!Postcheck
  <1>3. /\ response \in Part /\ OpenAfter(internal, event) \in Nat
        /\ ~response.error =>
               /\ response.open = OpenAfter(internal, event)
               /\ response.open = 0 => response.parsed
               /\ response.open # 0 => response.parsed = FALSE
    BY <1>1, <1>2, ResponseFacts
  <1>4. CASE response.error
    BY <1>1, <1>2, <1>3, <1>4 DEF Map!Forwarded, Map!Reject, Map!Terminate
  <1>5. CASE ~response.error /\ response.parsed
    <2>1. Map!Store /\ OpenAfter(internal, event) = 0
      BY <1>2, <1>3, <1>5
    <2> QED
      BY <1>1, <2>1, MapContract
         DEF Map!Store, Map!RenewElement, Map!Return, Map!Accept, Accept,
             Map!Size, Size
  <1>6. CASE ~response.error /\ ~response.parsed
    <2>1. OpenAfter(internal, event) # 0
      BY <1>3, <1>6
    <2>2. OpenAfter(internal, event) > 0
      BY <1>3, <2>1
    <2> QED
      BY <1>1, <1>2, <1>3, <1>6, <2>2
         DEF Map!Forwarded, Map!Return, Map!Accept, Accept
  <1> QED
    BY <1>4, <1>5, <1>6

(* The events of a text: of a member's value; a key of the map's own; the   *)
(* map's braces; or a value that is no object.                              *)
MapWithin(event) ==
    /\ ReadEvent(event) /\ InMap /\ Map!Postcheck(event) /\ Map!Given
    /\ event \in {"key", "end"} => Len(nest) > 1
    /\ depth' = Count(nest', "object")
    /\ UNCHANGED <<parsed, report, uses, unique, again>>

MapOwnKey(k) ==
    /\ InMap /\ ReadKey(k) /\ Len(nest) = 1
    /\ current_key' = k /\ Accept /\ Map!Given
    /\ UNCHANGED <<internal, element, the_error, m_value, depth, parsed, report,
                   uses, unique, again>>

MapBegins ==
    /\ MapIdle /\ nest' \in Seq(Frame)
    /\ Len(nest') = 1 /\ nest'[1] = NewFrame("object")
    /\ depth' = 1 /\ depth' = Count(nest', "object")
    /\ m_value' = {} /\ Accept /\ Map!Given
    /\ UNCHANGED <<internal, element, the_error, current_key, parsed, report,
                   uses, unique, again>>

MapEnds ==
    /\ InMap /\ Len(nest) = 1 /\ nest' = <<>> /\ depth' = 0
    /\ parsed' = TRUE /\ Accept /\ Map!Given
    /\ UNCHANGED <<internal, element, the_error, current_key, m_value, report,
                   uses, unique, again>>

MapNoObject ==
    /\ MapIdle /\ nest' \in Seq(Frame)
    /\ the_error' = Map!Mismatch /\ phase' = "failed" /\ Map!Given
    /\ UNCHANGED <<internal, element, current_key, m_value, depth, parsed, report,
                   uses, unique, again>>

MapEvent ==
    \/ \E event : MapWithin(event)
    \/ \E k \in Keys : MapOwnKey(k)
    \/ MapBegins \/ MapEnds \/ MapNoObject

(* A key or a value is given when it is complete, and not before.           *)
LEMMA MapGiven ==
    ASSUME Map!Given
    PROVE  /\ nest = <<>> \/ Len(nest') # 1 \/ nest[1].key = NoKey
                  => given' = given
           /\ nest # <<>> /\ Len(nest') = 1 /\ nest[1].key # NoKey
                  /\ nest'[1].key = NoKey
                  => given' = Append(given, nest[1].key)
  BY DEF Map!Given, Map!CompletesMember, Map!AtRoot

LEMMA MapWithinFacts ==
    ASSUME MapTyped, NEW event, MapWithin(event)
    PROVE  /\ event \in Events /\ nest' \in Seq(Frame) /\ nest' # <<>>
           /\ Len(nest') \in Nat \ {0}
           /\ nest'[1].kind = "object" /\ MemberPending'
           /\ nest[1].key \in Keys /\ current_key = nest[1].key
           /\ Fits(internal, event) /\ OpenAfter(internal, event) = Len(nest') - 1
           /\ IF Len(nest') = 1
              THEN /\ given' = Append(given, nest[1].key)
                   /\ nest'[1].key = NoKey
                   /\ Size(nest'[1]) = Size(nest[1]) + 1
              ELSE given' = given /\ nest'[1] = nest[1]
  <1>0. /\ ReadEvent(event) /\ InMap /\ Map!Given /\ nest \in Seq(Frame)
        /\ internal \in Part /\ nest # <<>>
        /\ event \in {"key", "end"} => Len(nest) > 1
    BY DEF MapWithin, MapTyped, InMap
  <1>1. /\ event \in Events /\ nest' \in Seq(Frame)
        /\ Len(nest) \in Nat /\ Len(nest') \in Nat
        /\ nest' = <<>> <=> Len(nest') = 0
        /\ Fits(internal, event) /\ OpenAfter(internal, event) = Len(nest') - 1
    BY <1>0, ReadEventFacts DEF InMap
  <1>2. /\ nest[1] \in Frame
        /\ nest' = <<>> <=> event = "end" /\ Len(nest) = 1
        /\ nest' # <<>> =>
              /\ nest'[1].kind = nest[1].kind
              /\ Len(nest') = 1 /\ event \in {"scalar", "end"} =>
                     Size(nest'[1]) = Size(nest[1]) + 1 /\ nest'[1].key = NoKey
              /\ Len(nest') # 1 => nest'[1] = nest[1]
              /\ event = "start" => Len(nest') # 1
    BY <1>0, WithinFacts
  <1>3. nest' # <<>>
    <2>1. \A n \in Nat : n > 1 => n # 1
      OBVIOUS
    <2> QED
      BY <1>0, <1>1, <1>2, <2>1, Zenon
  <1>4. /\ \/ ReadScalar \/ \E k \in Keys : ReadKey(k)
           \/ \E kind \in Kinds : ReadStart(kind) \/ ReadEnd(kind)
        /\ \/ ReadScalar \/ \E kind \in Kinds : ReadStart(kind)
           \/ Len(nest) > 1
    BY <1>0 DEF ReadEvent
  <1>5. MemberPending'
    BY <1>0, <1>4, PendingKept DEF InMap
  <1>6. nest[1].key # NoKey
    BY <1>0, <1>4, ValueIsPending DEF InMap
  <1>7. nest[1].key \in Keys /\ current_key = nest[1].key
    BY <1>0, <1>2, <1>6 DEF InMap, Frame
  <1>8. event = "key" => Len(nest') # 1
    <2>1. ASSUME event = "key"
          PROVE  Len(nest') # 1
      <3>1. Len(nest') = Len(nest) /\ Len(nest) > 1
        BY <1>0, <2>1, ReadKeyFacts DEF ReadEvent
      <3> QED
        BY <3>1
    <2> QED
      BY <2>1
  <1>9. IF Len(nest') = 1
        THEN /\ given' = Append(given, nest[1].key)
             /\ nest'[1].key = NoKey
             /\ Size(nest'[1]) = Size(nest[1]) + 1
        ELSE given' = given /\ nest'[1] = nest[1]
    <2>1. CASE Len(nest') = 1
      <3>1. event \in {"scalar", "end"}
        BY <1>1, <1>2, <1>3, <1>8, <2>1 DEF Events
      <3> QED
        BY <1>0, <1>2, <1>3, <1>6, <2>1, <3>1, MapGiven
    <2>2. CASE Len(nest') # 1
      BY <1>0, <1>2, <1>3, <2>2, MapGiven
    <2> QED
      BY <2>1, <2>2
  <1> QED
    BY <1>0, <1>1, <1>2, <1>3, <1>5, <1>7, <1>9 DEF InMap

LEMMA MapWithinStep ==
    ASSUME MapTyped, MapInv, NEW event, MapWithin(event)
    PROVE  MapTyped' /\ MapInv'
  <1>0. /\ InMap /\ Map!Postcheck(event) /\ MapElement
        /\ depth' = Count(nest', "object")
        /\ UNCHANGED <<parsed, report, uses, unique, again>>
        /\ Represented(given, unique)
        /\ given \in Seq(Keys) /\ unique \in BOOLEAN
    BY DEF MapWithin, InMap, MapInv, MapTyped
  <1> DEFINE k == nest[1].key
  <1>1. /\ event \in Events /\ nest' \in Seq(Frame) /\ nest' # <<>>
        /\ Len(nest') \in Nat \ {0}
        /\ nest'[1].kind = "object" /\ MemberPending'
        /\ k \in Keys /\ current_key = k
        /\ Fits(internal, event) /\ OpenAfter(internal, event) = Len(nest') - 1
        /\ Len(nest') = 1 => /\ given' = Append(given, k)
                             /\ nest'[1].key = NoKey
                             /\ Size(nest'[1]) = Size(nest[1]) + 1
        /\ Len(nest') # 1 => given' = given /\ nest'[1] = nest[1]
    BY MapWithinFacts
  <1> HIDE DEF k
  <1>2. /\ nest[1] \in Frame /\ Size(nest[1]) \in Nat
        /\ Len(given) = Size(nest[1]) /\ m_value = EntriesOf(given, unique)
        /\ parsed <=> again
        /\ the_error = Map!NoError /\ report = <<>>
    <2>1. nest[1] \in Frame
      BY <1>0, FrontFacts DEF InMap, MapTyped
    <2> QED
      BY <1>0, <2>1, SizeType DEF InMap
  <1>3. /\ given' \in Seq(Keys) /\ Represented(given, unique)'
    <2>1. CASE Len(nest') = 1
      BY <1>0, <1>1, <2>1, EmplaceFacts
    <2>2. CASE Len(nest') # 1
      BY <1>0, <1>1, <2>2
    <2> QED
      BY <2>1, <2>2
  <1>4. depth' \in Nat
    BY <1>0, <1>1, CountFinite
  <1>5. CASE /\ phase' = "failed" /\ the_error' = Map!MemberError(current_key)
             /\ internal' \in Part /\ internal'.error /\ element' = "own"
             /\ UNCHANGED <<current_key, m_value>>
    <2>1. the_error' \in MapErrors /\ the_error' # Map!NoError
      BY <1>1, <1>5, MapErrorFacts
    <2>2. MapTyped'
      BY <1>0, <1>1, <1>3, <1>4, <1>5, <2>1 DEF MapTyped, Phases
    <2>3. MapBroken'
      BY <1>0, <1>2, <1>5, <2>1 DEF MapBroken
    <2> QED
      BY <1>3, <1>5, <2>2, <2>3 DEF MapInv
  <1>6. CASE /\ OpenAfter(internal, event) = 0
             /\ internal' = Fresh /\ element' = "default"
             /\ current_key' \in {NoKey, current_key}
             /\ m_value' = Map!Emplaced(Map!Entry(current_key,
                                                  Size(nest[1]) + 1, "own"))
             /\ Accept /\ the_error' = the_error
    <2>1. Len(nest') = 1 /\ phase' = "reading"
      <3>1. Len(nest') - 1 = 0
        BY <1>1, <1>6, Zenon
      <3>2. phase' = "reading"
        BY <1>1, <1>6 DEF Accept
      <3> QED
        BY <1>1, <3>1, <3>2
    <2> DEFINE entry == Map!Entry(k, Len(given) + 1, "own")
    <2>2. m_value' = IF unique /\ \E e \in m_value : e.key = k THEN m_value
                     ELSE m_value \cup {entry}
      <3>1. m_value' = Map!Emplaced(entry) /\ entry.key = k
        BY <1>1, <1>2, <1>6 DEF Map!Entry
      <3> HIDE DEF entry
      <3> QED
        BY <3>1 DEF Map!Emplaced
    <2>3. EntryTyped(entry)
      BY <1>1, <1>2, EntryFacts
    <2> HIDE DEF entry
    <2>4. /\ Len(given') = Len(given) + 1
          /\ EntriesOf(given', unique)
                = IF unique /\ \E e \in EntriesOf(given, unique) : e.key = k
                  THEN EntriesOf(given, unique)
                  ELSE EntriesOf(given, unique) \cup {entry}
      BY <1>0, <1>1, <2>1, EmplaceFacts DEF entry
    <2>5. m_value' = EntriesOf(given, unique)'
      <3>1. m_value' = EntriesOf(given', unique)
        BY <1>2, <2>2, <2>4
      <3> QED
        BY <1>0, <3>1
    <2>6. \A e \in m_value' : EntryTyped(e)
      BY <2>2, <2>3 DEF MapTyped
    <2>7. MapTyped'
      BY <1>0, <1>1, <1>3, <1>4, <1>6, <2>1, <2>6, FreshFacts
         DEF MapTyped, Phases
    <2>8. Len(given') = Size(nest'[1])
      BY <1>1, <1>2, <2>1, <2>4
    <2>9. InMap'
      BY <1>0, <1>1, <1>2, <1>6, <2>1, <2>5, <2>8, FreshFacts
         DEF InMap, MapElement
    <2> QED
      BY <1>3, <2>1, <2>7, <2>9 DEF MapInv
  <1>7. CASE /\ OpenAfter(internal, event) > 0
             /\ internal' \in Part /\ ~internal'.parsed /\ ~internal'.error
             /\ internal'.open = OpenAfter(internal, event)
             /\ element' = "own"
             /\ Accept /\ the_error' = the_error
             /\ UNCHANGED <<current_key, m_value>>
    <2>1. Len(nest') # 1 /\ phase' = "reading"
      <3>1. Len(nest') - 1 > 0
        BY <1>1, <1>7, Zenon
      <3>2. \A n \in Nat : n - 1 > 0 => n # 1
        OBVIOUS
      <3>3. phase' = "reading"
        BY <1>1, <1>7 DEF Accept
      <3>4. Len(nest') \in Nat
        BY <1>1
      <3> QED
        BY <3>1, <3>2, <3>3, <3>4, Zenon
    <2>2. MapTyped'
      BY <1>0, <1>1, <1>3, <1>4, <1>7, <2>1 DEF MapTyped, Phases
    <2>3. /\ given' = given /\ nest'[1] = nest[1]
          /\ m_value' = EntriesOf(given, unique)'
      BY <1>0, <1>1, <1>2, <1>7, <2>1
    <2>4. InMap'
      BY <1>0, <1>1, <1>2, <1>7, <2>1, <2>3 DEF InMap, MapElement
    <2> QED
      BY <1>3, <2>1, <2>2, <2>4 DEF MapInv
  <1> QED
    BY <1>0, <1>1, <1>5, <1>6, <1>7, MapPostcheck

LEMMA MapOwnKeyStep ==
    ASSUME MapTyped, MapInv, NEW k \in Keys, MapOwnKey(k)
    PROVE  MapTyped' /\ MapInv'
  <1>0. /\ InMap /\ ReadKey(k) /\ Len(nest) = 1 /\ nest \in Seq(Frame)
        /\ Map!Given /\ Accept /\ current_key' = k
        /\ UNCHANGED <<internal, element, the_error, m_value, depth, parsed,
                       report, uses, unique, again>>
    BY DEF MapOwnKey, MapTyped
  <1>1. /\ nest' \in Seq(Frame) /\ nest' # <<>> /\ Len(nest') = 1
        /\ nest[1].key = NoKey
        /\ nest'[1].kind = "object" /\ nest'[1].key = k
        /\ Size(nest'[1]) = Size(nest[1])
        /\ Count(nest', "object") = Count(nest, "object")
    BY <1>0, ReadKeyFacts
  <1>2. given' = given
    BY <1>0, <1>1, MapGiven
  <1>3. phase' = "reading" /\ MemberPending'
    BY <1>0, <1>1 DEF Accept, MemberPending
  <1>4. MapTyped'
    BY <1>0, <1>1, <1>2, <1>3 DEF MapTyped, Phases
  <1>5. InMap'
    BY <1>0, <1>1, <1>2, <1>3 DEF InMap, MapElement
  <1> QED
    BY <1>0, <1>2, <1>3, <1>4, <1>5 DEF MapInv

LEMMA MapBeginsStep ==
    ASSUME MapTyped, MapInv, MapBegins
    PROVE  MapTyped' /\ MapInv'
  <1>0. /\ MapIdle /\ nest' \in Seq(Frame)
        /\ Len(nest') = 1 /\ nest'[1] = NewFrame("object")
        /\ depth' = 1 /\ depth' = Count(nest', "object")
        /\ m_value' = {} /\ Accept /\ Map!Given
        /\ UNCHANGED <<internal, element, the_error, current_key, parsed,
                       report, uses, unique, again>>
    BY DEF MapBegins
  <1>1. nest' # <<>> /\ phase' = "reading"
    BY <1>0 DEF Accept
  <1>2. nest'[1].kind = "object" /\ nest'[1].key = NoKey /\ Size(nest'[1]) = 0
    <2>1. "object" \in Kinds
      BY DEF Kinds
    <2> QED
      BY <1>0, <2>1, NewFrameType
  <1>3. given' = <<>> /\ Len(given') = 0 /\ MemberPending'
    <2>1. given' = given
      BY <1>0, MapGiven DEF MapIdle
    <2> QED
      BY <1>0, <2>1 DEF MapIdle, MemberPending
  <1>4. EntriesOf(given, unique)' = {} /\ Represented(given, unique)'
    BY <1>3 DEF EntriesOf, KeptOf, Represented
  <1>5. MapTyped'
    BY <1>0, <1>1, <1>3 DEF MapTyped, Phases
  <1>6. InMap'
    BY <1>0, <1>1, <1>2, <1>3, <1>4, FreshFacts DEF InMap, MapIdle, MapElement
  <1> QED
    BY <1>1, <1>4, <1>5, <1>6 DEF MapInv

LEMMA MapEndsStep ==
    ASSUME MapTyped, MapInv, MapEnds
    PROVE  MapTyped' /\ MapInv'
  <1>0. /\ InMap /\ Len(nest) = 1 /\ nest' = <<>> /\ depth' = 0
        /\ parsed' = TRUE /\ Accept /\ Map!Given
        /\ UNCHANGED <<internal, element, the_error, current_key, m_value,
                       report, uses, unique, again>>
    BY DEF MapEnds
  <1>1. phase' = "complete" /\ given' = given
    <2>1. Len(nest') # 1
      BY <1>0
    <2> QED
      BY <1>0, <2>1, MapGiven DEF Accept
  <1>2. MapTyped'
    BY <1>0, <1>1 DEF MapTyped, Phases
  <1>3. internal = Fresh /\ element = "default"
    <2>1. /\ internal \in Part /\ internal.open = 0
          /\ internal.parsed = FALSE /\ internal.error = FALSE
          /\ element = "default"
      BY <1>0 DEF InMap, MapElement, MapTyped, Part
    <2> QED
      BY <2>1, FreshFacts, SamePart
  <1>4. MapDone'
    BY <1>0, <1>1, <1>3 DEF InMap, MapDone
  <1> QED
    BY <1>0, <1>1, <1>2, <1>4 DEF MapInv

LEMMA MapNoObjectStep ==
    ASSUME MapTyped, MapInv, MapNoObject
    PROVE  MapTyped' /\ MapInv'
  <1>0. /\ MapIdle /\ nest' \in Seq(Frame)
        /\ the_error' = Map!Mismatch /\ phase' = "failed" /\ Map!Given
        /\ UNCHANGED <<internal, element, current_key, m_value, depth, parsed,
                       report, uses, unique, again>>
    BY DEF MapNoObject
  <1>1. given' = given
    BY <1>0, MapGiven DEF MapIdle
  <1>2. the_error' \in MapErrors /\ the_error' # Map!NoError
        /\ the_error'.type # "OBJECT_MEMBER"
    BY <1>0, MapErrorFacts
  <1>3. MapTyped'
    BY <1>0, <1>1, <1>2 DEF MapTyped, Phases
  <1>4. MapBroken'
    BY <1>0, <1>2 DEF MapIdle, MapBroken
  <1> QED
    BY <1>0, <1>1, <1>3, <1>4 DEF MapInv

LEMMA MapEventStep ==
    ASSUME MapTyped, MapInv, MapEvent
    PROVE  MapTyped' /\ MapInv'
  BY MapWithinStep, MapOwnKeyStep, MapBeginsStep, MapEndsStep, MapNoObjectStep
     DEF MapEvent

(* Where the reader can go on, the map is idle, or in the map's object.     *)
LEMMA MapActive ==
    ASSUME MapTyped, MapInv, NEW event, ReadEvent(event)
    PROVE  /\ nest \in Seq(Frame) /\ nest' \in Seq(Frame) /\ depth \in Nat
           /\ nest = <<>> => MapIdle /\ event \in {"scalar", "start"}
           /\ nest # <<>> =>
                 /\ InMap /\ Len(nest) \in Nat \ {0} /\ depth >= 1
                 /\ nest[Len(nest)].kind = "object" => (depth = 1 <=> Len(nest) = 1)
                 /\ nest[Len(nest)].kind # "object" => Len(nest) > 1
  <1>1. /\ nest \in Seq(Frame) /\ nest' \in Seq(Frame) /\ depth \in Nat
        /\ Active
    BY ReadEventFacts DEF MapTyped
  <1>2. /\ nest = <<>> => MapIdle
        /\ nest # <<>> => InMap
    BY <1>1 DEF Active, MapInv, MapIdle, InMap
  <1>3. nest = <<>> => event \in {"scalar", "start"}
    BY ReadAtRoot
  <1>4. ASSUME nest # <<>>
        PROVE  /\ Len(nest) \in Nat \ {0}
               /\ depth >= 1
               /\ nest[Len(nest)].kind = "object" => (depth = 1 <=> Len(nest) = 1)
               /\ nest[Len(nest)].kind # "object" => Len(nest) > 1
    <2>1. /\ Len(nest) \in Nat \ {0} /\ nest[1].kind = "object"
          /\ Last(nest) = nest[Len(nest)] /\ depth = Count(nest, "object")
      BY <1>1, <1>2, <1>4, FrontFacts DEF InMap
    <2>2. /\ Count(nest, "object") >= 1
          /\ Last(nest).kind = "object" =>
                 (Count(nest, "object") = 1 <=> Len(nest) = 1)
      BY <1>1, <1>4, <2>1, CountOne
    <2>3. nest[Len(nest)].kind # "object" => Len(nest) # 1
      BY <2>1
    <2>4. \A n \in Nat \ {0} : n # 1 => n > 1
      OBVIOUS
    <2> QED
      BY <1>1, <2>1, <2>2, <2>3, <2>4, Zenon
  <1> QED
    BY <1>1, <1>2, <1>3, <1>4

(* A scalar, or a bracket: at the root it is no object; else it is of a     *)
(* member's value.                                                          *)
LEMMA MapElementEvent ==
    ASSUME MapTyped, MapInv, NEW event, ReadEvent(event), event # "key",
           Map!Element(event), Count(nest', "object") = Count(nest, "object"),
           event = "end" => Len(nest) > 1 \/ nest = <<>>
    PROVE  MapEvent
  <1>0. /\ Map!Given /\ UNCHANGED <<depth, parsed, report, uses, unique, again>>
        /\ \/ Map!MismatchAtRoot /\ UNCHANGED <<current_key, m_value>>
           \/ depth > 0 /\ Map!Postcheck(event)
    BY DEF Map!Element, Map!historyVars
  <1>1. CASE nest = <<>>
    <2>1. MapIdle /\ depth = 0 /\ nest' \in Seq(Frame)
      BY <1>1, MapActive DEF MapIdle
    <2>2. Map!MismatchAtRoot /\ UNCHANGED <<current_key, m_value>>
      BY <1>0, <2>1
    <2>3. the_error' = Map!Mismatch /\ phase' = "failed"
          /\ UNCHANGED <<internal, element>>
      BY <2>2 DEF Map!MismatchAtRoot, Map!Reject, Map!Terminate, Map!Mismatch
    <2> QED
      BY <1>0, <2>1, <2>2, <2>3 DEF MapEvent, MapNoObject
  <1>2. CASE nest # <<>>
    <2>1. InMap /\ depth >= 1 /\ depth \in Nat
      BY <1>2, MapActive
    <2>2. Map!Postcheck(event)
      BY <1>0, <2>1 DEF Map!MismatchAtRoot
    <2>3. depth' = Count(nest', "object")
      BY <1>0, <2>1 DEF InMap
    <2> QED
      BY <1>0, <1>2, <2>1, <2>2, <2>3 DEF MapEvent, MapWithin
  <1> QED
    BY <1>1, <1>2

LEMMA MapScalar ==
    ASSUME MapTyped, MapInv, Map!Scalar
    PROVE  MapEvent
  <1>1. ReadEvent("scalar") /\ ReadScalar /\ Map!Element("scalar")
    BY MapReader DEF Map!Scalar, ReadEvent
  <1>2. Count(nest', "object") = Count(nest, "object")
    <2>1. CASE nest = <<>>
      BY <1>1, <2>1, ReadAtRoot
    <2>2. CASE nest # <<>>
      BY <1>1, <2>2, MapActive, ReadScalarFacts
    <2> QED
      BY <2>1, <2>2
  <1> QED
    BY <1>1, <1>2, MapElementEvent

LEMMA MapStartArray ==
    ASSUME MapTyped, MapInv, Map!StartArray
    PROVE  MapEvent
  <1>1. /\ ReadStart("array") /\ "array" \in Kinds /\ ReadEvent("start")
        /\ Map!Element("start")
    BY MapReader DEF Map!StartArray, ReadEvent, Kinds
  <1>2. Count(nest', "object") = Count(nest, "object")
    <2>1. /\ Count(nest', "object") = Count(nest, "object") + 0
          /\ Count(nest, "object") \in Nat
      BY <1>1, MapActive, ReadStartFacts, CountFinite
    <2> QED
      BY <2>1
  <1> QED
    BY <1>1, <1>2, MapElementEvent

LEMMA MapEndArray ==
    ASSUME MapTyped, MapInv, Map!EndArray
    PROVE  MapEvent
  <1>1. /\ ReadEnd("array") /\ "array" \in Kinds /\ ReadEvent("end")
        /\ Map!Element("end")
    BY MapReader DEF Map!EndArray, ReadEvent, Kinds
  <1>2. /\ Count(nest', "object") = Count(nest, "object")
        /\ nest # <<>> /\ nest[Len(nest)].kind = "array"
    <2>1. /\ Count(nest', "object") = Count(nest, "object") - 0
          /\ Count(nest, "object") \in Nat
          /\ nest # <<>> /\ nest[Len(nest)].kind = "array"
      BY <1>1, MapActive, ReadEndFacts, CountFinite
    <2> QED
      BY <2>1
  <1>3. Len(nest) > 1
    <2>1. "array" # "object"
      OBVIOUS
    <2> QED
      BY <1>1, <1>2, <2>1, MapActive
  <1> QED
    BY <1>1, <1>2, <1>3, MapElementEvent

LEMMA MapKey ==
    ASSUME MapTyped, MapInv, Map!Key
    PROVE  MapEvent
  <1>1. PICK k \in Keys :
            /\ ReadKey(k)
            /\ \/ ~Map!OwnKey /\ Map!Postcheck("key")
               \/ /\ Map!OwnKey
                  /\ current_key' = k
                  /\ Map!Return
                  /\ UNCHANGED <<internal, element, m_value>>
    BY MapReader DEF Map!Key
  <1>2. Map!Given /\ UNCHANGED <<depth, parsed, report, uses, unique, again>>
    BY DEF Map!Key, Map!historyVars
  <1>3. ReadEvent("key")
    BY <1>1 DEF ReadEvent
  <1>4. /\ nest # <<>> /\ nest[Len(nest)].kind = "object"
        /\ Count(nest', "object") = Count(nest, "object")
    BY <1>1, <1>3, MapActive, ReadKeyFacts
  <1>5. /\ InMap /\ depth >= 1 /\ depth \in Nat /\ Len(nest) \in Nat \ {0}
        /\ depth = 1 <=> Len(nest) = 1
    BY <1>3, <1>4, MapActive
  <1>6. CASE ~Map!OwnKey /\ Map!Postcheck("key")
    <2>1. depth # 1
      BY <1>5, <1>6 DEF Map!OwnKey
    <2>2. Len(nest) > 1
      <3>1. \A n \in Nat \ {0} : n # 1 => n > 1
        OBVIOUS
      <3> QED
        BY <1>5, <2>1, <3>1, Zenon
    <2>3. depth' = Count(nest', "object")
      BY <1>2, <1>4, <1>5 DEF InMap
    <2> QED
      BY <1>2, <1>3, <1>5, <1>6, <2>2, <2>3 DEF MapEvent, MapWithin
  <1>7. CASE /\ Map!OwnKey
             /\ current_key' = k
             /\ Map!Return
             /\ UNCHANGED <<internal, element, m_value>>
    <2>1. depth = 1
      BY <1>5, <1>7 DEF Map!OwnKey
    <2>2. Len(nest) = 1 /\ Accept /\ the_error' = the_error
      BY <1>5, <1>7, <2>1 DEF Map!Return, Map!Accept, Accept
    <2> QED
      BY <1>1, <1>2, <1>5, <1>7, <2>2 DEF MapEvent, MapOwnKey
  <1> QED
    BY <1>1, <1>6, <1>7

LEMMA MapStartObject ==
    ASSUME MapTyped, MapInv, Map!StartObject
    PROVE  MapEvent
  <1>1. /\ ReadStart("object") /\ "object" \in Kinds /\ ReadEvent("start")
        /\ depth' = depth + 1 /\ Map!Given
        /\ UNCHANGED <<parsed, report, uses, unique, again>>
        /\ \/ depth' > 1 /\ Map!Postcheck("start")
           \/ /\ depth' <= 1
              /\ m_value' = {}
              /\ Accept
              /\ UNCHANGED <<the_error, internal, element, current_key>>
    BY MapReader
       DEF Map!StartObject, Map!Opened, Map!historyVars, Map!Clear, Map!Return,
           Map!Accept, Accept, ReadEvent, Kinds
  <1>2. /\ depth \in Nat /\ Len(nest') = Len(nest) + 1
        /\ nest' \in Seq(Frame) /\ nest \in Seq(Frame)
        /\ nest'[Len(nest) + 1] = NewFrame("object")
        /\ Count(nest', "object") = Count(nest, "object") + 1
    BY <1>1, MapActive, ReadStartFacts
  <1>3. CASE nest = <<>>
    <2>1. MapIdle /\ depth = 0 /\ Len(nest) = 0 /\ Count(nest, "object") = 0
      BY <1>1, <1>3, MapActive, CountEmpty DEF MapIdle
    <2>2. /\ depth' = 1 /\ depth' = Count(nest', "object")
          /\ Len(nest') = 1 /\ nest'[1] = NewFrame("object")
      BY <1>1, <1>2, <2>1
    <2>3. /\ m_value' = {} /\ Accept
          /\ UNCHANGED <<the_error, internal, element, current_key>>
      BY <1>1, <2>2
    <2> QED
      BY <1>1, <1>2, <2>1, <2>2, <2>3 DEF MapEvent, MapBegins
  <1>4. CASE nest # <<>>
    <2>1. InMap /\ depth >= 1
      BY <1>1, <1>4, MapActive
    <2>2. Map!Postcheck("start")
      BY <1>1, <1>2, <2>1
    <2>3. depth' = Count(nest', "object")
      BY <1>1, <1>2, <2>1 DEF InMap
    <2> QED
      BY <1>1, <2>1, <2>2, <2>3 DEF MapEvent, MapWithin
  <1> QED
    BY <1>3, <1>4

LEMMA MapEndObject ==
    ASSUME MapTyped, MapInv, Map!EndObject
    PROVE  MapEvent
  <1>1. /\ ReadEnd("object") /\ "object" \in Kinds /\ ReadEvent("end")
        /\ depth' = depth - 1 /\ Map!Given
        /\ UNCHANGED <<report, uses, unique, again>>
        /\ \/ depth - 1 > 0 /\ Map!Postcheck("end") /\ UNCHANGED parsed
           \/ /\ ~(depth - 1 > 0)
              /\ parsed' = TRUE
              /\ Accept
              /\ UNCHANGED <<the_error, internal, element, current_key, m_value>>
    BY MapReader
       DEF Map!EndObject, Map!EndsElement, Map!historyVars, Map!Return,
           Map!Accept, Accept, ReadEvent, Kinds
  <1>2. /\ nest # <<>> /\ nest[Len(nest)].kind = "object"
        /\ nest' = <<>> <=> Len(nest) = 1
        /\ Count(nest', "object") = Count(nest, "object") - 1
    BY <1>1, MapActive, ReadEndFacts
  <1>3. /\ InMap /\ depth >= 1 /\ depth \in Nat /\ Len(nest) \in Nat \ {0}
        /\ depth = 1 <=> Len(nest) = 1
    BY <1>1, <1>2, MapActive
  <1>4. CASE depth = 1
    <2>1. nest' = <<>> /\ depth' = 0
      BY <1>1, <1>2, <1>3, <1>4
    <2>2. /\ parsed' = TRUE
          /\ Accept
          /\ UNCHANGED <<the_error, internal, element, current_key, m_value>>
      BY <1>1, <1>4
    <2> QED
      BY <1>1, <1>3, <2>1, <2>2 DEF MapEvent, MapEnds
  <1>5. CASE depth # 1
    <2>1. depth - 1 > 0 /\ Len(nest) > 1
      <3>1. \A n \in Nat \ {0} : n # 1 => n > 1
        OBVIOUS
      <3>2. Len(nest) > 1
        BY <1>3, <1>5, <3>1, Zenon
      <3>3. \A n \in Nat : n >= 1 /\ n # 1 => n - 1 > 0
        OBVIOUS
      <3> QED
        BY <1>3, <1>5, <3>2, <3>3, Zenon
    <2>2. Map!Postcheck("end") /\ UNCHANGED parsed
      BY <1>1, <2>1
    <2>3. depth' = Count(nest', "object")
      BY <1>1, <1>2, <1>3 DEF InMap
    <2> QED
      BY <1>1, <1>3, <2>1, <2>2, <2>3 DEF MapEvent, MapWithin
  <1> QED
    BY <1>4, <1>5

LEMMA MapEvents ==
    ASSUME MapTyped, MapInv,
           \/ Map!Scalar \/ Map!Key \/ Map!StartObject
           \/ Map!EndObject \/ Map!StartArray \/ Map!EndArray
    PROVE  MapEvent
  BY MapScalar, MapKey, MapStartObject, MapEndObject, MapStartArray, MapEndArray

(* The handler of the value has the error that ObjectMemberError announces. *)
LEMMA MapReap ==
    ASSUME MapTyped, MapInv, Map!ReapError, UNCHANGED Map!mapVars
    PROVE  MapTyped' /\ MapInv'
  <1>1. /\ the_error # Map!NoError /\ the_error' = Map!NoError
        /\ report' = report \o <<the_error.type>> \o Map!ElementReap
        /\ internal' = Reaped(internal)
        /\ UNCHANGED <<nest, phase, element, depth, parsed, unique, again,
                       current_key, m_value, given>>
    BY MapContract DEF Map!ReapError, Map!readerVars, Map!mapVars
  <1>2. phase = "failed" /\ MapBroken /\ report = <<>>
    BY <1>1 DEF MapTyped, Phases, MapInv, MapIdle, InMap, MapDone, MapBroken
  <1>3. internal' \in Part /\ the_error' \in MapErrors
    BY <1>1, MapErrorFacts DEF MapTyped, Part, Reaped
  <1>4. MapTyped'
    BY <1>1, <1>3 DEF MapTyped
  <1> DEFINE S == {the_error.type, "part"}
             a == <<the_error.type>>
             b == <<"part">>
             c == <<>>
  <1>5. /\ a \in Seq(S) /\ b \in Seq(S) /\ c \in Seq(S)
        /\ Len(a) = 1 /\ Len(b) = 1 /\ Len(c) = 0
        /\ a[1] = the_error.type /\ b[1] = "part"
        /\ c \o a = a /\ a \o c = a
    OBVIOUS
  <1>6. report' = a \o Map!ElementReap
    BY <1>1, <1>2, <1>5
  <1>7. Map!ElementReap = IF internal.error THEN b ELSE c
    BY DEF Map!ElementReap
  <1> HIDE DEF a, b
  <1>8. report' # <<>> /\ Last(report') # "OBJECT_MEMBER"
    <2>1. CASE internal.error
      <3>1. report' = a \o b
        BY <1>6, <1>7, <2>1
      <3>2. report' \in Seq(S) /\ Len(report') = 2 /\ report'[2] = "part"
        BY <1>5, <3>1, ConcatProperties
      <3>3. report' # <<>>
        BY <1>5, <3>2
      <3> QED
        BY <3>2, <3>3 DEF Last
    <2>2. CASE ~internal.error
      <3>1. report' = a
        BY <1>5, <1>6, <1>7, <2>2
      <3>2. the_error.type # "OBJECT_MEMBER"
        BY <1>2, <2>2 DEF MapBroken
      <3>3. Len(report') = 1 /\ Len(<<>>) = 0
        BY <1>5, <3>1
      <3>4. report' # <<>>
        BY <3>3
      <3> QED
        BY <1>5, <3>1, <3>2, <3>4 DEF Last
    <2> QED
      BY <2>1, <2>2
  <1>9. MapBroken'
    <2>1. the_error'.type # "OBJECT_MEMBER"
      BY <1>1, MapErrorFacts
    <2> QED
      BY <1>1, <1>2, <1>8, <2>1 DEF MapBroken
  <1>10. Represented(given, unique)'
    BY <1>1 DEF MapInv
  <1> QED
    BY <1>1, <1>2, <1>4, <1>9, <1>10 DEF MapInv

LEMMA MapPrepareForReuse ==
    ASSUME MapTyped, MapInv, Map!PrepareForReuse
    PROVE  MapTyped' /\ MapInv'
  <1>1. /\ nest' = <<>> /\ phase' = "ready" /\ depth' = 0
        /\ internal' = Fresh /\ element' = "default"
        /\ the_error' = Map!NoError /\ parsed' = FALSE /\ report' = <<>>
        /\ current_key' = NoKey /\ again' = FALSE /\ given' = <<>>
        /\ unique' = unique /\ m_value' = m_value
    BY MapContract
       DEF Map!PrepareForReuse, Map!PrepareFeed, Map!NextText,
           Map!RenewElement, Map!ClearVerdict
  <1>2. /\ nest' \in Seq(Frame) /\ given' \in Seq(Keys)
        /\ parsed' \in BOOLEAN /\ again' \in BOOLEAN
    <2>1. nest' \in Seq(Frame) /\ given' \in Seq(Keys)
      BY <1>1
    <2>2. parsed' \in BOOLEAN /\ again' \in BOOLEAN
      BY <1>1, Zenon
    <2> QED
      BY <2>1, <2>2
  <1>3. phase' \in Phases /\ depth' \in Nat
    BY <1>1 DEF Phases
  <1>4. MapTyped'
    BY <1>1, <1>2, <1>3, FreshFacts, MapErrorFacts, Zenon DEF MapTyped
  <1>5. Represented(given, unique)'
    BY <1>1 DEF Represented
  <1>6. MapIdle'
    BY <1>1 DEF MapIdle
  <1> QED
    BY <1>1, <1>4, <1>5, <1>6 DEF MapInv

(* A value that is repeated finds the element as a new handler would.       *)
LEMMA MapAgain ==
    ASSUME MapTyped, MapInv, Map!Again
    PROVE  MapTyped' /\ MapInv'
  <1>1. /\ MapDone
        /\ nest' = <<>> /\ phase' = "ready" /\ again' = TRUE /\ given' = <<>>
        /\ UNCHANGED <<internal, element, depth, the_error, parsed, report,
                       unique, current_key, m_value>>
    BY DEF Map!Again, Map!NextText, Map!feedVars, MapInv
  <1>2. MapTyped'
    <2>1. /\ nest' \in Seq(Frame) /\ given' \in Seq(Keys)
          /\ phase' \in Phases /\ again' \in BOOLEAN
      BY <1>1 DEF Phases
    <2> QED
      BY <1>1, <2>1 DEF MapTyped
  <1>3. Represented(given, unique)'
    BY <1>1 DEF Represented
  <1>4. MapIdle'
    BY <1>1 DEF MapIdle, MapDone
  <1> QED
    BY <1>1, <1>2, <1>3, <1>4 DEF MapInv

LEMMA MapNext ==
    MapTyped /\ MapInv /\ Map!Next => MapTyped' /\ MapInv'
  <1> SUFFICES ASSUME MapTyped, MapInv, Map!Next
               PROVE  MapTyped' /\ MapInv'
    OBVIOUS
  <1>1. CASE \/ Map!Scalar \/ Map!Key \/ Map!StartObject
             \/ Map!EndObject \/ Map!StartArray \/ Map!EndArray
    BY <1>1, MapEvents, MapEventStep
  <1> QED
    BY <1>1, MapReap, MapPrepareForReuse, MapAgain DEF Map!Next

LEMMA MapKeeps ==
    MapTyped /\ MapInv
        => /\ Map!MemberErrorHasCause
           /\ Map!ElementInStep /\ Map!EntriesMatchText
  <1> SUFFICES ASSUME MapTyped, MapInv
               PROVE  /\ Map!MemberErrorHasCause
                      /\ Map!ElementInStep /\ Map!EntriesMatchText
    OBVIOUS
  <1>0. phase \in Phases
    BY DEF MapTyped
  <1>1. Map!MemberErrorHasCause
    BY <1>0 DEF MapInv, MapIdle, InMap, MapDone, MapBroken, Phases,
                Map!MemberErrorHasCause, Map!Last, Last
  <1>2. Map!ElementInStep
    BY DEF MapInv, InMap, Map!ElementInStep
  <1>3. Map!EntriesMatchText
    <2> SUFFICES ASSUME phase \in {"reading", "complete"}
                 PROVE  Map!EntriesMatchText
      BY Zenon DEF Map!EntriesMatchText
    <2>1. Represented(given, unique) /\ m_value = EntriesOf(given, unique)
      BY DEF MapInv, InMap, MapDone
    <2>2. m_value \subseteq {Map!Entry(given[i], i, "own") : i \in DOMAIN given}
      BY <2>1 DEF EntriesOf, KeptOf
    <2>3. ASSUME NEW i \in DOMAIN given
          PROVE  \E e \in m_value : e.key = given[i] /\ (unique \/ e.item = i)
      <3>1. PICK j \in KeptOf(given, unique) :
                given[j] = given[i] /\ (unique \/ j = i)
        BY <2>1 DEF Represented, KeptOf
      <3>2. Map!Entry(given[j], j, "own") \in m_value
        BY <2>1 DEF EntriesOf
      <3>3. /\ Map!Entry(given[j], j, "own").key = given[j]
            /\ Map!Entry(given[j], j, "own").item = j
        BY DEF Map!Entry
      <3> QED
        BY <3>1, <3>2, <3>3
    <2> QED
      BY <2>2, <2>3, Zenon DEF Map!EntriesMatchText
  <1> QED
    BY <1>1, <1>2, <1>3

(* Only the handler of a member's value makes ObjectMemberError be set; the *)
(* key in it is then that of the member.                                    *)
LEMMA MapNames ==
    ASSUME MapTyped, MapInv,
           Map!Next \/ the_error' = the_error
    PROVE  Map!NamesKey
  <1> SUFFICES ASSUME the_error = Map!NoError, the_error'.type = "OBJECT_MEMBER"
               PROVE  the_error'.key = Map!OpenMember
    BY DEF Map!NamesKey
  <1>0. the_error' # the_error /\ the_error' # Map!NoError
    BY MapErrorFacts
  <1>1. ~Map!ReapError /\ ~Map!PrepareForReuse /\ ~Map!Again
    BY <1>0 DEF Map!ReapError, Map!PrepareForReuse, Map!PrepareFeed,
                Map!ClearVerdict, Map!Again, Map!feedVars
  <1>2. MapEvent
    BY <1>0, <1>1, MapEvents DEF Map!Next
  <1>3. PICK event : MapWithin(event)
    <2>1. ~MapNoObject
      BY MapErrorFacts DEF MapNoObject
    <2> QED
      BY <1>0, <1>2, <2>1 DEF MapEvent, MapOwnKey, MapBegins, MapEnds
  <1>4. /\ event \in Events /\ Fits(internal, event) /\ MapElement
        /\ nest # <<>> /\ nest[1].key \in Keys /\ current_key = nest[1].key
        /\ Map!Postcheck(event)
    BY <1>3, MapWithinFacts DEF MapWithin, InMap
  <1>5. the_error' = Map!MemberError(nest[1].key)
    BY <1>0, <1>4, MapPostcheck
  <1>6. Map!OpenMember = nest[1].key
    BY <1>4 DEF Map!OpenMember, Map!AtRoot
  <1> QED
    BY <1>4, <1>5, <1>6, MapErrorFacts

-------------------------------------------------------------------------------
(* The four classes together.                                               *)
ForwardingInv ==
    \/ class = "MapHandler" /\ MapTyped /\ MapInv
    \/ class = "PointerHandler" /\ PointerTyped /\ PointerInv
    \/ class = "TupleHander" /\ TupleTyped /\ TupleInv
    \/ class = "ConversionHandler" /\ Conversion!TypeOK /\ ConversionInv

LEMMA MapInit == Map!Init => MapTyped /\ MapInv
  <1> SUFFICES ASSUME Map!Init PROVE MapTyped /\ MapInv
    OBVIOUS
  <1>1. /\ nest = <<>> /\ phase = "ready"
        /\ internal = Fresh /\ element = "default" /\ depth = 0
        /\ the_error = Map!NoError /\ parsed = FALSE /\ report = <<>>
        /\ unique \in BOOLEAN /\ current_key = NoKey
        /\ m_value \in {{}} \cup {{Map!Entry(k, 0, "old")} : k \in Keys}
        /\ again = FALSE /\ given = <<>>
    BY MapContract DEF Map!Init, Map!FeedInit, Map!ReaderInit
  <1>2. \A e \in m_value : EntryTyped(e)
    BY <1>1, EntryFacts
  <1>3. nest \in Seq(Frame) /\ given \in Seq(Keys) /\ phase \in Phases
    BY <1>1 DEF Phases
  <1>4. MapTyped
    <2>1. parsed \in BOOLEAN /\ again \in BOOLEAN /\ depth \in Nat
      <3>1. 0 \in Nat
        OBVIOUS
      <3> QED
        BY <1>1, <3>1, Zenon
    <2> QED
      BY <1>1, <1>2, <1>3, <2>1, FreshFacts, MapErrorFacts, Zenon DEF MapTyped
  <1>5. Represented(given, unique)
    BY <1>1 DEF Represented
  <1> QED
    BY <1>1, <1>4, <1>5 DEF MapInv, MapIdle

LEMMA PointerInit == Pointer!Init => PointerTyped /\ PointerInv
  <1> SUFFICES ASSUME Pointer!Init PROVE PointerTyped /\ PointerInv
    OBVIOUS
  <1>1. /\ nest = <<>> /\ phase = "ready"
        /\ m_value \in {"null", "old"}
        /\ internal_handler = "none" /\ internal = Fresh
        /\ depth = 0 /\ parsed = FALSE
        /\ again = FALSE /\ strayed = FALSE /\ isNull = FALSE
        /\ report = <<>> /\ uses = 0
    BY PointerContract DEF Pointer!Init, Pointer!ReaderInit
  <1>2. /\ nest \in Seq(Frame) /\ report \in Seq({"part"})
        /\ phase \in Phases /\ uses \in Nat /\ depth \in Nat
        /\ m_value \in Pointer!Values
    BY <1>1 DEF Phases, Pointer!Values
  <1>3. parsed \in BOOLEAN /\ again \in BOOLEAN
        /\ strayed \in BOOLEAN /\ isNull \in BOOLEAN
    BY <1>1, Zenon
  <1>4. PointerTyped
    BY <1>1, <1>2, <1>3, FreshFacts DEF PointerTyped
  <1> QED
    BY <1>1, <1>4, FreshFacts DEF PointerInv, PointerIdle

LEMMA TupleInit == Tuple!Init => TupleTyped /\ TupleInv
  <1> SUFFICES ASSUME Tuple!Init PROVE TupleTyped /\ TupleInv
    OBVIOUS
  <1>0. N \in Nat \ {0}
    BY ForwardingAssumption
  <1>1. /\ nest = <<>> /\ phase = "ready"
        /\ handlers = [i \in 1..N |-> Fresh]
        /\ m_value = [i \in 1..N |-> "old"]
        /\ index = 0 /\ depth = 0
        /\ the_error = N /\ parsed = FALSE
        /\ root = "none" /\ length = 0 /\ report = <<>> /\ uses = 0
    BY TupleContract
       DEF Tuple!Init, Tuple!ReaderInit, Tuple!Element, Tuple!NoError
  <1>2. \A i \in 1..N : handlers[i] = Fresh /\ m_value[i] = "old" /\ N # i - 1
    BY <1>0, <1>1
  <1>3. TupleTyped
    <2>1. /\ handlers \in [1..N -> Part]
          /\ m_value \in [1..N -> {"old", "own", "mixed"}]
      BY <1>1, FreshFacts
    <2>2. parsed \in BOOLEAN
      BY <1>1, Zenon
    <2>3. /\ nest \in Seq(Frame) /\ report \in Seq({"ARRAY_ELEMENT", "part"})
          /\ phase \in Phases /\ root \in {"none", "scalar"} \cup Kinds
      BY <1>1 DEF Phases
    <2>4. /\ index \in 0..N /\ depth \in Nat /\ the_error \in 0..N
          /\ length \in Nat /\ uses \in Nat
      BY <1>0, <1>1
    <2> QED
      BY <2>1, <2>2, <2>3, <2>4 DEF TupleTyped
  <1>4. TupleErrors
    <2>1. depth = Count(nest, "array")
      BY <1>1, CountEmpty
    <2>2. \A i \in 1..N : handlers[i].error <=> the_error = i - 1
      BY <1>1, <1>2, FreshFacts, Zenon
    <2> QED
      BY <1>1, <2>1, <2>2 DEF TupleErrors
  <1> QED
    BY <1>1, <1>2, <1>3, <1>4 DEF TupleInv, TupleIdle

LEMMA ConversionInit == Conversion!Init => Conversion!TypeOK /\ ConversionInv
  <1> SUFFICES ASSUME Conversion!Init PROVE Conversion!TypeOK /\ ConversionInv
    OBVIOUS
  <1>1. /\ nest = <<>> /\ phase = "ready"
        /\ shadow = "default" /\ internal = Fresh /\ m_value = "old"
        /\ the_error = FALSE /\ parsed = FALSE /\ again = FALSE
        /\ calls = 0 /\ report = <<>> /\ uses = 0
    BY ConversionContract DEF Conversion!Init, Conversion!ReaderInit
  <1>2. /\ nest \in Seq(Frame) /\ report \in Seq({"conversion", "part"})
        /\ phase \in Phases /\ uses \in Nat /\ calls \in Nat
    BY <1>1 DEF Phases
  <1>3. the_error \in BOOLEAN /\ parsed \in BOOLEAN /\ again \in BOOLEAN
    BY <1>1, Zenon
  <1>4. Conversion!TypeOK
    BY <1>1, <1>2, <1>3, FreshFacts, ConversionContract
       DEF Conversion!TypeOK, Conversion!ReaderTypeOK
  <1> QED
    BY <1>1, <1>4, FreshFacts DEF ConversionInv, ConversionIdle

LEMMA ForwardingInit == Init => ForwardingInv
  BY MapInit, PointerInit, TupleInit, ConversionInit DEF Init, ForwardingInv

(* A class stays what it is.                                                *)
LEMMA ForwardingSteps ==
    ASSUME ForwardingInv, [Next]_vars
    PROVE  /\ class' = class
           /\ class = "MapHandler"
                  => MapTyped /\ MapInv /\ (Map!Next \/ UNCHANGED vars)
           /\ class = "PointerHandler"
                  => PointerTyped /\ PointerInv /\ (Pointer!Next \/ UNCHANGED vars)
           /\ class = "TupleHander"
                  => TupleTyped /\ TupleInv /\ (Tuple!Next \/ UNCHANGED vars)
           /\ class = "ConversionHandler"
                  => /\ Conversion!TypeOK /\ ConversionInv
                     /\ Conversion!Next \/ UNCHANGED vars
  <1>1. /\ Next => /\ class' = class
                   /\ class = "MapHandler" => Map!Next
                   /\ class = "PointerHandler" => Pointer!Next
                   /\ class = "TupleHander" => Tuple!Next
                   /\ class = "ConversionHandler" => Conversion!Next
    BY DEF Next, MapStep, PointerStep, TupleStep, ConversionStep
  <1>2. UNCHANGED vars => class' = class
    BY DEF vars
  <1> QED
    BY <1>1, <1>2 DEF ForwardingInv

LEMMA ForwardingNext == ForwardingInv /\ [Next]_vars => ForwardingInv'
  <1> SUFFICES ASSUME ForwardingInv, [Next]_vars
               PROVE  ForwardingInv'
    OBVIOUS
  <1>1. CASE class = "MapHandler"
    <2>1. ASSUME UNCHANGED vars, MapTyped, MapInv
          PROVE  MapTyped' /\ MapInv'
      BY <2>1
         DEF vars, readerVars, mapOwn, pointerOwn, tupleOwn, conversionOwn,
             MapTyped, MapInv, MapIdle, InMap, MapElement, MapDone, MapBroken,
             MemberPending
    <2> QED
      BY <1>1, <2>1, ForwardingSteps, MapNext DEF ForwardingInv
  <1>2. CASE class = "PointerHandler"
    <2>1. ASSUME UNCHANGED vars, PointerTyped, PointerInv
          PROVE  PointerTyped' /\ PointerInv'
      BY <2>1
         DEF vars, readerVars, mapOwn, pointerOwn, tupleOwn, conversionOwn,
             PointerTyped, PointerInv, PointerIdle, PointerGoes, PointerDone,
             PointerBroken
    <2> QED
      BY <1>2, <2>1, ForwardingSteps, PointerNext DEF ForwardingInv
  <1>3. CASE class = "TupleHander"
    <2>1. ASSUME UNCHANGED vars, TupleTyped, TupleInv
          PROVE  TupleTyped' /\ TupleInv'
      BY <2>1
         DEF vars, readerVars, mapOwn, pointerOwn, tupleOwn, conversionOwn,
             TupleTyped, TupleInv, TupleErrors, TupleIdle, InTuple, TuplePlaces,
             TupleDone, TupleBroken
    <2> QED
      BY <1>3, <2>1, ForwardingSteps, TupleNext DEF ForwardingInv
  <1>4. CASE class = "ConversionHandler"
    <2>1. ASSUME UNCHANGED vars, Conversion!TypeOK, ConversionInv
          PROVE  Conversion!TypeOK' /\ ConversionInv'
      BY <2>1
         DEF vars, readerVars, mapOwn, pointerOwn, tupleOwn, conversionOwn,
             Conversion!TypeOK, Conversion!ReaderTypeOK, ConversionInv,
             ConversionIdle, ConversionGoes, ConversionDone, ConversionBroken
    <2> QED
      BY <1>4, <2>1, ForwardingSteps, ConversionNext DEF ForwardingInv
  <1> QED
    BY <1>1, <1>2, <1>3, <1>4 DEF ForwardingInv

(* The inductive invariant, of every behaviour of the four classes.         *)
THEOREM Invariance == Spec => []ForwardingInv
  <1> QED
    BY ForwardingInit, ForwardingNext, PTL DEF Spec

LEMMA Classes ==
    /\ "MapHandler" # "PointerHandler" /\ "MapHandler" # "TupleHander"
    /\ "MapHandler" # "ConversionHandler" /\ "PointerHandler" # "TupleHander"
    /\ "PointerHandler" # "ConversionHandler"
    /\ "TupleHander" # "ConversionHandler"
  OBVIOUS

-------------------------------------------------------------------------------
(* What ContractedHandler allows in a step, of any class: an answer, reaped *)
(* errors, a new text for a handler prepared for it, or nothing to be seen. *)
Kept(before, after, text, afterwards) ==
    \/ text \in {"ready", "reading"} /\ Answers(before, after, afterwards)
    \/ before.error /\ after = Reaped(before) /\ afterwards = text
    \/ after = Fresh /\ afterwards = "ready"
    \/ text = "complete" /\ afterwards = "ready" /\ after = before
    \/ after = before /\ afterwards = text

(* A method of a handler that has had every event of the text.              *)
LEMMA EventKept ==
    ASSUME nest \in Seq(Frame), NEW event, ReadEvent(event),
           NEW p \in BOOLEAN, NEW q \in BOOLEAN,
           NEW x \in BOOLEAN, NEW y \in BOOLEAN,
           phase \in {"ready", "reading"}, phase' = "failed" <=> y,
           phase' = "failed" \/ Accept,
           phase' = "complete" => q, phase' = "reading" => (q => p)
    PROVE  Kept(Seen(p, x), [open |-> Len(nest'), parsed |-> q, error |-> y],
                phase, phase')
  <1> DEFINE before == Seen(p, x)
             after == [open |-> Len(nest'), parsed |-> q, error |-> y]
  <1>1. ReadsEvent
    BY DEF ReadEvent, ReadsEvent
  <1>2. phase' # "failed" => IF nest' = <<>> THEN q ELSE q => p
    BY DEF Accept
  <1>3. Answers(before, after, phase')
    BY <1>1, <1>2, EventAnswered
  <1> HIDE DEF before, after
  <1>4. Kept(before, after, phase, phase')
    BY <1>3 DEF Kept
  <1> QED
    BY <1>4 DEF before, after

LEMMA ReapKept ==
    ASSUME nest \in Seq(Frame), NEW p \in BOOLEAN,
           nest' = nest, phase' = phase
    PROVE  Kept(Seen(p, TRUE),
                [open |-> Len(nest'), parsed |-> p, error |-> FALSE],
                phase, phase')
  <1> DEFINE before == Seen(p, TRUE)
             after == [open |-> Len(nest'), parsed |-> p, error |-> FALSE]
  <1>1. /\ before \in Part /\ after \in Part /\ before.error
        /\ after.open = before.open /\ after.parsed = before.parsed
        /\ after.error = FALSE
    BY DEF Seen, Part
  <1> HIDE DEF before, after
  <1>2. after = Reaped(before)
    BY <1>1, OnlyErrorReaped
  <1>3. Kept(before, after, phase, phase')
    BY <1>1, <1>2 DEF Kept
  <1> QED
    BY <1>3 DEF before, after

(* A map.  A value that is repeated is parsed throughout.                   *)
MapMethod ==
    \/ Map!Scalar \/ Map!Key \/ Map!StartObject
    \/ Map!EndObject \/ Map!StartArray \/ Map!EndArray

MapVerdict ==
    /\ phase # "failed" => the_error = Map!NoError
    /\ phase = "failed" => (report = <<>> <=> the_error # Map!NoError)
    /\ phase \in {"ready", "reading"} => (parsed <=> again) /\ report = <<>>
    /\ phase = "complete" => parsed

LEMMA MapVerdicts ==
    /\ MapTyped /\ MapInv => MapVerdict
    /\ MapTyped' /\ MapInv' => MapVerdict'
  <1>1. MapTyped /\ MapInv => MapVerdict
    BY DEF MapTyped, Phases, MapInv, MapIdle, InMap, MapDone, MapBroken,
           MapVerdict
  <1>2. MapTyped' /\ MapInv' => MapVerdict'
    BY DEF MapTyped, Phases, MapInv, MapIdle, InMap, MapDone, MapBroken,
           MapVerdict
  <1> QED
    BY <1>1, <1>2

LEMMA MapReturns ==
    ASSUME MapTyped, MapInv, MapMethod
    PROVE  /\ \E event : ReadEvent(event)
           /\ report' = report /\ again' = again
           /\ phase' = "failed" \/ Accept
  <1>1. \/ ReadEvent("scalar") \/ ReadEvent("key")
        \/ ReadEvent("start") \/ ReadEvent("end")
    BY MapReader
       DEF MapMethod, Map!Scalar, Map!Key, Map!StartObject, Map!EndObject,
           Map!StartArray, Map!EndArray, ReadEvent, Kinds
  <1>2. MapEvent
    BY MapEvents DEF MapMethod
  <1>3. CASE \E event : MapWithin(event)
    <2>1. PICK event : MapWithin(event)
      BY <1>3
    <2>2. event \in Events /\ Fits(internal, event) /\ MapElement
      BY <2>1, MapWithinFacts DEF MapWithin, InMap
    <2>3. phase' = "failed" \/ Accept
      BY <2>1, <2>2, MapPostcheck DEF MapWithin
    <2> QED
      BY <1>1, <2>1, <2>3 DEF MapWithin
  <1>4. CASE \E k \in Keys : MapOwnKey(k)
    BY <1>1, <1>4 DEF MapOwnKey
  <1>5. CASE MapBegins \/ MapEnds \/ MapNoObject
    BY <1>1, <1>5 DEF MapBegins, MapEnds, MapNoObject
  <1> QED
    BY <1>2, <1>3, <1>4, <1>5 DEF MapEvent

LEMMA MapKept ==
    ASSUME MapTyped, MapInv, MapTyped', MapInv', Map!Next \/ UNCHANGED vars
    PROVE  Kept(Map!AsPart, Map!AsPart', phase, phase')
  <1> DEFINE x == the_error # Map!NoError
             y == (the_error # Map!NoError)'
  <1>0. /\ nest \in Seq(Frame) /\ parsed \in BOOLEAN /\ parsed' \in BOOLEAN
        /\ x \in BOOLEAN /\ y \in BOOLEAN
        /\ MapVerdict /\ MapVerdict'
    BY MapVerdicts DEF MapTyped
  <1>1. /\ Map!AsPart = Seen(parsed, x)
        /\ Map!AsPart' = [open |-> Len(nest'), parsed |-> parsed', error |-> y]
    BY DEF Map!AsPart, Seen
  <1>2. CASE MapMethod
    <2>1. PICK event : ReadEvent(event)
      BY <1>2, MapReturns
    <2>2. /\ Active /\ report' = report /\ again' = again
          /\ phase' = "failed" \/ Accept
      BY <1>0, <1>2, <2>1, MapReturns, ReadEventFacts
    <2>3. phase \in {"ready", "reading"} /\ phase # "failed"
      BY <2>2 DEF Active
    <2>4. /\ phase' = "failed" <=> y
          /\ phase' = "complete" => parsed'
          /\ phase' = "reading" => (parsed' => parsed)
      BY <1>0, <2>2, <2>3 DEF MapVerdict
    <2> HIDE DEF x, y
    <2> QED
      BY <1>0, <1>1, <2>1, <2>2, <2>3, <2>4, EventKept
  <1>3. CASE Map!ReapError /\ UNCHANGED Map!mapVars
    <2>1. /\ x = TRUE /\ y = FALSE
          /\ nest' = nest /\ phase' = phase /\ parsed' = parsed
      BY <1>3 DEF Map!ReapError, Map!readerVars
    <2> HIDE DEF x, y
    <2> QED
      BY <1>0, <1>1, <2>1, ReapKept
  <1>4. CASE Map!PrepareForReuse
    <2>1. nest' = <<>> /\ phase' = "ready" /\ y = FALSE /\ parsed' = FALSE
      BY <1>4 DEF Map!PrepareForReuse, Map!PrepareFeed, Map!NextText,
                  Map!ClearVerdict
    <2> HIDE DEF x, y
    <2>2. Map!AsPart' = Fresh
      BY <1>1, <2>1 DEF Fresh
    <2> QED
      BY <2>1, <2>2 DEF Kept
  <1>5. CASE Map!Again
    <2>1. /\ nest = <<>> /\ nest' = <<>> /\ phase = "complete" /\ phase' = "ready"
          /\ the_error' = the_error /\ parsed' = parsed
      BY <1>5 DEF Map!Again, Map!NextText, Map!feedVars, MapInv, MapDone
    <2> QED
      BY <2>1 DEF Kept, Map!AsPart
  <1>6. CASE UNCHANGED vars
    BY <1>6 DEF vars, readerVars, Kept, Map!AsPart
  <1> QED
    BY <1>2, <1>3, <1>4, <1>5, <1>6 DEF Map!Next, MapMethod

(* A pointer, or an optional.                                               *)
PointerVerdict ==
    /\ phase # "failed" => ~Pointer!has_error /\ report = <<>>
    /\ phase = "failed" => (report = <<>> <=> Pointer!has_error)
    /\ phase = "complete" => parsed

LEMMA PointerVerdicts ==
    /\ PointerTyped /\ PointerInv => PointerVerdict
    /\ PointerTyped' /\ PointerInv' => PointerVerdict'
  <1>1. PointerTyped /\ PointerInv => PointerVerdict
    BY DEF PointerTyped, Phases, PointerInv, PointerIdle, PointerGoes,
           PointerDone, PointerBroken, PointerVerdict, Pointer!has_error,
           Pointer!NoHandler
  <1>2. PointerTyped' /\ PointerInv' => PointerVerdict'
    <2> SUFFICES ASSUME PointerTyped', PointerInv'
                 PROVE  PointerVerdict'
      OBVIOUS
    <2>1. CASE phase' = "failed"
      <3>1. /\ internal_handler' = "live"
            /\ report' = (IF internal.error THEN <<>> ELSE <<"part">>)'
        BY <2>1 DEF PointerInv, PointerBroken
      <3>2. report' = <<>> <=> internal'.error
        BY <3>1
      <3> QED
        BY <2>1, <3>1, <3>2 DEF PointerVerdict, Pointer!has_error,
           Pointer!NoHandler
    <2>2. CASE phase' # "failed"
      BY <2>2 DEF PointerTyped, Phases, PointerInv, PointerIdle, PointerGoes,
         PointerDone, PointerVerdict, Pointer!has_error, Pointer!NoHandler
    <2> QED
      BY <2>1, <2>2
  <1> QED
    BY <1>1, <1>2

LEMMA PointerKept ==
    ASSUME PointerTyped, PointerInv, PointerTyped', PointerInv',
           Pointer!Next \/ UNCHANGED vars
    PROVE  Kept(Pointer!AsPart, Pointer!AsPart', phase, phase')
  <1> DEFINE x == Pointer!has_error
             y == Pointer!has_error'
  <1>0. /\ nest \in Seq(Frame) /\ parsed \in BOOLEAN /\ parsed' \in BOOLEAN
        /\ PointerVerdict /\ PointerVerdict'
    BY PointerVerdicts DEF PointerTyped
  <1>1. /\ Pointer!AsPart = Seen(parsed, x)
        /\ Pointer!AsPart'
               = [open |-> Len(nest'), parsed |-> parsed', error |-> y]
    BY DEF Pointer!AsPart, Seen
  <1>2. x \in BOOLEAN /\ y \in BOOLEAN
    BY DEF Pointer!has_error
  <1>3. CASE PointerEvent
    <2>1. \/ ReadEvent("scalar") \/ ReadEvent("key")
          \/ ReadEvent("start") \/ ReadEvent("end")
      BY <1>3, PointerReader
         DEF PointerEvent, Pointer!Scalar, Pointer!Null, Pointer!Key,
             Pointer!StartObject, Pointer!EndObject, Pointer!StartArray,
             Pointer!EndArray, Pointer!End, ReadEvent, Kinds
    <2>2. PICK event : ReadEvent(event)
      BY <2>1
    <2>3. Active /\ PointerReturns
      BY <1>0, <1>3, <2>2, PointerEvents, ReadEventFacts
    <2>4. /\ phase \in {"ready", "reading"} /\ (phase' = "failed" <=> y)
          /\ phase' = "failed" \/ Accept
          /\ phase' = "complete" => parsed'
          /\ phase' = "reading" => (parsed' => parsed)
      BY <1>0, <2>3 DEF PointerVerdict, PointerReturns, Active
    <2> HIDE DEF x, y
    <2> QED
      BY <1>0, <1>1, <1>2, <2>2, <2>4, EventKept
  <1>4. CASE Pointer!ReapError
    <2>1. /\ nest' = nest /\ phase' = phase /\ parsed' = parsed
          /\ x = TRUE /\ y = FALSE
      <3>1. /\ x /\ internal' = Reaped(internal)
            /\ nest' = nest /\ phase' = phase /\ parsed' = parsed
        BY <1>4, PointerContract DEF Pointer!ReapError, Pointer!readerVars
      <3>2. internal'.error = FALSE
        BY <3>1, ReapedFacts DEF PointerTyped
      <3> QED
        BY <1>2, <3>1, <3>2 DEF Pointer!has_error
    <2> HIDE DEF x, y
    <2> QED
      BY <1>0, <1>1, <2>1, ReapKept
  <1>5. CASE Pointer!PrepareForReuse
    <2>1. nest' = <<>> /\ phase' = "ready" /\ y = FALSE /\ parsed' = FALSE
      BY <1>5 DEF Pointer!PrepareForReuse, Pointer!NextText, Pointer!Drop,
                  Pointer!has_error, Pointer!NoHandler
    <2> HIDE DEF x, y
    <2>2. Pointer!AsPart' = Fresh
      BY <1>1, <2>1 DEF Fresh
    <2> QED
      BY <2>1, <2>2 DEF Kept
  <1>6. CASE Pointer!Again
    <2>1. /\ nest = <<>> /\ nest' = <<>> /\ phase = "complete" /\ phase' = "ready"
          /\ parsed' = parsed
          /\ UNCHANGED <<internal_handler, internal>>
      BY <1>6 DEF Pointer!Again, Pointer!NextText, Pointer!pointerVars,
                  PointerInv, PointerDone
    <2> QED
      BY <2>1 DEF Kept, Pointer!AsPart, Pointer!has_error, Pointer!NoHandler
  <1>7. CASE UNCHANGED vars
    BY <1>7 DEF vars, readerVars, pointerOwn, Kept, Pointer!AsPart,
                Pointer!has_error, Pointer!NoHandler
  <1> QED
    BY <1>3, <1>4, <1>5, <1>6, <1>7 DEF Pointer!Next, PointerEvent

(* A converted type.                                                        *)
ConversionMethod ==
    \/ Conversion!Scalar \/ Conversion!Key \/ Conversion!StartObject
    \/ Conversion!StartArray \/ Conversion!End

ConversionVerdict ==
    /\ phase # "failed" => ~Conversion!has_error /\ report = <<>>
    /\ phase = "failed" => (report = <<>> <=> Conversion!has_error)
    /\ phase \in {"ready", "reading"} => (parsed <=> again)
    /\ phase = "complete" => parsed

ConversionTyped ==
    /\ nest \in Seq(Frame) /\ phase \in Phases /\ internal \in Part
    /\ the_error \in BOOLEAN /\ parsed \in BOOLEAN /\ again \in BOOLEAN

LEMMA ConversionTypes ==
    /\ Conversion!TypeOK => ConversionTyped
    /\ Conversion!TypeOK' => ConversionTyped'
  BY ConversionContract, Zenon
     DEF Conversion!TypeOK, Conversion!ReaderTypeOK, ConversionTyped

LEMMA ConversionVerdicts ==
    /\ ConversionTyped /\ ConversionInv => ConversionVerdict
    /\ ConversionTyped' /\ ConversionInv' => ConversionVerdict'
  <1>1. ConversionTyped /\ ConversionInv => ConversionVerdict
    BY DEF ConversionTyped, Phases, ConversionInv, ConversionIdle,
           ConversionGoes, ConversionDone, ConversionBroken, ConversionVerdict,
           Conversion!has_error
  <1>2. ConversionTyped' /\ ConversionInv' => ConversionVerdict'
    BY DEF ConversionTyped, Phases, ConversionInv, ConversionIdle,
           ConversionGoes, ConversionDone, ConversionBroken, ConversionVerdict,
           Conversion!has_error
  <1> QED
    BY <1>1, <1>2

LEMMA ConversionReturns ==
    ASSUME ConversionMethod
    PROVE  /\ \E event : ReadEvent(event)
           /\ report' = report /\ again' = again
           /\ phase' = "failed" \/ Accept
  <1>1. \/ ReadEvent("scalar") \/ ReadEvent("key")
        \/ ReadEvent("start") \/ ReadEvent("end")
    BY ConversionReader, ConversionContract
       DEF ConversionMethod, Conversion!Scalar, Conversion!Key,
           Conversion!StartObject, Conversion!StartArray, Conversion!End,
           ReadEvent, Kinds
  <1>2. PICK event : Conversion!Forward(event)
    BY DEF ConversionMethod, Conversion!Scalar, Conversion!Key,
           Conversion!StartObject, Conversion!StartArray, Conversion!End
  <1>3. phase' = "failed" \/ Accept
    BY <1>2 DEF Conversion!Forward, Conversion!FromShadow, Conversion!Terminate,
                Conversion!Accept, Accept
  <1> QED
    BY <1>1, <1>2, <1>3 DEF Conversion!Forward

LEMMA ConversionKept ==
    ASSUME Conversion!TypeOK, ConversionInv, Conversion!TypeOK', ConversionInv',
           Conversion!Next \/ UNCHANGED vars
    PROVE  Kept(Conversion!AsPart, Conversion!AsPart', phase, phase')
  <1> DEFINE x == Conversion!has_error
             y == Conversion!has_error'
  <1>0. /\ nest \in Seq(Frame) /\ parsed \in BOOLEAN /\ parsed' \in BOOLEAN
        /\ internal \in Part /\ the_error \in BOOLEAN
        /\ ConversionVerdict /\ ConversionVerdict'
    BY ConversionTypes, ConversionVerdicts DEF ConversionTyped
  <1>1. /\ Conversion!AsPart = Seen(parsed, x)
        /\ Conversion!AsPart'
               = [open |-> Len(nest'), parsed |-> parsed', error |-> y]
    BY DEF Conversion!AsPart, Seen
  <1>2. x \in BOOLEAN /\ y \in BOOLEAN
    BY DEF Conversion!has_error
  <1>3. CASE ConversionMethod
    <2>1. PICK event : ReadEvent(event)
      BY <1>3, ConversionReturns
    <2>2. /\ Active /\ report' = report /\ again' = again
          /\ phase' = "failed" \/ Accept
      BY <1>0, <1>3, <2>1, ConversionReturns, ReadEventFacts
    <2>3. phase \in {"ready", "reading"} /\ phase # "failed"
      BY <2>2 DEF Active
    <2>4. /\ phase' = "failed" <=> y
          /\ phase' = "complete" => parsed'
          /\ phase' = "reading" => (parsed' => parsed)
      BY <1>0, <2>2, <2>3 DEF ConversionVerdict
    <2> HIDE DEF x, y
    <2> QED
      BY <1>0, <1>1, <1>2, <2>1, <2>2, <2>3, <2>4, EventKept
  <1>4. CASE Conversion!ReapError
    <2>1. /\ x /\ the_error' = FALSE
          /\ internal' = IF the_error THEN internal ELSE Reaped(internal)
          /\ nest' = nest /\ phase' = phase /\ parsed' = parsed
      BY <1>4, ConversionContract
         DEF Conversion!ReapError, Conversion!readerVars, Conversion!ErrorLeft
    <2>2. phase = "failed" /\ ConversionBroken
      BY <1>0, <2>1, ConversionTypes
         DEF ConversionVerdict, ConversionInv
    <2>3. internal'.error = FALSE
      <3>1. the_error => internal.error = FALSE
        BY <1>0, <2>2 DEF ConversionBroken, Part
      <3> QED
        BY <1>0, <2>1, <3>1, ReapedFacts
    <2>4. x = TRUE /\ y = FALSE
      BY <1>2, <2>1, <2>3 DEF Conversion!has_error
    <2> HIDE DEF x, y
    <2> QED
      BY <1>0, <1>1, <2>1, <2>4, ReapKept
  <1>5. CASE Conversion!PrepareForReuse
    <2>1. nest' = <<>> /\ phase' = "ready" /\ y = FALSE /\ parsed' = FALSE
      BY <1>5, ConversionContract, FreshFacts
         DEF Conversion!PrepareForReuse, Conversion!NextText, Conversion!Reset,
             Conversion!ClearVerdict, Conversion!has_error
    <2> HIDE DEF x, y
    <2>2. Conversion!AsPart' = Fresh
      BY <1>1, <2>1 DEF Fresh
    <2> QED
      BY <2>1, <2>2 DEF Kept
  <1>6. CASE Conversion!Again
    <2>1. /\ nest = <<>> /\ nest' = <<>> /\ phase = "complete" /\ phase' = "ready"
          /\ UNCHANGED <<parsed, the_error, internal>>
      BY <1>6 DEF Conversion!Again, Conversion!NextText,
                  Conversion!handlerVars, ConversionInv, ConversionDone
    <2> QED
      BY <2>1 DEF Kept, Conversion!AsPart, Conversion!has_error
  <1>7. CASE UNCHANGED vars
    BY <1>7 DEF vars, readerVars, Kept, Conversion!AsPart, Conversion!has_error
  <1> QED
    BY <1>3, <1>4, <1>5, <1>6, <1>7 DEF Conversion!Next, ConversionMethod

(* A tuple, of a text that is an array; any other is no more its business.  *)
TupleMethod ==
    \/ Tuple!Scalar \/ Tuple!Key \/ Tuple!StartObject
    \/ Tuple!EndObject \/ Tuple!StartArray \/ Tuple!EndArray

TupleVerdict ==
    Tuple!Covered =>
        /\ parsed <=> phase = "complete"
        /\ the_error # N <=> phase = "failed" /\ report = <<>>

LEMMA TupleVerdicts ==
    /\ TupleTyped /\ TupleInv => TupleVerdict
    /\ TupleTyped' /\ TupleInv' => TupleVerdict'
  <1>1. TupleTyped /\ TupleInv => TupleVerdict
    BY DEF TupleTyped, Phases, TupleInv, TupleErrors, TupleIdle, InTuple,
           TupleDone, TupleBroken, TupleVerdict, Tuple!Covered
  <1>2. TupleTyped' /\ TupleInv' => TupleVerdict'
    BY DEF TupleTyped, Phases, TupleInv, TupleErrors, TupleIdle, InTuple,
           TupleDone, TupleBroken, TupleVerdict, Tuple!Covered
  <1> QED
    BY <1>1, <1>2

TupleText == IF ~Tuple!Covered THEN "ready" ELSE phase

LEMMA TupleKept ==
    ASSUME TupleTyped, TupleInv, TupleTyped', TupleInv',
           Tuple!Next \/ UNCHANGED vars
    PROVE  Kept(Tuple!AsPart, Tuple!AsPart',
                TupleText, TupleText')
  <1> DEFINE x == the_error # N
             y == (the_error # N)'
  <1>0. /\ nest \in Seq(Frame) /\ parsed \in BOOLEAN /\ parsed' \in BOOLEAN
        /\ x \in BOOLEAN /\ y \in BOOLEAN
        /\ TupleVerdict /\ TupleVerdict'
    BY TupleVerdicts DEF TupleTyped
  <1>1. /\ Tuple!Covered => Tuple!AsPart = Seen(parsed, x)
        /\ Tuple!Covered' =>
               Tuple!AsPart'
                   = [open |-> Len(nest'), parsed |-> parsed', error |-> y]
        /\ ~Tuple!Covered => Tuple!AsPart = Fresh
        /\ ~Tuple!Covered' => Tuple!AsPart' = Fresh
    BY TupleContract DEF Tuple!AsPart, Tuple!NoError, Seen
  <1>2. CASE TupleMethod
    <2>1. PICK event : TupleEvent(event)
      BY <1>2, TupleEvents DEF TupleMethod
    <2>2. /\ TupleReads(event) /\ ReadEvent(event) /\ report' = report
          /\ root' # "none" /\ Active
          /\ Tuple!Covered' => Tuple!Covered
      <3>1. /\ TupleReads(event) /\ ReadEvent(event) /\ report' = report
            /\ root' # "none"
        BY <2>1 DEF TupleEvent, TupleReads, Kinds
      <3>2. Active
        BY <1>0, <3>1, ReadEventFacts
      <3>3. root' = "array" => root \in {"none", "array"}
        BY <2>1 DEF TupleEvent, TupleBegins, TupleIdle, TupleWithin, TupleEnds
      <3> QED
        BY <3>1, <3>2, <3>3 DEF Tuple!Covered
    <2>3. phase' = "failed" \/ Accept
      <3>1. phase' \in {"failed", IF nest' = <<>> THEN "complete" ELSE "reading"}
        BY <2>2, TupleReadsTyped DEF TupleInv
      <3> QED
        BY <3>1 DEF Accept
    <2>4. CASE Tuple!Covered'
      <3>1. /\ Tuple!Covered /\ report = <<>>
            /\ phase # "failed" /\ phase \in {"ready", "reading"}
        <4>1. phase # "failed" /\ phase \in {"ready", "reading"}
          BY <2>2 DEF Active
        <4> QED
          BY <2>2, <2>4, <4>1 DEF TupleInv, TupleErrors
      <3>2. /\ phase' = "failed" <=> y
            /\ phase' = "complete" => parsed'
            /\ phase' = "reading" => (parsed' => parsed)
        BY <1>0, <2>2, <2>4, <3>1 DEF TupleVerdict
      <3>3. TupleText = phase /\ TupleText' = phase'
        BY <2>4, <3>1 DEF TupleText
      <3> HIDE DEF x, y
      <3>4. Kept(Seen(parsed, x),
                 [open |-> Len(nest'), parsed |-> parsed', error |-> y],
                 phase, phase')
        BY <1>0, <2>2, <2>3, <3>1, <3>2, EventKept
      <3> QED
        BY <1>1, <2>4, <3>1, <3>3, <3>4, Zenon
    <2>5. CASE ~Tuple!Covered'
      BY <1>1, <2>5 DEF Kept, TupleText
    <2> QED
      BY <2>4, <2>5
  <1>3. CASE Tuple!ReapError
    <2>1. /\ x = TRUE /\ y = FALSE /\ Tuple!Covered' = Tuple!Covered
          /\ nest' = nest /\ phase' = phase /\ parsed' = parsed
      BY <1>3 DEF Tuple!ReapError, Tuple!readerVars, Tuple!NoError, Tuple!Covered
    <2>2. CASE Tuple!Covered
      <3>1. Tuple!Covered' /\ TupleText = phase /\ TupleText' = phase'
        BY <2>1, <2>2 DEF TupleText
      <3> HIDE DEF x, y
      <3>2. Kept(Seen(parsed, TRUE),
                 [open |-> Len(nest'), parsed |-> parsed, error |-> FALSE],
                 phase, phase')
        BY <1>0, <2>1, ReapKept
      <3> QED
        BY <1>1, <2>1, <2>2, <3>1, <3>2, Zenon
    <2>3. CASE ~Tuple!Covered
      BY <1>1, <2>1, <2>3 DEF Kept, TupleText
    <2> QED
      BY <2>2, <2>3
  <1>4. CASE Tuple!PrepareForReuse
    <2>1. /\ nest' = <<>> /\ phase' = "ready" /\ y = FALSE /\ parsed' = FALSE
      BY <1>4 DEF Tuple!PrepareForReuse, Tuple!NextText, Tuple!NoError
    <2> HIDE DEF x, y
    <2>2. Tuple!AsPart' = Fresh
      BY <1>1, <2>1 DEF Fresh
    <2> QED
      BY <2>1, <2>2 DEF Kept, TupleText
  <1>5. CASE UNCHANGED vars
    BY <1>5 DEF vars, readerVars, tupleOwn, Kept, Tuple!AsPart, Tuple!Covered,
                TupleText
  <1> QED
    BY <1>2, <1>3, <1>4, <1>5 DEF Tuple!Next, TupleMethod

(* The promise speaks of parts as HandlerContract does.                     *)
Text == IF class = "TupleHander" /\ ~Tuple!Covered THEN "ready" ELSE phase

LEMMA KeptIsPromised ==
    ASSUME Kept(AsPart, AsPart', Text, Text')
    PROVE  Promise!Next \/ UNCHANGED Promise!contractedVars
  <1>1. CASE Text \in {"ready", "reading"} /\ Answers(AsPart, AsPart', Text')
    <2>1. PICK event \in Events :
              /\ Fits(AsPart, event)
              /\ IF Text' = "failed" THEN AsPart' \in Rejected(AsPart, event)
                 ELSE /\ AsPart' \in Accepted(AsPart, event)
                      /\ Text' = IF AsPart'.open = 0 THEN "complete"
                                 ELSE "reading"
      BY <1>1 DEF Answers
    <2>2. /\ event \in Promise!Events /\ Promise!Fits(AsPart, event)
          /\ Promise!Rejected(AsPart, event) = Rejected(AsPart, event)
          /\ Promise!Accepted(AsPart, event) = Accepted(AsPart, event)
      BY <2>1 DEF Promise!Events, Events, Promise!Fits, Fits, Promise!Rejected,
                  Rejected, Promise!Accepted, Accepted, Promise!OpenAfter,
                  OpenAfter, Promise!ParsedAfter, ParsedAfter
    <2>3. Promise!Answer(event)
      BY <1>1, <2>1, <2>2
         DEF Promise!Answer, Promise!Accept, Promise!Refuse, Text
    <2> QED
      BY <2>2, <2>3 DEF Promise!Next
  <1>2. CASE AsPart.error /\ AsPart' = Reaped(AsPart) /\ Text' = Text
    BY <1>2 DEF Promise!Next, Promise!Reap, Promise!Reaped, Reaped, Text
  <1>3. CASE AsPart' = Fresh /\ Text' = "ready"
    BY <1>3 DEF Promise!Next, Promise!PrepareForReuse, Promise!Fresh, Fresh, Text
  <1>4. CASE Text = "complete" /\ Text' = "ready" /\ AsPart' = AsPart
    BY <1>4 DEF Promise!Next, Promise!Again, Text
  <1>5. CASE AsPart' = AsPart /\ Text' = Text
    BY <1>5 DEF Promise!contractedVars, Text
  <1> QED
    BY <1>1, <1>2, <1>3, <1>4, <1>5 DEF Kept

(* What each class has, one of them does.                                   *)
LEMMA PartOfClass ==
    /\ class = "MapHandler" => AsPart = Map!AsPart
    /\ class = "PointerHandler" => AsPart = Pointer!AsPart
    /\ class = "TupleHander" => AsPart = Tuple!AsPart
    /\ class = "ConversionHandler" => AsPart = Conversion!AsPart
  BY Classes DEF AsPart

LEMMA PartOfClassNext ==
    /\ class' = "MapHandler" => AsPart' = Map!AsPart'
    /\ class' = "PointerHandler" => AsPart' = Pointer!AsPart'
    /\ class' = "TupleHander" => AsPart' = Tuple!AsPart'
    /\ class' = "ConversionHandler" => AsPart' = Conversion!AsPart'
  BY Classes DEF AsPart

LEMMA AllKept ==
    ASSUME ForwardingInv, ForwardingInv', [Next]_vars
    PROVE  Kept(AsPart, AsPart', Text, Text')
  <1>1. class' = class
    BY ForwardingSteps
  <1>2. class # "TupleHander" => Text = phase /\ Text' = phase'
    BY <1>1 DEF Text
  <1>3. CASE class = "MapHandler"
    <2>1. Kept(Map!AsPart, Map!AsPart', phase, phase')
      BY <1>1, <1>3, Classes, ForwardingSteps, MapKept DEF ForwardingInv
    <2> QED
      BY <1>1, <1>2, <1>3, <2>1, Classes, PartOfClass, PartOfClassNext
  <1>4. CASE class = "PointerHandler"
    <2>1. Kept(Pointer!AsPart, Pointer!AsPart', phase, phase')
      BY <1>1, <1>4, Classes, ForwardingSteps, PointerKept DEF ForwardingInv
    <2> QED
      BY <1>1, <1>2, <1>4, <2>1, Classes, PartOfClass, PartOfClassNext
  <1>5. CASE class = "ConversionHandler"
    <2>1. Kept(Conversion!AsPart, Conversion!AsPart', phase, phase')
      BY <1>1, <1>5, Classes, ForwardingSteps, ConversionKept DEF ForwardingInv
    <2> QED
      BY <1>1, <1>2, <1>5, <2>1, Classes, PartOfClass, PartOfClassNext
  <1>6. CASE class = "TupleHander"
    <2>1. Kept(Tuple!AsPart, Tuple!AsPart', TupleText, TupleText')
      BY <1>1, <1>6, Classes, ForwardingSteps, TupleKept DEF ForwardingInv
    <2>2. Text = TupleText /\ Text' = TupleText'
      BY <1>1, <1>6 DEF Text, TupleText
    <2> QED
      BY <1>1, <1>6, <2>1, <2>2, Classes, PartOfClass, PartOfClassNext
  <1> QED
    BY <1>3, <1>4, <1>5, <1>6 DEF ForwardingInv

LEMMA PromisedInit == Init => Promise!Init
  <1>1. Map!Init => Map!AsPart = Fresh /\ phase = "ready"
    BY DEF Map!Init, Map!FeedInit, Map!ReaderInit, Map!AsPart, Fresh
  <1>2. Pointer!Init => Pointer!AsPart = Fresh /\ phase = "ready"
    BY DEF Pointer!Init, Pointer!ReaderInit, Pointer!AsPart, Pointer!has_error,
           Pointer!NoHandler, Fresh
  <1>3. Tuple!Init => Tuple!AsPart = Fresh /\ phase = "ready"
    BY DEF Tuple!Init, Tuple!ReaderInit, Tuple!AsPart, Tuple!Covered, Fresh
  <1>4. Conversion!Init => Conversion!AsPart = Fresh /\ phase = "ready"
    BY ConversionContract, FreshFacts
       DEF Conversion!Init, Conversion!ReaderInit, Conversion!AsPart,
           Conversion!has_error, Fresh
  <1>5. Init => AsPart = Fresh /\ phase = "ready"
    BY <1>1, <1>2, <1>3, <1>4, PartOfClass DEF Init
  <1> QED
    BY <1>5 DEF Promise!Init, Promise!Fresh, Fresh

(* Whatever its parts answer within the contract, each of the four handlers *)
(* answers the one above it within it, for a value that is repeated too:    *)
(* a false returned leaves an error, a value that is complete is parsed,    *)
(* one that is not is no more parsed than before.  A tuple promises so only *)
(* of a text that is an array.                                              *)
THEOREM ContractIsKept == Spec => ContractKept
  <1>1. ForwardingInv /\ ForwardingInv' /\ [Next]_vars
            => [Promise!Next]_(Promise!contractedVars)
    BY AllKept, KeptIsPromised
  <1> QED
    BY <1>1, PromisedInit, Invariance, PTL DEF Spec, ContractKept, Promise!Spec

(* Of every class, a chain of errors that is reaped has a cause at its end, *)
(* and only one, whichever of the handlers below refused.                   *)
THEOREM ErrorsAreCaused == Spec => []ErrorsHaveCause
  <1>1. ForwardingInv => ErrorsHaveCause
    <2>1. CASE class = "MapHandler"
      BY <2>1, MapTypes, MapKeeps, Classes DEF ForwardingInv, ErrorsHaveCause
    <2>2. CASE class = "PointerHandler"
      BY <2>2, PointerTypes, PointerKeeps, Classes
         DEF ForwardingInv, ErrorsHaveCause
    <2>3. CASE class = "TupleHander"
      BY <2>3, TupleTypes, TupleKeeps, Classes DEF ForwardingInv, ErrorsHaveCause
    <2>4. CASE class = "ConversionHandler"
      BY <2>4, ConversionKeeps, Classes DEF ForwardingInv, ErrorsHaveCause
    <2> QED
      BY <2>1, <2>2, <2>3, <2>4 DEF ForwardingInv
  <1> QED
    BY <1>1, Invariance, PTL

(* The handler of a map's value and of a pointer's object is as deep in it  *)
(* as the text is, at every depth and width, so that no null, key or brace  *)
(* of the one is taken for the other's; and no handler outlives the object  *)
(* it writes to.                                                            *)
THEOREM PartsStayInStep == Spec => []PartInStep
  <1>1. ForwardingInv => PartInStep
    BY MapKeeps, PointerKeeps, Classes DEF ForwardingInv, PartInStep
  <1> QED
    BY <1>1, Invariance, PTL

(* Whatever text is read, by a new handler or one used before: a map holds  *)
(* the text's entries, each under its own key, and of repeated keys the     *)
(* first (a multimap all); a pointer is null where the text is; a tuple's   *)
(* elements are in their places; and a shadow is converted once, as a whole. *)
THEOREM ValuesFollowText == Spec => []ValueFollowsText
  <1>1. ForwardingInv => ValueFollowsText
    <2>1. CASE class = "MapHandler"
      BY <2>1, MapKeeps, Classes DEF ForwardingInv, ValueFollowsText
    <2>2. CASE class = "PointerHandler"
      BY <2>2, PointerKeeps, Classes DEF ForwardingInv, ValueFollowsText
    <2>3. CASE class = "TupleHander"
      BY <2>3, TupleKeeps, Classes DEF ForwardingInv, ValueFollowsText
    <2>4. CASE class = "ConversionHandler"
      BY <2>4, ConversionKeeps, Classes DEF ForwardingInv, ValueFollowsText
    <2> QED
      BY <2>1, <2>2, <2>3, <2>4 DEF ForwardingInv
  <1> QED
    BY <1>1, Invariance, PTL

(* An ObjectMemberError names the member of the outermost object that is    *)
(* being read, an ArrayElementError the element of the outermost array,     *)
(* though keys are moved from and objects and arrays are nested in them.    *)
THEOREM ErrorsNamePlace == Spec => ErrorNamesPlace
  <1>1. ForwardingInv /\ [Next]_vars
            => [ /\ class = "MapHandler" => Map!NamesKey
                 /\ class = "TupleHander" => Tuple!NamesIndex ]_vars
    <2> SUFFICES ASSUME ForwardingInv, [Next]_vars
                 PROVE  /\ class = "MapHandler" => Map!NamesKey
                        /\ class = "TupleHander" => Tuple!NamesIndex
      OBVIOUS
    <2>1. UNCHANGED vars => the_error' = the_error
      BY DEF vars
    <2>2. ASSUME class = "MapHandler" PROVE Map!NamesKey
      BY <2>1, <2>2, ForwardingSteps, MapNames
    <2>3. ASSUME class = "TupleHander" PROVE Tuple!NamesIndex
      BY <2>1, <2>3, ForwardingSteps, TupleNames
    <2> QED
      BY <2>2, <2>3
  <1> QED
    BY <1>1, Invariance, PTL DEF Spec, ErrorNamesPlace
===============================================================================
