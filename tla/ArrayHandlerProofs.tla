-------------------------- MODULE ArrayHandlerProofs --------------------------
(***************************************************************************)
(* For every set of keys and every bound, ArrayHandler keeps its types, its *)
(* contract and its elements, and implements ParsedSequence.                *)
(***************************************************************************)
EXTENDS ArrayHandler, JsonReaderTheorems

(* The inductive invariant, phase by phase.  While the text is read, depth  *)
(* is the number of open arrays, which tells an element's ']' from the      *)
(* array's own; the element's handler is as deep as the text, so that it is *)
(* parsed exactly when the text is back in the outermost array.             *)
Idle ==
    /\ nest = <<>> /\ depth = 0
    /\ internal = Fresh /\ element = "default"
    /\ ~parsed /\ the_error = NoError /\ report = <<>>

InElement ==
    /\ ~internal.parsed /\ ~internal.error
    /\ element = IF internal.open = 0 THEN "default" ELSE "own"

AllOwn == \A i \in 1..Len(m_value) : m_value[i] = "own"

InArray ==
    /\ nest # <<>> /\ nest[1].kind = "array"
    /\ depth = Count(nest, "array")
    /\ internal.open = Len(nest) - 1
    /\ InElement
    /\ Len(m_value) = Size(nest[1]) /\ AllOwn
    /\ ~parsed /\ the_error = NoError /\ report = <<>>

Done ==
    /\ nest = <<>> /\ AllOwn
    /\ parsed /\ the_error = NoError /\ report = <<>>

Broken ==
    /\ ~parsed
    /\ IF report = <<>> THEN the_error # NoError
       ELSE the_error = NoError /\ Last(report) # "ARRAY_ELEMENT"
    /\ the_error.type = "ARRAY_ELEMENT" => internal.error

Inv ==
    /\ phase = "ready" => Idle
    /\ phase = "reading" => InArray
    /\ phase = "complete" => Done
    /\ phase = "failed" => Broken

-------------------------------------------------------------------------------
LEMMA SizeType ==
    ASSUME NEW f \in Frame
    PROVE  Size(f) \in Nat
  BY DEF Frame, Size

LEMMA ErrorFacts ==
    ASSUME NEW type \in ErrorTypes, NEW index \in Nat
    PROVE  /\ Error(type, index) \in [type: ErrorTypes, index: Nat] \cup {NoError}
           /\ Error(type, index) # NoError
           /\ Error(type, index).type = type
  BY DEF Error, NoError, ErrorTypes

(* What an event does to the element: the handler fails; or the element is  *)
(* complete and stored; or it goes on.                                      *)
LEMMA PostcheckOutcome ==
    ASSUME TypeOK, InElement, NEW event \in Events,
           Fits(internal, event), Postcheck(event)
    PROVE  \/ /\ phase' = "failed"
              /\ the_error' = Error("ARRAY_ELEMENT", Len(m_value))
              /\ internal' \in Part /\ internal'.error
              /\ element' = "own" /\ m_value' = m_value
           \/ /\ Accept /\ the_error' = the_error
              /\ OpenAfter(internal, event) = 0
              /\ internal' = Fresh /\ element' = "default"
              /\ m_value' = Append(m_value, "own")
           \/ /\ Accept /\ the_error' = the_error
              /\ OpenAfter(internal, event) > 0
              /\ internal' \in Part /\ ~internal'.parsed /\ ~internal'.error
              /\ internal'.open = OpenAfter(internal, event)
              /\ element' = "own" /\ m_value' = m_value
  <1>1. internal \in Part /\ Touched = "own"
    BY DEF TypeOK, FeedTypeOK, InElement, Touched, Part
  <1>2. OpenAfter(internal, event) \in Nat
    BY <1>1 DEF OpenAfter, Part, Events
  <1>3. PICK response \in Responses(internal, event) :
            \/ /\ response.error
               /\ Forwarded(response)
               /\ ElementError(Len(m_value))
               /\ UNCHANGED m_value
            \/ /\ ~response.error /\ response.parsed
               /\ EmplaceBack
            \/ /\ ~response.error /\ ~response.parsed
               /\ Forwarded(response)
               /\ Return
               /\ UNCHANGED m_value
    BY DEF Postcheck
  <1>4. CASE response \in Rejected(internal, event)
    <2>1. response \in Part /\ response.error
      BY <1>2, <1>4, RejectedFacts
    <2>2. /\ internal' = response /\ element' = Touched
          /\ the_error' = Error("ARRAY_ELEMENT", Len(m_value))
          /\ phase' = "failed"
          /\ m_value' = m_value
      BY <1>3, <2>1 DEF Forwarded, ElementError, Reject, Terminate
    <2> QED
      BY <1>1, <2>1, <2>2
  <1>5. CASE response \in Accepted(internal, event)
    <2>1. PICK p \in ParsedAfter(internal, event) :
              response = [open |-> OpenAfter(internal, event), parsed |-> p,
                          error |-> FALSE]
      BY <1>5 DEF Accepted
    <2>2. /\ ~response.error
          /\ response.open = OpenAfter(internal, event)
          /\ response.parsed = p
      BY <2>1
    <2>3. CASE OpenAfter(internal, event) = 0
      <3>1. p = TRUE
        BY <2>3, <2>1 DEF ParsedAfter
      <3>2. EmplaceBack
        BY <1>3, <2>2, <3>1
      <3> QED
        BY <1>1, <2>3, <3>2 DEF EmplaceBack, RenewElement, Return
    <2>4. CASE OpenAfter(internal, event) # 0
      <3>1. p = FALSE
        <4>1. internal.parsed = FALSE
          BY <1>1 DEF InElement, Part
        <4>2. ParsedAfter(internal, event) = {FALSE, internal.parsed}
          BY <2>4 DEF ParsedAfter
        <4> QED
          BY <4>1, <4>2, <2>1
      <3>2. /\ internal' = response /\ element' = Touched
            /\ the_error' = the_error /\ Accept /\ m_value' = m_value
        BY <1>3, <2>2, <3>1 DEF Forwarded, Return
      <3>3. response \in Part
        BY <2>1, <3>1, <1>2 DEF Part
      <3> QED
        BY <1>1, <1>2, <2>2, <2>4, <3>1, <3>2, <3>3
    <2> QED
      BY <2>3, <2>4
  <1> QED
    BY <1>4, <1>5 DEF Responses

(* An event is one of four: it belongs to an element, leaving the text as   *)
(* deep as the element's handler and counting a value when it completes     *)
(* one; or it begins the array, ends it, or finds no array begun.           *)
ElementEvent(event) ==
    /\ InArray
    /\ Fits(internal, event) /\ Postcheck(event)
    /\ UNCHANGED <<parsed, historyVars>>
    /\ nest' \in Seq(Frame) /\ nest' # <<>> /\ nest'[1].kind = "array"
    /\ depth' = Count(nest', "array")
    /\ OpenAfter(internal, event) = Len(nest') - 1
    /\ Size(nest'[1]) = Size(nest[1]) + (IF Len(nest') = 1 THEN 1 ELSE 0)

OfElement == \E event \in Events : ElementEvent(event)

ArrayBegins ==
    /\ Idle /\ Clear /\ Return
    /\ UNCHANGED <<internal, element, parsed, historyVars>>
    /\ depth' = 1 /\ nest' \in Seq(Frame)
    /\ Len(nest') = 1 /\ Count(nest', "array") = 1
    /\ nest'[1].kind = "array" /\ Size(nest'[1]) = 0

ArrayEnds ==
    /\ InArray /\ Return
    /\ UNCHANGED <<internal, element, m_value, historyVars>>
    /\ depth' = 0 /\ nest' = <<>> /\ parsed' = TRUE

NoArray ==
    /\ Idle /\ MismatchAtRoot /\ nest' \in Seq(Frame)
    /\ UNCHANGED <<m_value, depth, parsed, historyVars>>

LEMMA OfElementStep == TypeOK /\ OfElement => TypeOK' /\ Inv'
  <1> SUFFICES ASSUME TypeOK, NEW event \in Events, ElementEvent(event)
               PROVE  TypeOK' /\ Inv'
    BY DEF OfElement
  <1>0. /\ InArray
        /\ Fits(internal, event) /\ Postcheck(event)
        /\ UNCHANGED <<parsed, historyVars>>
        /\ nest' \in Seq(Frame) /\ nest' # <<>> /\ nest'[1].kind = "array"
        /\ depth' = Count(nest', "array")
        /\ OpenAfter(internal, event) = Len(nest') - 1
        /\ Size(nest'[1]) = Size(nest[1]) + (IF Len(nest') = 1 THEN 1 ELSE 0)
    BY DEF ElementEvent
  <1>1. /\ depth' \in Nat /\ Len(nest') \in Nat \ {0}
        /\ Len(m_value) \in Nat /\ m_value \in Seq(Contents)
        /\ "own" \in Contents
    BY <1>0, CountFinite, FrontFacts DEF TypeOK, Contents
  <1>2. CASE /\ phase' = "failed"
             /\ the_error' = Error("ARRAY_ELEMENT", Len(m_value))
             /\ internal' \in Part /\ internal'.error
             /\ element' = "own" /\ m_value' = m_value
    <2>1. /\ the_error' \in [type: ErrorTypes, index: Nat] \cup {NoError}
          /\ the_error' # NoError
      BY <1>0, <1>1, <1>2, ErrorFacts DEF ErrorTypes
    <2>2. TypeOK'
      BY <1>0, <1>1, <1>2, <2>1
         DEF TypeOK, FeedTypeOK, ReaderTypeOK, Phases, Elements, historyVars
    <2> QED
      BY <1>0, <1>2, <2>1, <2>2 DEF Inv, Broken, InArray, historyVars
  <1>3. CASE /\ Accept /\ the_error' = the_error
             /\ OpenAfter(internal, event) = 0
             /\ internal' = Fresh /\ element' = "default"
             /\ m_value' = Append(m_value, "own")
    <2>1. phase' = "reading" /\ Fresh \in Part /\ Len(nest') = 1
      <3>1. phase' = "reading"
        BY <1>0, <1>3 DEF Accept
      <3>2. Fresh \in Part
        BY DEF Fresh, Part
      <3>3. Len(nest') = 1
        <4>1. Len(nest') - 1 = 0
          BY <1>0, <1>3, Zenon
        <4> QED
          BY <1>0, <1>1, <4>1
      <3> QED
        BY <3>1, <3>2, <3>3
    <2>2. /\ m_value' \in Seq(Contents)
          /\ Len(m_value') = Len(m_value) + 1
          /\ AllOwn'
      BY <1>0, <1>1, <1>3, AppendFacts DEF AllOwn, InArray
    <2>3. TypeOK'
      BY <1>0, <1>1, <1>3, <2>1, <2>2
         DEF TypeOK, FeedTypeOK, ReaderTypeOK, Phases, Elements, historyVars
    <2>4. InArray'
      BY <1>0, <1>3, <2>1, <2>2 DEF InArray, InElement, Fresh, historyVars
    <2> QED
      BY <2>1, <2>3, <2>4 DEF Inv
  <1>4. CASE /\ Accept /\ the_error' = the_error
             /\ OpenAfter(internal, event) > 0
             /\ internal' \in Part /\ ~internal'.parsed /\ ~internal'.error
             /\ internal'.open = OpenAfter(internal, event)
             /\ element' = "own" /\ m_value' = m_value
    <2>1. phase' = "reading" /\ Len(nest') # 1
      <3>1. phase' = "reading"
        BY <1>0, <1>4 DEF Accept
      <3>2. Len(nest') # 1
        <4>1. Len(nest') - 1 > 0
          BY <1>0, <1>4, Zenon
        <4>2. \A n \in Nat : n - 1 > 0 => n # 1
          OBVIOUS
        <4>3. Len(nest') \in Nat
          BY <1>1
        <4> QED
          BY <4>1, <4>2, <4>3, Zenon
      <3> QED
        BY <3>1, <3>2
    <2>2. Size(nest'[1]) = Size(nest[1])
      <3>1. nest[1] \in Frame
        BY <1>0 DEF InArray, TypeOK, FeedTypeOK, ReaderTypeOK
      <3> QED
        BY <1>0, <2>1, <3>1, SizeType
    <2>3. TypeOK'
      BY <1>0, <1>1, <1>4, <2>1
         DEF TypeOK, FeedTypeOK, ReaderTypeOK, Phases, Elements, historyVars
    <2>4. InArray'
      BY <1>0, <1>4, <2>1, <2>2 DEF InArray, InElement, AllOwn, historyVars
    <2> QED
      BY <2>1, <2>3, <2>4 DEF Inv
  <1> QED
    BY <1>0, <1>2, <1>3, <1>4, PostcheckOutcome DEF InArray

LEMMA NoArrayStep == TypeOK /\ NoArray => TypeOK' /\ Inv'
  <1> SUFFICES ASSUME TypeOK, NoArray PROVE TypeOK' /\ Inv'
    OBVIOUS
  <1>1. /\ phase' = "failed" /\ the_error' = Error("TYPE_MISMATCH", 0)
        /\ Idle /\ nest' \in Seq(Frame)
        /\ UNCHANGED <<internal, element, m_value, depth, parsed, historyVars>>
    BY DEF NoArray, MismatchAtRoot, Reject, Terminate
  <1>2. /\ the_error' \in [type: ErrorTypes, index: Nat] \cup {NoError}
        /\ the_error' # NoError /\ the_error'.type = "TYPE_MISMATCH"
    BY <1>1, ErrorFacts DEF ErrorTypes
  <1> QED
    BY <1>1, <1>2 DEF TypeOK, FeedTypeOK, ReaderTypeOK, Phases, Inv, Broken,
                      Idle, historyVars

LEMMA ArrayBeginsStep == TypeOK /\ ArrayBegins => TypeOK' /\ Inv'
  <1> SUFFICES ASSUME TypeOK, ArrayBegins PROVE TypeOK' /\ Inv'
    OBVIOUS
  <1>1. /\ nest' \in Seq(Frame) /\ nest' # <<>> /\ depth' = 1
        /\ m_value' = <<>> /\ m_value' \in Seq(Contents) /\ Len(m_value') = 0
    BY DEF ArrayBegins, Clear
  <1>2. phase' = "reading" /\ the_error' = the_error
    BY <1>1 DEF ArrayBegins, Return, Accept
  <1>3. TypeOK'
    BY <1>1, <1>2 DEF TypeOK, FeedTypeOK, ReaderTypeOK, Phases, historyVars,
                      ArrayBegins
  <1>4. InArray'
    BY <1>1, <1>2 DEF InArray, Idle, InElement, Fresh, AllOwn, historyVars,
                      ArrayBegins
  <1> QED
    BY <1>2, <1>3, <1>4 DEF Inv

LEMMA ArrayEndsStep == TypeOK /\ ArrayEnds => TypeOK' /\ Inv'
  <1> SUFFICES ASSUME TypeOK, ArrayEnds PROVE TypeOK' /\ Inv'
    OBVIOUS
  <1>1. nest' = <<>> /\ nest' \in Seq(Frame) /\ depth' = 0 /\ InArray
    BY DEF ArrayEnds
  <1>2. phase' = "complete" /\ the_error' = the_error
    BY <1>1 DEF ArrayEnds, Return, Accept
  <1> QED
    BY <1>1, <1>2 DEF TypeOK, FeedTypeOK, ReaderTypeOK, Phases, Inv, InArray,
                      Done, AllOwn, historyVars, ArrayEnds

(* While the text is read, or before it, the phase is the reader's.         *)
LEMMA ActivePhase ==
    ASSUME TypeOK, Inv, Active
    PROVE  \/ phase = "ready" /\ Idle /\ nest = <<>>
           \/ phase = "reading" /\ InArray /\ nest # <<>>
  BY DEF Active, Inv, Idle, InArray

-------------------------------------------------------------------------------
LEMMA InitInv == Init => TypeOK /\ Inv
  <1> SUFFICES ASSUME Init PROVE TypeOK /\ Inv
    OBVIOUS
  <1>1. /\ nest = <<>> /\ phase = "ready" /\ Idle
        /\ m_value = <<>> \/ m_value = <<"old">>
        /\ parsed = FALSE /\ uses = 0
    BY DEF Init, FeedInit, ReaderInit, Idle
  <1>2. nest \in Seq(Frame) /\ report \in Seq(ErrorTypes \cup {"part"})
    BY <1>1 DEF Idle
  <1>3. m_value \in Seq(Contents)
    <2>1. "old" \in Contents
      BY DEF Contents
    <2>2. <<>> \in Seq(Contents) /\ <<"old">> \in Seq(Contents)
      BY <2>1
    <2> QED
      BY <1>1, <2>2
  <1>4. internal \in Part
    BY <1>1 DEF Idle, Fresh, Part
  <1>5. the_error \in [type: ErrorTypes, index: Nat] \cup {NoError}
    BY <1>1 DEF Idle
  <1>6. TypeOK
    BY <1>1, <1>2, <1>3, <1>4, <1>5
       DEF TypeOK, FeedTypeOK, ReaderTypeOK, Phases, Elements, Idle
  <1> QED
    BY <1>1, <1>6 DEF Inv

(* Which of the four the events are.                                        *)
LEMMA ScalarEvent == TypeOK /\ Inv /\ Scalar => NoArray \/ OfElement
  <1> SUFFICES ASSUME TypeOK, Inv, Scalar PROVE NoArray \/ OfElement
    OBVIOUS
  <1>0. ReadScalar /\ Element("scalar") /\ Active /\ nest \in Seq(Frame)
    BY DEF Scalar, ReadScalar, ValueExpected, TypeOK, FeedTypeOK, ReaderTypeOK
  <1>1. CASE nest = <<>> /\ Idle
    <2>1. nest' \in Seq(Frame)
      BY <1>0, <1>1 DEF ReadScalar, WithScalar
    <2>2. MismatchAtRoot /\ UNCHANGED m_value
      BY <1>0, <1>1 DEF Element, Idle
    <2> QED
      BY <1>0, <1>1, <2>1, <2>2 DEF Element, NoArray
  <1>2. CASE nest # <<>> /\ InArray
    <2>1. /\ nest' \in Seq(Frame) /\ nest' # <<>> /\ nest'[1].kind = "array"
          /\ Len(nest') = Len(nest) /\ Len(nest) \in Nat \ {0}
          /\ depth' = Count(nest', "array")
      BY <1>0, <1>2, ReadScalarFacts, FrontFacts DEF InArray, Element
    <2>2. Size(nest'[1]) = Size(nest[1]) + (IF Len(nest') = 1 THEN 1 ELSE 0)
      <3>1. nest[1] \in Frame /\ Size(nest[1]) \in Nat
        BY <1>0, <1>2, <2>1, SizeType
      <3> QED
        BY <1>0, <1>2, <2>1, <3>1, ReadScalarFacts
    <2>3. depth > 0
      <3>1. Count(nest, "array") >= 1 /\ Count(nest, "array") \in Nat
        BY <1>0, <1>2, CountOne, CountFinite DEF InArray
      <3> QED
        BY <1>2, <3>1 DEF InArray
    <2>4. Fits(internal, "scalar") /\ "scalar" \in Events
      BY DEF Fits, Events
    <2>5. OpenAfter(internal, "scalar") = Len(nest') - 1
      BY <1>2, <2>1 DEF OpenAfter, InArray
    <2>6. Postcheck("scalar") /\ UNCHANGED <<parsed, historyVars>>
      BY <1>0, <2>3, CountFinite, <1>2 DEF Element, MismatchAtRoot, InArray
    <2> QED
      BY <1>2, <2>1, <2>2, <2>4, <2>5, <2>6 DEF OfElement, ElementEvent
  <1> QED
    BY <1>0, <1>1, <1>2, ActivePhase

(* The container of a key or of a closing brace lies within an element.     *)
LEMMA WithinElement ==
    ASSUME nest \in Seq(Frame), InArray, nest[Len(nest)].kind = "object"
    PROVE  /\ Len(nest) \in Nat \ {0, 1}
           /\ internal.open > 0
           /\ depth > 0
  <1>1. Len(nest) \in Nat \ {0}
    BY FrontFacts DEF InArray
  <1>2. Len(nest) # 1
    BY DEF InArray
  <1>3. Count(nest, "array") >= 1 /\ Count(nest, "array") \in Nat
    BY CountOne, CountFinite DEF InArray
  <1> QED
    BY <1>1, <1>2, <1>3 DEF InArray

LEMMA KeyEvent == TypeOK /\ Inv /\ Key => OfElement
  <1> SUFFICES ASSUME TypeOK, Inv, NEW k \in Keys, ReadKey(k), Element("key")
               PROVE  OfElement
    BY DEF Key
  <1>0. Active /\ nest \in Seq(Frame) /\ nest # <<>>
    BY DEF ReadKey, KeyExpected, AtRoot, TypeOK, FeedTypeOK, ReaderTypeOK
  <1>1. InArray
    BY <1>0, ActivePhase
  <1>2. /\ nest' \in Seq(Frame) /\ nest' # <<>> /\ Len(nest') = Len(nest)
        /\ \A i \in 1..Len(nest) - 1 : nest'[i] = nest[i]
        /\ nest[Len(nest)].kind = "object"
        /\ \A kind : Count(nest', kind) = Count(nest, kind)
    BY <1>0, ReadKeyFacts
  <1>3. Len(nest) \in Nat \ {0, 1} /\ internal.open > 0 /\ depth > 0
    BY <1>0, <1>1, <1>2, WithinElement
  <1>4. Postcheck("key") /\ UNCHANGED <<depth, parsed, historyVars>>
    BY <1>3, <1>0 DEF Element, MismatchAtRoot, TypeOK, FeedTypeOK
  <1>5. nest'[1] = nest[1]
    BY <1>2, <1>3
  <1>6. depth' = Count(nest', "array")
    BY <1>1, <1>2, <1>4 DEF InArray
  <1>7. Fits(internal, "key") /\ "key" \in Events
    BY <1>3 DEF Fits, Events
  <1>8. OpenAfter(internal, "key") = Len(nest') - 1
    BY <1>1, <1>2 DEF OpenAfter, InArray
  <1>9. Size(nest'[1]) = Size(nest[1]) + (IF Len(nest') = 1 THEN 1 ELSE 0)
    <2>1. nest[1] \in Frame
      BY <1>0, <1>3
    <2> QED
      BY <1>2, <1>3, <1>5, <2>1, SizeType
  <1> QED
    BY <1>1, <1>2, <1>4, <1>5, <1>6, <1>7, <1>8, <1>9 DEF OfElement, ElementEvent, InArray

LEMMA StartObjectEvent == TypeOK /\ Inv /\ StartObject => NoArray \/ OfElement
  <1> SUFFICES ASSUME TypeOK, Inv, StartObject PROVE NoArray \/ OfElement
    OBVIOUS
  <1>0. /\ ReadStart("object") /\ Element("start") /\ Active
        /\ nest \in Seq(Frame) /\ "object" \in Kinds /\ "object" # "array"
    BY DEF StartObject, ReadStart, ValueExpected, Kinds, TypeOK, FeedTypeOK,
           ReaderTypeOK
  <1>1. /\ nest' \in Seq(Frame) /\ nest' # <<>> /\ Len(nest') = Len(nest) + 1
        /\ \A i \in 1..Len(nest) : nest'[i] = nest[i]
        /\ \A kind : Count(nest', kind)
                       = Count(nest, kind) + (IF "object" = kind THEN 1 ELSE 0)
    BY <1>0, ReadStartFacts
  <1>2. CASE nest = <<>> /\ Idle
    <2>1. MismatchAtRoot /\ UNCHANGED m_value
      BY <1>0, <1>2 DEF Element, Idle
    <2> QED
      BY <1>0, <1>1, <1>2, <2>1 DEF Element, NoArray
  <1>3. CASE nest # <<>> /\ InArray
    <2>1. /\ Len(nest) \in Nat \ {0}
          /\ Count(nest, "array") >= 1 /\ Count(nest, "array") \in Nat
      BY <1>0, <1>3, CountOne, CountFinite, FrontFacts DEF InArray
    <2>2. nest'[1] = nest[1] /\ nest[1] \in Frame /\ Len(nest') # 1
      BY <1>0, <1>1, <2>1
    <2>3. depth > 0 /\ depth \in Nat /\ ~(depth <= 0)
      BY <1>3, <2>1 DEF InArray
    <2>4. Postcheck("start") /\ UNCHANGED <<depth, parsed, historyVars>>
      BY <1>0, <2>3 DEF Element, MismatchAtRoot
    <2>5. depth' = Count(nest', "array")
      <3>1. Count(nest', "array") = Count(nest, "array") + 0
        BY <1>1
      <3> QED
        BY <1>3, <2>1, <2>4, <3>1 DEF InArray
    <2>6. Fits(internal, "start") /\ "start" \in Events
      BY DEF Fits, Events
    <2>7. OpenAfter(internal, "start") = Len(nest') - 1
      BY <1>1, <1>3, <2>1 DEF OpenAfter, InArray
    <2>8. Size(nest'[1]) = Size(nest[1]) + (IF Len(nest') = 1 THEN 1 ELSE 0)
      BY <2>2, SizeType
    <2>9. nest'[1].kind = "array"
      BY <1>3, <2>2 DEF InArray
    <2> QED
      BY <1>1, <1>3, <2>4, <2>5, <2>6, <2>7, <2>8, <2>9 DEF OfElement, ElementEvent
  <1> QED
    BY <1>0, <1>2, <1>3, ActivePhase

(* An end within the array leaves it open, and completes an element exactly *)
(* when it is back in the array itself.                                     *)
LEMMA EndWithinArray ==
    ASSUME nest \in Seq(Frame), InArray, NEW end \in Kinds, ReadEnd(end),
           Len(nest) # 1
    PROVE  /\ nest' \in Seq(Frame) /\ nest' # <<>> /\ nest'[1].kind = "array"
           /\ Len(nest') = Len(nest) - 1 /\ Len(nest) \in Nat \ {0, 1}
           /\ Fits(internal, "end") /\ "end" \in Events
           /\ OpenAfter(internal, "end") = Len(nest') - 1
           /\ Size(nest'[1]) = Size(nest[1]) + (IF Len(nest') = 1 THEN 1 ELSE 0)
           /\ Count(nest', "array")
                = Count(nest, "array") - (IF end = "array" THEN 1 ELSE 0)
  <1>1. /\ Len(nest) \in Nat \ {0, 1} /\ nest' \in Seq(Frame)
        /\ Len(nest') = Len(nest) - 1 /\ nest' # <<>>
        /\ \A i \in 1..Len(nest) - 2 : nest'[i] = nest[i]
        /\ nest'[1].kind = nest[1].kind
        /\ Size(nest'[Len(nest) - 1]) = Size(nest[Len(nest) - 1]) + 1
        /\ Count(nest', "array")
                = Count(nest, "array") - (IF end = "array" THEN 1 ELSE 0)
    BY ReadEndFacts DEF InArray
  <1>2. internal.open > 0 /\ internal.open \in Nat
    BY <1>1 DEF InArray
  <1>3. Size(nest'[1]) = Size(nest[1]) + (IF Len(nest') = 1 THEN 1 ELSE 0)
    <2>1. CASE Len(nest) = 2
      BY <1>1, <2>1
    <2>2. CASE Len(nest) # 2
      <3>1. nest'[1] = nest[1] /\ nest[1] \in Frame
        BY <1>1, <2>2
      <3> QED
        BY <1>1, <2>2, <3>1, SizeType
    <2> QED
      BY <2>1, <2>2
  <1>4. OpenAfter(internal, "end") = Len(nest') - 1
    BY <1>1, <1>2 DEF OpenAfter, InArray
  <1> QED
    BY <1>1, <1>2, <1>3, <1>4 DEF Fits, Events, InArray

LEMMA EndObjectEvent == TypeOK /\ Inv /\ EndObject => OfElement
  <1> SUFFICES ASSUME TypeOK, Inv, EndObject PROVE OfElement
    OBVIOUS
  <1>0. /\ ReadEnd("object") /\ Element("end") /\ Active /\ nest # <<>>
        /\ nest \in Seq(Frame) /\ "object" \in Kinds /\ "object" # "array"
    BY DEF EndObject, ReadEnd, AtRoot, Kinds, TypeOK, FeedTypeOK, ReaderTypeOK
  <1>1. InArray
    BY <1>0, ActivePhase
  <1>2. nest[Len(nest)].kind = "object"
    BY <1>0, ReadEndFacts
  <1>3. Len(nest) \in Nat \ {0, 1} /\ depth > 0
    BY <1>0, <1>1, <1>2, WithinElement
  <1>4. Postcheck("end") /\ UNCHANGED <<depth, parsed, historyVars>>
    BY <1>3, <1>0 DEF Element, MismatchAtRoot, TypeOK, FeedTypeOK
  <1>5. /\ nest' \in Seq(Frame) /\ nest' # <<>> /\ nest'[1].kind = "array"
        /\ Fits(internal, "end") /\ "end" \in Events
        /\ OpenAfter(internal, "end") = Len(nest') - 1
        /\ Size(nest'[1]) = Size(nest[1]) + (IF Len(nest') = 1 THEN 1 ELSE 0)
        /\ Count(nest', "array") = Count(nest, "array") - 0
    BY <1>0, <1>1, <1>3, EndWithinArray
  <1>6. depth' = Count(nest', "array")
    BY <1>0, <1>1, <1>4, <1>5, CountFinite DEF InArray
  <1> QED
    BY <1>1, <1>4, <1>5, <1>6 DEF OfElement, ElementEvent

LEMMA StartArrayEvent == TypeOK /\ Inv /\ StartArray => ArrayBegins \/ OfElement
  <1> SUFFICES ASSUME TypeOK, Inv, StartArray PROVE ArrayBegins \/ OfElement
    OBVIOUS
  <1>0. /\ ReadStart("array") /\ Active /\ depth' = depth + 1
        /\ UNCHANGED <<parsed, historyVars>>
        /\ nest \in Seq(Frame) /\ "array" \in Kinds /\ depth \in Nat
    BY DEF StartArray, ReadStart, ValueExpected, Kinds, TypeOK, FeedTypeOK,
           ReaderTypeOK
  <1>1. /\ nest' \in Seq(Frame) /\ nest' # <<>> /\ Len(nest') = Len(nest) + 1
        /\ \A i \in 1..Len(nest) : nest'[i] = nest[i]
        /\ nest'[Len(nest) + 1] = NewFrame("array")
        /\ Count(nest', "array") = Count(nest, "array") + 1
    BY <1>0, ReadStartFacts
  <1>2. CASE nest = <<>> /\ Idle
    <2>1. /\ Clear /\ Return /\ UNCHANGED <<internal, element>>
      BY <1>0, <1>2 DEF StartArray, Idle
    <2>2. /\ Len(nest') = 1 /\ nest'[1] = NewFrame("array")
          /\ Count(nest', "array") = 1
      <3>1. Len(nest) = 0 /\ Count(nest, "array") = 0
        BY <1>2, CountEmpty
      <3> QED
        BY <1>1, <3>1
    <2>3. Size(nest'[1]) = 0 /\ nest'[1].kind = "array"
      BY <1>0, <2>2, NewFrameType
    <2> QED
      BY <1>0, <1>1, <1>2, <2>1, <2>2, <2>3 DEF ArrayBegins, Idle
  <1>3. CASE nest # <<>> /\ InArray
    <2>1. /\ Len(nest) \in Nat \ {0}
          /\ Count(nest, "array") >= 1 /\ Count(nest, "array") \in Nat
      BY <1>0, <1>3, CountOne, CountFinite, FrontFacts DEF InArray
    <2>2. nest'[1] = nest[1] /\ nest[1] \in Frame /\ Len(nest') # 1
      BY <1>0, <1>1, <2>1
    <2>3. depth' = Count(nest', "array") /\ depth' > 1
      BY <1>0, <1>1, <1>3, <2>1 DEF InArray
    <2>4. Postcheck("start")
      BY <1>0, <2>3 DEF StartArray
    <2>5. Fits(internal, "start") /\ "start" \in Events
      BY DEF Fits, Events
    <2>6. OpenAfter(internal, "start") = Len(nest') - 1
      BY <1>1, <1>3, <2>1 DEF OpenAfter, InArray
    <2>7. Size(nest'[1]) = Size(nest[1]) + (IF Len(nest') = 1 THEN 1 ELSE 0)
      BY <2>2, SizeType
    <2>8. nest'[1].kind = "array"
      BY <1>3, <2>2 DEF InArray
    <2> QED
      BY <1>0, <1>1, <1>3, <2>3, <2>4, <2>5, <2>6, <2>7, <2>8 DEF OfElement, ElementEvent
  <1> QED
    BY <1>0, <1>2, <1>3, ActivePhase

LEMMA EndArrayEvent == TypeOK /\ Inv /\ EndArray => ArrayEnds \/ OfElement
  <1> SUFFICES ASSUME TypeOK, Inv, EndArray PROVE ArrayEnds \/ OfElement
    OBVIOUS
  <1>0. /\ ReadEnd("array") /\ Active /\ depth' = depth - 1 /\ nest # <<>>
        /\ UNCHANGED historyVars
        /\ nest \in Seq(Frame) /\ "array" \in Kinds /\ depth \in Nat
    BY DEF EndArray, ReadEnd, AtRoot, Kinds, TypeOK, FeedTypeOK, ReaderTypeOK
  <1>1. InArray
    BY <1>0, ActivePhase
  <1>2. /\ nest[Len(nest)].kind = "array" /\ Last(nest).kind = "array"
        /\ Len(nest) \in Nat \ {0}
        /\ Count(nest, "array") \in Nat /\ Count(nest, "array") >= 1
        /\ Count(nest, "array") = 1 <=> Len(nest) = 1
    <2>1. Last(nest).kind = "array" /\ Last(nest) = nest[Len(nest)]
      BY <1>0, FrontFacts DEF ReadEnd
    <2>2. nest[1].kind = "array" /\ Len(nest) \in Nat \ {0}
      BY <1>0, <1>1 DEF InArray
    <2> QED
      BY <1>0, <2>1, <2>2, CountOne, CountFinite
  <1>3. CASE Len(nest) = 1
    <2>1. depth = 1 /\ nest' = <<>> /\ depth' = 0
      BY <1>0, <1>1, <1>2, <1>3, ReadEndFacts DEF InArray
    <2>2. /\ parsed' = TRUE /\ Return
          /\ UNCHANGED <<internal, element, m_value>>
      BY <1>0, <2>1 DEF EndArray, EndsElement
    <2> QED
      BY <1>0, <1>1, <2>1, <2>2 DEF ArrayEnds
  <1>4. CASE Len(nest) # 1
    <2>1. depth - 1 > 0 /\ depth' \in Nat
      BY <1>0, <1>1, <1>2, <1>4 DEF InArray
    <2>2. Postcheck("end") /\ UNCHANGED parsed
      BY <2>1 DEF EndArray, EndsElement
    <2>3. /\ nest' \in Seq(Frame) /\ nest' # <<>> /\ nest'[1].kind = "array"
          /\ Fits(internal, "end") /\ "end" \in Events
          /\ OpenAfter(internal, "end") = Len(nest') - 1
          /\ Size(nest'[1]) = Size(nest[1]) + (IF Len(nest') = 1 THEN 1 ELSE 0)
          /\ Count(nest', "array") = Count(nest, "array") - 1
      BY <1>0, <1>1, <1>4, EndWithinArray
    <2>4. depth' = Count(nest', "array")
      BY <1>0, <1>1, <1>2, <2>3 DEF InArray
    <2> QED
      BY <1>0, <1>1, <2>2, <2>3, <2>4 DEF OfElement, ElementEvent
  <1> QED
    BY <1>3, <1>4

LEMMA ReapErrorStep ==
    TypeOK /\ Inv /\ ReapError /\ UNCHANGED m_value => TypeOK' /\ Inv'
  <1> SUFFICES ASSUME TypeOK, Inv, ReapError, UNCHANGED m_value
               PROVE  TypeOK' /\ Inv'
    OBVIOUS
  <1>1. phase = "failed" /\ Broken /\ report = <<>> /\ phase' = "failed"
    BY DEF ReapError, Inv, Idle, InArray, Done, Broken, TypeOK, FeedTypeOK,
           ReaderTypeOK, Phases, readerVars
  <1>2. the_error.type \in ErrorTypes
    BY DEF TypeOK, FeedTypeOK, ReapError
  <1>3. the_error.type = "ARRAY_ELEMENT" => ElementReap = <<"part">>
    BY <1>1 DEF Broken, ElementReap
  <1>4. /\ report' = <<the_error.type>> \o ElementReap /\ the_error' = NoError
        /\ internal' = Reaped(internal)
        /\ UNCHANGED <<nest, phase, element, depth, parsed, uses>>
    <2>1. /\ report' = <<>> \o <<the_error.type>> \o ElementReap
          /\ <<>> \o <<the_error.type>> = <<the_error.type>>
      BY <1>1 DEF ReapError
    <2> QED
      BY <2>1 DEF ReapError, readerVars
  <1>5. internal' \in Part
    BY <1>4 DEF TypeOK, FeedTypeOK, Part, Reaped
  <1>6. CASE ElementReap = <<>>
    <2>1. report' = <<the_error.type>> \o <<>> /\ the_error.type # "ARRAY_ELEMENT"
      BY <1>3, <1>4, <1>6
    <2>2. report' = <<the_error.type>>
      BY <2>1, <1>2
    <2>3. /\ report' \in Seq(ErrorTypes \cup {"part"})
          /\ Last(report') = the_error.type /\ report' # <<>>
      BY <1>2, <2>2 DEF Last
    <2> QED
      BY <1>1, <1>4, <1>5, <2>1, <2>3
         DEF TypeOK, FeedTypeOK, ReaderTypeOK, Inv, Broken, NoError, Error
  <1>7. CASE ElementReap = <<"part">>
    <2> DEFINE S == ErrorTypes \cup {"part"}
               a == <<the_error.type>>
               b == <<"part">>
    <2>1. a \in Seq(S) /\ b \in Seq(S) /\ Len(a) = 1 /\ Len(b) = 1 /\ b[1] = "part"
      BY <1>2
    <2>1a. report' = a \o b
      BY <1>4, <1>7
    <2> HIDE DEF a, b
    <2>1b. report' \in Seq(S) /\ Len(report') = 2 /\ report'[2] = "part"
      BY <2>1, <2>1a, ConcatProperties
    <2>2. /\ report' \in Seq(ErrorTypes \cup {"part"})
          /\ Last(report') = "part" /\ report' # <<>>
      <3>1. Last(report') = report'[Len(report')]
        BY DEF Last
      <3>2. Len(<<>>) = 0
        OBVIOUS
      <3> QED
        BY <2>1b, <3>1, <3>2
    <2> QED
      BY <1>1, <1>4, <1>5, <2>2
         DEF TypeOK, FeedTypeOK, ReaderTypeOK, Inv, Broken, NoError, Error
  <1> QED
    BY <1>6, <1>7 DEF ElementReap

LEMMA PrepareForReuseStep ==
    TypeOK /\ Inv /\ PrepareForReuse => TypeOK' /\ Inv'
  <1> SUFFICES ASSUME TypeOK, Inv, PrepareForReuse PROVE TypeOK' /\ Inv'
    OBVIOUS
  <1>1. /\ nest' = <<>> /\ phase' = "ready" /\ depth' = 0
        /\ internal' = Fresh /\ element' = "default"
        /\ the_error' = NoError /\ parsed' = FALSE /\ report' = <<>>
        /\ uses' \in Nat /\ m_value' = m_value
    BY DEF PrepareForReuse, PrepareFeed, NextText, RenewElement, ClearVerdict,
           TypeOK, FeedTypeOK
  <1>2. nest' \in Seq(Frame) /\ report' \in Seq(ErrorTypes \cup {"part"})
    BY <1>1
  <1>3. internal' \in Part
    BY <1>1 DEF Fresh, Part
  <1> QED
    BY <1>1, <1>2, <1>3
       DEF TypeOK, FeedTypeOK, ReaderTypeOK, Phases, Elements, Inv, Idle

LEMMA StutterStep ==
    TypeOK /\ Inv /\ UNCHANGED vars => TypeOK' /\ Inv'
  BY DEF vars, readerVars, feedVars, historyVars, TypeOK, FeedTypeOK,
         ReaderTypeOK, Inv, Idle, InArray, InElement, AllOwn, Done, Broken, Count,
         Of

LEMMA StepInv == TypeOK /\ Inv /\ [Next]_vars => TypeOK' /\ Inv'
  <1> DEFINE Reads == \/ Scalar \/ Key \/ StartObject \/ EndObject
                      \/ StartArray \/ EndArray
  <1>1. TypeOK /\ Inv /\ Reads =>
            OfElement \/ ArrayBegins \/ ArrayEnds \/ NoArray
    BY ScalarEvent, KeyEvent, StartObjectEvent, EndObjectEvent,
       StartArrayEvent, EndArrayEvent
  <1>2. TypeOK /\ Inv /\ Reads => TypeOK' /\ Inv'
    BY <1>1, OfElementStep, ArrayBeginsStep, ArrayEndsStep, NoArrayStep
  <1> QED
    BY <1>2, ReapErrorStep, PrepareForReuseStep, StutterStep DEF Next

(* The types, and the inductive invariant, of every behaviour.              *)
THEOREM TypeCorrect == Spec => []TypeOK
  <1>1. Init => TypeOK /\ Inv
    BY InitInv
  <1>2. TypeOK /\ Inv /\ [Next]_vars => TypeOK' /\ Inv'
    BY StepInv
  <1> QED
    BY <1>1, <1>2, PTL DEF Spec

THEOREM Invariance == Spec => [](TypeOK /\ Inv)
  <1>1. Init => TypeOK /\ Inv
    BY InitInv
  <1>2. TypeOK /\ Inv /\ [Next]_vars => TypeOK' /\ Inv'
    BY StepInv
  <1> QED
    BY <1>1, <1>2, PTL DEF Spec

(* In the middle of any text, the container holds one element for each      *)
(* value the outermost array has completed, and the element's handler has   *)
(* as many containers open as the text has within the array.                *)
THEOREM ElementsAreInStep == Spec => []ElementsFollowText
  <1>1. TypeOK /\ Inv => ElementsFollowText
    <2> SUFFICES ASSUME TypeOK, Inv, phase = "reading"
                 PROVE  /\ depth > 0
                        /\ Len(m_value) = Size(nest[1])
                        /\ internal.open = Len(nest) - 1
      BY DEF ElementsFollowText
    <2>1. InArray /\ nest \in Seq(Frame)
      BY DEF Inv, TypeOK, FeedTypeOK, ReaderTypeOK
    <2>2. Count(nest, "array") >= 1 /\ Count(nest, "array") \in Nat
      BY <2>1, CountOne, CountFinite DEF InArray
    <2> QED
      BY <2>1, <2>2 DEF InArray
  <1> QED
    BY <1>1, Invariance, PTL

(* No element of a text that is read, or was accepted, holds data of        *)
(* another element, of an earlier text or of the user's container.          *)
THEOREM ElementsAreUnmixed == Spec => []ElementsUnmixed
  <1>1. TypeOK /\ Inv => ElementsUnmixed
    BY DEF TypeOK, Inv, InArray, Done, AllOwn, ElementsUnmixed
  <1> QED
    BY <1>1, Invariance, PTL

(* A user always finds the cause of a failure at the end of the chain.      *)
THEOREM ReportsEndInCause == Spec => []ReportEndsInCause
  <1>1. TypeOK /\ Inv => ReportEndsInCause
    BY DEF TypeOK, FeedTypeOK, ReaderTypeOK, Phases, Inv, Idle, InArray, Done,
           Broken, ReportEndsInCause
  <1> QED
    BY <1>1, Invariance, PTL

-------------------------------------------------------------------------------
(* The steps, classified once more for what they do over time.              *)
LEMMA StepKinds ==
    ASSUME TypeOK, Inv, [Next]_vars
    PROVE  \/ OfElement /\ phase = "reading"
           \/ ArrayBegins /\ phase = "ready"
           \/ ArrayEnds /\ phase = "reading"
           \/ NoArray /\ phase = "ready"
           \/ ReapError /\ UNCHANGED m_value
           \/ PrepareForReuse
           \/ UNCHANGED vars
  <1> DEFINE Reads == \/ Scalar \/ Key \/ StartObject \/ EndObject
                      \/ StartArray \/ EndArray
  <1>1. Reads => OfElement \/ ArrayBegins \/ ArrayEnds \/ NoArray
    BY ScalarEvent, KeyEvent, StartObjectEvent, EndObjectEvent,
       StartArrayEvent, EndArrayEvent
  <1>2. Reads => Active
    BY DEF Scalar, Key, StartObject, EndObject, StartArray, EndArray,
           ReadScalar, ReadKey, ReadStart, ReadEnd, ValueExpected, KeyExpected
  <1>3. OfElement => InArray
    BY DEF OfElement, ElementEvent
  <1>4. Reads => \/ OfElement /\ phase = "reading"
                 \/ ArrayBegins /\ phase = "ready"
                 \/ ArrayEnds /\ phase = "reading"
                 \/ NoArray /\ phase = "ready"
    <2> SUFFICES ASSUME Reads
                 PROVE  \/ OfElement /\ phase = "reading"
                        \/ ArrayBegins /\ phase = "ready"
                        \/ ArrayEnds /\ phase = "reading"
                        \/ NoArray /\ phase = "ready"
      OBVIOUS
    <2>1. \/ phase = "ready" /\ nest = <<>>
          \/ phase = "reading" /\ nest # <<>>
      BY <1>2, ActivePhase
    <2>2. (ArrayBegins \/ NoArray) => nest = <<>>
      BY DEF ArrayBegins, NoArray, Idle
    <2>3. (OfElement \/ ArrayEnds) => nest # <<>>
      BY <1>3 DEF ArrayEnds, InArray
    <2> QED
      BY <1>1, <2>1, <2>2, <2>3
  <1> QED
    BY <1>4 DEF Next

(* What an element's event does to the error, the container and the phase.  *)
LEMMA OfElementOutcome ==
    ASSUME TypeOK, OfElement
    PROVE  /\ InArray
           /\ depth > 0 /\ depth' > 0 /\ parsed' = parsed
           /\ \/ /\ phase' = "failed" /\ m_value' = m_value
                 /\ the_error' = Error("ARRAY_ELEMENT", Len(m_value))
              \/ /\ phase' = "reading" /\ the_error' = the_error
                 /\ \/ m_value' = m_value
                    \/ m_value' = Append(m_value, "own")
  <1>1. PICK event \in Events : ElementEvent(event)
    BY DEF OfElement
  <1>2. /\ InArray
        /\ Fits(internal, event) /\ Postcheck(event)
        /\ UNCHANGED <<parsed, historyVars>>
        /\ nest' \in Seq(Frame) /\ nest' # <<>> /\ nest'[1].kind = "array"
        /\ depth' = Count(nest', "array")
    BY <1>1 DEF ElementEvent
  <1>3. depth > 0 /\ depth' > 0
    <2>1. /\ nest \in Seq(Frame) /\ nest # <<>> /\ nest[1].kind = "array"
          /\ depth = Count(nest, "array")
      BY <1>2 DEF TypeOK, FeedTypeOK, ReaderTypeOK, InArray
    <2>2. Count(nest, "array") >= 1 /\ Count(nest, "array") \in Nat
      BY <2>1, CountOne, CountFinite
    <2>3. Count(nest', "array") >= 1 /\ Count(nest', "array") \in Nat
      BY <1>2, CountOne, CountFinite
    <2> QED
      BY <1>2, <2>1, <2>2, <2>3
  <1>4. Accept => phase' = "reading"
    BY <1>2 DEF Accept
  <1> QED
    BY <1>2, <1>3, <1>4, PostcheckOutcome DEF InArray

(* The index a user reads in an ArrayElementError is the number of elements *)
(* that were complete before the element that failed.                       *)
THEOREM ErrorsNameIndex == Spec => ErrorNamesIndex
  <1> DEFINE Names == the_error = NoError /\ the_error'.type = "ARRAY_ELEMENT"
                          => the_error'.index = Size(nest[1])
  <1>1. TypeOK /\ Inv /\ [Next]_vars => [Names]_<<readerVars, feedVars>>
    <2> SUFFICES ASSUME TypeOK, Inv, [Next]_vars,
                        the_error = NoError, the_error'.type = "ARRAY_ELEMENT"
                 PROVE  the_error'.index = Size(nest[1])
      OBVIOUS
    <2>1. NoError.type # "ARRAY_ELEMENT"
      BY DEF NoError, Error
    <2>2. the_error' # the_error
      BY <2>1
    <2>3. CASE OfElement
      <3>1. /\ InArray
            /\ the_error' = Error("ARRAY_ELEMENT", Len(m_value))
        BY <2>2, <2>3, OfElementOutcome
      <3> QED
        BY <3>1 DEF Error, InArray
    <2>4. CASE NoArray
      BY <2>4 DEF NoArray, MismatchAtRoot, Reject, Error
    <2>5. CASE ArrayBegins \/ ArrayEnds
      BY <2>2, <2>5 DEF ArrayBegins, ArrayEnds, Return
    <2>6. CASE ReapError
      BY <2>6 DEF ReapError
    <2>7. CASE PrepareForReuse
      BY <2>1, <2>7 DEF PrepareForReuse, PrepareFeed, ClearVerdict
    <2>8. CASE UNCHANGED vars
      BY <2>2, <2>8 DEF vars, feedVars
    <2> QED
      BY <2>3, <2>4, <2>5, <2>6, <2>7, <2>8, StepKinds
  <1> QED
    BY <1>1, Invariance, PTL DEF Spec, ErrorNamesIndex

(* The handler of a vector is a sequence being built: whatever the events,  *)
(* it adds one element at a time, and concludes or refuses once.            *)
THEOREM Refinement == Spec => ImplementsSequence
  <1>1. Init => Sequence!Init
    BY DEF Init, FeedInit, ReaderInit, Sequence!Init
  <1>2. TypeOK /\ Inv /\ [Next]_vars => [Sequence!Next]_(Sequence!sequenceVars)
    <2> SUFFICES ASSUME TypeOK, Inv, [Next]_vars
                 PROVE  Sequence!Next \/ UNCHANGED Sequence!sequenceVars
      OBVIOUS
    <2>0. m_value \in Seq(Contents) /\ Len(m_value) \in Nat
      BY DEF TypeOK
    <2>1. CASE OfElement /\ phase = "reading"
      <3>1. /\ parsed = FALSE /\ depth > 0 /\ depth' > 0 /\ parsed' = parsed
            /\ depth # 0 /\ depth' # 0
        BY <2>1, OfElementOutcome DEF InArray, TypeOK, FeedTypeOK
      <3>2. CASE phase' = "failed" /\ m_value' = m_value
        BY <2>1, <3>1, <3>2 DEF Sequence!Next, Sequence!Refuse
      <3>3. CASE phase' = "reading" /\ m_value' = m_value
        BY <2>1, <3>1, <3>3 DEF Sequence!sequenceVars
      <3>4. CASE phase' = "reading" /\ m_value' = Append(m_value, "own")
        <4>1. Len(m_value') = Len(m_value) + 1
          <5>1. "own" \in Contents
            BY DEF Contents
          <5> QED
            BY <2>0, <3>4, <5>1, AppendFacts
        <4> QED
          BY <2>1, <3>1, <3>4, <4>1 DEF Sequence!Next, Sequence!Add
      <3> QED
        BY <2>1, <3>2, <3>3, <3>4, OfElementOutcome
    <2>2. CASE ArrayBegins /\ phase = "ready"
      <3>1. /\ depth = 0 /\ parsed = FALSE /\ depth' = 1 /\ parsed' = FALSE
            /\ Len(m_value') = 0
        BY <2>2 DEF ArrayBegins, Idle, Clear, TypeOK, FeedTypeOK
      <3>2. phase' # "failed"
        BY <2>2 DEF ArrayBegins, Return, Accept
      <3> QED
        BY <2>2, <3>1, <3>2 DEF Sequence!Next, Sequence!Begin
    <2>3. CASE ArrayEnds /\ phase = "reading"
      <3>1. /\ parsed = FALSE /\ depth' = 0 /\ parsed' = TRUE /\ m_value' = m_value
            /\ InArray
        BY <2>3 DEF ArrayEnds, InArray, TypeOK, FeedTypeOK
      <3>2. phase' # "failed"
        BY <2>3 DEF ArrayEnds, Return, Accept
      <3>3. depth > 0 /\ depth # 0
        <4>1. nest \in Seq(Frame)
          BY DEF TypeOK, FeedTypeOK, ReaderTypeOK
        <4>2. Count(nest, "array") >= 1 /\ Count(nest, "array") \in Nat
          BY <3>1, <4>1, CountOne, CountFinite DEF InArray
        <4> QED
          BY <3>1, <4>2 DEF InArray
      <3> QED
        BY <2>0, <2>3, <3>1, <3>2, <3>3 DEF Sequence!Next, Sequence!Conclude
    <2>4. CASE NoArray /\ phase = "ready"
      <3>1. /\ depth = 0 /\ parsed = FALSE /\ depth' = 0 /\ parsed' = FALSE
            /\ phase' = "failed"
        BY <2>4 DEF NoArray, MismatchAtRoot, Reject, Terminate, Idle, TypeOK,
                    FeedTypeOK
      <3> QED
        BY <2>4, <3>1 DEF Sequence!Next, Sequence!Refuse
    <2>5. CASE ReapError /\ UNCHANGED m_value
      BY <2>5 DEF ReapError, readerVars, Sequence!sequenceVars
    <2>6. CASE PrepareForReuse
      BY <2>6 DEF PrepareForReuse, PrepareFeed, NextText, ClearVerdict,
                  Sequence!Next, Sequence!Renew
    <2>7. CASE UNCHANGED vars
      BY <2>7 DEF vars, readerVars, feedVars, Sequence!sequenceVars
    <2> QED
      BY <2>1, <2>2, <2>3, <2>4, <2>5, <2>6, <2>7, StepKinds
  <1> QED
    BY <1>1, <1>2, Invariance, PTL DEF Spec, ImplementsSequence, Sequence!Spec
-------------------------------------------------------------------------------
(* What the handler's own parent reads off it, and its methods seen as one. *)
Verdict ==
    /\ parsed <=> phase = "complete"
    /\ the_error # NoError <=> phase = "failed" /\ report = <<>>

Event ==
    Scalar \/ Key \/ StartObject \/ EndObject \/ StartArray \/ EndArray

LEMMA VerdictGiven ==
    ASSUME TypeOK, Inv
    PROVE  Verdict
  BY DEF TypeOK, FeedTypeOK, ReaderTypeOK, Phases, Inv, Idle, InArray, Done,
         Broken, Verdict

(* A method is called while nothing was refused, and returns true or false. *)
LEMMA EventReturns ==
    ASSUME TypeOK, Inv, Event
    PROVE  /\ ReadsEvent /\ phase \in {"ready", "reading"}
           /\ report = <<>> /\ report' = <<>>
           /\ phase' = "failed" \/ Accept
  <1>1. ReadsEvent /\ Active
    BY DEF Event, Scalar, Key, StartObject, EndObject, StartArray, EndArray,
           ReadsEvent, Kinds, ReadScalar, ReadKey, ReadStart, ReadEnd,
           ValueExpected, KeyExpected
  <1>2. report = <<>> /\ phase \in {"ready", "reading"}
    BY <1>1, ActivePhase DEF Idle, InArray
  <1>3. report' = report
    BY DEF Event, Scalar, Key, StartObject, EndObject, StartArray, EndArray,
           Element, historyVars
  <1>4. phase' = "failed" \/ Accept
    <2>1. OfElement \/ ArrayBegins \/ ArrayEnds \/ NoArray
      BY ScalarEvent, KeyEvent, StartObjectEvent, EndObjectEvent,
         StartArrayEvent, EndArrayEvent DEF Event
    <2>2. OfElement => phase' = "failed" \/ Accept
      <3> SUFFICES ASSUME NEW event \in Events, ElementEvent(event)
                   PROVE  phase' = "failed" \/ Accept
        BY DEF OfElement
      <3> QED
        BY PostcheckOutcome DEF ElementEvent, InArray
    <2>3. ArrayBegins \/ ArrayEnds => Accept
      BY DEF ArrayBegins, ArrayEnds, Return
    <2>4. NoArray => phase' = "failed"
      BY DEF NoArray, MismatchAtRoot, Reject, Terminate
    <2> QED
      BY <2>1, <2>2, <2>3, <2>4
  <1> QED
    BY <1>1, <1>2, <1>3, <1>4

(* The promise speaks of parts as HandlerContract does.                     *)
LEMMA AnswerIsPromised ==
    ASSUME phase \in {"ready", "reading"}, Answers(AsPart, AsPart', phase')
    PROVE  Promise!Next
  <1>1. PICK event \in Events :
            /\ Fits(AsPart, event)
            /\ IF phase' = "failed" THEN AsPart' \in Rejected(AsPart, event)
               ELSE /\ AsPart' \in Accepted(AsPart, event)
                    /\ phase' = IF AsPart'.open = 0 THEN "complete"
                                ELSE "reading"
    BY DEF Answers
  <1>2. /\ event \in Promise!Events /\ Promise!Fits(AsPart, event)
        /\ Promise!Rejected(AsPart, event) = Rejected(AsPart, event)
        /\ Promise!Accepted(AsPart, event) = Accepted(AsPart, event)
    BY <1>1 DEF Promise!Events, Events, Promise!Fits, Fits, Promise!Rejected,
                Rejected, Promise!Accepted, Accepted, Promise!OpenAfter,
                OpenAfter, Promise!ParsedAfter, ParsedAfter
  <1>3. Promise!Answer(event)
    BY <1>1, <1>2 DEF Promise!Answer, Promise!Accept, Promise!Refuse
  <1> QED
    BY <1>2, <1>3 DEF Promise!Next

LEMMA EventIsPromised ==
    ASSUME TypeOK, Inv, TypeOK', Inv', Event
    PROVE  Promise!Next
  <1>1. /\ ReadsEvent /\ phase \in {"ready", "reading"}
        /\ report = <<>> /\ report' = <<>>
        /\ phase' = "failed" \/ Accept
        /\ nest \in Seq(Frame)
    BY EventReturns DEF TypeOK, FeedTypeOK, ReaderTypeOK
  <1>2. Verdict /\ Verdict' /\ parsed \in BOOLEAN /\ parsed' \in BOOLEAN
    <2>1. Verdict /\ parsed \in BOOLEAN /\ parsed' \in BOOLEAN
      BY VerdictGiven DEF TypeOK, FeedTypeOK
    <2>2. Verdict'
      BY DEF TypeOK, FeedTypeOK, ReaderTypeOK, Phases, Inv, Idle, InArray,
             Done, Broken, Verdict
    <2> QED
      BY <2>1, <2>2
  <1> DEFINE x == the_error # NoError
             y == (the_error # NoError)'
  <1>3. phase' = "failed" <=> y
    BY <1>1, <1>2 DEF Verdict
  <1>4. phase' # "failed" => IF nest' = <<>> THEN parsed' ELSE parsed' => parsed
    BY <1>1, <1>2 DEF Verdict, Accept
  <1>5. x \in BOOLEAN /\ y \in BOOLEAN
    OBVIOUS
  <1>6. AsPart = Seen(parsed, x)
        /\ AsPart' = [open |-> Len(nest'), parsed |-> parsed', error |-> y]
    BY DEF AsPart, Seen
  <1> HIDE DEF x, y
  <1>7. Answers(AsPart, AsPart', phase')
    BY <1>1, <1>2, <1>3, <1>4, <1>5, <1>6, EventAnswered
  <1> QED
    BY <1>1, <1>7, AnswerIsPromised

(* Whatever its elements answer within the contract, the handler answers    *)
(* its own parent within it: each of its steps is one that is promised.     *)
THEOREM ContractIsKept == Spec => ContractKept
  <1>1. Init => Promise!Init
    BY DEF Init, FeedInit, ReaderInit, AsPart, Promise!Init, Promise!Fresh
  <1>2. TypeOK /\ Inv /\ TypeOK' /\ Inv' /\ [Next]_vars
            => [Promise!Next]_(Promise!contractedVars)
    <2> SUFFICES ASSUME TypeOK, Inv, TypeOK', Inv', [Next]_vars
                 PROVE  Promise!Next \/ UNCHANGED Promise!contractedVars
      OBVIOUS
    <2>1. CASE Event
      BY <2>1, EventIsPromised
    <2>2. CASE ReapError
      <3>1. /\ the_error # NoError /\ (the_error # NoError)' = FALSE
            /\ nest' = nest /\ phase' = phase /\ parsed' = parsed
        BY <2>2 DEF ReapError, readerVars
      <3>2. AsPart' = Promise!Reaped(AsPart)
        <4>1. AsPart \in Part /\ AsPart' \in Part
          BY DEF AsPart, Part, TypeOK, FeedTypeOK, ReaderTypeOK
        <4>2. /\ AsPart'.open = AsPart.open /\ AsPart'.parsed = AsPart.parsed
              /\ AsPart'.error = FALSE
          BY <3>1 DEF AsPart
        <4> DEFINE before == AsPart
                   after == AsPart'
        <4> HIDE DEF before, after
        <4>3. /\ before \in Part /\ after \in Part
              /\ after.open = before.open /\ after.parsed = before.parsed
              /\ after.error = FALSE
          BY <4>1, <4>2 DEF before, after
        <4>4. after = Reaped(before)
          BY <4>3, OnlyErrorReaped
        <4> QED
          BY <4>4 DEF before, after, Promise!Reaped, Reaped
      <3>3. AsPart.error
        BY <3>1 DEF AsPart
      <3> QED
        BY <3>1, <3>2, <3>3 DEF Promise!Next, Promise!Reap
    <2>3. CASE PrepareForReuse
      BY <2>3 DEF PrepareForReuse, PrepareFeed, NextText, ClearVerdict, AsPart,
                  Promise!Next, Promise!PrepareForReuse, Promise!Fresh
    <2>4. CASE UNCHANGED vars
      BY <2>4 DEF vars, readerVars, feedVars, AsPart, Promise!contractedVars
    <2> QED
      BY <2>1, <2>2, <2>3, <2>4 DEF Next, Event
  <1> QED
    BY <1>1, <1>2, Invariance, PTL DEF Spec, ContractKept, Promise!Spec
===============================================================================
