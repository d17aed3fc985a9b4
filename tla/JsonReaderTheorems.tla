------------------------- MODULE JsonReaderTheorems --------------------------
(***************************************************************************)
(* Facts about the reader's stack of open containers, for every set of keys *)
(* and every bound: what an event does to the stack and to the number of    *)
(* arrays or objects on it, which the handlers count in depth.              *)
(***************************************************************************)
EXTENDS JsonReader, HandlerContract, FiniteSets, FiniteSetTheorems, SequenceTheorems,
        TLAPS

(* The positions of the open containers of a kind, and their number.        *)
Of(s, kind) == {i \in 1..Len(s) : s[i].kind = kind}
Count(s, kind) == Cardinality(Of(s, kind))

LEMMA FrontFacts ==
    ASSUME NEW S, NEW s \in Seq(S), s # <<>>
    PROVE  /\ Front(s) \in Seq(S)
           /\ Len(Front(s)) = Len(s) - 1
           /\ \A i \in 1..Len(s) - 1 : Front(s)[i] = s[i]
           /\ Len(s) \in Nat \ {0}
           /\ Last(s) = s[Len(s)] /\ Last(s) \in S
  <1>1. Len(s) \in Nat \ {0}
    OBVIOUS
  <1>2. /\ Front(s) \in Seq(S)
        /\ Len(Front(s)) = Len(s) - 1
        /\ \A i \in 1..Len(s) - 1 : Front(s)[i] = s[i]
    <2> DEFINE m == Len(s) - 1
    <2>1. m \in Int /\ 1 \in Int /\ \A i \in 1..m : s[i] \in S
      BY <1>1
    <2>2. /\ SubSeq(s, 1, m) \in Seq(S)
          /\ Len(SubSeq(s, 1, m)) = IF 1 <= m THEN m - 1 + 1 ELSE 0
          /\ \A i \in 1..m - 1 + 1 : SubSeq(s, 1, m)[i] = s[1 + i - 1]
      BY <2>1, SubSeqProperties
    <2>3. m - 1 + 1 = m /\ \A i \in Int : 1 + i - 1 = i
      BY <2>1
    <2> QED
      BY <2>2, <2>3, <1>1 DEF Front
  <1>3. Last(s) = s[Len(s)] /\ Last(s) \in S
    BY <1>1 DEF Last
  <1> QED
    BY <1>1, <1>2, <1>3

LEMMA UpdateFacts ==
    ASSUME NEW S, NEW s \in Seq(S), NEW i \in 1..Len(s), NEW v \in S
    PROVE  /\ [s EXCEPT ![i] = v] \in Seq(S)
           /\ Len([s EXCEPT ![i] = v]) = Len(s)
           /\ \A j \in 1..Len(s) :
                  [s EXCEPT ![i] = v][j] = IF i = j THEN v ELSE s[j]
  OBVIOUS

LEMMA AppendFacts ==
    ASSUME NEW S, NEW s \in Seq(S), NEW v \in S
    PROVE  /\ Append(s, v) \in Seq(S)
           /\ Len(Append(s, v)) = Len(s) + 1
           /\ \A j \in 1..Len(s) : Append(s, v)[j] = s[j]
           /\ Append(s, v)[Len(s) + 1] = v
           /\ Append(s, v) # <<>>
  OBVIOUS

LEMMA PairCardinality ==
    ASSUME NEW x, NEW y, x # y
    PROVE  Cardinality({x, y}) = 2
  <1>1. IsFiniteSet({x}) /\ Cardinality({x}) = 1 /\ y \notin {x}
    BY FS_Singleton
  <1>2. Cardinality({x} \cup {y})
            = IF y \in {x} THEN Cardinality({x}) ELSE Cardinality({x}) + 1
    BY <1>1, FS_AddElement
  <1>3. Cardinality({x} \cup {y}) = Cardinality({x}) + 1
    BY <1>1, <1>2, Zenon
  <1>4. Cardinality({x} \cup {y}) = 1 + 1
    BY <1>1, <1>3
  <1>5. {x} \cup {y} = {x, y}
    OBVIOUS
  <1> QED
    BY <1>4, <1>5

LEMMA CountFinite ==
    ASSUME NEW s \in Seq(Frame), NEW kind
    PROVE  IsFiniteSet(Of(s, kind)) /\ Count(s, kind) \in Nat
  <1>1. Of(s, kind) \subseteq 1..Len(s)
    BY DEF Of
  <1>2. IsFiniteSet(1..Len(s))
    BY FS_Interval
  <1> QED
    BY <1>1, <1>2, FS_Subset, FS_CardinalityType DEF Count

LEMMA CountEmpty ==
    ASSUME NEW kind
    PROVE  Count(<<>>, kind) = 0
  <1>1. Of(<<>>, kind) = {}
    BY DEF Of
  <1> QED
    BY <1>1, FS_EmptySet DEF Count

LEMMA CountSame ==
    ASSUME NEW s \in Seq(Frame), NEW t \in Seq(Frame), NEW kind,
           Len(s) = Len(t), \A i \in 1..Len(s) : s[i].kind = t[i].kind
    PROVE  Count(s, kind) = Count(t, kind)
  <1>1. Of(s, kind) = Of(t, kind)
    BY DEF Of
  <1> QED
    BY <1>1 DEF Count

LEMMA CountAppend ==
    ASSUME NEW s \in Seq(Frame), NEW f \in Frame, NEW kind
    PROVE  Count(Append(s, f), kind)
               = Count(s, kind) + (IF f.kind = kind THEN 1 ELSE 0)
  <1> DEFINE t == Append(s, f)
  <1>0. Len(s) \in Nat /\ IsFiniteSet(Of(s, kind)) /\ Len(s) + 1 \notin Of(s, kind)
    <2>1. Len(s) \in Nat /\ Len(s) + 1 \notin 1..Len(s)
      OBVIOUS
    <2> QED
      BY <2>1, CountFinite DEF Of
  <1>1. CASE f.kind = kind
    <2>1. Of(t, kind) = Of(s, kind) \cup {Len(s) + 1}
      BY <1>1, <1>0, AppendFacts DEF Of
    <2> QED
      BY <2>1, <1>0, <1>1, FS_AddElement DEF Count
  <1>2. CASE f.kind # kind
    <2>1. Of(t, kind) = Of(s, kind)
      BY <1>2, <1>0, AppendFacts DEF Of
    <2> QED
      BY <2>1, <1>2, CountFinite DEF Count
  <1> QED
    BY <1>1, <1>2

LEMMA CountFront ==
    ASSUME NEW s \in Seq(Frame), s # <<>>, NEW kind
    PROVE  Count(s, kind)
               = Count(Front(s), kind) + (IF Last(s).kind = kind THEN 1 ELSE 0)
  <1> DEFINE f == Front(s)
             l == Last(s)
  <1>1. f \in Seq(Frame) /\ l \in Frame
    BY FrontFacts
  <1>2. s = Append(f, l)
    BY FrontFacts, AppendFacts, <1>1
  <1> HIDE DEF f, l
  <1>3. Count(Append(f, l), kind) = Count(f, kind) + (IF l.kind = kind THEN 1 ELSE 0)
    BY <1>1, CountAppend
  <1> QED
    BY <1>2, <1>3 DEF f, l

(* Two positions of a kind make two, so a container of the outermost one's  *)
(* kind is the outermost one exactly when the count is one.                 *)
LEMMA CountOne ==
    ASSUME NEW s \in Seq(Frame), s # <<>>, NEW kind, s[1].kind = kind
    PROVE  /\ Count(s, kind) >= 1
           /\ Last(s).kind = kind => (Count(s, kind) = 1 <=> Len(s) = 1)
           /\ Len(s) = 1 => Count(s, kind) = 1
  <1>0. Len(s) \in Nat \ {0} /\ Last(s) = s[Len(s)]
    BY FrontFacts
  <1>1. IsFiniteSet(Of(s, kind)) /\ 1 \in Of(s, kind)
    BY <1>0, CountFinite DEF Of
  <1>2. IsFiniteSet({1}) /\ Cardinality({1}) = 1
    BY FS_Singleton
  <1>3. Count(s, kind) >= 1 /\ Count(s, kind) \in Nat
    BY <1>1, <1>2, FS_Subset, CountFinite DEF Count
  <1>4. ASSUME Len(s) = 1 PROVE Count(s, kind) = 1
    <2>1. Of(s, kind) = {1}
      BY <1>4, <1>1 DEF Of
    <2> QED
      BY <2>1, <1>2 DEF Count
  <1>5. ASSUME Last(s).kind = kind, Len(s) # 1 PROVE Count(s, kind) # 1
    <2>1. {1, Len(s)} \subseteq Of(s, kind)
      BY <1>5, <1>0, <1>1 DEF Of
    <2>2. Cardinality({1, Len(s)}) = 2
      BY <1>5, PairCardinality
    <2> QED
      BY <2>1, <2>2, <1>1, FS_Subset DEF Count
  <1> QED
    BY <1>3, <1>4, <1>5

-------------------------------------------------------------------------------
LEMMA NewFrameType ==
    ASSUME NEW kind \in Kinds
    PROVE  /\ NewFrame(kind) \in Frame
           /\ NewFrame(kind).kind = kind
           /\ NewFrame(kind).key = NoKey
           /\ Size(NewFrame(kind)) = 0
  BY DEF NewFrame, Frame, Size

(* A value that ends changes only the counts and the key of the container   *)
(* around it.                                                               *)
LEMMA WithValueFacts ==
    ASSUME NEW s \in Seq(Frame), s # <<>>, NEW t,
           t = WithScalar(s) \/ t = WithContainer(s)
    PROVE  /\ t \in Seq(Frame)
           /\ Len(t) = Len(s)
           /\ t # <<>>
           /\ \A i \in 1..Len(s) - 1 : t[i] = s[i]
           /\ t[Len(s)].kind = s[Len(s)].kind
           /\ t[Len(s)].key = NoKey
           /\ Size(t[Len(s)]) = Size(s[Len(s)]) + 1
           /\ \A kind : Count(t, kind) = Count(s, kind)
  <1> DEFINE n == Len(s)
             f == AfterScalar(s[n])
             g == AfterContainer(s[n])
  <1>1. n \in 1..Len(s) /\ s[n] \in Frame
    BY FrontFacts
  <1>2. /\ f \in Frame /\ f.kind = s[n].kind /\ f.key = NoKey
        /\ Size(f) = Size(s[n]) + 1
    BY <1>1 DEF Frame, Size, AfterScalar
  <1>2a. /\ g \in Frame /\ g.kind = s[n].kind /\ g.key = NoKey
         /\ Size(g) = Size(s[n]) + 1
    BY <1>1 DEF Frame, Size, AfterContainer
  <1>3. t = [s EXCEPT ![n] = f] \/ t = [s EXCEPT ![n] = g]
    BY DEF WithScalar, WithContainer
  <1> HIDE DEF f, g
  <1>4. /\ t \in Seq(Frame) /\ Len(t) = Len(s)
        /\ \A i \in 1..Len(s) : t[i] = IF i = n THEN t[n] ELSE s[i]
        /\ t[n] = f \/ t[n] = g
    BY <1>1, <1>2, <1>2a, <1>3, UpdateFacts
  <1>5. \A i \in 1..Len(s) : s[i].kind = t[i].kind
    BY <1>4, <1>2, <1>2a, <1>1
  <1>6. \A kind : Count(t, kind) = Count(s, kind)
    BY <1>4, <1>5, CountSame
  <1> QED
    BY <1>1, <1>2, <1>2a, <1>4, <1>6

-------------------------------------------------------------------------------
(* What the reader's events do to a stack that is not empty, with the size  *)
(* and kind of its outermost container.                                     *)
LEMMA ReadScalarFacts ==
    ASSUME nest \in Seq(Frame), nest # <<>>, ReadScalar
    PROVE  /\ nest' \in Seq(Frame) /\ nest' # <<>>
           /\ Len(nest') = Len(nest)
           /\ \A i \in 1..Len(nest) - 1 : nest'[i] = nest[i]
           /\ nest'[1].kind = nest[1].kind
           /\ Len(nest) = 1 => Size(nest'[1]) = Size(nest[1]) + 1
           /\ \A kind : Count(nest', kind) = Count(nest, kind)
           /\ nest'[Len(nest)].key = NoKey
           /\ nest'[Len(nest)].kind = nest[Len(nest)].kind
  <1>1. nest' = WithScalar(nest) /\ Len(nest) \in Nat \ {0}
    BY FrontFacts DEF ReadScalar
  <1> QED
    BY <1>1, WithValueFacts

LEMMA ReadKeyFacts ==
    ASSUME nest \in Seq(Frame), NEW k \in Keys, ReadKey(k)
    PROVE  /\ nest # <<>>
           /\ nest' \in Seq(Frame) /\ nest' # <<>>
           /\ Len(nest') = Len(nest)
           /\ \A i \in 1..Len(nest) - 1 : nest'[i] = nest[i]
           /\ nest[Len(nest)].kind = "object"
           /\ nest[Len(nest)].key = NoKey
           /\ nest'[Len(nest)].kind = "object"
           /\ nest'[Len(nest)].key = k
           /\ Size(nest'[Len(nest)]) = Size(nest[Len(nest)])
           /\ \A kind : Count(nest', kind) = Count(nest, kind)
  <1> DEFINE n == Len(nest)
             f == WithKey(nest[n], k)
  <1>1. nest # <<>> /\ nest[n].kind = "object" /\ nest[n].key = NoKey
    BY DEF ReadKey, KeyExpected, AtRoot, Last
  <1>2. n \in 1..n /\ nest[n] \in Frame
    BY <1>1, FrontFacts
  <1>3. f \in Frame /\ f.kind = nest[n].kind /\ f.key = k /\ Size(f) = Size(nest[n])
    BY <1>2 DEF WithKey, Frame, Size
  <1>4. nest' = [nest EXCEPT ![n] = f]
    BY DEF ReadKey
  <1> HIDE DEF f
  <1>5. /\ nest' \in Seq(Frame) /\ Len(nest') = n
        /\ \A i \in 1..n : nest'[i] = IF i = n THEN f ELSE nest[i]
    BY <1>2, <1>3, <1>4, UpdateFacts
  <1>6. \A i \in 1..n : nest[i].kind = nest'[i].kind
    BY <1>5, <1>3
  <1>7. \A kind : Count(nest', kind) = Count(nest, kind)
    BY <1>5, <1>6, CountSame
  <1> QED
    BY <1>1, <1>2, <1>3, <1>5, <1>7

LEMMA ReadStartFacts ==
    ASSUME nest \in Seq(Frame), NEW start \in Kinds, ReadStart(start)
    PROVE  /\ nest' \in Seq(Frame) /\ nest' # <<>>
           /\ Len(nest') = Len(nest) + 1
           /\ \A i \in 1..Len(nest) : nest'[i] = nest[i]
           /\ nest'[Len(nest) + 1] = NewFrame(start)
           /\ \A kind : Count(nest', kind)
                          = Count(nest, kind) + (IF start = kind THEN 1 ELSE 0)
  <1>1. nest' = Append(nest, NewFrame(start))
    BY DEF ReadStart
  <1>2. NewFrame(start) \in Frame /\ NewFrame(start).kind = start
    BY NewFrameType
  <1> QED
    BY <1>1, <1>2, AppendFacts, CountAppend

LEMMA ReadEndFacts ==
    ASSUME nest \in Seq(Frame), NEW end \in Kinds, ReadEnd(end)
    PROVE  /\ nest # <<>>
           /\ Len(nest) \in Nat \ {0}
           /\ nest[Len(nest)].kind = end
           /\ nest' \in Seq(Frame)
           /\ Len(nest') = Len(nest) - 1
           /\ nest' = <<>> <=> Len(nest) = 1
           /\ \A i \in 1..Len(nest) - 2 : nest'[i] = nest[i]
           /\ Len(nest) > 1 =>
                /\ nest'[1].kind = nest[1].kind
                /\ nest'[Len(nest) - 1].kind = nest[Len(nest) - 1].kind
                /\ nest'[Len(nest) - 1].key = NoKey
                /\ Size(nest'[Len(nest) - 1]) = Size(nest[Len(nest) - 1]) + 1
           /\ \A kind : Count(nest', kind)
                          = Count(nest, kind) - (IF end = kind THEN 1 ELSE 0)
  <1> DEFINE s == Front(nest)
  <1>1. /\ nest # <<>> /\ Last(nest).kind = end /\ nest' = WithContainer(s)
    BY DEF ReadEnd, AtRoot
  <1>2. /\ s \in Seq(Frame) /\ Len(s) = Len(nest) - 1
        /\ \A i \in 1..Len(nest) - 1 : s[i] = nest[i]
        /\ Len(nest) \in Nat \ {0} /\ Last(nest) = nest[Len(nest)]
    BY <1>1, FrontFacts
  <1>3. \A kind : Count(s, kind) \in Nat /\ Count(nest, kind)
                    = Count(s, kind) + (IF end = kind THEN 1 ELSE 0)
    BY <1>1, <1>2, CountFront, CountFinite
  <1>4. \A kind : Count(s, kind) = Count(nest, kind) - (IF end = kind THEN 1 ELSE 0)
    BY <1>3, CountFinite
  <1> HIDE DEF s
  <1>5. CASE Len(nest) = 1
    <2>1. s = <<>>
      BY <1>2, <1>5
    <2>2. nest' = <<>> /\ nest' = s
      BY <2>1, <1>1 DEF WithContainer
    <2> QED
      BY <2>1, <2>2, <1>1, <1>2, <1>4, <1>5
  <1>6. CASE Len(nest) # 1
    <2>1. s # <<>> /\ Len(s) = Len(nest) - 1 /\ Len(nest) > 1
      BY <1>2, <1>6
    <2>2. /\ nest' \in Seq(Frame)
          /\ Len(nest') = Len(s)
          /\ nest' # <<>>
          /\ \A i \in 1..Len(s) - 1 : nest'[i] = s[i]
          /\ nest'[Len(s)].kind = s[Len(s)].kind
          /\ nest'[Len(s)].key = NoKey
          /\ Size(nest'[Len(s)]) = Size(s[Len(s)]) + 1
          /\ \A kind : Count(nest', kind) = Count(s, kind)
      <3>1. s \in Seq(Frame) /\ s # <<>> /\ nest' = WithContainer(s)
        BY <1>1, <1>2, <2>1
      <3> QED
        BY <3>1, WithValueFacts, Zenon
    <2>3. nest'[1].kind = nest[1].kind
      BY <2>1, <2>2, <1>2
    <2> QED
      BY <2>1, <2>2, <2>3, <1>1, <1>2, <1>4
  <1> QED
    BY <1>5, <1>6

-------------------------------------------------------------------------------
(* The containers a container holds: scalars and keys leave them, the end   *)
(* of one adds one to the container around it.                              *)
LEMMA ContainersKept ==
    ASSUME nest \in Seq(Frame), nest # <<>>,
           ReadScalar \/ \E k \in Keys : ReadKey(k)
    PROVE  \A i \in 1..Len(nest) : nest'[i].containers = nest[i].containers
  <1> DEFINE n == Len(nest)
  <1>1. n \in 1..n /\ nest[n] \in Frame
    BY FrontFacts
  <1>2. CASE ReadScalar
    <2> DEFINE f == AfterScalar(nest[n])
    <2>1. f \in Frame /\ f.containers = nest[n].containers
      BY <1>1 DEF Frame, AfterScalar
    <2>2. nest' = [nest EXCEPT ![n] = f]
      BY <1>2 DEF ReadScalar, WithScalar
    <2> HIDE DEF f
    <2>3. \A i \in 1..n : nest'[i] = IF i = n THEN f ELSE nest[i]
      BY <1>1, <2>1, <2>2, UpdateFacts
    <2> QED
      BY <2>1, <2>3
  <1>3. ASSUME NEW k \in Keys, ReadKey(k)
        PROVE  \A i \in 1..Len(nest) : nest'[i].containers = nest[i].containers
    <2> DEFINE f == WithKey(nest[n], k)
    <2>1. f \in Frame /\ f.containers = nest[n].containers
      BY <1>1 DEF Frame, WithKey
    <2>2. nest' = [nest EXCEPT ![n] = f]
      BY <1>3 DEF ReadKey
    <2> HIDE DEF f
    <2>3. \A i \in 1..n : nest'[i] = IF i = n THEN f ELSE nest[i]
      BY <1>1, <2>1, <2>2, UpdateFacts
    <2> QED
      BY <2>1, <2>3
  <1> QED
    BY <1>2, <1>3

LEMMA ContainersAfterEnd ==
    ASSUME nest \in Seq(Frame), NEW end \in Kinds, ReadEnd(end), Len(nest) > 1
    PROVE  /\ \A i \in 1..Len(nest) - 2 : nest'[i].containers = nest[i].containers
           /\ nest'[Len(nest) - 1].containers = nest[Len(nest) - 1].containers + 1
  <1> DEFINE s == Front(nest)
             n == Len(nest) - 1
             f == AfterContainer(s[n])
  <1>1. /\ s \in Seq(Frame) /\ Len(s) = n /\ n \in 1..n /\ s # <<>>
        /\ \A i \in 1..n : s[i] = nest[i]
        /\ nest' = WithContainer(s)
    <2>1. nest # <<>> /\ nest' = WithContainer(s)
      BY DEF ReadEnd, AtRoot
    <2>2. /\ s \in Seq(Frame) /\ Len(s) = n
          /\ \A i \in 1..n : s[i] = nest[i]
      BY <2>1, FrontFacts
    <2> QED
      BY <2>1, <2>2
  <1> HIDE DEF s
  <1>2. s[n] \in Frame /\ s[n] = nest[n]
    BY <1>1
  <1>3. f \in Frame /\ f.containers = s[n].containers + 1
    BY <1>2 DEF Frame, AfterContainer
  <1>4. nest' = [s EXCEPT ![n] = f]
    BY <1>1 DEF WithContainer
  <1> HIDE DEF f
  <1>5. \A i \in 1..n : nest'[i] = IF i = n THEN f ELSE s[i]
    BY <1>1, <1>3, <1>4, UpdateFacts
  <1> QED
    BY <1>1, <1>2, <1>3, <1>5

-------------------------------------------------------------------------------
(* As long as a value within an outermost object is not complete, the key   *)
(* of the member it belongs to is pending.                                  *)
MemberPending ==
    Len(nest) > 1 /\ nest[1].kind = "object" => nest[1].key # NoKey

LEMMA PendingKept ==
    ASSUME nest \in Seq(Frame), MemberPending,
           \/ ReadScalar \/ \E k \in Keys : ReadKey(k)
           \/ \E kind \in Kinds : ReadStart(kind) \/ ReadEnd(kind)
    PROVE  MemberPending'
  <1>0. Len(nest) \in Nat /\ (nest = <<>> <=> Len(nest) = 0)
    OBVIOUS
  <1>1. CASE ReadScalar
    <2>1. CASE nest = <<>>
      BY <1>1, <2>1 DEF ReadScalar, WithScalar, MemberPending
    <2>2. CASE nest # <<>>
      BY <1>0, <1>1, <2>2, ReadScalarFacts DEF MemberPending
    <2> QED
      BY <2>1, <2>2
  <1>2. ASSUME NEW k \in Keys, ReadKey(k)
        PROVE  MemberPending'
    BY <1>0, <1>2, ReadKeyFacts DEF MemberPending
  <1>3. ASSUME NEW kind \in Kinds, ReadStart(kind)
        PROVE  MemberPending'
    <2>1. /\ Len(nest') = Len(nest) + 1
          /\ \A i \in 1..Len(nest) : nest'[i] = nest[i]
      BY <1>3, ReadStartFacts
    <2>2. CASE Len(nest) = 0
      BY <2>1, <2>2 DEF MemberPending
    <2>3. CASE Len(nest) = 1
      <3>1. nest[1].kind = "array" \/ nest[1].key # NoKey
        BY <1>0, <1>3, <2>3 DEF ReadStart, ValueExpected, AtRoot, Last
      <3> QED
        BY <2>1, <2>3, <3>1 DEF MemberPending
    <2>4. CASE Len(nest) > 1
      BY <1>0, <2>1, <2>4 DEF MemberPending
    <2> QED
      BY <1>0, <2>2, <2>3, <2>4
  <1>4. ASSUME NEW kind \in Kinds, ReadEnd(kind)
        PROVE  MemberPending'
    BY <1>0, <1>4, ReadEndFacts DEF MemberPending
  <1> QED
    BY <1>1, <1>2, <1>3, <1>4

(* A value event, or any event within a value, finds that key pending.      *)
LEMMA ValueIsPending ==
    ASSUME nest \in Seq(Frame), nest # <<>>, nest[1].kind = "object",
           MemberPending,
           \/ ReadScalar \/ \E kind \in Kinds : ReadStart(kind)
           \/ Len(nest) > 1
    PROVE  nest[1].key # NoKey
  <1>0. Len(nest) \in Nat \ {0}
    OBVIOUS
  <1>1. CASE Len(nest) > 1
    BY <1>1 DEF MemberPending
  <1>2. CASE Len(nest) = 1
    <2>1. ValueExpected
      BY <1>2 DEF ReadScalar, ReadStart
    <2> QED
      BY <1>2, <2>1 DEF ValueExpected, AtRoot, Last
  <1>3. Len(nest) > 1 \/ Len(nest) = 1
    <2>1. \A n \in Nat \ {0} : n > 1 \/ n = 1
      OBVIOUS
    <2> QED
      BY <1>0, <2>1, Zenon
  <1> QED
    BY <1>1, <1>2, <1>3, Zenon
-------------------------------------------------------------------------------
(* The reader's events are those of HandlerContract, and each fits the      *)
(* progress of a handler that has had all events of the text.               *)
ReadsEvent ==
    \/ ReadScalar \/ \E k \in Keys : ReadKey(k)
    \/ \E kind \in Kinds : ReadStart(kind) \/ ReadEnd(kind)

Seen(is_parsed, has_error) ==
    [open |-> Len(nest), parsed |-> is_parsed, error |-> has_error]

(* The handler, a part in the state before, becomes the part after, and its *)
(* value is then as text says.                                              *)
Answers(before, after, text) ==
    \E event \in Events :
        /\ Fits(before, event)
        /\ IF text = "failed" THEN after \in Rejected(before, event)
           ELSE /\ after \in Accepted(before, event)
                /\ text = IF after.open = 0 THEN "complete" ELSE "reading"

(* What an answer is, as a part: a refusal leaves an error.                  *)
LEMMA RejectedFacts ==
    ASSUME NEW part, NEW event, OpenAfter(part, event) \in Nat,
           NEW response \in Rejected(part, event)
    PROVE  response \in Part /\ response.error
  <1>1. PICK p \in BOOLEAN :
            response = [open |-> OpenAfter(part, event), parsed |-> p,
                        error |-> TRUE]
    BY DEF Rejected
  <1> QED
    BY <1>1 DEF Part

LEMMA ReapedFacts ==
    ASSUME NEW part \in Part
    PROVE  /\ Reaped(part) \in Part
           /\ Reaped(part).open = part.open /\ Reaped(part).error = FALSE
           /\ Reaped(part).parsed = part.parsed
  BY DEF Part, Reaped

(* Parts are equal if all that can be seen of them is.                      *)
LEMMA SamePart ==
    ASSUME NEW part \in Part, NEW other \in Part, part.open = other.open,
           part.parsed = other.parsed, part.error = other.error
    PROVE  part = other
  BY DEF Part

(* reap_error changes nothing else.                                         *)
LEMMA OnlyErrorReaped ==
    ASSUME NEW part \in Part, NEW after \in Part, after.open = part.open,
           after.parsed = part.parsed, after.error = FALSE
    PROVE  after = Reaped(part)
  BY DEF Part, Reaped

LEMMA EventShape ==
    ASSUME nest \in Seq(Frame), ReadsEvent
    PROVE  /\ nest' \in Seq(Frame)
           /\ \E event \in Events :
                  /\ event \in {"key", "end"} => Len(nest) > 0
                  /\ Len(nest') = IF event = "start" THEN Len(nest) + 1
                                  ELSE IF event = "end" THEN Len(nest) - 1
                                  ELSE Len(nest)
  <1>0. {"scalar", "key", "start", "end"} \subseteq Events /\ Len(nest) \in Nat
    BY DEF Events
  <1>1. CASE ReadScalar
    <2>1. nest' \in Seq(Frame) /\ Len(nest') = Len(nest)
      BY <1>1, ReadScalarFacts DEF ReadScalar, WithScalar
    <2> QED
      BY <1>0, <2>1
  <1>2. ASSUME NEW k \in Keys, ReadKey(k)
        PROVE  nest' \in Seq(Frame) /\ Len(nest') = Len(nest) /\ Len(nest) > 0
    BY <1>0, <1>2, ReadKeyFacts
  <1>3. ASSUME NEW kind \in Kinds, ReadStart(kind)
        PROVE  nest' \in Seq(Frame) /\ Len(nest') = Len(nest) + 1
    BY <1>3, ReadStartFacts
  <1>4. ASSUME NEW kind \in Kinds, ReadEnd(kind)
        PROVE  nest' \in Seq(Frame) /\ Len(nest') = Len(nest) - 1 /\ Len(nest) > 0
    BY <1>4, ReadEndFacts
  <1>5. CASE \E k \in Keys : ReadKey(k)
    BY <1>0, <1>2, <1>5
  <1>6. CASE \E kind \in Kinds : ReadStart(kind)
    BY <1>0, <1>3, <1>6
  <1>7. CASE \E kind \in Kinds : ReadEnd(kind)
    BY <1>0, <1>4, <1>7
  <1> QED
    BY <1>1, <1>5, <1>6, <1>7 DEF ReadsEvent

(* What is left to show of a handler's method: an error exactly if it       *)
(* returns false; parsed if it returns true at the end of the value, and    *)
(* before that only if it was.                                              *)
LEMMA EventAnswered ==
    ASSUME nest \in Seq(Frame), ReadsEvent,
           NEW p \in BOOLEAN, NEW q \in BOOLEAN,
           NEW x \in BOOLEAN, NEW y \in BOOLEAN,
           phase' = "failed" <=> y, phase' = "failed" \/ Accept,
           phase' # "failed" => IF nest' = <<>> THEN q ELSE q => p
    PROVE  Answers(Seen(p, x), [open |-> Len(nest'), parsed |-> q, error |-> y],
                   phase')
  <1>1. /\ nest' \in Seq(Frame) /\ Len(nest) \in Nat /\ Len(nest') \in Nat
        /\ nest' = <<>> <=> Len(nest') = 0
    BY EventShape
  <1>2. PICK event \in Events :
            /\ event \in {"key", "end"} => Len(nest) > 0
            /\ Len(nest') = IF event = "start" THEN Len(nest) + 1
                            ELSE IF event = "end" THEN Len(nest) - 1
                            ELSE Len(nest)
    BY EventShape
  <1> DEFINE part == Seen(p, x)
             after == [open |-> Len(nest'), parsed |-> q, error |-> y]
  <1>3. part.open = Len(nest) /\ part.parsed = p
    BY DEF Seen
  <1>4. Fits(part, event)
    BY <1>2, <1>3 DEF Fits
  <1>5. OpenAfter(part, event) = Len(nest')
    BY <1>1, <1>2, <1>3 DEF OpenAfter
  <1>6. CASE phase' = "failed"
    <2>1. y = TRUE
      BY <1>6
    <2>2. after \in Rejected(part, event)
      BY <1>5, <2>1 DEF Rejected
    <2> QED
      BY <1>4, <1>6, <2>2 DEF Answers
  <1>7. CASE phase' # "failed"
    <2>1. y = FALSE
      BY <1>7
    <2>2. q \in ParsedAfter(part, event)
      <3>1. CASE nest' = <<>>
        BY <1>1, <1>4, <1>5, <1>7, <3>1 DEF ParsedAfter
      <3>2. CASE nest' # <<>>
        <4>1. ParsedAfter(part, event) = {FALSE, p}
          BY <1>1, <1>3, <1>4, <1>5, <3>2 DEF ParsedAfter
        <4>2. q = FALSE \/ q = p
          BY <1>7, <3>2
        <4> QED
          BY <4>1, <4>2
      <3> QED
        BY <3>1, <3>2
    <2>3. after \in Accepted(part, event)
      BY <1>5, <2>1, <2>2 DEF Accepted
    <2>4. phase' = IF after.open = 0 THEN "complete" ELSE "reading"
      BY <1>1, <1>7 DEF Accept
    <2> QED
      BY <1>4, <1>7, <2>3, <2>4 DEF Answers
  <1> QED
    BY <1>6, <1>7
===============================================================================
