------------------------- MODULE ObjectHandlerProofs -------------------------
(***************************************************************************)
(* For every set of keys, members, flags and limits and every bound,        *)
(* ObjectHandler keeps its types and its contract, sends every value to the *)
(* member its key names, requires what is required and enforces the limits. *)
(***************************************************************************)
EXTENDS ObjectHandler, JsonReaderTheorems

-------------------------------------------------------------------------------
(* What the counters of the limits count, for every limit and every text:   *)
(* StartCheckMaxDepthMaxLeaves and EndCheckMaxDepthMaxLeaves keep them in    *)
(* step with the reader's stack of open containers.                         *)

(* The top of the stack of leaves mirrors the open containers; below it may *)
(* lie what a text that was broken off has left.                            *)
Aligned(leaves, s) ==
    /\ Len(leaves) >= Len(s)
    /\ \A i \in 1..Len(s) : leaves[Len(leaves) - Len(s) + i] = s[i].containers

FlatArray(frame) == frame.kind = "array" /\ frame.containers = 0

CountersInStep ==
    /\ maxDepth # Unset => Len(nest) <= jsonDepth /\ Len(nest) <= maxDepth
    /\ maxLeaves # Unset =>
           /\ Aligned(leavesStack, nest)
           /\ nest # <<>> => (lastLeafStat <=> FlatArray(Last(nest)))

-------------------------------------------------------------------------------
LEMMA AlignedSame ==
    ASSUME NEW leaves \in Seq(Nat), NEW s \in Seq(Frame), NEW t \in Seq(Frame),
           Aligned(leaves, s), Len(t) = Len(s),
           \A i \in 1..Len(s) : t[i].containers = s[i].containers
    PROVE  Aligned(leaves, t)
  BY DEF Aligned

LEMMA AlignedAppend ==
    ASSUME NEW leaves \in Seq(Nat), NEW s \in Seq(Frame), NEW f \in Frame,
           Aligned(leaves, s), f.containers = 0
    PROVE  Aligned(Append(leaves, 0), Append(s, f))
  <1> DEFINE l == Append(leaves, 0)
             t == Append(s, f)
  <1>1. /\ Len(l) = Len(leaves) + 1 /\ Len(t) = Len(s) + 1
        /\ Len(leaves) \in Nat /\ Len(s) \in Nat /\ Len(leaves) >= Len(s)
        /\ \A j \in 1..Len(leaves) : l[j] = leaves[j]
        /\ \A j \in 1..Len(s) : t[j] = s[j]
        /\ l[Len(leaves) + 1] = 0 /\ t[Len(s) + 1] = f
    BY AppendFacts DEF Aligned
  <1> HIDE DEF l, t
  <1>2. ASSUME NEW i \in 1..Len(t)
        PROVE  l[Len(l) - Len(t) + i] = t[i].containers
    <2>1. CASE i = Len(s) + 1
      <3>1. Len(l) - Len(t) + i = Len(leaves) + 1
        BY <1>1, <2>1
      <3> QED
        BY <1>1, <2>1, <3>1
    <2>2. CASE i # Len(s) + 1
      <3>1. /\ i \in 1..Len(s)
            /\ Len(l) - Len(t) + i = Len(leaves) - Len(s) + i
            /\ Len(leaves) - Len(s) + i \in 1..Len(leaves)
        BY <1>1, <2>2
      <3> QED
        BY <1>1, <3>1 DEF Aligned
    <2> QED
      BY <2>1, <2>2
  <1>3. Len(l) >= Len(t)
    BY <1>1
  <1> QED
    BY <1>2, <1>3 DEF Aligned, l, t

LEMMA AlignedLast ==
    ASSUME NEW leaves \in Seq(Nat), NEW s \in Seq(Frame), Aligned(leaves, s),
           s # <<>>
    PROVE  leaves # <<>> /\ Last(leaves) = s[Len(s)].containers
  <1>1. Len(s) \in 1..Len(s) /\ Len(leaves) >= Len(s) /\ Len(leaves) \in Nat
    BY FrontFacts DEF Aligned
  <1>2. leaves[Len(leaves) - Len(s) + Len(s)] = s[Len(s)].containers
    BY <1>1 DEF Aligned
  <1>3. Len(leaves) - Len(s) + Len(s) = Len(leaves)
    BY <1>1
  <1> QED
    BY <1>1, <1>2, <1>3 DEF Last

LEMMA PopFacts ==
    ASSUME NEW leaves \in Seq(Nat), leaves # <<>>
    PROVE  /\ PopLeaves(leaves) \in Seq(Nat)
           /\ Len(PopLeaves(leaves)) = Len(leaves) - 1
           /\ \A i \in 1..Len(leaves) - 1 :
                  PopLeaves(leaves)[i]
                      = IF i = Len(leaves) - 1 THEN leaves[i] + 1 ELSE leaves[i]
  <1>1. /\ Front(leaves) \in Seq(Nat) /\ Len(Front(leaves)) = Len(leaves) - 1
        /\ \A i \in 1..Len(leaves) - 1 : Front(leaves)[i] = leaves[i]
        /\ Len(leaves) \in Nat \ {0}
    BY FrontFacts
  <1>2. CASE Len(leaves) = 1
    BY <1>1, <1>2 DEF PopLeaves
  <1>3. CASE Len(leaves) # 1
    <2> DEFINE m == Len(leaves) - 1
               f == Front(leaves)
               v == f[m] + 1
    <2>1. m \in 1..Len(f) /\ f \in Seq(Nat)
      BY <1>1, <1>3
    <2>2. v \in Nat
      BY <2>1
    <2>3. PopLeaves(leaves) = [f EXCEPT ![m] = v]
      BY <1>3 DEF PopLeaves
    <2>4. m = Len(f) /\ \A i \in 1..m : f[i] = leaves[i]
      BY <1>1
    <2> HIDE DEF f, m
    <2>5. /\ [f EXCEPT ![m] = v] \in Seq(Nat)
          /\ Len([f EXCEPT ![m] = v]) = m
          /\ \A i \in 1..m : [f EXCEPT ![m] = v][i] = IF i = m THEN v ELSE f[i]
      BY <2>1, <2>2, <2>4, UpdateFacts
    <2>6. \A i \in 1..m : [f EXCEPT ![m] = v][i]
                              = IF i = m THEN leaves[i] + 1 ELSE leaves[i]
      BY <2>4, <2>5, <2>1
    <2> QED
      BY <2>3, <2>5, <2>6 DEF m
  <1> QED
    BY <1>2, <1>3

LEMMA AlignedPop ==
    ASSUME NEW leaves \in Seq(Nat), NEW s \in Seq(Frame), NEW t \in Seq(Frame),
           Aligned(leaves, s), s # <<>>, Len(t) = Len(s) - 1,
           \A i \in 1..Len(s) - 2 : t[i].containers = s[i].containers,
           Len(s) > 1 =>
               t[Len(s) - 1].containers = s[Len(s) - 1].containers + 1
    PROVE  Aligned(PopLeaves(leaves), t)
  <1> DEFINE p == PopLeaves(leaves)
  <1>1. /\ Len(s) \in Nat \ {0} /\ Len(leaves) \in Nat \ {0}
        /\ Len(leaves) >= Len(s) /\ leaves # <<>>
    BY FrontFacts, AlignedLast DEF Aligned
  <1>2. /\ p \in Seq(Nat) /\ Len(p) = Len(leaves) - 1
        /\ \A i \in 1..Len(leaves) - 1 :
               p[i] = IF i = Len(leaves) - 1 THEN leaves[i] + 1 ELSE leaves[i]
    BY <1>1, PopFacts
  <1> HIDE DEF p
  <1>3. ASSUME NEW i \in 1..Len(t)
        PROVE  p[Len(p) - Len(t) + i] = t[i].containers
    <2> DEFINE j == Len(leaves) - Len(s) + i
    <2>1. /\ Len(p) - Len(t) + i = j /\ j \in 1..Len(leaves) - 1
          /\ i \in 1..Len(s)
          /\ j = Len(leaves) - 1 <=> i = Len(s) - 1
          /\ i # Len(s) - 1 => i \in 1..Len(s) - 2
          /\ i = Len(s) - 1 => Len(s) > 1
      <3> DEFINE a == Len(leaves)
                 b == Len(s)
                 c == Len(p)
                 d == Len(t)
      <3>1. /\ a \in Nat /\ b \in Nat /\ a >= b /\ i \in 1..b - 1
            /\ c = a - 1 /\ d = b - 1 /\ j = a - b + i
        BY <1>1, <1>2
      <3> HIDE DEF a, b, c, d, j
      <3>2. c - d + i = j /\ j \in 1..a - 1
        BY <3>1
      <3>3. j = a - 1 <=> i = b - 1
        BY <3>1
      <3>4. /\ i \in 1..b
            /\ i # b - 1 => i \in 1..b - 2
            /\ i = b - 1 => b > 1
        BY <3>1
      <3> QED
        BY <3>2, <3>3, <3>4 DEF a, b, c, d
    <2>2. leaves[j] = s[i].containers
      BY <2>1 DEF Aligned
    <2>3. p[j] = IF i = Len(s) - 1 THEN leaves[j] + 1 ELSE leaves[j]
      BY <1>2, <2>1
    <2> HIDE DEF j
    <2>4. p[j] = t[i].containers
      BY <2>1, <2>2, <2>3
    <2> QED
      BY <2>1, <2>4
  <1>4. Len(p) >= Len(t)
    BY <1>1, <1>2
  <1> QED
    BY <1>3, <1>4 DEF Aligned, p
-------------------------------------------------------------------------------
LEMMA LimitValues ==
    ASSUME LimitsTypeOK
    PROVE  /\ maxDepth # Unset => maxDepth \in Nat
           /\ maxLeaves # Unset => maxLeaves \in Nat
  BY LimitsAssumption DEF LimitsTypeOK

(* Scalars and keys do not move the counters.                               *)
LEMMA ValueKeepsCounters ==
    ASSUME nest \in Seq(Frame), nest # <<>>, LimitsTypeOK, CountersInStep,
           ReadScalar \/ \E k \in Keys : ReadKey(k),
           UNCHANGED <<configVars, counterVars>>
    PROVE  LimitsTypeOK' /\ CountersInStep'
  <1>1. /\ nest' \in Seq(Frame) /\ nest' # <<>> /\ Len(nest') = Len(nest)
        /\ nest'[Len(nest)].kind = nest[Len(nest)].kind
    BY ReadScalarFacts, ReadKeyFacts
  <1>2. \A i \in 1..Len(nest) : nest'[i].containers = nest[i].containers
    BY ContainersKept
  <1>3. /\ UNCHANGED <<maxDepth, maxLeaves, jsonDepth, lastLeafStat, totalLeaves,
                       leavesStack>>
        /\ leavesStack \in Seq(Nat)
    BY DEF configVars, counterVars, LimitsTypeOK
  <1>4. Aligned(leavesStack, nest) => Aligned(leavesStack', nest')
    BY <1>1, <1>2, <1>3, AlignedSame
  <1>5. FlatArray(Last(nest')) <=> FlatArray(Last(nest))
    <2>1. Last(nest') = nest'[Len(nest)] /\ Last(nest) = nest[Len(nest)]
      BY <1>1 DEF Last
    <2>2. Len(nest) \in 1..Len(nest)
      BY FrontFacts
    <2> QED
      BY <1>1, <1>2, <2>1, <2>2 DEF FlatArray
  <1>6. LimitsTypeOK'
    BY <1>3 DEF LimitsTypeOK
  <1>7. maxLeaves' # Unset =>
            /\ Aligned(leavesStack', nest')
            /\ lastLeafStat' <=> FlatArray(Last(nest'))
    BY <1>3, <1>4, <1>5, Zenon DEF CountersInStep
  <1>8. maxDepth' # Unset => Len(nest') <= jsonDepth' /\ Len(nest') <= maxDepth'
    BY <1>1, <1>3 DEF CountersInStep
  <1> QED
    BY <1>6, <1>7, <1>8, Zenon DEF CountersInStep

(* A container that passes StartCheckMaxDepthMaxLeaves is counted, and not  *)
(* too deep.                                                                *)
LEMMA StartCounts ==
    ASSUME nest \in Seq(Frame), LimitsTypeOK, CountersInStep,
           NEW kind \in Kinds, ReadStart(kind), StartCheck(kind),
           UNCHANGED configVars
    PROVE  LimitsTypeOK' /\ CountersInStep'
  <1>1. /\ nest' \in Seq(Frame) /\ nest' # <<>> /\ Len(nest') = Len(nest) + 1
        /\ nest'[Len(nest) + 1] = NewFrame(kind) /\ Len(nest) \in Nat
        /\ nest' = Append(nest, NewFrame(kind))
    BY ReadStartFacts DEF ReadStart
  <1>2. NewFrame(kind) \in Frame /\ NewFrame(kind).containers = 0
        /\ NewFrame(kind).kind = kind
    BY NewFrameType DEF NewFrame
  <1>3. /\ jsonDepth \in Nat /\ leavesStack \in Seq(Nat)
        /\ maxDepth' = maxDepth /\ maxLeaves' = maxLeaves
        /\ totalLeaves' = totalLeaves
    BY DEF LimitsTypeOK, configVars, StartCheck
  <1>4. /\ maxDepth = Unset => jsonDepth' = jsonDepth
        /\ maxDepth # Unset => /\ jsonDepth' = jsonDepth + 1
                               /\ ~(jsonDepth + 1 > maxDepth)
    BY DEF StartCheck, TooDeep
  <1>5. /\ maxLeaves = Unset => /\ lastLeafStat' = lastLeafStat
                                /\ leavesStack' = leavesStack
        /\ maxLeaves # Unset => /\ lastLeafStat' = (kind = "array")
                                /\ leavesStack' = Append(leavesStack, 0)
    BY DEF StartCheck
  <1>6. LimitsTypeOK'
    <2>1. jsonDepth' \in Nat
      BY <1>3, <1>4
    <2>2. leavesStack' \in Seq(Nat)
      <3>1. CASE maxLeaves = Unset
        BY <1>3, <1>5, <3>1
      <3>2. CASE maxLeaves # Unset
        BY <1>3, <1>5, <3>2, 0 \in Nat
      <3> QED
        BY <3>1, <3>2
    <2>3. lastLeafStat' \in BOOLEAN
      BY <1>5, Zenon DEF LimitsTypeOK
    <2> QED
      BY <1>3, <2>1, <2>2, <2>3 DEF LimitsTypeOK
  <1>7. maxDepth' # Unset => Len(nest') <= jsonDepth' /\ Len(nest') <= maxDepth'
    <2> SUFFICES ASSUME maxDepth # Unset
                 PROVE  Len(nest') <= jsonDepth' /\ Len(nest') <= maxDepth
      BY <1>3
    <2>1. maxDepth \in Nat
      BY LimitValues
    <2>2. Len(nest) <= jsonDepth
      BY DEF CountersInStep
    <2> QED
      BY <1>1, <1>3, <1>4, <2>1, <2>2
  <1>8. maxLeaves' # Unset =>
            /\ Aligned(leavesStack', nest')
            /\ lastLeafStat' <=> FlatArray(Last(nest'))
    <2> SUFFICES ASSUME maxLeaves # Unset
                 PROVE  /\ Aligned(leavesStack', nest')
                        /\ lastLeafStat' <=> FlatArray(Last(nest'))
      BY <1>3
    <2>1. Aligned(leavesStack, nest)
      BY DEF CountersInStep
    <2>2. Aligned(leavesStack', nest')
      BY <1>1, <1>2, <1>3, <1>5, <2>1, AlignedAppend
    <2>3. Last(nest') = NewFrame(kind)
      BY <1>1 DEF Last
    <2>4. FlatArray(Last(nest')) <=> kind = "array"
      BY <1>2, <2>3 DEF FlatArray
    <2> QED
      BY <1>5, <2>2, <2>4, Zenon
  <1> QED
    BY <1>6, <1>7, <1>8, Zenon DEF CountersInStep

(* A container that passes EndCheckMaxDepthMaxLeaves has added exactly its  *)
(* own leaves to totalLeaves.                                               *)
LEMMA LeavesOfEnd ==
    ASSUME nest \in Seq(Frame), nest # <<>>, LimitsTypeOK, CountersInStep,
           maxLeaves # Unset
    PROVE  /\ LeavesAfterEnd(Last(nest).kind, Size(Last(nest)))
                = totalLeaves + OwnLeaves(Last(nest))
           /\ OwnLeaves(Last(nest)) \in Nat /\ totalLeaves \in Nat
  <1> DEFINE f == Last(nest)
  <1>1. /\ f \in Frame /\ f = nest[Len(nest)] /\ leavesStack \in Seq(Nat)
        /\ totalLeaves \in Nat
    BY FrontFacts DEF LimitsTypeOK
  <1>2. /\ f.scalars \in Nat /\ f.containers \in Nat /\ f.kind \in Kinds
        /\ Size(f) = f.scalars + f.containers
    BY <1>1 DEF Frame, Size
  <1>3. Last(leavesStack) = f.containers
    BY <1>1, AlignedLast DEF CountersInStep
  <1>4. lastLeafStat <=> FlatArray(f)
    BY DEF CountersInStep
  <1> HIDE DEF f
  <1>5. CASE f.kind = "array"
    <2>1. OwnLeaves(f) = IF f.scalars > 0 /\ f.containers = 0 THEN 1 ELSE 0
      BY <1>5 DEF OwnLeaves
    <2>2. LeavesAfterEnd("array", Size(f))
            = IF lastLeafStat /\ Size(f) > 0 THEN totalLeaves + 1 ELSE totalLeaves
      BY DEF LeavesAfterEnd
    <2>3. (lastLeafStat /\ Size(f) > 0) <=> (f.containers = 0 /\ Size(f) > 0)
      BY <1>4, <1>5, Zenon DEF FlatArray
    <2>4. (f.containers = 0 /\ Size(f) > 0) <=> (f.scalars > 0 /\ f.containers = 0)
      BY <1>2
    <2>5. CASE f.scalars > 0 /\ f.containers = 0
      <3>1. LeavesAfterEnd("array", Size(f)) = totalLeaves + 1 /\ OwnLeaves(f) = 1
        BY <2>1, <2>2, <2>3, <2>4, <2>5, Zenon
      <3> QED
        BY <1>1, <1>5, <3>1 DEF f
    <2>6. CASE ~(f.scalars > 0 /\ f.containers = 0)
      <3>1. LeavesAfterEnd("array", Size(f)) = totalLeaves /\ OwnLeaves(f) = 0
        BY <2>1, <2>2, <2>3, <2>4, <2>6, Zenon
      <3> QED
        BY <1>1, <1>5, <3>1 DEF f
    <2> QED
      BY <2>5, <2>6
  <1>6. CASE f.kind = "object"
    <2>1. OwnLeaves(f) = f.scalars
      BY <1>6 DEF OwnLeaves
    <2>2. LeavesAfterEnd("object", Size(f)) = totalLeaves + Size(f) - f.containers
      BY <1>3 DEF LeavesAfterEnd
    <2> QED
      BY <1>1, <1>2, <1>6, <2>1, <2>2 DEF f
  <1> QED
    BY <1>2, <1>5, <1>6 DEF Kinds

LEMMA EndCounts ==
    ASSUME nest \in Seq(Frame), LimitsTypeOK, CountersInStep,
           NEW kind \in Kinds, ReadEnd(kind), EndCheck(kind, Size(Last(nest))),
           UNCHANGED configVars
    PROVE  /\ LimitsTypeOK' /\ CountersInStep'
           /\ maxLeaves # Unset =>
                  /\ totalLeaves' = totalLeaves + OwnLeaves(Last(nest))
                  /\ totalLeaves' <= maxLeaves
  <1>1. /\ nest # <<>> /\ Last(nest).kind = kind
        /\ nest' \in Seq(Frame) /\ Len(nest') = Len(nest) - 1
        /\ Len(nest) \in Nat \ {0}
        /\ nest' = <<>> <=> Len(nest) = 1
    BY ReadEndFacts DEF ReadEnd, AtRoot
  <1>2. /\ jsonDepth \in Nat /\ leavesStack \in Seq(Nat)
        /\ maxDepth' = maxDepth /\ maxLeaves' = maxLeaves
        /\ totalLeaves \in Nat
    BY DEF LimitsTypeOK, configVars
  <1>3. jsonDepth' = IF maxDepth = Unset THEN jsonDepth ELSE jsonDepth - 1
    BY DEF EndCheck, DepthAfterEnd
  <1>4. maxDepth # Unset => Len(nest) <= jsonDepth /\ Len(nest) <= maxDepth
    BY DEF CountersInStep
  <1>5. CASE maxLeaves = Unset
    <2>1. UNCHANGED <<lastLeafStat, totalLeaves, leavesStack>>
      BY <1>5 DEF EndCheck
    <2>2. LimitsTypeOK'
      BY <1>1, <1>2, <1>3, <1>4, <2>1 DEF LimitsTypeOK
    <2>3. maxDepth' # Unset => Len(nest') <= jsonDepth' /\ Len(nest') <= maxDepth'
      BY <1>1, <1>2, <1>3, <1>4, LimitValues
    <2> QED
      BY <1>2, <1>5, <2>2, <2>3 DEF CountersInStep
  <1>6. CASE maxLeaves # Unset
    <2>1. /\ totalLeaves' = totalLeaves + OwnLeaves(Last(nest))
          /\ totalLeaves' \in Nat
          /\ leavesStack' = PopLeaves(leavesStack)
          /\ lastLeafStat' = FALSE
      <3>1. /\ totalLeaves' = LeavesAfterEnd(kind, Size(Last(nest)))
            /\ leavesStack' = PopLeaves(leavesStack)
            /\ lastLeafStat' = FALSE
        BY <1>6 DEF EndCheck
      <3>2. /\ LeavesAfterEnd(kind, Size(Last(nest)))
                 = totalLeaves + OwnLeaves(Last(nest))
            /\ OwnLeaves(Last(nest)) \in Nat
        BY <1>1, <1>6, LeavesOfEnd
      <3> QED
        BY <1>2, <3>1, <3>2
    <2>2. totalLeaves' <= maxLeaves
      <3>1. ~(totalLeaves' > maxLeaves)
        BY <1>6 DEF EndCheck, TooManyLeaves
      <3>2. maxLeaves \in Nat
        BY <1>6, LimitValues
      <3> QED
        BY <2>1, <3>1, <3>2
    <2>3. Aligned(leavesStack, nest) /\ leavesStack # <<>>
      BY <1>1, <1>2, <1>6, AlignedLast DEF CountersInStep
    <2>4. leavesStack' \in Seq(Nat)
      BY <1>2, <2>1, <2>3, PopFacts
    <2>5. Aligned(leavesStack', nest')
      <3>1. Len(nest) > 1 =>
                /\ \A i \in 1..Len(nest) - 2 :
                       nest'[i].containers = nest[i].containers
                /\ nest'[Len(nest) - 1].containers
                       = nest[Len(nest) - 1].containers + 1
        BY ContainersAfterEnd
      <3>2. Len(nest) = 1 \/ Len(nest) > 1
        <4>1. \A n \in Nat \ {0} : n = 1 \/ n > 1
          OBVIOUS
        <4> QED
          BY <1>1, <4>1, Zenon
      <3>3. \A i \in 1..Len(nest) - 2 : nest'[i].containers = nest[i].containers
        BY <3>1, <3>2
      <3> QED
        BY <1>1, <1>2, <2>1, <2>3, <3>1, <3>3, AlignedPop
    <2>6. nest' # <<>> => ~FlatArray(Last(nest'))
      <3> SUFFICES ASSUME nest' # <<>> PROVE Last(nest').containers # 0
        BY DEF FlatArray
      <3>1. Len(nest) > 1
        <4>1. \A n \in Nat \ {0} : n # 1 => n > 1
          OBVIOUS
        <4> QED
          BY <1>1, <4>1, Zenon
      <3>2. Last(nest') = nest'[Len(nest) - 1]
        BY <1>1 DEF Last
      <3>3. nest[Len(nest) - 1] \in Frame
        BY <1>1, <3>1
      <3>4. nest[Len(nest) - 1].containers \in Nat
        BY <3>3 DEF Frame
      <3> QED
        BY <3>1, <3>2, <3>4, ContainersAfterEnd
    <2>7. LimitsTypeOK'
      <3>1. jsonDepth' \in Nat
        BY <1>1, <1>2, <1>3, <1>4
      <3> QED
        BY <1>2, <2>1, <2>4, <3>1 DEF LimitsTypeOK
    <2>8. maxDepth' # Unset => Len(nest') <= jsonDepth' /\ Len(nest') <= maxDepth'
      BY <1>1, <1>2, <1>3, <1>4, LimitValues
    <2>9. CountersInStep'
      BY <2>1, <2>5, <2>6, <2>8 DEF CountersInStep
    <2> QED
      BY <2>1, <2>2, <2>7, <2>9
  <1> QED
    BY <1>5, <1>6

(* A check that fails leaves the counters in their types.                   *)
LEMMA FailedCheckTypes ==
    ASSUME nest \in Seq(Frame), LimitsTypeOK, CountersInStep,
           UNCHANGED configVars,
           \/ StartCheckFails
           \/ /\ nest # <<>>
              /\ \E kind \in Kinds : EndCheckFails(kind, Size(Last(nest)))
    PROVE  LimitsTypeOK'
  <1>1. UNCHANGED <<maxDepth, maxLeaves, lastLeafStat, leavesStack>>
    BY DEF configVars, StartCheckFails, EndCheckFails
  <1>2. CASE StartCheckFails
    BY <1>1, <1>2 DEF StartCheckFails, LimitsTypeOK
  <1>3. CASE nest # <<>> /\ \E kind \in Kinds : EndCheckFails(kind, Size(Last(nest)))
    <2>1. totalLeaves' = 0 /\ jsonDepth' = DepthAfterEnd
      BY <1>3 DEF EndCheckFails
    <2>2. Len(nest) \in Nat \ {0} /\ jsonDepth \in Nat
      BY <1>3, FrontFacts DEF LimitsTypeOK
    <2>3. jsonDepth' \in Nat
      BY <2>1, <2>2 DEF DepthAfterEnd, CountersInStep
    <2> QED
      BY <1>1, <2>1, <2>3 DEF LimitsTypeOK
  <1> QED
    BY <1>2, <1>3
-------------------------------------------------------------------------------
(* When no text was broken off, the counter of the depth is exact.          *)
DepthFollows == jsonDepth = IF maxDepth = Unset THEN 0 ELSE Len(nest)

(* Scalars and keys open and end nothing.                                   *)
LEMMA ValueDepth ==
    ASSUME nest \in Seq(Frame), DepthFollows, UNCHANGED configVars,
           UNCHANGED counterVars, ReadScalar \/ \E k \in Keys : ReadKey(k)
    PROVE  DepthFollows'
  <1>1. maxDepth' = maxDepth /\ jsonDepth' = jsonDepth
    BY DEF configVars, counterVars
  <1>2. Len(nest') = Len(nest)
    <2>1. CASE ReadScalar /\ nest = <<>>
      BY <2>1 DEF ReadScalar, WithScalar
    <2> QED
      BY <2>1, ReadScalarFacts, ReadKeyFacts
  <1> QED
    BY <1>1, <1>2 DEF DepthFollows

LEMMA StartDepth ==
    ASSUME nest \in Seq(Frame), LimitsTypeOK, DepthFollows, UNCHANGED configVars,
           NEW kind \in Kinds, ReadStart(kind)
    PROVE  /\ StartCheck(kind) => DepthFollows'
           /\ StartCheckFails => Len(nest') > maxDepth'
  <1>1. /\ Len(nest') = Len(nest) + 1 /\ Len(nest) \in Nat
        /\ maxDepth' = maxDepth
    BY ReadStartFacts DEF configVars
  <1>2. CASE maxDepth = Unset
    BY <1>1, <1>2 DEF DepthFollows, StartCheck, StartCheckFails, TooDeep
  <1>3. CASE maxDepth # Unset
    <2>1. jsonDepth = Len(nest)
      BY <1>3 DEF DepthFollows
    <2>2. StartCheck(kind) => jsonDepth' = jsonDepth + 1
      BY <1>3 DEF StartCheck
    <2>3. StartCheckFails => jsonDepth + 1 > maxDepth
      BY DEF StartCheckFails, TooDeep
    <2> QED
      BY <1>1, <1>3, <2>1, <2>2, <2>3 DEF DepthFollows
  <1> QED
    BY <1>2, <1>3

LEMMA EndDepth ==
    ASSUME nest \in Seq(Frame), DepthFollows, UNCHANGED configVars,
           NEW kind \in Kinds, ReadEnd(kind), EndCheck(kind, Size(Last(nest)))
    PROVE  DepthFollows'
  <1>1. /\ Len(nest') = Len(nest) - 1 /\ maxDepth' = maxDepth
        /\ jsonDepth' = IF maxDepth = Unset THEN jsonDepth ELSE jsonDepth - 1
    BY ReadEndFacts DEF configVars, EndCheck, DepthAfterEnd
  <1> QED
    BY <1>1 DEF DepthFollows

(* In the first text of a handler the stack of leaves holds an entry for    *)
(* each open container, and no other.                                       *)
StackFollows == maxLeaves # Unset => Len(leavesStack) = Len(nest)

LEMMA ValueStack ==
    ASSUME nest \in Seq(Frame), StackFollows, UNCHANGED configVars,
           UNCHANGED counterVars, ReadScalar \/ \E k \in Keys : ReadKey(k)
    PROVE  StackFollows'
  <1>1. maxLeaves' = maxLeaves /\ leavesStack' = leavesStack
    BY DEF configVars, counterVars
  <1>2. Len(nest') = Len(nest)
    <2>1. CASE ReadScalar /\ nest = <<>>
      BY <2>1 DEF ReadScalar, WithScalar
    <2> QED
      BY <2>1, ReadScalarFacts, ReadKeyFacts
  <1> QED
    BY <1>1, <1>2 DEF StackFollows

LEMMA StartStack ==
    ASSUME nest \in Seq(Frame), LimitsTypeOK, StackFollows, UNCHANGED configVars,
           NEW kind \in Kinds, ReadStart(kind), StartCheck(kind)
    PROVE  StackFollows'
  <1>1. /\ Len(nest') = Len(nest) + 1 /\ maxLeaves' = maxLeaves
        /\ leavesStack \in Seq(Nat)
    BY ReadStartFacts DEF configVars, LimitsTypeOK
  <1>2. CASE maxLeaves = Unset
    BY <1>1, <1>2 DEF StackFollows
  <1>3. CASE maxLeaves # Unset
    <2>1. leavesStack' = Append(leavesStack, 0) /\ Len(leavesStack) = Len(nest)
      BY <1>3 DEF StartCheck, StackFollows
    <2>2. Len(leavesStack') = Len(leavesStack) + 1
      BY <1>1, <2>1, AppendFacts
    <2> QED
      BY <1>1, <2>1, <2>2 DEF StackFollows
  <1> QED
    BY <1>2, <1>3

LEMMA EndStack ==
    ASSUME nest \in Seq(Frame), LimitsTypeOK, CountersInStep, StackFollows,
           UNCHANGED configVars,
           NEW kind \in Kinds, ReadEnd(kind), EndCheck(kind, Size(Last(nest)))
    PROVE  StackFollows'
  <1>1. /\ Len(nest') = Len(nest) - 1 /\ maxLeaves' = maxLeaves /\ nest # <<>>
        /\ leavesStack \in Seq(Nat)
    BY ReadEndFacts DEF configVars, LimitsTypeOK
  <1>2. CASE maxLeaves = Unset
    BY <1>1, <1>2 DEF StackFollows
  <1>3. CASE maxLeaves # Unset
    <2>1. leavesStack' = PopLeaves(leavesStack) /\ Len(leavesStack) = Len(nest)
      BY <1>3 DEF EndCheck, StackFollows
    <2>2. leavesStack # <<>>
      BY <1>1, <1>3, AlignedLast DEF CountersInStep
    <2>3. Len(leavesStack') = Len(leavesStack) - 1
      BY <1>1, <2>1, <2>2, PopFacts
    <2> QED
      BY <1>1, <2>1, <2>3 DEF StackFollows
  <1> QED
    BY <1>2, <1>3

-------------------------------------------------------------------------------

(* The inductive invariant.  While the object is read, depth counts the     *)
(* open objects, so that it is 1 exactly for the keys of the object itself; *)
(* the pending key of the outermost frame names the current member; and     *)
(* that member's handler is as deep in its value as the text is, or else    *)
(* has been prepared for reuse in the middle of a repeated value.           *)
Target(k) == IF k \in Members /\ ~Ignored(k) THEN k ELSE NoKey

Routed ==
    nest[1].key # NoKey =>
        current_name = nest[1].key /\ current = Target(nest[1].key)

Repeated(m) == given[m] # <<>> /\ "AllowDuplicateKey" \in flags

PartsOpen ==
    \A m \in Members :
        IF m = current
        THEN /\ handler[m].open <= Len(nest) - 1
             /\ handler[m].open # Len(nest) - 1 => Repeated(m)
        ELSE handler[m].open = 0

ParsedWereGiven ==
    \A m \in Members : handler[m].parsed => given[m] # <<>> /\ ~Ignored(m)

(* No verdict yet: the flag parsed is that of the value that is repeated.    *)
NoVerdict == parsed = again /\ the_error = NoError /\ report = <<>>

Idle ==
    /\ nest = <<>> /\ depth = 0 /\ counted = 0
    /\ ~again => current = NoKey
    /\ NoVerdict /\ ParsedWereGiven
    /\ \A m \in Members : handler[m].open = 0

InObject ==
    /\ nest # <<>> /\ nest[1].kind = "object" /\ depth = Count(nest, "object")
    /\ NoVerdict /\ ParsedWereGiven
    /\ Routed /\ PartsOpen

Done ==
    /\ nest = <<>> /\ depth = 0
    /\ parsed = TRUE /\ the_error = NoError /\ report = <<>>
    /\ ParsedWereGiven /\ \A m \in Members : handler[m].open = 0
    /\ \A m \in Members : Required(m) => given[m] # <<>> /\ ~Ignored(m)

Broken ==
    /\ IF report = <<>> THEN the_error # NoError
       ELSE the_error = NoError /\ Last(report) # "OBJECT_MEMBER"
    /\ the_error.type = "OBJECT_MEMBER" => PartFailed

LeavesCounted == maxLeaves # Unset => counted <= totalLeaves

LeavesAllowed == maxLeaves # Unset => counted <= maxLeaves

Inv ==
    /\ MemberPending
    /\ phase = "ready" => Idle
    /\ phase = "reading" => /\ InObject /\ CountersInStep
                            /\ LeavesCounted /\ LeavesAllowed
    /\ phase = "complete" => Done /\ LeavesAllowed
    /\ phase = "failed" => Broken
-------------------------------------------------------------------------------
(* The history: given grows, and by the kind of the value when a member of  *)
(* the object is complete.                                                  *)
GivenType == given \in [Keys -> Seq(Kinds \cup {"scalar", "earlier"})]

LEMMA GivenFacts ==
    ASSUME nest \in Seq(Frame), nest' \in Seq(Frame), GivenType, RecordMember
    PROVE  /\ GivenType'
           /\ \A k \in Keys : given[k] # <<>> => given'[k] # <<>>
           /\ CompletesMember /\ phase' # "failed" => given'[nest[1].key] # <<>>
  <1> DEFINE S == Kinds \cup {"scalar", "earlier"}
             k == OpenMember
             v == Append(given[k], MemberKind)
  <1>1. CASE ~(CompletesMember /\ phase' # "failed")
    BY <1>1 DEF RecordMember, GivenType
  <1>2. CASE CompletesMember /\ phase' # "failed"
    <2>1. nest # <<>> /\ nest[1].key # NoKey /\ k = nest[1].key
      BY <1>2 DEF CompletesMember, OpenMember, AtRoot
    <2>2. nest[1] \in Frame /\ Len(nest) \in Nat \ {0}
      BY <2>1
    <2>3. k \in Keys
      BY <2>1, <2>2 DEF Frame
    <2>4. MemberKind \in S
      <3>1. CASE Len(nest) = 1
        BY <3>1 DEF MemberKind
      <3>2. CASE Len(nest) # 1
        <4>0. \A n \in Nat \ {0} : n # 1 => 2 \in 1..n
          OBVIOUS
        <4>1. 2 \in 1..Len(nest)
          BY <2>2, <3>2, <4>0, Zenon
        <4>2. nest[2] \in Frame
          BY <4>1
        <4> QED
          BY <3>2, <4>2 DEF MemberKind, Frame
      <3> QED
        BY <3>1, <3>2
    <2>5. given' = [given EXCEPT ![k] = v]
      BY <1>2 DEF RecordMember
    <2>6. given[k] \in Seq(S)
      BY <2>3 DEF GivenType
    <2> HIDE DEF k, S
    <2>7. v \in Seq(S) /\ v # <<>>
      BY <2>4, <2>6
    <2> HIDE DEF v
    <2>8. given' \in [Keys -> Seq(S)] /\ given'[k] = v
          /\ \A j \in Keys : j # k => given'[j] = given[j]
      BY <2>3, <2>5, <2>7 DEF GivenType, S
    <2> QED
      BY <2>1, <2>7, <2>8 DEF GivenType, S
  <1> QED
    BY <1>1, <1>2

LEMMA OwnLeavesType ==
    ASSUME NEW f \in Frame
    PROVE  OwnLeaves(f) \in Nat
  BY DEF OwnLeaves, Frame

LEMMA ErrorFacts ==
    ASSUME NEW type \in ErrorTypes, NEW names \in SUBSET (Keys \cup {NoKey})
    PROVE  /\ Error(type, names) \in [type: ErrorTypes,
                                      names: SUBSET (Keys \cup {NoKey})]
           /\ Error(type, names) # NoError
           /\ Error(type, names).type = type
           /\ Error(type, names).names = names
  BY DEF Error, NoError, ErrorTypes

(* The names that occur: members are keys, and NoKey is not one.            *)
LEMMA MemberNames ==
    /\ Members \subseteq Keys /\ NoKey \notin Members
    /\ \A k \in Keys \cup {NoKey} : Target(k) \in Members \cup {NoKey}
  BY MembersAssumption, NoKeyAssumption DEF Target

(* While the text is read, or before it, the phase is the reader's.         *)
LEMMA ActivePhase ==
    ASSUME Inv, Active
    PROVE  \/ phase = "ready" /\ Idle /\ nest = <<>>
           \/ /\ phase = "reading" /\ InObject /\ nest # <<>>
              /\ CountersInStep /\ LeavesCounted /\ LeavesAllowed
  BY DEF Active, Inv, Idle, InObject

LEMMA EmptyCounters ==
    ASSUME LimitsTypeOK, nest = <<>>
    PROVE  CountersInStep
  <1>1. /\ jsonDepth \in Nat /\ leavesStack \in Seq(Nat)
        /\ maxDepth # Unset => maxDepth \in Nat
    BY LimitValues DEF LimitsTypeOK
  <1>2. Len(nest) = 0 /\ Len(leavesStack) \in Nat
    BY <1>1
  <1>3. Aligned(leavesStack, nest)
    BY <1>2 DEF Aligned
  <1> QED
    BY <1>1, <1>2, <1>3 DEF CountersInStep

-------------------------------------------------------------------------------
(* What every event does to the reader and to the history, whatever the     *)
(* handler answers.                                                         *)
LEMMA EventReads ==
    ASSUME TypeOK, Inv, Event
    PROVE  /\ Active /\ Observe
           /\ nest' \in Seq(Frame) /\ MemberPending'
           /\ GivenType' /\ counted' \in Nat
           /\ flags' = flags /\ memberFlags' = memberFlags
           /\ report' = report /\ UNCHANGED configVars
           /\ uses' = uses /\ brokenOff' = brokenOff /\ again' = again
  <1>1. nest \in Seq(Frame) /\ MemberPending /\ "array" \in Kinds /\ "object" \in Kinds
    BY DEF TypeOK, ReaderTypeOK, Inv, Kinds
  <1>2. \/ ReadScalar \/ \E k \in Keys : ReadKey(k)
        \/ \E kind \in Kinds : ReadStart(kind) \/ ReadEnd(kind)
    BY <1>1 DEF Event, Scalar, StartArray, EndArray, StartObject, EndObject, Key
  <1>3. Active
    BY <1>2 DEF ReadScalar, ReadKey, ReadStart, ReadEnd, ValueExpected, KeyExpected
  <1>4. Observe
    BY DEF Event, Scalar, StartArray, EndArray, StartObject, EndObject, Key
  <1>5. nest' \in Seq(Frame)
    <2>1. CASE ReadScalar
      <3>1. nest = <<>> => nest' = <<>>
        BY <2>1 DEF ReadScalar, WithScalar
      <3> QED
        BY <1>1, <2>1, <3>1, ReadScalarFacts
    <2> QED
      BY <1>1, <1>2, <2>1, ReadKeyFacts, ReadStartFacts, ReadEndFacts
  <1>6. MemberPending'
    BY <1>1, <1>2, PendingKept
  <1>7. GivenType'
    BY <1>1, <1>4, <1>5, GivenFacts DEF Observe, GivenType, TypeOK
  <1>8. counted' \in Nat
    <2>1. counted \in Nat
      BY DEF TypeOK
    <2>2. CASE nest = <<>>
      <3>1. ~(Len(nest') < Len(nest))
        <4>1. Len(nest') \in Nat /\ Len(nest) = 0
          BY <1>5, <2>2
        <4> QED
          BY <4>1
      <3> QED
        BY <1>4, <2>1, <3>1 DEF Observe
    <2>3. CASE nest # <<>>
      <3>1. OwnLeaves(Last(nest)) \in Nat
        BY <1>1, <2>3, FrontFacts, OwnLeavesType
      <3> QED
        BY <1>4, <2>1, <3>1 DEF Observe
    <2> QED
      BY <2>2, <2>3
  <1> QED
    BY <1>3, <1>4, <1>5, <1>6, <1>7, <1>8 DEF Observe, objectVars
-------------------------------------------------------------------------------
(* The counters after an event the handler accepts.                         *)
LimitsKept ==
    /\ LimitsTypeOK'
    /\ phase' # "failed" => CountersInStep' /\ LeavesCounted' /\ LeavesAllowed'

LEMMA LimitsBefore ==
    ASSUME TypeOK, Inv, Event
    PROVE  /\ nest \in Seq(Frame) /\ LimitsTypeOK /\ CountersInStep
           /\ LeavesCounted /\ LeavesAllowed
           /\ UNCHANGED configVars /\ maxLeaves' = maxLeaves
           /\ counted \in Nat /\ totalLeaves \in Nat
           /\ nest = <<>> => depth = 0
  <1>1. /\ Active /\ UNCHANGED configVars /\ maxLeaves' = maxLeaves
        /\ nest \in Seq(Frame) /\ LimitsTypeOK
        /\ counted \in Nat /\ totalLeaves \in Nat
    BY EventReads DEF TypeOK, ReaderTypeOK, LimitsTypeOK, configVars
  <1>2. CASE phase = "ready" /\ Idle /\ nest = <<>>
    <2>1. counted = 0 /\ depth = 0
      BY <1>2 DEF Idle
    <2>2. LeavesCounted /\ LeavesAllowed
      BY <1>1, <2>1, LimitValues DEF LeavesCounted, LeavesAllowed
    <2> QED
      BY <1>1, <1>2, <2>1, <2>2, EmptyCounters
  <1>3. CASE /\ phase = "reading" /\ InObject /\ nest # <<>>
             /\ CountersInStep /\ LeavesCounted /\ LeavesAllowed
    BY <1>1, <1>3
  <1> QED
    BY <1>1, <1>2, <1>3, ActivePhase

LEMMA LeavesUncounted ==
    ASSUME LeavesCounted, LeavesAllowed, maxLeaves' = maxLeaves,
           totalLeaves' = totalLeaves, counted' = counted
    PROVE  LeavesCounted' /\ LeavesAllowed'
  BY DEF LeavesCounted, LeavesAllowed

LEMMA ValueLimits ==
    ASSUME TypeOK, Inv, Event, Scalar \/ \E k \in Keys : Key(k)
    PROVE  LimitsKept
  <1>1. /\ nest \in Seq(Frame) /\ LimitsTypeOK /\ CountersInStep
        /\ LeavesCounted /\ LeavesAllowed /\ UNCHANGED configVars
        /\ maxLeaves' = maxLeaves
        /\ nest = <<>> => depth = 0
    BY LimitsBefore
  <1>2. /\ UNCHANGED counterVars /\ Observe
        /\ ReadScalar \/ \E k \in Keys : ReadKey(k)
    BY DEF Scalar, Key
  <1>3. CASE nest = <<>>
    <2>1. Scalar /\ depth = 0
      BY <1>1, <1>3 DEF Key, ReadKey, KeyExpected, AtRoot
    <2>2. phase' = "failed"
      BY <2>1 DEF Scalar, PrecheckAndForward, Reject, Terminate
    <2>3. LimitsTypeOK'
      BY <1>1, <1>2 DEF LimitsTypeOK, counterVars, configVars
    <2> QED
      BY <2>2, <2>3 DEF LimitsKept
  <1>4. CASE nest # <<>>
    <2>1. LimitsTypeOK' /\ CountersInStep'
      BY <1>1, <1>2, <1>4, ValueKeepsCounters
    <2>2. counted' = counted
      <3>1. Len(nest') = Len(nest) /\ Len(nest) \in Nat
        BY <1>1, <1>2, <1>4, ReadScalarFacts, ReadKeyFacts
      <3>2. ~(Len(nest') < Len(nest))
        BY <3>1
      <3> QED
        BY <1>2, <3>2 DEF Observe
    <2>3. LeavesCounted' /\ LeavesAllowed'
      BY <1>1, <1>2, <2>2, LeavesUncounted DEF counterVars
    <2> QED
      BY <2>1, <2>3 DEF LimitsKept
  <1> QED
    BY <1>3, <1>4

LEMMA StartLimits ==
    ASSUME TypeOK, Inv, Event, StartArray \/ StartObject
    PROVE  LimitsKept
  <1>1. /\ nest \in Seq(Frame) /\ LimitsTypeOK /\ CountersInStep
        /\ LeavesCounted /\ LeavesAllowed /\ UNCHANGED configVars
        /\ maxLeaves' = maxLeaves
    BY LimitsBefore
  <1>2. PICK kind \in Kinds :
            /\ ReadStart(kind) /\ Observe
            /\ (StartCheckFails /\ phase' = "failed") \/ StartCheck(kind)
    BY DEF StartArray, StartObject, Kinds, Reject, Terminate
  <1>3. CASE StartCheckFails /\ phase' = "failed"
    BY <1>1, <1>3, FailedCheckTypes DEF LimitsKept
  <1>4. CASE StartCheck(kind)
    <2>1. LimitsTypeOK' /\ CountersInStep'
      BY <1>1, <1>2, <1>4, StartCounts
    <2>2. counted' = counted
      <3>1. Len(nest') = Len(nest) + 1 /\ Len(nest) \in Nat
        BY <1>1, <1>2, ReadStartFacts
      <3>2. ~(Len(nest') < Len(nest))
        BY <3>1
      <3> QED
        BY <1>2, <3>2 DEF Observe
    <2>3. LeavesCounted' /\ LeavesAllowed'
      BY <1>1, <1>4, <2>2, LeavesUncounted DEF StartCheck
    <2> QED
      BY <2>1, <2>3 DEF LimitsKept
  <1> QED
    BY <1>2, <1>3, <1>4

LEMMA EndLimits ==
    ASSUME TypeOK, Inv, Event, EndArray \/ EndObject
    PROVE  LimitsKept
  <1>1. /\ nest \in Seq(Frame) /\ LimitsTypeOK /\ CountersInStep
        /\ LeavesCounted /\ LeavesAllowed /\ UNCHANGED configVars
        /\ maxLeaves' = maxLeaves /\ counted \in Nat /\ totalLeaves \in Nat
    BY LimitsBefore
  <1>2. PICK kind \in Kinds :
            /\ ReadEnd(kind) /\ Observe
            /\ \/ EndCheckFails(kind, Size(Last(nest))) /\ phase' = "failed"
               \/ EndCheck(kind, Size(Last(nest)))
    BY DEF EndArray, EndObject, Kinds, Reject, Terminate
  <1>3. nest # <<>> /\ Len(nest') = Len(nest) - 1 /\ Len(nest) \in Nat
    BY <1>1, <1>2, ReadEndFacts
  <1>4. CASE EndCheckFails(kind, Size(Last(nest))) /\ phase' = "failed"
    BY <1>1, <1>3, <1>4, FailedCheckTypes DEF LimitsKept
  <1>5. CASE EndCheck(kind, Size(Last(nest)))
    <2>1. /\ LimitsTypeOK' /\ CountersInStep'
          /\ maxLeaves # Unset =>
                  /\ totalLeaves' = totalLeaves + OwnLeaves(Last(nest))
                  /\ totalLeaves' <= maxLeaves
      BY <1>1, <1>2, <1>5, EndCounts
    <2>2. counted' = counted + OwnLeaves(Last(nest))
      <3>1. Len(nest') < Len(nest)
        BY <1>3
      <3> QED
        BY <1>2, <3>1 DEF Observe
    <2>3. OwnLeaves(Last(nest)) \in Nat
      BY <1>1, <1>3, FrontFacts, OwnLeavesType
    <2>4. maxLeaves # Unset => counted' <= totalLeaves' /\ counted' <= maxLeaves
      <3> SUFFICES ASSUME maxLeaves # Unset
                   PROVE  counted' <= totalLeaves' /\ counted' <= maxLeaves
        OBVIOUS
      <3>1. maxLeaves \in Nat
        BY <1>1, LimitValues
      <3>2. counted <= totalLeaves
        BY <1>1 DEF LeavesCounted
      <3> QED
        BY <1>1, <2>1, <2>2, <2>3, <3>1, <3>2
    <2> QED
      BY <1>1, <2>1, <2>4 DEF LimitsKept, LeavesCounted, LeavesAllowed
  <1> QED
    BY <1>2, <1>4, <1>5

LEMMA EventLimits ==
    ASSUME TypeOK, Inv, Event
    PROVE  LimitsKept
  BY ValueLimits, StartLimits, EndLimits DEF Event
-------------------------------------------------------------------------------
(* What has to be shown of an event, beside the reader, the history and the *)
(* limits.                                                                  *)
AnyError == [type: ErrorTypes, names: SUBSET (Keys \cup {NoKey})] \cup {NoError}

Kept ==
    /\ handler' \in [Members -> Part]
    /\ current' \in Members \cup {NoKey} /\ current_name' \in Keys \cup {NoKey}
    /\ depth' \in Nat /\ parsed' \in BOOLEAN /\ the_error' \in AnyError
    /\ phase' \in {"reading", "complete", "failed"}
    /\ phase' = "reading" => InObject'
    /\ phase' = "complete" => Done'
    /\ phase' = "failed" => Broken'

(* An event is one of five: an error of the object itself; the object's     *)
(* begin, its end, or a key of its own; or an event of a member's value.    *)
Refuses ==
    /\ phase' = "failed" /\ the_error' \in AnyError \ {NoError}
    /\ the_error'.type # "OBJECT_MEMBER"
    /\ the_error'.type = "DUPLICATE_KEYS" => the_error'.names = {OpenMember}
    /\ parsed' = parsed /\ report' = <<>> /\ depth' \in Nat /\ handler' = handler
    /\ current' \in Members \cup {NoKey} /\ current_name' \in Keys \cup {NoKey}

Begins ==
    /\ Idle /\ Return /\ RecordMember
    /\ UNCHANGED <<handler, current, current_name, parsed, flags, memberFlags, report, again>>
    /\ nest' \in Seq(Frame) /\ Len(nest') = 1
    /\ nest'[1].kind = "object" /\ nest'[1].key = NoKey
    /\ depth' = 1 /\ Count(nest', "object") = 1

LooksUp ==
    /\ InObject /\ Return /\ RecordMember
    /\ UNCHANGED <<handler, parsed, flags, memberFlags, report, again>>
    /\ Len(nest) = 1 /\ nest' \in Seq(Frame) /\ Len(nest') = 1
    /\ nest'[1].kind = "object" /\ nest'[1].key \in Keys
    /\ current_name' = nest'[1].key /\ current' = Target(nest'[1].key)
    /\ depth' = Count(nest', "object")

Ends ==
    /\ InObject /\ Missing = {} /\ Return /\ RecordMember
    /\ UNCHANGED <<handler, current, current_name, flags, memberFlags, report, again>>
    /\ Len(nest) = 1 /\ nest' = <<>> /\ parsed' = TRUE /\ depth' = 0

(* The handler an event of a member's value is given to: as it is, or       *)
(* prepared for reuse by precheck.                                          *)
PartAt(part) ==
    /\ part \in Part
    /\ \/ part = handler[current]
       \/ /\ part = Fresh /\ handler[current].parsed
          /\ "AllowDuplicateKey" \in flags

Moves(event, from, to) ==
    \/ event = "scalar" /\ to = from
    \/ event = "key" /\ from > 1 /\ to = from
    \/ event = "start" /\ to = from + 1
    \/ event = "end" /\ from > 1 /\ to = from - 1

MemberEvent(part, event) ==
    /\ InObject
    /\ current # NoKey => PartAt(part)
    /\ Forward(part, event) /\ RecordMember
    /\ UNCHANGED <<current, current_name, parsed, flags, memberFlags, report, again>>
    /\ nest' \in Seq(Frame) /\ nest' # <<>> /\ nest'[1].kind = "object"
    /\ depth' = Count(nest', "object")
    /\ nest[1].key # NoKey
    /\ nest'[1].key = IF Len(nest') = 1 THEN NoKey ELSE nest[1].key
    /\ event \in Events /\ Moves(event, Len(nest), Len(nest'))

LEMMA OpenArithmetic ==
    ASSUME NEW part \in Part, NEW event \in Events,
           NEW from \in Nat \ {0}, NEW to \in Nat \ {0}, Moves(event, from, to),
           part.open <= from - 1
    PROVE  /\ OpenAfter(part, event) \in Nat
           /\ OpenAfter(part, event) <= to - 1
           /\ part.open = from - 1 =>
                  /\ Fits(part, event)
                  /\ OpenAfter(part, event) = to - 1
  <1>1. part.open \in Nat
    BY DEF Part
  <1>2. CASE event = "scalar"
    BY <1>1, <1>2 DEF Moves, OpenAfter, Fits
  <1>3. CASE event = "key"
    BY <1>1, <1>3 DEF Moves, OpenAfter, Fits
  <1>4. CASE event = "start"
    BY <1>1, <1>4 DEF Moves, OpenAfter, Fits
  <1>5. CASE event = "end"
    BY <1>1, <1>5 DEF Moves, OpenAfter, Fits
  <1> QED
    BY <1>2, <1>3, <1>4, <1>5 DEF Events

(* The three outcomes of POSTCHECK.                                         *)
LEMMA ForwardOutcome ==
    ASSUME handler \in [Members -> Part], current \in Members \cup {NoKey},
           NEW part \in Part, NEW event \in Events, Forward(part, event),
           current # NoKey
    PROVE  /\ \A m \in Members : m # current => handler'[m] = handler[m]
           /\ handler' = [handler EXCEPT ![current] = handler'[current]]
           /\ \/ /\ handler'[current] \in Rejected(part, event)
                 /\ handler' \in [Members -> Part] /\ handler'[current].error
                 /\ Reject(Error("OBJECT_MEMBER", {current_name}))
              \/ /\ handler'[current] \in Accepted(part, event) /\ Return
  <1>1. PICK response \in Responses(part, event) :
            /\ handler' = [handler EXCEPT ![current] = response]
            /\ IF response.error
               THEN Reject(Error("OBJECT_MEMBER", {current_name}))
               ELSE Return
    BY DEF Forward
  <1>2. current \in Members
    OBVIOUS
  <1>3. /\ handler'[current] = response
        /\ handler' = [handler EXCEPT ![current] = handler'[current]]
        /\ \A m \in Members : m # current => handler'[m] = handler[m]
    BY <1>1, <1>2
  <1>4. CASE response \in Rejected(part, event)
    <2>0. OpenAfter(part, event) \in Nat
      <3>1. part.open \in Nat
        BY DEF Part
      <3> QED
        BY <3>1 DEF OpenAfter
    <2>1. response \in Part /\ response.error
      BY <1>4, <2>0, RejectedFacts
    <2>2. handler' \in [Members -> Part]
      BY <1>1, <1>2, <2>1
    <2> QED
      BY <1>1, <1>3, <1>4, <2>1, <2>2
  <1>5. CASE response \in Accepted(part, event)
    <2>1. ~response.error
      BY <1>5 DEF Accepted
    <2> QED
      BY <1>1, <1>3, <1>5, <2>1
  <1> QED
    BY <1>4, <1>5 DEF Responses

(* An event of a member's value: the member fails and is still the one the  *)
(* errors are reaped from; or it is as deep in its value as the text is, and*)
(* parsed only if its value is now given.                                   *)
LEMMA MemberEventStep ==
    ASSUME TypeOK, Inv, NEW part, NEW event, MemberEvent(part, event)
    PROVE  Kept
  <1>1. /\ InObject /\ Forward(part, event) /\ RecordMember
        /\ current' = current /\ current_name' = current_name
        /\ parsed' = again' /\ parsed' \in BOOLEAN /\ flags' = flags /\ memberFlags' = memberFlags
        /\ report' = <<>> /\ the_error = NoError
        /\ nest' \in Seq(Frame) /\ nest' # <<>> /\ nest'[1].kind = "object"
        /\ depth' = Count(nest', "object") /\ depth' \in Nat
        /\ nest[1].key # NoKey
        /\ nest'[1].key = IF Len(nest') = 1 THEN NoKey ELSE nest[1].key
        /\ event \in Events /\ Moves(event, Len(nest), Len(nest'))
        /\ nest \in Seq(Frame) /\ nest # <<>>
        /\ Len(nest) \in Nat \ {0} /\ Len(nest') \in Nat \ {0}
    BY CountFinite, FrontFacts
       DEF MemberEvent, InObject, NoVerdict, TypeOK, ReaderTypeOK
  <1>2. /\ handler \in [Members -> Part] /\ GivenType
        /\ current \in Members \cup {NoKey}
        /\ current_name \in Keys \cup {NoKey}
        /\ NoKey \notin Members /\ Members \subseteq Keys
        /\ NoError \in AnyError
    BY MemberNames DEF TypeOK, GivenType, AnyError
  <1>3. current_name = nest[1].key /\ current = Target(nest[1].key)
    BY <1>1 DEF InObject, Routed
  <1>4. Accept => phase' = "reading"
    BY <1>1 DEF Accept
  <1>5. /\ \A k \in Keys : given[k] # <<>> => given'[k] # <<>>
        /\ CompletesMember /\ phase' # "failed" => given'[nest[1].key] # <<>>
    BY <1>1, <1>2, GivenFacts
  <1>6. Routed'
    BY <1>1, <1>3 DEF Routed, Target, Ignored
  <1>7. CASE current = NoKey
    <2>1. Return /\ handler' = handler
      BY <1>1, <1>7 DEF Forward
    <2>2. ParsedWereGiven'
      BY <1>1, <1>2, <1>5, <2>1 DEF InObject, ParsedWereGiven, Ignored
    <2>3. PartsOpen'
      BY <1>1, <1>2, <1>7, <2>1 DEF InObject, PartsOpen
    <2>4. InObject'
      BY <1>1, <1>6, <2>1, <2>2, <2>3 DEF InObject, NoVerdict, Return
    <2>5. phase' = "reading"
      BY <1>4, <2>1 DEF Return
    <2>6. the_error' \in AnyError
      BY <1>1, <1>2, <2>1 DEF Return
    <2> QED
      BY <1>1, <1>2, <2>1, <2>4, <2>5, <2>6 DEF Kept
  <1>8. CASE current # NoKey
    <2>0. /\ current \in Members /\ PartAt(part) /\ part \in Part
          /\ current = nest[1].key /\ ~Ignored(current) /\ current \in Keys
      BY <1>2, <1>3, <1>8 DEF MemberEvent, PartAt, Target
    <2>1. /\ \A m \in Members : m # current => handler'[m] = handler[m]
          /\ handler' = [handler EXCEPT ![current] = handler'[current]]
      BY <1>1, <1>2, <1>8, <2>0, ForwardOutcome
    <2>2. CASE /\ handler'[current] \in Rejected(part, event)
               /\ handler' \in [Members -> Part] /\ handler'[current].error
               /\ Reject(Error("OBJECT_MEMBER", {current_name}))
      <3>1. /\ Error("OBJECT_MEMBER", {current_name}) \in AnyError
            /\ Error("OBJECT_MEMBER", {current_name}) # NoError
        BY <1>2, ErrorFacts DEF ErrorTypes, AnyError
      <3>2. phase' = "failed" /\ the_error' = Error("OBJECT_MEMBER", {current_name})
        BY <2>2 DEF Reject, Terminate
      <3>3. PartFailed'
        BY <1>1, <1>8, <2>2 DEF PartFailed
      <3>4. Broken'
        BY <1>1, <3>1, <3>2, <3>3 DEF Broken
      <3> QED
        BY <1>1, <1>2, <2>2, <3>1, <3>2, <3>4 DEF Kept
    <2>3. CASE handler'[current] \in Accepted(part, event) /\ Return
      <3>0. phase' = "reading" /\ the_error' = NoError /\ the_error' \in AnyError
        BY <1>1, <1>2, <1>4, <2>3 DEF Return
      <3>1. PICK p \in ParsedAfter(part, event) :
                handler'[current] = [open |-> OpenAfter(part, event),
                                     parsed |-> p, error |-> FALSE]
        BY <2>3 DEF Accepted
      <3>2. /\ handler'[current].open = OpenAfter(part, event)
            /\ handler'[current].parsed = p
        BY <3>1
      <3>3. part.open \in Nat /\ part.open <= Len(nest) - 1
        <4>1. CASE part = handler[current]
          BY <1>1, <1>2, <2>0, <4>1 DEF InObject, PartsOpen, Part
        <4>2. CASE part = Fresh
          <5>1. part.open = 0
            BY <4>2 DEF Fresh
          <5> QED
            BY <1>1, <5>1
        <4> QED
          BY <2>0, <4>1, <4>2 DEF PartAt
      <3>4. part.open # Len(nest) - 1 => Repeated(current)
        <4>1. CASE part = handler[current]
          BY <1>1, <2>0, <4>1 DEF InObject, PartsOpen
        <4>2. CASE handler[current].parsed /\ "AllowDuplicateKey" \in flags
          BY <1>1, <2>0, <4>2 DEF InObject, ParsedWereGiven, Repeated
        <4> QED
          BY <2>0, <4>1, <4>2 DEF PartAt
      <3>5. part.parsed => given[current] # <<>>
        <4>1. CASE part = handler[current]
          BY <1>1, <2>0, <4>1 DEF InObject, ParsedWereGiven
        <4>2. CASE part = Fresh
          BY <4>2 DEF Fresh
        <4> QED
          BY <2>0, <4>1, <4>2 DEF PartAt
      <3>6. /\ OpenAfter(part, event) \in Nat
            /\ OpenAfter(part, event) <= Len(nest') - 1
            /\ part.open = Len(nest) - 1 =>
                  /\ Fits(part, event)
                  /\ OpenAfter(part, event) = Len(nest') - 1
        BY <1>1, <2>0, <3>3, OpenArithmetic
      <3>7. p \in BOOLEAN
        BY <2>0, <3>1 DEF ParsedAfter, Part
      <3>8. handler' \in [Members -> Part]
        <4>1. handler'[current] \in Part
          BY <3>1, <3>6, <3>7 DEF Part
        <4> QED
          BY <1>2, <2>0, <2>1, <4>1
      <3>9. p => given'[current] # <<>>
        <4> SUFFICES ASSUME p PROVE given'[current] # <<>>
          OBVIOUS
        <4>1. CASE given[current] # <<>>
          BY <1>5, <2>0, <4>1
        <4>2. CASE given[current] = <<>>
          <5>1. part.open = Len(nest) - 1 /\ part.parsed = FALSE
            BY <2>0, <3>4, <3>5, <4>2 DEF Repeated, Part
          <5>2. Fits(part, event) /\ OpenAfter(part, event) = Len(nest') - 1
            BY <3>6, <5>1
          <5>3. OpenAfter(part, event) = 0
            BY <3>1, <5>1, <5>2 DEF ParsedAfter
          <5>4. Len(nest') = 1
            <6>1. Len(nest') - 1 = 0 /\ Len(nest') \in Nat \ {0}
              BY <1>1, <5>2, <5>3, Zenon
            <6>2. \A n \in Nat \ {0} : n - 1 = 0 => n = 1
              OBVIOUS
            <6> QED
              BY <6>1, <6>2, Zenon
          <5>5. CompletesMember
            BY <1>1, <5>4 DEF CompletesMember, AtRoot
          <5> QED
            BY <1>5, <2>0, <3>0, <5>5
        <4> QED
          BY <4>1, <4>2
      <3>10. ParsedWereGiven'
        <4> SUFFICES ASSUME NEW m \in Members, handler'[m].parsed
                     PROVE  given'[m] # <<>> /\ ~Ignored(m)'
          BY DEF ParsedWereGiven
        <4>1. CASE m = current
          BY <1>1, <2>0, <3>2, <3>9, <4>1 DEF Ignored
        <4>2. CASE m # current
          BY <1>1, <1>2, <1>5, <2>1, <4>2 DEF Ignored, InObject, ParsedWereGiven
        <4> QED
          BY <4>1, <4>2
      <3>11. PartsOpen'
        <4> SUFFICES ASSUME NEW m \in Members
                     PROVE  IF m = current
                            THEN /\ handler'[m].open <= Len(nest') - 1
                                 /\ handler'[m].open # Len(nest') - 1 =>
                                        Repeated(m)'
                            ELSE handler'[m].open = 0
          BY <1>1 DEF PartsOpen
        <4>1. CASE m = current
          <5>1. handler'[m].open # Len(nest') - 1 => Repeated(m)
            BY <3>2, <3>4, <3>6, <4>1
          <5>2. Repeated(m) => Repeated(m)'
            BY <1>1, <1>2, <1>5 DEF Repeated
          <5> QED
            BY <3>2, <3>6, <4>1, <5>1, <5>2
        <4>2. CASE m # current
          BY <1>1, <2>1, <4>2 DEF InObject, PartsOpen
        <4> QED
          BY <4>1, <4>2
      <3>12. InObject'
        BY <1>1, <1>6, <3>0, <3>10, <3>11 DEF InObject, NoVerdict
      <3> QED
        BY <1>1, <1>2, <3>0, <3>8, <3>12 DEF Kept
    <2> QED
      BY <1>1, <1>2, <1>8, <2>0, <2>2, <2>3, ForwardOutcome
  <1> QED
    BY <1>7, <1>8

LEMMA RefusesStep == ASSUME TypeOK, Refuses PROVE Kept
  <1>1. the_error' \in AnyError /\ the_error' # NoError
    BY DEF Refuses
  <1>2. Broken'
    BY <1>1 DEF Refuses, Broken
  <1>3. handler' \in [Members -> Part] /\ parsed' \in BOOLEAN
    BY DEF TypeOK, Refuses
  <1> QED
    BY <1>1, <1>2, <1>3 DEF Refuses, Kept

LEMMA BeginsStep ==
    ASSUME TypeOK, Begins
    PROVE  Kept
  <1>0. handler \in [Members -> Part] /\ handler' = handler
    BY DEF TypeOK, Begins
  <1>1. /\ Idle /\ Return /\ RecordMember
        /\ UNCHANGED <<current, current_name, parsed, again, flags, memberFlags,
                       report>>
        /\ nest' \in Seq(Frame) /\ Len(nest') = 1 /\ nest' # <<>>
        /\ nest'[1].kind = "object" /\ nest'[1].key = NoKey
        /\ depth' = 1 /\ Count(nest', "object") = 1
    <2>1. Len(nest') = 1 => nest' # <<>>
      OBVIOUS
    <2> QED
      BY <2>1 DEF Begins
  <1>2. /\ GivenType /\ nest \in Seq(Frame)
        /\ current \in Members \cup {NoKey} /\ current_name \in Keys \cup {NoKey}
        /\ NoKey \notin Members /\ Members \subseteq Keys /\ NoError \in AnyError
    BY MemberNames DEF TypeOK, ReaderTypeOK, GivenType, AnyError
  <1>3. /\ phase' = "reading" /\ the_error' = NoError /\ parsed' = again'
        /\ parsed' \in BOOLEAN
    BY <1>1 DEF Return, Accept, Idle, NoVerdict, TypeOK
  <1>4. \A k \in Keys : given[k] # <<>> => given'[k] # <<>>
    BY <1>1, <1>2, GivenFacts
  <1>5. ParsedWereGiven'
    BY <1>0, <1>1, <1>2, <1>4 DEF Idle, ParsedWereGiven, Ignored
  <1>6. PartsOpen'
    BY <1>0, <1>1, <1>2 DEF Idle, PartsOpen
  <1>7. InObject'
    BY <1>1, <1>3, <1>5, <1>6 DEF Idle, InObject, NoVerdict, Routed
  <1> QED
    BY <1>0, <1>1, <1>2, <1>3, <1>7 DEF Kept

(* Between two members, and at the end, no part is in the middle of its     *)
(* value, whichever was current.                                            *)
LEMMA NoPartOpen ==
    ASSUME TypeOK, InObject, Len(nest) = 1
    PROVE  \A m \in Members : handler[m].open = 0
  <1> SUFFICES ASSUME NEW m \in Members PROVE handler[m].open = 0
    OBVIOUS
  <1>1. handler[m].open \in Nat
    BY DEF TypeOK, Part
  <1>2. handler[m].open = 0 \/ handler[m].open <= Len(nest) - 1
    BY DEF InObject, PartsOpen
  <1> QED
    BY <1>1, <1>2

LEMMA LooksUpStep ==
    ASSUME TypeOK, LooksUp
    PROVE  Kept
  <1>1. /\ InObject /\ Return /\ RecordMember
        /\ handler' = handler /\ parsed' = parsed /\ again' = again
        /\ flags' = flags /\ memberFlags' = memberFlags /\ report' = report
        /\ Len(nest) = 1 /\ nest' \in Seq(Frame) /\ Len(nest') = 1 /\ nest' # <<>>
        /\ nest'[1].kind = "object" /\ nest'[1].key \in Keys
        /\ current_name' = nest'[1].key /\ current' = Target(nest'[1].key)
        /\ depth' = Count(nest', "object")
    <2>1. Len(nest') = 1 => nest' # <<>>
      OBVIOUS
    <2> QED
      BY <2>1 DEF LooksUp
  <1>2. /\ GivenType /\ nest \in Seq(Frame) /\ handler \in [Members -> Part]
        /\ NoKey \notin Members /\ Members \subseteq Keys /\ NoError \in AnyError
        /\ current' \in Members \cup {NoKey}
    BY <1>1, MemberNames DEF TypeOK, ReaderTypeOK, GivenType, AnyError
  <1>3. /\ phase' = "reading" /\ the_error' = NoError /\ parsed' = again'
        /\ parsed' \in BOOLEAN
    BY <1>1 DEF Return, Accept, InObject, NoVerdict, TypeOK
  <1>4. \A k \in Keys : given[k] # <<>> => given'[k] # <<>>
    BY <1>1, <1>2, GivenFacts
  <1>5. ParsedWereGiven'
    BY <1>1, <1>2, <1>4 DEF InObject, ParsedWereGiven, Ignored
  <1>6. \A m \in Members : handler[m].open = 0
    BY <1>1, NoPartOpen
  <1>7. PartsOpen'
    BY <1>1, <1>6 DEF PartsOpen
  <1>8. Routed'
    BY <1>1 DEF Routed, Target, Ignored
  <1>9. depth' \in Nat
    BY <1>1, CountFinite
  <1>10. InObject'
    BY <1>1, <1>3, <1>5, <1>7, <1>8 DEF InObject, NoVerdict
  <1> QED
    BY <1>1, <1>2, <1>3, <1>9, <1>10 DEF Kept

LEMMA EndsStep ==
    ASSUME TypeOK, Ends
    PROVE  Kept
  <1>1. /\ InObject /\ Missing = {} /\ Return /\ RecordMember
        /\ handler' = handler /\ current' = current
        /\ current_name' = current_name /\ memberFlags' = memberFlags
        /\ report' = report
        /\ nest' = <<>> /\ parsed' = TRUE /\ depth' = 0 /\ Len(nest) = 1
    BY DEF Ends
  <1>2. /\ GivenType /\ nest \in Seq(Frame) /\ nest' \in Seq(Frame)
        /\ handler \in [Members -> Part]
        /\ current \in Members \cup {NoKey} /\ current_name \in Keys \cup {NoKey}
        /\ Members \subseteq Keys /\ NoError \in AnyError
    BY <1>1, MemberNames DEF TypeOK, ReaderTypeOK, GivenType, AnyError
  <1>3. phase' = "complete" /\ the_error' = NoError
    BY <1>1 DEF Return, Accept, InObject, NoVerdict
  <1>4. \A k \in Keys : given[k] # <<>> => given'[k] # <<>>
    BY <1>1, <1>2, GivenFacts
  <1>5. \A m \in Members : Required(m)' =>
            given'[m] # <<>> /\ ~Ignored(m)'
    BY <1>1, <1>2, <1>4
       DEF Missing, Required, Ignored, InObject, ParsedWereGiven
  <1>6. ParsedWereGiven' /\ \A m \in Members : handler'[m].open = 0
    <2>1. \A m \in Members : handler'[m].open = 0
      BY <1>1, NoPartOpen
    <2>2. ParsedWereGiven'
      BY <1>1, <1>2, <1>4 DEF InObject, ParsedWereGiven, Ignored
    <2> QED
      BY <2>1, <2>2
  <1>7. Done'
    BY <1>1, <1>3, <1>5, <1>6 DEF Done, InObject, NoVerdict
  <1> QED
    BY <1>1, <1>2, <1>3, <1>7 DEF Kept

-------------------------------------------------------------------------------
(* The frames before and after an event that belongs to a member's value.   *)
WithinMember(event) ==
    /\ nest' \in Seq(Frame) /\ nest' # <<>> /\ nest'[1].kind = "object"
    /\ nest[1].key # NoKey
    /\ nest'[1].key = IF Len(nest') = 1 THEN NoKey ELSE nest[1].key
    /\ event \in Events /\ Moves(event, Len(nest), Len(nest'))

LEMMA OneOrMore == \A n \in Nat \ {0} : n = 1 \/ (n > 1 /\ 1 \in 1..n - 1)
  OBVIOUS

LEMMA ScalarFrame ==
    ASSUME nest \in Seq(Frame), nest # <<>>, nest[1].kind = "object",
           MemberPending, ReadScalar
    PROVE  WithinMember("scalar") /\ Count(nest', "object") = Count(nest, "object")
  <1>1. /\ nest' \in Seq(Frame) /\ nest' # <<>> /\ Len(nest') = Len(nest)
        /\ \A i \in 1..Len(nest) - 1 : nest'[i] = nest[i]
        /\ nest'[1].kind = nest[1].kind
        /\ \A kind : Count(nest', kind) = Count(nest, kind)
        /\ nest'[Len(nest)].key = NoKey
    BY ReadScalarFacts
  <1>2. nest[1].key # NoKey
    BY ValueIsPending
  <1>3. Len(nest) = 1 \/ (Len(nest) > 1 /\ 1 \in 1..Len(nest) - 1)
    BY FrontFacts, OneOrMore
  <1>4. nest'[1].key = IF Len(nest') = 1 THEN NoKey ELSE nest[1].key
    BY <1>1, <1>3
  <1> QED
    BY <1>1, <1>2, <1>4 DEF WithinMember, Moves, Events

LEMMA KeyFrame ==
    ASSUME nest \in Seq(Frame), nest # <<>>, nest[1].kind = "object",
           MemberPending, NEW k \in Keys, ReadKey(k), Len(nest) # 1
    PROVE  WithinMember("key") /\ Count(nest', "object") = Count(nest, "object")
  <1>1. /\ nest' \in Seq(Frame) /\ nest' # <<>> /\ Len(nest') = Len(nest)
        /\ \A i \in 1..Len(nest) - 1 : nest'[i] = nest[i]
        /\ \A kind : Count(nest', kind) = Count(nest, kind)
    BY ReadKeyFacts
  <1>2. Len(nest) > 1 /\ 1 \in 1..Len(nest) - 1
    BY FrontFacts, OneOrMore
  <1>3. nest[1].key # NoKey
    BY <1>2, ValueIsPending
  <1> QED
    BY <1>1, <1>2, <1>3 DEF WithinMember, Moves, Events

LEMMA StartFrame ==
    ASSUME nest \in Seq(Frame), nest # <<>>, nest[1].kind = "object",
           MemberPending, NEW kind \in Kinds, ReadStart(kind)
    PROVE  /\ WithinMember("start")
           /\ Count(nest', "object")
                = Count(nest, "object") + (IF kind = "object" THEN 1 ELSE 0)
  <1>1. /\ nest' \in Seq(Frame) /\ nest' # <<>> /\ Len(nest') = Len(nest) + 1
        /\ \A i \in 1..Len(nest) : nest'[i] = nest[i]
        /\ Count(nest', "object")
             = Count(nest, "object") + (IF kind = "object" THEN 1 ELSE 0)
    BY ReadStartFacts
  <1>2. nest[1].key # NoKey
    BY ValueIsPending
  <1>3. 1 \in 1..Len(nest) /\ Len(nest) + 1 # 1
    <2>1. \A n \in Nat \ {0} : 1 \in 1..n /\ n + 1 # 1
      OBVIOUS
    <2> QED
      BY <2>1, FrontFacts
  <1>4. nest'[1] = nest[1] /\ Len(nest') # 1
    BY <1>1, <1>3
  <1> QED
    BY <1>1, <1>2, <1>4 DEF WithinMember, Moves, Events

LEMMA EndFrame ==
    ASSUME nest \in Seq(Frame), nest # <<>>, nest[1].kind = "object",
           MemberPending, NEW kind \in Kinds, ReadEnd(kind), Len(nest) # 1
    PROVE  /\ WithinMember("end")
           /\ Count(nest', "object")
                = Count(nest, "object") - (IF kind = "object" THEN 1 ELSE 0)
  <1>1. /\ nest' \in Seq(Frame) /\ Len(nest') = Len(nest) - 1 /\ nest' # <<>>
        /\ \A i \in 1..Len(nest) - 2 : nest'[i] = nest[i]
        /\ Len(nest) > 1 =>
                /\ nest'[1].kind = nest[1].kind
                /\ nest'[Len(nest) - 1].key = NoKey
        /\ Count(nest', "object")
             = Count(nest, "object") - (IF kind = "object" THEN 1 ELSE 0)
    BY ReadEndFacts
  <1>2. Len(nest) > 1 /\ Len(nest) \in Nat \ {0}
    BY FrontFacts, OneOrMore
  <1>3. nest[1].key # NoKey
    BY <1>2, ValueIsPending
  <1>4. nest'[1].key = IF Len(nest') = 1 THEN NoKey ELSE nest[1].key
    <2>1. \A n \in Nat \ {0} : n - 1 = 1 \/ n = 1 \/ (n - 1 # 1 /\ 1 \in 1..n - 2)
      OBVIOUS
    <2>2. CASE Len(nest) - 1 = 1
      BY <1>1, <1>2, <2>2
    <2>3. CASE Len(nest) - 1 # 1 /\ 1 \in 1..Len(nest) - 2
      BY <1>1, <2>3
    <2> QED
      BY <1>2, <2>1, <2>2, <2>3
  <1> QED
    BY <1>1, <1>2, <1>3, <1>4 DEF WithinMember, Moves, Events

(* depth is 1 exactly for the object itself.                                *)
LEMMA DepthFacts ==
    ASSUME TypeOK, InObject
    PROVE  /\ nest \in Seq(Frame) /\ nest # <<>> /\ nest[1].kind = "object"
           /\ Len(nest) \in Nat \ {0} /\ depth \in Nat /\ depth >= 1
           /\ ~(depth <= 0) /\ depth > 0
           /\ Last(nest).kind = "object" => (depth = 1 <=> Len(nest) = 1)
           /\ parsed = again /\ report = <<>> /\ the_error = NoError
           /\ current \in Members \cup {NoKey} /\ current_name \in Keys \cup {NoKey}
           /\ handler \in [Members -> Part]
           /\ Count(nest, "object") = depth
  <1>1. nest \in Seq(Frame) /\ nest # <<>> /\ nest[1].kind = "object"
    BY DEF TypeOK, ReaderTypeOK, InObject
  <1>2. /\ Count(nest, "object") >= 1
        /\ Last(nest).kind = "object" => (Count(nest, "object") = 1 <=> Len(nest) = 1)
        /\ Count(nest, "object") \in Nat /\ Len(nest) \in Nat \ {0}
    BY <1>1, CountOne, CountFinite, FrontFacts
  <1> QED
    BY <1>1, <1>2 DEF InObject, NoVerdict, TypeOK

-------------------------------------------------------------------------------
(* Which of the five the events are.                                        *)
SomeMemberEvent == \E part \in Part \cup {handler[current]} :
                       \E event \in Events : MemberEvent(part, event)

LEMMA RefusesWith ==
    ASSUME TypeOK, NoVerdict,
           NEW type \in ErrorTypes, type # "OBJECT_MEMBER",
           NEW names \in SUBSET (Keys \cup {NoKey}),
           type = "DUPLICATE_KEYS" => names = {OpenMember},
           Reject(Error(type, names)), handler' = handler, parsed' = parsed,
           report' = report, depth' \in Nat,
           current' \in Members \cup {NoKey},
           current_name' \in Keys \cup {NoKey}
    PROVE  Refuses
  <1>1. /\ Error(type, names) \in AnyError /\ Error(type, names) # NoError
        /\ Error(type, names).type = type /\ Error(type, names).names = names
    BY ErrorFacts DEF AnyError
  <1>2. the_error' = Error(type, names) /\ phase' = "failed"
    BY DEF Reject, Terminate
  <1> QED
    BY <1>1, <1>2 DEF Refuses, NoVerdict

LEMMA MemberEventOf ==
    ASSUME TypeOK, InObject, NEW event \in Events, WithinMember(event),
           RecordMember, depth' = Count(nest', "object"),
           UNCHANGED <<current, current_name, parsed, flags, memberFlags, report, again>>,
           NEW part \in Part \cup {handler[current]},
           current # NoKey => PartAt(part), Forward(part, event)
    PROVE  SomeMemberEvent
  BY DEF SomeMemberEvent, MemberEvent, WithinMember

(* precheck finds the value of a member repeated, or it passes the event on *)
(* to the member's handler, as it is or prepared for reuse.                 *)
LEMMA PrecheckKinds ==
    ASSUME TypeOK, InObject, NEW event \in Events, PrecheckAndForward(event),
           WithinMember(event), Observe, depth' = Count(nest', "object"),
           depth' \in Nat, UNCHANGED <<current, current_name, parsed>>
    PROVE  Refuses \/ SomeMemberEvent
  <1>1. /\ ~(depth <= 0) /\ NoVerdict /\ handler \in [Members -> Part]
        /\ current' = current /\ current_name' = current_name
        /\ current \in Members \cup {NoKey} /\ current_name \in Keys \cup {NoKey}
        /\ RecordMember /\ report' = report
        /\ UNCHANGED <<current, current_name, parsed, flags, memberFlags, report, again>>
    BY DepthFacts DEF InObject, Observe, objectVars
  <1>2. CASE Reject(Error("DUPLICATE_KEYS", {current_name})) /\ UNCHANGED handler
    <2>1. "DUPLICATE_KEYS" \in ErrorTypes /\ "DUPLICATE_KEYS" # "OBJECT_MEMBER"
      BY DEF ErrorTypes
    <2>2. current_name = OpenMember
      BY DEF InObject, Routed, WithinMember, OpenMember, AtRoot
    <2> QED
      BY <1>1, <1>2, <2>1, <2>2, RefusesWith
  <1>3. CASE /\ AlreadyParsed => "AllowDuplicateKey" \in flags
             /\ Forward(Prechecked, event)
    <2>1. CASE AlreadyParsed
      <3>1. Forward(Fresh, event) /\ Fresh \in Part
        BY <1>3, <2>1 DEF Prechecked, Fresh, Part
      <3>2. PartAt(Fresh)
        BY <1>3, <2>1, <3>1 DEF PartAt, AlreadyParsed
      <3> QED
        BY <1>1, <3>1, <3>2, MemberEventOf
    <2>2. CASE ~AlreadyParsed
      <3>1. Forward(handler[current], event)
        BY <1>3, <2>2 DEF Prechecked
      <3>2. current # NoKey => PartAt(handler[current])
        BY <1>1 DEF PartAt
      <3> QED
        BY <1>1, <3>1, <3>2, MemberEventOf
    <2> QED
      BY <2>1, <2>2
  <1> QED
    BY <1>1, <1>2, <1>3 DEF PrecheckAndForward

(* Without precheck the member's handler is given the event as it is.       *)
LEMMA ForwardKinds ==
    ASSUME TypeOK, InObject, NEW event \in Events,
           Forward(handler[current], event),
           WithinMember(event), Observe, depth' = Count(nest', "object"),
           UNCHANGED <<current, current_name, parsed>>
    PROVE  SomeMemberEvent
  <1>1. /\ handler \in [Members -> Part] /\ current \in Members \cup {NoKey}
        /\ RecordMember
        /\ UNCHANGED <<current, current_name, parsed, flags, memberFlags, report, again>>
    BY DepthFacts DEF Observe, objectVars
  <1>2. current # NoKey => PartAt(handler[current])
    BY <1>1 DEF PartAt
  <1> QED
    BY <1>1, <1>2, MemberEventOf

(* Before the object begins every other event is a type mismatch.           *)
LEMMA NoObjectYet ==
    ASSUME TypeOK, Idle, NEW event, PrecheckAndForward(event), Observe,
           UNCHANGED <<current, current_name, depth, parsed>>
    PROVE  Refuses
  <1>1. /\ Reject(Error("TYPE_MISMATCH", {})) /\ handler' = handler
        /\ depth' \in Nat /\ NoVerdict /\ report' = report /\ parsed' = parsed
        /\ current' \in Members \cup {NoKey}
        /\ current_name' \in Keys \cup {NoKey}
    BY DEF Idle, PrecheckAndForward, Observe, TypeOK
  <1>2. /\ "TYPE_MISMATCH" \in ErrorTypes /\ "TYPE_MISMATCH" # "OBJECT_MEMBER"
        /\ {} \in SUBSET (Keys \cup {NoKey})
    BY DEF ErrorTypes
  <1> QED
    BY <1>1, <1>2, RefusesWith

LEMMA ScalarKind == ASSUME TypeOK, Inv, Event, Scalar PROVE Refuses \/ SomeMemberEvent
  <1>1. /\ ReadScalar /\ PrecheckAndForward("scalar") /\ Observe /\ Active
        /\ UNCHANGED <<current, current_name, depth, parsed>>
        /\ MemberPending
    BY EventReads DEF Scalar, Inv
  <1>2. CASE Idle
    BY <1>1, <1>2, NoObjectYet
  <1>3. CASE InObject
    <2>1. /\ nest \in Seq(Frame) /\ nest # <<>> /\ nest[1].kind = "object"
          /\ Count(nest, "object") = depth /\ depth \in Nat
      BY <1>3, DepthFacts
    <2>2. WithinMember("scalar") /\ Count(nest', "object") = Count(nest, "object")
      BY <1>1, <2>1, ScalarFrame
    <2>3. depth' = Count(nest', "object") /\ depth' \in Nat
      BY <1>1, <2>1, <2>2
    <2>4. "scalar" \in Events
      BY DEF Events
    <2> QED
      BY <1>1, <1>3, <2>2, <2>3, <2>4, PrecheckKinds
  <1> QED
    BY <1>1, <1>2, <1>3, ActivePhase

LEMMA KeyKind ==
    ASSUME TypeOK, Inv, Event, NEW k \in Keys, Key(k)
    PROVE  Refuses \/ LooksUp \/ SomeMemberEvent
  <1>1. /\ ReadKey(k) /\ Observe /\ Active /\ MemberPending /\ nest # <<>>
        /\ UNCHANGED <<depth, parsed>> /\ RecordMember /\ report' = report
        /\ flags' = flags /\ memberFlags' = memberFlags /\ again' = again
    BY EventReads DEF Key, ReadKey, KeyExpected, AtRoot, Inv, Observe
  <1>2. InObject
    BY <1>1, ActivePhase
  <1>3. /\ nest \in Seq(Frame) /\ nest[1].kind = "object"
        /\ Count(nest, "object") = depth /\ depth \in Nat /\ ~(depth <= 0)
        /\ Last(nest).kind = "object" => (depth = 1 <=> Len(nest) = 1)
        /\ NoVerdict /\ current_name \in Keys \cup {NoKey}
    BY <1>2, DepthFacts DEF InObject
  <1>4. /\ nest' \in Seq(Frame) /\ Len(nest') = Len(nest) /\ nest' # <<>>
        /\ nest'[Len(nest)].kind = "object" /\ nest'[Len(nest)].key = k
        /\ Count(nest', "object") = Count(nest, "object")
        /\ Last(nest).kind = "object"
    <2>1. Last(nest).kind = "object"
      BY <1>1 DEF ReadKey, KeyExpected, AtRoot
    <2> QED
      BY <1>1, <1>3, <2>1, ReadKeyFacts
  <1>5. depth' = Count(nest', "object") /\ depth' \in Nat
    BY <1>1, <1>3, <1>4
  <1>6. CASE Len(nest) = 1
    <2>1. depth = 1
      BY <1>3, <1>4, <1>6
    <2>2. LookUp(k) /\ handler' = handler
      BY <1>3, <2>1 DEF Key
    <2>3. CASE Reject(Error("UNKNOWN_FIELD", {k})) /\ current' = NoKey
      <3>1. "UNKNOWN_FIELD" \in ErrorTypes /\ "UNKNOWN_FIELD" # "OBJECT_MEMBER"
        BY DEF ErrorTypes
      <3>2. current_name' = k
        BY <2>2 DEF LookUp
      <3> QED
        BY <1>1, <1>3, <1>5, <2>2, <2>3, <3>1, <3>2, RefusesWith
    <2>4. CASE Return /\ current' = Target(k)
      <3>1. current_name' = k
        BY <2>2 DEF LookUp
      <3> QED
        BY <1>1, <1>2, <1>4, <1>5, <1>6, <2>2, <2>4, <3>1 DEF LooksUp
    <2> QED
      BY <2>2, <2>3, <2>4 DEF LookUp, Target
  <1>7. CASE Len(nest) # 1
    <2>1. depth # 1 /\ ~(depth <= 0)
      BY <1>3, <1>4, <1>7
    <2>2. /\ Forward(handler[current], "key")
          /\ UNCHANGED <<current, current_name, parsed>>
      BY <1>1, <2>1 DEF Key
    <2>3. WithinMember("key") /\ "key" \in Events
      BY <1>1, <1>3, <1>7, KeyFrame DEF Events
    <2> QED
      BY <1>1, <1>2, <1>5, <2>2, <2>3, ForwardKinds
  <1> QED
    BY <1>6, <1>7

LEMMA StartArrayKind ==
    ASSUME TypeOK, Inv, Event, StartArray
    PROVE  Refuses \/ SomeMemberEvent
  <1>1. /\ ReadStart("array") /\ Observe /\ Active /\ MemberPending
        /\ UNCHANGED <<current, current_name, depth, parsed>>
        /\ report' = report /\ "array" \in Kinds
        /\ \/ Reject(Error("TOO_DEEP_RECURSION", {})) /\ UNCHANGED handler
           \/ PrecheckAndForward("start")
    BY EventReads DEF StartArray, Inv, Observe, Kinds
  <1>2. /\ depth' \in Nat /\ current' \in Members \cup {NoKey}
        /\ current_name' \in Keys \cup {NoKey}
    BY <1>1 DEF TypeOK
  <1>3. NoVerdict
    BY <1>1, ActivePhase DEF Idle, InObject
  <1>4. CASE Reject(Error("TOO_DEEP_RECURSION", {})) /\ UNCHANGED handler
    <2>1. /\ "TOO_DEEP_RECURSION" \in ErrorTypes
          /\ "TOO_DEEP_RECURSION" # "OBJECT_MEMBER"
          /\ {} \in SUBSET (Keys \cup {NoKey})
      BY DEF ErrorTypes
    <2> QED
      BY <1>1, <1>2, <1>3, <1>4, <2>1, RefusesWith
  <1>5. CASE PrecheckAndForward("start") /\ Idle
    BY <1>1, <1>5, NoObjectYet
  <1>6. CASE PrecheckAndForward("start") /\ InObject
    <2>1. /\ nest \in Seq(Frame) /\ nest # <<>> /\ nest[1].kind = "object"
          /\ Count(nest, "object") = depth /\ depth \in Nat
      BY <1>6, DepthFacts
    <2>2. WithinMember("start") /\ Count(nest', "object") = Count(nest, "object") + 0
      BY <1>1, <2>1, StartFrame
    <2>3. depth' = Count(nest', "object")
      BY <1>1, <2>1, <2>2
    <2>4. "start" \in Events
      BY DEF Events
    <2> QED
      BY <1>1, <1>2, <1>6, <2>2, <2>3, <2>4, PrecheckKinds
  <1> QED
    BY <1>1, <1>4, <1>5, <1>6, ActivePhase

LEMMA StartObjectKind ==
    ASSUME TypeOK, Inv, Event, StartObject
    PROVE  Refuses \/ Begins \/ SomeMemberEvent
  <1>1. /\ ReadStart("object") /\ Observe /\ Active /\ MemberPending
        /\ UNCHANGED <<current, current_name, parsed>> /\ depth' = depth + 1
        /\ report' = report /\ "object" \in Kinds /\ RecordMember
        /\ flags' = flags /\ memberFlags' = memberFlags /\ again' = again
        /\ nest \in Seq(Frame)
        /\ \/ Reject(Error("TOO_DEEP_RECURSION", {})) /\ UNCHANGED handler
           \/ IF depth' > 1 THEN Forward(handler[current], "start")
              ELSE Return /\ UNCHANGED handler
    BY EventReads DEF StartObject, Inv, Observe, Kinds, TypeOK, ReaderTypeOK
  <1>2. /\ depth \in Nat /\ depth' \in Nat /\ current' \in Members \cup {NoKey}
        /\ current_name' \in Keys \cup {NoKey}
    BY <1>1 DEF TypeOK
  <1>3. NoVerdict
    BY <1>1, ActivePhase DEF Idle, InObject
  <1>4. CASE Reject(Error("TOO_DEEP_RECURSION", {})) /\ UNCHANGED handler
    <2>1. /\ "TOO_DEEP_RECURSION" \in ErrorTypes
          /\ "TOO_DEEP_RECURSION" # "OBJECT_MEMBER"
          /\ {} \in SUBSET (Keys \cup {NoKey})
      BY DEF ErrorTypes
    <2> QED
      BY <1>1, <1>2, <1>3, <1>4, <2>1, RefusesWith
  <1>5. CASE /\ IF depth' > 1 THEN Forward(handler[current], "start")
                ELSE Return /\ UNCHANGED handler
             /\ Idle
    <2>1. depth' = 1 /\ nest = <<>> /\ Len(nest) = 0
      BY <1>1, <1>5 DEF Idle
    <2>2. Return /\ handler' = handler
      BY <1>5, <2>1
    <2>3. /\ nest' \in Seq(Frame) /\ Len(nest') = 1
          /\ nest'[1] = NewFrame("object")
          /\ Count(nest', "object") = Count(nest, "object") + 1
      BY <1>1, <2>1, ReadStartFacts
    <2>4. Count(nest', "object") = 1
      BY <2>1, <2>3, CountEmpty
    <2>5. nest'[1].kind = "object" /\ nest'[1].key = NoKey
      BY <1>1, <2>3, NewFrameType
    <2> QED
      BY <1>1, <1>5, <2>1, <2>2, <2>3, <2>4, <2>5 DEF Begins
  <1>6. CASE /\ IF depth' > 1 THEN Forward(handler[current], "start")
                ELSE Return /\ UNCHANGED handler
             /\ InObject
    <2>1. /\ nest # <<>> /\ nest[1].kind = "object"
          /\ Count(nest, "object") = depth /\ depth >= 1
      BY <1>6, DepthFacts
    <2>2. Forward(handler[current], "start")
      BY <1>1, <1>2, <1>6, <2>1
    <2>3. WithinMember("start") /\ Count(nest', "object") = Count(nest, "object") + 1
      BY <1>1, <2>1, StartFrame
    <2>4. depth' = Count(nest', "object") /\ "start" \in Events
      BY <1>1, <2>1, <2>3 DEF Events
    <2> QED
      BY <1>1, <1>6, <2>2, <2>3, <2>4, ForwardKinds
  <1> QED
    BY <1>1, <1>4, <1>5, <1>6, ActivePhase

LEMMA EndArrayKind ==
    ASSUME TypeOK, Inv, Event, EndArray
    PROVE  Refuses \/ SomeMemberEvent
  <1>1. /\ ReadEnd("array") /\ Observe /\ Active /\ MemberPending /\ nest # <<>>
        /\ UNCHANGED <<current, current_name, depth, parsed>>
        /\ report' = report /\ "array" \in Kinds /\ "array" # "object"
        /\ \/ Reject(Error("TOO_MANY_LEAVES", {})) /\ UNCHANGED handler
           \/ PrecheckAndForward("end")
    BY EventReads DEF EndArray, ReadEnd, AtRoot, Inv, Observe, Kinds
  <1>2. /\ depth' \in Nat /\ current' \in Members \cup {NoKey}
        /\ current_name' \in Keys \cup {NoKey}
    BY <1>1 DEF TypeOK
  <1>3. InObject
    BY <1>1, ActivePhase
  <1>4. /\ nest \in Seq(Frame) /\ nest[1].kind = "object"
        /\ Count(nest, "object") = depth /\ depth \in Nat /\ NoVerdict
        /\ Len(nest) # 1
    <2>1. nest[Len(nest)].kind = "array"
      BY <1>1, <1>3, DepthFacts, ReadEndFacts
    <2> QED
      BY <1>1, <1>3, <2>1, DepthFacts DEF InObject
  <1>5. CASE Reject(Error("TOO_MANY_LEAVES", {})) /\ UNCHANGED handler
    <2>1. /\ "TOO_MANY_LEAVES" \in ErrorTypes /\ "TOO_MANY_LEAVES" # "OBJECT_MEMBER"
          /\ {} \in SUBSET (Keys \cup {NoKey})
      BY DEF ErrorTypes
    <2> QED
      BY <1>1, <1>2, <1>4, <1>5, <2>1, RefusesWith
  <1>6. CASE PrecheckAndForward("end")
    <2>1. WithinMember("end") /\ Count(nest', "object") = Count(nest, "object") - 0
      BY <1>1, <1>4, EndFrame
    <2>2. depth' = Count(nest', "object") /\ "end" \in Events
      BY <1>1, <1>4, <2>1 DEF Events
    <2> QED
      BY <1>1, <1>2, <1>3, <1>6, <2>1, <2>2, PrecheckKinds
  <1> QED
    BY <1>1, <1>5, <1>6

(* The verdict of the object's own '}'.                                     *)
LEMMA ConcludeKinds ==
    ASSUME TypeOK, InObject, Conclude, RecordMember,
           Len(nest) = 1, nest' = <<>>, depth' = 0,
           UNCHANGED <<handler, current, current_name, flags, memberFlags, report, again>>
    PROVE  Refuses \/ Ends
  <1>1. /\ NoVerdict /\ the_error = NoError /\ depth' \in Nat
        /\ current' \in Members \cup {NoKey} /\ current_name' \in Keys \cup {NoKey}
    BY DepthFacts DEF InObject
  <1>2. CASE Missing = {}
    <2>1. the_error' = the_error
      BY <1>2 DEF Conclude, WithMissing
    <2>2. parsed' = TRUE /\ Accept
      BY <1>1, <2>1 DEF Conclude
    <2> QED
      BY <1>2, <2>1, <2>2 DEF Ends, Return
  <1>3. CASE Missing # {}
    <2>1. /\ "MISSING_REQUIRED" \in ErrorTypes
          /\ "MISSING_REQUIRED" # "OBJECT_MEMBER"
          /\ Missing \in SUBSET (Keys \cup {NoKey})
      BY MembersAssumption DEF ErrorTypes, Missing
    <2>2. the_error.type # "MISSING_REQUIRED"
      BY <1>1 DEF NoError, Error
    <2>3. the_error' = Error("MISSING_REQUIRED", Missing)
      BY <1>3, <2>2 DEF Conclude, WithMissing
    <2>4. the_error' # NoError
      BY <2>1, <2>3, ErrorFacts
    <2>5. parsed' = parsed /\ Terminate
      BY <2>4 DEF Conclude
    <2> QED
      BY <1>1, <2>1, <2>3, <2>5, RefusesWith DEF Reject
  <1> QED
    BY <1>2, <1>3

LEMMA EndObjectKind ==
    ASSUME TypeOK, Inv, Event, EndObject
    PROVE  Refuses \/ Ends \/ SomeMemberEvent
  <1>1. /\ ReadEnd("object") /\ Observe /\ Active /\ MemberPending /\ nest # <<>>
        /\ UNCHANGED <<current, current_name>> /\ depth' = depth - 1
        /\ report' = report /\ "object" \in Kinds /\ RecordMember
        /\ flags' = flags /\ memberFlags' = memberFlags /\ again' = again
        /\ \/ /\ Reject(Error("TOO_MANY_LEAVES", {}))
              /\ UNCHANGED <<handler, parsed>>
           \/ /\ depth' > 0 /\ Forward(handler[current], "end")
              /\ UNCHANGED parsed
           \/ /\ depth' = 0 /\ Conclude /\ UNCHANGED handler
    BY EventReads DEF EndObject, ReadEnd, AtRoot, Inv, Observe, Kinds
  <1>2. InObject
    BY <1>1, ActivePhase
  <1>3. /\ nest \in Seq(Frame) /\ nest[1].kind = "object"
        /\ Count(nest, "object") = depth /\ depth \in Nat /\ depth >= 1 /\ NoVerdict
        /\ Last(nest).kind = "object" => (depth = 1 <=> Len(nest) = 1)
        /\ current' \in Members \cup {NoKey} /\ current_name' \in Keys \cup {NoKey}
    BY <1>1, <1>2, DepthFacts DEF InObject
  <1>4. Last(nest).kind = "object" /\ depth' \in Nat
    BY <1>1, <1>3 DEF ReadEnd
  <1>5. CASE Reject(Error("TOO_MANY_LEAVES", {})) /\ UNCHANGED <<handler, parsed>>
    <2>1. /\ "TOO_MANY_LEAVES" \in ErrorTypes /\ "TOO_MANY_LEAVES" # "OBJECT_MEMBER"
          /\ {} \in SUBSET (Keys \cup {NoKey})
      BY DEF ErrorTypes
    <2> QED
      BY <1>1, <1>3, <1>4, <1>5, <2>1, RefusesWith
  <1>6. CASE /\ depth' > 0 /\ Forward(handler[current], "end")
             /\ UNCHANGED parsed
    <2>1. depth # 1
      BY <1>1, <1>3, <1>6
    <2>2. Len(nest) # 1
      BY <1>3, <1>4, <2>1
    <2>3. WithinMember("end") /\ Count(nest', "object") = Count(nest, "object") - 1
      BY <1>1, <1>3, <2>2, EndFrame
    <2>4. depth' = Count(nest', "object") /\ "end" \in Events
      BY <1>1, <1>3, <2>3 DEF Events
    <2> QED
      BY <1>1, <1>2, <1>6, <2>3, <2>4, ForwardKinds
  <1>7. CASE depth' = 0 /\ Conclude /\ UNCHANGED handler
    <2>1. depth = 1
      BY <1>1, <1>3, <1>7
    <2>2. Len(nest) = 1
      BY <1>3, <1>4, <2>1
    <2>3. nest' = <<>>
      BY <1>1, <1>3, <2>2, ReadEndFacts
    <2> QED
      BY <1>1, <1>2, <1>4, <1>7, <2>2, <2>3, ConcludeKinds
  <1> QED
    BY <1>1, <1>5, <1>6, <1>7

LEMMA EventKinds ==
    ASSUME TypeOK, Inv, Event
    PROVE  Refuses \/ Begins \/ LooksUp \/ Ends \/ SomeMemberEvent
  BY ScalarKind, KeyKind, StartArrayKind, StartObjectKind, EndArrayKind,
     EndObjectKind DEF Event

LEMMA EventStep ==
    ASSUME TypeOK, Inv, Event
    PROVE  TypeOK' /\ Inv'
  <1>1. Kept
    BY EventKinds, RefusesStep, BeginsStep, LooksUpStep, EndsStep,
       MemberEventStep DEF SomeMemberEvent
  <1>2. /\ nest' \in Seq(Frame) /\ MemberPending'
        /\ GivenType' /\ counted' \in Nat
        /\ flags' = flags /\ memberFlags' = memberFlags
        /\ report' = report /\ uses' = uses /\ brokenOff' = brokenOff
        /\ again' = again
    BY EventReads
  <1>3. LimitsKept
    BY EventLimits
  <1>4. TypeOK'
    BY <1>1, <1>2, <1>3
       DEF TypeOK, ReaderTypeOK, Phases, Kept, AnyError, LimitsKept, GivenType
  <1>5. Inv'
    BY <1>1, <1>2, <1>3 DEF Inv, Kept, LimitsKept
  <1> QED
    BY <1>4, <1>5
-------------------------------------------------------------------------------
LEMMA InitInv == Init => TypeOK /\ Inv
  <1> SUFFICES ASSUME Init PROVE TypeOK /\ Inv
    OBVIOUS
  <1>1. /\ nest = <<>> /\ phase = "ready" /\ MemberPending
        /\ nest \in Seq(Frame) /\ report \in Seq(ErrorTypes \cup {"part"})
        /\ leavesStack \in Seq(Nat)
    BY DEF Init, ReaderInit, LimitsInit, MemberPending
  <1>2. handler = [m \in Members |-> Fresh] /\ Fresh \in Part
    BY DEF Init, Fresh, Part
  <1>3. GivenType
    <2> DEFINE S == Kinds \cup {"scalar", "earlier"}
    <2>1. <<>> \in Seq(S)
      OBVIOUS
    <2> HIDE DEF S
    <2>2. given = [k \in Keys |-> <<>>]
      BY DEF Init
    <2>3. given \in [Keys -> Seq(S)]
      BY <2>1, <2>2
    <2> QED
      BY <2>3 DEF GivenType, S
  <1>4. Idle
    <2>1. NoVerdict /\ depth = 0 /\ counted = 0 /\ current = NoKey
      BY Zenon DEF Init, NoVerdict
    <2>2. /\ ParsedWereGiven
          /\ \A m \in Members : handler[m].open = 0
      BY <1>2 DEF ParsedWereGiven, Fresh
    <2> QED
      BY <1>1, <2>1, <2>2 DEF Idle
  <1>5. LimitsTypeOK
    BY <1>1 DEF Init, LimitsInit, LimitsTypeOK
  <1>6. TypeOK
    BY <1>1, <1>2, <1>3, <1>5
       DEF Init, TypeOK, ReaderTypeOK, Phases, GivenType
  <1> QED
    BY <1>1, <1>4, <1>6 DEF Inv

LEMMA PrepareForReuseStep ==
    TypeOK /\ Inv /\ PrepareForReuse => TypeOK' /\ Inv'
  <1> SUFFICES ASSUME TypeOK, Inv, PrepareForReuse PROVE TypeOK' /\ Inv'
    OBVIOUS
  <1>1. /\ nest' = <<>> /\ phase' = "ready" /\ depth' = 0 /\ counted' = 0
        /\ current' = NoKey /\ current_name' = NoKey
        /\ the_error' = NoError /\ report' = <<>>
        /\ parsed' = FALSE /\ again' = FALSE
        /\ handler' = [m \in Members |-> Fresh]
        /\ given' = [k \in Keys |-> <<>>]
        /\ UNCHANGED <<configVars, counterVars, flags, memberFlags>>
    BY DEF PrepareForReuse, NextText, ResetParts, objectVars
  <1>2. uses' \in Nat /\ brokenOff' \in BOOLEAN
    BY DEF TypeOK, PrepareForReuse
  <1>3. /\ nest' \in Seq(Frame) /\ report' \in Seq(ErrorTypes \cup {"part"})
        /\ MemberPending'
    BY <1>1 DEF MemberPending
  <1>4. handler' \in [Members -> Part] /\ \A m \in Members : handler'[m] = Fresh
    <2>1. Fresh \in Part
      BY DEF Fresh, Part
    <2> QED
      BY <1>1, <2>1
  <1>5. GivenType'
    <2> DEFINE S == Kinds \cup {"scalar", "earlier"}
    <2>1. <<>> \in Seq(S)
      OBVIOUS
    <2> HIDE DEF S
    <2>2. given' \in [Keys -> Seq(S)]
      BY <1>1, <2>1
    <2> QED
      BY <2>2 DEF GivenType, S
  <1>6. LimitsTypeOK'
    BY <1>1 DEF TypeOK, LimitsTypeOK, configVars, counterVars
  <1>7. Idle'
    BY <1>1, <1>4 DEF Idle, NoVerdict, ParsedWereGiven, Fresh
  <1>8. TypeOK'
    BY <1>1, <1>2, <1>3, <1>4, <1>5, <1>6
       DEF TypeOK, ReaderTypeOK, Phases, GivenType
  <1> QED
    BY <1>1, <1>3, <1>7, <1>8 DEF Inv

(* The report of a failure: the object's own error, and then the member's,  *)
(* which is there when the own error says that it is.                       *)
LEMMA ReapErrorStep == TypeOK /\ Inv /\ ReapError => TypeOK' /\ Inv'
  <1> SUFFICES ASSUME TypeOK, Inv, ReapError PROVE TypeOK' /\ Inv'
    OBVIOUS
  <1>1. phase = "failed" /\ Broken /\ report = <<>> /\ phase' = "failed"
    BY DEF ReapError, Inv, Idle, NoVerdict, InObject, Done, Broken, TypeOK,
           ReaderTypeOK, Phases, readerVars
  <1>2. the_error.type \in ErrorTypes
    BY DEF TypeOK, ReapError
  <1>3. /\ UNCHANGED <<nest, phase, current, current_name, depth, parsed, given,
                       again, uses, brokenOff, counted, configVars, counterVars, flags,
                       memberFlags>>
        /\ the_error' = NoError /\ NoError.type # "OBJECT_MEMBER"
    BY DEF ReapError, readerVars, objectVars, historyVars, NoError, Error
  <1>4. handler' \in [Members -> Part]
    <2>1. CASE PartFailed
      <3>1. current \in Members /\ handler \in [Members -> Part]
        BY <2>1 DEF TypeOK, PartFailed
      <3>2. handler' = [handler EXCEPT ![current] = Reaped(handler[current])]
        BY <2>1 DEF ReapError
      <3>3. Reaped(handler[current]) \in Part
        BY <3>1 DEF Part, Reaped
      <3> QED
        BY <3>1, <3>2, <3>3
    <2>2. CASE ~PartFailed
      BY <2>2 DEF ReapError, TypeOK
    <2> QED
      BY <2>1, <2>2
  <1>5. LimitsTypeOK' /\ MemberPending'
    BY <1>3 DEF TypeOK, LimitsTypeOK, Inv, MemberPending, configVars, counterVars
  <1>6. /\ report' \in Seq(ErrorTypes \cup {"part"}) /\ report' # <<>>
        /\ Last(report') # "OBJECT_MEMBER"
    <2>1. /\ report' = <<>> \o <<the_error.type>>
                        \o (IF PartFailed THEN <<"part">> ELSE <<>>)
          /\ <<>> \o <<the_error.type>> = <<the_error.type>>
      BY <1>1 DEF ReapError
    <2>2. CASE ~PartFailed
      <3>1. report' = <<the_error.type>> \o <<>>
        BY <2>1, <2>2
      <3>2. report' = <<the_error.type>>
        BY <1>2, <3>1
      <3>3. the_error.type # "OBJECT_MEMBER"
        BY <1>1, <2>2 DEF Broken
      <3> QED
        BY <1>2, <3>2, <3>3 DEF Last
    <2>3. CASE PartFailed
      <3> DEFINE S == ErrorTypes \cup {"part"}
                 a == <<the_error.type>>
                 b == <<"part">>
      <3>1. a \in Seq(S) /\ b \in Seq(S) /\ Len(a) = 1 /\ Len(b) = 1 /\ b[1] = "part"
        BY <1>2
      <3>2. report' = a \o b
        BY <2>1, <2>3
      <3> HIDE DEF a, b
      <3>3. report' \in Seq(S) /\ Len(report') = 2 /\ report'[2] = "part"
        BY <3>1, <3>2, ConcatProperties
      <3>4. Last(report') = report'[Len(report')] /\ Len(<<>>) = 0
        BY DEF Last
      <3> QED
        BY <3>3, <3>4
    <2> QED
      BY <2>2, <2>3
  <1>7. TypeOK'
    BY <1>3, <1>4, <1>5, <1>6 DEF TypeOK, ReaderTypeOK
  <1>8. Broken'
    BY <1>1, <1>3, <1>6 DEF Broken
  <1> QED
    BY <1>1, <1>5, <1>7, <1>8 DEF Inv

LEMMA SetLimitsStep == TypeOK /\ Inv /\ SetLimits => TypeOK' /\ Inv'
  <1> SUFFICES ASSUME TypeOK, Inv, SetLimits PROVE TypeOK' /\ Inv'
    OBVIOUS
  <1>1. /\ phase = "ready" /\ Idle
        /\ UNCHANGED <<nest, phase, counterVars, flags, memberFlags, handler,
                       current, current_name, depth, the_error, parsed, report,
                       again, given, uses, brokenOff, counted>>
    BY DEF SetLimits, Inv, readerVars, objectVars, memberVars, historyVars
  <1>2. LimitsTypeOK'
    BY <1>1 DEF SetLimits, Configure, TypeOK, LimitsTypeOK, counterVars
  <1>3. TypeOK'
    BY <1>1, <1>2 DEF TypeOK, ReaderTypeOK
  <1>4. Idle' /\ MemberPending'
    BY <1>1 DEF Idle, NoVerdict, ParsedWereGiven, Ignored, Inv, MemberPending
  <1> QED
    BY <1>1, <1>3, <1>4 DEF Inv

(* A value that is repeated finds the handler as the first has left it: the *)
(* members that are parsed were given a value, if not one of this text.     *)
LEMMA AgainStep == TypeOK /\ Inv /\ Again => TypeOK' /\ Inv'
  <1> SUFFICES ASSUME TypeOK, Inv, Again PROVE TypeOK' /\ Inv'
    OBVIOUS
  <1>1. /\ Done /\ nest' = <<>> /\ phase' = "ready"
        /\ again' = TRUE /\ counted' = 0
        /\ given' = [k \in Keys |-> IF given[k] = <<>> THEN <<>> ELSE <<"earlier">>]
        /\ UNCHANGED <<configVars, counterVars, flags, memberFlags, handler,
                       current, current_name, depth, the_error, parsed, report,
                       brokenOff>>
    BY DEF Again, NextText, Inv, objectVars, memberVars
  <1>2. uses' \in Nat /\ nest' \in Seq(Frame) /\ MemberPending'
    BY <1>1 DEF TypeOK, Again, MemberPending
  <1>3. GivenType'
    <2> DEFINE S == Kinds \cup {"scalar", "earlier"}
    <2>1. <<>> \in Seq(S) /\ <<"earlier">> \in Seq(S)
      OBVIOUS
    <2> HIDE DEF S
    <2>2. given' \in [Keys -> Seq(S)]
      BY <1>1, <2>1
    <2> QED
      BY <2>2 DEF GivenType, S
  <1>4. LimitsTypeOK'
    BY <1>1 DEF TypeOK, LimitsTypeOK, configVars, counterVars
  <1>5. TypeOK'
    BY <1>1, <1>2, <1>3, <1>4 DEF TypeOK, ReaderTypeOK, Phases, GivenType
  <1>6. ParsedWereGiven'
    <2>1. \A m \in Members : given[m] # <<>> => given'[m] # <<>>
      BY <1>1, MemberNames
    <2> QED
      BY <1>1, <2>1 DEF Done, ParsedWereGiven, Ignored
  <1>7. Idle'
    BY <1>1, <1>6 DEF Done, Idle, NoVerdict
  <1> QED
    BY <1>1, <1>2, <1>5, <1>7 DEF Inv

LEMMA StutterStep == TypeOK /\ Inv /\ UNCHANGED vars => TypeOK' /\ Inv'
  <1> SUFFICES ASSUME TypeOK, Inv, UNCHANGED vars PROVE TypeOK' /\ Inv'
    OBVIOUS
  <1>1. UNCHANGED <<nest, phase, maxDepth, maxLeaves, jsonDepth, lastLeafStat,
                    totalLeaves, leavesStack, flags, memberFlags, handler,
                    current, current_name, depth, the_error, parsed, report,
                    again, given, uses, brokenOff, counted>>
    BY DEF vars, readerVars, configVars, counterVars, objectVars, memberVars,
           historyVars
  <1>2. TypeOK'
    BY <1>1 DEF TypeOK, ReaderTypeOK, LimitsTypeOK
  <1>3. /\ MemberPending => MemberPending'
        /\ Idle => Idle'
        /\ LeavesCounted => LeavesCounted'
        /\ LeavesAllowed => LeavesAllowed'
        /\ Broken => Broken'
        /\ Done => Done'
    BY <1>1 DEF MemberPending, Idle, NoVerdict, ParsedWereGiven, Ignored,
                LeavesCounted, LeavesAllowed, Broken, PartFailed, Done, Required
  <1>4. InObject => InObject'
    BY <1>1 DEF InObject, NoVerdict, ParsedWereGiven, Ignored, Routed, Target,
                PartsOpen, Repeated, Count, Of
  <1>5. CountersInStep => CountersInStep'
    BY <1>1 DEF CountersInStep, Aligned
  <1>6. phase' = phase
    BY <1>1
  <1>7. Inv'
    BY <1>3, <1>4, <1>5, <1>6 DEF Inv
  <1> QED
    BY <1>2, <1>7

LEMMA StepInv == TypeOK /\ Inv /\ [Next]_vars => TypeOK' /\ Inv'
  BY EventStep, PrepareForReuseStep, AgainStep, ReapErrorStep, SetLimitsStep,
     StutterStep DEF Next
-------------------------------------------------------------------------------
(* The types, and the inductive invariant, of every behaviour.              *)
THEOREM TypeCorrect == Spec => []TypeOK
  <1>1. Init => TypeOK /\ Inv
    BY InitInv
  <1>2. TypeOK /\ Inv /\ [Next]_vars => TypeOK' /\ Inv'
    BY StepInv
  <1> QED
    BY <1>1, <1>2, PTL DEF Spec

(* The strengthening of the safety properties below holds throughout: it is *)
(* what ObjectHandler's fields mean while the events pass through it.       *)
THEOREM Invariance == Spec => [](TypeOK /\ Inv)
  <1>1. Init => TypeOK /\ Inv
    BY InitInv
  <1>2. TypeOK /\ Inv /\ [Next]_vars => TypeOK' /\ Inv'
    BY StepInv
  <1> QED
    BY <1>1, <1>2, PTL DEF Spec

(* A value reaches the handler registered for its key, and no other, however *)
(* deep the values before it were nested (Key's test depth == 1).           *)
THEOREM RoutingIsCorrect == Spec => []RoutedByKey
  <1>1. TypeOK /\ Inv => RoutedByKey
    BY DEF Inv, InObject, Routed, Target, OpenMember, AtRoot, RoutedByKey
  <1> QED
    BY <1>1, Invariance, PTL

(* The current part is exactly as deep in its value as the text is, and no  *)
(* other part is in the middle of a value.                                  *)
THEOREM PartsStayInStep == Spec => []PartsInStep
  <1>1. TypeOK /\ Inv => PartsInStep
    <2> SUFFICES ASSUME TypeOK, Inv, phase = "reading", NEW m \in Members
                 PROVE  /\ m # current => handler[m].open = 0
                        /\ m = current /\ "AllowDuplicateKey" \notin flags =>
                               handler[m].open = Len(nest) - 1
      BY DEF PartsInStep
    <2>1. PartsOpen
      BY DEF Inv, InObject
    <2> QED
      BY <2>1 DEF PartsOpen, Repeated
  <1> QED
    BY <1>1, Invariance, PTL

(* EndObject accepts no object in which a value that is not Optional was     *)
(* not given, or was given and not read.                                    *)
THEOREM RequiredAreGiven == Spec => []RequiredGiven
  <1>1. TypeOK /\ Inv => RequiredGiven
    BY DEF Inv, Done, RequiredGiven
  <1> QED
    BY <1>1, Invariance, PTL

(* A user always finds the cause of a failure at the end of the chain.      *)
THEOREM ReportsEndInCause == Spec => []ReportEndsInCause
  <1>1. TypeOK /\ Inv => ReportEndsInCause
    BY DEF TypeOK, ReaderTypeOK, Phases, Inv, Idle, InObject, NoVerdict, Done,
           Broken, ReportEndsInCause
  <1> QED
    BY <1>1, Invariance, PTL

(* No text passes the limits that GlobalConfig sets, whatever the handler   *)
(* has counted in the texts it was used for before.                         *)
THEOREM LimitsAreEnforced == Spec => []LimitsEnforced
  <1>1. TypeOK /\ Inv => LimitsEnforced
    <2> SUFFICES ASSUME TypeOK, Inv, phase \in {"reading", "complete"}
                 PROVE  /\ maxDepth # Unset => Len(nest) <= maxDepth
                        /\ maxLeaves # Unset => counted <= maxLeaves
      BY DEF LimitsEnforced
    <2>1. LeavesAllowed
      BY DEF Inv
    <2>2. CASE phase = "reading"
      BY <2>1, <2>2 DEF Inv, CountersInStep, LeavesAllowed
    <2>3. CASE phase = "complete"
      <3>1. nest = <<>> /\ Len(<<>>) = 0
        BY <2>3 DEF Inv, Done
      <3>2. maxDepth # Unset => maxDepth \in Nat
        BY LimitValues DEF TypeOK
      <3> QED
        BY <2>1, <3>1, <3>2 DEF LeavesAllowed
    <2> QED
      BY <2>2, <2>3
  <1> QED
    BY <1>1, Invariance, PTL

(* The member a user reads in an error is the one whose value was being     *)
(* read, not one that was read before it or another that failed to match.   *)
THEOREM ErrorsNameMember == Spec => ErrorNamesMember
  <1> DEFINE Names == the_error = NoError
                      /\ the_error'.type \in {"OBJECT_MEMBER", "DUPLICATE_KEYS"}
                      => the_error'.names = {OpenMember}
  <1>1. TypeOK /\ Inv /\ [Next]_vars => [Names]_vars
    <2> SUFFICES ASSUME TypeOK, Inv, [Next]_vars, the_error = NoError,
                        the_error'.type \in {"OBJECT_MEMBER", "DUPLICATE_KEYS"}
                 PROVE  the_error'.names = {OpenMember}
      OBVIOUS
    <2>1. the_error' # the_error
      BY DEF NoError, Error
    <2>2. CASE SomeMemberEvent
      <3>1. PICK part \in Part \cup {handler[current]}, event \in Events :
                MemberEvent(part, event)
        BY <2>2 DEF SomeMemberEvent
      <3>2. InObject /\ nest[1].key # NoKey /\ Forward(part, event)
        BY <3>1 DEF MemberEvent
      <3>3. current_name = OpenMember
        BY <3>2 DEF InObject, Routed, OpenMember, AtRoot
      <3>4. the_error' = Error("OBJECT_MEMBER", {current_name})
        BY <2>1, <3>2 DEF Forward, Return, Reject
      <3> QED
        BY <3>3, <3>4 DEF Error
    <2>3. CASE Refuses
      BY <2>3 DEF Refuses
    <2>4. CASE Begins \/ LooksUp \/ Ends
      BY <2>1, <2>4 DEF Begins, LooksUp, Ends, Return
    <2>5. CASE ReapError
      BY <2>5 DEF ReapError
    <2>6. CASE PrepareForReuse
      BY <2>1, <2>6 DEF PrepareForReuse
    <2>7. CASE SetLimits \/ Again \/ UNCHANGED vars
      BY <2>1, <2>7 DEF SetLimits, Again, vars
    <2> QED
      BY <2>2, <2>3, <2>4, <2>5, <2>6, <2>7, EventKinds DEF Next
  <1> QED
    BY <1>1, Invariance, PTL DEF Spec, ErrorNamesMember
-------------------------------------------------------------------------------
(* Beyond the inductive invariant: what may be repeated, why an object is   *)
(* rejected, and when the counters are exact.                               *)

(* Without AllowDuplicateKey a member whose value was given is parsed, or   *)
(* in the middle of a second value, which must be an object: StartObject    *)
(* and EndObject forward without precheck.                                  *)
ReadOnce ==
    "AllowDuplicateKey" \notin flags =>
        /\ \A m \in Members : ~Ignored(m) =>
               /\ given[m] # <<>> => handler[m].parsed \/ handler[m].open > 0
               /\ \A i \in 2..Len(given[m]) : given[m][i] = "object"
        /\ current # NoKey /\ Len(nest) > 1 /\ given[current] # <<>> =>
               nest[2].kind = "object"

(* A required member whose value was read is parsed until another one       *)
(* begins, and after it too, unless it was an object again and precheck has *)
(* prepared its handler in the middle of it.                                *)
ReadIsParsed ==
    \A m \in Members :
        Required(m) /\ ~Ignored(m) /\ given[m] # <<>> /\ ~handler[m].parsed =>
            MaybeForgotten(m) \/ (m = current /\ Len(nest) > 1)

(* That does not happen to an array, first or repeated: StartArray runs     *)
(* precheck, and no later event finds the member parsed.                    *)
ArrayInStep ==
    current # NoKey /\ Len(nest) > 1 /\ nest[2].kind = "array" =>
        handler[current].open = Len(nest) - 1 /\ ~handler[current].parsed

Remembered ==
    /\ ReadIsParsed
    /\ ArrayInStep
    /\ phase = "complete" =>
           \A m \in Members : Required(m) => handler[m].parsed

DepthExact ==
    ~brokenOff =>
        /\ phase # "failed" => DepthFollows
        /\ DepthRejectionJustified

TotalFollows == maxLeaves # Unset => totalLeaves = counted

LeavesExact ==
    uses = 0 =>
        /\ phase # "failed" => StackFollows /\ TotalFollows
        /\ phase = "ready" => leavesStack = <<>> /\ totalLeaves = 0
        /\ LeafRejectionJustified

Exact ==
    /\ phase # "failed" => ReadOnce /\ Remembered
    /\ RejectionJustified
    /\ DepthExact
    /\ LeavesExact

-------------------------------------------------------------------------------
(* The errors an event can store, each with what the text has done.         *)
Causes ==
    \/ the_error' = NoError
    \/ the_error' = Error("OBJECT_MEMBER", {current_name})
    \/ /\ the_error' = Error("TYPE_MISMATCH", {})
       /\ depth' = 0
    \/ /\ the_error' = Error("DUPLICATE_KEYS", {current_name})
       /\ AlreadyParsed /\ "AllowDuplicateKey" \notin flags
       /\ current = current_name
    \/ \E k \in Keys \ Members :
           /\ the_error' = Error("UNKNOWN_FIELD", {k})
           /\ "DisallowUnknownKey" \in flags
    \/ /\ the_error' = Error("MISSING_REQUIRED", Missing)
       /\ Len(nest) = 1
    \/ /\ the_error' = Error("TOO_DEEP_RECURSION", {})
       /\ \E kind \in Kinds : ReadStart(kind) /\ StartCheckFails
    \/ /\ the_error' = Error("TOO_MANY_LEAVES", {})
       /\ \E kind \in Kinds :
              ReadEnd(kind) /\ EndCheckFails(kind, Size(Last(nest)))

CausedOrAccepted == Causes /\ (the_error' # NoError => phase' = "failed")

LEMMA ForwardCauses ==
    ASSUME the_error = NoError, NEW part, NEW event, Forward(part, event)
    PROVE  CausedOrAccepted
  <1>1. \/ the_error' = NoError
        \/ /\ the_error' = Error("OBJECT_MEMBER", {current_name})
           /\ phase' = "failed"
    BY DEF Forward, Return, Reject, Terminate
  <1> QED
    BY <1>1 DEF CausedOrAccepted, Causes

(* precheck looks at the member whose value the event belongs to.           *)
LEMMA PendingCurrent ==
    ASSUME TypeOK, Inv, Active,
           ReadScalar \/ (\E kind \in Kinds : ReadStart(kind)) \/ ReadEnd("array"),
           ~FirstOfRepeated
    PROVE  current # NoKey => current = current_name
  <1>1. CASE Idle
    BY <1>1 DEF Idle, FirstOfRepeated, AtRoot
  <1>2. CASE InObject
    <2>1. /\ nest \in Seq(Frame) /\ nest # <<>> /\ nest[1].kind = "object"
          /\ MemberPending /\ "array" \in Kinds
      BY <1>2, DepthFacts DEF Inv, Kinds
    <2>2. ReadEnd("array") => Len(nest) > 1
      <3> SUFFICES ASSUME ReadEnd("array") PROVE Len(nest) > 1
        OBVIOUS
      <3>1. nest[Len(nest)].kind = "array" /\ Len(nest) \in Nat \ {0}
        BY <2>1, ReadEndFacts
      <3>2. Len(nest) # 1
        BY <2>1, <3>1
      <3> QED
        BY <3>1, <3>2, OneOrMore
    <2>3. nest[1].key # NoKey
      BY <2>1, <2>2, ValueIsPending
    <2> QED
      BY <1>2, <2>3 DEF InObject, Routed, Target
  <1> QED
    BY <1>1, <1>2, ActivePhase

LEMMA PrecheckCauses ==
    ASSUME the_error = NoError, depth \in Nat, depth' = depth,
           current # NoKey => current = current_name,
           NEW event, PrecheckAndForward(event)
    PROVE  CausedOrAccepted
  <1>1. CASE depth <= 0 /\ Reject(Error("TYPE_MISMATCH", {}))
    <2>1. the_error' = Error("TYPE_MISMATCH", {}) /\ phase' = "failed" /\ depth' = 0
      BY <1>1 DEF Reject, Terminate
    <2> QED
      BY <2>1 DEF CausedOrAccepted, Causes
  <1>2. CASE /\ AlreadyParsed /\ "AllowDuplicateKey" \notin flags
             /\ Reject(Error("DUPLICATE_KEYS", {current_name}))
    <2>1. the_error' = Error("DUPLICATE_KEYS", {current_name}) /\ phase' = "failed"
      BY <1>2 DEF Reject, Terminate
    <2> QED
      BY <1>2, <2>1 DEF CausedOrAccepted, Causes, AlreadyParsed
  <1>3. CASE Forward(Prechecked, event)
    BY <1>3, ForwardCauses
  <1> QED
    BY <1>1, <1>2, <1>3 DEF PrecheckAndForward

LEMMA StartCauses ==
    ASSUME TypeOK, Inv, the_error = NoError, StartArray \/ StartObject
    PROVE  CausedOrAccepted
  <1>1. depth \in Nat /\ "array" \in Kinds /\ "object" \in Kinds
    BY DEF TypeOK, Kinds
  <1>6. /\ (\E kind \in Kinds : ReadStart(kind)) /\ Active
    BY <1>1 DEF StartArray, StartObject, ReadStart, ValueExpected
  <1>2. CASE /\ Reject(Error("TOO_DEEP_RECURSION", {}))
             /\ \E kind \in Kinds : ReadStart(kind) /\ StartCheckFails
    <2>1. the_error' = Error("TOO_DEEP_RECURSION", {}) /\ phase' = "failed"
      BY <1>2 DEF Reject, Terminate
    <2> QED
      BY <1>2, <2>1 DEF CausedOrAccepted, Causes
  <1>3. CASE /\ PrecheckAndForward("start") /\ depth' = depth
             /\ ~FirstOfRepeated
    BY <1>1, <1>3, <1>6, PendingCurrent, PrecheckCauses
  <1>4. CASE Forward(handler[current], "start")
    BY <1>4, ForwardCauses
  <1>5. CASE Return
    <2>1. the_error' = NoError
      BY <1>5 DEF Return
    <2> QED
      BY <2>1 DEF CausedOrAccepted, Causes
  <1> QED
    BY <1>1, <1>2, <1>3, <1>4, <1>5 DEF StartArray, StartObject

LEMMA ConcludeCauses ==
    ASSUME the_error = NoError, Conclude, Len(nest) = 1
    PROVE  CausedOrAccepted
  <1>1. the_error.type # "MISSING_REQUIRED"
    BY DEF NoError, Error
  <1>2. the_error' = NoError \/ the_error' = Error("MISSING_REQUIRED", Missing)
    BY <1>1 DEF Conclude, WithMissing
  <1>3. the_error' # NoError => phase' = "failed"
    BY DEF Conclude, Terminate
  <1> QED
    BY <1>2, <1>3 DEF CausedOrAccepted, Causes

LEMMA EndCauses ==
    ASSUME TypeOK, Inv, Event, the_error = NoError, EndArray \/ EndObject
    PROVE  CausedOrAccepted
  <1>1. depth \in Nat /\ "array" \in Kinds /\ "object" \in Kinds
    BY DEF TypeOK, Kinds
  <1>2. CASE /\ Reject(Error("TOO_MANY_LEAVES", {}))
             /\ \E kind \in Kinds :
                    ReadEnd(kind) /\ EndCheckFails(kind, Size(Last(nest)))
    <2>1. the_error' = Error("TOO_MANY_LEAVES", {}) /\ phase' = "failed"
      BY <1>2 DEF Reject, Terminate
    <2> QED
      BY <1>2, <2>1 DEF CausedOrAccepted, Causes
  <1>3. CASE PrecheckAndForward("end") /\ depth' = depth /\ ReadEnd("array")
    <2>1. Active /\ ~FirstOfRepeated
      BY <1>3 DEF ReadEnd, FirstOfRepeated
    <2> QED
      BY <1>1, <1>3, <2>1, PendingCurrent, PrecheckCauses
  <1>4. CASE Forward(handler[current], "end")
    BY <1>4, ForwardCauses
  <1>5. CASE /\ ReadEnd("object") /\ depth' = depth - 1 /\ depth' = 0
             /\ Conclude
    <2>1. Active /\ nest # <<>> /\ Last(nest).kind = "object"
      BY <1>5 DEF ReadEnd, AtRoot
    <2>2. InObject
      BY <2>1, ActivePhase
    <2>3. depth = 1
      BY <1>1, <1>5
    <2>4. Len(nest) = 1
      BY <2>1, <2>2, <2>3, DepthFacts
    <2> QED
      BY <1>5, <2>4, ConcludeCauses
  <1> QED
    BY <1>1, <1>2, <1>3, <1>4, <1>5 DEF EndArray, EndObject

(* A key never finds the handler before its object: CORRUPTED_DOM is the    *)
(* error of an impossible case.                                             *)
LEMMA KeyCauses ==
    ASSUME TypeOK, Inv, the_error = NoError, NEW k \in Keys, Key(k)
    PROVE  CausedOrAccepted
  <1>1. ~(depth <= 0)
    <2>1. Active /\ nest # <<>>
      BY DEF Key, ReadKey, KeyExpected, AtRoot
    <2>2. InObject
      BY <2>1, ActivePhase
    <2> QED
      BY <2>2, DepthFacts
  <1>2. CASE LookUp(k)
    <2>1. CASE Return
      <3>1. the_error' = NoError
        BY <2>1 DEF Return
      <3> QED
        BY <3>1 DEF CausedOrAccepted, Causes
    <2>2. CASE /\ k \notin Members /\ "DisallowUnknownKey" \in flags
               /\ Reject(Error("UNKNOWN_FIELD", {k}))
      <3>1. the_error' = Error("UNKNOWN_FIELD", {k}) /\ phase' = "failed"
        BY <2>2 DEF Reject, Terminate
      <3> QED
        BY <2>2, <3>1 DEF CausedOrAccepted, Causes
    <2> QED
      BY <1>2, <2>1, <2>2 DEF LookUp
  <1>3. CASE Forward(handler[current], "key")
    BY <1>3, ForwardCauses
  <1> QED
    BY <1>1, <1>2, <1>3 DEF Key

LEMMA EventCauses ==
    ASSUME TypeOK, Inv, Event
    PROVE  the_error = NoError /\ CausedOrAccepted
  <1>1. the_error = NoError /\ depth \in Nat
    BY EventReads, ActivePhase DEF Idle, InObject, NoVerdict, TypeOK
  <1>2. CASE Scalar
    BY <1>1, <1>2, EventReads, PendingCurrent, PrecheckCauses DEF Scalar
  <1> QED
    BY <1>1, <1>2, StartCauses, EndCauses, KeyCauses DEF Event
-------------------------------------------------------------------------------
(* The history changes in one place, and only when a member is complete.    *)
LEMMA GivenChange ==
    ASSUME nest \in Seq(Frame), GivenType, RecordMember
    PROVE  /\ \A k \in Keys : k # OpenMember => given'[k] = given[k]
           /\ ~(CompletesMember /\ phase' # "failed") => given' = given
           /\ CompletesMember /\ phase' # "failed" /\ OpenMember \in Keys =>
                  given'[OpenMember] = Append(given[OpenMember], MemberKind)
  BY DEF RecordMember, GivenType

(* Above the outermost container nothing replaces the container that the    *)
(* member's value is.                                                       *)
LEMMA SecondFrame ==
    ASSUME nest \in Seq(Frame), Len(nest) > 1, Len(nest') > 1,
           \/ ReadScalar \/ \E k \in Keys : ReadKey(k)
           \/ \E kind \in Kinds : ReadStart(kind) \/ ReadEnd(kind)
    PROVE  nest'[2].kind = nest[2].kind
  <1> DEFINE n == Len(nest)
  <1>1. n \in Nat /\ n > 1 /\ nest # <<>>
    OBVIOUS
  <1>2. 2 \in 1..n /\ (n = 2 \/ 2 \in 1..n - 1)
    <2>1. \A i \in Nat : i > 1 => 2 \in 1..i /\ (i = 2 \/ 2 \in 1..i - 1)
      OBVIOUS
    <2> HIDE DEF n
    <2> QED
      BY <1>1, <2>1
  <1>3. CASE ReadScalar
    BY <1>1, <1>2, <1>3, ReadScalarFacts
  <1>4. ASSUME NEW k \in Keys, ReadKey(k)
        PROVE  nest'[2].kind = nest[2].kind
    BY <1>1, <1>2, <1>4, ReadKeyFacts
  <1>5. ASSUME NEW kind \in Kinds, ReadStart(kind)
        PROVE  nest'[2].kind = nest[2].kind
    BY <1>1, <1>2, <1>5, ReadStartFacts
  <1>6. ASSUME NEW kind \in Kinds, ReadEnd(kind)
        PROVE  nest'[2].kind = nest[2].kind
    <2>1. /\ Len(nest') = n - 1
          /\ \A i \in 1..n - 2 : nest'[i] = nest[i]
          /\ nest'[n - 1].kind = nest[n - 1].kind
      BY <1>1, <1>6, ReadEndFacts
    <2>2. n - 1 = 2 \/ 2 \in 1..n - 2
      BY <1>1, <2>1
    <2> QED
      BY <2>1, <2>2
  <1> QED
    BY <1>3, <1>4, <1>5, <1>6

LEMMA EventIsRead ==
    ASSUME Event
    PROVE  \/ ReadScalar \/ \E k \in Keys : ReadKey(k)
           \/ \E kind \in Kinds : ReadStart(kind) \/ ReadEnd(kind)
  <1>1. "array" \in Kinds /\ "object" \in Kinds
    BY DEF Kinds
  <1> QED
    BY <1>1 DEF Event, Scalar, StartArray, EndArray, StartObject, EndObject, Key

(* precheck catches a second value of a member at its first event, unless   *)
(* that is the begin of an object.                                          *)
LEMMA RepeatIsObject ==
    ASSUME TypeOK, Inv, Event, InObject, phase' # "failed",
           "AllowDuplicateKey" \notin flags, Len(nest) = 1,
           nest[1].key # NoKey, current # NoKey, handler[current].parsed
    PROVE  nest'[2].kind = "object" /\ Len(nest') = 2
  <1>1. nest \in Seq(Frame) /\ Last(nest) = nest[1] /\ nest[1].kind = "object"
        /\ ~AtRoot /\ "object" \in Kinds
    BY DepthFacts DEF Last, AtRoot, Kinds
  <1>2. AlreadyParsed
    BY DEF AlreadyParsed
  <1>3. \A event : ~PrecheckAndForward(event)
    BY <1>2 DEF PrecheckAndForward, Reject, Terminate
  <1>4. \A k \in Keys : ~Key(k)
    BY <1>1 DEF Key, ReadKey, KeyExpected
  <1>5. ~EndArray /\ ~EndObject
    BY <1>1 DEF EndArray, EndObject, ReadEnd
  <1>6. ~Scalar /\ ~StartArray
    BY <1>3 DEF Scalar, StartArray, Reject, Terminate
  <1>7. ReadStart("object")
    BY <1>4, <1>5, <1>6 DEF Event, StartObject
  <1>8. nest'[2] = NewFrame("object") /\ Len(nest') = 2
    <2>1. Len(nest') = Len(nest) + 1 /\ nest'[Len(nest) + 1] = NewFrame("object")
      BY <1>1, <1>7, ReadStartFacts
    <2> QED
      BY <2>1
  <1> QED
    BY <1>8 DEF NewFrame

(* A second value of a member that ends is an object: it began as one.      *)
LEMMA RepeatEndsObject ==
    ASSUME TypeOK, Inv, Event, ReadOnce, InObject, phase' # "failed",
           "AllowDuplicateKey" \notin flags, CompletesMember,
           current # NoKey, given[current] # <<>>,
           current \in Members, ~Ignored(current)
    PROVE  MemberKind = "object"
  <1>1. nest \in Seq(Frame) /\ nest # <<>> /\ nest[1].key # NoKey
        /\ Len(nest') = 1 /\ Len(nest) \in Nat \ {0}
    BY DepthFacts DEF CompletesMember, AtRoot
  <1>2. CASE Len(nest) = 1
    <2>1. handler[current].open = 0
      <3>1. handler[current].open = Len(nest) - 1
        BY DEF InObject, PartsOpen, Repeated
      <3> QED
        BY <1>2, <3>1
    <2>2. handler[current].parsed
      BY <2>1 DEF ReadOnce
    <2>3. Len(nest') = 2
      BY <1>1, <1>2, <2>2, RepeatIsObject
    <2>4. 1 = 2
      BY <1>1, <2>3, Zenon
    <2> QED
      BY <2>4
  <1>3. CASE Len(nest) # 1
    <2>1. Len(nest) > 1
      BY <1>1, <1>3, OneOrMore
    <2>2. nest[2].kind = "object"
      BY <2>1 DEF ReadOnce
    <2> QED
      BY <1>3, <2>2 DEF MemberKind
  <1> QED
    BY <1>2, <1>3
-------------------------------------------------------------------------------
LEMMA AppendKinds ==
    ASSUME NEW S, NEW s \in Seq(S), NEW kind, NEW v \in S,
           \A i \in 2..Len(s) : s[i] = kind, s # <<>> => v = kind
    PROVE  \A i \in 2..Len(Append(s, v)) : Append(s, v)[i] = kind
  <1> DEFINE t == Append(s, v)
  <1>1. /\ Len(t) = Len(s) + 1 /\ Len(s) \in Nat /\ t[Len(s) + 1] = v
        /\ \A j \in 1..Len(s) : t[j] = s[j]
        /\ s # <<>> <=> Len(s) # 0
    BY AppendFacts
  <1> HIDE DEF t
  <1>2. ASSUME NEW i \in 2..Len(t) PROVE t[i] = kind
    <2>1. i \in 2..Len(s) \/ (i = Len(s) + 1 /\ Len(s) # 0)
      BY <1>1
    <2> QED
      BY <1>1, <2>1
  <1> QED
    BY <1>2 DEF t

LEMMA MemberReadOnce ==
    ASSUME TypeOK, Inv, Event, ReadOnce, Kept, phase' # "failed",
           NEW part, NEW event, MemberEvent(part, event)
    PROVE  ReadOnce'
  <1> SUFFICES ASSUME "AllowDuplicateKey" \notin flags
               PROVE  /\ \A m \in Members : ~Ignored(m)' =>
                            /\ given'[m] # <<>> =>
                                   handler'[m].parsed \/ handler'[m].open > 0
                            /\ \A i \in 2..Len(given'[m]) : given'[m][i] = "object"
                      /\ current' # NoKey /\ Len(nest') > 1
                           /\ given'[current'] # <<>> => nest'[2].kind = "object"
    BY DEF MemberEvent, ReadOnce
  <1>1. /\ InObject /\ Forward(part, event) /\ RecordMember
        /\ current' = current /\ flags' = flags /\ memberFlags' = memberFlags
        /\ nest' \in Seq(Frame) /\ nest' # <<>> /\ nest[1].key # NoKey
        /\ nest'[1].key = IF Len(nest') = 1 THEN NoKey ELSE nest[1].key
        /\ event \in Events /\ Moves(event, Len(nest), Len(nest'))
        /\ nest \in Seq(Frame) /\ nest # <<>> /\ ~AtRoot
        /\ Len(nest) \in Nat \ {0} /\ Len(nest') \in Nat \ {0}
        /\ OpenMember = nest[1].key
    BY DepthFacts, FrontFacts DEF MemberEvent, OpenMember, AtRoot
  <1>2. /\ handler \in [Members -> Part] /\ GivenType
        /\ current \in Members \cup {NoKey}
        /\ NoKey \notin Members /\ Members \subseteq Keys
    BY MemberNames DEF TypeOK, GivenType
  <1>3. current = Target(nest[1].key)
    BY <1>1 DEF InObject, Routed
  <1>4. InObject'
    <2>1. phase' = "reading"
      BY <1>1 DEF Forward, Return, Accept, Reject, Terminate
    <2> QED
      BY <2>1 DEF Kept
  <1>5. /\ \A k \in Keys : k # OpenMember => given'[k] = given[k]
        /\ ~(CompletesMember /\ phase' # "failed") => given' = given
        /\ CompletesMember /\ phase' # "failed" /\ OpenMember \in Keys =>
               given'[OpenMember] = Append(given[OpenMember], MemberKind)
    BY <1>1, <1>2, GivenChange
  <1>6. CompletesMember <=> Len(nest') = 1
    BY <1>1 DEF CompletesMember
  <1>7. ASSUME current # NoKey
        PROVE  /\ current \in Members /\ current = OpenMember
               /\ current \in Keys /\ ~Ignored(current)
               /\ handler[current].open = Len(nest) - 1
               /\ handler'[current].open = Len(nest') - 1
    <2>1. /\ current \in Members /\ current = OpenMember
          /\ current \in Keys /\ ~Ignored(current)
      BY <1>1, <1>2, <1>3, <1>7 DEF Target
    <2>2. ~Repeated(current) /\ ~Repeated(current)'
      BY <1>1 DEF Repeated
    <2>3. handler[current].open = Len(nest) - 1
      BY <1>1, <2>1, <2>2 DEF InObject, PartsOpen
    <2>4. handler'[current].open = Len(nest') - 1
      BY <1>1, <1>4, <2>1, <2>2 DEF InObject, PartsOpen
    <2> QED
      BY <2>1, <2>3, <2>4
  <1>8. ASSUME NEW m \in Members, ~Ignored(m), m # current
        PROVE  handler'[m] = handler[m] /\ given'[m] = given[m]
    <2>1. m # OpenMember
      BY <1>1, <1>3, <1>8 DEF Target
    <2>2. given'[m] = given[m]
      BY <1>2, <1>5, <2>1
    <2>3. handler'[m] = handler[m]
      <3>1. CASE current = NoKey
        BY <1>1, <3>1 DEF Forward
      <3>2. CASE current # NoKey
        <4>1. part \in Part
          BY <3>2 DEF MemberEvent, PartAt
        <4> QED
          BY <1>1, <1>2, <1>8, <3>2, <4>1, ForwardOutcome
      <3> QED
        BY <3>1, <3>2
    <2> QED
      BY <2>2, <2>3
  <1>9. ASSUME current # NoKey, Len(nest') = 1
        PROVE  handler'[current].parsed
    <2>1. /\ part = handler[current] /\ part \in Part
          /\ current \in Members /\ part.open = Len(nest) - 1
          /\ handler'[current].open = Len(nest') - 1
      BY <1>7, <1>9 DEF MemberEvent, PartAt
    <2>2. handler'[current] \in Accepted(part, event)
      BY <1>1, <1>2, <1>9, <2>1, ForwardOutcome DEF Reject, Terminate
    <2>3. PICK p \in ParsedAfter(part, event) :
              handler'[current] = [open |-> OpenAfter(part, event),
                                   parsed |-> p, error |-> FALSE]
      BY <2>2 DEF Accepted
    <2>4. part.open <= Len(nest) - 1
      BY <1>1, <2>1
    <2>5. Fits(part, event) /\ OpenAfter(part, event) = Len(nest') - 1
      BY <1>1, <2>1, <2>4, OpenArithmetic
    <2>6. OpenAfter(part, event) = 0
      BY <1>9, <2>5
    <2>7. p = TRUE
      BY <2>3, <2>5, <2>6 DEF ParsedAfter
    <2> QED
      BY <2>3, <2>7
  <1>10. ASSUME NEW m \in Members, ~Ignored(m), given'[m] # <<>>
         PROVE  handler'[m].parsed \/ handler'[m].open > 0
    <2>1. CASE m # current
      <3>1. given[m] # <<>> /\ handler'[m] = handler[m]
        BY <1>8, <1>10, <2>1
      <3> QED
        BY <1>10, <3>1 DEF ReadOnce
    <2>2. CASE m = current
      <3>1. current # NoKey
        BY <1>2, <2>2
      <3>2. CASE Len(nest') = 1
        BY <1>9, <2>2, <3>1, <3>2
      <3>3. CASE Len(nest') # 1
        <4>1. Len(nest') > 1
          BY <1>1, <3>3, OneOrMore
        <4>2. handler'[m].open = Len(nest') - 1
          BY <1>7, <2>2, <3>1
        <4> QED
          BY <1>1, <4>1, <4>2
      <3> QED
        BY <3>2, <3>3
    <2> QED
      BY <2>1, <2>2
  <1>11. ASSUME NEW m \in Members, ~Ignored(m)
         PROVE  \A i \in 2..Len(given'[m]) : given'[m][i] = "object"
    <2>1. \A i \in 2..Len(given[m]) : given[m][i] = "object"
      BY <1>11 DEF ReadOnce
    <2>2. CASE given'[m] = given[m]
      BY <2>1, <2>2
    <2>3. CASE given'[m] # given[m]
      <3>1. m = current /\ current # NoKey /\ CompletesMember
        BY <1>2, <1>5, <1>8, <1>11, <2>3
      <3>2. given'[m] = Append(given[m], MemberKind)
        BY <1>5, <1>7, <3>1
      <3>3. given[m] # <<>> => MemberKind = "object"
        BY <1>1, <1>11, <3>1, RepeatEndsObject
      <3> DEFINE S == Kinds \cup {"scalar", "earlier", MemberKind}
      <3>4. given[m] \in Seq(S)
        <4>1. given[m] \in Seq(Kinds \cup {"scalar", "earlier"})
          BY <1>2 DEF GivenType
        <4>2. Kinds \cup {"scalar", "earlier"} \subseteq S
          OBVIOUS
        <4> HIDE DEF S
        <4> QED
          BY <4>1, <4>2
      <3>5. MemberKind \in S
        OBVIOUS
      <3> HIDE DEF S
      <3> QED
        BY <2>1, <3>2, <3>3, <3>4, <3>5, AppendKinds
    <2> QED
      BY <2>2, <2>3
  <1>12. ASSUME current # NoKey, Len(nest') > 1, given'[current] # <<>>
         PROVE  nest'[2].kind = "object"
    <2>0. Len(nest') # 1
      <3>1. \A n \in Nat \ {0} : n > 1 => n # 1
        OBVIOUS
      <3> QED
        BY <1>1, <1>12, <3>1
    <2>1. given[current] # <<>>
      BY <1>5, <1>6, <1>12, <2>0, Zenon
    <2>2. CASE Len(nest) = 1
      <3>1. handler[current].open = 0
        BY <1>7, <1>12, <2>2
      <3>2. handler[current].parsed
        BY <1>7, <1>12, <2>1, <3>1 DEF ReadOnce
      <3> QED
        BY <1>1, <1>12, <2>2, <3>2, RepeatIsObject
    <2>3. CASE Len(nest) # 1
      <3>1. Len(nest) > 1
        BY <1>1, <2>3, OneOrMore
      <3>2. nest[2].kind = "object"
        BY <1>12, <2>1, <3>1 DEF ReadOnce
      <3> QED
        BY <1>1, <1>12, <3>1, <3>2, SecondFrame, EventIsRead
    <2> QED
      BY <2>2, <2>3
  <1> QED
    BY <1>1, <1>10, <1>11, <1>12 DEF Ignored

LEMMA ReadOnceStep ==
    ASSUME TypeOK, Inv, Event, ReadOnce, phase' # "failed"
    PROVE  ReadOnce'
  <1>1. nest \in Seq(Frame) /\ GivenType /\ RecordMember /\ flags' = flags
        /\ memberFlags' = memberFlags
    BY EventReads DEF TypeOK, ReaderTypeOK, GivenType, Observe
  <1>2. ~CompletesMember => given' = given
    BY <1>1, GivenChange
  <1>3. ASSUME given' = given, handler' = handler,
               current' = NoKey \/ ~(Len(nest') > 1)
        PROVE  ReadOnce'
    BY <1>1, <1>3 DEF ReadOnce, Ignored
  <1>4. CASE Begins
    BY <1>2, <1>3, <1>4 DEF Begins, Idle, CompletesMember, AtRoot
  <1>5. CASE LooksUp
    <2>1. nest'[1].key # NoKey /\ Len(nest') = 1
      BY <1>5, NoKeyAssumption DEF LooksUp
    <2>2. given' = given
      BY <1>2, <2>1 DEF CompletesMember
    <2> QED
      BY <1>3, <1>5, <2>1, <2>2 DEF LooksUp
  <1>6. CASE Ends
    <2>1. Len(nest') = 0
      BY <1>6 DEF Ends
    <2>2. given' = given
      BY <1>2, <2>1 DEF CompletesMember
    <2> QED
      BY <1>3, <1>6, <2>1, <2>2 DEF Ends
  <1>7. CASE SomeMemberEvent
    <2>1. Kept
      BY <1>7, MemberEventStep DEF SomeMemberEvent
    <2> QED
      BY <1>7, <2>1, MemberReadOnce DEF SomeMemberEvent
  <1>8. ~Refuses
    BY DEF Refuses
  <1> QED
    BY <1>4, <1>5, <1>6, <1>7, <1>8, EventKinds
-------------------------------------------------------------------------------
(* A value that is an array finds the member's handler prepared.            *)
LEMMA ArrayBegins ==
    ASSUME TypeOK, Inv, Event, InObject, phase' # "failed", Len(nest) = 1,
           current # NoKey, Len(nest') > 1, nest'[2].kind = "array"
    PROVE  /\ handler'[current].open = Len(nest') - 1
           /\ ~handler'[current].parsed
  <1>1. /\ nest \in Seq(Frame) /\ nest # <<>> /\ Last(nest) = nest[1]
        /\ nest[1].kind = "object" /\ ~AtRoot
        /\ handler \in [Members -> Part] /\ current \in Members
        /\ "object" \in Kinds /\ "array" \in Kinds
    BY DepthFacts DEF Last, AtRoot, Kinds
  <1>2. ~Scalar
    BY <1>1, ReadScalarFacts DEF Scalar
  <1>3. \A k \in Keys : ~Key(k)
    BY <1>1, ReadKeyFacts DEF Key
  <1>4. ~EndArray /\ ~EndObject
    BY <1>1, ReadEndFacts DEF EndArray, EndObject
  <1>5. ~StartObject
    <2> SUFFICES ASSUME StartObject PROVE FALSE
      OBVIOUS
    <2>1. nest'[Len(nest) + 1] = NewFrame("object")
      BY <1>1, ReadStartFacts DEF StartObject
    <2> QED
      BY <2>1 DEF NewFrame
  <1>6. ReadStart("array") /\ PrecheckAndForward("start")
    BY <1>2, <1>3, <1>4, <1>5 DEF Event, StartArray, Reject, Terminate
  <1>7. Len(nest') = 2
    BY <1>1, <1>6, ReadStartFacts
  <1>8. Prechecked \in Part /\ Prechecked.open = 0 /\ Prechecked.parsed = FALSE
    <2>1. handler[current].open \in Nat /\ handler[current].open <= Len(nest) - 1
      BY <1>1 DEF InObject, PartsOpen, Part
    <2>2. handler[current].open = 0 /\ handler[current] \in Part
      BY <1>1, <2>1
    <2>3. CASE AlreadyParsed
      BY <2>3 DEF Prechecked, Fresh, Part
    <2>4. CASE ~AlreadyParsed
      BY <2>2, <2>4 DEF Prechecked, AlreadyParsed, Part
    <2> QED
      BY <2>3, <2>4
  <1>9. Forward(Prechecked, "start")
    BY <1>6 DEF PrecheckAndForward, Reject, Terminate
  <1>10. handler'[current] \in Accepted(Prechecked, "start")
    BY <1>1, <1>8, <1>9, ForwardOutcome DEF Reject, Terminate, Events
  <1>11. PICK p \in ParsedAfter(Prechecked, "start") :
             handler'[current] = [open |-> OpenAfter(Prechecked, "start"),
                                  parsed |-> p, error |-> FALSE]
    BY <1>10 DEF Accepted
  <1>12. OpenAfter(Prechecked, "start") = 1 /\ Fits(Prechecked, "start")
    BY <1>8 DEF OpenAfter, Fits
  <1>13. p = FALSE
    <2> DEFINE part == Prechecked
    <2>1. part.parsed = FALSE /\ OpenAfter(part, "start") # 0
      BY <1>8, <1>12
    <2>2. Fits(part, "start") /\ p \in ParsedAfter(part, "start")
      BY <1>11, <1>12
    <2> HIDE DEF part
    <2> QED
      BY <2>1, <2>2 DEF ParsedAfter
  <1> QED
    BY <1>7, <1>11, <1>12, <1>13

(* A value that was read to its end left its handler parsed; only a second  *)
(* one that is an object need not.                                          *)
LEMMA MemberRemembered ==
    ASSUME TypeOK, Inv, Event, Remembered, phase' # "failed",
           NEW part, NEW event, MemberEvent(part, event)
    PROVE  Remembered'
  <1>1. /\ InObject /\ Forward(part, event) /\ RecordMember
        /\ current' = current /\ flags' = flags /\ memberFlags' = memberFlags
        /\ nest' \in Seq(Frame) /\ nest' # <<>> /\ nest[1].key # NoKey
        /\ nest'[1].key = IF Len(nest') = 1 THEN NoKey ELSE nest[1].key
        /\ event \in Events /\ Moves(event, Len(nest), Len(nest'))
        /\ nest \in Seq(Frame) /\ nest # <<>> /\ ~AtRoot
        /\ Len(nest) \in Nat \ {0} /\ Len(nest') \in Nat \ {0}
        /\ OpenMember = nest[1].key
    BY DepthFacts, FrontFacts DEF MemberEvent, OpenMember, AtRoot
  <1>2. /\ handler \in [Members -> Part] /\ GivenType
        /\ current \in Members \cup {NoKey}
        /\ NoKey \notin Members /\ Members \subseteq Keys
    BY MemberNames DEF TypeOK, GivenType
  <1>3. current = Target(nest[1].key)
    BY <1>1 DEF InObject, Routed
  <1>4. phase' = "reading"
    BY <1>1 DEF Forward, Return, Accept, Reject, Terminate
  <1>5. /\ \A k \in Keys : k # OpenMember => given'[k] = given[k]
        /\ ~(CompletesMember /\ phase' # "failed") => given' = given
        /\ CompletesMember /\ phase' # "failed" /\ OpenMember \in Keys =>
               given'[OpenMember] = Append(given[OpenMember], MemberKind)
    BY <1>1, <1>2, GivenChange
  <1>6. CompletesMember <=> Len(nest') = 1
    BY <1>1 DEF CompletesMember
  <1>7. ASSUME NEW m \in Members, ~Ignored(m), m # current
        PROVE  handler'[m] = handler[m] /\ given'[m] = given[m]
    <2>1. m # OpenMember
      BY <1>1, <1>3, <1>7 DEF Target
    <2>2. given'[m] = given[m]
      BY <1>2, <1>5, <2>1
    <2>3. handler'[m] = handler[m]
      <3>1. CASE current = NoKey
        BY <1>1, <3>1 DEF Forward
      <3>2. CASE current # NoKey
        <4>1. part \in Part
          BY <3>2 DEF MemberEvent, PartAt
        <4> QED
          BY <1>1, <1>2, <1>7, <3>2, <4>1, ForwardOutcome
      <3> QED
        BY <3>1, <3>2
    <2> QED
      BY <2>2, <2>3
  <1>8. ASSUME current # NoKey
        PROVE  /\ current \in Members /\ current = OpenMember
               /\ current \in Keys /\ ~Ignored(current)
               /\ part \in Part /\ part.open \in Nat
               /\ part.open <= Len(nest) - 1
               /\ part = handler[current]
                  \/ (/\ part = Fresh /\ handler[current].parsed
                      /\ Repeated(current))
               /\ handler[current].open # Len(nest) - 1 => Repeated(current)
               /\ handler'[current] \in Accepted(part, event)
    <2>1. /\ current \in Members /\ current = OpenMember
          /\ current \in Keys /\ ~Ignored(current)
      BY <1>1, <1>2, <1>3, <1>8 DEF Target
    <2>2. part \in Part /\ PartAt(part)
      BY <1>8 DEF MemberEvent, PartAt
    <2>3. /\ handler[current].open <= Len(nest) - 1
          /\ handler[current].open # Len(nest) - 1 => Repeated(current)
          /\ handler[current].parsed => given[current] # <<>>
      BY <1>1, <2>1 DEF InObject, PartsOpen, ParsedWereGiven
    <2>4. part = handler[current]
          \/ (part = Fresh /\ handler[current].parsed /\ Repeated(current))
      BY <2>2, <2>3 DEF PartAt, Repeated
    <2>5. part.open \in Nat /\ part.open <= Len(nest) - 1
      <3>1. CASE part = handler[current]
        BY <2>2, <2>3, <3>1 DEF Part
      <3>2. CASE part = Fresh
        <4>1. part.open = 0
          BY <3>2 DEF Fresh
        <4> QED
          BY <1>1, <4>1
      <3> QED
        BY <2>4, <3>1, <3>2
    <2>6. handler'[current] \in Accepted(part, event)
      BY <1>1, <1>2, <1>8, <2>2, ForwardOutcome DEF Reject, Terminate
    <2> QED
      BY <2>1, <2>2, <2>3, <2>4, <2>5, <2>6
  <1>9. ASSUME current # NoKey, Len(nest') = 1, part.open = Len(nest) - 1
        PROVE  handler'[current].parsed
    <2>1. part \in Part /\ handler'[current] \in Accepted(part, event)
          /\ part.open <= Len(nest) - 1
      BY <1>8, <1>9
    <2>2. PICK p \in ParsedAfter(part, event) :
              handler'[current] = [open |-> OpenAfter(part, event),
                                   parsed |-> p, error |-> FALSE]
      BY <2>1 DEF Accepted
    <2>3. Fits(part, event) /\ OpenAfter(part, event) = Len(nest') - 1
      BY <1>1, <1>9, <2>1, OpenArithmetic
    <2>4. OpenAfter(part, event) = 0
      BY <1>9, <2>3
    <2>5. p = TRUE
      BY <2>2, <2>3, <2>4 DEF ParsedAfter
    <2> QED
      BY <2>2, <2>5
  <1>10. ReadIsParsed'
    <2> SUFFICES ASSUME NEW m \in Members, Required(m), ~Ignored(m),
                        given'[m] # <<>>, ~handler'[m].parsed
                 PROVE  MaybeForgotten(m)' \/ (m = current /\ Len(nest') > 1)
      BY <1>1 DEF ReadIsParsed, Required, Ignored
    <2>1. CASE m # current
      <3>1. handler'[m] = handler[m] /\ given'[m] = given[m]
        BY <1>7, <2>1
      <3>2. MaybeForgotten(m)
        BY <2>1, <3>1 DEF Remembered, ReadIsParsed
      <3> QED
        BY <1>1, <3>1, <3>2 DEF MaybeForgotten
    <2>2. CASE m = current /\ Len(nest') # 1
      BY <1>1, <2>2, OneOrMore
    <2>3. CASE m = current /\ Len(nest') = 1
      <3>1. current # NoKey
        BY <1>2, <2>3
      <3>2. part.open # Len(nest) - 1
        BY <1>9, <2>3, <3>1
      <3>3. Repeated(current)
        BY <1>8, <3>1, <3>2
      <3>4. Len(nest) # 1
        <4> SUFFICES ASSUME Len(nest) = 1 PROVE FALSE
          OBVIOUS
        <4>1. part.open \in Nat /\ part.open <= 0
          BY <1>8, <3>1
        <4> QED
          BY <3>2, <4>1
      <3>5. Len(nest) > 1 /\ MemberKind = nest[2].kind
        BY <1>1, <3>4, OneOrMore DEF MemberKind
      <3>6. nest[2].kind # "array"
        <4> SUFFICES ASSUME nest[2].kind = "array" PROVE FALSE
          OBVIOUS
        <4>1. /\ handler[current].open = Len(nest) - 1
              /\ ~handler[current].parsed
          BY <3>1, <3>5 DEF Remembered, ArrayInStep
        <4> QED
          BY <1>8, <3>1, <3>2, <4>1
      <3>7. MemberKind = "object"
        <4>1. \A n \in Nat \ {0} : n > 1 => 2 \in 1..n
          OBVIOUS
        <4>2. 2 \in 1..Len(nest)
          BY <1>1, <3>5, <4>1
        <4>3. nest[2] \in Frame
          BY <1>1, <4>2
        <4> QED
          BY <3>5, <3>6, <4>3 DEF Frame, Kinds
      <3>8. given'[m] = Append(given[m], "object")
        BY <1>4, <1>5, <1>6, <1>8, <2>3, <3>1, <3>7
      <3>9. given[m] \in Seq(Kinds \cup {"scalar", "earlier"}) /\ given[m] # <<>>
        BY <1>2, <2>3, <3>3 DEF GivenType, Repeated
      <3>10. Len(given'[m]) > 1 /\ Last(given'[m]) = "object"
        <4>1. "object" \in Kinds \cup {"scalar", "earlier"}
          BY DEF Kinds
        <4> HIDE DEF Kinds
        <4>2. /\ Len(given'[m]) = Len(given[m]) + 1
              /\ given'[m][Len(given[m]) + 1] = "object"
          BY <3>8, <3>9, <4>1
        <4>3. Len(given[m]) \in Nat \ {0}
          BY <3>9
        <4> QED
          BY <4>2, <4>3 DEF Last
      <3> QED
        BY <1>1, <3>3, <3>10 DEF MaybeForgotten, Repeated
    <2> QED
      BY <2>1, <2>2, <2>3
  <1>11. ArrayInStep'
    <2> SUFFICES ASSUME current # NoKey, Len(nest') > 1,
                        nest'[2].kind = "array"
                 PROVE  /\ handler'[current].open = Len(nest') - 1
                        /\ ~handler'[current].parsed
      BY <1>1 DEF ArrayInStep
    <2>1. CASE Len(nest) = 1
      BY <1>1, <2>1, ArrayBegins
    <2>2. CASE Len(nest) # 1
      <3>1. Len(nest) > 1
        BY <1>1, <2>2, OneOrMore
      <3>2. nest[2].kind = "array"
        BY <1>1, <3>1, SecondFrame, EventIsRead
      <3>3. handler[current].open = Len(nest) - 1 /\ ~handler[current].parsed
        BY <3>1, <3>2 DEF Remembered, ArrayInStep
      <3>4. part = handler[current] /\ part \in Part
        BY <1>8, <3>3
      <3>5. PICK p \in ParsedAfter(part, event) :
                handler'[current] = [open |-> OpenAfter(part, event),
                                     parsed |-> p, error |-> FALSE]
        BY <1>8 DEF Accepted
      <3>6. Fits(part, event) /\ OpenAfter(part, event) = Len(nest') - 1
        BY <1>1, <1>8, <3>3, <3>4, OpenArithmetic
      <3>7. OpenAfter(part, event) # 0
        BY <1>1, <3>6
      <3>8. part.parsed = FALSE
        BY <3>3, <3>4 DEF Part
      <3>9. p = FALSE
        BY <3>5, <3>6, <3>7, <3>8 DEF ParsedAfter
      <3> QED
        BY <3>5, <3>6, <3>9
    <2> QED
      BY <2>1, <2>2
  <1> QED
    BY <1>4, <1>10, <1>11 DEF Remembered

LEMMA RememberedStep ==
    ASSUME TypeOK, Inv, Event, Remembered, phase' # "failed"
    PROVE  Remembered'
  <1>1. nest \in Seq(Frame) /\ GivenType /\ RecordMember /\ flags' = flags
        /\ memberFlags' = memberFlags
    BY EventReads DEF TypeOK, ReaderTypeOK, GivenType, Observe
  <1>2. ~CompletesMember => given' = given
    BY <1>1, GivenChange
  <1>3. ASSUME given' = given, handler' = handler, ~(Len(nest) > 1),
               ~(Len(nest') > 1),
               phase' = "complete" =>
                   \A m \in Members : Required(m) => handler[m].parsed
        PROVE  Remembered'
    <2>1. \A m \in Members : MaybeForgotten(m)' <=> MaybeForgotten(m)
      BY <1>1, <1>3 DEF MaybeForgotten
    <2>2. \A m \in Members : /\ Required(m)' <=> Required(m)
                             /\ Ignored(m)' <=> Ignored(m)
      BY <1>1 DEF Required, Ignored
    <2>3. ReadIsParsed'
      BY <1>3, <2>1, <2>2 DEF Remembered, ReadIsParsed
    <2>4. ArrayInStep'
      BY <1>3 DEF ArrayInStep
    <2> QED
      BY <1>3, <2>2, <2>3, <2>4 DEF Remembered
  <1>4. CASE Begins
    <2>1. nest = <<>> /\ Len(nest') = 1 /\ Len(nest) = 0
      BY <1>4 DEF Begins, Idle
    <2>2. given' = given /\ handler' = handler /\ phase' # "complete"
      BY <1>2, <1>4, <2>1 DEF Begins, CompletesMember, AtRoot, Return, Accept
    <2> QED
      BY <1>3, <2>1, <2>2
  <1>5. CASE LooksUp
    <2>1. nest'[1].key # NoKey /\ Len(nest') = 1 /\ Len(nest) = 1
      BY <1>5, NoKeyAssumption DEF LooksUp
    <2>2. given' = given /\ handler' = handler
      BY <1>2, <1>5, <2>1 DEF LooksUp, CompletesMember
    <2>3. nest' # <<>>
      <3>1. Len(<<>>) = 0
        OBVIOUS
      <3> QED
        BY <2>1, <3>1
    <2>4. phase' # "complete"
      BY <1>5, <2>3 DEF LooksUp, Return, Accept
    <2> QED
      BY <1>3, <2>1, <2>2, <2>4
  <1>6. CASE Ends
    <2>1. Len(nest') = 0 /\ Len(nest) = 1 /\ Missing = {}
      BY <1>6 DEF Ends
    <2>2. given' = given /\ handler' = handler
      BY <1>2, <1>6, <2>1 DEF Ends, CompletesMember
    <2>3. \A m \in Members : Required(m) => handler[m].parsed
      BY <2>1 DEF Missing
    <2> QED
      BY <1>3, <2>1, <2>2, <2>3
  <1>7. CASE SomeMemberEvent
    BY <1>7, MemberRemembered DEF SomeMemberEvent
  <1>8. ~Refuses
    BY DEF Refuses
  <1> QED
    BY <1>4, <1>5, <1>6, <1>7, <1>8, EventKinds
-------------------------------------------------------------------------------
(* The members EndObject misses are those without a value that was read,    *)
(* and those that were forgotten.                                           *)
LEMMA MissingReason ==
    ASSUME TypeOK, Inv, Event, Remembered, Len(nest) = 1
    PROVE  /\ NeverRead \subseteq Missing
           /\ \A m \in Missing \ NeverRead :
                  m \in Members /\ Required(m) /\ MaybeForgotten(m)
  <1>1. InObject
    <2>1. Len(<<>>) = 0
      OBVIOUS
    <2>2. nest # <<>>
      BY <2>1
    <2>3. Active
      BY EventReads
    <2> QED
      BY <2>2, <2>3, ActivePhase
  <1>2. NeverRead \subseteq Missing
    BY <1>1 DEF InObject, ParsedWereGiven, NeverRead, Missing
  <1>3. ASSUME NEW m \in Missing \ NeverRead
        PROVE  m \in Members /\ Required(m) /\ MaybeForgotten(m)
    <2>1. /\ m \in Members /\ Required(m) /\ ~handler[m].parsed
          /\ ~Ignored(m) /\ given[m] # <<>>
      BY <1>3 DEF Missing, NeverRead
    <2> QED
      BY <2>1 DEF Remembered, ReadIsParsed
  <1> QED
    BY <1>2, <1>3

LEMMA JustifiedStep ==
    ASSUME TypeOK, Inv, Event, Remembered, DepthExact', LeavesExact'
    PROVE  RejectionJustified'
  <1>0. /\ ~brokenOff' => DepthRejectionJustified'
        /\ uses' = 0 => LeafRejectionJustified'
    BY DEF DepthExact, LeavesExact
  <1>1. /\ nest \in Seq(Frame) /\ GivenType /\ RecordMember /\ Active
        /\ flags' = flags /\ memberFlags' = memberFlags
        /\ Causes /\ (the_error' # NoError => phase' = "failed")
        /\ Members \subseteq Keys
    BY EventReads, EventCauses, MemberNames
       DEF TypeOK, ReaderTypeOK, GivenType, Observe, CausedOrAccepted
  <1>2. phase' = "failed" => given' = given
    BY <1>1, GivenChange
  <1>3. CASE the_error' = NoError
    BY <1>0, <1>3 DEF RejectionJustified, NoError, Error
  <1>4. CASE the_error' = Error("OBJECT_MEMBER", {current_name})
    <2>1. the_error'.type = "OBJECT_MEMBER" /\ the_error' # NoError
      BY <1>4 DEF Error, NoError
    <2>2. phase' = "failed" /\ Inv'
      BY <1>1, <2>1, EventStep
    <2>3. PartFailed'
      BY <2>1, <2>2 DEF Inv, Broken
    <2> QED
      BY <1>0, <2>1, <2>3 DEF RejectionJustified
  <1>5. CASE the_error' = Error("TYPE_MISMATCH", {}) /\ depth' = 0
    BY <1>0, <1>5 DEF RejectionJustified, Error
  <1>6. CASE /\ the_error' = Error("DUPLICATE_KEYS", {current_name})
             /\ AlreadyParsed /\ "AllowDuplicateKey" \notin flags
             /\ current = current_name
    <2>1. the_error'.type = "DUPLICATE_KEYS" /\ the_error'.names = {current_name}
      BY <1>6 DEF Error
    <2>2. given' = given
      BY <1>1, <1>2, <2>1 DEF NoError, Error
    <2>3. current \in Members
      BY <1>6 DEF AlreadyParsed, TypeOK
    <2>4. ParsedWereGiven
      BY <1>1, ActivePhase DEF Idle, InObject
    <2>5. given[current_name] # <<>>
      BY <1>6, <2>3, <2>4 DEF AlreadyParsed, ParsedWereGiven
    <2> QED
      BY <1>0, <1>1, <1>6, <2>1, <2>2, <2>3, <2>5 DEF RejectionJustified
  <1>7. ASSUME NEW k \in Keys \ Members,
               the_error' = Error("UNKNOWN_FIELD", {k}),
               "DisallowUnknownKey" \in flags
        PROVE  RejectionJustified'
    BY <1>0, <1>1, <1>7 DEF RejectionJustified, Error
  <1>8. CASE the_error' = Error("MISSING_REQUIRED", Missing) /\ Len(nest) = 1
    <2>1. the_error'.type = "MISSING_REQUIRED" /\ the_error'.names = Missing
      BY <1>8 DEF Error
    <2>2. given' = given
      BY <1>1, <1>2, <2>1 DEF NoError, Error
    <2>3. /\ NeverRead \subseteq Missing
          /\ \A m \in Missing \ NeverRead :
                 m \in Members /\ Required(m) /\ MaybeForgotten(m)
      BY <1>8, MissingReason
    <2>4. NeverRead' = NeverRead
      BY <1>1, <2>2 DEF NeverRead, Required, Ignored
    <2>5. \A m \in Members : Required(m) /\ MaybeForgotten(m)
                             => Required(m)' /\ MaybeForgotten(m)'
      BY <1>1, <2>2 DEF Required, MaybeForgotten
    <2> QED
      BY <1>0, <2>1, <2>3, <2>4, <2>5 DEF RejectionJustified
  <1>9. CASE \/ the_error' = Error("TOO_DEEP_RECURSION", {})
             \/ the_error' = Error("TOO_MANY_LEAVES", {})
    BY <1>0, <1>9 DEF RejectionJustified, Error
  <1> QED
    BY <1>1, <1>3, <1>4, <1>5, <1>6, <1>7, <1>8, <1>9 DEF Causes

(* Exact depth: kept by accepted events, and what makes a rejection right.  *)
LEMMA DepthStep ==
    ASSUME TypeOK, Inv, Event, DepthFollows
    PROVE  /\ phase' # "failed" => DepthFollows'
           /\ DepthRejectionJustified'
  <1>1. nest \in Seq(Frame) /\ LimitsTypeOK /\ UNCHANGED configVars
    BY LimitsBefore
  <1>2. "array" \in Kinds /\ "object" \in Kinds
    BY DEF Kinds
  <1>3. ASSUME phase' # "failed" PROVE DepthFollows'
    <2>1. CASE Scalar \/ \E k \in Keys : Key(k)
      <3>1. UNCHANGED counterVars /\ (ReadScalar \/ \E k \in Keys : ReadKey(k))
        BY <2>1 DEF Scalar, Key
      <3> QED
        BY <1>1, <3>1, ValueDepth
    <2>2. CASE StartArray \/ StartObject
      <3>1. PICK kind \in Kinds : ReadStart(kind) /\ StartCheck(kind)
        BY <1>2, <1>3, <2>2 DEF StartArray, StartObject, Reject, Terminate
      <3> QED
        BY <1>1, <3>1, StartDepth
    <2>3. CASE EndArray \/ EndObject
      <3>1. PICK kind \in Kinds :
                ReadEnd(kind) /\ EndCheck(kind, Size(Last(nest)))
        BY <1>2, <1>3, <2>3 DEF EndArray, EndObject, Reject, Terminate
      <3> QED
        BY <1>1, <3>1, EndDepth
    <2> QED
      BY <2>1, <2>2, <2>3 DEF Event
  <1>4. ASSUME the_error'.type = "TOO_DEEP_RECURSION"
        PROVE  Len(nest') > maxDepth'
    <2>1. PICK kind \in Kinds : ReadStart(kind) /\ StartCheckFails
      BY <1>4, EventCauses DEF CausedOrAccepted, Causes, Error, NoError
    <2> QED
      BY <1>1, <2>1, StartDepth
  <1> QED
    BY <1>3, <1>4 DEF DepthRejectionJustified

(* Exact leaves, likewise.                                                  *)
LEMMA LeavesStep ==
    ASSUME TypeOK, Inv, Event, StackFollows, TotalFollows
    PROVE  /\ phase' # "failed" => StackFollows' /\ TotalFollows'
           /\ LeafRejectionJustified'
  <1>1. /\ nest \in Seq(Frame) /\ LimitsTypeOK /\ UNCHANGED configVars
        /\ CountersInStep /\ counted \in Nat /\ totalLeaves \in Nat
        /\ maxLeaves' = maxLeaves /\ Observe
    BY LimitsBefore, EventReads
  <1>2. "array" \in Kinds /\ "object" \in Kinds
    BY DEF Kinds
  <1>3. ASSUME phase' # "failed" PROVE StackFollows' /\ TotalFollows'
    <2>1. CASE Scalar \/ \E k \in Keys : Key(k)
      <3>1. UNCHANGED counterVars /\ (ReadScalar \/ \E k \in Keys : ReadKey(k))
        BY <2>1 DEF Scalar, Key
      <3>2. Len(nest') = Len(nest) /\ Len(nest) \in Nat
        <4>1. CASE ReadScalar /\ nest = <<>>
          BY <4>1 DEF ReadScalar, WithScalar
        <4> QED
          BY <1>1, <3>1, <4>1, ReadScalarFacts, ReadKeyFacts
      <3>3. ~(Len(nest') < Len(nest))
        BY <3>2
      <3>4. counted' = counted /\ totalLeaves' = totalLeaves
        BY <1>1, <3>1, <3>3 DEF Observe, counterVars
      <3> QED
        BY <1>1, <3>1, <3>4, ValueStack DEF TotalFollows
    <2>2. CASE StartArray \/ StartObject
      <3>1. PICK kind \in Kinds : ReadStart(kind) /\ StartCheck(kind)
        BY <1>2, <1>3, <2>2 DEF StartArray, StartObject, Reject, Terminate
      <3>2. Len(nest') = Len(nest) + 1 /\ Len(nest) \in Nat
        BY <1>1, <3>1, ReadStartFacts
      <3>3. ~(Len(nest') < Len(nest))
        BY <3>2
      <3>4. counted' = counted /\ totalLeaves' = totalLeaves
        BY <1>1, <3>1, <3>3 DEF Observe, StartCheck
      <3> QED
        BY <1>1, <3>1, <3>4, StartStack DEF TotalFollows
    <2>3. CASE EndArray \/ EndObject
      <3>1. PICK kind \in Kinds :
                ReadEnd(kind) /\ EndCheck(kind, Size(Last(nest)))
        BY <1>2, <1>3, <2>3 DEF EndArray, EndObject, Reject, Terminate
      <3>2. Len(nest') = Len(nest) - 1 /\ Len(nest) \in Nat
        BY <1>1, <3>1, ReadEndFacts
      <3>3. Len(nest') < Len(nest)
        BY <3>2
      <3>4. counted' = counted + OwnLeaves(Last(nest))
        BY <1>1, <3>3 DEF Observe
      <3>5. maxLeaves # Unset => totalLeaves' = totalLeaves + OwnLeaves(Last(nest))
        BY <1>1, <3>1, EndCounts
      <3> QED
        BY <1>1, <3>1, <3>4, <3>5, EndStack DEF TotalFollows
    <2> QED
      BY <2>1, <2>2, <2>3 DEF Event
  <1>4. ASSUME the_error'.type = "TOO_MANY_LEAVES"
        PROVE  counted' > maxLeaves'
    <2>1. PICK kind \in Kinds :
              ReadEnd(kind) /\ EndCheckFails(kind, Size(Last(nest)))
      BY <1>4, EventCauses DEF CausedOrAccepted, Causes, Error, NoError
    <2>2. /\ Len(nest') = Len(nest) - 1 /\ Len(nest) \in Nat /\ nest # <<>>
          /\ Last(nest).kind = kind
      BY <1>1, <2>1, ReadEndFacts DEF ReadEnd
    <2>3. Len(nest') < Len(nest)
      BY <2>2
    <2>4. counted' = counted + OwnLeaves(Last(nest))
      BY <1>1, <2>3 DEF Observe
    <2>5. /\ maxLeaves # Unset
          /\ LeavesAfterEnd(kind, Size(Last(nest))) > maxLeaves
      BY <2>1 DEF EndCheckFails, TooManyLeaves
    <2>6. LeavesAfterEnd(kind, Size(Last(nest)))
              = totalLeaves + OwnLeaves(Last(nest))
      BY <1>1, <2>2, <2>5, LeavesOfEnd
    <2>7. totalLeaves = counted
      BY <2>5 DEF TotalFollows
    <2> QED
      BY <1>1, <2>4, <2>5, <2>6, <2>7
  <1> QED
    BY <1>3, <1>4 DEF LeafRejectionJustified
-------------------------------------------------------------------------------
LEMMA NoErrorJustified ==
    ASSUME the_error' = NoError
    PROVE  /\ RejectionJustified'
           /\ DepthRejectionJustified'
           /\ LeafRejectionJustified'
  <1>1. the_error'.type = "none"
    BY DEF NoError, Error
  <1> QED
    BY <1>1 DEF RejectionJustified, DepthRejectionJustified,
                LeafRejectionJustified

LEMMA InitExact == ASSUME Init PROVE Exact
  <1>1. /\ the_error.type = "none" /\ nest = <<>> /\ Len(<<>>) = 0
        /\ given = [k \in Keys |-> <<>>] /\ current = NoKey
        /\ counted = 0 /\ jsonDepth = 0 /\ totalLeaves = 0 /\ leavesStack = <<>>
        /\ Members \subseteq Keys
    BY MemberNames DEF Init, ReaderInit, LimitsInit, NoError, Error
  <1>2. ReadOnce
    BY <1>1 DEF ReadOnce
  <1>3. RejectionJustified /\ DepthRejectionJustified /\ LeafRejectionJustified
    BY <1>1 DEF RejectionJustified, DepthRejectionJustified,
                LeafRejectionJustified
  <1>5. Remembered
    <2>1. phase = "ready" /\ current = NoKey
      BY DEF Init, ReaderInit
    <2>2. \A m \in Members : given[m] = <<>>
      BY <1>1
    <2> QED
      BY <2>1, <2>2 DEF Remembered, ReadIsParsed, ArrayInStep
  <1>4. DepthFollows /\ StackFollows /\ TotalFollows
    BY <1>1 DEF DepthFollows, StackFollows, TotalFollows
  <1> QED
    BY <1>1, <1>2, <1>3, <1>4, <1>5 DEF Exact, DepthExact, LeavesExact

LEMMA ExactEvent == ASSUME TypeOK, Inv, Exact, Event PROVE Exact'
  <1>1. /\ phase # "failed" /\ phase' # "ready" /\ ReadOnce /\ Remembered
        /\ uses' = uses /\ brokenOff' = brokenOff
    <2>1. phase' \in {"reading", "complete", "failed"}
      BY EventKinds, RefusesStep, BeginsStep, LooksUpStep, EndsStep,
         MemberEventStep DEF SomeMemberEvent, Kept
    <2> QED
      BY <2>1, EventReads DEF Active, Exact
  <1>2. phase' # "failed" => ReadOnce' /\ Remembered'
    BY <1>1, ReadOnceStep, RememberedStep
  <1>3. DepthExact'
    BY <1>1, DepthStep DEF Exact, DepthExact
  <1>4. LeavesExact'
    BY <1>1, LeavesStep DEF Exact, LeavesExact
  <1>5. RejectionJustified'
    BY <1>1, <1>3, <1>4, JustifiedStep
  <1> QED
    BY <1>2, <1>3, <1>4, <1>5 DEF Exact

LEMMA ExactReuse == ASSUME TypeOK, Inv, Exact, PrepareForReuse PROVE Exact'
  <1>1. /\ the_error' = NoError /\ nest' = <<>> /\ Len(<<>>) = 0
        /\ given' = [k \in Keys |-> <<>>] /\ current' = NoKey
        /\ jsonDepth' = jsonDepth /\ maxDepth' = maxDepth
        /\ brokenOff' = (brokenOff \/ phase \notin {"ready", "complete"})
        /\ uses' = uses + 1 /\ uses \in Nat /\ Members \subseteq Keys
    BY MemberNames
       DEF PrepareForReuse, NextText, configVars, counterVars, TypeOK
  <1>2. ReadOnce' /\ Remembered'
    <2>1. phase' = "ready"
      BY DEF PrepareForReuse, NextText
    <2> QED
      BY <1>1, <2>1 DEF ReadOnce, Remembered, ReadIsParsed, ArrayInStep
  <1>3. /\ RejectionJustified' /\ DepthRejectionJustified'
        /\ LeafRejectionJustified'
    BY <1>1, NoErrorJustified
  <1>4. DepthExact'
    <2> SUFFICES ASSUME ~brokenOff' PROVE DepthFollows'
      BY <1>3 DEF DepthExact
    <2>1. ~brokenOff /\ phase \in {"ready", "complete"}
      BY <1>1
    <2>2. nest = <<>> /\ DepthFollows
      BY <2>1 DEF Exact, DepthExact, Inv, Idle, Done
    <2> QED
      BY <1>1, <2>2 DEF DepthFollows
  <1>5. LeavesExact'
    <2>1. uses' # 0
      BY <1>1
    <2> QED
      BY <2>1 DEF LeavesExact
  <1> QED
    BY <1>2, <1>3, <1>4, <1>5 DEF Exact

(* No member's second value is open when the text that repeats them begins. *)
LEMMA ExactAgain == ASSUME TypeOK, Inv, Exact, Again PROVE Exact'
  <1>1. /\ Done /\ ReadOnce /\ phase = "complete" /\ nest' = <<>>
        /\ given' = [k \in Keys |-> IF given[k] = <<>> THEN <<>> ELSE <<"earlier">>]
        /\ uses' = uses + 1 /\ uses \in Nat /\ Members \subseteq Keys
        /\ UNCHANGED <<maxDepth, jsonDepth, flags, memberFlags, handler, current,
                       the_error, brokenOff>>
    BY MemberNames
       DEF Again, NextText, Inv, Exact, TypeOK, configVars, counterVars,
           objectVars, memberVars
  <1>2. \A m \in Members : /\ given'[m] # <<>> <=> given[m] # <<>>
                           /\ Len(given'[m]) \in {0, 1}
    BY <1>1
  <1>3. ReadOnce'
    <2>1. ~(Len(nest') > 1)
      BY <1>1
    <2>2. \A n \in {0, 1} : 2..n = {}
      OBVIOUS
    <2>3. \A m \in Members : 2..Len(given'[m]) = {}
      BY <1>2, <2>2, Zenon
    <2> QED
      BY <1>1, <1>2, <2>1, <2>3 DEF ReadOnce, Ignored
  <1>7. Remembered'
    <2>1. \A m \in Members : Required(m) => handler[m].parsed
      BY <1>1 DEF Exact, Remembered
    <2>2. phase' = "ready" /\ Len(nest') = 0
      BY <1>1 DEF Again, NextText
    <2>3. ReadIsParsed'
      BY <1>1, <2>1 DEF ReadIsParsed, Required, Ignored
    <2> QED
      BY <2>2, <2>3 DEF Remembered, ArrayInStep
  <1>4. /\ RejectionJustified' /\ DepthRejectionJustified'
        /\ LeafRejectionJustified'
    BY <1>1, NoErrorJustified DEF Done
  <1>5. DepthExact'
    <2>1. nest = <<>>
      BY <1>1 DEF Done
    <2> QED
      BY <1>1, <1>4, <2>1 DEF Exact, DepthExact, DepthFollows
  <1>6. LeavesExact'
    <2>1. uses' # 0
      BY <1>1
    <2> QED
      BY <2>1 DEF LeavesExact
  <1> QED
    BY <1>3, <1>4, <1>5, <1>6, <1>7 DEF Exact

LEMMA ExactReap == ASSUME TypeOK, Inv, Exact, ReapError PROVE Exact'
  <1>1. /\ the_error' = NoError /\ phase' = phase /\ phase = "failed"
        /\ uses' = uses /\ brokenOff' = brokenOff
    BY DEF ReapError, readerVars, historyVars, Inv, Idle, NoVerdict, InObject,
           Done, TypeOK, ReaderTypeOK, Phases
  <1>2. /\ RejectionJustified' /\ DepthRejectionJustified'
        /\ LeafRejectionJustified'
    BY <1>1, NoErrorJustified
  <1> QED
    BY <1>1, <1>2 DEF Exact, DepthExact, LeavesExact

(* The limits may be set only before a text, when the counters are zero.    *)
LEMMA ExactSetLimits == ASSUME TypeOK, Inv, Exact, SetLimits PROVE Exact'
  <1>1. /\ phase = "ready" /\ Idle /\ ReadOnce
        /\ UNCHANGED <<nest, phase, jsonDepth, totalLeaves, leavesStack, flags,
                       memberFlags, handler, current, the_error, given, uses,
                       brokenOff, counted>>
        /\ Len(<<>>) = 0
    BY DEF SetLimits, Inv, Exact, readerVars, counterVars, objectVars,
           memberVars, historyVars
  <1>2. the_error' = NoError /\ nest = <<>> /\ counted = 0
    BY <1>1 DEF Idle, NoVerdict
  <1>3. /\ RejectionJustified' /\ DepthRejectionJustified'
        /\ LeafRejectionJustified'
    BY <1>2, NoErrorJustified
  <1>4. ReadOnce' /\ Remembered'
    <2>1. Remembered /\ phase' = phase
      BY <1>1 DEF Exact
    <2> QED
      BY <1>1, <2>1 DEF ReadOnce, Ignored, Required, Remembered, ReadIsParsed,
                        ArrayInStep, MaybeForgotten
  <1>5. ~brokenOff => DepthFollows'
    <2> SUFFICES ASSUME ~brokenOff PROVE DepthFollows'
      OBVIOUS
    <2>1. jsonDepth = 0
      BY <1>1, <1>2 DEF Exact, DepthExact, DepthFollows
    <2> QED
      BY <1>1, <1>2, <2>1 DEF DepthFollows
  <1>6. uses = 0 => /\ leavesStack = <<>> /\ totalLeaves = 0
                    /\ StackFollows' /\ TotalFollows'
    BY <1>1, <1>2 DEF Exact, LeavesExact, StackFollows, TotalFollows
  <1> QED
    BY <1>1, <1>3, <1>4, <1>5, <1>6 DEF Exact, DepthExact, LeavesExact

LEMMA ExactStutter == ASSUME Exact, UNCHANGED vars PROVE Exact'
  <1>1. UNCHANGED <<nest, phase, maxDepth, maxLeaves, jsonDepth, totalLeaves,
                    leavesStack, flags, memberFlags, handler, current, depth,
                    the_error, given, uses, brokenOff, counted>>
    BY DEF vars, readerVars, configVars, counterVars, objectVars, memberVars,
           historyVars
  <1>2. ReadOnce => ReadOnce'
    BY <1>1 DEF ReadOnce, Ignored
  <1>5. Remembered => Remembered'
    BY <1>1 DEF Remembered, ReadIsParsed, ArrayInStep, MaybeForgotten, Required,
                Ignored
  <1>3. RejectionJustified => RejectionJustified'
    BY <1>1 DEF RejectionJustified, Required, Ignored, NeverRead, MaybeForgotten,
                PartFailed, DepthRejectionJustified, LeafRejectionJustified
  <1>4. /\ DepthFollows => DepthFollows'
        /\ StackFollows => StackFollows'
        /\ TotalFollows => TotalFollows'
        /\ DepthRejectionJustified => DepthRejectionJustified'
        /\ LeafRejectionJustified => LeafRejectionJustified'
    BY <1>1 DEF DepthFollows, StackFollows, TotalFollows,
                DepthRejectionJustified, LeafRejectionJustified
  <1> QED
    BY <1>1, <1>2, <1>3, <1>4, <1>5 DEF Exact, DepthExact, LeavesExact

(* The second inductive invariant, which rests on the first.                *)
THEOREM Exactness == Spec => []Exact
  <1>1. Init => Exact
    BY InitExact
  <1>2. TypeOK /\ Inv /\ Exact /\ [Next]_vars => Exact'
    BY ExactEvent, ExactReuse, ExactAgain, ExactReap, ExactSetLimits,
       ExactStutter DEF Next
  <1> QED
    BY <1>1, <1>2, Invariance, PTL DEF Spec

(* README's "duplicate keys are detected" holds for every value but an      *)
(* object: an accepted object repeats no key with a scalar or an array.     *)
THEOREM RepetitionsAreObjects == Spec => []RepeatsAreObjects
  <1>1. Exact => RepeatsAreObjects
    BY DEF Exact, ReadOnce, RepeatsAreObjects
  <1> QED
    BY <1>1, Exactness, PTL

(* Each of the eight errors of an ObjectHandler has its reason: in the text *)
(* and the flags; or in the part that refused; or, where no text was broken *)
(* off for the depth, and in the first text for the leaves, in the limits.  *)
(* The missing members it names are those without a value that was read,    *)
(* and under AllowDuplicateKey some of those last given an object again.    *)
(* CORRUPTED_DOM is the error of a case that cannot occur.                  *)
THEOREM RejectionsAreJustified == Spec => []RejectionJustified
  <1>1. Exact => RejectionJustified
    BY DEF Exact
  <1> QED
    BY <1>1, Exactness, PTL

(* The depth is counted exactly by a handler no text of which was broken    *)
(* off, the leaves in the first text, whatever is nested and however the    *)
(* limits are changed between the texts.                                    *)
THEOREM CountersAreExact == Spec => []CountersExact
  <1>1. DepthExact => DepthExactAfterCompleteTexts
    BY DEF DepthExact, DepthFollows, DepthExactAfterCompleteTexts
  <1>2. LeavesExact => LeavesExactInFirstText
    BY DEF LeavesExact, StackFollows, TotalFollows, LeavesExactInFirstText
  <1>3. Exact => CountersExact
    BY <1>1, <1>2 DEF Exact, CountersExact
  <1> QED
    BY <1>3, Exactness, PTL
-------------------------------------------------------------------------------
(* What the handler's own parent reads off it.                              *)
Verdict ==
    /\ phase # "failed" => the_error = NoError
    /\ phase = "failed" => (report = <<>> <=> the_error # NoError)
    /\ phase \in {"ready", "reading"} => parsed = again /\ report = <<>>
    /\ phase = "complete" => parsed

LEMMA VerdictGiven ==
    /\ TypeOK /\ Inv => Verdict
    /\ TypeOK' /\ Inv' => Verdict'
  <1>1. TypeOK /\ Inv => Verdict
    BY DEF TypeOK, ReaderTypeOK, Phases, Inv, Idle, InObject, NoVerdict, Done,
           Broken, Verdict
  <1>2. TypeOK' /\ Inv' => Verdict'
    BY DEF TypeOK, ReaderTypeOK, Phases, Inv, Idle, InObject, NoVerdict, Done,
           Broken, Verdict
  <1> QED
    BY <1>1, <1>2

(* A method is called while nothing was refused, and returns true or false. *)
LEMMA EventReturns ==
    ASSUME TypeOK, Inv, Event
    PROVE  /\ ReadsEvent /\ phase \in {"ready", "reading"}
           /\ report = <<>> /\ report' = <<>> /\ again' = again
           /\ phase' = "failed" \/ Accept
  <1>1. ReadsEvent /\ Active
    BY EventIsRead, EventReads DEF ReadsEvent
  <1>2. phase \in {"ready", "reading"} /\ report = <<>>
    BY <1>1, ActivePhase DEF Idle, InObject, NoVerdict
  <1>3. report' = report /\ again' = again
    BY EventReads
  <1>4. phase' = "failed" \/ Accept
    <2>1. Refuses => phase' = "failed"
      BY DEF Refuses
    <2>2. Begins \/ LooksUp \/ Ends => Accept
      BY DEF Begins, LooksUp, Ends, Return
    <2>3. SomeMemberEvent => phase' = "failed" \/ Accept
      BY DEF SomeMemberEvent, MemberEvent, Forward, Return, Reject, Terminate
    <2> QED
      BY <2>1, <2>2, <2>3, EventKinds
  <1> QED
    BY <1>1, <1>2, <1>3, <1>4

(* The promise speaks of parts as HandlerContract does.                     *)
LEMMA AnswerIsPromised ==
    ASSUME phase \in {"ready", "reading"}, Answers(AsPart, AsPart', phase')
    PROVE  Promise!Next
  <1>1. PICK event \in Events :
            /\ Fits(AsPart, event)
            /\ IF phase' = "failed" THEN AsPart' \in Rejected(AsPart, event)
               ELSE /\ AsPart' \in Accepted(AsPart, event)
                    /\ phase' = IF AsPart'.open = 0 THEN "complete"
                                ELSE "reading"
    BY DEF Answers
  <1>2. /\ event \in Promise!Events /\ Promise!Fits(AsPart, event)
        /\ Promise!Rejected(AsPart, event) = Rejected(AsPart, event)
        /\ Promise!Accepted(AsPart, event) = Accepted(AsPart, event)
    BY <1>1 DEF Promise!Events, Events, Promise!Fits, Fits, Promise!Rejected,
                Rejected, Promise!Accepted, Accepted, Promise!OpenAfter,
                OpenAfter, Promise!ParsedAfter, ParsedAfter
  <1>3. Promise!Answer(event)
    BY <1>1, <1>2 DEF Promise!Answer, Promise!Accept, Promise!Refuse
  <1> QED
    BY <1>2, <1>3 DEF Promise!Next

LEMMA EventIsPromised ==
    ASSUME TypeOK, Inv, TypeOK', Inv', Event
    PROVE  Promise!Next
  <1>1. /\ ReadsEvent /\ phase \in {"ready", "reading"}
        /\ report = <<>> /\ report' = <<>> /\ again' = again
        /\ phase' = "failed" \/ Accept
        /\ nest \in Seq(Frame) /\ phase \in Phases
    BY EventReturns DEF TypeOK, ReaderTypeOK
  <1>2. Verdict /\ Verdict' /\ parsed \in BOOLEAN /\ parsed' \in BOOLEAN
    BY VerdictGiven DEF TypeOK
  <1> DEFINE x == the_error # NoError
             y == (the_error # NoError)'
  <1>3. phase' = "failed" <=> y
    BY <1>1, <1>2 DEF Verdict
  <1>4. phase' # "failed" => IF nest' = <<>> THEN parsed' ELSE parsed' => parsed
    BY <1>1, <1>2 DEF Verdict, Accept
  <1>5. x \in BOOLEAN /\ y \in BOOLEAN
    OBVIOUS
  <1>6. AsPart = Seen(parsed, x)
        /\ AsPart' = [open |-> Len(nest'), parsed |-> parsed', error |-> y]
    BY DEF AsPart, Seen
  <1> HIDE DEF x, y
  <1>7. Answers(AsPart, AsPart', phase')
    BY <1>1, <1>2, <1>3, <1>4, <1>5, <1>6, EventAnswered
  <1> QED
    BY <1>1, <1>7, AnswerIsPromised

(* Whatever its members answer within the contract, and whatever the limits *)
(* are, an ObjectHandler answers its own parent within it, for an object    *)
(* that is repeated too: an object can be a member of an object, an element *)
(* of an array or the value of a pointer like any other part.               *)
THEOREM ContractIsKept == Spec => ContractKept
  <1>1. Init => Promise!Init
    BY DEF Init, ReaderInit, AsPart, Promise!Init, Promise!Fresh
  <1>2. TypeOK /\ Inv /\ TypeOK' /\ Inv' /\ [Next]_vars
            => [Promise!Next]_(Promise!contractedVars)
    <2> SUFFICES ASSUME TypeOK, Inv, TypeOK', Inv', [Next]_vars
                 PROVE  Promise!Next \/ UNCHANGED Promise!contractedVars
      OBVIOUS
    <2>1. CASE Event
      BY <2>1, EventIsPromised
    <2>2. CASE ReapError
      <3>1. /\ the_error # NoError /\ (the_error # NoError)' = FALSE
            /\ nest' = nest /\ phase' = phase /\ parsed' = parsed
        BY <2>2 DEF ReapError, readerVars
      <3>2. AsPart' = Promise!Reaped(AsPart)
        <4>1. AsPart \in Part /\ AsPart' \in Part
          BY DEF AsPart, Part, TypeOK, ReaderTypeOK
        <4>2. /\ AsPart'.open = AsPart.open /\ AsPart'.parsed = AsPart.parsed
              /\ AsPart'.error = FALSE
          BY <3>1 DEF AsPart
        <4> DEFINE before == AsPart
                   after == AsPart'
        <4> HIDE DEF before, after
        <4>3. /\ before \in Part /\ after \in Part
              /\ after.open = before.open /\ after.parsed = before.parsed
              /\ after.error = FALSE
          BY <4>1, <4>2 DEF before, after
        <4>4. after = Reaped(before)
          BY <4>3, OnlyErrorReaped
        <4> QED
          BY <4>4 DEF before, after, Promise!Reaped, Reaped
      <3>3. AsPart.error
        BY <3>1 DEF AsPart
      <3> QED
        BY <3>1, <3>2, <3>3 DEF Promise!Next, Promise!Reap
    <2>3. CASE PrepareForReuse
      BY <2>3 DEF PrepareForReuse, NextText, AsPart,
                  Promise!Next, Promise!PrepareForReuse, Promise!Fresh
    <2>4. CASE Again
      <3>1. /\ nest = <<>> /\ nest' = <<>>
            /\ phase = "complete" /\ phase' = "ready"
            /\ parsed' = parsed /\ the_error' = the_error
        BY <2>4 DEF Again, NextText, Inv, Done
      <3> QED
        BY <3>1 DEF AsPart, Promise!Next, Promise!Again
    <2>5. CASE SetLimits
      BY <2>5 DEF SetLimits, readerVars, AsPart, Promise!contractedVars
    <2>6. CASE UNCHANGED vars
      BY <2>6 DEF vars, readerVars, AsPart, Promise!contractedVars
    <2> QED
      BY <2>1, <2>2, <2>3, <2>4, <2>5, <2>6 DEF Next
  <1> QED
    BY <1>1, <1>2, Invariance, PTL DEF Spec, ContractKept, Promise!Spec
===============================================================================
