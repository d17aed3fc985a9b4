------------------------- MODULE JSONHandlerProofs --------------------------
(***************************************************************************)
(* For every set of keys and every bound, JSONHandler's stack holds what    *)
(* hangs together with the containers that are open, and nothing of an      *)
(* earlier text; a text in whose middle the handler was prepared is refused *)
(* before it is complete.  The list of what hangs together is, in the order *)
(* of the text, the tree that the text describes.                           *)
(***************************************************************************)
EXTENDS JSONHandler, JsonReaderTheorems

(* A list, whatever its elements.                                           *)
IsSeq(w) == w \in Seq(Range(w))

IsValue(v) ==
    /\ v = Value(v.kind, v.id, v.items)
    /\ v.kind \in ValueKinds
    /\ v.kind \in Kinds => v.id = 0

Values(w) == IsSeq(w) /\ w # <<>> /\ \A i \in 1..Len(w) : IsValue(w[i])

(* How many values lie above an open container, up to and with the slot it  *)
(* has open: the slot alone, a key and the slot, or nothing.                *)
Width(frame) ==
    IF frame.kind = "array" THEN 1 ELSE IF frame.key = NoKey THEN 0 ELSE 2

(* The containers of s above the base b lie in w at the positions at.       *)
Laid(w, s, b, at) ==
    /\ Len(s) = b => Len(w) = 1
    /\ \A i \in (b + 1)..Len(s) :
          /\ at[i] \in 1..Len(w)
          /\ i = b + 1 => at[i] = 1
          /\ at[i] <= 2 * (i - b) - 1
          /\ w[at[i]].kind = s[i].kind
          /\ at[i] + Width(s[i]) = IF i = Len(s) THEN Len(w) ELSE at[i + 1]
          /\ i # Len(s) => Width(s[i]) # 0
          /\ Width(s[i]) = 2 =>
                w[at[i] + 1].kind = "string" /\ w[at[i] + 1].id = s[i].key
          /\ s[i].kind = "array" => s[i].key = NoKey
          /\ \A j \in (b + 1)..(i - 1) : at[j] < at[i]

LaidOut(w, s, b) == \E at \in [(b + 1)..Len(s) -> 1..Len(w)] : Laid(w, s, b, at)

(* A slot that is open holds null.                                          *)
SlotOpen(w, s) == Width(s[Len(s)]) # 0 => w[Len(w)].kind = "null"

(* The b outermost containers are objects.                                  *)
ObjectsTo(b) == \A i \in 1..b : nest[i].kind = "object"

(* The handler is in step with the text: the container that is open i-th    *)
(* lies at the i-th position.  One that was parsed before the text began    *)
(* has not been prepared since, so no element or scalar was read: the text  *)
(* has come through objects alone.                                          *)
DomReads ==
    /\ LaidOut(Whole, nest, 0)
    /\ SlotOpen(Whole, nest)
    /\ parsed => repeated /\ ObjectsTo(Len(nest))

(* The handler was prepared in the middle of the text, b objects deep: it   *)
(* is filled anew as if the value that began there were the whole text.     *)
(* Either that is an array which is still open, or it is complete and no    *)
(* object, so that the b-th object's next event is refused.                 *)
DomAstray(b) ==
    /\ ObjectsTo(b)
    /\ IF Len(nest) = b
       THEN /\ parsed /\ nest[b].key = NoKey
            /\ m_stack = <<>> /\ m_value.kind # "object"
       ELSE /\ ~parsed /\ nest[b + 1].kind = "array"
            /\ LaidOut(Whole, nest, b)

(* The types, with what the handler keeps equal at all times.               *)
DomTyped ==
    /\ nest \in Seq(Frame) /\ Len(nest) <= MaxNesting /\ phase \in Phases
    /\ Values(Whole) /\ IsSeq(m_stack)
    /\ m_alloc = document /\ document \in Nat
    /\ parsed \in BOOLEAN /\ the_error \in BOOLEAN
    /\ repeated \in BOOLEAN /\ cut \in BOOLEAN
    /\ values \in 0..MaxValues /\ uses \in 0..MaxReuses
    /\ the_error <=> phase = "failed"

(* The inductive invariant.                                                 *)
DomInv ==
    /\ DomTyped
    /\ phase = "ready" => nest = <<>> /\ m_stack = <<>> /\ ~cut /\ (parsed <=> repeated)
    /\ phase = "complete" => nest = <<>> /\ m_stack = <<>> /\ ~cut /\ parsed
    /\ phase = "reading" =>
          /\ nest # <<>>
          /\ ~cut => DomReads
          /\ cut => repeated /\ \E b \in 1..Len(nest) : DomAstray(b)
    /\ phase = "failed" => cut /\ m_stack = <<>>

-------------------------------------------------------------------------------
(* Lists of values: what the operations of DomStack do to one.              *)
LEMMA SeqIntro ==
    ASSUME NEW S, NEW w \in Seq(S)
    PROVE  IsSeq(w) /\ Len(w) \in Nat /\ DOMAIN w = 1..Len(w)
  BY SeqOfRange DEF IsSeq

LEMMA SeqElim ==
    ASSUME NEW w, IsSeq(w), NEW v
    PROVE  /\ w \in Seq(Range(w) \cup {v}) /\ w \in Seq(Range(w))
           /\ Len(w) \in Nat /\ DOMAIN w = 1..Len(w)
           /\ w = <<>> <=> Len(w) = 0
  <1>1. w \in Seq(Range(w))
    BY DEF IsSeq
  <1>2. w \in Seq(Range(w) \cup {v})
    BY <1>1, SeqMonotonic
  <1> QED
    BY <1>1, <1>2

LEMMA AppendList ==
    ASSUME NEW w, IsSeq(w), NEW v
    PROVE  /\ IsSeq(Append(w, v)) /\ Append(w, v) # <<>>
           /\ Len(Append(w, v)) = Len(w) + 1
           /\ \A i \in 1..Len(w) : Append(w, v)[i] = w[i]
           /\ Append(w, v)[Len(w) + 1] = v
  <1> DEFINE S == Range(w) \cup {v}
  <1>1. w \in Seq(S) /\ v \in S
    BY SeqElim
  <1> HIDE DEF S
  <1>2. Append(w, v) \in Seq(S)
    BY <1>1
  <1>3. IsSeq(Append(w, v))
    BY <1>2, SeqIntro
  <1> QED
    BY <1>1, <1>3, AppendProperties

LEMMA FrontList ==
    ASSUME NEW w, IsSeq(w), w # <<>>
    PROVE  /\ IsSeq(Front(w)) /\ Len(Front(w)) = Len(w) - 1
           /\ \A i \in 1..(Len(w) - 1) : Front(w)[i] = w[i]
           /\ Len(w) \in Nat \ {0} /\ Top(w) = w[Len(w)]
  <1> DEFINE S == Range(w)
  <1>1. w \in Seq(S)
    BY DEF IsSeq
  <1> HIDE DEF S
  <1>2. /\ Front(w) \in Seq(S)
        /\ Len(Front(w)) = Len(w) - 1
        /\ \A i \in 1..(Len(w) - 1) : Front(w)[i] = w[i]
        /\ Len(w) \in Nat \ {0} /\ Last(w) = w[Len(w)]
    BY <1>1, FrontFacts
  <1>3. IsSeq(Front(w))
    BY <1>2, SeqIntro
  <1> QED
    BY <1>2, <1>3 DEF Top

LEMMA SetTopList ==
    ASSUME NEW w, IsSeq(w), w # <<>>, NEW v
    PROVE  /\ IsSeq(SetTop(w, v)) /\ SetTop(w, v) # <<>>
           /\ Len(SetTop(w, v)) = Len(w)
           /\ \A i \in 1..(Len(w) - 1) : SetTop(w, v)[i] = w[i]
           /\ SetTop(w, v)[Len(w)] = v
           /\ Top(SetTop(w, v)) = v
  <1> DEFINE f == Front(w)
  <1>1. /\ IsSeq(f) /\ Len(f) = Len(w) - 1 /\ Len(w) \in Nat \ {0}
        /\ \A i \in 1..(Len(w) - 1) : f[i] = w[i]
    BY FrontList
  <1> HIDE DEF f
  <1>2. SetTop(w, v) = Append(f, v)
    BY DEF SetTop, f
  <1>3. /\ IsSeq(Append(f, v)) /\ Append(f, v) # <<>>
        /\ Len(Append(f, v)) = Len(f) + 1
        /\ \A i \in 1..Len(f) : Append(f, v)[i] = f[i]
        /\ Append(f, v)[Len(f) + 1] = v
    BY <1>1, AppendList
  <1>4. Len(f) + 1 = Len(w)
    BY <1>1
  <1>5. Top(Append(f, v)) = v
    BY <1>3, <1>4 DEF Top, Last
  <1> QED
    BY <1>1, <1>2, <1>3, <1>4, <1>5

LEMMA ListEqual ==
    ASSUME NEW w, NEW u, IsSeq(w), IsSeq(u), Len(w) = Len(u),
           \A i \in 1..Len(w) : w[i] = u[i]
    PROVE  w = u
  <1>1. w \in Seq(Range(w)) /\ u \in Seq(Range(u))
    BY DEF IsSeq
  <1>2. w \in Seq(Range(w) \cup Range(u)) /\ u \in Seq(Range(w) \cup Range(u))
    BY <1>1, SeqMonotonic
  <1> QED
    BY <1>2, SeqEqual

LEMMA SingletonList ==
    ASSUME NEW v
    PROVE  /\ IsSeq(<<v>>) /\ <<v>> # <<>> /\ Len(<<v>>) = 1 /\ <<v>>[1] = v
           /\ Top(<<v>>) = v /\ IsSeq(<<>>) /\ Len(<<>>) = 0
  <1>1. <<v>> \in Seq({v}) /\ <<>> \in Seq({v})
    OBVIOUS
  <1>2. IsSeq(<<v>>) /\ IsSeq(<<>>)
    BY <1>1, SeqIntro
  <1> QED
    BY <1>2 DEF Top, Last

(* *m_value is the first, and m_stack the rest.                             *)
LEMMA HeadAndTail ==
    ASSUME NEW w, IsSeq(w), w # <<>>
    PROVE  /\ <<Head(w)>> \o Tail(w) = w
           /\ IsSeq(Tail(w)) /\ Len(Tail(w)) = Len(w) - 1
           /\ Head(w) = w[1] /\ (Tail(w) = <<>> <=> Len(w) = 1)
  <1>1. w \in Seq(Range(w)) /\ Len(w) \in Nat \ {0}
    BY FrontList DEF IsSeq
  <1>2. /\ Tail(w) \in Seq(Range(w)) /\ Len(Tail(w)) = Len(w) - 1
        /\ \A i \in 1..Len(Tail(w)) : Tail(w)[i] = w[i + 1]
        /\ Head(w) = w[1] /\ Head(w) \in Range(w)
    BY <1>1, HeadTailProperties
  <1>3. IsSeq(Tail(w)) /\ (Tail(w) = <<>> <=> Len(w) = 1)
    <2>1. IsSeq(Tail(w))
      BY <1>2, SeqIntro
    <2>2. Tail(w) = <<>> <=> Len(Tail(w)) = 0
      BY <2>1, SeqElim
    <2> QED
      BY <1>1, <1>2, <2>1, <2>2
  <1> DEFINE h == <<Head(w)>>
             c == h \o Tail(w)
  <1>4. h \in Seq(Range(w)) /\ Len(h) = 1 /\ h[1] = w[1]
    BY <1>2
  <1> HIDE DEF h
  <1>5. /\ c \in Seq(Range(w)) /\ Len(c) = Len(w)
        /\ \A i \in 1..Len(w) : c[i] = IF i <= 1 THEN h[i] ELSE Tail(w)[i - 1]
    <2> DEFINE t == Tail(w)
    <2>1. h \in Seq(Range(w)) /\ t \in Seq(Range(w))
      BY <1>2, <1>4
    <2> HIDE DEF t
    <2>2. /\ h \o t \in Seq(Range(w)) /\ Len(h \o t) = Len(h) + Len(t)
          /\ \A i \in 1..Len(h) + Len(t) :
                 (h \o t)[i] = IF i <= Len(h) THEN h[i] ELSE t[i - Len(h)]
      BY <2>1, ConcatProperties
    <2>3. Len(h) + Len(t) = Len(w) /\ Len(h) = 1
      BY <1>1, <1>2, <1>4 DEF t
    <2> QED
      BY <2>2, <2>3 DEF t
  <1>6. \A i \in 1..Len(w) : c[i] = w[i]
    <2> SUFFICES ASSUME NEW i \in 1..Len(w) PROVE c[i] = w[i]
      OBVIOUS
    <2>1. CASE i = 1
      BY <1>4, <1>5, <2>1
    <2>2. CASE i # 1
      <3>1. i - 1 \in 1..Len(Tail(w)) /\ (i - 1) + 1 = i /\ ~(i <= 1)
        BY <1>1, <1>2, <2>2
      <3> QED
        BY <1>2, <1>5, <3>1
    <2> QED
      BY <2>1, <2>2
  <1>7. c = w
    BY <1>1, <1>5, <1>6, SeqEqual
  <1> QED
    BY <1>2, <1>3, <1>7 DEF h

LEMMA ListOf ==
    ASSUME NEW v, NEW s, IsSeq(s)
    PROVE  /\ IsSeq(<<v>> \o s) /\ <<v>> \o s # <<>>
           /\ Len(<<v>> \o s) = Len(s) + 1
           /\ (<<v>> \o s)[1] = v
           /\ \A i \in 1..Len(s) : (<<v>> \o s)[i + 1] = s[i]
           /\ Len(<<v>> \o s) = 1 <=> s = <<>>
           /\ s = <<>> => <<v>> \o s = <<v>>
  <1> DEFINE S == Range(s) \cup {v}
             h == <<v>>
  <1>1. s \in Seq(S) /\ Len(s) \in Nat /\ (s = <<>> <=> Len(s) = 0)
    BY SeqElim
  <1>2. v \in S
    OBVIOUS
  <1> HIDE DEF S
  <1>3. h \in Seq(S) /\ Len(h) = 1 /\ h[1] = v
    BY <1>2
  <1> HIDE DEF h
  <1>4. s = <<>> => h \o s = h
    BY <1>1, <1>3, ConcatEmptySeq
  <1>5. /\ h \o s \in Seq(S) /\ Len(h \o s) = Len(h) + Len(s)
        /\ \A i \in 1..Len(h) + Len(s) :
               (h \o s)[i] = IF i <= Len(h) THEN h[i] ELSE s[i - Len(h)]
    BY <1>1, <1>3, ConcatProperties
  <1>6. /\ Len(h \o s) = Len(s) + 1 /\ (h \o s)[1] = v
        /\ \A i \in 1..Len(s) : (h \o s)[i + 1] = s[i]
    <2>1. Len(h \o s) = Len(s) + 1 /\ (h \o s)[1] = v
      BY <1>1, <1>3, <1>5
    <2>2. \A i \in 1..Len(s) : /\ i + 1 \in 1..Len(h) + Len(s)
                               /\ ~(i + 1 <= Len(h)) /\ (i + 1) - Len(h) = i
      BY <1>1, <1>3
    <2>3. \A i \in 1..Len(s) : (h \o s)[i + 1] = s[i]
      BY <1>5, <2>2
    <2> QED
      BY <2>1, <2>3
  <1>7. IsSeq(h \o s) /\ (h \o s = <<>> <=> Len(h \o s) = 0)
    <2>1. IsSeq(h \o s)
      BY <1>5, SeqIntro
    <2> QED
      BY <2>1, SeqElim
  <1> QED
    BY <1>1, <1>4, <1>6, <1>7 DEF h

LEMMA HoldsFacts ==
    ASSUME NEW v, IsValue(v), NEW item
    PROVE  /\ Holds(v, item) = Value(v.kind, v.id, Append(v.items, item))
           /\ Holds(v, item).kind = v.kind /\ Holds(v, item).id = v.id
           /\ IsValue(Holds(v, item))
  <1> DEFINE kind == v.kind
             id == v.id
             items == v.items
  <1>1. v = [kind |-> kind, id |-> id, items |-> items]
    BY DEF IsValue, Value
  <1>2. kind \in ValueKinds /\ (kind \in Kinds => id = 0)
    BY DEF IsValue
  <1> HIDE DEF kind, id, items
  <1>3. Holds(v, item) = [kind |-> kind, id |-> id, items |-> Append(items, item)]
    BY <1>1 DEF Holds
  <1> DEFINE u == [kind |-> kind, id |-> id, items |-> Append(items, item)]
  <1>4. u.kind = kind /\ u.id = id /\ u.items = Append(items, item)
    OBVIOUS
  <1>5. u = Value(u.kind, u.id, u.items)
    BY <1>4 DEF Value
  <1> HIDE DEF u
  <1>6. IsValue(u)
    BY <1>2, <1>4, <1>5 DEF IsValue
  <1>7. Holds(v, item) = u
    BY <1>3 DEF u
  <1>8. u = Value(kind, id, Append(items, item))
    BY DEF u, Value
  <1> QED
    BY <1>4, <1>6, <1>7, <1>8 DEF kind, id, items

LEMMA ValueFacts ==
    /\ IsValue(NullValue) /\ NullValue.kind = "null"
    /\ \A kind \in Kinds : IsValue(Empty(kind)) /\ Empty(kind).kind = kind
    /\ \A kind \in {"string", "null"} : \A id :
          /\ IsValue(Value(kind, id, <<>>)) /\ Value(kind, id, <<>>).kind = kind
          /\ Value(kind, id, <<>>).id = id
  BY DEF IsValue, NullValue, Empty, Value, ValueKinds, Kinds

(* A value completed in an array, in the slot after the array's own.        *)
LEMMA PostArray ==
    ASSUME NEW w, Values(w), NEW a \in Nat \ {0}, Len(w) = a + 1,
           w[a].kind = "array"
    PROVE  \E x : /\ Postprocess(w) = Result(x, "open")
                  /\ IsSeq(x) /\ Len(x) = a + 1
                  /\ \A i \in 1..(a - 1) : x[i] = w[i]
                  /\ x[a] = Holds(w[a], Item(NoKey, w[a + 1]))
                  /\ x[a + 1] = NullValue
  <1> DEFINE rest == Front(w)
             h == Holds(w[a], Item(NoKey, w[a + 1]))
             y == SetTop(rest, h)
             x == Append(y, NullValue)
  <1>1. /\ IsSeq(w) /\ w # <<>> /\ Len(w) = a + 1 /\ Len(w) # 1 /\ Len(w) > 1
        /\ (a + 1) - 1 = a
    BY DEF Values
  <1>2. /\ IsSeq(rest) /\ Len(rest) = a /\ \A i \in 1..a : rest[i] = w[i]
        /\ Top(w) = w[a + 1]
    BY <1>1, FrontList
  <1>3. Pop(w) = rest
    BY <1>1 DEF Pop
  <1> HIDE DEF rest
  <1>4. rest # <<>> /\ rest[a] = w[a]
    BY <1>2, SeqElim
  <1>5. Top(rest) = w[a]
    BY <1>2, <1>4, FrontList
  <1> HIDE DEF h
  <1>6. /\ IsSeq(y) /\ y # <<>> /\ Len(y) = a /\ y[a] = h
        /\ \A i \in 1..(a - 1) : y[i] = rest[i]
    BY <1>2, <1>4, SetTopList
  <1>7. Postprocess(w) = Result(x, "open")
    <2>1. Top(rest).kind = "array"
      BY <1>5
    <2>2. Top(rest).kind # "string"
      BY <2>1
    <2>3. Postprocess(w)
            = Result(NextSlot(SetTop(rest, Holds(Top(rest), Item(NoKey, Top(w))))),
                     "open")
      BY <1>1, <1>3, <2>1, <2>2 DEF Postprocess
    <2> QED
      BY <1>2, <1>5, <2>3 DEF NextSlot, Push, h
  <1> HIDE DEF y
  <1>8. /\ IsSeq(x) /\ Len(x) = a + 1 /\ x[a + 1] = NullValue
        /\ \A i \in 1..a : x[i] = y[i]
    BY <1>6, AppendList
  <1> HIDE DEF x
  <1>9. x[a] = h /\ \A i \in 1..(a - 1) : x[i] = w[i]
    BY <1>2, <1>6, <1>8
  <1> QED
    BY <1>7, <1>8, <1>9 DEF h

(* A value completed in an object, above the key and the object.            *)
LEMMA PostMember ==
    ASSUME NEW w, Values(w), NEW a \in Nat \ {0}, Len(w) = a + 2,
           w[a].kind = "object", w[a + 1].kind = "string"
    PROVE  \E x : /\ Postprocess(w) = Result(x, "open")
                  /\ IsSeq(x) /\ Len(x) = a
                  /\ \A i \in 1..(a - 1) : x[i] = w[i]
                  /\ x[a] = Holds(w[a], Item(w[a + 1].id, w[a + 2]))
  <1> DEFINE rest == Front(w)
             below == Front(rest)
             h == Holds(w[a], Item(w[a + 1].id, w[a + 2]))
             x == SetTop(below, h)
  <1>1. /\ IsSeq(w) /\ w # <<>> /\ Len(w) = a + 2 /\ Len(w) # 1 /\ Len(w) > 1
        /\ (a + 2) - 1 = a + 1 /\ (a + 1) - 1 = a /\ a + 1 # 1
    BY DEF Values
  <1>2. /\ IsSeq(rest) /\ Len(rest) = a + 1
        /\ \A i \in 1..(a + 1) : rest[i] = w[i]
        /\ Top(w) = w[a + 2]
    BY <1>1, FrontList
  <1>3. Pop(w) = rest
    BY <1>1 DEF Pop
  <1> HIDE DEF rest
  <1>4. rest # <<>> /\ rest[a + 1] = w[a + 1]
    BY <1>2, SeqElim
  <1>5. /\ Top(rest) = w[a + 1]
        /\ IsSeq(below) /\ Len(below) = a /\ \A i \in 1..a : below[i] = rest[i]
    <2>1. /\ IsSeq(below) /\ Len(below) = Len(rest) - 1
          /\ \A i \in 1..(Len(rest) - 1) : below[i] = rest[i]
          /\ Top(rest) = rest[Len(rest)]
      BY <1>2, <1>4, FrontList
    <2>2. Len(rest) = a + 1 /\ Len(rest) - 1 = a
      BY <1>1, <1>2
    <2> HIDE DEF below
    <2> QED
      BY <1>4, <2>1, <2>2
  <1>6. KeyRemoved(rest) = below
    BY <1>1, <1>2 DEF KeyRemoved, Pop
  <1> HIDE DEF below
  <1>7. below # <<>> /\ below[a] = w[a]
    BY <1>2, <1>5, SeqElim
  <1>8. Top(below) = w[a]
    BY <1>5, <1>7, FrontList
  <1> HIDE DEF h
  <1>9. /\ IsSeq(x) /\ Len(x) = a /\ x[a] = h
        /\ \A i \in 1..(a - 1) : x[i] = below[i]
    BY <1>5, <1>7, SetTopList
  <1>10. Postprocess(w) = Result(x, "open")
    <2>1. Top(rest).kind = "string" /\ Top(below).kind = "object"
      BY <1>5, <1>8
    <2>2. Top(rest).kind # "array"
      BY <2>1
    <2>3. Postprocess(w)
            = Result(SetTop(below, Holds(Top(below), Item(Top(rest).id, Top(w)))),
                     "open")
      BY <1>1, <1>3, <1>6, <2>1, <2>2 DEF Postprocess
    <2> QED
      BY <1>2, <1>5, <1>8, <2>3 DEF h
  <1> HIDE DEF x
  <1>11. \A i \in 1..(a - 1) : x[i] = w[i]
    BY <1>2, <1>5, <1>9
  <1> QED
    BY <1>9, <1>10, <1>11 DEF h

LEMMA PostRoot ==
    ASSUME NEW w, Len(w) = 1
    PROVE  Postprocess(w) = Result(w, "parsed")
  <1>1. Len(w) = 1 /\ ~(Len(w) > 1)
    OBVIOUS
  <1> QED
    BY <1>1 DEF Postprocess

-------------------------------------------------------------------------------
(* What the reader's events do to the containers that lie in a list.        *)
LEMMA WidthFacts ==
    ASSUME NEW f
    PROVE  /\ Width(f) \in {0, 1, 2}
           /\ Width(f) = 1 <=> f.kind = "array"
           /\ Width(f) = 0 <=> f.kind # "array" /\ f.key = NoKey
           /\ Width(f) = 2 <=> f.kind # "array" /\ f.key # NoKey
  BY DEF Width

(* The innermost container is the n-th: it lies on top, and nothing above   *)
(* it belongs to one around it.                                             *)
Innermost(w, s, b, at, n) ==
    /\ n \in (b + 1)..n /\ Len(w) \in Nat \ {0}
    /\ at[n] \in 1..Len(w) /\ at[n] + Width(s[n]) = Len(w)
    /\ at[n] <= 2 * (n - b) - 1
    /\ w[at[n]].kind = s[n].kind
    /\ s[n].kind = "array" => s[n].key = NoKey
    /\ Width(s[n]) = 2 =>
           w[at[n] + 1].kind = "string" /\ w[at[n] + 1].id = s[n].key
    /\ \A i \in (b + 1)..(n - 1) :
           /\ i \in (b + 1)..n /\ at[i] \in Nat \ {0} /\ at[i] < at[n]
           /\ Width(s[i]) = 2 => at[i] + 1 < at[n]

LEMMA LaidFacts ==
    ASSUME NEW w, Values(w), NEW s \in Seq(Frame), NEW b \in Nat, NEW at,
           Laid(w, s, b, at), b < Len(s)
    PROVE  Innermost(w, s, b, at, Len(s))
  <1> PICK n : n = Len(s)
    OBVIOUS
  <1> b < n
    OBVIOUS
  <1>1. n \in Nat /\ n \in (b + 1)..n /\ b < n
    OBVIOUS
  <1>2. Len(w) \in Nat \ {0}
    BY FrontList DEF Values
  <1>3. \A i \in (b + 1)..n :
            /\ at[i] \in 1..Len(w)
            /\ at[i] <= 2 * (i - b) - 1
            /\ w[at[i]].kind = s[i].kind
            /\ at[i] + Width(s[i]) = IF i = n THEN Len(w) ELSE at[i + 1]
            /\ Width(s[i]) = 2 =>
                  w[at[i] + 1].kind = "string" /\ w[at[i] + 1].id = s[i].key
            /\ s[i].kind = "array" => s[i].key = NoKey
            /\ \A j \in (b + 1)..(i - 1) : at[j] < at[i]
    BY DEF Laid
  <1>4. /\ at[n] \in 1..Len(w) /\ at[n] + Width(s[n]) = Len(w)
        /\ at[n] <= 2 * (n - b) - 1
        /\ w[at[n]].kind = s[n].kind
        /\ s[n].kind = "array" => s[n].key = NoKey
        /\ Width(s[n]) = 2 =>
               w[at[n] + 1].kind = "string" /\ w[at[n] + 1].id = s[n].key
        /\ \A j \in (b + 1)..(n - 1) : at[j] < at[n]
    BY <1>1, <1>3
  <1>5. ASSUME NEW i \in (b + 1)..(n - 1)
        PROVE  /\ i \in (b + 1)..n /\ at[i] \in Nat \ {0} /\ at[i] < at[n]
               /\ Width(s[i]) = 2 => at[i] + 1 < at[n]
    <2>1. i \in (b + 1)..n /\ i # n /\ i + 1 \in (b + 1)..n
          /\ (i + 1 = n \/ i + 1 \in (b + 1)..(n - 1))
      BY <1>1, <1>5
    <2>2. at[i] \in 1..Len(w) /\ at[i + 1] \in 1..Len(w) /\ at[n] \in 1..Len(w)
      BY <1>3, <1>4, <2>1
    <2>3. at[i] + Width(s[i]) = at[i + 1] /\ at[i + 1] <= at[n] /\ at[i] < at[n]
      <3>1. at[i] + Width(s[i]) = at[i + 1]
        BY <1>3, <2>1
      <3>2. at[i] < at[n]
        BY <1>4, <1>5
      <3>3. CASE i + 1 = n
        BY <2>2, <3>1, <3>2, <3>3
      <3>4. CASE i + 1 \in (b + 1)..(n - 1)
        <4>1. at[i + 1] < at[n]
          BY <1>4, <3>4
        <4> QED
          BY <2>2, <3>1, <3>2, <4>1
      <3> QED
        BY <2>1, <3>3, <3>4
    <2> QED
      BY <1>2, <2>1, <2>2, <2>3
  <1>6. Innermost(w, s, b, at, n)
    BY <1>1, <1>2, <1>4, <1>5 DEF Innermost
  <1> QED
    BY <1>6

(* A value goes into the innermost container of s; the containers around it *)
(* stay as they are.                                                        *)
Completes(s, t) ==
    /\ Len(t) = Len(s) /\ \A i \in 1..(Len(s) - 1) : t[i] = s[i]
    /\ t[Len(s)].kind = s[Len(s)].kind /\ t[Len(s)].key = NoKey

Filled(w, x, s, at, v) ==
    /\ \A i \in 1..(at[Len(s)] - 1) : x[i] = w[i]
    /\ x[at[Len(s)]] = Holds(w[at[Len(s)]], Item(s[Len(s)].key, v))

LEMMA LaidValue ==
    ASSUME NEW w, Values(w), NEW s \in Seq(Frame), NEW t \in Seq(Frame),
           NEW b \in Nat, NEW at, Laid(w, s, b, at),
           b < Len(s), Width(s[Len(s)]) # 0, Completes(s, t)
    PROVE  \E x : /\ Postprocess(w) = Result(x, "open")
                  /\ Values(x) /\ Laid(x, t, b, at) /\ SlotOpen(x, t)
                  /\ Filled(w, x, s, at, w[Len(w)])
  <1> PICK n : n = Len(s)
    OBVIOUS
  <1> b < n
    OBVIOUS
  <1>1. /\ n \in (b + 1)..n /\ Len(w) \in Nat \ {0}
        /\ at[n] \in 1..Len(w) /\ at[n] + Width(s[n]) = Len(w)
        /\ at[n] <= 2 * (n - b) - 1
        /\ w[at[n]].kind = s[n].kind
        /\ s[n].kind = "array" => s[n].key = NoKey
        /\ Width(s[n]) = 2 =>
               w[at[n] + 1].kind = "string" /\ w[at[n] + 1].id = s[n].key
        /\ \A i \in (b + 1)..(n - 1) :
               /\ i \in (b + 1)..n /\ at[i] \in Nat \ {0} /\ at[i] < at[n]
               /\ Width(s[i]) = 2 => at[i] + 1 < at[n]
    <2>1. Innermost(w, s, b, at, n)
      BY LaidFacts
    <2> QED
      BY <2>1 DEF Innermost
  <1> /\ Width(s[n]) # 0
      /\ Len(t) = n /\ \A i \in 1..(n - 1) : t[i] = s[i]
      /\ t[n].kind = s[n].kind /\ t[n].key = NoKey
    BY DEF Completes
  <1> DEFINE a == at[n]
  <1>2. /\ n \in (b + 1)..n /\ n \in Nat /\ Len(w) \in Nat \ {0}
        /\ a \in 1..Len(w) /\ a \in Nat \ {0} /\ a + Width(s[n]) = Len(w)
        /\ w[a].kind = s[n].kind
        /\ s[n].kind = "array" => s[n].key = NoKey
        /\ Width(s[n]) = 2 =>
               w[a + 1].kind = "string" /\ w[a + 1].id = s[n].key
        /\ \A i \in (b + 1)..(n - 1) :
               /\ i \in (b + 1)..n /\ at[i] \in Nat \ {0} /\ at[i] < a
               /\ Width(s[i]) = 2 => at[i] + 1 < a
    <2>2. n \in Nat /\ at[n] \in Nat \ {0}
      BY <1>1
    <2> QED
      BY <1>1, <2>2
  <1>3. s[n] \in Frame /\ s[n].kind \in {"array", "object"}
    <2>1. n \in 1..Len(s)
      BY <1>2
    <2>2. s[n] \in Frame
      BY <2>1, ElementOfSeq
    <2> QED
      BY <2>2 DEF Frame, Kinds
  <1>4. \A i \in 1..Len(w) : IsValue(w[i])
    BY DEF Values
  <1> DEFINE h == Holds(w[a], Item(s[n].key, w[Len(w)]))
  <1>5. IsValue(h) /\ h.kind = s[n].kind
    BY <1>2, <1>4, HoldsFacts
  <1> HIDE DEF h, a
  <1>6. ASSUME NEW x, IsSeq(x), Len(x) = a + Width(t[n]), Len(x) <= Len(w),
               \A i \in 1..(a - 1) : x[i] = w[i], x[a] = h,
               Width(t[n]) \in {0, 1},
               Width(t[n]) = 1 => x[a + 1] = NullValue
        PROVE  Values(x) /\ Laid(x, t, b, at) /\ SlotOpen(x, t)
    <2>1. \A i \in 1..Len(x) : i \in 1..(a - 1) \/ i = a
                               \/ (Width(t[n]) = 1 /\ i = a + 1)
      BY <1>2, <1>6
    <2>2. \A i \in 1..(a - 1) : i \in 1..Len(w)
      BY <1>2
    <2>3. \A i \in 1..Len(x) : IsValue(x[i])
      BY <1>4, <1>5, <1>6, <2>1, <2>2, ValueFacts
    <2>4. x # <<>> /\ Len(x) \in Nat \ {0}
      BY <1>2, <1>6, SeqElim
    <2>5. Values(x)
      BY <1>6, <2>3, <2>4 DEF Values
    <2>6. SlotOpen(x, t)
      <3>1. Width(t[n]) # 0 => Len(x) = a + 1 /\ x[a + 1].kind = "null"
        BY <1>2, <1>6, ValueFacts
      <3> QED
        BY <3>1 DEF SlotOpen
    <2>7. ASSUME NEW i \in (b + 1)..n
          PROVE  /\ at[i] \in 1..Len(x)
                 /\ i = b + 1 => at[i] = 1
                 /\ at[i] <= 2 * (i - b) - 1
                 /\ x[at[i]].kind = t[i].kind
                 /\ at[i] + Width(t[i]) = IF i = n THEN Len(x) ELSE at[i + 1]
                 /\ i # n => Width(t[i]) # 0
                 /\ Width(t[i]) = 2 =>
                        x[at[i] + 1].kind = "string" /\ x[at[i] + 1].id = t[i].key
                 /\ t[i].kind = "array" => t[i].key = NoKey
                 /\ \A j \in (b + 1)..(i - 1) : at[j] < at[i]
      <3>1. /\ at[i] \in 1..Len(w)
            /\ i = b + 1 => at[i] = 1
            /\ at[i] <= 2 * (i - b) - 1
            /\ w[at[i]].kind = s[i].kind
            /\ at[i] + Width(s[i]) = IF i = n THEN Len(w) ELSE at[i + 1]
            /\ i # n => Width(s[i]) # 0
            /\ Width(s[i]) = 2 =>
                   w[at[i] + 1].kind = "string" /\ w[at[i] + 1].id = s[i].key
            /\ s[i].kind = "array" => s[i].key = NoKey
            /\ \A j \in (b + 1)..(i - 1) : at[j] < at[i]
        BY <2>7 DEF Laid
      <3>2. CASE i = n
        <4>1. at[n] = a /\ a \in 1..Len(x)
          BY <1>2, <1>6 DEF a
        <4> QED
          BY <1>5, <1>6, <3>1, <3>2, <4>1
      <3>3. CASE i # n
        <4>1. i \in (b + 1)..(n - 1) /\ i \in 1..(n - 1)
          BY <1>2, <2>7, <3>3
        <4>2. t[i] = s[i] /\ at[i] \in 1..(a - 1) /\ at[i] \in 1..Len(x)
          BY <1>2, <1>6, <4>1
        <4>3. x[at[i]] = w[at[i]]
          BY <1>6, <4>2
        <4>4. Width(s[i]) = 2 => x[at[i] + 1] = w[at[i] + 1]
          <5>1. Width(s[i]) = 2 => at[i] + 1 \in 1..(a - 1)
            <6>1. at[i] \in Nat /\ a \in Nat
              BY <1>2, <4>2
            <6>2. Width(s[i]) = 2 => at[i] + 1 < a
              BY <1>2, <4>1
            <6> QED
              BY <6>1, <6>2
          <5> QED
            BY <1>6, <5>1
        <4> QED
          BY <3>1, <3>3, <4>2, <4>3, <4>4
      <3> QED
        BY <3>2, <3>3
    <2>8. Laid(x, t, b, at)
      <3>1. Len(t) = n /\ ~(n = b)
        BY <1>2
      <3> QED
        BY <2>7, <3>1 DEF Laid
    <2> QED
      BY <2>5, <2>6, <2>8
  <1>7. CASE s[n].kind = "array"
    <2>1. Width(s[n]) = 1 /\ Width(t[n]) = 1 /\ Len(w) = a + 1 /\ s[n].key = NoKey
      BY <1>2, <1>7, WidthFacts
    <2>0. a \in Nat \ {0} /\ Len(w) = a + 1 /\ w[a].kind = "array"
      BY <1>2, <1>7, <2>1
    <2>2. PICK x : /\ Postprocess(w) = Result(x, "open")
                   /\ IsSeq(x) /\ Len(x) = a + 1
                   /\ \A i \in 1..(a - 1) : x[i] = w[i]
                   /\ x[a] = Holds(w[a], Item(NoKey, w[a + 1]))
                   /\ x[a + 1] = NullValue
      BY <2>0, PostArray
    <2>3. x[a] = h
      BY <2>1, <2>2 DEF h
    <2>4. Len(x) <= Len(w)
      BY <1>2, <2>1, <2>2
    <2>5. Values(x) /\ Laid(x, t, b, at) /\ SlotOpen(x, t)
      BY <1>6, <2>1, <2>2, <2>3, <2>4
    <2> QED
      BY <2>2, <2>3, <2>4, <2>5 DEF Filled, h, a
  <1>8. CASE s[n].kind = "object"
    <2>1. /\ Width(s[n]) = 2 /\ Width(t[n]) = 0 /\ Len(w) = a + 2
          /\ w[a + 1].kind = "string" /\ w[a + 1].id = s[n].key
      BY <1>2, <1>8, WidthFacts
    <2>0. /\ a \in Nat \ {0} /\ Len(w) = a + 2 /\ w[a].kind = "object"
          /\ w[a + 1].kind = "string"
      BY <1>2, <1>8, <2>1
    <2>2. PICK x : /\ Postprocess(w) = Result(x, "open")
                   /\ IsSeq(x) /\ Len(x) = a
                   /\ \A i \in 1..(a - 1) : x[i] = w[i]
                   /\ x[a] = Holds(w[a], Item(w[a + 1].id, w[a + 2]))
      BY <2>0, PostMember
    <2>3. x[a] = h
      BY <2>1, <2>2 DEF h
    <2>4. Len(x) <= Len(w) /\ Len(x) = a + Width(t[n])
      BY <1>2, <2>1, <2>2
    <2>5. Values(x) /\ Laid(x, t, b, at) /\ SlotOpen(x, t)
      BY <1>6, <2>1, <2>2, <2>3, <2>4
    <2> QED
      BY <2>2, <2>3, <2>4, <2>5 DEF Filled, h, a
  <1> QED
    BY <1>3, <1>7, <1>8

-------------------------------------------------------------------------------
(* The containers of s above the base b, up to the m-th, lie in w below the *)
(* position top.                                                            *)
LaidTo(w, s, b, at, m, top) ==
    \A i \in (b + 1)..m :
        /\ at[i] \in 1..(top - 1)
        /\ i = b + 1 => at[i] = 1
        /\ at[i] <= 2 * (i - b) - 1
        /\ w[at[i]].kind = s[i].kind
        /\ at[i] + Width(s[i]) = IF i = m THEN top ELSE at[i + 1]
        /\ Width(s[i]) # 0
        /\ Width(s[i]) = 2 =>
               w[at[i] + 1].kind = "string" /\ w[at[i] + 1].id = s[i].key
        /\ s[i].kind = "array" => s[i].key = NoKey
        /\ \A j \in (b + 1)..(i - 1) : at[j] < at[i]

(* An event leaves the first m containers alone, and what lies below top.   *)
LeftAlone(w, s, b, at, m, top, x, t, at2) ==
    /\ m \in b..Len(s) /\ (m = Len(s) /\ b < m => Width(s[m]) # 0)
    /\ top = IF m = Len(s) THEN Len(w) ELSE at[m + 1]
    /\ \A i \in (b + 1)..m : at2[i] = at[i] /\ t[i] = s[i]
    /\ \A i \in 1..(top - 1) : x[i] = w[i]

LEMMA LaidBelow ==
    ASSUME NEW w, Values(w), NEW s \in Seq(Frame), NEW b \in Nat, NEW at,
           Laid(w, s, b, at), NEW m, NEW top, NEW x, NEW t, NEW at2,
           LeftAlone(w, s, b, at, m, top, x, t, at2)
    PROVE  /\ top \in Nat \ {0} /\ top <= Len(w) /\ Len(w) \in Nat \ {0}
           /\ m = b => top = 1
           /\ LaidTo(x, t, b, at2, m, top)
  <1> DEFINE n == Len(s)
  <1>1. n \in Nat /\ m \in Nat /\ Len(w) \in Nat \ {0} /\ n = Len(s)
    BY FrontList DEF Values, LeftAlone
  <1> HIDE DEF n
  <1>2. /\ m \in b..n
        /\ m = n /\ b < n => Width(s[n]) # 0
        /\ top = IF m = n THEN Len(w) ELSE at[m + 1]
        /\ \A i \in (b + 1)..m : at2[i] = at[i]
        /\ \A i \in (b + 1)..m : t[i] = s[i]
        /\ \A i \in 1..(top - 1) : x[i] = w[i]
    BY <1>1 DEF LeftAlone
  <1>3. ASSUME NEW i \in (b + 1)..n
        PROVE  /\ at[i] \in 1..Len(w)
               /\ i = b + 1 => at[i] = 1
               /\ at[i] <= 2 * (i - b) - 1
               /\ w[at[i]].kind = s[i].kind
               /\ at[i] + Width(s[i]) = IF i = n THEN Len(w) ELSE at[i + 1]
               /\ i # n => Width(s[i]) # 0
               /\ Width(s[i]) = 2 =>
                      w[at[i] + 1].kind = "string" /\ w[at[i] + 1].id = s[i].key
               /\ s[i].kind = "array" => s[i].key = NoKey
               /\ \A j \in (b + 1)..(i - 1) : at[j] < at[i]
    BY <1>2, <1>1, <1>3 DEF Laid
  <1>4. top \in Nat \ {0} /\ top <= Len(w) /\ (m = b => top = 1)
    <2>1. CASE m = n
      <3>1. m = b => Len(w) = 1
        BY <1>2, <1>1, <2>1 DEF Laid
      <3> QED
        BY <1>2, <1>1, <2>1, <3>1
    <2>2. CASE m # n
      <3>1. m + 1 \in (b + 1)..n
        BY <1>2, <1>1, <2>2
      <3>2. at[m + 1] \in 1..Len(w) /\ (m = b => at[m + 1] = 1)
        BY <1>2, <1>3, <3>1
      <3> QED
        BY <1>2, <1>1, <2>2, <3>2
    <2> QED
      BY <1>2, <2>1, <2>2
  <1>5. ASSUME NEW i \in (b + 1)..m
        PROVE  /\ at2[i] \in 1..(top - 1)
               /\ i = b + 1 => at2[i] = 1
               /\ at2[i] <= 2 * (i - b) - 1
               /\ x[at2[i]].kind = t[i].kind
               /\ at2[i] + Width(t[i]) = IF i = m THEN top ELSE at2[i + 1]
               /\ Width(t[i]) # 0
               /\ Width(t[i]) = 2 =>
                      x[at2[i] + 1].kind = "string" /\ x[at2[i] + 1].id = t[i].key
               /\ t[i].kind = "array" => t[i].key = NoKey
               /\ \A j \in (b + 1)..(i - 1) : at2[j] < at2[i]
    <2>1. /\ i \in (b + 1)..n /\ i \in Nat /\ i <= m
          /\ m \in (b + 1)..m /\ m \in (b + 1)..n
          /\ i # m => i + 1 \in (b + 1)..m /\ i # n
      BY <1>2, <1>1, <1>5
    <2>2. at2[i] = at[i] /\ t[i] = s[i] /\ at2[m] = at[m] /\ t[m] = s[m]
      BY <1>2, <2>1
    <2>3. Width(s[i]) # 0 /\ Width(s[m]) # 0
      <3>1. i # n => Width(s[i]) # 0
        BY <1>2, <1>3, <2>1
      <3>2. m # n => Width(s[m]) # 0
        BY <1>2, <1>3, <2>1
      <3>3. n = m => Width(s[n]) # 0
        BY <1>2, <1>1, <2>1
      <3>4. i = n => i = m
        BY <1>2, <1>1, <2>1
      <3> QED
        BY <1>2, <3>1, <3>2, <3>3, <3>4
    <2>4. \A f : Width(f) \in {0, 1, 2}
      BY WidthFacts
    <2>5. at[m] + Width(s[m]) = top /\ at[m] \in Nat \ {0}
      <3>1. at[m] + Width(s[m]) = IF m = n THEN Len(w) ELSE at[m + 1]
        BY <1>2, <1>3, <2>1
      <3>2. at[m] \in 1..Len(w)
        BY <1>2, <1>3, <2>1
      <3> QED
        BY <1>2, <1>1, <3>1, <3>2
    <2>6. at[i] \in Nat \ {0} /\ at[i] <= at[m]
      <3>1. at[i] \in 1..Len(w)
        BY <1>2, <1>3, <2>1
      <3>2. \A j \in (b + 1)..(m - 1) : at[j] < at[m]
        BY <1>2, <1>3, <2>1
      <3>3. i # m => i \in (b + 1)..(m - 1)
        BY <1>2, <1>1, <1>5, <2>1
      <3> QED
        BY <1>2, <1>1, <2>5, <3>1, <3>2, <3>3
    <2>7. at[i] + Width(s[i]) <= top
      <3>1. CASE i = m
        BY <1>2, <1>4, <2>5, <3>1
      <3>2. CASE i # m
        <4>1. at[i] + Width(s[i]) = at[i + 1]
          BY <1>2, <1>3, <2>1, <3>2
        <4>2. i + 1 \in (b + 1)..n /\ at[i + 1] \in 1..Len(w)
          <5>1. i + 1 \in (b + 1)..n
            BY <1>2, <1>1, <2>1, <3>2
          <5> QED
            BY <1>2, <1>3, <5>1
        <4>3. at[i + 1] <= at[m]
          <5>1. \A j \in (b + 1)..(m - 1) : at[j] < at[m]
            BY <1>2, <1>3, <2>1
          <5>2. i + 1 = m \/ i + 1 \in (b + 1)..(m - 1)
            BY <1>2, <1>1, <2>1, <3>2
          <5>3. CASE i + 1 = m
            BY <1>2, <2>5, <5>3
          <5>4. CASE i + 1 \in (b + 1)..(m - 1)
            <6>1. at[i + 1] < at[m] /\ at[i + 1] \in Nat /\ at[m] \in Nat
              BY <1>2, <2>5, <4>2, <5>1, <5>4
            <6> QED
              BY <1>2, <6>1
          <5> QED
            BY <1>2, <5>2, <5>3, <5>4
        <4>4. at[m] < top
          <5>1. Width(s[m]) \in {1, 2}
            BY <1>2, <2>3, <2>4
          <5> QED
            BY <1>2, <1>4, <2>5, <5>1
        <4> QED
          BY <1>2, <1>4, <2>5, <4>1, <4>2, <4>3, <4>4
      <3> QED
        BY <1>2, <3>1, <3>2
    <2>8. at[i] \in 1..(top - 1) /\ (Width(s[i]) = 2 => at[i] + 1 \in 1..(top - 1))
      <3>1. Width(s[i]) \in {1, 2}
        BY <2>3, <2>4
      <3>2. at[i] \in Int /\ at[i] >= 1 /\ top \in Int
        BY <1>4, <2>6
      <3>3. at[i] + 1 <= top
        BY <2>7, <3>1, <3>2
      <3>4. Width(s[i]) = 2 => at[i] + 2 <= top
        BY <2>7, <3>2
      <3>5. Width(s[i]) = 2 => at[i] + 1 \in 1..(top - 1)
        BY <3>2, <3>4
      <3> QED
        BY <3>2, <3>3, <3>5
    <2>9. x[at[i]] = w[at[i]] /\ (Width(s[i]) = 2 => x[at[i] + 1] = w[at[i] + 1])
      BY <1>2, <2>8
    <2>10. at2[i] + Width(t[i]) = IF i = m THEN top ELSE at2[i + 1]
      <3>1. CASE i = m
        BY <1>2, <2>2, <2>5, <3>1
      <3>2. CASE i # m
        <4>1. at[i] + Width(s[i]) = at[i + 1] /\ at2[i + 1] = at[i + 1]
          BY <1>2, <1>3, <2>1, <3>2
        <4> QED
          BY <1>2, <2>2, <3>2, <4>1
      <3> QED
        BY <1>2, <3>1, <3>2
    <2>11. \A j \in (b + 1)..(i - 1) : at2[j] < at2[i]
      <3>1. \A j \in (b + 1)..(i - 1) : j \in (b + 1)..m
        BY <1>2, <1>1, <2>1
      <3>2. \A j \in (b + 1)..(i - 1) : at[j] < at[i]
        BY <1>2, <1>3, <2>1
      <3> QED
        BY <1>2, <2>2, <3>1, <3>2
    <2>12. /\ i = b + 1 => at[i] = 1
           /\ at[i] <= 2 * (i - b) - 1
           /\ w[at[i]].kind = s[i].kind
           /\ Width(s[i]) = 2 =>
                  w[at[i] + 1].kind = "string" /\ w[at[i] + 1].id = s[i].key
           /\ s[i].kind = "array" => s[i].key = NoKey
      BY <1>2, <1>3, <2>1
    <2> QED
      BY <1>2, <2>2, <2>3, <2>8, <2>9, <2>10, <2>11, <2>12
  <1>6. LaidTo(x, t, b, at2, m, top)
    BY <1>2, <1>5 DEF LaidTo
  <1> QED
    BY <1>2, <1>1, <1>4, <1>6

(* The value on top changes: it is a slot, and no container's own place.    *)
LEMMA LaidSlot ==
    ASSUME NEW w, Values(w), NEW s \in Seq(Frame), NEW b \in Nat, NEW at,
           Laid(w, s, b, at), NEW n, n = Len(s), b < n, Width(s[n]) # 0,
           NEW v, IsValue(v)
    PROVE  /\ Values(SetTop(w, v)) /\ Laid(SetTop(w, v), s, b, at)
           /\ SetTop(w, v)[Len(w)] = v /\ Len(SetTop(w, v)) = Len(w)
           /\ \A i \in 1..at[n] : SetTop(w, v)[i] = w[i]
           /\ at[n] \in 1..(Len(w) - 1)
  <1> DEFINE x == SetTop(w, v)
  <1>1. n \in Nat /\ b <= n /\ n \in b..n /\ n # b /\ Len(w) \in Nat \ {0}
    BY FrontList DEF Values
  <1>2. /\ IsSeq(x) /\ x # <<>> /\ Len(x) = Len(w) /\ x[Len(w)] = v
        /\ \A i \in 1..(Len(w) - 1) : x[i] = w[i]
    BY SetTopList DEF Values
  <1> HIDE DEF x
  <1>3. \A i \in (b + 1)..n :
            /\ at[i] \in 1..(Len(w) - 1)
            /\ i = b + 1 => at[i] = 1
            /\ at[i] <= 2 * (i - b) - 1
            /\ x[at[i]].kind = s[i].kind
            /\ at[i] + Width(s[i]) = IF i = n THEN Len(w) ELSE at[i + 1]
            /\ Width(s[i]) # 0
            /\ Width(s[i]) = 2 =>
                   x[at[i] + 1].kind = "string" /\ x[at[i] + 1].id = s[i].key
            /\ s[i].kind = "array" => s[i].key = NoKey
            /\ \A j \in (b + 1)..(i - 1) : at[j] < at[i]
    <2>1. LeftAlone(w, s, b, at, n, Len(w), x, s, at)
      BY <1>1, <1>2 DEF LeftAlone
    <2>2. LaidTo(x, s, b, at, n, Len(w))
      BY <2>1, LaidBelow
    <2> QED
      BY <2>2 DEF LaidTo
  <1>4. Laid(x, s, b, at)
    <2>1. \A i \in (b + 1)..n : at[i] \in 1..Len(x)
      BY <1>1, <1>2, <1>3
    <2> QED
      BY <1>1, <1>2, <1>3, <2>1 DEF Laid
  <1>5. Values(x)
    <2>1. \A i \in 1..Len(w) : IsValue(x[i])
      <3>1. \A i \in 1..Len(w) : i = Len(w) \/ i \in 1..(Len(w) - 1)
        BY <1>1
      <3> QED
        BY <1>2, <3>1 DEF Values
    <2> QED
      BY <1>2, <2>1 DEF Values
  <1>6. n \in (b + 1)..n /\ at[n] \in 1..(Len(w) - 1)
    BY <1>1, <1>3
  <1>7. \A i \in 1..at[n] : x[i] = w[i]
    <2>1. \A i \in 1..at[n] : i \in 1..(Len(w) - 1)
      BY <1>1, <1>6
    <2> QED
      BY <1>2, <2>1
  <1> QED
    BY <1>2, <1>4, <1>5, <1>6, <1>7 DEF x

(* The innermost container lies on top of the others.                       *)
LEMMA LaidOn ==
    ASSUME NEW x, NEW t \in Seq(Frame), NEW b \in Nat, NEW m \in Nat, b <= m,
           Len(t) = m + 1, NEW at, NEW top \in Nat \ {0},
           LaidTo(x, t, b, at, m, top), m = b => top = 1, at[m + 1] = top,
           x[top].kind = t[m + 1].kind, Len(x) = top + Width(t[m + 1]),
           Width(t[m + 1]) = 2 =>
               x[top + 1].kind = "string" /\ x[top + 1].id = t[m + 1].key,
           t[m + 1].kind = "array" => t[m + 1].key = NoKey
    PROVE  Laid(x, t, b, at)
  <1> DEFINE n == m + 1
  <1>1. n \in Nat /\ Len(t) = n /\ Len(x) = top + Width(t[n]) /\ Len(t) # b
        /\ Width(t[n]) \in {0, 1, 2} /\ top \in 1..Len(x)
    <2>1. Width(t[n]) \in {0, 1, 2}
      BY WidthFacts
    <2> QED
      BY <2>1
  <1>2. top <= 2 * (n - b) - 1
    <2>1. CASE m = b
      BY <2>1
    <2>2. CASE m # b
      <3>1. m \in (b + 1)..m
        BY <2>2
      <3>2. /\ at[m] \in 1..(top - 1) /\ at[m] <= 2 * (m - b) - 1
            /\ at[m] + Width(t[m]) = top
        BY <3>1 DEF LaidTo
      <3>3. Width(t[m]) \in {0, 1, 2}
        BY WidthFacts
      <3> QED
        BY <3>2, <3>3
    <2> QED
      BY <2>1, <2>2
  <1>3. \A j \in (b + 1)..m : at[j] \in 1..(top - 1) /\ at[j] < top
    BY DEF LaidTo
  <1>4. ASSUME NEW i \in (b + 1)..n
        PROVE  /\ at[i] \in 1..Len(x)
               /\ i = b + 1 => at[i] = 1
               /\ at[i] <= 2 * (i - b) - 1
               /\ x[at[i]].kind = t[i].kind
               /\ at[i] + Width(t[i]) = IF i = n THEN Len(x) ELSE at[i + 1]
               /\ i # n => Width(t[i]) # 0
               /\ Width(t[i]) = 2 =>
                      x[at[i] + 1].kind = "string" /\ x[at[i] + 1].id = t[i].key
               /\ t[i].kind = "array" => t[i].key = NoKey
               /\ \A j \in (b + 1)..(i - 1) : at[j] < at[i]
    <2>1. CASE i = n
      <3>1. i - 1 = m /\ (i = b + 1 => m = b) /\ at[i] = top
        BY <2>1
      <3>2. \A j \in (b + 1)..(i - 1) : at[j] < at[i]
        BY <1>3, <3>1
      <3> QED
        BY <1>1, <1>2, <2>1, <3>1, <3>2
    <2>2. CASE i # n
      <3>1. i \in (b + 1)..m
        BY <1>4, <2>2
      <3>2. /\ at[i] \in 1..(top - 1)
            /\ i = b + 1 => at[i] = 1
            /\ at[i] <= 2 * (i - b) - 1
            /\ x[at[i]].kind = t[i].kind
            /\ at[i] + Width(t[i]) = IF i = m THEN top ELSE at[i + 1]
            /\ Width(t[i]) # 0
            /\ Width(t[i]) = 2 =>
                   x[at[i] + 1].kind = "string" /\ x[at[i] + 1].id = t[i].key
            /\ t[i].kind = "array" => t[i].key = NoKey
            /\ \A j \in (b + 1)..(i - 1) : at[j] < at[i]
        BY <3>1 DEF LaidTo
      <3>3. at[i] \in 1..Len(x)
        BY <1>1, <3>2
      <3>4. at[i] + Width(t[i]) = at[i + 1]
        BY <3>2
      <3> QED
        BY <2>2, <3>2, <3>3, <3>4
    <2> QED
      BY <2>1, <2>2
  <1>5. \A i \in (b + 1)..Len(t) :
            /\ at[i] \in 1..Len(x)
            /\ i = b + 1 => at[i] = 1
            /\ at[i] <= 2 * (i - b) - 1
            /\ x[at[i]].kind = t[i].kind
            /\ at[i] + Width(t[i]) = IF i = Len(t) THEN Len(x) ELSE at[i + 1]
            /\ i # Len(t) => Width(t[i]) # 0
            /\ Width(t[i]) = 2 =>
                   x[at[i] + 1].kind = "string" /\ x[at[i] + 1].id = t[i].key
            /\ t[i].kind = "array" => t[i].key = NoKey
            /\ \A j \in (b + 1)..(i - 1) : at[j] < at[i]
    BY <1>1, <1>4
  <1> QED
    BY <1>1, <1>5 DEF Laid

(* All containers have a slot of theirs above, the last one's on top.       *)
LEMMA LaidWhole ==
    ASSUME NEW x, NEW t \in Seq(Frame), NEW b \in Nat, NEW m, m = Len(t),
           NEW at, NEW top \in Nat \ {0},
           LaidTo(x, t, b, at, m, top), m = b => top = 1, Len(x) = top
    PROVE  Laid(x, t, b, at)
  <1>1. ASSUME NEW i \in (b + 1)..m
        PROVE  /\ at[i] \in 1..Len(x)
               /\ i = b + 1 => at[i] = 1
               /\ at[i] <= 2 * (i - b) - 1
               /\ x[at[i]].kind = t[i].kind
               /\ at[i] + Width(t[i]) = IF i = m THEN Len(x) ELSE at[i + 1]
               /\ i # m => Width(t[i]) # 0
               /\ Width(t[i]) = 2 =>
                      x[at[i] + 1].kind = "string" /\ x[at[i] + 1].id = t[i].key
               /\ t[i].kind = "array" => t[i].key = NoKey
               /\ \A j \in (b + 1)..(i - 1) : at[j] < at[i]
    <2>1. \A j \in 1..(top - 1) : j \in 1..Len(x)
      OBVIOUS
    <2> QED
      BY <1>1, <2>1 DEF LaidTo
  <1> QED
    BY <1>1 DEF Laid

(* A container begins, in the slot on top.                                  *)
LEMMA LaidStart ==
    ASSUME NEW w, Values(w), NEW s \in Seq(Frame), NEW t \in Seq(Frame),
           NEW b \in Nat, NEW at, Laid(w, s, b, at),
           NEW n, n = Len(s), b <= n, b < n => Width(s[n]) # 0,
           NEW kind \in Kinds, Len(t) = n + 1, \A i \in 1..n : t[i] = s[i],
           t[n + 1] = NewFrame(kind)
    PROVE  \E x, at2 :
               /\ IF kind = "array" THEN OnStartArray(w) = Result(x, "open")
                  ELSE OnStartObject(w) = Result(x, "open")
               /\ Values(x) /\ Laid(x, t, b, at2) /\ SlotOpen(x, t)
               /\ \A i \in (b + 1)..n : at2[i] = at[i]
               /\ at2[n + 1] = Len(w) /\ x[Len(w)] = Empty(kind)
               /\ \A i \in 1..(Len(w) - 1) : x[i] = w[i]
  <1> DEFINE at2 == [i \in (b + 1)..(n + 1) |-> IF i = n + 1 THEN Len(w) ELSE at[i]]
             y == SetTop(w, Empty(kind))
             x == IF kind = "array" THEN Push(y) ELSE y
             top == Len(w)
  <1>1. /\ n \in Nat /\ n \in b..n /\ top \in Nat \ {0}
        /\ n + 1 \in (b + 1)..(n + 1)
    BY FrontList DEF Values
  <1>2. /\ IsSeq(y) /\ y # <<>> /\ Len(y) = top /\ y[top] = Empty(kind)
        /\ \A i \in 1..(top - 1) : y[i] = w[i]
    BY SetTopList DEF Values
  <1>3. /\ at2[n + 1] = top
        /\ \A i \in (b + 1)..n : at2[i] = at[i]
    BY <1>1
  <1>4. IF kind = "array" THEN OnStartArray(w) = Result(x, "open")
        ELSE OnStartObject(w) = Result(x, "open")
    <2>1. CASE kind = "array"
      BY <2>1 DEF OnStartArray
    <2>2. CASE kind = "object"
      BY <2>2 DEF OnStartObject
    <2> QED
      BY <2>1, <2>2 DEF Kinds
  <1> HIDE DEF y, at2
  <1>5. IF kind = "array" THEN x = Append(y, NullValue) ELSE x = y
    BY DEF Push
  <1> HIDE DEF x
  <1>6. /\ IsSeq(x) /\ x # <<>> /\ \A i \in 1..top : x[i] = y[i]
        /\ Len(x) = IF kind = "array" THEN top + 1 ELSE top
        /\ kind = "array" => x[top + 1] = NullValue
    <2>1. CASE kind = "array"
      <3>1. x = Append(y, NullValue)
        BY <1>5, <2>1
      <3>2. /\ IsSeq(x) /\ x # <<>> /\ Len(x) = Len(y) + 1
            /\ \A i \in 1..Len(y) : x[i] = y[i]
            /\ x[Len(y) + 1] = NullValue
        BY <1>2, <3>1, AppendList
      <3> QED
        BY <1>2, <2>1, <3>2
    <2>2. CASE kind # "array"
      BY <1>2, <1>5, <2>2
    <2> QED
      BY <2>1, <2>2
  <1>7. /\ x[top] = Empty(kind) /\ \A i \in 1..(top - 1) : x[i] = w[i]
    <2>1. top \in 1..top /\ \A i \in 1..(top - 1) : i \in 1..top
      BY <1>1
    <2> QED
      BY <1>2, <1>6, <2>1
  <1>8. /\ t[n + 1].kind = kind /\ t[n + 1].key = NoKey
        /\ Width(t[n + 1]) = IF kind = "array" THEN 1 ELSE 0
    BY NewFrameType DEF Width
  <1>9. LaidTo(x, t, b, at2, n, top) /\ (n = b => top = 1)
    <2>1. LeftAlone(w, s, b, at, n, top, x, t, at2)
      <3>1. \A i \in (b + 1)..n : i \in 1..n
        BY <1>1
      <3> QED
        BY <1>1, <1>3, <1>7, <3>1 DEF LeftAlone
    <2> HIDE DEF top
    <2> QED
      BY <2>1, LaidBelow
  <1>10. Laid(x, t, b, at2)
    <2>1. /\ x[top].kind = t[n + 1].kind /\ Len(x) = top + Width(t[n + 1])
          /\ Width(t[n + 1]) # 2
      BY <1>1, <1>6, <1>7, <1>8, ValueFacts
    <2> HIDE DEF top
    <2> QED
      BY <1>1, <1>3, <1>8, <1>9, <2>1, LaidOn
  <1>11. Values(x)
    <2>1. IsValue(x[top])
      BY <1>7, ValueFacts
    <2>2. \A i \in 1..(top - 1) : IsValue(x[i])
      <3>1. \A i \in 1..(top - 1) : i \in 1..Len(w)
        BY <1>1
      <3> QED
        BY <1>7, <3>1 DEF Values
    <2>3. kind = "array" => IsValue(x[top + 1])
      BY <1>6, ValueFacts
    <2>4. \A i \in 1..Len(x) : \/ i = top \/ i \in 1..(top - 1)
                               \/ kind = "array" /\ i = top + 1
      BY <1>1, <1>6
    <2>5. \A i \in 1..Len(x) : IsValue(x[i])
      BY <2>1, <2>2, <2>3, <2>4
    <2> QED
      BY <1>6, <2>5 DEF Values
  <1>12. SlotOpen(x, t)
    <2>1. kind = "array" => x[Len(x)] = NullValue
      BY <1>6
    <2>2. Width(t[Len(t)]) # 0 => kind = "array"
      BY <1>8
    <2> QED
      BY <2>1, <2>2, ValueFacts DEF SlotOpen
  <1> QED
    BY <1>3, <1>4, <1>7, <1>10, <1>11, <1>12

(* A name: it lies above its object, and the slot of its value above it.    *)
LEMMA LaidKey ==
    ASSUME NEW w, Values(w), NEW s \in Seq(Frame), NEW t \in Seq(Frame),
           NEW b \in Nat, NEW at, Laid(w, s, b, at),
           NEW n, n = Len(s), b < n, Len(t) = n, \A i \in 1..(n - 1) : t[i] = s[i],
           s[n].kind = "object", s[n].key = NoKey,
           NEW k, k # NoKey, t[n].kind = "object", t[n].key = k
    PROVE  \E x : /\ OnKey(w, k) = Result(x, "open")
                  /\ Values(x) /\ Laid(x, t, b, at) /\ SlotOpen(x, t)
                  /\ at[n] = Len(w) /\ \A i \in 1..Len(w) : x[i] = w[i]
  <1> DEFINE v == Value("string", k, <<>>)
             top == Len(w)
             m == n - 1
             y == Append(w, v)
             x == Append(y, NullValue)
  <1>1. /\ n \in Nat /\ m \in Nat /\ m + 1 = n /\ b <= m /\ m \in b..n /\ m # n
        /\ top \in Nat \ {0} /\ IsSeq(w) /\ w # <<>>
    BY FrontList DEF Values
  <1>2. at[n] = top /\ w[top].kind = "object"
    <2>1. Width(s[n]) = 0
      BY WidthFacts
    <2>2. Innermost(w, s, b, at, n)
      BY LaidFacts
    <2> QED
      BY <2>1, <2>2 DEF Innermost
  <1>3. OnKey(w, k) = Result(x, "open")
    <2>1. Top(w) = w[top]
      BY <1>1, FrontList
    <2>2. SetTop(Push(w), v) = y
      <3>1. IsSeq(Append(w, NullValue)) /\ Append(w, NullValue) # <<>>
            /\ Len(Append(w, NullValue)) = top + 1
            /\ \A i \in 1..top : Append(w, NullValue)[i] = w[i]
        <4>1. IsSeq(Append(w, NullValue)) /\ Append(w, NullValue) # <<>>
          BY <1>1, AppendList
        <4>2. Len(Append(w, NullValue)) = top + 1
          BY <1>1, AppendList
        <4>3. \A i \in 1..top : Append(w, NullValue)[i] = w[i]
          BY <1>1, AppendList
        <4> QED
          BY <4>1, <4>2, <4>3
      <3> DEFINE u == Append(w, NullValue)
      <3>2. u = Push(w)
        BY DEF Push
      <3> HIDE DEF u, top, v, y
      <3>3. IsSeq(u) /\ u # <<>> /\ Len(u) = top + 1 /\ \A i \in 1..top : u[i] = w[i]
        BY <3>1, Zenon DEF u
      <3>4. /\ IsSeq(SetTop(u, v)) /\ Len(SetTop(u, v)) = top + 1
            /\ \A i \in 1..((top + 1) - 1) : SetTop(u, v)[i] = u[i]
            /\ SetTop(u, v)[top + 1] = v
        <4>1. /\ IsSeq(SetTop(u, v)) /\ Len(SetTop(u, v)) = Len(u)
              /\ \A i \in 1..(Len(u) - 1) : SetTop(u, v)[i] = u[i]
              /\ SetTop(u, v)[Len(u)] = v
          <5>1. IsSeq(u) /\ u # <<>>
            BY <3>3
          <5> QED
            BY <5>1, SetTopList
        <4>2. Len(u) = top + 1
          BY <3>3
        <4> QED
          BY <4>1, <4>2, Zenon
      <3>5. /\ IsSeq(y) /\ Len(y) = top + 1
            /\ \A i \in 1..top : y[i] = w[i]
            /\ y[top + 1] = v
        BY <1>1, AppendList DEF y, top
      <3>6. /\ (top + 1) - 1 = top
            /\ \A i \in 1..(top + 1) : i \in 1..top \/ i = top + 1
        BY <1>1
      <3>7. \A i \in 1..(top + 1) : SetTop(u, v)[i] = y[i]
        BY <3>3, <3>4, <3>5, <3>6
      <3>8. SetTop(u, v) = y
        BY <3>4, <3>5, <3>7, ListEqual
      <3> QED
        BY <3>2, <3>8
    <2>3. OnKey(w, k) = Result(Push(SetTop(Push(w), v)), "open")
      BY <1>2, <2>1 DEF OnKey
    <2>4. Push(y) = x
      BY DEF Push
    <2> HIDE DEF v, y, x
    <2> QED
      BY <2>2, <2>3, <2>4
  <1> HIDE DEF v
  <1>4. /\ IsSeq(y) /\ Len(y) = top + 1 /\ y[top + 1] = v
        /\ \A i \in 1..top : y[i] = w[i]
    BY <1>1, AppendList
  <1> HIDE DEF y, top
  <1>5. /\ IsSeq(x) /\ x # <<>> /\ Len(x) = Len(y) + 1 /\ x[Len(y) + 1] = NullValue
        /\ \A i \in 1..Len(y) : x[i] = y[i]
    BY <1>4, AppendList
  <1> HIDE DEF x
  <1>6. /\ Len(x) = top + 2 /\ x[top + 1] = v /\ x[top + 2] = NullValue
        /\ \A i \in 1..top : x[i] = w[i]
    <2>1. Len(y) + 1 = top + 2 /\ \A i \in 1..(top + 1) : x[i] = y[i]
      BY <1>1, <1>4, <1>5
    <2>2. top + 1 \in 1..(top + 1) /\ \A i \in 1..top : i \in 1..(top + 1)
      BY <1>1
    <2> QED
      BY <1>4, <1>5, <2>1, <2>2
  <1>7. v.kind = "string" /\ v.id = k /\ IsValue(v)
    BY ValueFacts DEF v
  <1>8. LaidTo(x, t, b, at, m, top) /\ (m = b => top = 1)
    <2>1. LeftAlone(w, s, b, at, m, top, x, t, at)
      <3>1. /\ \A i \in (b + 1)..m : i \in 1..m
            /\ \A i \in 1..(top - 1) : i \in 1..top
        BY <1>1
      <3>2. \A i \in 1..m : t[i] = s[i]
        OBVIOUS
      <3>3. \A i \in (b + 1)..m : at[i] = at[i] /\ t[i] = s[i]
        BY <3>1, <3>2
      <3>4. \A i \in 1..(top - 1) : x[i] = w[i]
        BY <1>6, <3>1
      <3> HIDE DEF m
      <3> QED
        BY <1>1, <1>2, <3>3, <3>4 DEF LeftAlone
    <2> HIDE DEF m
    <2> QED
      BY <2>1, LaidBelow
  <1>9. Laid(x, t, b, at)
    <2>1. Width(t[n]) = 2 /\ Len(x) = top + Width(t[n])
      BY <1>6, WidthFacts
    <2>2. /\ x[top].kind = t[n].kind
          /\ x[top + 1].kind = "string" /\ x[top + 1].id = t[n].key
      <3>1. top \in 1..top
        BY <1>1
      <3> QED
        BY <1>2, <1>6, <1>7, <3>1
    <2> HIDE DEF m
    <2> QED
      BY <1>1, <1>2, <1>8, <2>1, <2>2, LaidOn
  <1>10. Values(x)
    <2>1. \A i \in 1..Len(x) : i \in 1..top \/ i = top + 1 \/ i = top + 2
      BY <1>1, <1>6
    <2>2. \A i \in 1..top : IsValue(x[i])
      BY <1>6 DEF Values, top
    <2>3. \A i \in 1..Len(x) : IsValue(x[i])
      BY <1>6, <1>7, <2>1, <2>2, ValueFacts
    <2> QED
      BY <1>5, <2>3 DEF Values
  <1>11. SlotOpen(x, t)
    BY <1>6, ValueFacts DEF SlotOpen
  <1> QED
    BY <1>2, <1>3, <1>6, <1>9, <1>10, <1>11 DEF top

(* A container ends: it is on top, and what is below it as before.          *)
LEMMA LaidEnd ==
    ASSUME NEW w, Values(w), NEW s \in Seq(Frame), NEW t \in Seq(Frame),
           NEW b \in Nat, NEW at, Laid(w, s, b, at),
           NEW n, n = Len(s), b < n, s[n].key = NoKey,
           Len(t) = n - 1, \A i \in 1..(n - 1) : t[i] = s[i]
    PROVE  \E x : /\ IF s[n].kind = "array" THEN OnEndArray(w) = Postprocess(x)
                     ELSE OnEndObject(w) = Postprocess(x)
                  /\ Values(x) /\ Len(x) = at[n] /\ Len(x) <= Len(w)
                  /\ \A i \in 1..at[n] : x[i] = w[i]
                  /\ Laid(x, t, b, at)
                  /\ n - 1 > b => Width(t[n - 1]) # 0
  <1>1. Innermost(w, s, b, at, n)
    BY LaidFacts
  <1> DEFINE a == at[n]
             m == n - 1
             x == IF s[n].kind = "array" THEN Front(w) ELSE w
  <1>2. /\ n \in Nat /\ m \in Nat /\ m + 1 = n /\ b <= m /\ m \in b..n /\ m # n
        /\ Len(w) \in Nat \ {0} /\ IsSeq(w) /\ w # <<>>
    BY FrontList DEF Values
  <1>3. a \in 1..Len(w) /\ a + Width(s[n]) = Len(w) /\ w[a].kind = s[n].kind
    BY <1>1 DEF Innermost
  <1>4. Width(s[n]) = IF s[n].kind = "array" THEN 1 ELSE 0
    BY DEF Width
  <1>5. s[n].kind \in {"array", "object"}
    <2>1. n \in 1..Len(s)
      BY <1>2
    <2>2. s[n] \in Frame
      BY <2>1, ElementOfSeq
    <2> QED
      BY <2>2 DEF Frame, Kinds
  <1> HIDE DEF a
  <1>6. IsSeq(x) /\ Len(x) = a /\ \A i \in 1..a : x[i] = w[i]
    <2>1. CASE s[n].kind = "array"
      <3>1. IsSeq(Front(w)) /\ Len(Front(w)) = Len(w) - 1
            /\ \A i \in 1..(Len(w) - 1) : Front(w)[i] = w[i]
        BY <1>2, FrontList
      <3>2. Len(w) - 1 = a
        BY <1>2, <1>3, <1>4, <2>1
      <3> QED
        BY <2>1, <3>1, <3>2
    <2>2. CASE s[n].kind = "object"
      BY <1>2, <1>3, <1>4, <2>2
    <2> QED
      BY <1>5, <2>1, <2>2
  <1>7. a \in Nat \ {0} /\ a \in 1..a /\ a <= Len(w) /\ x # <<>>
    BY <1>2, <1>3, <1>6, SeqElim
  <1>8. Top(x).kind = s[n].kind
    <2>1. Top(x) = x[Len(x)]
      BY <1>6, <1>7, FrontList
    <2>2. x[Len(x)] = w[a]
      BY <1>6, <1>7
    <2> QED
      BY <1>3, <2>1, <2>2
  <1>9. IF s[n].kind = "array" THEN OnEndArray(w) = Postprocess(x)
        ELSE OnEndObject(w) = Postprocess(x)
    <2>1. CASE s[n].kind = "array"
      <3>1. Len(w) # 1
        <4>1. a + 1 = Len(w)
          BY <1>3, <1>4, <2>1
        <4> QED
          BY <1>7, <4>1
      <3>2. LastSlot(w) = x
        BY <2>1, <3>1 DEF LastSlot, Pop
      <3> HIDE DEF x
      <3> QED
        BY <1>8, <2>1, <3>2 DEF OnEndArray
    <2>2. CASE s[n].kind = "object"
      <3>1. x = w
        BY <2>2
      <3> QED
        BY <1>8, <2>2, <3>1 DEF OnEndObject, EndsObject
    <2> QED
      BY <1>5, <2>1, <2>2
  <1> HIDE DEF x
  <1>10. Values(x)
    <2>1. \A i \in 1..Len(x) : IsValue(x[i])
      <3>1. \A i \in 1..a : i \in 1..Len(w)
        BY <1>2, <1>7
      <3> QED
        BY <1>6, <3>1 DEF Values
    <2> QED
      BY <1>6, <1>7, <2>1 DEF Values
  <1>11. /\ Laid(x, t, b, at)
         /\ m > b => Width(t[m]) # 0
    <2>1. LeftAlone(w, s, b, at, m, a, x, t, at)
      <3>1. /\ \A i \in (b + 1)..m : i \in 1..m
            /\ \A i \in 1..(a - 1) : i \in 1..a
        BY <1>2, <1>7
      <3>2. \A i \in 1..m : t[i] = s[i]
        OBVIOUS
      <3>3. \A i \in (b + 1)..m : at[i] = at[i] /\ t[i] = s[i]
        BY <3>1, <3>2
      <3>4. \A i \in 1..(a - 1) : x[i] = w[i]
        BY <1>6, <3>1
      <3> HIDE DEF m
      <3> QED
        BY <1>2, <3>3, <3>4 DEF LeftAlone, a
    <2>2. Len(t) = m
      OBVIOUS
    <2> HIDE DEF m
    <2>3. LaidTo(x, t, b, at, m, a) /\ (m = b => a = 1)
      BY <2>1, LaidBelow
    <2>4. Laid(x, t, b, at)
      BY <1>6, <1>7, <2>2, <2>3, LaidWhole
    <2>5. m > b => m \in (b + 1)..m
      BY <1>2
    <2> QED
      BY <2>3, <2>4, <2>5 DEF LaidTo
  <1> QED
    BY <1>6, <1>7, <1>9, <1>10, <1>11 DEF a

LEMMA LaidPositions ==
    ASSUME NEW w, NEW s \in Seq(Frame), NEW b \in Nat, NEW at, Laid(w, s, b, at)
    PROVE  LaidOut(w, s, b)
  <1> DEFINE p == [i \in (b + 1)..Len(s) |-> at[i]]
  <1>1. p \in [(b + 1)..Len(s) -> 1..Len(w)]
    BY DEF Laid
  <1>2. \A i \in (b + 1)..Len(s) : p[i] = at[i]
    OBVIOUS
  <1> HIDE DEF p
  <1>3. ASSUME NEW i \in (b + 1)..Len(s)
        PROVE  /\ i # Len(s) => i + 1 \in (b + 1)..Len(s)
               /\ \A j \in (b + 1)..(i - 1) : j \in (b + 1)..Len(s)
    BY <1>3
  <1>4. Laid(w, s, b, p)
    BY <1>2, <1>3 DEF Laid
  <1> QED
    BY <1>1, <1>4 DEF LaidOut

-------------------------------------------------------------------------------
(* The methods.                                                             *)
LEMMA WholeFacts ==
    ASSUME IsSeq(m_stack)
    PROVE  /\ IsSeq(Whole) /\ Whole # <<>> /\ Len(Whole) = Len(m_stack) + 1
           /\ Whole[1] = m_value /\ \A i \in 1..Len(m_stack) : Whole[i + 1] = m_stack[i]
           /\ Len(Whole) = 1 <=> m_stack = <<>>
           /\ m_stack = <<>> => Whole = <<m_value>>
  <1>1. /\ IsSeq(Whole) /\ Whole # <<>> /\ Len(Whole) = Len(m_stack) + 1
        /\ Whole[1] = m_value /\ \A i \in 1..Len(m_stack) : Whole[i + 1] = m_stack[i]
        /\ Len(Whole) = 1 <=> m_stack = <<>>
    BY ListOf DEF Whole
  <1>2. ASSUME m_stack = <<>>
        PROVE  Whole = <<m_value>>
    <2>1. IsSeq(<<m_value>>) /\ Len(<<m_value>>) = 1 /\ <<m_value>>[1] = m_value
      BY SingletonList
    <2>2. Len(Whole) = 1 /\ \A i \in 1..1 : Whole[i] = <<m_value>>[i]
      BY <1>1, <1>2, <2>1
    <2> QED
      BY <1>1, <2>1, <2>2, ListEqual
  <1> QED
    BY <1>1, <1>2

LEMMA DoneFacts ==
    ASSUME DomTyped, NEW x, Values(x), NEW verdict \in {"parsed", "open", "corrupted"},
           NEW before \in BOOLEAN, Done(Result(x, verdict), before),
           nest' \in Seq(Frame), Len(nest') <= MaxNesting, cut' \in BOOLEAN,
           values' \in 0..MaxValues
    PROVE  /\ DomTyped' /\ Whole' = x /\ m_value' = x[1]
           /\ m_stack' = <<>> <=> Len(x) = 1
           /\ parsed' = (verdict = "parsed" \/ before)
           /\ repeated' = repeated
           /\ phase' = IF verdict = "corrupted" THEN "failed"
                       ELSE IF nest' = <<>> THEN "complete" ELSE "reading"
  <1>1. /\ m_value' = Head(x) /\ m_stack' = Tail(x)
        /\ the_error' = (verdict = "corrupted")
        /\ parsed' = (verdict = "parsed" \/ before)
        /\ IF verdict = "corrupted" THEN phase' = "failed"
           ELSE phase' = IF nest' = <<>> THEN "complete" ELSE "reading"
        /\ m_alloc' = m_alloc /\ document' = document /\ repeated' = repeated
        /\ uses' = uses
    BY DEF Done, Result, Accept, Terminate
  <1>2. /\ <<Head(x)>> \o Tail(x) = x
        /\ IsSeq(Tail(x)) /\ Head(x) = x[1] /\ (Tail(x) = <<>> <=> Len(x) = 1)
    BY HeadAndTail DEF Values
  <1>3. Whole' = x
    BY <1>1, <1>2 DEF Whole
  <1>4. Values(Whole')
    BY <1>3
  <1>5. the_error' \in BOOLEAN /\ parsed' \in BOOLEAN
    BY <1>1
  <1>6. phase' \in Phases /\ (the_error' <=> phase' = "failed")
    BY <1>1 DEF Phases
  <1>7. DomTyped'
    BY <1>1, <1>2, <1>4, <1>5, <1>6 DEF DomTyped
  <1> QED
    BY <1>1, <1>2, <1>3, <1>7

LEMMA SlotExpected ==
    ASSUME nest \in Seq(Frame), nest # <<>>, ValueExpected
    PROVE  Len(nest) \in Nat \ {0} /\ Width(nest[Len(nest)]) # 0
  <1>1. Len(nest) \in Nat \ {0} /\ Last(nest) = nest[Len(nest)]
    BY FrontFacts
  <1>2. Last(nest).kind = "array" \/ Last(nest).key # NoKey
    BY DEF ValueExpected, AtRoot
  <1> QED
    BY <1>1, <1>2 DEF Width

LEMMA ScalarAbove ==
    ASSUME DomTyped, ReadScalar, NextValue, cut' \in BOOLEAN,
           NEW kind \in {"string", "null"}, NEW before \in BOOLEAN,
           Done(OnScalar(Whole, Value(kind, values', <<>>)), before),
           NEW b \in Nat, NEW at, b < Len(nest), Laid(Whole, nest, b, at)
    PROVE  /\ DomTyped' /\ Laid(Whole', nest', b, at) /\ SlotOpen(Whole', nest')
           /\ nest' # <<>> /\ Completes(nest, nest')
           /\ \A i \in 1..Len(nest) : nest'[i].kind = nest[i].kind
           /\ phase' = "reading" /\ parsed' = before /\ repeated' = repeated
           /\ Filled(Whole, Whole', nest, at, Value(kind, values', <<>>))
  <1> DEFINE n == Len(nest)
             v == Value(kind, values', <<>>)
             w == SetTop(Whole, v)
  <1>1. nest # <<>> /\ nest \in Seq(Frame) /\ Values(Whole) /\ Len(nest) <= MaxNesting
    BY DEF DomTyped
  <1>2. /\ nest' \in Seq(Frame) /\ nest' # <<>> /\ Len(nest') = n
        /\ \A i \in 1..(n - 1) : nest'[i] = nest[i]
        /\ nest'[n].key = NoKey /\ nest'[n].kind = nest[n].kind
    BY <1>1, ReadScalarFacts
  <1>3. n \in Nat \ {0} /\ Width(nest[n]) # 0
    BY <1>1, SlotExpected DEF ReadScalar
  <1>4. \A i \in 1..n : nest'[i].kind = nest[i].kind
    <2>1. \A i \in 1..n : i = n \/ i \in 1..(n - 1)
      BY <1>3
    <2> QED
      BY <1>2, <2>1
  <1>5. IsValue(v)
    BY ValueFacts
  <1>6. values' \in 0..MaxValues
    BY DomBoundsAssumption DEF NextValue, DomTyped
  <1> HIDE DEF v
  <1>7. /\ Values(w) /\ Laid(w, nest, b, at)
        /\ w[Len(Whole)] = v /\ Len(w) = Len(Whole)
        /\ \A i \in 1..at[n] : w[i] = Whole[i]
        /\ at[n] \in 1..(Len(Whole) - 1)
    BY <1>1, <1>3, <1>5, LaidSlot
  <1> HIDE DEF w
  <1>12. Completes(nest, nest')
    BY <1>2 DEF Completes
  <1>8. PICK x : /\ Postprocess(w) = Result(x, "open")
                 /\ Values(x) /\ Laid(x, nest', b, at) /\ SlotOpen(x, nest')
                 /\ Filled(w, x, nest, at, w[Len(w)])
    BY <1>1, <1>2, <1>3, <1>7, <1>12, LaidValue
  <1>9. Done(Result(x, "open"), before)
    BY <1>8 DEF OnScalar, w, v
  <1>10. /\ DomTyped' /\ Whole' = x /\ parsed' = ("open" = "parsed" \/ before)
         /\ repeated' = repeated
         /\ phase' = IF "open" = "corrupted" THEN "failed"
                     ELSE IF nest' = <<>> THEN "complete" ELSE "reading"
    <2>1. nest' \in Seq(Frame) /\ Len(nest') <= MaxNesting
      BY <1>1, <1>2
    <2> QED
      BY <1>6, <1>8, <1>9, <2>1, DoneFacts
  <1>11. Filled(Whole, x, nest, at, v)
    <2>1. at[n] \in Nat \ {0} /\ at[n] \in 1..at[n]
          /\ \A i \in 1..(at[n] - 1) : i \in 1..at[n]
      BY <1>7
    <2> QED
      BY <1>7, <1>8, <2>1 DEF Filled
  <1> QED
    BY <1>2, <1>4, <1>8, <1>10, <1>11, <1>12 DEF v

LEMMA StartAbove ==
    ASSUME DomTyped, NEW kind \in Kinds, ReadStart(kind), NextValue,
           cut' \in BOOLEAN, NEW before \in BOOLEAN, NEW w, Values(w),
           NEW b \in Nat, NEW at, b <= Len(nest), Laid(w, nest, b, at),
           IF kind = "array" THEN Done(OnStartArray(w), before)
           ELSE Done(OnStartObject(w), before)
    PROVE  /\ DomTyped'
           /\ nest' # <<>> /\ Len(nest') = Len(nest) + 1
           /\ \A i \in 1..Len(nest) : nest'[i] = nest[i]
           /\ nest'[Len(nest) + 1] = NewFrame(kind)
           /\ phase' = "reading" /\ parsed' = before /\ repeated' = repeated
           /\ SlotOpen(Whole', nest')
           /\ \E at2 : /\ Laid(Whole', nest', b, at2)
                       /\ \A i \in (b + 1)..Len(nest) : at2[i] = at[i]
                       /\ at2[Len(nest) + 1] = Len(w)
                       /\ Whole'[Len(w)] = Empty(kind)
                       /\ \A i \in 1..(Len(w) - 1) : Whole'[i] = w[i]
  <1> DEFINE n == Len(nest)
  <1>1. nest \in Seq(Frame) /\ n \in Nat /\ n <= MaxNesting
    BY DEF DomTyped
  <1>2. /\ nest' \in Seq(Frame) /\ nest' # <<>> /\ Len(nest') = n + 1
        /\ \A i \in 1..n : nest'[i] = nest[i]
        /\ nest'[n + 1] = NewFrame(kind)
    BY <1>1, ReadStartFacts
  <1>3. b < n => Width(nest[n]) # 0
    BY <1>1, SlotExpected DEF ReadStart
  <1>4. Len(nest') <= MaxNesting /\ values' \in 0..MaxValues
    <2>1. n < MaxNesting /\ MaxNesting \in Nat
      BY ReaderBoundsAssumption DEF ReadStart
    <2>2. values' \in 0..MaxValues
      BY DomBoundsAssumption DEF NextValue, DomTyped
    <2> QED
      BY <1>1, <1>2, <2>1, <2>2
  <1>5. PICK x, at2 :
            /\ IF kind = "array" THEN OnStartArray(w) = Result(x, "open")
               ELSE OnStartObject(w) = Result(x, "open")
            /\ Values(x) /\ Laid(x, nest', b, at2) /\ SlotOpen(x, nest')
            /\ \A i \in (b + 1)..n : at2[i] = at[i]
            /\ at2[n + 1] = Len(w) /\ x[Len(w)] = Empty(kind)
            /\ \A i \in 1..(Len(w) - 1) : x[i] = w[i]
    BY <1>1, <1>2, <1>3, LaidStart
  <1>6. Done(Result(x, "open"), before)
    BY <1>5
  <1>7. /\ DomTyped' /\ Whole' = x /\ parsed' = ("open" = "parsed" \/ before)
        /\ repeated' = repeated
        /\ phase' = IF "open" = "corrupted" THEN "failed"
                    ELSE IF nest' = <<>> THEN "complete" ELSE "reading"
    BY <1>2, <1>4, <1>5, <1>6, DoneFacts
  <1> QED
    BY <1>2, <1>5, <1>7

LEMMA KeyAbove ==
    ASSUME DomTyped, NEW k \in Keys, ReadKey(k), UNCHANGED values,
           cut' \in BOOLEAN, NEW before \in BOOLEAN,
           Done(OnKey(Whole, k), before),
           NEW b \in Nat, NEW at, b < Len(nest), Laid(Whole, nest, b, at)
    PROVE  /\ DomTyped' /\ Laid(Whole', nest', b, at) /\ SlotOpen(Whole', nest')
           /\ nest' # <<>> /\ Len(nest') = Len(nest)
           /\ \A i \in 1..(Len(nest) - 1) : nest'[i] = nest[i]
           /\ nest[Len(nest)].kind = "object" /\ nest[Len(nest)].key = NoKey
           /\ nest'[Len(nest)].kind = "object" /\ nest'[Len(nest)].key = k
           /\ \A i \in 1..Len(nest) : nest'[i].kind = nest[i].kind
           /\ phase' = "reading" /\ parsed' = before /\ repeated' = repeated
           /\ at[Len(nest)] = Len(Whole)
           /\ \A i \in 1..Len(Whole) : Whole'[i] = Whole[i]
  <1> DEFINE n == Len(nest)
  <1>1. nest \in Seq(Frame) /\ n \in Nat /\ n <= MaxNesting /\ Values(Whole)
    BY DEF DomTyped
  <1>2. /\ nest' \in Seq(Frame) /\ nest' # <<>> /\ Len(nest') = n
        /\ \A i \in 1..(n - 1) : nest'[i] = nest[i]
        /\ nest[n].kind = "object" /\ nest[n].key = NoKey
        /\ nest'[n].kind = "object" /\ nest'[n].key = k
    BY <1>1, ReadKeyFacts
  <1>3. \A i \in 1..n : nest'[i].kind = nest[i].kind
    <2>1. \A i \in 1..n : i = n \/ i \in 1..(n - 1)
      BY <1>1
    <2> QED
      BY <1>2, <2>1
  <1>4. k # NoKey
    BY NoKeyAssumption
  <1>5. PICK x : /\ OnKey(Whole, k) = Result(x, "open")
                 /\ Values(x) /\ Laid(x, nest', b, at) /\ SlotOpen(x, nest')
                 /\ at[n] = Len(Whole) /\ \A i \in 1..Len(Whole) : x[i] = Whole[i]
    BY <1>1, <1>2, <1>4, LaidKey
  <1>6. Done(Result(x, "open"), before)
    BY <1>5
  <1>7. /\ DomTyped' /\ Whole' = x /\ parsed' = ("open" = "parsed" \/ before)
        /\ repeated' = repeated
        /\ phase' = IF "open" = "corrupted" THEN "failed"
                    ELSE IF nest' = <<>> THEN "complete" ELSE "reading"
    <2>1. values' \in 0..MaxValues /\ Len(nest') <= MaxNesting
      BY <1>1, <1>2 DEF DomTyped
    <2> QED
      BY <1>2, <1>5, <1>6, <2>1, DoneFacts
  <1> QED
    BY <1>2, <1>3, <1>5, <1>7

LEMMA EndAbove ==
    ASSUME DomTyped, NEW kind \in Kinds, ReadEnd(kind), UNCHANGED values,
           cut' \in BOOLEAN, NEW before \in BOOLEAN,
           IF kind = "array" THEN Done(OnEndArray(Whole), before)
           ELSE Done(OnEndObject(Whole), before),
           NEW b \in Nat, NEW at, b < Len(nest), Laid(Whole, nest, b, at)
    PROVE  /\ DomTyped' /\ Len(nest') = Len(nest) - 1 /\ repeated' = repeated
           /\ nest[Len(nest)].kind = kind /\ nest[Len(nest)].key = NoKey
           /\ Len(nest) = b + 1 =>
                 /\ m_stack' = <<>> /\ parsed' = TRUE
                 /\ m_value' = Whole[at[Len(nest)]] /\ m_value'.kind = kind
                 /\ phase' = IF nest' = <<>> THEN "complete" ELSE "reading"
                 /\ nest' = <<>> <=> b = 0
           /\ Len(nest) # b + 1 =>
                 /\ Laid(Whole', nest', b, at) /\ SlotOpen(Whole', nest')
                 /\ nest' # <<>> /\ phase' = "reading" /\ parsed' = before
                 /\ Filled(Whole, Whole', Front(nest), at, Whole[at[Len(nest)]])
           /\ Len(nest) > 1 => Completes(Front(nest), nest')
  <1> DEFINE n == Len(nest)
             s == Front(nest)
  <1>1. nest \in Seq(Frame) /\ n <= MaxNesting /\ Values(Whole)
    BY DEF DomTyped
  <1>2. /\ nest # <<>> /\ n \in Nat \ {0} /\ nest[n].kind = kind
        /\ nest' \in Seq(Frame) /\ Len(nest') = n - 1
        /\ nest' = <<>> <=> n = 1
        /\ \A i \in 1..(n - 2) : nest'[i] = nest[i]
        /\ n > 1 => /\ nest'[n - 1].kind = nest[n - 1].kind
                    /\ nest'[n - 1].key = NoKey
    BY <1>1, ReadEndFacts
  <1>3. /\ s \in Seq(Frame) /\ Len(s) = n - 1
        /\ \A i \in 1..(n - 1) : s[i] = nest[i]
        /\ nest[n].key = NoKey
    <2>1. Last(nest) = nest[n] /\ Last(nest).key = NoKey
      BY <1>1, <1>2, FrontFacts DEF ReadEnd
    <2> QED
      BY <1>1, <1>2, <2>1, FrontFacts
  <1> HIDE DEF s
  <1>4. n > 1 => Completes(s, nest')
    <2> SUFFICES ASSUME n > 1
                 PROVE  Completes(s, nest')
      OBVIOUS
    <2>1. /\ n - 1 \in 1..(n - 1) /\ (n - 1) - 1 = n - 2
          /\ \A i \in 1..(n - 2) : i \in 1..(n - 1)
      BY <1>2
    <2>2. \A i \in 1..(Len(s) - 1) : nest'[i] = s[i]
      BY <1>2, <1>3, <2>1
    <2>3. nest'[Len(s)].kind = s[Len(s)].kind /\ nest'[Len(s)].key = NoKey
      <3>1. Len(s) = n - 1 /\ s[n - 1] = nest[n - 1]
        BY <1>3, <2>1
      <3> QED
        BY <1>2, <3>1
    <2> QED
      BY <1>2, <1>3, <2>2, <2>3 DEF Completes
  <1>5. PICK x : /\ IF nest[n].kind = "array" THEN OnEndArray(Whole) = Postprocess(x)
                    ELSE OnEndObject(Whole) = Postprocess(x)
                 /\ Values(x) /\ Len(x) = at[n] /\ Len(x) <= Len(Whole)
                 /\ \A i \in 1..at[n] : x[i] = Whole[i]
                 /\ Laid(x, s, b, at)
                 /\ n - 1 > b => Width(s[n - 1]) # 0
    BY <1>1, <1>3, LaidEnd
  <1>6. Done(Postprocess(x), before)
    BY <1>2, <1>5
  <1>7. /\ values' \in 0..MaxValues /\ nest' \in Seq(Frame)
        /\ Len(nest') <= MaxNesting /\ MaxNesting \in Nat
    BY <1>1, <1>2, ReaderBoundsAssumption DEF DomTyped
  <1>8. Len(x) \in Nat \ {0} /\ at[n] \in 1..at[n] /\ x[at[n]] = Whole[at[n]]
    <2>1. Len(x) \in Nat \ {0}
      BY <1>5, FrontList DEF Values
    <2> QED
      BY <1>5, <2>1
  <1>9. CASE n = b + 1
    <2>1. Len(x) = 1
      <3>1. Len(s) = b
        BY <1>2, <1>3, <1>9
      <3> QED
        BY <1>5, <3>1 DEF Laid
    <2>2. Done(Result(x, "parsed"), before)
      BY <1>6, <2>1, PostRoot
    <2>3. /\ DomTyped' /\ m_value' = x[1] /\ parsed' = ("parsed" = "parsed" \/ before)
          /\ m_stack' = <<>> <=> Len(x) = 1
          /\ repeated' = repeated
          /\ phase' = IF "parsed" = "corrupted" THEN "failed"
                      ELSE IF nest' = <<>> THEN "complete" ELSE "reading"
      BY <1>5, <1>7, <2>2, DoneFacts
    <2>4. m_value' = Whole[at[n]]
      BY <1>5, <1>8, <2>1, <2>3
    <2>5. Whole[at[n]].kind = kind
      <3>1. Innermost(Whole, nest, b, at, n)
        BY <1>1, LaidFacts
      <3> QED
        BY <1>2, <3>1 DEF Innermost
    <2>6. nest' = <<>> <=> b = 0
      BY <1>2, <1>9
    <2> QED
      BY <1>2, <1>3, <1>4, <1>9, <2>1, <2>3, <2>4, <2>5, <2>6 DEF s
  <1>10. CASE n # b + 1
    <2>1. n - 1 > b /\ n > 1 /\ nest' # <<>> /\ b < Len(s) /\ Len(s) = n - 1
      BY <1>2, <1>3, <1>10
    <2>2. Width(s[Len(s)]) # 0 /\ Completes(s, nest')
      BY <1>4, <1>5, <2>1
    <2>3. PICK y : /\ Postprocess(x) = Result(y, "open")
                   /\ Values(y) /\ Laid(y, nest', b, at) /\ SlotOpen(y, nest')
                   /\ Filled(x, y, s, at, x[Len(x)])
      BY <1>3, <1>5, <1>7, <2>1, <2>2, LaidValue
    <2>4. Done(Result(y, "open"), before)
      BY <1>6, <2>3
    <2>5. /\ DomTyped' /\ Whole' = y /\ parsed' = ("open" = "parsed" \/ before)
          /\ repeated' = repeated
          /\ phase' = IF "open" = "corrupted" THEN "failed"
                      ELSE IF nest' = <<>> THEN "complete" ELSE "reading"
      BY <1>7, <2>3, <2>4, DoneFacts
    <2>6. Filled(Whole, y, s, at, Whole[at[n]])
      <3>1. Innermost(Whole, nest, b, at, n)
        BY <1>1, LaidFacts
      <3>2. n - 1 \in (b + 1)..(n - 1)
        BY <1>2, <2>1
      <3>3. at[n - 1] \in Nat \ {0} /\ at[n - 1] < at[n] /\ at[n] \in Nat
        BY <1>5, <1>8, <3>1, <3>2 DEF Innermost
      <3>4. /\ at[n - 1] \in 1..at[n]
            /\ \A i \in 1..(at[n - 1] - 1) : i \in 1..at[n]
        BY <3>3
      <3>5. x[Len(x)] = Whole[at[n]]
        BY <1>5, <1>8
      <3> QED
        BY <1>5, <2>1, <2>3, <3>4, <3>5 DEF Filled
    <2> QED
      BY <1>2, <1>3, <1>4, <1>10, <2>1, <2>3, <2>5, <2>6 DEF s
  <1> QED
    BY <1>9, <1>10

-------------------------------------------------------------------------------
(* The invariant, event by event.                                           *)
LEMMA ReadsAgain ==
    ASSUME nest' \in Seq(Frame), NEW at, Laid(Whole', nest', 0, at),
           SlotOpen(Whole', nest'),
           parsed' => repeated' /\ \A i \in 1..Len(nest') : nest'[i].kind = "object"
    PROVE  DomReads'
  <1>1. LaidOut(Whole', nest', 0)
    BY LaidPositions
  <1> QED
    BY <1>1 DEF DomReads, ObjectsTo

LEMMA AstrayAgain ==
    ASSUME nest' \in Seq(Frame), NEW b \in Nat,
           \A i \in 1..b : nest'[i].kind = "object",
           Len(nest') # b, ~parsed', nest'[b + 1].kind = "array",
           NEW at, Laid(Whole', nest', b, at)
    PROVE  DomAstray(b)'
  <1>1. LaidOut(Whole', nest', b)
    BY LaidPositions
  <1> QED
    BY <1>1 DEF DomAstray, ObjectsTo

(* Which texts an event can belong to.                                      *)
LEMMA Regular ==
    ASSUME DomInv, Active, nest # <<>>, ~cut
    PROVE  /\ phase = "reading" /\ Len(nest) \in Nat \ {0}
           /\ \E at : Laid(Whole, nest, 0, at)
           /\ SlotOpen(Whole, nest)
           /\ parsed => repeated /\ ObjectsTo(Len(nest))
  <1>1. phase = "reading"
    BY DEF Active
  <1>2. DomReads
    BY <1>1 DEF DomInv
  <1>3. Len(nest) \in Nat \ {0}
    BY FrontFacts DEF DomInv, DomTyped
  <1> QED
    BY <1>1, <1>2, <1>3 DEF DomReads, LaidOut

LEMMA Astray ==
    ASSUME DomInv, Active, cut
    PROVE  /\ phase = "reading" /\ repeated /\ nest # <<>>
           /\ Len(nest) \in Nat \ {0}
           /\ \E b \in 1..Len(nest) :
                 /\ b \in Nat \ {0} /\ ObjectsTo(b)
                 /\ \/ /\ Len(nest) = b /\ parsed /\ m_stack = <<>>
                       /\ nest[Len(nest)].kind = "object"
                       /\ nest[Len(nest)].key = NoKey /\ m_value.kind # "object"
                    \/ /\ b < Len(nest) /\ ~parsed /\ nest[b + 1].kind = "array"
                       /\ \E at : Laid(Whole, nest, b, at)
  <1>1. phase = "reading"
    BY DEF Active, DomInv
  <1>2. nest # <<>> /\ repeated /\ nest \in Seq(Frame)
    BY <1>1 DEF DomInv, DomTyped
  <1>3. Len(nest) \in Nat \ {0}
    BY <1>2, FrontFacts
  <1>4. PICK b \in 1..Len(nest) : DomAstray(b)
    BY <1>1 DEF DomInv
  <1>5. b \in Nat \ {0} /\ b \in 1..b /\ (Len(nest) # b => b < Len(nest))
    BY <1>3
  <1>6. CASE Len(nest) = b
    BY <1>1, <1>2, <1>3, <1>4, <1>5, <1>6 DEF DomAstray, ObjectsTo
  <1>7. CASE Len(nest) # b
    BY <1>1, <1>2, <1>3, <1>4, <1>5, <1>7 DEF DomAstray, LaidOut
  <1> QED
    BY <1>6, <1>7

(* Before a value is read the text is regular, or astray within an array.   *)
LEMMA AstrayValue ==
    ASSUME DomInv, ValueExpected, cut
    PROVE  /\ ~parsed /\ repeated /\ nest # <<>> /\ Len(nest) \in Nat \ {0}
           /\ \E b, at :
                 /\ b \in Nat \ {0}
                 /\ b < Len(nest) /\ ObjectsTo(b) /\ b \in 1..Len(nest)
                 /\ nest[b + 1].kind = "array" /\ Laid(Whole, nest, b, at)
  <1>1. Active
    BY DEF ValueExpected
  <1>2. /\ repeated /\ nest # <<>> /\ Len(nest) \in Nat \ {0}
        /\ \E b \in 1..Len(nest) :
              /\ b \in Nat \ {0} /\ ObjectsTo(b)
              /\ \/ /\ Len(nest) = b /\ parsed /\ m_stack = <<>>
                    /\ nest[Len(nest)].kind = "object"
                    /\ nest[Len(nest)].key = NoKey /\ m_value.kind # "object"
                 \/ /\ b < Len(nest) /\ ~parsed /\ nest[b + 1].kind = "array"
                    /\ \E at : Laid(Whole, nest, b, at)
    BY <1>1, Astray
  <1>3. ~(nest[Len(nest)].kind = "object" /\ nest[Len(nest)].key = NoKey)
    <2>1. Width(nest[Len(nest)]) # 0
      BY <1>2, SlotExpected DEF DomInv, DomTyped
    <2> QED
      BY <2>1 DEF Width
  <1> QED
    BY <1>2, <1>3

LEMMA ReadyFacts ==
    ASSUME DomInv, Active, nest = <<>>
    PROVE  /\ phase = "ready" /\ m_stack = <<>> /\ ~cut /\ (parsed <=> repeated)
           /\ Whole = <<m_value>> /\ Len(Whole) = 1 /\ WholePrechecked = Whole
           /\ \A at : Laid(Whole, nest, 0, at)
  <1>1. phase = "ready" /\ m_stack = <<>> /\ ~cut /\ (parsed <=> repeated)
    BY DEF Active, DomInv
  <1>2. Whole = <<m_value>> /\ Len(Whole) = 1
    BY <1>1, WholeFacts DEF DomInv, DomTyped
  <1>3. \A at : Laid(Whole, nest, 0, at)
    BY <1>2 DEF Laid
  <1> QED
    BY <1>1, <1>2, <1>3 DEF WholePrechecked

(* A scalar that is the whole of what is on the list.                       *)
LEMMA ScalarAlone ==
    ASSUME DomTyped, NEW v, IsValue(v), NEW w, IsSeq(w), Len(w) = 1,
           NEW before \in BOOLEAN, Done(OnScalar(w, v), before),
           nest' \in Seq(Frame), Len(nest') <= MaxNesting, cut' \in BOOLEAN,
           values' \in 0..MaxValues
    PROVE  /\ DomTyped' /\ m_value' = v /\ m_stack' = <<>> /\ parsed' = TRUE
           /\ repeated' = repeated
           /\ phase' = IF nest' = <<>> THEN "complete" ELSE "reading"
  <1> DEFINE x == SetTop(w, v)
  <1>1. w # <<>>
    <2>1. Len(<<>>) = 0
      OBVIOUS
    <2> QED
      BY <2>1
  <1>2. IsSeq(x) /\ x # <<>> /\ Len(x) = 1 /\ x[1] = v
    BY <1>1, SetTopList
  <1>3. Values(x)
    <2>1. \A i \in 1..Len(x) : i = 1
      BY <1>2
    <2> QED
      BY <1>2, <2>1 DEF Values
  <1>4. OnScalar(w, v) = Result(x, "parsed")
    BY <1>2, PostRoot DEF OnScalar
  <1> HIDE DEF x
  <1>5. Done(Result(x, "parsed"), before)
    BY <1>4
  <1>6. /\ DomTyped' /\ m_value' = x[1] /\ parsed' = ("parsed" = "parsed" \/ before)
        /\ m_stack' = <<>> <=> Len(x) = 1
        /\ repeated' = repeated
        /\ phase' = IF "parsed" = "corrupted" THEN "failed"
                    ELSE IF nest' = <<>> THEN "complete" ELSE "reading"
    BY <1>3, <1>5, DoneFacts
  <1> QED
    BY <1>2, <1>6

LEMMA ScalarKeeps == DomInv /\ Scalar => DomInv'
  <1> SUFFICES ASSUME DomInv, Scalar
               PROVE  DomInv'
    OBVIOUS
  <1>1. DomTyped /\ ReadScalar /\ ValueExpected /\ Active /\ NextValue /\ Prechecked
        /\ nest \in Seq(Frame) /\ Len(nest) <= MaxNesting
    BY DEF DomInv, DomTyped, Scalar, ReadScalar, ValueExpected
  <1>2. PICK kind \in {"string", "null"} :
            Done(OnScalar(WholePrechecked, Value(kind, values', <<>>)),
                 parsed /\ ~Prepared)
    BY DEF Scalar
  <1> DEFINE v == Value(kind, values', <<>>)
  <1>3. IsValue(v) /\ v.kind = kind
    BY ValueFacts
  <1>4. values' \in 0..MaxValues
    BY <1>1, DomBoundsAssumption DEF NextValue, DomTyped
  <1>5. cut' \in BOOLEAN /\ (parsed /\ ~Prepared) \in BOOLEAN /\ Prepared \in BOOLEAN
        /\ (cut' <=> cut \/ (Prepared /\ nest # <<>>))
    BY <1>1 DEF Prechecked, Prepared, AtRoot, DomTyped
  <1>6. CASE nest = <<>>
    <2>1. /\ m_stack = <<>> /\ ~cut /\ WholePrechecked = Whole /\ Len(Whole) = 1
      BY <1>1, <1>6, ReadyFacts
    <2>2. IsSeq(Whole)
      BY <1>1 DEF DomTyped, Values
    <2>3. nest' = <<>>
      BY <1>1, <1>6 DEF ReadScalar, WithScalar
    <2>4. nest' \in Seq(Frame) /\ Len(nest') <= MaxNesting
      BY <1>1, <1>6, <2>3
    <2>5. /\ DomTyped' /\ m_stack' = <<>> /\ parsed' = TRUE
          /\ phase' = IF nest' = <<>> THEN "complete" ELSE "reading"
      BY <1>1, <1>2, <1>3, <1>4, <1>5, <2>1, <2>2, <2>4, ScalarAlone
    <2> QED
      BY <1>5, <1>6, <2>1, <2>3, <2>5 DEF DomInv
  <1>7. CASE nest # <<>> /\ Prepared
    <2>1. parsed /\ repeated /\ WholePrechecked = <<m_value>>
      BY <1>7 DEF Prepared, WholePrechecked
    <2>2. ~cut
      BY <1>1, <2>1, AstrayValue
    <2>3. Len(nest) \in Nat \ {0} /\ ObjectsTo(Len(nest))
      BY <1>1, <1>7, <2>1, <2>2, Regular
    <2>4. /\ nest' \in Seq(Frame) /\ nest' # <<>> /\ Len(nest') = Len(nest)
          /\ \A i \in 1..(Len(nest) - 1) : nest'[i] = nest[i]
          /\ nest'[Len(nest)].key = NoKey
          /\ nest'[Len(nest)].kind = nest[Len(nest)].kind
      BY <1>1, <1>7, ReadScalarFacts
    <2>5. /\ DomTyped' /\ m_stack' = <<>> /\ parsed' = TRUE /\ m_value' = v
          /\ repeated' = repeated
          /\ phase' = IF nest' = <<>> THEN "complete" ELSE "reading"
      <3>1. IsSeq(<<m_value>>) /\ Len(<<m_value>>) = 1
        BY SingletonList
      <3>2. nest' \in Seq(Frame) /\ Len(nest') <= MaxNesting
        BY <1>1, <2>4
      <3> QED
        BY <1>1, <1>2, <1>3, <1>4, <1>5, <2>1, <3>1, <3>2, ScalarAlone
    <2>6. \A i \in 1..Len(nest) : nest'[i].kind = "object"
      <3>1. \A i \in 1..Len(nest) : i = Len(nest) \/ i \in 1..(Len(nest) - 1)
        BY <2>3
      <3> QED
        BY <2>3, <2>4, <3>1 DEF ObjectsTo
    <2>9. cut' /\ phase' = "reading" /\ repeated'
      BY <1>5, <1>7, <2>1, <2>4, <2>5
    <2>10. \E b \in 1..Len(nest') : DomAstray(b)'
      <3>1. PICK n : n = Len(nest)
        OBVIOUS
      <3>2. n \in 1..Len(nest') /\ Len(nest') = n /\ m_value'.kind # "object"
        BY <1>3, <2>3, <2>4, <2>5, <3>1
      <3>3. DomAstray(n)'
        BY <2>4, <2>5, <2>6, <3>1, <3>2 DEF DomAstray, ObjectsTo
      <3> QED
        BY <3>2, <3>3
    <2> QED
      BY <2>4, <2>5, <2>9, <2>10 DEF DomInv
  <1>8. CASE nest # <<>> /\ ~Prepared
    <2>1. WholePrechecked = Whole /\ (cut' <=> cut)
          /\ Done(OnScalar(Whole, v), parsed /\ ~Prepared)
      BY <1>2, <1>5, <1>8 DEF WholePrechecked
    <2>2. (parsed /\ ~Prepared) = parsed /\ parsed \in BOOLEAN
      BY <1>1, <1>8 DEF DomTyped
    <2>3. Done(OnScalar(Whole, v), parsed)
      BY <2>1, <2>2
    <2>4. CASE cut
      <3>1. ~parsed /\ repeated
        BY <1>1, <2>4, AstrayValue
      <3>2. PICK b, at :
                /\ b \in Nat \ {0}
                /\ b < Len(nest) /\ ObjectsTo(b) /\ b \in 1..Len(nest)
                /\ nest[b + 1].kind = "array" /\ Laid(Whole, nest, b, at)
        BY <1>1, <2>4, AstrayValue
      <3>3. /\ DomTyped' /\ Laid(Whole', nest', b, at)
            /\ nest' # <<>> /\ Completes(nest, nest')
            /\ \A i \in 1..Len(nest) : nest'[i].kind = nest[i].kind
            /\ phase' = "reading" /\ parsed' = parsed /\ repeated' = repeated
        BY <1>1, <1>5, <2>2, <2>3, <3>2, ScalarAbove
      <3>4. Len(nest') = Len(nest) /\ b # Len(nest) /\ b \in 1..Len(nest')
            /\ b + 1 \in 1..Len(nest) /\ \A i \in 1..b : i \in 1..Len(nest)
        BY <1>1, <3>2, <3>3 DEF Completes
      <3>5. \A i \in 1..b : nest'[i].kind = "object"
        BY <3>2, <3>3, <3>4 DEF ObjectsTo
      <3>6. nest'[b + 1].kind = "array"
        BY <3>2, <3>3, <3>4
      <3>7. DomAstray(b)'
        BY <3>1, <3>2, <3>3, <3>4, <3>5, <3>6, AstrayAgain DEF DomTyped
      <3> QED
        BY <2>1, <2>4, <3>1, <3>3, <3>4, <3>7 DEF DomInv
    <2>5. CASE ~cut
      <3>1. ~parsed
        BY <1>1, <1>8, <2>5, Regular DEF Prepared
      <3>2. PICK at : Laid(Whole, nest, 0, at)
        BY <1>1, <1>8, <2>5, Regular
      <3>3. 0 < Len(nest)
        BY <1>1, <1>8, <2>5, Regular
      <3>4. /\ DomTyped' /\ Laid(Whole', nest', 0, at) /\ SlotOpen(Whole', nest')
            /\ nest' # <<>>
            /\ phase' = "reading" /\ parsed' = parsed
        BY <1>1, <1>5, <2>2, <2>3, <3>2, <3>3, ScalarAbove
      <3>5. DomReads'
        BY <3>1, <3>4, ReadsAgain DEF DomTyped
      <3> QED
        BY <2>1, <2>5, <3>4, <3>5 DEF DomInv
    <2> QED
      BY <2>4, <2>5
  <1> QED
    BY <1>6, <1>7, <1>8

LEMMA StartArrayKeeps == DomInv /\ StartArray => DomInv'
  <1> SUFFICES ASSUME DomInv, StartArray
               PROVE  DomInv'
    OBVIOUS
  <1>1. DomTyped /\ ReadStart("array") /\ ValueExpected /\ Active /\ NextValue
        /\ Prechecked /\ nest \in Seq(Frame) /\ "array" \in Kinds
    BY DEF DomInv, DomTyped, StartArray, ReadStart, ValueExpected, Kinds
  <1>2. Done(OnStartArray(WholePrechecked), parsed /\ ~Prepared)
    BY DEF StartArray
  <1>3. cut' \in BOOLEAN /\ (parsed /\ ~Prepared) \in BOOLEAN /\ Prepared \in BOOLEAN
        /\ (cut' <=> cut \/ (Prepared /\ nest # <<>>))
    BY <1>1 DEF Prechecked, Prepared, AtRoot, DomTyped
  <1>4. Values(Whole) /\ IsSeq(m_stack) /\ Len(nest) \in Nat
        /\ (nest = <<>> <=> Len(nest) = 0)
    BY <1>1 DEF DomTyped
  <1>5. CASE nest = <<>>
    <2>1. /\ ~cut /\ (parsed <=> repeated) /\ WholePrechecked = Whole
          /\ \A at : Laid(Whole, nest, 0, at)
      BY <1>1, <1>5, ReadyFacts
    <2>2. Done(OnStartArray(Whole), parsed /\ ~Prepared) /\ 0 \in Nat /\ 0 <= Len(nest)
      BY <1>2, <1>4, <2>1
    <2>3. PICK at : Laid(Whole, nest, 0, at)
      BY <2>1
    <2>4. /\ DomTyped' /\ nest' # <<>> /\ phase' = "reading"
          /\ parsed' = (parsed /\ ~Prepared) /\ SlotOpen(Whole', nest')
          /\ \E at2 : Laid(Whole', nest', 0, at2)
      BY <1>1, <1>3, <1>4, <2>2, <2>3, StartAbove
    <2>5. ~parsed' /\ ~cut'
      BY <1>3, <1>5, <2>1, <2>4 DEF Prepared
    <2>6. DomReads'
      BY <2>4, <2>5, ReadsAgain DEF DomTyped
    <2> QED
      BY <2>4, <2>5, <2>6 DEF DomInv
  <1>6. CASE nest # <<>> /\ Prepared
    <2>1. parsed /\ repeated /\ WholePrechecked = <<m_value>>
      BY <1>6 DEF Prepared, WholePrechecked
    <2>2. ~cut
      BY <1>1, <2>1, AstrayValue
    <2>3. Len(nest) \in Nat \ {0} /\ ObjectsTo(Len(nest))
      BY <1>1, <1>6, <2>1, <2>2, Regular
    <2> PICK n : n = Len(nest)
      OBVIOUS
    <2>4. n \in Nat \ {0} /\ n <= Len(nest)
      BY <2>3
    <2>5. Values(<<m_value>>)
      <3>1. IsValue(m_value)
        <4>1. Whole[1] = m_value /\ Whole # <<>> /\ IsSeq(Whole)
          BY <1>4, WholeFacts
        <4>2. 1 \in 1..Len(Whole)
          BY <4>1, FrontList
        <4> QED
          BY <1>4, <4>1, <4>2 DEF Values
      <3>2. IsSeq(<<m_value>>) /\ <<m_value>> # <<>> /\ Len(<<m_value>>) = 1
            /\ <<m_value>>[1] = m_value
        BY SingletonList
      <3>3. \A i \in 1..Len(<<m_value>>) : i = 1
        BY <3>2
      <3> QED
        BY <3>1, <3>2, <3>3 DEF Values
    <2>6. Laid(<<m_value>>, nest, n, <<>>)
      <3>1. Len(<<m_value>>) = 1 /\ (n + 1)..Len(nest) = {}
        BY <2>4
      <3> QED
        BY <3>1 DEF Laid
    <2>7. Done(OnStartArray(<<m_value>>), parsed /\ ~Prepared)
      BY <1>2, <2>1
    <2>8. /\ DomTyped' /\ nest' # <<>> /\ phase' = "reading" /\ repeated' = repeated
          /\ Len(nest') = Len(nest) + 1
          /\ \A i \in 1..Len(nest) : nest'[i] = nest[i]
          /\ nest'[Len(nest) + 1] = NewFrame("array")
          /\ parsed' = (parsed /\ ~Prepared) /\ SlotOpen(Whole', nest')
          /\ \E at2 : Laid(Whole', nest', n, at2)
      BY <1>1, <1>3, <2>4, <2>5, <2>6, <2>7, StartAbove
    <2>9. ~parsed' /\ cut' /\ repeated'
      BY <1>3, <1>6, <2>1, <2>8
    <2>10. /\ \A i \in 1..n : nest'[i].kind = "object"
           /\ Len(nest') # n /\ n \in 1..Len(nest')
           /\ nest'[n + 1].kind = "array"
      BY <2>3, <2>4, <2>8, NewFrameType DEF ObjectsTo, Kinds
    <2>11. DomAstray(n)'
      BY <2>4, <2>8, <2>9, <2>10, AstrayAgain DEF DomTyped
    <2> QED
      BY <2>8, <2>9, <2>10, <2>11 DEF DomInv
  <1>7. CASE nest # <<>> /\ ~Prepared
    <2>1. WholePrechecked = Whole /\ (cut' <=> cut)
      BY <1>3, <1>7 DEF WholePrechecked
    <2>2. (parsed /\ ~Prepared) = parsed /\ parsed \in BOOLEAN
      BY <1>1, <1>7 DEF DomTyped
    <2>3. Done(OnStartArray(Whole), parsed)
      BY <1>2, <2>1, <2>2
    <2>4. CASE cut
      <3>1. ~parsed /\ repeated
        BY <1>1, <2>4, AstrayValue
      <3>2. PICK b, at :
                /\ b \in Nat \ {0}
                /\ b < Len(nest) /\ ObjectsTo(b) /\ b \in 1..Len(nest)
                /\ nest[b + 1].kind = "array" /\ Laid(Whole, nest, b, at)
        BY <1>1, <2>4, AstrayValue
      <3>3. b \in Nat /\ b <= Len(nest) /\ b + 1 \in 1..Len(nest)
            /\ \A i \in 1..b : i \in 1..Len(nest)
        BY <1>4, <3>2
      <3>4. /\ DomTyped' /\ nest' # <<>> /\ phase' = "reading" /\ repeated' = repeated
            /\ Len(nest') = Len(nest) + 1
            /\ \A i \in 1..Len(nest) : nest'[i] = nest[i]
            /\ parsed' = parsed
            /\ \E at2 : Laid(Whole', nest', b, at2)
        BY <1>1, <1>3, <1>4, <2>2, <2>3, <3>2, <3>3, StartAbove
      <3>5. /\ \A i \in 1..b : nest'[i].kind = "object"
            /\ nest'[b + 1].kind = "array"
            /\ Len(nest') # b /\ b \in 1..Len(nest')
        BY <1>4, <3>2, <3>3, <3>4 DEF ObjectsTo
      <3>6. DomAstray(b)'
        BY <3>1, <3>2, <3>4, <3>5, AstrayAgain DEF DomTyped
      <3> QED
        BY <2>1, <2>4, <3>1, <3>4, <3>5, <3>6 DEF DomInv
    <2>5. CASE ~cut
      <3>1. ~parsed
        BY <1>1, <1>7, <2>5, Regular DEF Prepared
      <3>2. PICK at : Laid(Whole, nest, 0, at)
        BY <1>1, <1>7, <2>5, Regular
      <3>3. 0 \in Nat /\ 0 <= Len(nest)
        BY <1>4
      <3>4. /\ DomTyped' /\ nest' # <<>> /\ phase' = "reading"
            /\ parsed' = parsed /\ SlotOpen(Whole', nest')
            /\ \E at2 : Laid(Whole', nest', 0, at2)
        BY <1>1, <1>3, <1>4, <2>2, <2>3, <3>2, <3>3, StartAbove
      <3>5. DomReads'
        BY <3>1, <3>4, ReadsAgain DEF DomTyped
      <3> QED
        BY <2>1, <2>5, <3>4, <3>5 DEF DomInv
    <2> QED
      BY <2>4, <2>5
  <1> QED
    BY <1>5, <1>6, <1>7

LEMMA StartObjectKeeps == DomInv /\ StartObject => DomInv'
  <1> SUFFICES ASSUME DomInv, StartObject
               PROVE  DomInv'
    OBVIOUS
  <1>1. DomTyped /\ ReadStart("object") /\ ValueExpected /\ Active /\ NextValue
        /\ cut' = cut /\ nest \in Seq(Frame) /\ "object" \in Kinds
    BY DEF DomInv, DomTyped, StartObject, ReadStart, ValueExpected, Kinds
  <1>2. Done(OnStartObject(Whole), parsed)
    BY DEF StartObject
  <1>3. cut' \in BOOLEAN /\ parsed \in BOOLEAN
    BY <1>1 DEF DomTyped
  <1>4. Values(Whole) /\ Len(nest) \in Nat /\ (nest = <<>> <=> Len(nest) = 0)
    BY <1>1 DEF DomTyped
  <1>5. CASE cut
    <2>1. ~parsed /\ repeated
      BY <1>1, <1>5, AstrayValue
    <2>2. PICK b, at :
              /\ b \in Nat \ {0}
              /\ b < Len(nest) /\ ObjectsTo(b) /\ b \in 1..Len(nest)
              /\ nest[b + 1].kind = "array" /\ Laid(Whole, nest, b, at)
      BY <1>1, <1>5, AstrayValue
    <2>3. b \in Nat /\ b <= Len(nest) /\ b + 1 \in 1..Len(nest)
          /\ \A i \in 1..b : i \in 1..Len(nest)
      BY <1>4, <2>2
    <2>4. /\ DomTyped' /\ nest' # <<>> /\ phase' = "reading" /\ repeated' = repeated
          /\ Len(nest') = Len(nest) + 1
          /\ \A i \in 1..Len(nest) : nest'[i] = nest[i]
          /\ parsed' = parsed
          /\ \E at2 : Laid(Whole', nest', b, at2)
      BY <1>1, <1>2, <1>3, <1>4, <2>2, <2>3, StartAbove
    <2>5. /\ \A i \in 1..b : nest'[i].kind = "object"
          /\ nest'[b + 1].kind = "array"
          /\ Len(nest') # b /\ b \in 1..Len(nest')
      BY <1>4, <2>2, <2>3, <2>4 DEF ObjectsTo
    <2>6. DomAstray(b)'
      BY <2>1, <2>2, <2>4, <2>5, AstrayAgain DEF DomTyped
    <2> QED
      BY <1>1, <1>5, <2>1, <2>4, <2>5, <2>6 DEF DomInv
  <1>6. CASE ~cut
    <2>1. PICK at : Laid(Whole, nest, 0, at)
      BY <1>1, <1>6, ReadyFacts, Regular
    <2>2. parsed => repeated /\ \A i \in 1..Len(nest) : nest[i].kind = "object"
      <3>1. CASE nest = <<>>
        <4>1. \A i \in 1..Len(nest) : FALSE
          BY <1>4, <3>1
        <4> QED
          BY <1>1, <3>1, <4>1, ReadyFacts
      <3>2. CASE nest # <<>>
        BY <1>1, <1>6, <3>2, Regular DEF ObjectsTo
      <3> QED
        BY <3>1, <3>2
    <2>3. 0 \in Nat /\ 0 <= Len(nest)
      BY <1>4
    <2>4. /\ DomTyped' /\ nest' # <<>> /\ phase' = "reading" /\ repeated' = repeated
          /\ Len(nest') = Len(nest) + 1
          /\ \A i \in 1..Len(nest) : nest'[i] = nest[i]
          /\ nest'[Len(nest) + 1] = NewFrame("object")
          /\ parsed' = parsed /\ SlotOpen(Whole', nest')
          /\ \E at2 : Laid(Whole', nest', 0, at2)
      BY <1>1, <1>2, <1>3, <1>4, <2>1, <2>3, StartAbove
    <2>5. parsed' => repeated' /\ \A i \in 1..Len(nest') : nest'[i].kind = "object"
      <3>1. \A i \in 1..Len(nest') : i = Len(nest) + 1 \/ i \in 1..Len(nest)
        BY <1>4, <2>4
      <3>2. nest'[Len(nest) + 1].kind = "object"
        BY <1>1, <2>4, NewFrameType
      <3> QED
        BY <2>2, <2>4, <3>1, <3>2
    <2>6. DomReads'
      BY <2>4, <2>5, ReadsAgain DEF DomTyped
    <2> QED
      BY <1>1, <1>6, <2>4, <2>6 DEF DomInv
  <1> QED
    BY <1>5, <1>6

(* A value that was completed in the middle of an object takes the place of *)
(* it: whatever the object goes on with is refused.                         *)
LEMMA Refused ==
    ASSUME DomInv, cut, m_stack = <<>>, m_value.kind # "object",
           nest' \in Seq(Frame), Len(nest') <= MaxNesting,
           UNCHANGED <<values, cut>>,
           \/ \E k \in Keys : Done(OnKey(Whole, k), parsed)
           \/ Done(OnEndObject(Whole), parsed)
    PROVE  DomInv'
  <1>1. DomTyped /\ IsSeq(m_stack) /\ Values(Whole) /\ parsed \in BOOLEAN
        /\ cut' \in BOOLEAN /\ values' \in 0..MaxValues
    BY DEF DomInv, DomTyped
  <1>2. Whole = <<m_value>> /\ Len(Whole) = 1
    BY <1>1, WholeFacts
  <1>3. Top(Whole).kind # "object"
    BY <1>2, SingletonList
  <1>4. /\ \A k \in Keys : OnKey(Whole, k) = Result(Whole, "corrupted")
        /\ OnEndObject(Whole) = Result(Whole, "corrupted")
    BY <1>3 DEF OnKey, OnEndObject, EndsObject
  <1>5. Done(Result(Whole, "corrupted"), parsed)
    BY <1>4
  <1>6. /\ DomTyped' /\ m_stack' = <<>>
        /\ phase' = IF "corrupted" = "corrupted" THEN "failed"
                    ELSE IF nest' = <<>> THEN "complete" ELSE "reading"
    BY <1>1, <1>2, <1>5, DoneFacts
  <1> QED
    BY <1>6 DEF DomInv

LEMMA KeyKeeps == DomInv /\ Key => DomInv'
  <1> SUFFICES ASSUME DomInv, Key
               PROVE  DomInv'
    OBVIOUS
  <1>1. PICK k \in Keys : ReadKey(k) /\ Done(OnKey(Whole, k), parsed)
    BY DEF Key
  <1>2. /\ DomTyped /\ Active /\ nest # <<>> /\ values' = values /\ cut' = cut
        /\ nest \in Seq(Frame) /\ Len(nest) <= MaxNesting /\ Values(Whole)
        /\ parsed \in BOOLEAN /\ cut' \in BOOLEAN
    BY <1>1 DEF DomInv, DomTyped, Key, ReadKey, KeyExpected, AtRoot
  <1>3. nest' \in Seq(Frame) /\ nest' # <<>> /\ Len(nest') = Len(nest)
    BY <1>1, <1>2, ReadKeyFacts
  <1>4. CASE cut
    <2>1. PICK b \in 1..Len(nest) :
              /\ b \in Nat \ {0} /\ ObjectsTo(b)
              /\ \/ /\ Len(nest) = b /\ parsed /\ m_stack = <<>>
                    /\ nest[Len(nest)].kind = "object"
                    /\ nest[Len(nest)].key = NoKey /\ m_value.kind # "object"
                 \/ /\ b < Len(nest) /\ ~parsed /\ nest[b + 1].kind = "array"
                    /\ \E at : Laid(Whole, nest, b, at)
      BY <1>2, <1>4, Astray
    <2>2. repeated /\ Len(nest) \in Nat \ {0}
      BY <1>2, <1>4, Astray
    <2>3. CASE m_stack = <<>> /\ m_value.kind # "object"
      BY <1>1, <1>2, <1>3, <1>4, <2>3, Refused
    <2>4. CASE b < Len(nest) /\ ~parsed /\ nest[b + 1].kind = "array"
               /\ \E at : Laid(Whole, nest, b, at)
      <3>1. PICK at : Laid(Whole, nest, b, at)
        BY <2>4
      <3>2. b \in Nat /\ b < Len(nest) /\ b + 1 \in 1..Len(nest)
            /\ \A i \in 1..b : i \in 1..Len(nest)
        BY <2>1, <2>2, <2>4
      <3>3. /\ DomTyped' /\ Laid(Whole', nest', b, at)
            /\ \A i \in 1..Len(nest) : nest'[i].kind = nest[i].kind
            /\ phase' = "reading" /\ parsed' = parsed /\ repeated' = repeated
        BY <1>1, <1>2, <3>1, <3>2, KeyAbove
      <3>4. /\ \A i \in 1..b : nest'[i].kind = "object"
            /\ nest'[b + 1].kind = "array"
            /\ Len(nest') # b /\ b \in 1..Len(nest')
        BY <1>3, <2>1, <2>4, <3>2, <3>3 DEF ObjectsTo
      <3>5. DomAstray(b)'
        BY <1>3, <2>4, <3>2, <3>3, <3>4, AstrayAgain
      <3> QED
        BY <1>2, <1>3, <1>4, <2>2, <3>3, <3>4, <3>5 DEF DomInv
    <2> QED
      BY <2>1, <2>3, <2>4
  <1>5. CASE ~cut
    <2>1. PICK at : Laid(Whole, nest, 0, at)
      BY <1>2, <1>5, Regular
    <2>2. Len(nest) \in Nat \ {0} /\ (parsed => repeated /\ ObjectsTo(Len(nest)))
      BY <1>2, <1>5, Regular
    <2>3. 0 \in Nat /\ 0 < Len(nest)
      BY <2>2
    <2>4. /\ DomTyped' /\ Laid(Whole', nest', 0, at) /\ SlotOpen(Whole', nest')
          /\ \A i \in 1..Len(nest) : nest'[i].kind = nest[i].kind
          /\ phase' = "reading" /\ parsed' = parsed /\ repeated' = repeated
      BY <1>1, <1>2, <2>1, <2>3, KeyAbove
    <2>5. parsed' => repeated' /\ \A i \in 1..Len(nest') : nest'[i].kind = "object"
      BY <1>3, <2>2, <2>4 DEF ObjectsTo
    <2>6. DomReads'
      BY <1>3, <2>4, <2>5, ReadsAgain
    <2> QED
      BY <1>2, <1>3, <1>5, <2>4, <2>6 DEF DomInv
  <1> QED
    BY <1>4, <1>5

(* The frames that are left when a container has ended.                     *)
LEMMA LeftAfterEnd ==
    ASSUME nest \in Seq(Frame), Len(nest) \in Nat, Len(nest) > 1,
           Completes(Front(nest), nest'), Len(nest') = Len(nest) - 1
    PROVE  /\ \A i \in 1..(Len(nest) - 1) : nest'[i].kind = nest[i].kind
           /\ nest'[Len(nest) - 1].key = NoKey
  <1> DEFINE s == Front(nest)
             m == Len(nest) - 1
  <1>1. s \in Seq(Frame) /\ Len(s) = m /\ \A i \in 1..m : s[i] = nest[i]
    <2>1. nest # <<>>
      OBVIOUS
    <2> QED
      BY <2>1, FrontFacts
  <1>2. m \in 1..m /\ m \in Nat /\ \A i \in 1..m : i = m \/ i \in 1..(m - 1)
    OBVIOUS
  <1> HIDE DEF s
  <1>3. /\ \A i \in 1..(Len(s) - 1) : nest'[i] = s[i]
        /\ nest'[Len(s)].kind = s[Len(s)].kind /\ nest'[Len(s)].key = NoKey
    BY DEF Completes, s
  <1> HIDE DEF m
  <1>4. \A i \in 1..m : nest'[i].kind = nest[i].kind
    BY <1>1, <1>2, <1>3
  <1> QED
    BY <1>1, <1>3, <1>4 DEF m

LEMMA EndKeeps == DomInv /\ (EndArray \/ EndObject) => DomInv'
  <1> SUFFICES ASSUME DomInv, EndArray \/ EndObject
               PROVE  DomInv'
    OBVIOUS
  <1>1. PICK kind \in Kinds :
            /\ ReadEnd(kind)
            /\ IF kind = "array" THEN Done(OnEndArray(Whole), parsed)
               ELSE Done(OnEndObject(Whole), parsed)
    BY DEF EndArray, EndObject, Kinds
  <1>2. /\ DomTyped /\ Active /\ nest # <<>> /\ values' = values /\ cut' = cut
        /\ nest \in Seq(Frame) /\ Len(nest) <= MaxNesting /\ Values(Whole)
        /\ parsed \in BOOLEAN /\ cut' \in BOOLEAN
    BY <1>1 DEF DomInv, DomTyped, EndArray, EndObject, ReadEnd, AtRoot
  <1>3. /\ nest' \in Seq(Frame) /\ Len(nest') = Len(nest) - 1
        /\ nest[Len(nest)].kind = kind /\ Len(nest) \in Nat \ {0}
        /\ nest' = <<>> <=> Len(nest) = 1
    BY <1>1, <1>2, ReadEndFacts
  <1>4. CASE cut
    <2>1. PICK b \in 1..Len(nest) :
              /\ b \in Nat \ {0} /\ ObjectsTo(b)
              /\ \/ /\ Len(nest) = b /\ parsed /\ m_stack = <<>>
                    /\ nest[Len(nest)].kind = "object"
                    /\ nest[Len(nest)].key = NoKey /\ m_value.kind # "object"
                 \/ /\ b < Len(nest) /\ ~parsed /\ nest[b + 1].kind = "array"
                    /\ \E at : Laid(Whole, nest, b, at)
      BY <1>2, <1>4, Astray
    <2>2. repeated
      BY <1>2, <1>4, Astray
    <2>3. CASE m_stack = <<>> /\ m_value.kind # "object"
               /\ nest[Len(nest)].kind = "object"
      <3>1. Done(OnEndObject(Whole), parsed)
        BY <1>1, <1>3, <2>3
      <3>2. Len(nest') <= MaxNesting
        BY <1>2, <1>3, ReaderBoundsAssumption
      <3> QED
        BY <1>2, <1>3, <1>4, <2>3, <3>1, <3>2, Refused
    <2>4. CASE b < Len(nest) /\ ~parsed /\ nest[b + 1].kind = "array"
               /\ \E at : Laid(Whole, nest, b, at)
      <3>1. PICK at : Laid(Whole, nest, b, at)
        BY <2>4
      <3>2. /\ b \in Nat /\ b < Len(nest) /\ Len(nest) > 1
            /\ b \in 1..(Len(nest) - 1)
            /\ \A i \in 1..b : i \in 1..(Len(nest) - 1) /\ i \in 1..b
        BY <1>3, <2>1, <2>4
      <3>3. /\ DomTyped' /\ repeated' = repeated
            /\ Len(nest) = b + 1 =>
                  /\ m_stack' = <<>> /\ parsed' = TRUE
                  /\ m_value' = Whole[at[Len(nest)]] /\ m_value'.kind = kind
                  /\ phase' = IF nest' = <<>> THEN "complete" ELSE "reading"
                  /\ nest' = <<>> <=> b = 0
            /\ Len(nest) # b + 1 =>
                  /\ Laid(Whole', nest', b, at) /\ SlotOpen(Whole', nest')
                  /\ nest' # <<>> /\ phase' = "reading" /\ parsed' = parsed
            /\ Completes(Front(nest), nest')
        BY <1>1, <1>2, <3>1, <3>2, EndAbove
      <3>4. /\ \A i \in 1..(Len(nest) - 1) : nest'[i].kind = nest[i].kind
            /\ nest'[Len(nest) - 1].key = NoKey
        BY <1>2, <1>3, <3>2, <3>3, LeftAfterEnd
      <3>5. \A i \in 1..b : nest'[i].kind = "object"
        BY <2>1, <3>2, <3>4 DEF ObjectsTo
      <3>6. CASE Len(nest) = b + 1
        <4>1. Len(nest') = b /\ b = Len(nest) - 1 /\ b # 0 /\ b \in 1..Len(nest')
          BY <1>3, <3>2, <3>6
        <4>2. m_value'.kind # "object"
          <5>1. nest[Len(nest)].kind = "array"
            BY <2>4, <3>6
          <5> QED
            BY <1>3, <3>3, <3>6, <5>1
        <4>3. /\ m_stack' = <<>> /\ parsed' /\ phase' = "reading" /\ nest' # <<>>
              /\ nest'[b].key = NoKey
          BY <3>3, <3>4, <3>6, <4>1
        <4>4. DomAstray(b)'
          BY <3>5, <4>1, <4>2, <4>3 DEF DomAstray, ObjectsTo
        <4> QED
          BY <1>2, <1>4, <2>2, <3>3, <4>1, <4>3, <4>4 DEF DomInv
      <3>7. CASE Len(nest) # b + 1
        <4>1. /\ b + 1 \in 1..(Len(nest) - 1) /\ Len(nest') # b
              /\ b \in 1..Len(nest')
          BY <1>3, <3>2, <3>7
        <4>2. nest'[b + 1].kind = "array"
          BY <2>4, <3>4, <4>1
        <4>3. /\ Laid(Whole', nest', b, at)
              /\ nest' # <<>> /\ phase' = "reading" /\ parsed' = parsed
          BY <3>3, <3>7
        <4>4. ~parsed'
          BY <2>4, <4>3
        <4>5. DomAstray(b)'
          BY <1>3, <3>2, <3>5, <4>1, <4>2, <4>3, <4>4, AstrayAgain
        <4> QED
          BY <1>2, <1>4, <2>2, <3>3, <4>1, <4>3, <4>5 DEF DomInv
      <3> QED
        BY <3>6, <3>7
    <2> QED
      BY <2>1, <2>3, <2>4
  <1>5. CASE ~cut
    <2>1. PICK at : Laid(Whole, nest, 0, at)
      BY <1>2, <1>5, Regular
    <2>2. parsed => repeated /\ ObjectsTo(Len(nest))
      BY <1>2, <1>5, Regular
    <2>3. 0 \in Nat /\ 0 < Len(nest) /\ 0 + 1 = 1
      BY <1>3
    <2>4. /\ DomTyped' /\ repeated' = repeated
          /\ Len(nest) = 0 + 1 =>
                /\ m_stack' = <<>> /\ parsed' = TRUE
                /\ m_value' = Whole[at[Len(nest)]] /\ m_value'.kind = kind
                /\ phase' = IF nest' = <<>> THEN "complete" ELSE "reading"
                /\ nest' = <<>> <=> 0 = 0
          /\ Len(nest) # 0 + 1 =>
                /\ Laid(Whole', nest', 0, at) /\ SlotOpen(Whole', nest')
                /\ nest' # <<>> /\ phase' = "reading" /\ parsed' = parsed
          /\ Len(nest) > 1 => Completes(Front(nest), nest')
      BY <1>1, <1>2, <2>1, <2>3, EndAbove
    <2>5. CASE Len(nest) = 1
      BY <1>2, <1>3, <1>5, <2>3, <2>4, <2>5 DEF DomInv
    <2>6. CASE Len(nest) # 1
      <3>1. Len(nest) > 1 /\ \A i \in 1..Len(nest') : i \in 1..(Len(nest) - 1)
                                                      /\ i \in 1..Len(nest)
        BY <1>3, <2>6
      <3>2. \A i \in 1..(Len(nest) - 1) : nest'[i].kind = nest[i].kind
        BY <1>2, <1>3, <2>4, <3>1, LeftAfterEnd
      <3>3. /\ Laid(Whole', nest', 0, at) /\ SlotOpen(Whole', nest')
            /\ nest' # <<>> /\ phase' = "reading" /\ parsed' = parsed
        BY <2>3, <2>4, <2>6
      <3>4. parsed' => repeated' /\ \A i \in 1..Len(nest') : nest'[i].kind = "object"
        BY <2>2, <2>4, <3>1, <3>2, <3>3 DEF ObjectsTo
      <3>5. DomReads'
        BY <1>3, <3>3, <3>4, ReadsAgain
      <3> QED
        BY <1>2, <1>5, <2>4, <3>3, <3>5 DEF DomInv
    <2> QED
      BY <2>5, <2>6
  <1> QED
    BY <1>4, <1>5

LEMMA PreparedAnew ==
    DomInv /\ (RenewAndPrepare \/ PrepareForReuse \/ Again) => DomInv'
  <1> SUFFICES ASSUME DomInv, RenewAndPrepare \/ PrepareForReuse \/ Again
               PROVE  DomInv'
    OBVIOUS
  <1>1. /\ nest' = <<>> /\ phase' = "ready" /\ m_stack' = <<>>
        /\ m_alloc' = document' /\ document' \in Nat
        /\ parsed' \in BOOLEAN /\ repeated' = parsed' /\ ~cut' /\ cut' \in BOOLEAN
        /\ the_error' = FALSE /\ values' = 0 /\ uses' = uses + 1 /\ uses < MaxReuses
        /\ m_value' \in {m_value, NullValue}
    <2>1. CASE RenewAndPrepare
      <3>1. document \in Nat
        BY DEF DomInv, DomTyped
      <3>2. document + 1 \in Nat
        BY <3>1
      <3>3. /\ nest' = <<>> /\ phase' = "ready" /\ m_stack' = <<>>
            /\ m_alloc' = document + 1 /\ document' = document + 1
            /\ parsed' = FALSE /\ repeated' = FALSE /\ cut' = FALSE
            /\ the_error' = FALSE /\ values' = 0 /\ uses' = uses + 1
            /\ uses < MaxReuses /\ m_value' = NullValue
        BY <2>1 DEF RenewAndPrepare, Prepare, NextText, Allocator, StackCleared
      <3> QED
        BY <3>2, <3>3, Zenon
    <2>2. CASE PrepareForReuse
      BY <2>2 DEF PrepareForReuse, Prepare, NextText, Allocator, StackCleared,
                  DomInv, DomTyped
    <2>3. CASE Again
      BY <2>3 DEF Again, NextText, DomInv, DomTyped
    <2> QED
      BY <2>1, <2>2, <2>3
  <1>2. /\ uses \in 0..MaxReuses /\ IsSeq(m_stack) /\ Values(Whole)
    BY DEF DomInv, DomTyped
  <1>3. IsValue(m_value')
    <2>1. Whole[1] = m_value /\ Whole # <<>> /\ IsSeq(Whole)
      BY <1>2, WholeFacts
    <2>2. 1 \in 1..Len(Whole)
      BY <2>1, FrontList
    <2>3. IsValue(m_value)
      BY <1>2, <2>1, <2>2 DEF Values
    <2> QED
      BY <1>1, <2>3, ValueFacts
  <1>4. Values(Whole') /\ IsSeq(m_stack')
    <2>1. IsSeq(<<>>)
      BY SingletonList
    <2>2. /\ IsSeq(<<m_value'>> \o m_stack') /\ <<m_value'>> \o m_stack' # <<>>
          /\ Len(<<m_value'>> \o m_stack') = 1
          /\ (<<m_value'>> \o m_stack')[1] = m_value'
      BY <1>1, <2>1, ListOf
    <2>3. \A i \in 1..1 : i = 1
      OBVIOUS
    <2>4. Values(<<m_value'>> \o m_stack')
      BY <1>3, <2>2, <2>3 DEF Values
    <2> QED
      BY <1>1, <2>1, <2>4 DEF Whole
  <1>5. /\ nest' \in Seq(Frame) /\ Len(nest') <= MaxNesting /\ phase' \in Phases
        /\ values' \in 0..MaxValues /\ uses' \in 0..MaxReuses
    BY <1>1, <1>2, ReaderBoundsAssumption, DomBoundsAssumption DEF Phases
  <1>6. DomTyped'
    BY <1>1, <1>4, <1>5 DEF DomTyped
  <1> QED
    BY <1>1, <1>6 DEF DomInv

(* While a text is read, every container that is open lies where it must,   *)
(* its key and its open slot above it, or the handler is astray; between    *)
(* texts the stack is empty.                                                *)
THEOREM DomInvariance == Spec => []DomInv
  <1>1. Init => DomInv
    <2> SUFFICES ASSUME Init
                 PROVE  DomInv
      OBVIOUS
    <2>1. /\ nest = <<>> /\ phase = "ready" /\ m_stack = <<>>
          /\ m_value \in {NullValue, Empty("object")} /\ m_alloc = 0 /\ document = 0
          /\ parsed = FALSE /\ the_error = FALSE
          /\ repeated = FALSE /\ cut = FALSE
          /\ values = 0 /\ uses = 0
      BY DEF Init, ReaderInit
    <2>2. IsValue(m_value)
      BY <2>1, ValueFacts DEF Kinds
    <2>3. IsSeq(m_stack)
      BY <2>1, SingletonList
    <2>4. IsSeq(Whole) /\ Whole # <<>> /\ Len(Whole) = 1 /\ Whole[1] = m_value
      BY <2>1, <2>3, WholeFacts
    <2>5. Values(Whole)
      <3>1. \A i \in 1..Len(Whole) : i = 1
        BY <2>4
      <3> QED
        BY <2>2, <2>4, <3>1 DEF Values
    <2>6. /\ nest \in Seq(Frame) /\ Len(nest) <= MaxNesting
          /\ values \in 0..MaxValues /\ uses \in 0..MaxReuses
      BY <2>1, ReaderBoundsAssumption, DomBoundsAssumption
    <2>7. DomTyped
      BY <2>1, <2>3, <2>5, <2>6 DEF DomTyped, Phases
    <2> QED
      BY <2>1, <2>7 DEF DomInv
  <1>2. DomInv /\ [Next]_vars => DomInv'
    <2> SUFFICES ASSUME DomInv, [Next]_vars
                 PROVE  DomInv'
      OBVIOUS
    <2>1. CASE UNCHANGED vars
      BY <2>1 DEF vars, readerVars, domVars, DomInv, DomTyped, DomReads, DomAstray,
                  ObjectsTo, LaidOut, Whole
    <2> QED
      BY <2>1, ScalarKeeps, KeyKeeps, StartArrayKeeps, StartObjectKeeps, EndKeeps,
         PreparedAnew DEF Next
  <1> QED
    BY <1>1, <1>2, PTL DEF Spec

(* How many values lie on the stack.                                        *)
LEMMA StackBound == DomInv => Len(m_stack) <= 2 * MaxNesting
  <1> SUFFICES ASSUME DomInv
               PROVE  Len(m_stack) <= 2 * MaxNesting
    OBVIOUS
  <1>1. /\ IsSeq(m_stack) /\ Values(Whole) /\ nest \in Seq(Frame)
        /\ Len(nest) <= MaxNesting /\ MaxNesting \in Nat /\ phase \in Phases
    BY ReaderBoundsAssumption DEF DomInv, DomTyped
  <1>2. Len(Whole) = Len(m_stack) + 1 /\ Len(m_stack) \in Nat /\ Len(nest) \in Nat
    BY <1>1, WholeFacts, SeqElim
  <1>3. ASSUME m_stack = <<>>
        PROVE  Len(m_stack) <= 2 * MaxNesting
    BY <1>1, <1>3
  <1>4. ASSUME NEW b \in Nat, NEW at, Laid(Whole, nest, b, at), b < Len(nest)
        PROVE  Len(m_stack) <= 2 * MaxNesting
    <2> PICK n : n = Len(nest)
      OBVIOUS
    <2>1. Innermost(Whole, nest, b, at, n)
      BY <1>1, <1>4, LaidFacts
    <2>2. /\ at[n] \in 1..Len(Whole) /\ at[n] + Width(nest[n]) = Len(Whole)
          /\ at[n] <= 2 * (n - b) - 1
      BY <2>1 DEF Innermost
    <2>3. Width(nest[n]) \in {0, 1, 2}
      BY WidthFacts
    <2>4. n \in Nat /\ n <= MaxNesting
      BY <1>1, <1>2
    <2> QED
      BY <1>1, <1>2, <2>2, <2>3, <2>4, <1>4
  <1>5. CASE phase = "reading"
    <2>1. nest # <<>> /\ Len(nest) \in Nat \ {0}
      BY <1>1, <1>5, FrontFacts DEF DomInv
    <2>2. CASE ~cut
      <3>1. PICK at : Laid(Whole, nest, 0, at)
        BY <1>5, <2>2 DEF DomInv, DomReads, LaidOut
      <3> QED
        BY <1>4, <2>1, <3>1
    <2>3. CASE cut
      <3>1. PICK b \in 1..Len(nest) : DomAstray(b)
        BY <1>5, <2>3 DEF DomInv
      <3>2. CASE Len(nest) = b
        BY <1>3, <3>1, <3>2 DEF DomAstray
      <3>3. CASE Len(nest) # b
        <4>1. \E at : Laid(Whole, nest, b, at)
          BY <3>1, <3>3 DEF DomAstray, LaidOut
        <4>2. b \in Nat /\ b < Len(nest)
          BY <2>1, <3>3
        <4> QED
          BY <1>4, <4>1, <4>2
      <3> QED
        BY <3>2, <3>3
    <2> QED
      BY <2>2, <2>3
  <1>6. CASE phase # "reading"
    BY <1>1, <1>3, <1>6 DEF DomInv, Phases
  <1> QED
    BY <1>5, <1>6

(* Nothing of an earlier text gets into a text that is accepted; only a     *)
(* text in whose middle the handler was prepared is ever refused; and the   *)
(* stack holds at most two values for each container that is open.          *)
THEOREM NothingIsStale == Spec => []NothingStale
  <1>1. DomInv => NothingStale
    <2> SUFFICES ASSUME DomInv
                 PROVE  NothingStale
      OBVIOUS
    <2>1. /\ IsSeq(m_stack) /\ Values(Whole) /\ nest \in Seq(Frame)
          /\ phase \in Phases /\ (the_error <=> phase = "failed")
      BY DEF DomInv, DomTyped
    <2>2. \A i \in DOMAIN m_stack : m_stack[i].kind \in ValueKinds
      <3>1. /\ Len(Whole) = Len(m_stack) + 1
            /\ \A i \in 1..Len(m_stack) : Whole[i + 1] = m_stack[i]
            /\ DOMAIN m_stack = 1..Len(m_stack) /\ Len(m_stack) \in Nat
        BY <2>1, WholeFacts, SeqElim
      <3>2. \A i \in 1..Len(m_stack) : i + 1 \in 1..Len(Whole)
        BY <3>1
      <3>3. \A i \in 1..Len(m_stack) : IsValue(m_stack[i])
        BY <2>1, <3>1, <3>2 DEF Values
      <3> QED
        BY <3>1, <3>3 DEF IsValue
    <2>3. m_value.kind \in ValueKinds
      <3>1. Whole[1] = m_value /\ 1 \in 1..Len(Whole)
        BY <2>1, WholeFacts, SeqElim
      <3> QED
        BY <2>1, <3>1 DEF Values, IsValue
    <2>4. TypeOK
      BY <2>1, <2>2, <2>3, StackBound DEF TypeOK, ReaderTypeOK, DomInv, DomTyped
    <2>5. nest = <<>> /\ phase # "failed" => m_stack = <<>>
      BY <2>1 DEF DomInv, Phases
    <2> QED
      BY <2>1, <2>4, <2>5 DEF NothingStale, AtRoot, DomInv, DomTyped
  <1> QED
    BY <1>1, DomInvariance, PTL

-------------------------------------------------------------------------------
(* The containers that are open, as they are found in a list.               *)
LEMMA Largest ==
    ASSUME NEW n \in Nat, NEW J, J \subseteq 1..n, 1 \in J,
           \A i \in J : \A k \in 1..i : k \in J
    PROVE  \E j \in J : \A k \in J : k <= j
  <1> DEFINE c == Cardinality(J)
  <1>1. /\ IsFiniteSet(J) /\ c \in Nat
    <2>1. IsFiniteSet(1..n)
      BY FS_Interval
    <2> QED
      BY <2>1, FS_Subset, FS_CardinalityType
  <1>2. ASSUME NEW k \in J
        PROVE  k <= c
    <2>1. k \in Int /\ 1 <= k /\ 1 \in Int
      OBVIOUS
    <2>2. Cardinality(1..k) = k
      <3>1. Cardinality(1..k) = IF 1 > k THEN 0 ELSE k - 1 + 1
        BY <2>1, FS_Interval
      <3> QED
        BY <2>1, <3>1
    <2>3. 1..k \in SUBSET J
      OBVIOUS
    <2> QED
      BY <1>1, <2>2, <2>3, FS_Subset
  <1>3. c \in J
    <2> SUFFICES ASSUME c \notin J
                 PROVE  FALSE
      OBVIOUS
    <2>1. c >= 1
      BY <1>2
    <2>2. Cardinality(1..(c - 1)) = c - 1 /\ IsFiniteSet(1..(c - 1))
      <3>1. /\ IsFiniteSet(1..(c - 1))
            /\ Cardinality(1..(c - 1)) = IF 1 > c - 1 THEN 0 ELSE (c - 1) - 1 + 1
        BY <1>1, FS_Interval
      <3> QED
        BY <1>1, <2>1, <3>1
    <2>3. J \in SUBSET (1..(c - 1))
      <3>1. \A k \in J : k \in 1..n /\ k <= c /\ k # c
        BY <1>2
      <3> QED
        BY <1>1, <3>1
    <2> DEFINE I == 1..(c - 1)
    <2>4. IsFiniteSet(I) /\ J \in SUBSET I /\ Cardinality(I) = c - 1
      BY <2>2, <2>3
    <2> HIDE DEF I
    <2>5. Cardinality(J) <= Cardinality(I)
      BY <2>4, FS_Subset
    <2> QED
      BY <1>1, <2>4, <2>5
  <1> QED
    BY <1>2, <1>3

(* The containers in order: s is what the text has open, at where.          *)
Increasing(w, at, n) ==
    /\ n \in Nat /\ \A j \in 1..n : at[j] \in 1..Len(w)
    /\ \A j \in 1..n : \A i \in 1..(j - 1) : at[i] < at[j]
    /\ Containers(w) = {at[j] : j \in 1..n}

Lowest(at, j) == {at[i] : i \in 1..j}

LEMMA Counted ==
    ASSUME NEW w, Len(w) \in Nat, NEW at, NEW n, Increasing(w, at, n),
           NEW j \in 0..n
    PROVE  Cardinality(Lowest(at, j)) = j
  <1> DEFINE low == Lowest(at, j)
             f == [i \in 1..j |-> at[i]]
  <1>1. \A i \in 1..j, k \in 1..j : at[i] = at[k] => i = k
    <2>1. /\ \A i \in 1..j : i \in 1..n /\ at[i] \in Nat
          /\ \A i \in 1..j, k \in 1..j : i < k => i \in 1..(k - 1)
          /\ \A i \in 1..j, k \in 1..j : i < k \/ k < i \/ i = k
      BY DEF Increasing
    <2>2. \A i \in 1..j, k \in 1..j : i < k => at[i] < at[k]
      BY <2>1 DEF Increasing
    <2>3. \A x \in Nat, y \in Nat : x < y => x # y
      OBVIOUS
    <2> QED
      BY <2>1, <2>2, <2>3
  <1>2. f \in Bijection(1..j, low)
    <2>1. f \in [1..j -> low]
      BY DEF Lowest
    <2>2. \A y \in low : \E i \in 1..j : f[i] = y
      BY DEF Lowest
    <2>3. \A i \in 1..j, k \in 1..j : f[i] = f[k] => i = k
      BY <1>1
    <2> HIDE DEF f, low
    <2> QED
      BY <2>1, <2>2, <2>3 DEF Bijection, Injection, Surjection, IsInjective
  <1>3. IsFiniteSet(1..j) /\ Cardinality(1..j) = j
    <2>1. /\ IsFiniteSet(1..j)
          /\ Cardinality(1..j) = IF 1 > j THEN 0 ELSE j - 1 + 1
      BY FS_Interval DEF Increasing
    <2>2. j \in Nat
      BY DEF Increasing
    <2> QED
      BY <2>1, <2>2
  <1> HIDE DEF f, low
  <1>4. ExistsBijection(1..j, low)
    BY <1>2 DEF ExistsBijection
  <1>5. IsFiniteSet(low) /\ Cardinality(low) = j
    BY <1>3, <1>4, FS_Bijection
  <1> QED
    BY <1>5 DEF low

LEMMA NthIs ==
    ASSUME NEW w, Len(w) \in Nat, NEW at, NEW n, Increasing(w, at, n)
    PROVE  /\ Cardinality(Containers(w)) = n
           /\ \A j \in 1..n : Nth(w, j) = at[j]
  <1>1. n \in Nat /\ n \in 0..n
    BY DEF Increasing
  <1>2. Cardinality(Containers(w)) = n
    <2>1. Cardinality(Lowest(at, n)) = n
      BY <1>1, Counted
    <2> QED
      BY <2>1 DEF Increasing, Lowest
  <1>3. ASSUME NEW j \in 1..n
        PROVE  Cardinality(Containers(w) \cap 1..at[j]) = j
    <2>1. j \in 0..n
      BY <1>1
    <2>2. Cardinality(Lowest(at, j)) = j
      BY <2>1, Counted
    <2>3. Containers(w) \cap 1..at[j] = {at[i] : i \in 1..j}
      <3>1. ASSUME NEW i \in 1..j
            PROVE  at[i] \in Containers(w) \cap 1..at[j]
        <4>1. i \in 1..n /\ at[i] \in 1..Len(w) /\ at[j] \in 1..Len(w)
          BY <1>1 DEF Increasing
        <4>2. i = j \/ i \in 1..(j - 1)
          BY <1>1
        <4>3. at[i] <= at[j]
          BY <4>1, <4>2 DEF Increasing
        <4>4. at[i] \in Containers(w)
          BY <4>1 DEF Increasing
        <4> QED
          BY <4>1, <4>3, <4>4
      <3>2. ASSUME NEW p \in Containers(w) \cap 1..at[j]
            PROVE  p \in {at[i] : i \in 1..j}
        <4>1. PICK i \in 1..n : at[i] = p
          BY DEF Increasing
        <4>2. at[i] \in 1..Len(w) /\ at[j] \in 1..Len(w) /\ at[i] <= at[j]
          BY <4>1 DEF Increasing
        <4>3. ~(j < i)
          <5> SUFFICES ASSUME j < i
                       PROVE  FALSE
            OBVIOUS
          <5>1. j \in 1..(i - 1)
            OBVIOUS
          <5>2. at[j] < at[i]
            BY <5>1 DEF Increasing
          <5> QED
            BY <4>2, <5>2
        <4> QED
          BY <1>1, <4>1, <4>3
      <3> QED
        BY <3>1, <3>2
    <2> QED
      BY <2>2, <2>3 DEF Lowest
  <1>4. ASSUME NEW j \in 1..n
        PROVE  Nth(w, j) = at[j]
    <2>1. at[j] \in Containers(w)
      BY DEF Increasing
    <2>2. \A p \in Containers(w) :
              Cardinality(Containers(w) \cap 1..p) = j => p = at[j]
      <3> SUFFICES ASSUME NEW p \in Containers(w),
                          Cardinality(Containers(w) \cap 1..p) = j
                   PROVE  p = at[j]
        OBVIOUS
      <3>1. PICK i \in 1..n : at[i] = p
        BY DEF Increasing
      <3>2. i = j
        BY <1>3, <3>1
      <3> QED
        BY <3>1, <3>2
    <2> QED
      BY <1>3, <2>1, <2>2 DEF Nth
  <1> QED
    BY <1>2, <1>4

(* Every container in the list is one that is open.                         *)
LEMMA Placed ==
    ASSUME NEW w, Values(w), NEW s \in Seq(Frame), NEW at, Laid(w, s, 0, at),
           NEW n, n = Len(s), n # 0, SlotOpen(w, s)
    PROVE  Increasing(w, at, n)
  <1>1. /\ n \in Nat /\ 1 \in 1..n /\ n \in 1..n /\ Len(w) \in Nat \ {0}
        /\ DOMAIN w = 1..Len(w)
    BY FrontList, SeqElim DEF Values
  <1>2. ASSUME NEW i \in 1..n
        PROVE  /\ at[i] \in 1..Len(w)
               /\ i = 1 => at[i] = 1
               /\ w[at[i]].kind = s[i].kind
               /\ at[i] + Width(s[i]) = IF i = n THEN Len(w) ELSE at[i + 1]
               /\ Width(s[i]) = 2 => w[at[i] + 1].kind = "string"
               /\ \A j \in 1..(i - 1) : at[j] < at[i]
               /\ s[i].kind \in Kinds
    <2>1. s[i].kind \in Kinds
      <3>1. s[i] \in Frame
        BY ElementOfSeq
      <3> QED
        BY <3>1 DEF Frame
    <2>2. i \in (0 + 1)..Len(s) /\ 0 + 1 = 1
      BY <1>1
    <2> QED
      BY <2>1, <2>2 DEF Laid
  <1>3. \A i \in 1..n : at[i] \in Containers(w)
    BY <1>1, <1>2 DEF Containers
  <1>4. ASSUME NEW p \in Containers(w)
        PROVE  \E j \in 1..n : at[j] = p
    <2>1. p \in 1..Len(w) /\ w[p].kind \in Kinds
      BY <1>1 DEF Containers
    <2> DEFINE J == {j \in 1..n : at[j] <= p}
    <2>2. \E j \in J : \A k \in J : k <= j
      <3>1. J \subseteq 1..n
        OBVIOUS
      <3>2. 1 \in J
        BY <1>1, <1>2, <2>1
      <3>3. ASSUME NEW i \in J, NEW k \in 1..i
            PROVE  k \in J
        <4>1. i \in 1..n /\ k \in 1..n /\ (k = i \/ k \in 1..(i - 1))
          BY <1>1
        <4>2. at[i] \in 1..Len(w) /\ at[k] \in 1..Len(w) /\ at[k] <= at[i]
          BY <1>2, <4>1
        <4>3. at[i] <= p
          OBVIOUS
        <4> QED
          BY <2>1, <4>1, <4>2, <4>3
      <3> HIDE DEF J
      <3> QED
        BY <1>1, <3>1, <3>2, <3>3, Largest
    <2>3. PICK j \in J : \A k \in J : k <= j
      BY <2>2
    <2>4. j \in 1..n /\ at[j] <= p /\ at[j] \in 1..Len(w)
      BY <1>2
    <2>5. at[j] + Width(s[j]) = IF j = n THEN Len(w) ELSE at[j + 1]
      BY <1>2, <2>4
    <2>6. j # n => p < at[j + 1] /\ at[j + 1] \in Nat
      <3> SUFFICES ASSUME j # n
                   PROVE  p < at[j + 1] /\ at[j + 1] \in Nat
        OBVIOUS
      <3>1. j + 1 \in 1..n /\ ~(j + 1 <= j)
        BY <1>1, <2>4
      <3>2. at[j + 1] \in 1..Len(w)
        BY <1>2, <3>1
      <3>3. j + 1 \notin J
        BY <2>3, <3>1
      <3> HIDE <2>3
      <3> QED
        BY <2>1, <3>1, <3>2, <3>3
    <2>7. Width(s[j]) \in {0, 1, 2}
      BY WidthFacts
    <2>8. p # at[j] => p # at[j] + 1 \/ Width(s[j]) # 2
      <3>1. p = at[j] + 1 /\ Width(s[j]) = 2 => w[p].kind = "string"
        BY <1>2, <2>4
      <3> QED
        BY <2>1, <3>1 DEF Kinds
    <2>9. p # at[j] => j = n /\ p = Len(w) /\ Width(s[j]) # 0
      <3> SUFFICES ASSUME p # at[j]
                   PROVE  j = n /\ p = Len(w) /\ Width(s[j]) # 0
        OBVIOUS
      <3>1. /\ p \in Int /\ at[j] \in Int /\ Len(w) \in Int
            /\ at[j] < p /\ p <= Len(w)
        BY <1>1, <2>1, <2>4
      <3>2. p = at[j] + 1 => Width(s[j]) # 2
        BY <2>8
      <3>3. CASE j # n
        <4>1. at[j] + Width(s[j]) > p
          BY <2>5, <2>6, <3>3
        <4> QED
          BY <2>7, <3>1, <3>2, <4>1
      <3>4. CASE j = n
        <4>1. at[j] + Width(s[j]) = Len(w)
          BY <2>5, <3>4
        <4>2. Width(s[j]) # 0
          BY <3>1, <4>1
        <4>3. p = Len(w)
          BY <2>7, <3>1, <3>2, <4>1
        <4> QED
          BY <3>4, <4>2, <4>3
      <3> QED
        BY <3>3, <3>4
    <2>10. p = Len(w) /\ j = n /\ Width(s[j]) # 0 => w[p].kind = "null"
      BY DEF SlotOpen
    <2> QED
      BY <2>1, <2>4, <2>9, <2>10 DEF Kinds
  <1>5. Containers(w) = {at[j] : j \in 1..n}
    BY <1>3, <1>4
  <1> QED
    BY <1>1, <1>2, <1>5 DEF Increasing

(* What the containers that are open are to the one who builds the tree.    *)
Found(w, s, at) ==
    [j \in 1..Len(s) |-> [value |-> w[at[j]], key |-> s[j].key]]

LEMMA OpenFound ==
    ASSUME NEW w, Values(w), NEW s \in Seq(Frame), NEW at, Laid(w, s, 0, at),
           s # <<>>, SlotOpen(w, s)
    PROVE  OpenIn(w) = Found(w, s, at)
  <1> PICK n : n = Len(s)
    OBVIOUS
  <1>1. /\ n \in Nat /\ n # 0 /\ Len(w) \in Nat \ {0}
    BY FrontList DEF Values
  <1>2. Increasing(w, at, n)
    BY <1>1, Placed
  <1>3. Cardinality(Containers(w)) = n /\ \A j \in 1..n : Nth(w, j) = at[j]
    BY <1>1, <1>2, NthIs
  <1>4. ASSUME NEW j \in 1..n
        PROVE  NameAbove(w, at[j]) = s[j].key
    <2>1. j \in (0 + 1)..Len(s)
      BY <1>1
    <2>2. /\ at[j] \in 1..Len(w)
          /\ at[j] + Width(s[j]) = IF j = n THEN Len(w) ELSE at[j + 1]
          /\ j # n => Width(s[j]) # 0
          /\ Width(s[j]) = 2 =>
                w[at[j] + 1].kind = "string" /\ w[at[j] + 1].id = s[j].key
          /\ s[j].kind = "array" => s[j].key = NoKey
      BY <2>1 DEF Laid
    <2>3. Width(s[j]) \in {0, 1, 2}
      BY WidthFacts
    <2>4. CASE Width(s[j]) = 2
      <3>1. at[j] < Len(w)
        <4>1. j # n => at[j + 1] \in 1..Len(w)
          <5>1. j # n => j + 1 \in 1..n
            BY <1>1
          <5> QED
            BY <1>2, <5>1 DEF Increasing
        <4> QED
          BY <1>1, <2>2, <2>4, <4>1
      <3> QED
        BY <2>2, <2>4, <3>1 DEF NameAbove
    <2>5. CASE Width(s[j]) = 1
      <3>1. s[j].key = NoKey
        BY <2>2, <2>5, WidthFacts
      <3>2. CASE j = n
        <4>1. at[j] + 1 = Len(w) /\ w[Len(w)].kind = "null"
          BY <2>2, <2>5, <3>2 DEF SlotOpen
        <4> QED
          BY <3>1, <4>1 DEF NameAbove
      <3>3. CASE j # n
        <4>1. j + 1 \in 1..n
          BY <1>1, <3>3
        <4>2. w[at[j + 1]].kind \in Kinds
          <5>1. at[j + 1] \in Containers(w)
            BY <1>2, <4>1 DEF Increasing
          <5> QED
            BY <5>1 DEF Containers
        <4>3. w[at[j] + 1].kind # "string"
          BY <2>2, <2>5, <3>3, <4>2 DEF Kinds
        <4> QED
          BY <3>1, <4>3 DEF NameAbove
      <3> QED
        BY <3>2, <3>3
    <2>6. CASE Width(s[j]) = 0
      <3>1. s[j].key = NoKey
        BY <2>6, WidthFacts
      <3>2. at[j] = Len(w)
        BY <1>1, <2>2, <2>6
      <3> QED
        BY <1>1, <3>1, <3>2 DEF NameAbove
    <2> QED
      BY <2>3, <2>4, <2>5, <2>6
  <1> QED
    BY <1>3, <1>4 DEF OpenIn, Found

LEMMA FoundList ==
    ASSUME NEW w, NEW s \in Seq(Frame), NEW at
    PROVE  /\ IsSeq(Found(w, s, at)) /\ Len(Found(w, s, at)) = Len(s)
           /\ \A j \in 1..Len(s) : /\ Found(w, s, at)[j].value = w[at[j]]
                                   /\ Found(w, s, at)[j].key = s[j].key
           /\ Found(w, s, at) = <<>> <=> s = <<>>
  <1> DEFINE f == Found(w, s, at)
             S == {f[j] : j \in 1..Len(s)}
  <1>1. Len(s) \in Nat
    OBVIOUS
  <1>2. f \in [1..Len(s) -> S]
    BY DEF Found
  <1>3. \A j \in 1..Len(s) : f[j].value = w[at[j]] /\ f[j].key = s[j].key
    BY DEF Found
  <1> HIDE DEF f, S
  <1>4. f \in Seq(S) /\ Len(f) = Len(s)
    BY <1>1, <1>2
  <1>5. IsSeq(f)
    BY <1>4, SeqIntro
  <1>6. f = <<>> <=> s = <<>>
    BY <1>4
  <1> QED
    BY <1>3, <1>4, <1>5, <1>6 DEF f

(* A list that has got another last element.                                *)
LEMMA Replaced ==
    ASSUME NEW f, IsSeq(f), f # <<>>, NEW g, IsSeq(g), Len(g) = Len(f),
           \A j \in 1..(Len(f) - 1) : g[j] = f[j]
    PROVE  g = Append(Front(f), g[Len(f)])
  <1> DEFINE h == Append(Front(f), g[Len(f)])
  <1>1. /\ IsSeq(Front(f)) /\ Len(Front(f)) = Len(f) - 1 /\ Len(f) \in Nat \ {0}
        /\ \A i \in 1..(Len(f) - 1) : Front(f)[i] = f[i]
    BY FrontList
  <1>2. /\ IsSeq(h) /\ Len(h) = Len(Front(f)) + 1
        /\ \A i \in 1..Len(Front(f)) : h[i] = Front(f)[i]
        /\ h[Len(Front(f)) + 1] = g[Len(f)]
    BY <1>1, AppendList
  <1> HIDE DEF h
  <1>3. Len(h) = Len(f) /\ h[Len(f)] = g[Len(f)]
        /\ \A i \in 1..(Len(f) - 1) : h[i] = f[i]
    BY <1>1, <1>2
  <1>4. \A i \in 1..Len(f) : i = Len(f) \/ i \in 1..(Len(f) - 1)
    BY <1>1
  <1>5. \A i \in 1..Len(f) : g[i] = h[i]
    BY <1>3, <1>4
  <1>6. g = h
    BY <1>2, <1>3, <1>5, ListEqual
  <1> QED
    BY <1>6 DEF h

Opened(value, key) == [value |-> value, key |-> key]

LEMMA FoundAt ==
    ASSUME NEW w, NEW s, NEW at
    PROVE  \A j \in 1..Len(s) : Found(w, s, at)[j] = Opened(w[at[j]], s[j].key)
  BY DEF Found, Opened

(* The last of the n containers lies on top of the others.                  *)
Below(at, n) == \A i \in 1..(n - 1) : at[i] \in 1..(at[n] - 1)

(* The innermost of the n containers is given the value v.                  *)
FilledLast(w, x, s, t, at, n, v) ==
    /\ s \in Seq(Frame) /\ t \in Seq(Frame) /\ n = Len(s) /\ n \in Nat \ {0}
    /\ Completes(s, t) /\ Filled(w, x, s, at, v) /\ Below(at, n)

LEMMA FoundFilled ==
    ASSUME NEW w, NEW x, NEW s, NEW t, NEW at, NEW n, NEW v,
           FilledLast(w, x, s, t, at, n, v)
    PROVE  Found(x, t, at)
             = Append(Front(Found(w, s, at)),
                      Opened(Holds(w[at[n]], Item(s[n].key, v)), NoKey))
  <1> /\ s \in Seq(Frame) /\ t \in Seq(Frame) /\ n = Len(s) /\ n \in Nat \ {0}
      /\ Completes(s, t) /\ Filled(w, x, s, at, v) /\ Below(at, n)
    BY DEF FilledLast
  <1> DEFINE f == Found(w, s, at)
             g == Found(x, t, at)
  <1>1. IsSeq(f) /\ IsSeq(g) /\ Len(f) = n /\ Len(g) = n /\ f # <<>>
    <2>1. Len(t) = n /\ s # <<>>
      BY DEF Completes
    <2> QED
      BY <2>1, FoundList
  <1>2. \A j \in 1..n : j \in 1..Len(s) /\ j \in 1..Len(t)
    BY DEF Completes
  <1>3. ASSUME NEW j \in 1..(n - 1)
        PROVE  g[j] = f[j]
    <2>1. j \in 1..n
      OBVIOUS
    <2>2. x[at[j]] = w[at[j]] /\ t[j] = s[j]
      BY DEF Filled, Completes, Below
    <2>3. g[j] = Opened(x[at[j]], t[j].key) /\ f[j] = Opened(w[at[j]], s[j].key)
      <3>1. g[j] = Opened(x[at[j]], t[j].key)
        BY <1>2, <2>1, FoundAt
      <3>2. f[j] = Opened(w[at[j]], s[j].key)
        BY <1>2, <2>1, FoundAt
      <3> QED
        BY <3>1, <3>2
    <2> QED
      BY <2>2, <2>3
  <1>4. g[n] = Opened(Holds(w[at[n]], Item(s[n].key, v)), NoKey)
    <2>1. n \in 1..n
      OBVIOUS
    <2>2. g[n] = Opened(x[at[n]], t[n].key)
      BY <1>2, <2>1, FoundAt
    <2>3. t[n].key = NoKey /\ x[at[n]] = Holds(w[at[n]], Item(s[n].key, v))
      BY DEF Completes, Filled
    <2> QED
      BY <2>2, <2>3
  <1> HIDE DEF f, g
  <1>5. g = Append(Front(f), g[Len(f)])
    BY <1>1, <1>3, Replaced
  <1> QED
    BY <1>1, <1>4, <1>5 DEF f, g

(* The first m frames stay, and the first n containers' values.             *)
Kept(w, x, s, t, at, at2, m, n) ==
    /\ \A i \in 1..m : t[i] = s[i]
    /\ \A i \in 1..n : x[at2[i]] = w[at[i]]

(* The innermost of the n containers gets a name.                           *)
Named(w, x, s, t, at, n, k) ==
    Len(t) = n /\ t[n].key = k /\ Kept(w, x, s, t, at, at, n - 1, n)

LEMMA FoundNamed ==
    ASSUME NEW w, NEW x, NEW s \in Seq(Frame), NEW t \in Seq(Frame), NEW at,
           NEW n, n = Len(s), n \in Nat \ {0}, NEW k, Named(w, x, s, t, at, n, k)
    PROVE  Found(x, t, at)
             = Append(Front(Found(w, s, at)), Opened(w[at[n]], k))
  <1> DEFINE f == Found(w, s, at)
             g == Found(x, t, at)
  <1>1. IsSeq(f) /\ IsSeq(g) /\ Len(f) = n /\ Len(g) = n /\ f # <<>>
    <2>1. s # <<>> /\ Len(s) = n /\ Len(t) = n
      BY DEF Named
    <2> QED
      BY <2>1, FoundList
  <1>2. \A j \in 1..n : j \in 1..Len(s) /\ j \in 1..Len(t)
    BY DEF Named
  <1>3. ASSUME NEW j \in 1..(n - 1)
        PROVE  g[j] = f[j]
    <2>1. j \in 1..n
      OBVIOUS
    <2>2. x[at[j]] = w[at[j]] /\ t[j] = s[j]
      BY <2>1 DEF Kept, Named
    <2>3. g[j] = Opened(x[at[j]], t[j].key) /\ f[j] = Opened(w[at[j]], s[j].key)
      <3>1. g[j] = Opened(x[at[j]], t[j].key)
        BY <1>2, <2>1, FoundAt
      <3>2. f[j] = Opened(w[at[j]], s[j].key)
        BY <1>2, <2>1, FoundAt
      <3> QED
        BY <3>1, <3>2
    <2> QED
      BY <2>2, <2>3
  <1>4. g[n] = Opened(w[at[n]], k)
    <2>1. n \in 1..n
      OBVIOUS
    <2>2. g[n] = Opened(x[at[n]], t[n].key)
      BY <1>2, <2>1, FoundAt
    <2> QED
      BY <2>1, <2>2 DEF Kept, Named
  <1> HIDE DEF f, g
  <1>5. g = Append(Front(f), g[Len(f)])
    BY <1>1, <1>3, Replaced
  <1> QED
    BY <1>1, <1>4, <1>5 DEF f, g

LEMMA FoundBegun ==
    ASSUME NEW w, NEW x, NEW s \in Seq(Frame), NEW t \in Seq(Frame), NEW at, NEW at2,
           NEW n, n = Len(s), Len(t) = n + 1,
           Kept(w, x, s, t, at, at2, n, n)
    PROVE  Found(x, t, at2)
             = Append(Found(w, s, at), Opened(x[at2[n + 1]], t[n + 1].key))
  <1> DEFINE f == Found(w, s, at)
             g == Found(x, t, at2)
             last == Opened(x[at2[n + 1]], t[n + 1].key)
             h == Append(f, last)
  <1>1. IsSeq(f) /\ IsSeq(g) /\ Len(f) = n /\ Len(g) = n + 1 /\ n \in Nat
    <2>1. n \in Nat
      OBVIOUS
    <2>2. IsSeq(f) /\ Len(f) = n
      BY FoundList
    <2>3. IsSeq(g) /\ Len(g) = n + 1
      BY FoundList
    <2> QED
      BY <2>1, <2>2, <2>3
  <1>2. \A j \in 1..n : g[j] = f[j]
    <2> SUFFICES ASSUME NEW j \in 1..n
                 PROVE  g[j] = f[j]
      OBVIOUS
    <2>1. j \in 1..Len(s) /\ j \in 1..Len(t)
      BY <1>1
    <2>2. g[j] = Opened(x[at2[j]], t[j].key) /\ f[j] = Opened(w[at[j]], s[j].key)
      <3>1. g[j] = Opened(x[at2[j]], t[j].key)
        BY <2>1, FoundAt
      <3>2. f[j] = Opened(w[at[j]], s[j].key)
        BY <2>1, FoundAt
      <3> QED
        BY <3>1, <3>2
    <2> QED
      BY <2>2 DEF Kept
  <1>3. g[n + 1] = last
    <2>1. n + 1 \in 1..Len(t)
      BY <1>1
    <2> QED
      BY <2>1, FoundAt
  <1> HIDE DEF f, g, last
  <1>4. /\ IsSeq(h) /\ Len(h) = n + 1 /\ h[n + 1] = last
        /\ \A i \in 1..n : h[i] = f[i]
    <2>1. /\ IsSeq(h) /\ Len(h) = Len(f) + 1 /\ h[Len(f) + 1] = last
          /\ \A i \in 1..Len(f) : h[i] = f[i]
      BY <1>1, AppendList
    <2> QED
      BY <1>1, <2>1
  <1> HIDE DEF h
  <1>5. \A i \in 1..(n + 1) : i = n + 1 \/ i \in 1..n
    BY <1>1
  <1>6. \A i \in 1..(n + 1) : g[i] = h[i]
    BY <1>2, <1>3, <1>4, <1>5
  <1>7. g = h
    BY <1>1, <1>4, <1>6, ListEqual
  <1> QED
    BY <1>7 DEF f, g, h, last

LEMMA FoundFront ==
    ASSUME NEW w, NEW s \in Seq(Frame), NEW at, s # <<>>
    PROVE  Found(w, Front(s), at) = Front(Found(w, s, at))
  <1> PICK n : n = Len(s)
    OBVIOUS
  <1> DEFINE f == Found(w, Front(s), at)
             g == Front(Found(w, s, at))
  <1>1. /\ n \in Nat \ {0} /\ Front(s) \in Seq(Frame) /\ Len(Front(s)) = n - 1
        /\ \A i \in 1..(n - 1) : Front(s)[i] = s[i]
    BY FrontFacts
  <1>2. IsSeq(f) /\ Len(f) = n - 1
    BY <1>1, FoundList
  <1>3. /\ IsSeq(g) /\ Len(g) = n - 1
        /\ \A i \in 1..(n - 1) : g[i] = Found(w, s, at)[i]
    <2>1. IsSeq(Found(w, s, at)) /\ Found(w, s, at) # <<>> /\ Len(Found(w, s, at)) = n
      BY FoundList
    <2> QED
      BY <2>1, FrontList
  <1>4. \A i \in 1..(n - 1) : f[i] = g[i]
    <2> SUFFICES ASSUME NEW i \in 1..(n - 1)
                 PROVE  f[i] = g[i]
      OBVIOUS
    <2>1. i \in 1..Len(s) /\ i \in 1..Len(Front(s))
      BY <1>1
    <2>2. f[i] = Opened(w[at[i]], Front(s)[i].key)
      BY <2>1, FoundAt
    <2>3. Found(w, s, at)[i] = Opened(w[at[i]], s[i].key)
      BY <2>1, FoundAt
    <2> QED
      BY <1>1, <1>3, <2>2, <2>3
  <1> HIDE DEF f, g
  <1>5. f = g
    BY <1>2, <1>3, <1>4, ListEqual
  <1> QED
    BY <1>5 DEF f, g

-------------------------------------------------------------------------------
(* The steps of the one who builds the tree.                                *)
LEMMA PlaceInside ==
    ASSUME NEW rest, IsSeq(rest), rest # <<>>, NEW v, NEW c, NEW key, IsValue(c),
           c.kind \in Kinds, rest[Len(rest)] = Opened(c, key),
           Open' = Append(Front(rest), Opened(Holds(c, Item(key, v)), NoKey)),
           Built' = Built
    PROVE  Tree!Place(v, rest)
  <1>1. /\ Holds(c, Item(key, v)) = Value(c.kind, c.id, Append(c.items, Item(key, v)))
        /\ c.id = 0
    BY HoldsFacts DEF IsValue
  <1>2. Tree!WithItem(Opened(c, key), v) = Opened(Holds(c, Item(key, v)), NoKey)
    BY <1>1 DEF Tree!WithItem, Tree!Frame, Tree!Container, Tree!Item, Opened,
                Value, Item
  <1>3. Tree!Last(rest) = Opened(c, key)
    BY DEF Tree!Last
  <1>4. Tree!Front(rest) = Front(rest)
    BY DEF Tree!Front, Front
  <1> QED
    BY <1>2, <1>3, <1>4 DEF Tree!Place

LEMMA LastFound ==
    ASSUME NEW w, NEW s \in Seq(Frame), NEW at, s # <<>>
    PROVE  /\ IsSeq(Found(w, s, at)) /\ Found(w, s, at) # <<>>
           /\ Len(Found(w, s, at)) = Len(s)
           /\ Found(w, s, at)[Len(s)] = Opened(w[at[Len(s)]], s[Len(s)].key)
  <1>1. Len(s) \in 1..Len(s)
    BY FrontFacts
  <1>2. Found(w, s, at)[Len(s)] = Opened(w[at[Len(s)]], s[Len(s)].key)
    BY <1>1, FoundAt
  <1> QED
    BY <1>2, FoundList

(* What the tree is while the handler is in step with the text.             *)
LEMMA OpenNow ==
    ASSUME DomInv, ~cut, phase = "reading", NEW at, Laid(Whole, nest, 0, at)
    PROVE  Open = Found(Whole, nest, at) /\ Built = NoValue
  <1>1. /\ Values(Whole) /\ nest \in Seq(Frame) /\ nest # <<>>
        /\ SlotOpen(Whole, nest)
    BY DEF DomInv, DomTyped, DomReads
  <1>2. OpenIn(Whole) = Found(Whole, nest, at)
    BY <1>1, OpenFound
  <1> QED
    BY <1>1, <1>2 DEF Open, AtRoot, Built

LEMMA OpenThen ==
    ASSUME DomTyped', ~cut', phase' = "reading", nest' # <<>>,
           NEW at, Laid(Whole', nest', 0, at), SlotOpen(Whole', nest')
    PROVE  Open' = Found(Whole', nest', at) /\ Built' = NoValue
  <1>1. Values(Whole') /\ nest' \in Seq(Frame)
    BY DEF DomTyped
  <1>2. OpenIn(Whole') = Found(Whole', nest', at)
    BY <1>1, OpenFound
  <1>3. OpenIn(Whole)' = OpenIn(Whole')
    BY DEF OpenIn, Nth, NameAbove, Containers
  <1> QED
    BY <1>2, <1>3 DEF Open, AtRoot, Built

(* The tree is forgotten where the handler is prepared.                     *)
LEMMA Forgotten ==
    ASSUME cut' \/ (nest' = <<>> /\ phase' = "ready")
    PROVE  Tree!Next
  <1>1. Open' = <<>> /\ Built' = NoValue
    BY DEF Open, Built, AtRoot
  <1> QED
    BY <1>1 DEF Tree!Next, Tree!Renew

LEMMA ExpectedHere ==
    ASSUME DomInv, nest # <<>>, ValueExpected, NEW at, Laid(Whole, nest, 0, at),
           Open = Found(Whole, nest, at)
    PROVE  Tree!Expected
  <1> PICK n : n = Len(nest)
    OBVIOUS
  <1>1. nest \in Seq(Frame) /\ Values(Whole)
    BY DEF DomInv, DomTyped
  <1>2. Len(Open) = n /\ Open[n] = Opened(Whole[at[n]], nest[n].key)
    BY <1>1, LastFound
  <1>3. Innermost(Whole, nest, 0, at, n)
    <2>1. n \in Nat /\ 0 < n
      BY <1>1, FrontFacts
    <2> QED
      BY <1>1, <2>1, LaidFacts
  <1>4. Whole[at[n]].kind = nest[n].kind
    BY <1>3 DEF Innermost
  <1>5. nest[n].kind = "array" \/ nest[n].key # NoKey
    BY DEF ValueExpected, Last, AtRoot
  <1>6. Tree!Last(Open) = Opened(Whole[at[n]], nest[n].key)
    BY <1>2 DEF Tree!Last
  <1> QED
    BY <1>4, <1>5, <1>6 DEF Tree!Expected, Opened

LEMMA InnermostValue ==
    ASSUME NEW w, Values(w), NEW s \in Seq(Frame), NEW at, Laid(w, s, 0, at),
           s # <<>>
    PROVE  /\ Len(s) \in Nat \ {0} /\ at[Len(s)] \in 1..Len(w)
           /\ IsValue(w[at[Len(s)]])
           /\ w[at[Len(s)]].kind = s[Len(s)].kind /\ s[Len(s)].kind \in Kinds
           /\ Below(at, Len(s))
  <1> PICK n : n = Len(s)
    OBVIOUS
  <1>1. n \in Nat \ {0} /\ n \in 1..n /\ 0 < n
    BY FrontFacts
  <1>2. Innermost(w, s, 0, at, n)
    BY <1>1, LaidFacts
  <1>3. at[n] \in 1..Len(w) /\ w[at[n]].kind = s[n].kind
    BY <1>2 DEF Innermost
  <1>4. IsValue(w[at[n]])
    BY <1>3 DEF Values
  <1>5. s[n].kind \in Kinds
    <2>1. s[n] \in Frame
      BY <1>1, ElementOfSeq
    <2> QED
      BY <2>1 DEF Frame
  <1>6. \A i \in 1..(n - 1) : at[i] \in 1..(at[n] - 1)
    <2>1. \A i \in 1..(n - 1) : i \in (0 + 1)..(n - 1)
      BY <1>1
    <2>2. \A i \in 1..(n - 1) : at[i] \in Nat \ {0} /\ at[i] < at[n]
      BY <1>2, <2>1 DEF Innermost
    <2> QED
      BY <1>3, <2>2
  <1> QED
    BY <1>1, <1>3, <1>4, <1>5, <1>6 DEF Below

LEMMA ScalarBuilds ==
    DomInv /\ Scalar => Tree!Next \/ UNCHANGED Tree!treeVars
  <1> SUFFICES ASSUME DomInv, Scalar
               PROVE  Tree!Next
    OBVIOUS
  <1>1. DomTyped /\ ReadScalar /\ ValueExpected /\ Active /\ NextValue /\ Prechecked
        /\ nest \in Seq(Frame) /\ Len(nest) <= MaxNesting
    BY DEF DomInv, DomTyped, Scalar, ReadScalar, ValueExpected
  <1>2. PICK kind \in {"string", "null"} :
            Done(OnScalar(WholePrechecked, Value(kind, values', <<>>)),
                 parsed /\ ~Prepared)
    BY DEF Scalar
  <1> DEFINE v == Value(kind, values', <<>>)
  <1>3. IsValue(v)
    BY ValueFacts
  <1>4. values' \in 0..MaxValues /\ v \in Scalars
    <2>1. values' \in 1..MaxValues /\ values' \in 0..MaxValues
      BY <1>1, DomBoundsAssumption DEF NextValue, DomTyped
    <2>2. v \in Scalars
      BY <2>1 DEF Scalars, Value
    <2> QED
      BY <2>1, <2>2
  <1>5. cut' \in BOOLEAN /\ (parsed /\ ~Prepared) \in BOOLEAN /\ Prepared \in BOOLEAN
        /\ (cut' <=> cut \/ (Prepared /\ nest # <<>>))
    BY <1>1 DEF Prechecked, Prepared, AtRoot, DomTyped
  <1>6. CASE nest = <<>>
    <2>1. /\ m_stack = <<>> /\ ~cut /\ WholePrechecked = Whole /\ Len(Whole) = 1
          /\ phase = "ready"
      BY <1>1, <1>6, ReadyFacts
    <2>2. IsSeq(Whole)
      BY <1>1 DEF DomTyped, Values
    <2>3. nest' = <<>>
      BY <1>1, <1>6 DEF ReadScalar, WithScalar
    <2>4. nest' \in Seq(Frame) /\ Len(nest') <= MaxNesting
      BY <1>1, <1>6, <2>3
    <2>5. /\ m_value' = v
          /\ phase' = IF nest' = <<>> THEN "complete" ELSE "reading"
      BY <1>1, <1>2, <1>3, <1>4, <1>5, <2>1, <2>2, <2>4, ScalarAlone
    <2>6. /\ Open = <<>> /\ Built = NoValue
          /\ Open' = <<>> /\ Built' = v
      BY <1>5, <1>6, <2>1, <2>3, <2>5 DEF Open, Built, AtRoot
    <2>7. Tree!Expected /\ Tree!Place(v, Open)
      BY <2>6 DEF Tree!Expected, Tree!Place
    <2> QED
      BY <1>4, <2>7 DEF Tree!Next, Tree!Scalar
  <1>7. CASE nest # <<>> /\ ~cut'
    <2>1. ~cut /\ ~Prepared
      BY <1>5, <1>7
    <2>2. WholePrechecked = Whole /\ (parsed /\ ~Prepared) = parsed
          /\ parsed \in BOOLEAN
      BY <1>1, <2>1 DEF WholePrechecked, DomTyped
    <2>3. Done(OnScalar(Whole, v), parsed)
      BY <1>2, <2>2
    <2>4. PICK at : Laid(Whole, nest, 0, at)
      BY <1>1, <1>7, <2>1, Regular
    <2>5. 0 < Len(nest) /\ phase = "reading" /\ 0 \in Nat
      BY <1>1, <1>7, <2>1, Regular
    <2>6. /\ DomTyped' /\ Laid(Whole', nest', 0, at) /\ SlotOpen(Whole', nest')
          /\ nest' # <<>> /\ phase' = "reading"
          /\ Completes(nest, nest') /\ Filled(Whole, Whole', nest, at, v)
      BY <1>1, <1>5, <2>2, <2>3, <2>4, <2>5, ScalarAbove
    <2>7. Open = Found(Whole, nest, at) /\ Built = NoValue
      BY <2>1, <2>4, <2>5, OpenNow
    <2>8. Open' = Found(Whole', nest', at) /\ Built' = NoValue
      BY <1>7, <2>6, OpenThen
    <2> PICK n : n = Len(nest)
      OBVIOUS
    <2>9. /\ n \in Nat \ {0} /\ IsValue(Whole[at[n]]) /\ Whole[at[n]].kind \in Kinds
          /\ Below(at, n)
      BY <1>1, <1>7, <2>4, InnermostValue DEF DomTyped
    <2>10. nest' \in Seq(Frame)
      BY <2>6 DEF DomTyped
    <2>11. Found(Whole', nest', at)
             = Append(Front(Found(Whole, nest, at)),
                      Opened(Holds(Whole[at[n]], Item(nest[n].key, v)), NoKey))
      <3> HIDE DEF v
      <3>1. FilledLast(Whole, Whole', nest, nest', at, n, v)
        BY <1>1, <2>6, <2>9, <2>10 DEF FilledLast
      <3> QED
        BY <3>1, FoundFilled
    <2>12. /\ IsSeq(Open) /\ Open # <<>>
           /\ Open[Len(Open)] = Opened(Whole[at[n]], nest[n].key)
      BY <1>1, <1>7, <2>7, LastFound
    <2>13. Open' = Append(Front(Open), Opened(Holds(Whole[at[n]], Item(nest[n].key, v)), NoKey))
      BY <2>7, <2>8, <2>11
    <2>14. Tree!Place(v, Open)
      BY <2>7, <2>8, <2>9, <2>12, <2>13, PlaceInside
    <2>15. Tree!Expected
      BY <1>1, <1>7, <2>4, <2>7, ExpectedHere
    <2> QED
      BY <1>4, <2>14, <2>15 DEF Tree!Next, Tree!Scalar
  <1>8. CASE cut'
    BY <1>8, Forgotten
  <1> QED
    BY <1>6, <1>7, <1>8

LEMMA BeginBuilds ==
    ASSUME DomInv, NEW kind \in Kinds, ReadStart(kind), NextValue, ~cut, ~cut',
           cut' \in BOOLEAN,
           NEW before \in BOOLEAN,
           IF kind = "array" THEN Done(OnStartArray(Whole), before)
           ELSE Done(OnStartObject(Whole), before)
    PROVE  Tree!Next
  <1>1. DomTyped /\ ValueExpected /\ Active /\ nest \in Seq(Frame) /\ Values(Whole)
        /\ Len(nest) \in Nat /\ (nest = <<>> <=> Len(nest) = 0)
    BY DEF DomInv, DomTyped, ReadStart, ValueExpected
  <1>2. PICK at : Laid(Whole, nest, 0, at)
    BY <1>1, ReadyFacts, Regular
  <1>3. 0 \in Nat /\ 0 <= Len(nest)
    BY <1>1
  <1> PICK n : n = Len(nest)
    OBVIOUS
  <1>4. /\ DomTyped' /\ nest' # <<>> /\ Len(nest') = n + 1
        /\ \A i \in 1..n : nest'[i] = nest[i]
        /\ nest'[n + 1] = NewFrame(kind)
        /\ phase' = "reading" /\ SlotOpen(Whole', nest')
        /\ \E at2 : /\ Laid(Whole', nest', 0, at2)
                    /\ \A i \in (0 + 1)..n : at2[i] = at[i]
                    /\ at2[n + 1] = Len(Whole)
                    /\ Whole'[Len(Whole)] = Empty(kind)
                    /\ \A i \in 1..(Len(Whole) - 1) : Whole'[i] = Whole[i]
    BY <1>1, <1>2, <1>3, StartAbove
  <1>5. PICK at2 : /\ Laid(Whole', nest', 0, at2)
                   /\ \A i \in (0 + 1)..n : at2[i] = at[i]
                   /\ at2[n + 1] = Len(Whole)
                   /\ Whole'[Len(Whole)] = Empty(kind)
                   /\ \A i \in 1..(Len(Whole) - 1) : Whole'[i] = Whole[i]
    BY <1>4
  <1>6. /\ nest' \in Seq(Frame) /\ Values(Whole')
    BY <1>4 DEF DomTyped
  <1>7. Open = Found(Whole, nest, at)
    <2>1. CASE nest = <<>>
      <3>1. Open = <<>>
        BY <2>1 DEF Open, AtRoot
      <3>2. Found(Whole, nest, at) = <<>>
        BY <1>1, <2>1, FoundList
      <3> QED
        BY <3>1, <3>2
    <2>2. CASE nest # <<>>
      <3>1. phase = "reading"
        BY <1>1, <2>2, Regular
      <3> QED
        BY <1>2, <3>1, OpenNow
    <2> QED
      BY <2>1, <2>2
  <1>8. Open' = Found(Whole', nest', at2) /\ Built' = NoValue
    BY <1>4, <1>5, OpenThen
  <1>9. \A i \in 1..n : nest'[i] = nest[i] /\ Whole'[at2[i]] = Whole[at[i]]
    <2> SUFFICES ASSUME NEW i \in 1..n
                 PROVE  nest'[i] = nest[i] /\ Whole'[at2[i]] = Whole[at[i]]
      OBVIOUS
    <2>1. i \in (0 + 1)..n
      OBVIOUS
    <2>2. at2[i] = at[i]
      BY <1>5, <2>1
    <2>3. at2[i] \in 1..(at2[n + 1] - 1)
      <3>1. Len(nest') = n + 1 /\ (n + 1) - 1 = n
        BY <1>1, <1>4
      <3>2. Below(at2, n + 1)
        BY <1>4, <1>5, <1>6, <3>1, InnermostValue
      <3> QED
        BY <3>1, <3>2 DEF Below
    <2>4. at[i] \in 1..(Len(Whole) - 1)
      BY <1>5, <2>2, <2>3
    <2>5. Whole'[at[i]] = Whole[at[i]]
      BY <1>5, <2>4
    <2>6. nest'[i] = nest[i]
      BY <1>4
    <2> QED
      BY <2>2, <2>5, <2>6
  <1>10. Open' = Append(Open, Opened(Empty(kind), NoKey))
    <2>1. Found(Whole', nest', at2)
            = Append(Found(Whole, nest, at), Opened(Whole'[at2[n + 1]], nest'[n + 1].key))
      <3>1. Kept(Whole, Whole', nest, nest', at, at2, n, n)
        BY <1>9 DEF Kept
      <3>2. nest \in Seq(Frame) /\ nest' \in Seq(Frame) /\ Len(nest') = n + 1
        BY <1>1, <1>4, <1>6
      <3> QED
        BY <3>1, <3>2, FoundBegun
    <2>2. Whole'[at2[n + 1]] = Empty(kind) /\ nest'[n + 1].key = NoKey
      BY <1>4, <1>5 DEF NewFrame
    <2> QED
      BY <1>7, <1>8, <2>1, <2>2
  <1>11. Tree!Expected
    <2>1. CASE nest = <<>>
      BY <2>1 DEF Tree!Expected, Open, AtRoot
    <2>2. CASE nest # <<>>
      BY <1>1, <1>2, <1>7, <2>2, ExpectedHere
    <2> QED
      BY <2>1, <2>2
  <1>12. Opened(Empty(kind), NoKey) = Tree!Frame(Tree!Container(kind, <<>>), NoKey)
    BY DEF Tree!Frame, Tree!Container, Opened, Empty, Value
  <1>13. Tree!Begin
    BY <1>8, <1>10, <1>11, <1>12 DEF Tree!Begin, Kinds
  <1> QED
    BY <1>13 DEF Tree!Next

LEMMA StartBuilds == DomInv /\ (StartArray \/ StartObject) => Tree!Next
  <1> SUFFICES ASSUME DomInv, StartArray \/ StartObject, ~cut'
               PROVE  Tree!Next
    BY Forgotten
  <1>1. DomTyped /\ parsed \in BOOLEAN /\ cut \in BOOLEAN /\ "array" \in Kinds
        /\ "object" \in Kinds /\ Prepared \in BOOLEAN
    BY DEF DomInv, DomTyped, Kinds, Prepared
  <1>2. CASE StartArray
    <2>1. /\ ReadStart("array") /\ NextValue /\ Active
          /\ Done(OnStartArray(WholePrechecked), parsed /\ ~Prepared)
          /\ ~cut /\ ~(Prepared /\ nest # <<>>) /\ cut' \in BOOLEAN
      BY <1>1, <1>2 DEF StartArray, Prechecked, AtRoot, ReadStart, ValueExpected
    <2>2. WholePrechecked = Whole
      <3>1. CASE nest = <<>>
        BY <2>1, <3>1, ReadyFacts
      <3>2. CASE nest # <<>>
        BY <2>1, <3>2 DEF WholePrechecked
      <3> QED
        BY <3>1, <3>2
    <2>3. Done(OnStartArray(Whole), parsed /\ ~Prepared)
          /\ (parsed /\ ~Prepared) \in BOOLEAN
      BY <1>1, <2>1, <2>2
    <2> QED
      BY <1>1, <2>1, <2>3, BeginBuilds
  <1>3. CASE StartObject
    <2>1. /\ ReadStart("object") /\ NextValue /\ ~cut /\ cut' \in BOOLEAN
          /\ Done(OnStartObject(Whole), parsed)
      BY <1>1, <1>3 DEF StartObject
    <2> QED
      BY <1>1, <2>1, BeginBuilds
  <1> QED
    BY <1>2, <1>3

LEMMA KeyBuilds == DomInv /\ Key => Tree!Next
  <1> SUFFICES ASSUME DomInv, Key, ~cut'
               PROVE  Tree!Next
    BY Forgotten
  <1>1. PICK k \in Keys : ReadKey(k) /\ Done(OnKey(Whole, k), parsed)
    BY DEF Key
  <1>2. /\ DomTyped /\ Active /\ nest # <<>> /\ values' = values /\ cut' = cut
        /\ nest \in Seq(Frame) /\ Values(Whole) /\ parsed \in BOOLEAN
        /\ cut' \in BOOLEAN /\ ~cut
    BY <1>1 DEF DomInv, DomTyped, Key, ReadKey, KeyExpected, AtRoot
  <1>3. PICK at : Laid(Whole, nest, 0, at)
    BY <1>2, Regular
  <1> PICK n : n = Len(nest)
    OBVIOUS
  <1>4. n \in Nat \ {0} /\ 0 \in Nat /\ 0 < n /\ phase = "reading"
    BY <1>2, Regular
  <1>5. /\ DomTyped' /\ Laid(Whole', nest', 0, at) /\ SlotOpen(Whole', nest')
        /\ nest' # <<>> /\ Len(nest') = n
        /\ \A i \in 1..(n - 1) : nest'[i] = nest[i]
        /\ nest[n].kind = "object" /\ nest[n].key = NoKey
        /\ nest'[n].key = k /\ phase' = "reading"
        /\ at[n] = Len(Whole)
        /\ \A i \in 1..Len(Whole) : Whole'[i] = Whole[i]
    BY <1>1, <1>2, <1>3, <1>4, KeyAbove
  <1>6. nest' \in Seq(Frame)
    BY <1>5 DEF DomTyped
  <1>7. Open = Found(Whole, nest, at) /\ Built = NoValue
    BY <1>2, <1>3, <1>4, OpenNow
  <1>8. Open' = Found(Whole', nest', at) /\ Built' = NoValue
    BY <1>5, OpenThen
  <1>9. \A i \in 1..n : Whole'[at[i]] = Whole[at[i]]
    <2>1. at[n] \in 1..Len(Whole) /\ Below(at, n)
      BY <1>2, <1>3, InnermostValue
    <2>2. \A i \in 1..n : i = n \/ i \in 1..(n - 1)
      BY <1>4
    <2>3. \A i \in 1..n : at[i] \in 1..Len(Whole)
      BY <2>1, <2>2 DEF Below
    <2> QED
      BY <1>5, <2>3
  <1>10. Open' = Append(Front(Open), Opened(Whole[at[n]], k))
    <2>1. Found(Whole', nest', at)
            = Append(Front(Found(Whole, nest, at)), Opened(Whole[at[n]], k))
      <3>1. Named(Whole, Whole', nest, nest', at, n, k)
        BY <1>5, <1>9 DEF Named, Kept
      <3>2. nest \in Seq(Frame) /\ nest' \in Seq(Frame) /\ n \in Nat \ {0} /\ n = Len(nest)
        BY <1>2, <1>4, <1>6
      <3> QED
        BY <3>1, <3>2, FoundNamed
    <2> QED
      BY <1>7, <1>8, <2>1
  <1>11. /\ Open # <<>> /\ Open[Len(Open)] = Opened(Whole[at[n]], NoKey)
    BY <1>2, <1>5, <1>7, LastFound
  <1>12. Whole[at[n]].kind = "object"
    BY <1>2, <1>3, <1>5, InnermostValue
  <1>13. Tree!Last(Open) = Opened(Whole[at[n]], NoKey) /\ Tree!Front(Open) = Front(Open)
    BY <1>11 DEF Tree!Last, Tree!Front, Front
  <1>14. /\ Opened(Whole[at[n]], NoKey).value = Whole[at[n]]
         /\ Opened(Whole[at[n]], NoKey).key = NoKey
         /\ Opened(Whole[at[n]], k) = Tree!Frame(Whole[at[n]], k)
    BY DEF Opened, Tree!Frame
  <1>15. Tree!Name
    BY <1>7, <1>8, <1>10, <1>11, <1>12, <1>13, <1>14 DEF Tree!Name
  <1> QED
    BY <1>15 DEF Tree!Next

(* The container that ends is the last of the list, and the list that is    *)
(* left is that of the containers around it.                                *)
LEMMA EndsLast ==
    ASSUME DomInv, NEW at, Open = Found(Whole, nest, at), nest # <<>>,
           nest[Len(nest)].key = NoKey
    PROVE  /\ Open # <<>> /\ Tree!Last(Open).key = NoKey
           /\ Tree!Last(Open).value = Whole[at[Len(nest)]]
           /\ Tree!Front(Open) = Found(Whole, Front(nest), at)
  <1>1. nest \in Seq(Frame)
    BY DEF DomInv, DomTyped
  <1>2. /\ IsSeq(Open) /\ Open # <<>>
        /\ Open[Len(Open)] = Opened(Whole[at[Len(nest)]], NoKey)
    BY <1>1, LastFound
  <1>3. Tree!Last(Open) = Opened(Whole[at[Len(nest)]], NoKey)
        /\ Tree!Front(Open) = Front(Open)
    BY <1>2 DEF Tree!Last, Tree!Front, Front
  <1>4. Front(Open) = Found(Whole, Front(nest), at)
    BY <1>1, FoundFront
  <1> QED
    BY <1>2, <1>3, <1>4 DEF Opened

LEMMA EndBuilds == DomInv /\ (EndArray \/ EndObject) => Tree!Next
  <1> SUFFICES ASSUME DomInv, EndArray \/ EndObject, ~cut'
               PROVE  Tree!Next
    BY Forgotten
  <1>1. PICK kind \in Kinds :
            /\ ReadEnd(kind)
            /\ IF kind = "array" THEN Done(OnEndArray(Whole), parsed)
               ELSE Done(OnEndObject(Whole), parsed)
    BY DEF EndArray, EndObject, Kinds
  <1>2. /\ DomTyped /\ Active /\ nest # <<>> /\ values' = values /\ ~cut
        /\ nest \in Seq(Frame) /\ Values(Whole)
        /\ parsed \in BOOLEAN /\ cut' \in BOOLEAN
    BY <1>1 DEF DomInv, DomTyped, EndArray, EndObject, ReadEnd, AtRoot
  <1>3. PICK at : Laid(Whole, nest, 0, at)
    BY <1>2, Regular
  <1> PICK n : n = Len(nest)
    OBVIOUS
  <1>4. n \in Nat \ {0} /\ 0 \in Nat /\ 0 < n /\ 0 + 1 = 1 /\ phase = "reading"
    BY <1>2, Regular
  <1>5. /\ DomTyped' /\ Len(nest') = n - 1
        /\ nest[n].key = NoKey
        /\ n = 0 + 1 =>
              /\ m_value' = Whole[at[n]]
              /\ phase' = IF nest' = <<>> THEN "complete" ELSE "reading"
              /\ nest' = <<>> <=> 0 = 0
        /\ n # 0 + 1 =>
              /\ Laid(Whole', nest', 0, at) /\ SlotOpen(Whole', nest')
              /\ nest' # <<>> /\ phase' = "reading"
              /\ Filled(Whole, Whole', Front(nest), at, Whole[at[n]])
        /\ n > 1 => Completes(Front(nest), nest')
    BY <1>1, <1>2, <1>3, <1>4, EndAbove
  <1>6. Open = Found(Whole, nest, at) /\ Built = NoValue
    BY <1>2, <1>3, <1>4, OpenNow
  <1>7. /\ Open # <<>> /\ Tree!Last(Open).key = NoKey
        /\ Tree!Last(Open).value = Whole[at[n]]
        /\ Tree!Front(Open) = Found(Whole, Front(nest), at)
    BY <1>2, <1>5, <1>6, EndsLast
  <1> PICK left : left = Front(nest)
    OBVIOUS
  <1> PICK ended : ended = Whole[at[n]]
    OBVIOUS
  <1> DEFINE rest == Found(Whole, left, at)
  <1>8. /\ left \in Seq(Frame) /\ Len(left) = n - 1
        /\ \A i \in 1..(n - 1) : left[i] = nest[i]
    BY <1>2, FrontFacts
  <1>9. Tree!Place(ended, rest)
    <2>1. CASE n = 1
      <3>1. left = <<>>
        BY <1>8, <2>1
      <3>2. rest = <<>>
        BY <1>8, <3>1, FoundList
      <3>3. m_value' = ended /\ nest' = <<>> /\ phase' = "complete"
        BY <1>4, <1>5, <2>1
      <3>4. Open' = <<>> /\ Built' = ended
        BY <3>3 DEF Open, Built, AtRoot
      <3> QED
        BY <3>2, <3>4 DEF Tree!Place
    <2>2. CASE n # 1
      <3>1. /\ Laid(Whole', nest', 0, at) /\ SlotOpen(Whole', nest')
            /\ nest' # <<>> /\ phase' = "reading"
            /\ Filled(Whole, Whole', left, at, ended) /\ Completes(left, nest')
        BY <1>4, <1>5, <2>2
      <3> PICK m : m = Len(left)
        OBVIOUS
      <3>2. m \in Nat \ {0} /\ m = n - 1 /\ left # <<>> /\ left[m] = nest[m]
            /\ m \in (0 + 1)..Len(nest)
        BY <1>4, <1>8, <2>2
      <3>3. Open' = Found(Whole', nest', at) /\ Built' = NoValue
        BY <1>5, <3>1, OpenThen
      <3>4. nest' \in Seq(Frame)
        BY <1>5 DEF DomTyped
      <3>5. /\ at[m] \in 1..Len(Whole) /\ Whole[at[m]].kind = nest[m].kind
            /\ \A j \in 1..(m - 1) : at[j] < at[m]
        BY <1>3, <3>2 DEF Laid
      <3>6. IsValue(Whole[at[m]]) /\ Whole[at[m]].kind \in Kinds
        <4>1. nest[m] \in Frame
          BY <1>2, <3>2, ElementOfSeq
        <4> QED
          BY <1>2, <3>5, <4>1 DEF Values, Frame
      <3>7. Below(at, m)
        <4> SUFFICES ASSUME NEW j \in 1..(m - 1)
                     PROVE  at[j] \in 1..(at[m] - 1)
          BY DEF Below
        <4>1. j \in (0 + 1)..Len(nest)
          BY <3>2
        <4>2. at[j] \in 1..Len(Whole)
          BY <1>3, <4>1 DEF Laid
        <4> QED
          BY <3>5, <4>2
      <3>8. Found(Whole', nest', at)
              = Append(Front(rest),
                       Opened(Holds(Whole[at[m]], Item(left[m].key, ended)), NoKey))
        <4>1. FilledLast(Whole, Whole', left, nest', at, m, ended)
          BY <1>8, <3>1, <3>2, <3>4, <3>7 DEF FilledLast
        <4> HIDE DEF rest
        <4>2. Found(Whole', nest', at)
                = Append(Front(Found(Whole, left, at)),
                         Opened(Holds(Whole[at[m]], Item(left[m].key, ended)), NoKey))
          BY <4>1, FoundFilled
        <4> QED
          BY <4>2 DEF rest
      <3>9. /\ IsSeq(rest) /\ rest # <<>>
            /\ rest[Len(rest)] = Opened(Whole[at[m]], left[m].key)
        BY <1>8, <3>2, LastFound
      <3> HIDE DEF rest
      <3>10. Open' = Append(Front(rest),
                            Opened(Holds(Whole[at[m]], Item(left[m].key, ended)), NoKey))
             /\ Built' = Built
        BY <1>6, <3>3, <3>8 DEF rest
      <3> QED
        BY <3>6, <3>9, <3>10, PlaceInside
    <2> QED
      BY <2>1, <2>2
  <1>10. Tree!Place(Tree!Last(Open).value, Tree!Front(Open))
    BY <1>7, <1>9
  <1>11. Tree!End
    BY <1>7, <1>10 DEF Tree!End
  <1> QED
    BY <1>11 DEF Tree!Next

LEMMA AgainBuilds == RenewAndPrepare \/ PrepareForReuse \/ Again => Tree!Next
  <1> SUFFICES ASSUME RenewAndPrepare \/ PrepareForReuse \/ Again
               PROVE  Tree!Next
    OBVIOUS
  <1>1. nest' = <<>> /\ phase' = "ready"
    BY DEF RenewAndPrepare, PrepareForReuse, Prepare, Again, NextText
  <1> QED
    BY <1>1, Forgotten

(* JSONHandler builds the tree of the text: every value comes into the      *)
(* container it was written in, under its name and after what was before it *)
(* there, and the whole text's value is what is left in the Document.       *)
THEOREM Refinement == Spec => ImplementsTree
  <1>1. Init => Tree!Init
    BY DEF Init, ReaderInit, Tree!Init, Open, Built, AtRoot
  <1>2. DomInv /\ [Next]_vars => [Tree!Next]_(Tree!treeVars)
    <2> SUFFICES ASSUME DomInv, [Next]_vars
                 PROVE  Tree!Next \/ UNCHANGED Tree!treeVars
      OBVIOUS
    <2>1. CASE Next
      BY <2>1, ScalarBuilds, StartBuilds, KeyBuilds, EndBuilds, AgainBuilds DEF Next
    <2>2. CASE UNCHANGED vars
      <3>1. /\ UNCHANGED <<nest, phase, cut, m_value, m_stack>>
        BY <2>2 DEF vars, readerVars, domVars
      <3>2. UNCHANGED Whole
        BY <3>1 DEF Whole
      <3>3. UNCHANGED Built
        BY <3>1 DEF Built
      <3>4. UNCHANGED Open
        BY <3>1, <3>2 DEF Open, AtRoot, OpenIn, Nth, NameAbove, Containers
      <3> QED
        BY <3>3, <3>4 DEF Tree!treeVars
    <2> QED
      BY <2>1, <2>2
  <1> QED
    BY <1>1, <1>2, DomInvariance, PTL DEF Spec, ImplementsTree, Tree!Spec
-------------------------------------------------------------------------------
(* The handler as a part.                                                   *)
Event ==
    Scalar \/ Key \/ StartArray \/ EndArray \/ StartObject \/ EndObject

(* An event that leaves the text open, and the stack in step with it, never *)
(* sets parsed: only the value that is the whole text does.                 *)
LEMMA ScalarParsed ==
    ASSUME DomInv, Scalar, ~cut', nest' # <<>>
    PROVE  parsed' => parsed
  <1>1. /\ DomTyped /\ ReadScalar /\ ValueExpected /\ Active /\ NextValue
        /\ Prechecked /\ nest \in Seq(Frame)
    BY DEF DomInv, DomTyped, Scalar, ReadScalar, ValueExpected
  <1>2. PICK kind \in {"string", "null"} :
            Done(OnScalar(WholePrechecked, Value(kind, values', <<>>)),
                 parsed /\ ~Prepared)
    BY DEF Scalar
  <1>3. nest # <<>>
    BY <1>1 DEF ReadScalar, WithScalar
  <1>4. ~cut /\ ~Prepared /\ cut' \in BOOLEAN
    BY <1>1, <1>3 DEF Prechecked, AtRoot
  <1>5. Done(OnScalar(Whole, Value(kind, values', <<>>)), parsed)
        /\ parsed \in BOOLEAN
    <2>1. WholePrechecked = Whole /\ parsed \in BOOLEAN
      BY <1>1, <1>4 DEF WholePrechecked, DomTyped
    <2>2. (parsed /\ ~Prepared) = parsed
      BY <1>4, <2>1
    <2> QED
      BY <1>2, <2>1, <2>2
  <1>6. PICK at : Laid(Whole, nest, 0, at)
    BY <1>1, <1>3, <1>4, Regular
  <1>7. 0 \in Nat /\ 0 < Len(nest)
    BY <1>1, <1>3, <1>4, Regular
  <1>8. parsed' = parsed
    BY <1>1, <1>4, <1>5, <1>6, <1>7, ScalarAbove
  <1> QED
    BY <1>8

LEMMA StartParsed ==
    ASSUME StartArray \/ StartObject \/ Key
    PROVE  parsed' => parsed
  <1>1. CASE StartArray
    BY <1>1 DEF StartArray, Done, OnStartArray, Result
  <1>2. CASE StartObject
    BY <1>2 DEF StartObject, Done, OnStartObject, Result
  <1>3. CASE Key
    BY <1>3 DEF Key, Done, OnKey, Result
  <1> QED
    BY <1>1, <1>2, <1>3

LEMMA EndParsed ==
    ASSUME DomInv, EndArray \/ EndObject, ~cut', nest' # <<>>
    PROVE  parsed' => parsed
  <1>1. PICK kind \in Kinds :
            /\ ReadEnd(kind)
            /\ IF kind = "array" THEN Done(OnEndArray(Whole), parsed)
               ELSE Done(OnEndObject(Whole), parsed)
    BY DEF EndArray, EndObject, Kinds
  <1>2. /\ DomTyped /\ Active /\ nest # <<>> /\ UNCHANGED values /\ ~cut
        /\ cut' \in BOOLEAN /\ nest \in Seq(Frame) /\ parsed \in BOOLEAN
    BY <1>1 DEF DomInv, DomTyped, EndArray, EndObject, ReadEnd, AtRoot
  <1>3. Len(nest) \in Nat \ {0} /\ (nest' = <<>> <=> Len(nest) = 1)
    BY <1>1, <1>2, ReadEndFacts
  <1>4. PICK at : Laid(Whole, nest, 0, at)
    BY <1>2, Regular
  <1>5. 0 \in Nat /\ 0 < Len(nest) /\ Len(nest) # 0 + 1
    BY <1>3
  <1>6. parsed' = parsed
    BY <1>1, <1>2, <1>4, <1>5, EndAbove
  <1> QED
    BY <1>6

(* The promise speaks of parts as HandlerContract does.                     *)
LEMMA AnswerIsPromised ==
    ASSUME phase \in {"ready", "reading"}, cut = FALSE, cut' = FALSE,
           Answers(AsPart, AsPart', phase')
    PROVE  Promise!Next
  <1>1. PICK event \in Events :
            /\ Fits(AsPart, event)
            /\ IF phase' = "failed" THEN AsPart' \in Rejected(AsPart, event)
               ELSE /\ AsPart' \in Accepted(AsPart, event)
                    /\ phase' = IF AsPart'.open = 0 THEN "complete"
                                ELSE "reading"
    BY DEF Answers
  <1>2. /\ event \in Promise!Events /\ Promise!Fits(AsPart, event)
        /\ Promise!Rejected(AsPart, event) = Rejected(AsPart, event)
        /\ Promise!Accepted(AsPart, event) = Accepted(AsPart, event)
    BY <1>1 DEF Promise!Events, Events, Promise!Fits, Fits, Promise!Rejected,
                Rejected, Promise!Accepted, Accepted, Promise!OpenAfter,
                OpenAfter, Promise!ParsedAfter, ParsedAfter
  <1>3. Promise!Answer(event)
    BY <1>1, <1>2 DEF Promise!Answer, Promise!Accept, Promise!Refuse
  <1> QED
    BY <1>2, <1>3 DEF Promise!Next

LEMMA EventIsPromised ==
    ASSUME DomInv, DomInv', Event, ~cut'
    PROVE  Promise!Next
  <1>1. ReadsEvent /\ phase \in {"ready", "reading"} /\ ~cut
    <2>1. ReadsEvent
      BY DEF Event, Scalar, Key, StartObject, EndObject, StartArray, EndArray,
             ReadsEvent, Kinds
    <2>2. Active
      BY <2>1 DEF ReadsEvent, ReadScalar, ReadKey, ReadStart, ReadEnd,
                  ValueExpected, KeyExpected
    <2>3. cut => cut'
      BY DEF Event, Scalar, Key, StartObject, EndObject, StartArray, EndArray,
             Prechecked
    <2> QED
      BY <2>1, <2>2, <2>3 DEF Active
  <1>2. /\ phase' # "failed" /\ the_error = FALSE /\ the_error' = FALSE
        /\ parsed \in BOOLEAN /\ parsed' \in BOOLEAN /\ nest \in Seq(Frame)
        /\ cut = FALSE /\ cut' = FALSE
    BY <1>1 DEF DomInv, DomTyped
  <1>3. Accept /\ (nest' = <<>> => parsed')
    <2>1. Accept
      BY <1>2 DEF Event, Scalar, Key, StartObject, EndObject, StartArray,
                  EndArray, Done, Terminate
    <2> QED
      BY <2>1 DEF Accept, DomInv
  <1>4. nest' # <<>> => (parsed' => parsed)
    BY ScalarParsed, StartParsed, EndParsed DEF Event
  <1>5. AsPart = Seen(parsed, FALSE)
        /\ AsPart' = [open |-> Len(nest'), parsed |-> parsed', error |-> FALSE]
    BY <1>1, <1>2 DEF AsPart, Seen
  <1>6. /\ phase' = "failed" <=> FALSE
        /\ phase' # "failed" => IF nest' = <<>> THEN parsed' ELSE parsed' => parsed
    BY <1>2, <1>3, <1>4
  <1>7. Answers(AsPart, AsPart', phase')
    BY <1>1, <1>2, <1>3, <1>5, <1>6, EventAnswered
  <1> QED
    BY <1>1, <1>2, <1>7, AnswerIsPromised

(* A Document answers as every part does, except where it was prepared in   *)
(* the middle of a value that is repeated.                                  *)
THEOREM ContractIsKept == Spec => ContractKept
  <1>1. Init => Promise!Init
    BY DEF Init, ReaderInit, AsPart, Promise!Init, Promise!Fresh, Fresh
  <1>2. DomInv /\ DomInv' /\ [Next]_vars => [Promise!Next]_(Promise!contractedVars)
    <2> SUFFICES ASSUME DomInv, DomInv', [Next]_vars
                 PROVE  Promise!Next \/ UNCHANGED Promise!contractedVars
      OBVIOUS
    <2>1. CASE Event /\ ~cut'
      BY <2>1, EventIsPromised
    <2>2. CASE Event /\ cut'
      <3>1. AsPart' = Fresh /\ cut' = TRUE
        BY <2>2 DEF AsPart, DomInv, DomTyped
      <3>2. CASE cut
        BY <2>2, <3>1, <3>2 DEF AsPart, Promise!contractedVars, DomInv, DomTyped
      <3>3. CASE ~cut
        BY <3>1 DEF Promise!Next, Promise!PrepareForReuse, Promise!Fresh, Fresh
      <3> QED
        BY <3>2, <3>3
    <2>3. CASE RenewAndPrepare \/ PrepareForReuse
      BY <2>3 DEF RenewAndPrepare, PrepareForReuse, Prepare, NextText, AsPart,
                  Promise!Next, Promise!PrepareForReuse, Promise!Fresh
    <2>4. CASE Again
      <3>1. ~cut /\ ~cut' /\ nest = <<>> /\ nest' = <<>>
        BY <2>4 DEF Again, NextText, DomInv
      <3>2. UNCHANGED <<parsed, the_error>>
            /\ phase = "complete" /\ phase' = "ready"
        BY <2>4 DEF Again, NextText
      <3> QED
        BY <3>1, <3>2 DEF AsPart, Promise!Next, Promise!Again
    <2>5. CASE UNCHANGED vars
      BY <2>5 DEF vars, readerVars, domVars, AsPart, Promise!contractedVars
    <2> QED
      BY <2>1, <2>2, <2>3, <2>4, <2>5 DEF Next, Event
  <1> QED
    BY <1>1, <1>2, DomInvariance, PTL DEF Spec, ContractKept, Promise!Spec
===============================================================================
