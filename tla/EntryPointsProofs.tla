-------------------------- MODULE EntryPointsProofs ----------------------------
(***************************************************************************)
(* Who owns an error, what a call says of itself, and what it adds to a     *)
(* status, for any number of calls and errors.                              *)
(***************************************************************************)
EXTENDS EntryPoints, TLAPS

(* a and b have no element in common, and neither has one twice.            *)
Apart(a, b) ==
    /\ \A i, j \in 1..Len(a) : a[i] = a[j] => i = j
    /\ \A i, j \in 1..Len(b) : b[i] = b[j] => i = j
    /\ \A i \in 1..Len(a), j \in 1..Len(b) : a[i] # b[j]

(* The errors of a stack are of calls up to n.                              *)
Until(s, n) == \A i \in 1..Len(s) : s[i].call <= n

LEMMA SameSequence ==
    ASSUME NEW S, NEW s \in Seq(S), NEW t \in Seq(S), Len(s) = Len(t),
           \A i \in 1..Len(t) : s[i] = t[i]
    PROVE  s = t
<1>1. s = [i \in 1..Len(s) |-> s[i]] /\ t = [i \in 1..Len(t) |-> t[i]]
  OBVIOUS
<1> QED BY <1>1

LEMMA PlaceInConcatenation ==
    ASSUME NEW S, NEW a \in Seq(S), NEW b \in Seq(S), NEW i \in DOMAIN (a \o b)
    PROVE  \/ i \in 1..Len(a) /\ (a \o b)[i] = a[i]
           \/ i - Len(a) \in 1..Len(b) /\ (a \o b)[i] = b[i - Len(a)]
OBVIOUS

LEMMA ApartIsInjective ==
    ASSUME NEW S, NEW a \in Seq(S), NEW b \in Seq(S), Apart(a, b)
    PROVE  IsInjective(a \o b)
<1> DEFINE c == a \o b
<1>1. /\ Len(c) = Len(a) + Len(b) /\ DOMAIN c = 1..Len(c)
      /\ Len(a) \in Nat /\ Len(b) \in Nat
  OBVIOUS
<1>2. \A i \in 1..Len(c) :
          \/ i \in 1..Len(a) /\ c[i] = a[i]
          \/ i - Len(a) \in 1..Len(b) /\ c[i] = b[i - Len(a)]
  OBVIOUS
<1>3. SUFFICES ASSUME NEW i \in 1..Len(c), NEW j \in 1..Len(c), c[i] = c[j]
               PROVE  i = j
  BY <1>1 DEF IsInjective
<1> HIDE DEF c
<1>4. CASE i \in 1..Len(a) /\ c[i] = a[i] /\ j \in 1..Len(a) /\ c[j] = a[j]
  BY <1>3, <1>4 DEF Apart
<1>5. CASE /\ i \in 1..Len(a) /\ c[i] = a[i]
           /\ j - Len(a) \in 1..Len(b) /\ c[j] = b[j - Len(a)]
  BY <1>3, <1>5 DEF Apart
<1>6. CASE /\ i - Len(a) \in 1..Len(b) /\ c[i] = b[i - Len(a)]
           /\ j \in 1..Len(a) /\ c[j] = a[j]
  BY <1>3, <1>6 DEF Apart
<1>7. CASE /\ i - Len(a) \in 1..Len(b) /\ c[i] = b[i - Len(a)]
           /\ j - Len(a) \in 1..Len(b) /\ c[j] = b[j - Len(a)]
  <2>1. i - Len(a) = j - Len(a)
    BY <1>3, <1>7 DEF Apart
  <2> QED BY <1>1, <2>1
<1> QED BY <1>2, <1>4, <1>5, <1>6, <1>7

(* The errors of a call, by their place in the chain.                       *)
Chain(c, n) == [i \in 1..n |-> [call |-> c, level |-> i]]

(* What set_result and reap_error make of a stack: the chain from its end   *)
(* to its beginning, and the stack as it was.                               *)
ChainOnTop(c, n, s) ==
    /\ Chain(c, n) \in Seq(Error) /\ Len(Chain(c, n)) = n
    /\ Pushed(Chain(c, n), s) \in Seq(Error)
    /\ Len(Pushed(Chain(c, n), s)) = n + Len(s)
    /\ \A i \in 1..n :
           Pushed(Chain(c, n), s)[i] = [call |-> c, level |-> n + 1 - i]
    /\ \A i \in 1..Len(s) : Pushed(Chain(c, n), s)[n + i] = s[i]

LEMMA PushedErrors ==
    ASSUME NEW n \in Nat, NEW c \in 1..MaxCalls, n <= MaxChain,
           NEW s \in Seq(Error)
    PROVE  ChainOnTop(c, n, s)
<1>0. MaxCalls \in Nat /\ MaxChain \in Nat
  BY EntryBoundsAssumption
<1> DEFINE ch == Chain(c, n)
           r == Reverse(ch)
<1>1. /\ Len(ch) = n /\ ch \in Seq(Error)
      /\ \A i \in 1..n : ch[i] = [call |-> c, level |-> i]
  <2>1. \A i \in 1..n : [call |-> c, level |-> i] \in Error
    BY <1>0 DEF Error
  <2>2. ch \in [1..n -> Error]
    BY <2>1 DEF Chain
  <2>3. ch \in Seq(Error) /\ Len(ch) = n
    <3> HIDE DEF ch
    <3> QED BY <2>2
  <2> QED BY <2>3 DEF Chain
<1> HIDE DEF ch
<1>2. /\ r \in Seq(Error) /\ Len(r) = n
      /\ \A i \in 1..n : r[i] = [call |-> c, level |-> n + 1 - i]
  <2>1. r = [i \in 1..n |-> ch[(n - i) + 1]]
    BY <1>1 DEF Reverse
  <2>2. \A i \in 1..n : (n - i) + 1 \in 1..n
    OBVIOUS
  <2>3. \A i \in 1..n : ch[(n - i) + 1] \in Error
    BY <1>1, <2>2
  <2>4. r \in [1..n -> Error]
    BY <2>1, <2>3
  <2>5. r \in Seq(Error) /\ Len(r) = n
    <3> HIDE DEF r
    <3> QED BY <2>4
  <2>6. \A i \in 1..n : r[i] = [call |-> c, level |-> (n - i) + 1]
    BY <1>1, <2>1, <2>2
  <2>7. \A i \in 1..n : (n - i) + 1 = n + 1 - i
    OBVIOUS
  <2> QED BY <2>5, <2>6, <2>7
<1>3. Pushed(ch, s) = r \o s
  BY DEF Pushed
<1> HIDE DEF r
<1>4. /\ r \o s \in Seq(Error) /\ Len(r \o s) = n + Len(s)
      /\ \A i \in 1..n : (r \o s)[i] = r[i]
      /\ \A i \in 1..Len(s) : (r \o s)[n + i] = s[i]
  <2>1. Len(s) \in Nat
    OBVIOUS
  <2>4. r \o s \in Seq(Error)
    BY <1>2
  <2>5. Len(r \o s) = n + Len(s)
    BY <1>2
  <2>2. \A i \in 1..n : (r \o s)[i] = r[i]
    BY <1>2, <2>1
  <2>3. \A i \in 1..Len(s) : (r \o s)[n + i] = s[i]
    <3> TAKE i \in 1..Len(s)
    <3>1. n + i \in (n + 1)..(n + Len(s)) /\ (n + i) - n = i /\ n + i > n
      BY <2>1
    <3> QED BY <1>2, <2>1, <3>1
  <2> QED BY <2>2, <2>3, <2>4, <2>5
<1> QED BY <1>1, <1>2, <1>3, <1>4 DEF ch, ChainOnTop

(* A chain of this call on the stacks of earlier ones.                      *)
LEMMA PushedApart ==
    ASSUME NEW n \in Nat, NEW c \in 1..MaxCalls, n <= MaxChain,
           NEW s \in Seq(Error), NEW k \in Seq(Error), Apart(s, k),
           Until(s, c - 1), Until(k, c - 1)
    PROVE  Apart(Pushed(Chain(c, n), s), k) /\ Until(Pushed(Chain(c, n), s), c)
<1> DEFINE p == Pushed(Chain(c, n), s)
<1>1. /\ p \in Seq(Error) /\ Len(p) = n + Len(s) /\ Len(s) \in Nat
      /\ \A i \in 1..n : p[i] = [call |-> c, level |-> n + 1 - i]
      /\ \A i \in 1..Len(s) : p[n + i] = s[i]
  <2>1. ChainOnTop(c, n, s)
    BY PushedErrors
  <2>2. Len(s) \in Nat
    OBVIOUS
  <2> QED BY <2>1, <2>2 DEF ChainOnTop
<1> HIDE DEF p
<1>2. \A i \in 1..Len(p) :
          \/ i \in 1..n /\ p[i].call = c /\ p[i].level = n + 1 - i
          \/ i - n \in 1..Len(s) /\ p[i] = s[i - n]
  <2> TAKE i \in 1..Len(p)
  <2>1. CASE i \in 1..n
    <3>1. p[i] = [call |-> c, level |-> n + 1 - i]
      BY <1>1, <2>1
    <3> QED BY <2>1, <3>1
  <2>2. CASE i \notin 1..n
    <3>1. i - n \in 1..Len(s) /\ n + (i - n) = i
      BY <1>1, <2>2
    <3>2. p[n + (i - n)] = s[i - n]
      BY <1>1, <3>1
    <3> QED BY <3>1, <3>2
  <2> QED BY <2>1, <2>2
<1>3. /\ c \in Nat
      /\ \A i \in 1..Len(s) : s[i].call < c
      /\ \A i \in 1..Len(k) : k[i].call < c
  <2>0. c \in Nat /\ \A e \in Error : e.call \in Nat
    BY EntryBoundsAssumption DEF Error
  <2>1. \A t \in Seq(Error) : \A i \in 1..Len(t) : t[i] \in Error
    OBVIOUS
  <2> QED BY <2>0, <2>1 DEF Until
<1>4. Until(p, c)
  <2> SUFFICES ASSUME NEW i \in 1..Len(p) PROVE p[i].call <= c
    BY DEF Until
  <2>1. CASE i \in 1..n /\ p[i].call = c
    BY <1>3, <2>1
  <2>2. CASE i - n \in 1..Len(s) /\ p[i] = s[i - n]
    <3>1. s[i - n].call < c /\ s[i - n].call \in Nat
      <4>1. s[i - n] \in Error
        BY <2>2
      <4> QED BY <1>3, <2>2, <4>1, EntryBoundsAssumption DEF Error
    <3> QED BY <1>3, <2>2, <3>1
  <2> QED BY <1>2, <2>1, <2>2
<1>5. \A i, j \in 1..Len(p) : p[i] = p[j] => i = j
  <2> SUFFICES ASSUME NEW i \in 1..Len(p), NEW j \in 1..Len(p), p[i] = p[j]
               PROVE  i = j
    OBVIOUS
  <2>1. CASE i \in 1..n /\ p[i].call = c /\ p[i].level = n + 1 - i
    <3>1. CASE j \in 1..n /\ p[j].level = n + 1 - j
      BY <2>1, <3>1
    <3>2. CASE j - n \in 1..Len(s) /\ p[j] = s[j - n]
      BY <1>3, <2>1, <3>2
    <3> QED BY <1>2, <3>1, <3>2
  <2>2. CASE i - n \in 1..Len(s) /\ p[i] = s[i - n]
    <3>1. CASE j \in 1..n /\ p[j].call = c
      BY <1>3, <2>2, <3>1
    <3>2. CASE j - n \in 1..Len(s) /\ p[j] = s[j - n]
      <4>1. i - n = j - n
        BY <2>2, <3>2 DEF Apart
      <4> QED BY <1>1, <4>1
    <3> QED BY <1>2, <3>1, <3>2
  <2> QED BY <1>2, <2>1, <2>2
<1>6. \A i \in 1..Len(p), j \in 1..Len(k) : p[i] # k[j]
  <2> SUFFICES ASSUME NEW i \in 1..Len(p), NEW j \in 1..Len(k)
               PROVE  p[i] # k[j]
    OBVIOUS
  <2>1. CASE i \in 1..n /\ p[i].call = c
    BY <1>3, <2>1
  <2>2. CASE i - n \in 1..Len(s) /\ p[i] = s[i - n]
    BY <2>2 DEF Apart
  <2> QED BY <1>2, <2>1, <2>2
<1> QED BY <1>4, <1>5, <1>6 DEF Apart, p

(* One error fewer on a stack, and the stacks exchanged.                    *)
LEMMA PopApart ==
    ASSUME NEW s \in Seq(Error), NEW k \in Seq(Error), Apart(s, k), s # <<>>,
           NEW n \in Int, Until(s, n)
    PROVE  /\ Tail(s) \in Seq(Error) /\ Len(Tail(s)) = Len(s) - 1
           /\ Len(s) > 0
           /\ Apart(Tail(s), k) /\ Until(Tail(s), n)
<1> DEFINE r == Tail(s)
<1>1. /\ r \in Seq(Error) /\ Len(r) = Len(s) - 1 /\ Len(s) \in Nat /\ Len(s) > 0
      /\ \A i \in 1..Len(r) : r[i] = s[i + 1] /\ i + 1 \in 1..Len(s)
  OBVIOUS
<1> HIDE DEF r
<1>2. Until(r, n)
  BY <1>1 DEF Until
<1>3. \A i, j \in 1..Len(r) : r[i] = r[j] => i = j
  <2> TAKE i, j \in 1..Len(r)
  <2> HAVE r[i] = r[j]
  <2>1. i + 1 = j + 1
    BY <1>1 DEF Apart
  <2> QED BY <1>1, <2>1
<1>4. \A i \in 1..Len(r), j \in 1..Len(k) : r[i] # k[j]
  BY <1>1 DEF Apart
<1> QED BY <1>1, <1>2, <1>3, <1>4 DEF Apart, r

LEMMA UntilLater ==
    ASSUME NEW s \in Seq(Error), NEW m \in Int, NEW n \in Int, m <= n,
           Until(s, m)
    PROVE  Until(s, n)
<1> SUFFICES ASSUME NEW i \in 1..Len(s) PROVE s[i].call <= n
  BY DEF Until
<1>1. s[i] \in Error
  OBVIOUS
<1>2. s[i].call \in Int /\ s[i].call <= m
  BY <1>1, EntryBoundsAssumption DEF Error, Until
<1> QED BY <1>2

-------------------------------------------------------------------------------
(* The last call that may own an error of a stack: the call under way stores *)
(* its errors when it returns, one that returned true never.                *)
LastOwner == IF Idle /\ result # "true" THEN calls ELSE calls - 1

Owned ==
    /\ Apart(status.m_stack, kept.m_stack)
    /\ Until(status.m_stack, LastOwner) /\ Until(kept.m_stack, LastOwner)
    /\ status.m_size = Len(status.m_stack) /\ kept.m_size = Len(kept.m_stack)

(* How far the call under way has come.                                     *)
Progress ==
    /\ \E n \in 0..MaxChain : chain = Chain(calls, n)
    /\ code = 0 => left = 0
    /\ ~Idle => /\ result = "none" /\ calls > 0
                /\ code # kParseErrorTermination => chain = <<>>
                /\ call.stream = "NULL" => code = Running

Inv == TypeOK /\ Owned /\ Progress /\ TrueMeansWhole

LEMMA InitInv == Init => Inv
<1> SUFFICES ASSUME Init PROVE Inv
  OBVIOUS
<1> USE EntryBoundsAssumption
<1>1. <<>> \in Seq(Error) /\ Len(<<>>) = 0
  OBVIOUS
<1>2. TypeOK
  <2>1. /\ NoError.m_code = 0 /\ NoError.m_stack = <<>> /\ NoError.m_size = 0
        /\ status = NoError /\ kept = NoError
    BY DEF Init, NoError, ParseStatus
  <2>2. file \in BOOLEAN /\ newline \in BOOLEAN /\ call \in Call \cup {NoCall}
    BY Zenon DEF Init
  <2>3. /\ left \in 0..MaxTokens /\ calls \in 0..MaxCalls
        /\ result \in {"none", "true", "false", "text"}
        /\ code \in {0, SyntaxError, kParseErrorTermination, Running}
    BY DEF Init
  <2>4. chain \in Seq(Error)
    BY <1>1 DEF Init
  <2>5. \A s \in {status, kept} :
            /\ s.m_code \in {0, SyntaxError, kParseErrorTermination}
            /\ s.m_stack \in Seq(Error)
            /\ s.m_size \in Nat
    <3> TAKE s \in {status, kept}
    <3>1. s.m_code = 0 /\ s.m_stack = <<>> /\ s.m_size = 0
      BY <2>1
    <3> QED BY <1>1, <3>1
  <2> QED BY <2>2, <2>3, <2>4, <2>5, Zenon DEF TypeOK
<1>3. Owned
  BY <1>1 DEF Init, Owned, Apart, Until, NoError, ParseStatus
<1>4. chain = Chain(calls, 0)
  BY DEF Init, Chain
<1>5. Progress
  BY <1>4 DEF Init, Progress, Idle, Running
<1>6. TrueMeansWhole
  BY DEF Init, TrueMeansWhole
<1> QED BY <1>2, <1>3, <1>5, <1>6 DEF Inv

(* Between calls, and while a call is under way, only Pop, Swap and Return  *)
(* touch the stacks.                                                        *)
LEMMA StepInv == Inv /\ [Next]_vars => Inv'
<1> SUFFICES ASSUME Inv, [Next]_vars PROVE Inv'
  OBVIOUS
<1> USE EntryBoundsAssumption
<1>t. /\ status.m_stack \in Seq(Error) /\ kept.m_stack \in Seq(Error)
      /\ calls \in Nat /\ calls \in 0..MaxCalls /\ LastOwner \in Int
      /\ MaxCalls \in Nat /\ MaxChain \in Nat /\ MaxTokens \in Nat
  BY DEF Inv, TypeOK, LastOwner
<1>n. /\ NoCall \notin Call /\ call \in Call \cup {NoCall}
      /\ (~Idle) <=> call \in Call
      /\ Running # kParseErrorTermination /\ Running # 0
      /\ kParseErrorTermination # 0 /\ SyntaxError # 0
      /\ SyntaxError # kParseErrorTermination /\ SyntaxError # Running
      /\ Running # kParseErrorTermination
  BY NoCallAssumption DEF Inv, TypeOK, Idle, Running, SyntaxError,
     kParseErrorTermination
(* The steps that leave both stacks alone.                                  *)
<1>o. ASSUME UNCHANGED <<status, kept>>, LastOwner' \in Int,
             LastOwner <= LastOwner'
      PROVE  Owned'
  <2>1. Until(status.m_stack, LastOwner') /\ Until(kept.m_stack, LastOwner')
    BY <1>t, <1>o, UntilLater DEF Inv, Owned
  <2> QED BY <1>o, <2>1 DEF Inv, Owned
<1>1. CASE Begin
  <2>1. PICK c \in Call :
            /\ call' = c
            /\ \E n \in 1..MaxTokens :
                   left' = n /\ file' = (c.via = "name" /\ c.stream = "open")
    BY <1>1 DEF Begin
  <2>2. /\ Idle /\ ~Idle' /\ calls' = calls + 1 /\ calls' \in 0..MaxCalls
        /\ code' = Running /\ chain' = <<>> /\ result' = "none"
        /\ newline' = FALSE /\ file' \in BOOLEAN /\ left' \in 0..MaxTokens
        /\ UNCHANGED <<status, kept>>
    BY <1>1, <1>t, <1>n, <2>1 DEF Begin, Idle, programVars
  <2>3. TypeOK'
    <3>1. <<>> \in Seq(Error)
      OBVIOUS
    <3> QED BY <2>1, <2>2, <3>1 DEF Inv, TypeOK
  <2>4. Owned'
    BY <1>o, <1>t, <2>2 DEF LastOwner
  <2>5. Progress'
    <3>1. chain' = Chain(calls', 0)
      BY <2>2 DEF Chain
    <3> QED BY <1>n, <1>t, <2>2, <3>1 DEF Progress
  <2> QED BY <2>2, <2>3, <2>4, <2>5 DEF Inv, TrueMeansWhole
<1>2. CASE Pop
  <2>1. /\ status.m_stack # <<>> /\ status' = Popped(status)
        /\ status'.m_code = status.m_code
        /\ status'.m_stack = Tail(status.m_stack)
        /\ status'.m_size = status.m_size - 1
        /\ UNCHANGED <<call, file, left, code, chain, kept, result, newline, calls>>
    BY <1>2 DEF Pop, Popped, ParseStatus
  <2>2. /\ Tail(status.m_stack) \in Seq(Error)
        /\ Len(Tail(status.m_stack)) = Len(status.m_stack) - 1
        /\ Len(status.m_stack) > 0
        /\ Apart(Tail(status.m_stack), kept.m_stack)
        /\ Until(Tail(status.m_stack), LastOwner)
    BY <1>t, <2>1, PopApart DEF Inv, Owned
  <2>3. LastOwner' = LastOwner
    BY <2>1 DEF LastOwner, Idle
  <2>4. Owned'
    BY <2>1, <2>2, <2>3 DEF Inv, Owned
  <2>5. status'.m_size \in Nat
    BY <2>1, <2>2 DEF Inv, Owned
  <2>6. TypeOK'
    BY <2>1, <2>2, <2>5 DEF Inv, TypeOK
  <2> QED BY <2>1, <2>4, <2>6 DEF Inv, Progress, TrueMeansWhole, Idle
<1>3. CASE Swap
  <2>1. /\ status' = kept /\ kept' = status
        /\ UNCHANGED <<call, file, left, code, chain, result, newline, calls>>
    BY <1>3 DEF Swap, Swapped
  <2>2. LastOwner' = LastOwner
    BY <2>1 DEF LastOwner, Idle
  <2>3. Owned'
    <3>1. Apart(kept.m_stack, status.m_stack)
      BY DEF Inv, Owned, Apart
    <3> QED BY <2>1, <2>2, <3>1 DEF Inv, Owned
  <2>4. TypeOK'
    BY <2>1 DEF Inv, TypeOK
  <2> QED BY <2>1, <2>3, <2>4 DEF Inv, Progress, TrueMeansWhole, Idle
<1>4. CASE ReturnAtOnce
  <2>1. /\ ~Idle /\ call.stream = "NULL" /\ Idle' /\ result' = "false"
        /\ file' = FALSE /\ call' = NoCall
        /\ UNCHANGED <<left, code, chain, status, kept, newline, calls>>
    BY <1>4 DEF ReturnAtOnce, NoStream, CloseGuarded, Idle, programVars
  <2>2. Owned'
    BY <1>o, <1>t, <2>1 DEF LastOwner
  <2>3. TypeOK'
    BY <2>1 DEF Inv, TypeOK
  <2>4. code = Running
    BY <2>1 DEF Inv, Progress
  <2> QED BY <1>n, <2>1, <2>2, <2>3, <2>4 DEF Inv, Progress, TrueMeansWhole
<1>5. CASE Move \/ Malformed \/ Complete
  <2>1. /\ ~Idle /\ call.stream = "open" /\ code = Running
        /\ UNCHANGED <<call, file, chain, status, kept, result, newline, calls>>
        /\ \/ left > 0 /\ left' = left - 1 /\ code' = code
           \/ left' = left /\ code' = SyntaxError
           \/ left = 0 /\ left' = left /\ code' = 0
    BY <1>5 DEF Move, Malformed, Complete, Moving, programVars
  <2>2. ~Idle' /\ left' \in 0..MaxTokens /\ (code' = 0 => left' = 0)
    BY <1>t, <1>n, <2>1 DEF Inv, TypeOK, Idle
  <2>3. Owned'
    BY <1>o, <1>t, <2>1, <2>2 DEF LastOwner
  <2>4. code' \in {0, SyntaxError, Running}
    BY <2>1
  <2>5. TypeOK'
    BY <2>1, <2>2, <2>4 DEF Inv, TypeOK
  <2>6. Progress'
    BY <1>n, <2>1, <2>2, <2>4 DEF Inv, Progress
  <2> QED BY <2>2, <2>3, <2>5, <2>6 DEF Inv, TrueMeansWhole
<1>6. CASE Refuse
  <2>1. PICK n \in 0..MaxChain :
            chain' = [i \in 1..n |-> [call |-> calls, level |-> i]]
    BY <1>6 DEF Refuse
  <2>2. /\ ~Idle /\ ~Idle' /\ call.stream = "open"
        /\ code' = kParseErrorTermination
        /\ UNCHANGED <<call, file, left, status, kept, result, newline, calls>>
    BY <1>6 DEF Refuse, Moving, programVars, Idle
  <2>3. chain' = Chain(calls', n)
    BY <2>1, <2>2 DEF Chain
  <2>4. calls \in 1..MaxCalls /\ chain' \in Seq(Error)
    <3>1. calls \in 1..MaxCalls
      BY <1>t, <2>2 DEF Inv, Progress
    <3>2. Chain(calls, n) \in Seq(Error)
      <4>1. n \in Nat /\ n <= MaxChain /\ <<>> \in Seq(Error)
        BY <1>t
      <4>2. ChainOnTop(calls, n, <<>>)
        BY <3>1, <4>1, PushedErrors
      <4> QED BY <4>2 DEF ChainOnTop
    <3> QED BY <2>2, <2>3, <3>1, <3>2
  <2>5. Owned'
    BY <1>o, <1>t, <2>2 DEF LastOwner
  <2>6. TypeOK'
    BY <2>2, <2>4 DEF Inv, TypeOK
  <2>7. Progress'
    BY <1>n, <2>2, <2>3 DEF Inv, Progress
  <2> QED BY <2>2, <2>5, <2>6, <2>7 DEF Inv, TrueMeansWhole
<1>7. CASE Return
  <2>1. /\ ~Idle /\ Idle' /\ call' = NoCall /\ code # Running
        /\ status' = IF Reports THEN Reported ELSE status
        /\ UNCHANGED <<left, code, chain, kept, calls>>
    BY <1>7 DEF Return, Idle
  <2>2. /\ result' \in {"true", "false", "text"}
        /\ result' = "true" => code = 0
        /\ result' = "false" => code # 0
    BY <1>7 DEF Return, Success
  <2>3. file' \in BOOLEAN /\ newline' \in BOOLEAN
    BY <1>7, Zenon DEF Return, CloseGuarded
  <2>4. PICK n \in 0..MaxChain : chain = Chain(calls, n)
    BY DEF Inv, Progress
  <2>5. /\ calls \in 1..MaxCalls /\ calls > 0
        /\ LastOwner = calls - 1 /\ LastOwner' \in {calls, calls - 1}
        /\ code = 0 => chain = <<>> /\ left = 0
    BY <1>n, <1>t, <2>1 DEF Inv, Progress, LastOwner
  <2>6. CASE Reports /\ code # 0
    <3>1. /\ status'.m_stack = Pushed(chain, status.m_stack)
          /\ status'.m_size = status.m_size + Len(chain)
          /\ status'.m_code = code
      BY <2>1, <2>6 DEF Reported, ParseStatus
    <3>2. /\ Len(chain) = n
          /\ Pushed(chain, status.m_stack) \in Seq(Error)
          /\ Len(Pushed(chain, status.m_stack)) = n + Len(status.m_stack)
      <4>1. n \in Nat /\ n <= MaxChain
        BY <1>t
      <4>2. ChainOnTop(calls, n, status.m_stack)
        BY <1>t, <2>5, <4>1, PushedErrors
      <4> QED BY <2>4, <4>2 DEF ChainOnTop
    <3>3. /\ Apart(Pushed(chain, status.m_stack), kept.m_stack)
          /\ Until(Pushed(chain, status.m_stack), calls)
      <4>1. /\ Apart(status.m_stack, kept.m_stack)
            /\ Until(status.m_stack, calls - 1) /\ Until(kept.m_stack, calls - 1)
        BY <2>5 DEF Inv, Owned
      <4> QED BY <1>t, <2>4, <2>5, <4>1, PushedApart
    <3>4. LastOwner' = calls
      BY <2>1, <2>2, <2>6 DEF LastOwner
    <3>5. Until(kept.m_stack, calls)
      <4>1. Until(kept.m_stack, calls - 1) /\ calls - 1 <= calls
        BY <1>t, <2>5 DEF Inv, Owned
      <4> QED BY <1>t, <4>1, UntilLater
    <3>6. /\ Len(status.m_stack) \in Nat
          /\ status.m_size = Len(status.m_stack) /\ kept.m_size = Len(kept.m_stack)
      BY <1>t DEF Inv, Owned
    <3>7. Owned'
      BY <2>1, <3>1, <3>2, <3>3, <3>4, <3>5, <3>6 DEF Owned
    <3>8. TypeOK'
      <4>1. status'.m_size \in Nat
        BY <3>1, <3>2, <3>6
      <4> QED BY <2>1, <2>2, <2>3, <3>1, <3>2, <4>1 DEF Inv, TypeOK
    <3>9. Progress' /\ TrueMeansWhole'
      BY <2>1, <2>2, <2>6 DEF Inv, Progress, TrueMeansWhole
    <3> QED BY <3>7, <3>8, <3>9 DEF Inv
  <2>7. CASE ~(Reports /\ code # 0)
    <3>1. status'.m_stack = status.m_stack /\ status'.m_size = status.m_size
          /\ status'.m_code \in {0, SyntaxError, kParseErrorTermination}
      <4>1. CASE ~Reports
        BY <2>1, <4>1 DEF Inv, TypeOK
      <4>2. CASE Reports
        <5>1. /\ code = 0 /\ chain = <<>>
              /\ status'.m_stack = Pushed(chain, status.m_stack)
              /\ status'.m_size = status.m_size + Len(chain)
              /\ status'.m_code = code
          BY <2>1, <2>5, <2>7, <4>2 DEF Reported, ParseStatus
        <5>2. Reverse(<<>>) = <<>> /\ <<>> \o status.m_stack = status.m_stack
          BY <1>t DEF Reverse
        <5>3. status.m_size \in Nat
          BY DEF Inv, TypeOK
        <5>4. Pushed(<<>>, status.m_stack) = status.m_stack
          BY <5>2 DEF Pushed
        <5>5. status.m_size + Len(<<>>) = status.m_size
          BY <5>3
        <5>6. code \in {0, SyntaxError, kParseErrorTermination}
          BY <5>1
        <5> QED BY <5>1, <5>4, <5>5, <5>6
      <4> QED BY <4>1, <4>2
    <3>2. Owned'
      <4>1. /\ Until(status.m_stack, LastOwner') /\ Until(kept.m_stack, LastOwner')
        BY <1>t, <2>5, UntilLater DEF Inv, Owned
      <4> QED BY <2>1, <3>1, <4>1 DEF Inv, Owned
    <3>3. TypeOK'
      BY <2>1, <2>2, <2>3, <3>1 DEF Inv, TypeOK
    <3>4. Progress' /\ TrueMeansWhole'
      BY <2>1, <2>2, <2>5 DEF Inv, Progress, TrueMeansWhole
    <3> QED BY <3>2, <3>3, <3>4 DEF Inv
  <2> QED BY <2>6, <2>7
<1>8. CASE UNCHANGED vars
  <2>1. UNCHANGED <<call, file, left, code, chain, status, kept, result, newline,
                    calls>>
    BY <1>8 DEF vars, programVars
  <2> QED BY <2>1 DEF Inv, TypeOK, Owned, LastOwner, Progress, TrueMeansWhole, Idle
<1> QED BY <1>1, <1>2, <1>3, <1>4, <1>5, <1>6, <1>7, <1>8 DEF Next, Work

-------------------------------------------------------------------------------
LEMMA Invariance == Spec => []Inv
BY InitInv, StepInv, PTL DEF Spec

(* No error is in two stacks or twice in one, each stack knows how many it  *)
(* has, a call that returns true has moved the whole value and leaves no    *)
(* error of its own behind (ErrorStack, read_json, write_value).            *)
THEOREM OwnershipIsUnique == Spec => []ErrorsOwnedOnce
<1>1. Inv => ErrorsOwnedOnce
  <2> SUFFICES ASSUME Inv PROVE ErrorsOwnedOnce
    OBVIOUS
  <2> DEFINE a == status.m_stack
             b == kept.m_stack
  <2>1. /\ TypeOK /\ TrueMeansWhole /\ a \in Seq(Error) /\ b \in Seq(Error)
        /\ calls \in Nat
    BY DEF Inv, TypeOK
  <2>2. IsInjective(a \o b)
    BY <2>1, ApartIsInjective DEF Inv, Owned
  <2>3. \A s \in {status, kept} : s.m_size = Len(s.m_stack)
    BY DEF Inv, Owned
  <2>4. ASSUME result = "true", NEW i \in DOMAIN (a \o b)
        PROVE  (a \o b)[i].call # calls
    <3>1. LastOwner = calls - 1
      BY <2>4 DEF Inv, Progress, LastOwner
    <3>2. /\ \A j \in 1..Len(a) : a[j].call <= calls - 1 /\ a[j] \in Error
          /\ \A j \in 1..Len(b) : b[j].call <= calls - 1 /\ b[j] \in Error
      BY <2>1, <3>1 DEF Inv, Owned, Until
    <3>3. \/ i \in 1..Len(a) /\ (a \o b)[i] = a[i]
          \/ i - Len(a) \in 1..Len(b) /\ (a \o b)[i] = b[i - Len(a)]
      BY <2>1, <2>4, PlaceInConcatenation
    <3>4. \A e \in Error : e.call \in Nat
      BY EntryBoundsAssumption DEF Error
    <3> HIDE DEF a, b
    <3> QED BY <2>1, <3>2, <3>3, <3>4
  <2> QED BY <2>1, <2>2, <2>3, <2>4 DEF ErrorsOwnedOnce
<1> QED BY <1>1, Invariance, PTL

(* What any call leaves in the status: the errors of its own on top, the    *)
(* cause first and the root last, and below them what it had; nothing new   *)
(* where it was not given the status or found no file (set_result,          *)
(* reap_error, ErrorStack::push, parse_json_file).                          *)
THEOREM TracebacksAreOfThisCall == Spec => TracebackOfThisCall
<1> DEFINE own == IF call.status /\ code = kParseErrorTermination
                  THEN Len(chain) ELSE 0
           told == call.status /\ call.stream = "open"
           OnTop == /\ \A i \in 1..own : status'.m_stack[i] =
                           [call |-> calls, level |-> own + 1 - i]
                    /\ SubSeq(status'.m_stack, own + 1, Len(status'.m_stack))
                           = status.m_stack
           Told == /\ ~told => status' = status
                   /\ told /\ (result' = "false" \/ call.via # "value") =>
                          status'.m_code = code
           A == ~Idle /\ Idle' => OnTop /\ Told
<1>1. Inv /\ [Next]_vars => [A]_vars
  <2> SUFFICES ASSUME Inv, Next, ~Idle, Idle' PROVE OnTop /\ Told
    BY Zenon
  <2>1. Return \/ ReturnAtOnce
    BY DEF Next, Work, Begin, Pop, Swap, Move, Refuse, Malformed, Complete, Idle
  <2>2. PICK n \in 0..MaxChain : chain = Chain(calls, n)
    BY DEF Inv, Progress
  <2>3. /\ calls \in 1..MaxCalls /\ status.m_stack \in Seq(Error)
        /\ call \in Call
        /\ code # kParseErrorTermination => chain = <<>>
        /\ call.stream = "NULL" => code = Running
    BY EntryBoundsAssumption DEF Inv, Progress, TypeOK, Idle
  <2> DEFINE s == status.m_stack
             p == status'.m_stack
  <2>4. /\ Len(chain) = n /\ n \in Nat
        /\ ChainOnTop(calls, n, s)
    <3>1. n \in Nat /\ n <= MaxChain
      BY EntryBoundsAssumption
    <3>2. ChainOnTop(calls, n, s)
      BY <2>3, <3>1, PushedErrors
    <3> QED BY <2>2, <3>1, <3>2 DEF ChainOnTop
  <2>5. ASSUME Reports, Return
        PROVE  OnTop /\ status'.m_code = code
    <3>1. p = Pushed(chain, s) /\ status'.m_code = code
      BY <2>5 DEF Return, Reported, ParseStatus
    <3>2. own = n
      <4>1. CASE code = kParseErrorTermination
        BY <2>4, <2>5, <4>1 DEF Reports
      <4>2. CASE code # kParseErrorTermination
        BY <2>3, <2>4, <4>2
      <4> QED BY <4>1, <4>2
    <3>3. /\ p \in Seq(Error) /\ Len(p) = n + Len(s)
          /\ \A i \in 1..n : p[i] = [call |-> calls, level |-> n + 1 - i]
          /\ \A i \in 1..Len(s) : p[n + i] = s[i]
      BY <2>2, <2>4, <3>1 DEF ChainOnTop
    <3>4. SubSeq(p, n + 1, Len(p)) = s
      <4> HIDE DEF p, s
      <4>1. s \in Seq(Error) /\ Len(s) \in Nat /\ n \in Nat
        BY <2>3, <2>4 DEF s
      <4>2. /\ SubSeq(p, n + 1, Len(p)) \in Seq(Error)
            /\ Len(SubSeq(p, n + 1, Len(p))) = Len(s)
        BY <3>3, <4>1
      <4>3. \A i \in 1..Len(s) : SubSeq(p, n + 1, Len(p))[i] = s[i]
        <5> TAKE i \in 1..Len(s)
        <5>1. /\ SubSeq(p, n + 1, Len(p))[i] = p[(n + 1) + i - 1]
              /\ (n + 1) + i - 1 = n + i
          BY <3>3, <4>1
        <5> QED BY <3>3, <5>1
      <4>4. Len(s) = Len(SubSeq(p, n + 1, Len(p)))
        BY <4>2
      <4> QED BY <4>1, <4>2, <4>3, <4>4, SameSequence
    <3> HIDE DEF own
    <3> QED BY <3>1, <3>2, <3>3, <3>4
  <2>6. ASSUME status' = status, own = 0
        PROVE  OnTop
    <3>1. SubSeq(s, 1, Len(s)) = s
      BY <2>3
    <3> HIDE DEF own
    <3> QED BY <2>6, <3>1
  <2>7. CASE ReturnAtOnce
    <3>1. status' = status /\ call.stream = "NULL"
      BY <2>7 DEF ReturnAtOnce, NoStream, programVars
    <3>2. own = 0
      BY <2>3, <3>1 DEF Running, kParseErrorTermination
    <3>3. OnTop
      BY <2>6, <3>1, <3>2
    <3> QED BY <3>1, <3>3
  <2>8. CASE Return
    <3>1. call.stream = "open"
      BY <2>3, <2>8 DEF Return, Call
    <3>2. CASE Reports
      <4>1. OnTop /\ status'.m_code = code
        BY <2>5, <2>8, <3>2
      <4>2. told
        BY <3>1, <3>2 DEF Reports
      <4> HIDE DEF OnTop
      <4> QED BY <4>1, <4>2
    <3>3. CASE ~Reports
      <4>1. status' = status
        BY <2>8, <3>3 DEF Return
      <4>2. call.status => call.via = "value" /\ code = 0
        BY <3>3 DEF Reports
      <4>3. own = 0
        BY <4>2 DEF kParseErrorTermination
      <4>4. OnTop
        BY <2>6, <4>1, <4>3
      <4>5. call.status => result' # "false"
        BY <2>8, <4>2 DEF Return, Success
      <4> HIDE DEF OnTop
      <4> QED BY <4>1, <4>2, <4>4, <4>5
    <3> QED BY <3>2, <3>3
  <2> QED BY <2>1, <2>7, <2>8
<1> QED BY <1>1, Invariance, PTL DEF Spec, TracebackOfThisCall
===============================================================================
