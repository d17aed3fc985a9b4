---------------------------- MODULE ScalarHandlers ----------------------------
(***************************************************************************)
(* The handlers of single values: IntegerHandler and the handlers of        *)
(* nullptr_t, bool, char, double, float, std::string                        *)
(* (primitive_types.hpp) and enums (enum.hpp).  A value is one event; what  *)
(* makes them hard is the arithmetic of the casts.  Widths are parameters,  *)
(* so that all values of small types can be tried; floating numbers are     *)
(* counted in halves and have a mantissa but no largest exponent.  int is   *)
(* narrower than std::int64_t.                                              *)
(***************************************************************************)
EXTENDS IntegerTypes, FiniteSetsExt, Sequences

CONSTANTS
    HalfInt, HalfLong,          \* half the values of int and of std::int64_t
    DoubleDigits, FloatDigits,  \* bits of the mantissas
    Names, Enumerators,         \* texts; values of an enum type
    Mappings,                   \* sequences of <<name, enumerator>>
    Nothing                     \* a value that is none of the above

ASSUME WidthAssumption ==
    /\ HalfInt \in Nat \ {0} /\ HalfLong \in Nat \ {0}
    /\ 2 * HalfInt <= HalfLong
    /\ DoubleDigits \in Nat \ {0} /\ FloatDigits \in Nat \ {0}

(* Integers are binary numbers; Handler<double> relies on it that a double  *)
(* has every int (primitive_types.hpp:245-257).                             *)
ASSUME BinaryAssumption ==
    /\ \A half \in {HalfInt, HalfLong} : \E i \in 0..half : half = 2 ^ i
    /\ 2 * HalfInt <= 2 ^ DoubleDigits

ASSUME MappingsAssumption == Mappings \subseteq Seq(Names \X Enumerators)

VARIABLES
    type,       \* the handler's class
    mapping,    \* what get_mapping returns, for an enum
    m_value, parsed, the_error,
    event       \* history: the event received last

vars == <<type, mapping, m_value, parsed, the_error, event>>

IntegerOf ==
    [Int   |-> [signed |-> TRUE,  half |-> HalfInt],
     Uint  |-> [signed |-> FALSE, half |-> HalfInt],
     Int64 |-> [signed |-> TRUE,  half |-> HalfLong],
     Uint64 |-> [signed |-> FALSE, half |-> HalfLong]]

IntegerEvents == DOMAIN IntegerOf
Digits == [double |-> DoubleDigits, float |-> FloatDigits]
Classes == IntegerEvents \cup DOMAIN Digits
               \cup {"nullptr", "bool", "char", "string", "enum"}
Errors == {"none", "TYPE_MISMATCH", "NUMBER_OUT_OF_RANGE", "INVALID_ENUM"}

(* Numbers of halves that a test of every edge needs: bound.                *)
Halves == (-4 * HalfLong - 4)..(4 * HalfLong + 4)

-------------------------------------------------------------------------------
Magnitude(h) == IF h < 0 THEN -h ELSE h

(* h halves rounded to a mantissa of that many digits, ties to even.        *)
Rounded(digits, h) ==
    LET e    == CHOOSE x \in 0..Magnitude(h) :
                    /\ Magnitude(h) < 2 ^ (digits + x)
                    /\ x > 0 => Magnitude(h) >= 2 ^ (digits + x - 1)
        unit == 2 ^ e
        q    == Magnitude(h) \div unit
        r    == 2 * (Magnitude(h) % unit)
        up   == r > unit \/ (r = unit /\ q % 2 = 1)
        m    == unit * (IF up THEN q + 1 ELSE q)
    IN IF h < 0 THEN -m ELSE m

Truncated(h) == IF h < 0 THEN -((-h) \div 2) ELSE h \div 2

(* static_cast of h halves to an integer type: undefined when the value     *)
(* does not fit; builds wrap, saturate or give the lowest value.            *)
CastTo(t, h) ==
    LET n == Truncated(h) IN
    IF n \in ValuesOf(t) THEN {n}
    ELSE {Convert(t, n), Lowest(t), IF n < 0 THEN Lowest(t) ELSE Highest(t)}

Outcome(value, error) == [value |-> value, error |-> error]

(* IntegerHandler::receive.                                                 *)
ReceiveInteger(this, that, n) ==
    IF is_out_of_range(this, that, n) THEN {Outcome(m_value, "NUMBER_OUT_OF_RANGE")}
    ELSE {Outcome(Convert(this, n), "none")}

(* Mutant: is_out_of_range of a double compares after truncation.           *)
DoubleInRange_Truncated(h, n) == n = Truncated(h)

DoubleInRange(h, n) == Rounded(DoubleDigits, 2 * n) = h

ReceiveDouble(this, h) ==
    {IF DoubleInRange(h, n) THEN Outcome(n, "none")
     ELSE Outcome(m_value, "NUMBER_OUT_OF_RANGE") : n \in CastTo(this, h)}

LosesNothing(n, back) == back = n

(* Handler<double> casts back only what is as wide as 64 bits, Handler<float>*)
(* every integer; both have stored the value by then.                       *)
CastsBack(kind) == type = "float" \/ kind \in {"Int64", "Uint64"}

Precision == Digits[type]

StoreInteger(kind, n) ==
    LET h == Rounded(Precision, 2 * n) IN
    IF ~CastsBack(kind) THEN {Outcome(h, "none")}
    ELSE {IF LosesNothing(n, back) THEN Outcome(h, "none")
          ELSE Outcome(h, "NUMBER_OUT_OF_RANGE") : back \in CastTo(IntegerOf[kind], h)}

(* The first mapping of a name, 0 if there is none.                         *)
Found(name) ==
    LET hits == {i \in DOMAIN mapping : mapping[i][1] = name} IN
    IF hits = {} THEN 0 ELSE Min(hits)

LookUp(name) ==
    IF Found(name) = 0 THEN {Outcome(m_value, "INVALID_ENUM")}
    ELSE {Outcome(mapping[Found(name)][2], "none")}

(* What the class's method for the event may do; a method it does not have  *)
(* is BaseHandler's, which reports a mismatch.                              *)
Outcomes(e) ==
    CASE type \in IntegerEvents /\ e.kind \in IntegerEvents ->
            ReceiveInteger(IntegerOf[type], IntegerOf[e.kind], e.data)
      [] type \in IntegerEvents /\ e.kind = "Double" ->
            ReceiveDouble(IntegerOf[type], e.data)
      [] type \in DOMAIN Digits /\ e.kind \in IntegerEvents ->
            StoreInteger(e.kind, e.data)
      [] type \in DOMAIN Digits /\ e.kind = "Double" ->
            {Outcome(Rounded(Precision, e.data), "none")}
      [] type \in {"bool", "char"} /\ e.kind = "Bool" -> {Outcome(e.data, "none")}
      [] type = "nullptr" /\ e.kind = "Null" -> {Outcome(m_value, "none")}
      [] type = "string" /\ e.kind = "String" -> {Outcome(e.data, "none")}
      [] type = "enum" /\ e.kind = "String" -> LookUp(e.data)
      [] OTHER -> {Outcome(m_value, "TYPE_MISMATCH")}

Event(kind, data) == [kind |-> kind, data |-> data]

(* Mutant: an unsigned value is written as a signed one.                    *)
WrittenInteger_Signed(value) ==
    Event("Int64", Convert(IntegerOf["Int64"], value))

WrittenInteger(value) == Event(type, value)

(* What write of the class sends out for a value; an enumerator without a   *)
(* name is not written.                                                     *)
Written(value) ==
    CASE type \in IntegerEvents -> {WrittenInteger(value)}
      [] type \in DOMAIN Digits -> {Event("Double", value)}
      [] type \in {"bool", "char"} -> {Event("Bool", value)}
      [] type = "nullptr" -> {Event("Null", Nothing)}
      [] type = "string" -> {Event("String", value)}
      [] type = "enum" ->
            LET hits == {i \in DOMAIN mapping : mapping[i][2] = value} IN
            IF hits = {} THEN {} ELSE {Event("String", mapping[Min(hits)][1])}

Init ==
    /\ type \in Classes
    /\ mapping \in IF type = "enum" THEN Mappings ELSE {<<>>}
    /\ m_value = Nothing
    /\ parsed = FALSE /\ the_error = "none"
    /\ event = Event("none", Nothing)

Receive(e) ==
    /\ event.kind = "none"
    /\ event' = e
    /\ \E o \in Outcomes(e) :
           /\ m_value' = o.value
           /\ the_error' = o.error
           /\ parsed' = (o.error = "none")
    /\ UNCHANGED <<type, mapping>>

Integer == \E kind \in IntegerEvents : \E n \in ValuesOf(IntegerOf[kind]) :
               Receive(Event(kind, n))
Double == \E h \in Halves : Rounded(DoubleDigits, h) = h /\ Receive(Event("Double", h))
Bool == \E b \in {0, 1} : Receive(Event("Bool", b))
Null == Receive(Event("Null", Nothing))
String == \E name \in Names : Receive(Event("String", name))

PrepareForReuse ==
    /\ parsed' = FALSE /\ the_error' = "none"
    /\ event' = Event("none", Nothing)
    /\ UNCHANGED <<type, mapping, m_value>>

Next == Integer \/ Double \/ Bool \/ Null \/ String \/ PrepareForReuse

Spec == Init /\ [][Next]_vars

-------------------------------------------------------------------------------
TypeOK ==
    /\ type \in Classes
    /\ m_value # Nothing =>
           CASE type \in IntegerEvents -> m_value \in ValuesOf(IntegerOf[type])
             [] type \in DOMAIN Digits -> Rounded(Digits[type], m_value) = m_value
             [] type \in {"bool", "char"} -> m_value \in {0, 1}
             [] type = "string" -> m_value \in Names
             [] OTHER -> m_value \in Enumerators
    /\ parsed \in BOOLEAN /\ the_error \in Errors

(* An integer given as an integer is taken exactly when the type has it,    *)
(* for every pair of types, and is stored unchanged (is_out_of_range).      *)
IntegersExact ==
    type \in IntegerEvents /\ event.kind \in IntegerEvents =>
        /\ parsed <=> event.data \in ValuesOf(IntegerOf[type])
        /\ parsed => m_value = event.data

(* A double that an integer handler takes has no fraction, and is the       *)
(* integer stored or, where the cast saturates, rounds to it (README.md:169 *)
(* promises "integer out of range", without that exception); every double   *)
(* that is an integer of the type is taken.                                 *)
DoublesIntegral ==
    type \in IntegerEvents /\ event.kind = "Double" =>
        /\ parsed => /\ event.data % 2 = 0
                     /\ Rounded(DoubleDigits, 2 * m_value) = event.data
        /\ event.data % 2 = 0 /\ event.data \div 2 \in ValuesOf(IntegerOf[type])
               => parsed

(* A floating handler that takes an integer has it exactly, unless the cast *)
(* back saturates at the upper end of the integer's type.  Of a double it   *)
(* keeps what fits and reports no "floating number precision loss".         *)
IntegersKeptByFloats ==
    type \in DOMAIN Digits /\ event.kind \in IntegerEvents /\ parsed =>
        m_value = 2 * event.data \/ event.data = Highest(IntegerOf[event.kind])

(* No number is taken for another one in passing between integers and       *)
(* floating numbers, either way, at any edge of the types.                  *)
NumbersKept == TypeOK /\ DoublesIntegral /\ IntegersKeptByFloats

(* What write sends out for a value that was read, the same handler reads   *)
(* back unchanged; for an enum, if no name is mapped twice.                 *)
RoundTrip ==
    parsed /\ (\A i, j \in DOMAIN mapping : mapping[i][1] = mapping[j][1] => i = j)
        => \E e \in Written(m_value) : Outcome(m_value, "none") \in Outcomes(e)
===============================================================================
