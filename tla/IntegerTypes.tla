----------------------------- MODULE IntegerTypes -----------------------------
(***************************************************************************)
(* Integers of C++: types, conversions and the range test of IntegerHandler *)
(* (primitive_types.hpp:11-42).  A type is its signedness and half the      *)
(* number of its values.                                                    *)
(***************************************************************************)
EXTENDS Integers

IntegerType == [signed: BOOLEAN, half: Nat \ {0}]

Lowest(t) == IF t.signed THEN -t.half ELSE 0
Highest(t) == IF t.signed THEN t.half - 1 ELSE 2 * t.half - 1
ValuesOf(t) == Lowest(t)..Highest(t)

(* A conversion keeps the value modulo the number of values of the type.    *)
Convert(t, n) == Lowest(t) + ((n - Lowest(t)) % (2 * t.half))

(* std::common_type: of two types of one signedness the wider; of two that  *)
(* differ the unsigned one, unless the signed one is wider.  (The second    *)
(* type is never narrower than int, so that neither is promoted.)           *)
CommonType(s, t) ==
    IF (s.half > t.half) \/ (s.half = t.half /\ ~s.signed) THEN s ELSE t

(* Mutant: both are compared as values of the handler's type.               *)
is_out_of_range_Narrow(this, that, n) ==
    ~ (Convert(this, n) \in ValuesOf(this))

is_out_of_range(this, that, n) ==
    LET C(m) == Convert(CommonType(this, that), m) IN
    IF this.signed = that.signed
    THEN C(Lowest(this)) > C(n) \/ C(Highest(this)) < C(n)
    ELSE IF this.signed
    THEN C(Highest(this)) < C(n)
    ELSE n < 0 \/ C(n) > C(Highest(this))
===============================================================================
