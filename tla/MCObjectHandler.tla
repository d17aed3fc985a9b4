--------------------------- MODULE MCObjectHandler ----------------------------
(* Small instances of ObjectHandler for TLC.                                *)
EXTENDS ObjectHandler, TLC

CONSTANTS a, b, u

TwoMembers == {a, b}
TwoMembersAndUnknown == {a, b, u}
OneMember == {a}

AnyObjectFlags == SUBSET {"AllowDuplicateKey", "DisallowUnknownKey"}
AnyMemberFlags == SUBSET {"Optional", "IgnoreRead"}
NoFlags == {{}}

SymmetricMembers == Permutations(TwoMembers)
===============================================================================
