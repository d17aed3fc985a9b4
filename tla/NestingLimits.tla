---------------------------- MODULE NestingLimits -----------------------------
(***************************************************************************)
(* The limits of GlobalConfig on nesting depth and on the number of leaves, *)
(* and the counters by which an ObjectHandler enforces them while the       *)
(* events of its value pass through it.                                     *)
(***************************************************************************)
EXTENDS JsonReader

CONSTANTS
    Unset,        \* the limit is not set
    DepthLimits,  \* the values MaxDepth may be given
    LeafLimits    \* the values MaxLeaves may be given

ASSUME UnsetAssumption == Unset \notin Nat
ASSUME LimitsAssumption == DepthLimits \subseteq Nat \cup {Unset}
                           /\ LeafLimits \subseteq Nat \cup {Unset}

VARIABLES
    maxDepth, maxLeaves,   \* GlobalConfig, Unset when its flag is off
    jsonDepth,             \* containers open
    lastLeafStat,          \* the last container event was a '['
    totalLeaves,           \* leaves of the containers that have ended
    leavesStack            \* per open container, the containers ended in it

configVars == <<maxDepth, maxLeaves>>
counterVars == <<jsonDepth, lastLeafStat, totalLeaves, leavesStack>>

LimitsTypeOK ==
    /\ maxDepth \in DepthLimits
    /\ maxLeaves \in LeafLimits
    /\ jsonDepth \in Nat
    /\ lastLeafStat \in BOOLEAN
    /\ totalLeaves \in Nat
    /\ leavesStack \in Seq(Nat)

LimitsInit ==
    /\ maxDepth \in DepthLimits
    /\ maxLeaves \in LeafLimits
    /\ jsonDepth = 0
    /\ lastLeafStat = FALSE
    /\ totalLeaves = 0
    /\ leavesStack = <<>>

-------------------------------------------------------------------------------
(* The leaves of a container itself, as the comments of the code define     *)
(* them: the scalar members of an object, or a whole array of scalars.      *)
OwnLeaves(frame) ==
    IF frame.kind = "object" THEN frame.scalars
    ELSE IF frame.scalars > 0 /\ frame.containers = 0 THEN 1 ELSE 0

(* Mutant: the limit is compared before the new container is counted.       *)
TooDeep_Before == maxDepth # Unset /\ jsonDepth > maxDepth

TooDeep == maxDepth # Unset /\ jsonDepth + 1 > maxDepth

(* StartCheckMaxDepthMaxLeaves returns true, or false.                      *)
StartCheck(kind) ==
    /\ ~TooDeep
    /\ jsonDepth' = IF maxDepth = Unset THEN jsonDepth ELSE jsonDepth + 1
    /\ lastLeafStat' = IF maxLeaves = Unset THEN lastLeafStat ELSE kind = "array"
    /\ leavesStack' = IF maxLeaves = Unset THEN leavesStack
                      ELSE Append(leavesStack, 0)
    /\ UNCHANGED totalLeaves

StartCheckFails ==
    /\ TooDeep
    /\ jsonDepth' = 0
    /\ UNCHANGED <<lastLeafStat, totalLeaves, leavesStack>>

(* Mutant: the end of a container is counted without a limit.               *)
DepthAfterEnd_Unconditional == jsonDepth - 1

DepthAfterEnd == IF maxDepth = Unset THEN jsonDepth ELSE jsonDepth - 1

(* The leaves a container adds when it ends: a non-empty array of scalars   *)
(* is one leaf, a member of an object is one unless it is a container.      *)
LeavesAfterEnd(kind, sz) ==
    IF kind = "array"
    THEN IF lastLeafStat /\ sz > 0 THEN totalLeaves + 1 ELSE totalLeaves
    ELSE totalLeaves + sz - Last(leavesStack)

(* Mutant: a text with as many leaves as are allowed is refused.            *)
TooManyLeaves_AtLimit(kind, sz) ==
    maxLeaves # Unset /\ LeavesAfterEnd(kind, sz) >= maxLeaves

TooManyLeaves(kind, sz) ==
    maxLeaves # Unset /\ LeavesAfterEnd(kind, sz) > maxLeaves

(* Mutant: the container around does not learn of the one that ended.       *)
PopLeaves_Unreported(s) == Front(s)

PopLeaves(s) ==
    IF Len(s) = 1 THEN <<>>
    ELSE [Front(s) EXCEPT ![Len(s) - 1] = @ + 1]

(* EndCheckMaxDepthMaxLeaves returns true, or false.                        *)
EndCheck(kind, sz) ==
    /\ ~TooManyLeaves(kind, sz)
    /\ jsonDepth' = DepthAfterEnd
    /\ IF maxLeaves = Unset
       THEN UNCHANGED <<lastLeafStat, totalLeaves, leavesStack>>
       ELSE /\ totalLeaves' = LeavesAfterEnd(kind, sz)
            /\ leavesStack' = PopLeaves(leavesStack)
            /\ lastLeafStat' = FALSE

EndCheckFails(kind, sz) ==
    /\ TooManyLeaves(kind, sz)
    /\ jsonDepth' = DepthAfterEnd
    /\ totalLeaves' = 0
    /\ UNCHANGED <<lastLeafStat, leavesStack>>

(* setMaxDepth, unsetMaxDepthFlag, setMaxLeaves, unsetMaxLeavesFlag: by the *)
(* class's own comment never while a text is being read.                    *)
Configure ==
    /\ maxDepth' \in DepthLimits
    /\ maxLeaves' \in LeafLimits
===============================================================================
