---------------------------- MODULE ObjectHandler -----------------------------
(***************************************************************************)
(* ObjectHandler (basic.hpp:294, staticjson.cpp:305-624): the handler of a  *)
(* user's class.  It follows one JSON object, looks its keys up among the   *)
(* registered members, forwards every other event to the handler of the     *)
(* member read last, and decides at the final '}' whether the object is     *)
(* accepted.  The members' handlers are parts that obey HandlerContract.    *)
(***************************************************************************)
EXTENDS NestingLimits, HandlerContract, FiniteSets

CONSTANTS
    Members,        \* the keys of internals
    ObjectFlags,    \* the values of flags (set_flags) that are considered
    MemberFlags,    \* the values of a property's flags
    MaxReuses       \* bound: texts read by one handler, after the first

ASSUME MembersAssumption == Members \subseteq Keys
ASSUME FlagsAssumption ==
    /\ ObjectFlags \subseteq SUBSET {"AllowDuplicateKey", "DisallowUnknownKey"}
    /\ MemberFlags \subseteq SUBSET {"Optional", "IgnoreRead"}
ASSUME MaxReusesAssumption == MaxReuses \in Nat

VARIABLES
    flags,          \* ObjectHandler::flags
    memberFlags,    \* FlaggedHandler::flags of every member
    handler,        \* FlaggedHandler::handler of every member
    current,        \* the member whose handler gets the events, or NoKey
    current_name,
    depth,          \* objects open
    the_error, parsed,
    again,          \* the text repeats a value, the handler not prepared
    \* history: the kinds of the values accepted for each key, the errors
    \* reaped, the texts begun after the first, whether one was broken off,
    \* the leaves (as the comments of the code define them) that ended
    given, report, uses, brokenOff, counted

objectVars == <<flags, memberFlags>>
memberVars == <<handler, current, current_name>>
historyVars == <<again, given, uses, brokenOff, counted>>
vars == <<readerVars, configVars, counterVars, objectVars, memberVars,
          depth, the_error, parsed, report, historyVars>>

ErrorTypes == {"TYPE_MISMATCH", "DUPLICATE_KEYS", "UNKNOWN_FIELD",
               "MISSING_REQUIRED", "OBJECT_MEMBER", "CORRUPTED_DOM",
               "TOO_DEEP_RECURSION", "TOO_MANY_LEAVES"}

Error(type, names) == [type |-> type, names |-> names]
NoError == Error("none", {})

TypeOK ==
    /\ ReaderTypeOK
    /\ LimitsTypeOK
    /\ flags \in ObjectFlags
    /\ memberFlags \in [Members -> MemberFlags]
    /\ handler \in [Members -> Part]
    /\ current \in Members \cup {NoKey}
    /\ current_name \in Keys \cup {NoKey}
    /\ depth \in Nat
    /\ the_error \in [type: ErrorTypes, names: SUBSET (Keys \cup {NoKey})]
                        \cup {NoError}
    /\ parsed \in BOOLEAN /\ again \in BOOLEAN
    /\ report \in Seq(ErrorTypes \cup {"part"})
    /\ given \in [Keys -> Seq(Kinds \cup {"scalar", "earlier"})]
    /\ uses \in Nat
    /\ brokenOff \in BOOLEAN
    /\ counted \in Nat

Init ==
    /\ ReaderInit
    /\ LimitsInit
    /\ flags \in ObjectFlags
    /\ memberFlags \in [Members -> MemberFlags]
    /\ handler = [m \in Members |-> Fresh]
    /\ current = NoKey
    /\ current_name = NoKey
    /\ depth = 0
    /\ the_error = NoError
    /\ parsed = FALSE /\ again = FALSE
    /\ report = <<>>
    /\ given = [k \in Keys |-> <<>>]
    /\ uses = 0
    /\ brokenOff = FALSE
    /\ counted = 0

-------------------------------------------------------------------------------
Required(m) == "Optional" \notin memberFlags[m]
Ignored(m) == "IgnoreRead" \in memberFlags[m]

(* The method stores an error and returns false; or it returns true.        *)
Reject(error) == the_error' = error /\ Terminate
Return == UNCHANGED the_error /\ Accept

(* POSTCHECK(current->handler->event), with the member's handler in state   *)
(* part: without a current member the event is swallowed.                   *)
Forward(part, event) ==
    \/ /\ current = NoKey
       /\ Return
       /\ UNCHANGED handler
    \/ /\ current # NoKey
       /\ \E response \in Responses(part, event) :
            /\ handler' = [handler EXCEPT ![current] = response]
            /\ IF response.error
               THEN Reject(Error("OBJECT_MEMBER", {current_name}))
               ELSE Return

(* Mutants: a test for duplicates that skips optional members, or that takes *)
(* every known member for one already parsed.                               *)
AlreadyParsed_RequiredOnly ==
    current # NoKey /\ handler[current].parsed /\ Required(current)
AlreadyParsed_Known == current # NoKey

AlreadyParsed == current # NoKey /\ handler[current].parsed

(* Mutant: prepare_for_reuse on every event.                                *)
Prechecked_AlwaysReset == Fresh

(* The current part when precheck has returned true: a parsed one has been  *)
(* prepared for reuse.                                                      *)
Prechecked == IF AlreadyParsed THEN Fresh ELSE handler[current]

(* precheck, and the forwarding that follows it when it returns true.       *)
PrecheckAndForward(event) ==
    \/ /\ depth <= 0
       /\ Reject(Error("TYPE_MISMATCH", {}))
       /\ UNCHANGED handler
    \/ /\ depth > 0
       /\ AlreadyParsed /\ "AllowDuplicateKey" \notin flags
       /\ Reject(Error("DUPLICATE_KEYS", {current_name}))
       /\ UNCHANGED handler
    \/ /\ depth > 0
       /\ AlreadyParsed => "AllowDuplicateKey" \in flags
       /\ Forward(Prechecked, event)

(* The history of an event: a member's value that was accepted, and the     *)
(* leaves of a container that ended.                                        *)
RecordMember ==
    given' = IF CompletesMember /\ phase' # "failed"
             THEN [given EXCEPT ![OpenMember] = Append(@, MemberKind)]
             ELSE given

Observe ==
    /\ RecordMember
    /\ counted' = IF Len(nest') < Len(nest)
                  THEN counted + OwnLeaves(Last(nest)) ELSE counted
    /\ UNCHANGED <<configVars, objectVars, report, uses, brokenOff, again>>

-------------------------------------------------------------------------------
(* A repeated value begins with StartObject: see Again.                     *)
FirstOfRepeated == again /\ AtRoot

(* Null, Bool, Int, Uint, Int64, Uint64, Double, String.                    *)
Scalar ==
    /\ ReadScalar /\ ~FirstOfRepeated
    /\ PrecheckAndForward("scalar")
    /\ Observe
    /\ UNCHANGED <<counterVars, current, current_name, depth, parsed>>

StartArray ==
    /\ ReadStart("array") /\ ~FirstOfRepeated
    /\ \/ /\ StartCheckFails
          /\ Reject(Error("TOO_DEEP_RECURSION", {}))
          /\ UNCHANGED handler
       \/ /\ StartCheck("array")
          /\ PrecheckAndForward("start")
    /\ Observe
    /\ UNCHANGED <<current, current_name, depth, parsed>>

EndArray ==
    /\ ReadEnd("array")
    /\ LET sz == Size(Last(nest)) IN
       \/ /\ EndCheckFails("array", sz)
          /\ Reject(Error("TOO_MANY_LEAVES", {}))
          /\ UNCHANGED handler
       \/ /\ EndCheck("array", sz)
          /\ PrecheckAndForward("end")
    /\ Observe
    /\ UNCHANGED <<current, current_name, depth, parsed>>

(* Mutants: an unknown key leaves current alone; current_name is assigned    *)
(* only for the keys that are not found.                                    *)
LookUp_KeepsCurrent(k) ==
    /\ current_name' = k
    /\ current' = IF k \in Members /\ ~Ignored(k) THEN k ELSE current
    /\ Return

LookUp_StaleName(k) ==
    /\ current_name' = IF k \in Members THEN current_name ELSE k
    /\ current' = IF k \in Members /\ ~Ignored(k) THEN k ELSE NoKey
    /\ Return

(* A key of the object itself is looked up; a deeper one is forwarded.      *)
LookUp(k) ==
    /\ current_name' = k
    /\ \/ /\ k \notin Members
          /\ current' = NoKey
          /\ IF "DisallowUnknownKey" \in flags
             THEN Reject(Error("UNKNOWN_FIELD", {k})) ELSE Return
       \/ /\ k \in Members /\ Ignored(k)
          /\ current' = NoKey
          /\ Return
       \/ /\ k \in Members /\ ~Ignored(k)
          /\ current' = k
          /\ Return

Key(k) ==
    /\ ReadKey(k)
    /\ \/ /\ depth <= 0
          /\ Reject(Error("CORRUPTED_DOM", {}))
          /\ UNCHANGED memberVars
       \/ /\ depth = 1
          /\ LookUp(k)
          /\ UNCHANGED handler
       \/ /\ depth > 1
          /\ Forward(handler[current], "key")
          /\ UNCHANGED <<current, current_name>>
    /\ Observe
    /\ UNCHANGED <<counterVars, depth, parsed>>

StartObject ==
    /\ ReadStart("object")
    /\ depth' = depth + 1
    /\ \/ /\ StartCheckFails
          /\ Reject(Error("TOO_DEEP_RECURSION", {}))
          /\ UNCHANGED handler
       \/ /\ StartCheck("object")
          /\ IF depth' > 1
             THEN Forward(handler[current], "start")
             ELSE Return /\ UNCHANGED handler
    /\ Observe
    /\ UNCHANGED <<current, current_name, parsed>>

(* The loop of EndObject over internals, and its verdict.                   *)
Missing == {m \in Members : Required(m) /\ ~handler[m].parsed}

WithMissing ==
    IF Missing = {} THEN the_error
    ELSE IF the_error.type = "MISSING_REQUIRED"
    THEN [the_error EXCEPT !.names = @ \cup Missing]
    ELSE Error("MISSING_REQUIRED", Missing)

(* Mutant: true is returned although members are missing.                   *)
Conclude_ReturnsTrue ==
    /\ the_error' = WithMissing
    /\ parsed' = TRUE
    /\ Accept

Conclude ==
    /\ the_error' = WithMissing
    /\ IF the_error' = NoError
       THEN parsed' = TRUE /\ Accept
       ELSE UNCHANGED parsed /\ Terminate

EndObject ==
    /\ ReadEnd("object")
    /\ depth' = depth - 1
    /\ LET sz == Size(Last(nest)) IN
       \/ /\ EndCheckFails("object", sz)
          /\ Reject(Error("TOO_MANY_LEAVES", {}))
          /\ UNCHANGED <<handler, parsed>>
       \/ /\ EndCheck("object", sz)
          /\ depth' > 0
          /\ Forward(handler[current], "end")
          /\ UNCHANGED parsed
       \/ /\ EndCheck("object", sz)
          /\ depth' = 0
          /\ Conclude
          /\ UNCHANGED handler
    /\ Observe
    /\ UNCHANGED <<current, current_name>>

-------------------------------------------------------------------------------
(* Mutant: reset leaves the members' handlers alone.                        *)
ResetParts_Skipped == handler

ResetParts == [m \in Members |-> Fresh]

(* BaseHandler::prepare_for_reuse with ObjectHandler::reset.  The caller    *)
(* may be anywhere in the text it reads; the limits' counters stay.         *)
PrepareForReuse ==
    /\ uses < MaxReuses
    /\ NextText
    /\ the_error' = NoError
    /\ parsed' = FALSE /\ again' = FALSE
    /\ current' = NoKey
    /\ current_name' = NoKey
    /\ depth' = 0
    /\ handler' = ResetParts
    /\ report' = <<>>
    /\ given' = [k \in Keys |-> <<>>]
    /\ counted' = 0
    /\ UNCHANGED <<configVars, counterVars, objectVars>>
    /\ uses' = uses + 1
    /\ brokenOff' = (brokenOff \/ phase \notin {"ready", "complete"})

(* An ObjectHandler that is itself a member's handler, and parsed, is given *)
(* a second value without being prepared, if that value is an object        *)
(* (StartObject forwards without precheck): it is merged with the first.    *)
Again ==
    /\ uses < MaxReuses /\ phase = "complete"
    /\ NextText
    /\ again' = TRUE /\ uses' = uses + 1 /\ counted' = 0
    /\ given' = [k \in Keys |-> IF given[k] = <<>> THEN <<>> ELSE <<"earlier">>]
    /\ UNCHANGED <<configVars, counterVars, objectVars, memberVars, depth,
                   the_error, parsed, report, brokenOff>>

(* Mutant: the member's error is reaped only at the object's own level.     *)
PartFailed_OwnLevel == depth = 1 /\ current # NoKey /\ handler[current].error

PartFailed == current # NoKey /\ handler[current].error

(* reap_error: the own error, then that of the current member only.         *)
ReapError ==
    /\ the_error # NoError
    /\ report' = report \o <<the_error.type>>
                 \o (IF PartFailed THEN <<"part">> ELSE <<>>)
    /\ handler' = IF PartFailed THEN [handler EXCEPT ![current] = Reaped(@)]
                  ELSE handler
    /\ the_error' = NoError
    /\ UNCHANGED <<readerVars, configVars, counterVars, objectVars, current,
                   current_name, depth, parsed, historyVars>>

(* GlobalConfig is changed between two texts.                               *)
SetLimits ==
    /\ phase = "ready" /\ ~again
    /\ Configure
    /\ UNCHANGED <<readerVars, counterVars, objectVars, memberVars, depth,
                   the_error, parsed, report, historyVars>>

Event == Scalar \/ StartArray \/ EndArray \/ StartObject \/ EndObject
         \/ \E k \in Keys : Key(k)

Next == Event \/ PrepareForReuse \/ Again \/ ReapError \/ SetLimits

Spec == Init /\ [][Next]_vars
-------------------------------------------------------------------------------
(* The handler as its own parent sees it: see HandlerContract.              *)
AsPart == [open |-> Len(nest), parsed |-> parsed, error |-> the_error # NoError]

Promise == INSTANCE ContractedHandler WITH
    part <- AsPart, text <- phase

(* What ObjectHandler promises its own parent is what it expects of its     *)
(* parts: parsed exactly when the text's object is complete (a repeated one *)
(* may keep the flag meanwhile), an error exactly when a method returned    *)
(* false, until it is reaped; whatever the parts and the limits do.         *)
ContractKept == Promise!Spec

(* Whatever is nested in the values before it, a value event that belongs   *)
(* to member k of the object reaches the handler registered for k, and no   *)
(* handler when k is unknown or IgnoreRead (Key, depth == 1).               *)
RoutedByKey ==
    phase = "reading" /\ OpenMember # NoKey =>
        /\ current_name = OpenMember
        /\ current = IF OpenMember \in Members /\ ~Ignored(OpenMember)
                     THEN OpenMember ELSE NoKey

(* The current part is exactly as deep in its value as the text is, and no  *)
(* other part is in the middle of one; precheck's prepare_for_reuse can     *)
(* undo this only under AllowDuplicateKey.                                  *)
PartsInStep ==
    phase = "reading" =>
        \A m \in Members :
            /\ m # current => handler[m].open = 0
            /\ m = current /\ "AllowDuplicateKey" \notin flags =>
                   handler[m].open = Len(nest) - 1

(* An accepted object was given a value for every member that is not        *)
(* Optional, and that value was read (EndObject's loop over internals).     *)
RequiredGiven ==
    phase = "complete" =>
        \A m \in Members : Required(m) => given[m] # <<>> /\ ~Ignored(m)

(* An accepted object repeats no key whose value is a scalar or an array.   *)
RepeatsAreObjects ==
    phase = "complete" /\ "AllowDuplicateKey" \notin flags =>
        \A m \in Members : ~Ignored(m) =>
            \A i \in 2..Len(given[m]) : given[m][i] = "object"

DepthRejectionJustified ==
    the_error.type = "TOO_DEEP_RECURSION" => Len(nest) > maxDepth

LeafRejectionJustified ==
    the_error.type = "TOO_MANY_LEAVES" => counted > maxLeaves

(* A handler that is prepared for reuse reads a text within the limits, as  *)
(* the test of prepare_for_reuse says of one it reads twice                 *)
(* (test_memory_usage.cpp:58): what a limit rejects exceeds it.             *)
LimitRejectionJustified == DepthRejectionJustified /\ LeafRejectionJustified

(* The required members that were given no value to read.                   *)
NeverRead == {m \in Members : Required(m) /\ (Ignored(m) \/ given[m] = <<>>)}

(* A member that was given an object again, in the middle of which precheck *)
(* has prepared its handler.                                                *)
MaybeForgotten(m) ==
    /\ "AllowDuplicateKey" \in flags
    /\ Len(given[m]) > 1 /\ Last(given[m]) = "object"

(* No object is rejected without cause, whichever of the eight errors it    *)
(* is; CORRUPTED_DOM never occurs.  Two causes lie outside the text: where  *)
(* keys may be repeated, a member whose last value is not its first and an  *)
(* object can be missing although it was read (precheck); and an earlier    *)
(* text can have used up a limit (reset), the depth if it was broken off,   *)
(* the leaves in any case: LimitRejectionJustified is false of those.       *)
RejectionJustified ==
    /\ the_error.type # "CORRUPTED_DOM"
    /\ the_error.type = "TYPE_MISMATCH" => depth = 0
    /\ the_error.type = "OBJECT_MEMBER" => PartFailed
    /\ the_error.type = "DUPLICATE_KEYS" =>
           /\ "AllowDuplicateKey" \notin flags
           /\ \A k \in the_error.names : k \in Members /\ given[k] # <<>>
    /\ the_error.type = "UNKNOWN_FIELD" =>
           /\ "DisallowUnknownKey" \in flags
           /\ the_error.names \cap Members = {}
    /\ the_error.type = "MISSING_REQUIRED" =>
           /\ NeverRead \subseteq the_error.names
           /\ \A m \in the_error.names \ NeverRead :
                  m \in Members /\ Required(m) /\ MaybeForgotten(m)
    /\ ~brokenOff => DepthRejectionJustified
    /\ uses = 0 => LeafRejectionJustified

(* The chain of errors a user reads ends in a cause: an ObjectMemberError   *)
(* is always followed by the error of the member it names (reap_error       *)
(* follows current, which must still be the member that failed).            *)
ReportEndsInCause == report # <<>> => Last(report) # "OBJECT_MEMBER"

(* An error that names a member names the one whose value was being read.   *)
ErrorNamesMember ==
    [][the_error = NoError
       /\ the_error'.type \in {"OBJECT_MEMBER", "DUPLICATE_KEYS"} =>
           the_error'.names = {OpenMember}]_vars

(* No text passes that is nested deeper, or has more leaves, than the       *)
(* limits allow, whatever the handler was used for before.                  *)
LimitsEnforced ==
    phase \in {"reading", "complete"} =>
        /\ maxDepth # Unset => Len(nest) <= maxDepth
        /\ maxLeaves # Unset => counted <= maxLeaves

(* jsonDepth counts the containers open, unless a text was broken off.      *)
DepthExactAfterCompleteTexts ==
    ~brokenOff /\ phase \in {"ready", "reading", "complete"}
    /\ maxDepth # Unset =>
        jsonDepth = Len(nest)

(* totalLeaves and leavesStack follow the first text.                       *)
LeavesExactInFirstText ==
    uses = 0 /\ phase \in {"reading", "complete"} /\ maxLeaves # Unset =>
        totalLeaves = counted /\ Len(leavesStack) = Len(nest)

(* The counters by which the limits are enforced count the text: the depth  *)
(* as long as every text was complete, the leaves in the first text.        *)
CountersExact == DepthExactAfterCompleteTexts /\ LeavesExactInFirstText

(* What README says of duplicate keys: every one is detected.               *)
DuplicatesDetected ==
    phase = "complete" /\ "AllowDuplicateKey" \notin flags =>
        \A m \in Members : ~Ignored(m) => Len(given[m]) <= 1
===============================================================================
