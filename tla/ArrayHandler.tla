----------------------------- MODULE ArrayHandler -----------------------------
(***************************************************************************)
(* ArrayHandler (stl_types.hpp:15-157), the handler of std::vector,         *)
(* std::deque and std::list.  Its internal handler reads every element into *)
(* the same object, which is moved into the container when it is parsed.    *)
(***************************************************************************)
EXTENDS ElementFeed

VARIABLE m_value    \* what the container's elements hold: see Touched; "old"
                    \* is an element the user's container had before the text

vars == <<readerVars, feedVars, historyVars, m_value>>

Contents == {"old", "own", "mixed"}

TypeOK == FeedTypeOK /\ m_value \in Seq(Contents)

Init == FeedInit /\ m_value \in {<<>>, <<"old">>}

-------------------------------------------------------------------------------
(* Mutant: the element moved into the container is not replaced by a new    *)
(* one.                                                                     *)
EmplaceBack_KeepsElement ==
    /\ m_value' = Append(m_value, Touched)
    /\ internal' = Fresh
    /\ element' = Touched
    /\ Return

(* emplace_back, and the renewal that makes the next element a new one.     *)
EmplaceBack ==
    /\ m_value' = Append(m_value, Touched)
    /\ RenewElement
    /\ Return

(* Mutant: only elements that end with a bracket are stored.                *)
Postcheck_StoresContainersOnly(event) ==
    \E response \in Responses(internal, event) :
        \/ /\ response.error
           /\ Forwarded(response)
           /\ ElementError(Len(m_value))
           /\ UNCHANGED m_value
        \/ /\ ~response.error /\ response.parsed /\ event = "end"
           /\ EmplaceBack
        \/ /\ ~response.error /\ (response.parsed => event # "end")
           /\ Forwarded(response)
           /\ Return
           /\ UNCHANGED m_value

(* postcheck(internal.event).                                               *)
Postcheck(event) ==
    \E response \in Responses(internal, event) :
        \/ /\ response.error
           /\ Forwarded(response)
           /\ ElementError(Len(m_value))
           /\ UNCHANGED m_value
        \/ /\ ~response.error /\ response.parsed
           /\ EmplaceBack
        \/ /\ ~response.error /\ ~response.parsed
           /\ Forwarded(response)
           /\ Return
           /\ UNCHANGED m_value

(* precheck(type) && postcheck(internal.event).                             *)
Element(event) ==
    /\ \/ MismatchAtRoot /\ UNCHANGED m_value
       \/ depth > 0 /\ Postcheck(event)
    /\ UNCHANGED <<depth, parsed, historyVars>>

Scalar == ReadScalar /\ Element("scalar")
Key == (\E k \in Keys : ReadKey(k)) /\ Element("key")
StartObject == ReadStart("object") /\ Element("start")
EndObject == ReadEnd("object") /\ Element("end")

(* Mutant: the user's elements stay.                                        *)
Clear_Skipped == UNCHANGED m_value

Clear == m_value' = <<>>

StartArray ==
    /\ ReadStart("array")
    /\ depth' = depth + 1
    /\ \/ depth' > 1 /\ Postcheck("start")
       \/ /\ depth' <= 1
          /\ Clear
          /\ Return
          /\ UNCHANGED <<internal, element>>
    /\ UNCHANGED <<parsed, historyVars>>

(* Mutant: the first ']' ends the array.                                    *)
EndsElement_Never == FALSE

(* The ']' belongs to an element, not to the array itself.                  *)
EndsElement == depth - 1 > 0

EndArray ==
    /\ ReadEnd("array")
    /\ depth' = depth - 1
    /\ \/ EndsElement /\ Postcheck("end") /\ UNCHANGED parsed
       \/ /\ ~EndsElement
          /\ parsed' = TRUE
          /\ Return
          /\ UNCHANGED <<internal, element, m_value>>
    /\ UNCHANGED historyVars

(* reset does not touch the container.                                      *)
PrepareForReuse == PrepareFeed /\ UNCHANGED m_value

Next == \/ Scalar \/ Key \/ StartObject \/ EndObject \/ StartArray \/ EndArray
        \/ ReapError /\ UNCHANGED m_value
        \/ PrepareForReuse

Spec == Init /\ [][Next]_vars

-------------------------------------------------------------------------------
(* In the middle of the text the container holds as many elements as the    *)
(* text has completed, none lost, added or stored early, and the element's  *)
(* handler, prepared for each in turn, is as deep in its value as the text. *)
ElementsFollowText ==
    /\ TypeOK
    /\ phase = "reading" =>
           /\ depth > 0
           /\ Len(m_value) = Size(nest[1])
           /\ internal.open = Len(nest) - 1

(* No element holds data of an earlier one (of a text that was broken off,  *)
(* or of the element before), and nothing of the user's container is left:  *)
(* postcheck and reset renew the element object, StartArray clears.         *)
ElementsUnmixed ==
    phase \in {"reading", "complete"} =>
        \A i \in DOMAIN m_value : m_value[i] = "own"

(* ArrayHandler implements ParsedSequence with any length.                  *)
Sequence == INSTANCE ParsedSequence WITH
    Lengths <- Nat,
    status <- IF phase = "failed" THEN "rejected"
              ELSE IF parsed THEN "accepted"
              ELSE IF depth > 0 THEN "open" ELSE "idle",
    length <- IF depth = 0 /\ ~parsed THEN 0 ELSE Len(m_value)

ImplementsSequence == Sequence!Spec
===============================================================================
