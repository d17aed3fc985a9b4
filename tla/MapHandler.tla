------------------------------ MODULE MapHandler ------------------------------
(***************************************************************************)
(* MapHandler (stl_types.hpp:553-698), the handler of std::map, multimap    *)
(* and their unordered versions.  One element object and its handler read   *)
(* every value; a parsed one is emplaced under the key read before it.      *)
(***************************************************************************)
EXTENDS ElementFeed

VARIABLES
    unique,       \* the container's emplace keeps one value per key
    current_key,
    m_value,      \* entries: the key, which value of the text it is (0: it was
                  \* there before the text), and what the value holds
    again,        \* the text repeats a value, the handler not prepared
    given         \* history: the keys whose values the text has completed

mapVars == <<unique, current_key, m_value, again, given>>
vars == <<readerVars, feedVars, historyVars, mapVars>>

Entry(key, item, data) == [key |-> key, item |-> item, data |-> data]
MemberError(key) == [type |-> "OBJECT_MEMBER", key |-> key]
Mismatch == Error("TYPE_MISMATCH", 0)

TypeOK ==
    /\ ReaderTypeOK
    /\ internal \in Part /\ element \in Elements /\ depth \in Nat
    /\ the_error \in {NoError, Mismatch} \cup {MemberError(k) : k \in Keys}
    /\ parsed \in BOOLEAN /\ unique \in BOOLEAN /\ again \in BOOLEAN
    /\ current_key \in Keys \cup {NoKey}
    /\ \A e \in m_value :
           /\ e.key \in Keys /\ e.item \in Nat
           /\ e.data \in {"old", "own", "mixed"}
    /\ given \in Seq(Keys)

Init ==
    /\ FeedInit
    /\ unique \in BOOLEAN
    /\ current_key = NoKey
    /\ m_value \in {{}} \cup {{Entry(k, 0, "old")} : k \in Keys}
    /\ again = FALSE /\ given = <<>>

-------------------------------------------------------------------------------
(* m_value after emplace: a container with unique keys ignores an entry     *)
(* whose key it has.                                                        *)
Emplaced(entry) ==
    IF unique /\ \E e \in m_value : e.key = entry.key THEN m_value
    ELSE m_value \cup {entry}

(* A string that was moved from holds nothing or what it held.              *)
Store ==
    /\ m_value' = Emplaced(Entry(current_key, Size(nest[1]) + 1, Touched))
    /\ current_key' \in {NoKey, current_key}
    /\ RenewElement
    /\ Return

(* postcheck(internal_handler.event).                                       *)
Postcheck(event) ==
    \E response \in Responses(internal, event) :
        \/ /\ response.error
           /\ Forwarded(response)
           /\ Reject(MemberError(current_key))
           /\ UNCHANGED <<current_key, m_value>>
        \/ /\ ~response.error /\ response.parsed
           /\ Store
        \/ /\ ~response.error /\ ~response.parsed
           /\ Forwarded(response)
           /\ Return
           /\ UNCHANGED <<current_key, m_value>>

Given == given' = IF CompletesMember THEN Append(given, nest[1].key) ELSE given

(* precheck(type) && postcheck(internal_handler.event).                     *)
Element(event) ==
    /\ \/ MismatchAtRoot /\ UNCHANGED <<current_key, m_value>>
       \/ depth > 0 /\ Postcheck(event)
    /\ Given
    /\ UNCHANGED <<depth, parsed, historyVars, unique, again>>

(* A repeated value begins with StartObject: see Again.                     *)
FirstOfRepeated == again /\ AtRoot

Scalar == ReadScalar /\ ~FirstOfRepeated /\ Element("scalar")
StartArray == ReadStart("array") /\ ~FirstOfRepeated /\ Element("start")
EndArray == ReadEnd("array") /\ Element("end")

(* Mutant: every key is taken for one of the map's own.                     *)
OwnKey_Always == TRUE

OwnKey == depth <= 1

Key ==
    /\ \E k \in Keys :
           /\ ReadKey(k)
           /\ \/ ~OwnKey /\ Postcheck("key")
              \/ /\ OwnKey
                 /\ current_key' = k
                 /\ Return
                 /\ UNCHANGED <<internal, element, m_value>>
    /\ Given
    /\ UNCHANGED <<depth, parsed, historyVars, unique, again>>

Clear == m_value' = {}

Opened == depth + 1

StartObject ==
    /\ ReadStart("object")
    /\ depth' = Opened
    /\ \/ depth' > 1 /\ Postcheck("start")
       \/ /\ depth' <= 1
          /\ Clear
          /\ Return
          /\ UNCHANGED <<internal, element, current_key>>
    /\ Given
    /\ UNCHANGED <<parsed, historyVars, unique, again>>

(* The '}' belongs to a value, not to the map itself.                       *)
EndsElement == depth - 1 > 0

EndObject ==
    /\ ReadEnd("object")
    /\ depth' = depth - 1
    /\ \/ EndsElement /\ Postcheck("end") /\ UNCHANGED parsed
       \/ /\ ~EndsElement
          /\ parsed' = TRUE
          /\ Return
          /\ UNCHANGED <<internal, element, current_key, m_value>>
    /\ Given
    /\ UNCHANGED <<historyVars, unique, again>>

(* prepare_for_reuse: the container is cleared by the next StartObject only. *)
PrepareForReuse ==
    /\ PrepareFeed
    /\ current_key' = NoKey
    /\ again' = FALSE /\ given' = <<>>
    /\ UNCHANGED <<unique, m_value>>

(* An ObjectHandler gives a member that is parsed a second value without    *)
(* preparing it, if that value is an object (staticjson.cpp:567).           *)
Again ==
    /\ uses < MaxReuses /\ phase = "complete"
    /\ NextText
    /\ again' = TRUE /\ given' = <<>> /\ uses' = uses + 1
    /\ UNCHANGED <<feedVars, report, unique, current_key, m_value>>

Next == \/ Scalar \/ Key \/ StartObject \/ EndObject \/ StartArray \/ EndArray
        \/ ReapError /\ UNCHANGED mapVars
        \/ PrepareForReuse \/ Again

Spec == Init /\ [][Next]_vars

-------------------------------------------------------------------------------
(* The container holds the text's entries, each value under the key it was  *)
(* given with, whatever objects with keys of their own are nested in the    *)
(* values, and no data of another value, text or user; a multimap holds     *)
(* every value, a map one of each key's (Key's test of depth, the renewal   *)
(* in postcheck and reset, the clear in StartObject).                       *)
EntriesMatchText ==
    phase \in {"reading", "complete"} =>
        /\ m_value \subseteq {Entry(given[i], i, "own") : i \in DOMAIN given}
        /\ \A i \in DOMAIN given :
               \E e \in m_value : e.key = given[i] /\ (unique \/ e.item = i)

(* A key a uniquely keyed map was given before is an error, as the note in  *)
(* examples/failure/duplicate_key.json:50 says: an accepted text repeats    *)
(* none.                                                                    *)
KeysDetected == phase = "complete" /\ unique => IsInjective(given)

(* The element's handler is as deep in its value as the text is.            *)
ElementInStep == phase = "reading" => internal.open = Len(nest) - 1

(* A chain of errors ends in a cause: an ObjectMemberError is followed by   *)
(* the error of the value's handler (reap_error).                           *)
MemberErrorHasCause == report # <<>> => Last(report) # "OBJECT_MEMBER"

(* The key in an ObjectMemberError is that of the member being read, though *)
(* current_key is moved from and nested objects have keys too (postcheck).  *)
NamesKey ==
    the_error = NoError /\ the_error'.type = "OBJECT_MEMBER" =>
        the_error'.key = OpenMember
===============================================================================
