------------------------------ MODULE EntryPoints ------------------------------
(***************************************************************************)
(* The calls a program makes: from_json_* and to_json_* (io.hpp,            *)
(* document.hpp), the functions they end in (staticjson.cpp:721-846), and   *)
(* the ParseStatus and ErrorStack a program may hand to several of them     *)
(* (error.hpp:271-412).  A call constructs a handler, moves the tokens of   *)
(* one value through it and reports.                                        *)
(***************************************************************************)
EXTENDS Naturals, Sequences, SequencesExt

CONSTANTS
    MaxTokens,   \* bound: tokens of a value
    MaxChain,    \* bound: handlers with an error, from the root to the cause
    MaxCalls,    \* bound: calls
    NoCall       \* no call is under way

ASSUME EntryBoundsAssumption == {MaxTokens, MaxChain, MaxCalls} \subseteq Nat

VARIABLES
    call,        \* the call under way
    file,        \* a file that the call has opened by its name is open
    left,        \* tokens not yet moved
    code,        \* how the moving ended: rapidjson's error code
    chain,       \* the errors the handlers have stored, the root's first
    status,      \* the program's ParseStatus: m_code, m_stack (head first, m_size)
    kept,        \* another one, that calls are not given
    result,      \* what the last call returned
    newline,     \* a newline was put after what was written
    calls        \* history: calls begun

programVars == <<status, kept>>
vars == <<call, file, left, code, chain, programVars, result, newline, calls>>

(* stream: NULL for a file that is not there.                               *)
Call == [way: {"read", "write"}, via: {"string", "file", "name", "value"},
         stream: {"open", "NULL"}, pretty: BOOLEAN, status: BOOLEAN]

ASSUME NoCallAssumption == NoCall \notin Call

Idle == call = NoCall
kParseErrorTermination == 16
SyntaxError == 3
Running == 99    \* no code yet

Error == [call: 1..MaxCalls, level: 1..MaxChain]

ParseStatus(m_code, m_stack, m_size) ==
    [m_code |-> m_code, m_stack |-> m_stack, m_size |-> m_size]

NoError == ParseStatus(0, <<>>, 0)

TypeOK ==
    /\ call \in Call \cup {NoCall}
    /\ file \in BOOLEAN /\ newline \in BOOLEAN
    /\ left \in 0..MaxTokens
    /\ code \in {0, SyntaxError, kParseErrorTermination, Running}
    /\ chain \in Seq(Error)
    /\ \A s \in {status, kept} :
           /\ s.m_code \in {0, SyntaxError, kParseErrorTermination}
           /\ s.m_stack \in Seq(Error)
           /\ s.m_size \in Nat
    /\ result \in {"none", "true", "false", "text"}
    /\ calls \in 0..MaxCalls

Init ==
    /\ call = NoCall /\ file = FALSE /\ left = 0 /\ code = Running
    /\ chain = <<>> /\ status = NoError /\ kept = NoError
    /\ result = "none" /\ newline = FALSE /\ calls = 0

-------------------------------------------------------------------------------
OnFile(c) == c.via \in {"file", "name"}

(* The program calls; the FileGuard of a call by name opens the file.       *)
Begin ==
    /\ Idle /\ calls < MaxCalls
    /\ \E c \in Call, n \in 1..MaxTokens :
           /\ c.stream = "NULL" => OnFile(c)
           /\ c.pretty => c.way = "write" /\ c.via # "value"
           /\ c.status => c.way = "read" \/ c.via = "value"
           /\ call' = c /\ left' = n
           /\ file' = (c.via = "name" /\ c.stream = "open")
    /\ calls' = calls + 1
    /\ code' = Running /\ chain' = <<>> /\ result' = "none" /\ newline' = FALSE
    /\ UNCHANGED programVars

(* Between calls the program takes errors off its status (ErrorStack::pop), *)
(* which are its own from then on.                                          *)
Popped(s) == ParseStatus(s.m_code, Tail(s.m_stack), s.m_size - 1)

Pop ==
    /\ Idle /\ status.m_stack # <<>>
    /\ status' = Popped(status)
    /\ UNCHANGED <<call, file, left, code, chain, kept, result, newline, calls>>

(* Mutant: the other ParseStatus gets a copy.                               *)
Swapped_Copied == <<status, status>>

Swapped == <<kept, status>>

(* swap, and the move constructor, which swaps with a new one.              *)
Swap ==
    /\ Idle
    /\ status' = Swapped[1] /\ kept' = Swapped[2]
    /\ UNCHANGED <<call, file, left, code, chain, result, newline, calls>>

(* Mutant: the pointer is used as it is.                                    *)
NoStream_Unchecked == FALSE

(* parse_json_file and serialize_json_file: if (!fp).                       *)
NoStream == call.stream = "NULL"

(* ~FileGuard.                                                              *)
CloseGuarded == file' = FALSE

ReturnAtOnce ==
    /\ ~Idle /\ NoStream
    /\ result' = "false"
    /\ call' = NoCall
    /\ CloseGuarded
    /\ UNCHANGED <<left, code, chain, programVars, newline, calls>>

Moving == ~Idle /\ call.stream = "open" /\ code = Running

(* One token: Reader::Parse, Value::Accept or write calls the next method.  *)
Move ==
    /\ Moving /\ left > 0
    /\ left' = left - 1
    /\ UNCHANGED <<call, file, code, chain, programVars, result, newline, calls>>

(* A method returns false.  Reading, every handler from the root to the     *)
(* cause has an error; writing to a DOM at most JSONHandler itself; what    *)
(* refuses to be written (an enumerator without a name) stores none.        *)
Refuse ==
    /\ Moving /\ left > 0
    /\ code' = kParseErrorTermination
    /\ \E n \in 0..MaxChain :
           /\ call.way = "read" => n > 0
           /\ call.way = "write" => n = 0 \/ (n = 1 /\ call.via = "value")
           /\ chain' = [i \in 1..n |-> [call |-> calls, level |-> i]]
    /\ UNCHANGED <<call, file, left, programVars, result, newline, calls>>

(* The text is not JSON; a DOM always is.                                   *)
Malformed ==
    /\ Moving /\ call.way = "read" /\ call.via # "value"
    /\ code' = SyntaxError
    /\ UNCHANGED <<call, file, left, chain, programVars, result, newline, calls>>

Complete ==
    /\ Moving /\ left = 0
    /\ code' = 0
    /\ UNCHANGED <<call, file, left, chain, programVars, result, newline, calls>>

(* ErrorStack::push of the errors, in the order reap_error pushes them.     *)
Pushed(errors, stack) == Reverse(errors) \o stack

(* Mutant: the root's error is pushed last.                                 *)
Reported_RootLast ==
    ParseStatus(code, chain \o status.m_stack, status.m_size + Len(chain))

(* set_result and reap_error.                                               *)
Reported ==
    ParseStatus(code, Pushed(chain, status.m_stack), status.m_size + Len(chain))

(* read_json reports whatever happened, write_value and read_value a        *)
(* failure only.                                                            *)
Reports == call.status /\ (call.via = "value" => code # 0)

Success == code = 0

(* to_json_string gives the text, whatever write returned; a pretty string  *)
(* ends in a newline, a pretty file if write succeeded.                     *)
Return ==
    /\ ~Idle /\ code # Running
    /\ status' = IF Reports THEN Reported ELSE status
    /\ result' = IF call.way = "write" /\ call.via = "string" THEN "text"
                 ELSE IF Success THEN "true" ELSE "false"
    /\ newline' = (call.pretty /\ (call.via = "string" \/ Success))
    /\ call' = NoCall
    /\ CloseGuarded
    /\ UNCHANGED <<left, code, chain, kept, calls>>

Work == ReturnAtOnce \/ Move \/ Refuse \/ Malformed \/ Complete \/ Return

Next == Begin \/ Pop \/ Swap \/ Work

(* A call runs to its end in the program's own thread.                      *)
Spec == Init /\ [][Next]_vars /\ WF_vars(Work)

-------------------------------------------------------------------------------
(* A call returns true exactly when every token of the value was moved and  *)
(* accepted (read_json, write_value, read_value, serialize_json_file).      *)
TrueMeansWhole ==
    Idle /\ result \in {"true", "false"} =>
        (result = "true" <=> left = 0 /\ code = 0)

(* What a call that returns has done to the program's status.  Its own      *)
(* errors, if it was refused, are on top, the cause first and the root last *)
(* ("last call first"), and those of earlier calls below in their order: no *)
(* call clears them.  A failure and a text that was read set the code; a    *)
(* call that finds no file, or was given no status, leaves all as it was.   *)
TracebackOfThisCall ==
    [][~Idle /\ Idle' =>
           LET n == IF call.status /\ code = kParseErrorTermination
                    THEN Len(chain) ELSE 0
               told == call.status /\ call.stream = "open"
           IN
           /\ \A i \in 1..n : status'.m_stack[i] =
                                  [call |-> calls, level |-> n + 1 - i]
           /\ SubSeq(status'.m_stack, n + 1, Len(status'.m_stack))
                  = status.m_stack
           /\ ~told => status' = status
           /\ told /\ (result' = "false" \/ call.via # "value") =>
                  status'.m_code = code]_vars

(* An error belongs to one stack only, which would delete it twice else,    *)
(* and m_size is the number of a stack's errors (push, pop, swap); a call   *)
(* that ended well has left none of its own.                                *)
ErrorsOwnedOnce ==
    LET owned == status.m_stack \o kept.m_stack IN
    /\ TypeOK /\ TrueMeansWhole
    /\ IsInjective(owned)
    /\ \A s \in {status, kept} : s.m_size = Len(s.m_stack)
    /\ result = "true" => \A i \in DOMAIN owned : owned[i].call # calls

(* Every call returns, however it ends, and the file it opened by name is   *)
(* closed by then (FileGuard).                                              *)
CallsReturn == ~Idle ~> (Idle /\ ~file)
===============================================================================
