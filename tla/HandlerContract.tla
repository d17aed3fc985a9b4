--------------------------- MODULE HandlerContract ----------------------------
(***************************************************************************)
(* What a composite handler may rely on from the handler of a part of its   *)
(* value, whatever the part's C++ type: BaseHandler's three observable      *)
(* facts.  open counts the containers of the part that were started and not *)
(* ended, parsed is is_parsed(), error is has_error().                      *)
(* A part that returns false has stored an error; a part whose value is     *)
(* complete is parsed; a part in the middle of its value is not.            *)
(***************************************************************************)
EXTENDS Naturals

Part == [open: Nat, parsed: BOOLEAN, error: BOOLEAN]

Events == {"scalar", "start", "key", "end"}

(* BaseHandler::prepare_for_reuse, or a handler just constructed.           *)
Fresh == [open |-> 0, parsed |-> FALSE, error |-> FALSE]

(* The event can be the next one of a JSON value, seen from the part alone. *)
Fits(part, event) == event \in {"key", "end"} => part.open > 0

OpenAfter(part, event) ==
    CASE event = "start" -> part.open + 1
      [] event = "end" /\ part.open > 0 -> part.open - 1
      [] OTHER -> part.open

(* is_parsed() after an accepted event.  A part that is handed a second     *)
(* value without prepare_for_reuse may keep its old parsed flag until the   *)
(* value is complete; one that is handed an event that does not fit its own *)
(* progress may do anything.                                                *)
ParsedAfter(part, event) ==
    IF ~Fits(part, event) THEN BOOLEAN
    ELSE IF OpenAfter(part, event) = 0 THEN {TRUE}
    ELSE {FALSE, part.parsed}

Accepted(part, event) ==
    {[open |-> OpenAfter(part, event), parsed |-> p, error |-> FALSE] :
        p \in ParsedAfter(part, event)}

(* The part returns false: its own type or a part of it does not fit.  What *)
(* is_parsed() is then says nothing: ConversionHandler is parsed when       *)
(* from_shadow refuses (basic.hpp:466).                                     *)
Rejected(part, event) ==
    {[open |-> OpenAfter(part, event), parsed |-> p, error |-> TRUE] :
        p \in BOOLEAN}

(* reap_error hands the part's error over.                                  *)
Reaped(part) == [part EXCEPT !.error = FALSE]

Responses(part, event) == Accepted(part, event) \cup Rejected(part, event)
===============================================================================
