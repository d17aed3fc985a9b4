# A verification model of StaticJSON

StaticJSON reads and writes C++ objects as JSON through a tree of *handlers*:
rapidjson walks a text and calls a method per token (`Null`, `Int`, `Key`,
`StartObject`, ...), and every handler passes the events on to the handler of
the part of the value that is being read. This directory holds TLA+ modules for
those handlers, TLC configurations that check them on small instances, and
TLAPS proofs of what holds for every instance. Paths such as `stl_types.hpp:40`
are relative to `src/include/staticjson/`; `staticjson.cpp` is
`src/src/staticjson.cpp`.

## 1. Inventory

The library is sequential: one reader drives one tree of handlers, and a handler
changes state only inside a call. What is hard is not concurrency but
*protocol*: a handler sees one event at a time, must know from a few counters
where it is in a value of any nesting, answers `false` anywhere, is asked for
the reason afterwards, and is used again for the next text or element.

| Component | State | Operations | Interacts with |
|---|---|---|---|
| rapidjson `Reader` (external) | position in the text | one event per token, in document order; stops when a method returns `false` | root handler |
| `BaseHandler` (`basic.hpp:110-182`) | `the_error`, `parsed` | the 13 SAX methods, `has_error`, `is_parsed`, `reap_error`, `prepare_for_reuse` | its parent handler, through exactly these |
| `ObjectHandler` (`basic.hpp:294`, `staticjson.cpp:305-624`) | `internals` (members, their flags, their handlers), `flags`, `current`, `current_name`, `depth`, the limit counters | SAX methods, `precheck`/`postcheck`, `reset`, `reap_error`, `write`, schema | member handlers; `GlobalConfig` |
| limits (`GlobalConfig`, `Start`/`EndCheckMaxDepthMaxLeaves`) | global limits; per handler `jsonDepth`, `lastLeafStat`, `totalLeaves`, `leavesStack` | set and unset limits; check at each bracket | every `ObjectHandler` |
| `ArrayHandler` (vector, deque, list) | `element`, `internal`, `m_value`, `depth` | as above | element handler |
| `Handler<std::array<T, N>>` | the same and `count` | as above | element handler |
| `TupleHander` | handlers of the elements, `index`, `depth` | as above | element handlers |
| `MapHandler` | `element`, `internal_handler`, `current_key`, `m_value`, `depth` | as above | value handler |
| `PointerHandler`, `std::optional` | `m_value`, `internal_handler`, `depth` | as above, `Null` resets | value handler |
| `ConversionHandler` (`Converter`) | `shadow`, `internal` | forwards all events, then `from_shadow` | shadow handler |
| scalar and enum handlers | `m_value` | one event, range tests and casts | - |
| `JSONHandler` (dynamic `Document`) | stack of values | builds a DOM | memory pool |
| `ErrorStack`, `ParseStatus` | stack of errors, its size, code, offset | push, pop, swap, move, describe | entry points |
| entry points (`io.hpp`, `document.hpp`, `read_json`, ...) | none | open a file, run a parse or a write, fill in the status | root handler, streams |
| writing (`write`, `to_json_*`) | none | events of a value | rapidjson `Writer`, sinks |
| JSON schema | none | `generate_schema` | handlers |
| memory pool | chunks | allocate | rapidjson values |

What makes each correct, and what is hard about it:

* **ObjectHandler.** A value goes to the handler registered for its key; unknown
  and ignored values go nowhere; every error has its cause in the text and names
  the right member; an accepted object has every required member; a repeated key
  is noticed. Hard: `depth` counts objects but not arrays, `current` outlives the
  value it was looked up for, duplicates are recognised by a side effect
  (`parsed`), some events run `precheck` and some do not.
* **Limits.** Nothing beyond a limit is accepted, nothing within it is rejected.
  Hard: four counters kept by increments, partly only when a limit is set, that
  survive `reset`.
* **Sequences.** One element per value, in order, each a fresh object; the
  length the type allows. Hard: one element object and one handler are used again
  and again, and `depth` tells the array's own `]` from an element's.
* **Maps, pointers, tuples, conversions.** The same for keyed, optional,
  heterogeneous and converted values: duplicates, null against an object that
  exists, life of the inner handler, errors of the conversion.
* **Scalars, enums.** Accepted exactly when representable; boundary casts.
* **Error chain, status, entry points.** The chain ends in a cause; the status
  tells what happened in *this* call.
* **Writing, schema.** What is written is read back; the schema accepts what the
  handler accepts.

* **Documents.** The DOM is the text's tree, and nothing of an earlier text gets
  into it. Hard: what is open, the names of members and the slots of values that
  have not come yet lie on one stack and are told apart by their kinds.

There is no concurrency, no persistence and no messaging in the code. The
failures it handles are a rejecting method, a malformed text, a text that is
abandoned while handlers are in the middle of it, a file that cannot be opened,
and a value that refuses to be written.

## 2. Modules

| Module | Models |
|---|---|
| `JsonReader` | The events of any well-formed text up to any point, by the stack `nest` of open containers. External: the shape of rapidjson's calls. |
| `HandlerContract` | A part's handler as its parent sees it: containers open, `is_parsed()`, `has_error()`, and every response that `BaseHandler`'s descendants may give. |
| `ContractedHandler` | Abstract: a handler that answers every event as `HandlerContract` says a part does. What every composite handler promises the one above it. |
| `NestingLimits` | `GlobalConfig` and the counters of one `ObjectHandler`. Extends `JsonReader`. |
| `ObjectHandler` | Every SAX method, `reset`, `reap_error`, objects that are repeated. Extends `NestingLimits`, `HandlerContract`. |
| `ElementFeed` | What `ArrayHandler`, the `std::array` handler and `MapHandler` share: the element object, its handler, the verdict. Extends `JsonReader`, `HandlerContract`. |
| `ArrayHandler`, `FixedArrayHandler` | The two sequence handlers, every operation that reads. Extend `ElementFeed`. |
| `ParsedSequence` | Abstract: a sequence that is begun, gets elements one at a time, is accepted with an allowed length or refused. |
| `MapHandler` | Maps with unique keys and multimaps, repeated ones included. Extends `ElementFeed`. |
| `PointerHandler` | `unique_ptr`, `shared_ptr`, `optional`: value or null, the life of the inner handler, a value that is repeated without preparation. |
| `TupleHandler` | `TupleHander`: one handler per element, nothing tested at depth 0, the surplus swallowed. |
| `ConversionHandler` | The shadow value, its handler, and `from_shadow`. |
| `ForwardingHandlers` | Composes the last four: one of them reads, which one is decided once by the type. |
| `IntegerTypes`, `ScalarHandlers` | C++ integers and their conversions; every scalar handler and `EnumHandler` given every event. Widths are constants. |
| `DomStack`, `JSONHandler` | What each method of `JSONHandler` does to `*m_value` and `m_stack`; the handler over several texts. |
| `DomTree` | Abstract: the values of a text are placed in order, each in its container and under its name. |
| `EntryPoints` | The calls of a program, the files they open, `ParseStatus` and `ErrorStack`, what is returned. |
| `HandlerTree` | Every handler with its data, as a recursive function of type and event, so that handlers of any types can be nested. |
| `HandlerOutput` | `write` of every handler, `generate_schema`, and what a schema says of a value. |
| `TreeReading` | One text against several types at once. Composes `JsonReader`, `HandlerTree`, `HandlerOutput`. |
| `MC*` | Instances for TLC. |
| `JsonReaderTheorems` | Lemmas about the reader's stack. |
| `ObjectHandlerProofs`, `ArrayHandlerProofs`, `FixedArrayHandlerProofs`, `ForwardingHandlersProofs`, `ScalarHandlersProofs`, `JSONHandlerProofs`, `EntryPointsProofs` | Inductive invariants and theorems. |

How code and model correspond:

* **One action per method.** `Scalar` stands for `Null` to `String`, which have
  the same body (`PointerHandler` has a `Null` of its own, and so has the
  model). Each action conjoins the reader's event (`ReadScalar`, `ReadKey`, ...)
  with everything the method does with it. `return false` is `Reject`, which
  also stops the reader; `return true` is `Return`.
* **Parts are nondeterministic** in the modules of single handlers.
  `current->handler->Int(...)` may answer anything in `Responses(part, event)`.
  A part in the middle of its value is not parsed; one whose value is complete
  is; one that rejects has stored an error. This is an assumption, and it is
  discharged: every composite handler is shown to implement
  `ContractedHandler`, that is to be such a part itself (`ContractKept`), for new
  values, prepared and repeated ones. A scalar handler answers one event and is
  parsed or has an error after it. Where the code is weaker the contract is too:
  a part given a second value without `prepare_for_reuse` may stay `parsed`
  meanwhile, and one whose `Key` or `End` does not fit its own progress may do
  anything. Both happen: `StartObject` forwards a repeated value to a parsed
  member, and `precheck` resets a member in the middle of a repeated object under
  `AllowDuplicateKey`. The first is the action `Again` of objects, maps, pointers,
  conversions and documents (it begins with `StartObject`, which an array refuses
  and about which a tuple promises nothing). No promise covers the second: what a
  document does then is in its module (`Prechecked`), what whole trees do in
  `HandlerTree`, where the parts are the real ones and `TreeKeepsContract`
  checks that they obey.
* **`ContractedHandler` has a variable `text`**, the progress of the value as the
  caller sees it. Without it a handler that accepts a scalar at its root and does
  not become parsed would look like one that was given nothing: a stutter. With
  it every accepted event must be answered by a step, the last one of a value by
  becoming parsed.
* **Data is abstracted.** Names are model values; a scalar is a scalar; an
  element is `"default"`, `"own"` (data of one value), `"mixed"` or `"old"`.
  `nest` keeps per container its kind, the scalars and containers in it, and the
  pending key, which is what `EndArray(sz)`, `Key` and the leaf rules depend on.
  `DomStack` and `HandlerTree` keep the values themselves.
* **Numbers.** `ScalarHandlers` has integers exactly, with `% 2^w` conversions,
  and floating numbers in halves with a mantissa of so many digits, rounded to
  even, without a largest exponent. A cast to an integer type that has no such
  value is undefined in C++; the model lets it wrap, saturate or give the lowest
  value.
* **The caller.** `PrepareForReuse` may come at any time: after a complete text,
  after a rejection, or where the text was malformed or abandoned. `Again`, a
  second value without preparation, comes only after a complete value, and
  begins with `StartObject`, as `ObjectHandler` does it. `SetLimits` comes only
  between texts, as `GlobalConfig`'s own comment demands. `ReapError` comes after
  a rejection.
* **History variables** (`report`, `given`, `counted`, `uses`, `brokenOff`,
  `root`, `length`, `calls`, `strayed`, `isNull`, `cut`, `event`, `before`) are no
  part of the code: they say what was reaped, accepted, counted and received.

Outside the contract, and why it is sound for the modules here: `TupleHander`
swallows the events it has no element for, and is parsed by the `]` that ends it
whatever preceded it, never by a value that is no array, so that it promises
nothing about such a value (`Covered`); `JSONHandler` promises nothing once it was
prepared in the middle of a text (`cut`); `ObjectHandler` itself
is not as good as new after `prepare_for_reuse`, in its limit counters only (see
the findings): as a *part* that may only make it reject, which the contract
allows.

## 3. Runs

All runs are of modules that can stop: the bounds `MaxNesting`, `MaxWidth`,
`MaxReuses`, `MaxValues`, `MaxCalls` end every behaviour, and a program may stop
at any time, so `CHECK_DEADLOCK FALSE` (`ScalarHandlers` never stops and is
checked for deadlock).

| Run | Bounds | Shows |
|---|---|---|
| `object_members` | 2 members and an unknown key, all flags, nesting 3, width 2, two texts or a repetition, no limits (7.8M states) | implements `ContractedHandler`; routing, parts in step, required members, repeated keys, every error justified, names in errors |
| `object_limits` | 1 member, nesting 4, width 2, depth 3 / leaves 2 or unset, changed between two texts (7.9M states) | limits enforced; counters exact (`CountersExact`) and rejections by a limit justified (`RejectionJustified`), for the depth while no text was broken off, for the leaves in the first one |
| `array_handler` | nesting 4, width 3, two texts, container empty or not (115k states) | no element lost or mixed, index in errors, implements `ParsedSequence` and `ContractedHandler` |
| `fixed_array_handler` | 2 slots, up to 3 elements, nesting 3, two texts | slots in order, errors justified, implements `ParsedSequence` with one length, and `ContractedHandler` |
| `forwarding_handlers` | 2 keys, tuples of 2, nesting 3, width 3, three texts or repetitions (2.6M states) | each implements `ContractedHandler`; one cause per error; parts in step, no handler of a destroyed object used; entries, nulls, elements and conversions are the text's; keys and indices in errors |
| `scalar_handlers` | `int` of 3 bits, `int64_t` of 5, mantissas of 3 and 2 bits, all values and all events; 2 names and 2 enumerators, mapped in every way with up to two entries | integers exact for every pair of types; doubles and floats keep what they accept; what is written reads back |
| `entry_points` | 3 calls of every kind, 2 tokens, chains of 2 errors, pops and swaps between them | success means the whole value; each error in one stack, in order, above earlier ones, which no call loses or clears; every call returns with its file closed |
| `json_handler` | 2 keys, 5 values, nesting 3, width 2, two texts, prepared, prepared in the middle, or repeated (106k states) | nothing stale; implements `DomTree` and `ContractedHandler` |
| `tree_reading` | 12 types of all handlers, most in one another; every text of up to 5 values with 2 keys and 4 scalars, nesting 3 (111k states) | concrete handlers keep the contract; tracebacks name the place; write, DOM and read again agree; schema and reader agree |
| `duplicates_detected` | as `object_members` | *violated*: a repeated key with an object value is accepted |
| `map_duplicates_detected` | as `forwarding_handlers` | *violated*: a map with unique keys is given a key twice and accepts the text |
| `limit_rejection` | as `object_limits` | *violated*: a handler used again rejects a text within the limits |

Why the bounds are enough. Two members and an unknown key give every relation
between the current member, the one before, one that is ignored and one that is
absent; width 2 allows a key twice, and three different keys are never needed
for one decision. Nesting 3 is an object in a value in the object, the least in
which `depth` and the real depth differ (array) or a deeper key could be taken
for the object's; the limits need one level more, so that a container ends in a
container in a container. The second text shows what survives `reset`, and a
third sees nothing a second does not, as `reset` overwrites all but the
counters, which the second already meets with arbitrary values; pointers and
conversions have three, because a repetition can follow a preparation. A tuple of
two has a first, a last and, with width 3, a surplus element. In
`scalar_handlers` a double holds every `int` and not every `int64_t`, a float not
every `int`, as on the machines the library runs on, and all values are tried.
Three calls give errors below, of and above one call. Every property has a mutant
of the code (`*_Something` definitions beside the original) that its run refutes.

Liveness and fairness. Handlers do nothing on their own: whether another event
comes is the caller's choice, and each event is answered in the step that brings
it, so their modules state no fairness. A call of `EntryPoints` is different: it
runs in the program's own thread until it returns, through finitely many tokens.
Its `Spec` has `WF_vars(Work)`, weak fairness of the steps of the call under way
and of nothing else (no call is ever bound to begin), and `CallsReturn` says that
every call returns, with the file it opened closed.

Refinement. `ArrayHandler` and `FixedArrayHandler` implement `ParsedSequence`,
`JSONHandler` implements `DomTree`: `Whole`, that is `*m_value` and the stack
over it, is read as the open containers (`Containers`), each with the name below
which it is missing (`NameAbove`). All composite handlers implement
`ContractedHandler`, with their open containers, `is_parsed()` and `has_error()`
for the part (`AsPart`).

### Findings

1. `duplicates_detected`: `StartObject` and `EndObject` forward without
   `precheck`, so `{"a": {...}, "a": {...}}` is accepted without
   `AllowDuplicateKey` and the second object is merged into the first; README.md
   line 169 says duplicate keys are detected. What does hold is
   `RepeatsAreObjects`: only object values can be repeated.
2. `map_duplicates_detected`: `MapHandler` emplaces each entry and ignores what
   `emplace` returns (`stl_types.hpp:594`), so `{"a": 1, "a": 2}` is read into a
   `std::map` without an error and one of the values is lost. The note in
   `examples/failure/duplicate_key.json:50` says that the duplicate key error
   occurs if the map type does not support a duplicate key, and
   `DuplicateKeyError` calls itself "Duplicate key in uniquely keyed map type"
   (`staticjson.cpp:223`); only `ObjectHandler` ever makes one. `EntriesMatchText`
   leaves open which of the values such a map keeps.
3. `limit_rejection`: `reset` leaves the counters of the limits. After a text that
   was broken off, `jsonDepth` makes the next one too deep although it is within
   `MaxDepth`: that is the trace, the shorter of the two. `totalLeaves` counts the
   leaves of all earlier texts against `MaxLeaves`, even when these were complete.
   Both hypotheses of `RejectionJustified` are needed: without `~brokenOff` for
   the depth, or without `uses = 0` for the leaves, `object_limits` fails.

`LimitsEnforced`, `CountersExact` and the last two lines of `RejectionJustified`
state what is true nevertheless: errors are on the side of rejecting, and only a
text before can cause one.

### What the properties exempt

These are behaviours of the code that the properties had to be stated around; the
comments of the properties name them.

* A tuple tests neither that its value is an array (`stl_types.hpp:808`) nor how
  long that is (`:882`): `Covered` in `TupleHandler`, `ElementsInOrder`, and the
  exemption of tuples in `TreeReading`.
* The cast back in `is_out_of_range` (`primitive_types.hpp:42`) cannot tell a
  double just above the greatest 64-bit value from that value, where casts
  saturate; nor can the one of the floating handlers (`:262`, `:307`):
  `DoublesIntegral`, `IntegersKeptByFloats`.
* `Handler<float>::Double` (`primitive_types.hpp:342`) rounds without an error.
* A `FILE*` that is null leaves the status as it was (`staticjson.cpp:746`), and
  no call clears the errors of earlier ones, so a program that uses a status again
  may find only old errors after a call that failed. README.md line 171 says that
  the error information is dumped into the status, and not what becomes of a call
  that has none. `TracebackOfThisCall` states both.
* Under `AllowDuplicateKey` a member that is given an object a second time is
  prepared in the middle of it (`staticjson.cpp:339`): containers inside it are
  forgotten and the rest is refused, or read by a handler that does not know
  where it is. `NothingStale` says that a document is at least never accepted in
  part; `TracebackNamesPlace` leaves such objects out of its last clause; and
  `RejectionJustified` allows that such a member, whose last value is a repeated
  object, is named missing (`MaybeForgotten`), and no other.
* A member that is ignored in reading and not optional is always missing
  (`staticjson.cpp:585`), and the schema does not know: `SchemaAgrees`.
* An enumerator without a name ends `write` (`enum.hpp:52`), and the string
  serialisers return what was written so far (`staticjson.cpp:771`). `RoundTrip`
  says that this is never a JSON text.
* `generate_schema` of a pointer calls `initialize` and so makes an object where
  there was null (`stl_types.hpp:419`, `optional_support.hpp:105`). It is outside
  the model, which takes schemas from types.

## 4. Proofs

TLAPS checks every theorem, for all sets of keys and members, all flags and
limits, all bounds. The only assumptions are those of the modules: the members
are keys, `NoKey` is no key, `Unset` no number, flags and limits are in their
ranges, the bounds and N are naturals, `NoCall` is no call, `int64_t` is at
least twice as wide as `int`.

**ObjectHandler** (`ObjectHandlerProofs`): `TypeCorrect`, `ContractIsKept`,
`RoutingIsCorrect`, `PartsStayInStep`, `RequiredAreGiven`, `ReportsEndInCause`,
`LimitsAreEnforced`, `ErrorsNameMember`; `Exactness`, `RepetitionsAreObjects`,
`RejectionsAreJustified`, `CountersAreExact`.

None of the first is inductive. `RoutedByKey`, for one, depends on the tests
`depth == 1` in `Key`: if `depth` and the text differed, a nested key would be
looked up as the object's own. The invariant `Inv` therefore says, per phase:
while reading, `depth` is the number of *objects* on the stack (so, when the
innermost container is an object, `depth = 1` exactly at the outermost frame);
the outermost frame's pending key determines `current` and `current_name`
(`Routed`); the current part is as deep as the text is or, for a repeated value
under `AllowDuplicateKey`, less deep (`PartsOpen`); a parsed part was given a
value and is not ignored (`ParsedWereGiven`); the counters are not below the
real numbers, `leavesStack` is as high as the text is deep while a leaf limit is
set, and the accepted leaves are within the limit (`CountersInStep`,
`LeavesCounted`, `LeavesAllowed`). "Not below" is what survives the stale
counters of finding 3, and it is enough for enforcement. When an object is
done the required members have their values, and when it is broken an error is
stored, and if it is an `ObjectMemberError` the current part has one too
(`Done`, `Broken`). The step proof classifies an event as a refusal, the
beginning or end of the object, a look-up, or an event of a member's value, shows
each method to be one of them (`ScalarKind` to `EndObjectKind`), and the
invariant to be kept by each.

`Inv` says what an accepted object has; the last four theorems are about the
opposite direction, that nothing is refused without a reason, and rest on a second
invariant, `Exact`, which is inductive only together with `Inv`. Parts: the
converse of `ParsedWereGiven`, that a required member whose value was read and is
complete is parsed, so that what `EndObject` finds missing is missing
(`ReadIsParsed`); a member that precheck has made forget its first value under
`AllowDuplicateKey` is one that was last given an object, which needs that arrays,
whose `StartArray` runs precheck, never lose their place (`ArrayInStep`); a
value given twice is an object as long as duplicates are not allowed, because
every other event runs `precheck` and finds the member parsed (`ReadOnce`); and
the counters *equal* what they count (`jsonDepth` the open containers,
`totalLeaves` the leaves of the text, `leavesStack` the containers ended in each
open one) as long as no text was broken off, or, for leaves, this is the
handler's first (`DepthExact`, `LeavesExact`). The stale counters of finding 3
are exactly where this hypothesis fails. `RejectionsAreJustified` covers all
eight errors, the two limits under these hypotheses.

`TypeCorrect` is more than bookkeeping: `depth`, `jsonDepth` and `totalLeaves`
are decremented in the code without a test, the last two as unsigned numbers,
and stay natural numbers only because of `Inv`.

**ArrayHandler** (`ArrayHandlerProofs`): `TypeCorrect`, `ContractIsKept`,
`ElementsAreInStep`, `ElementsAreUnmixed`, `ReportsEndInCause`, `ErrorsNameIndex`,
and `Refinement`: the initial states and every step map to `ParsedSequence`. `Inv`
says that `depth` is the number of *arrays* on the stack, the container has as
many elements as the outermost array has completed, all of them unmixed, and the element object is as constructed
exactly between elements. The refinement needs it: `Conclude` must find the
sequence open, and an element is added only while reading.

**Assuming and promising.** `ContractIsKept` is proved for every composite handler:
`Spec => Promise!Spec`, where `Promise` is `ContractedHandler`. Each of these proofs
uses of the parts nothing but `HandlerContract`, and what it establishes is
`HandlerContract` again, one level up. So a handler's theorems hold whatever
contracted handlers its parts are, and it may be such a part in its turn. What
remains is the induction over the nesting of types, which is over data
(`TreeKeepsContract` is the model-checked form).

The step is the same everywhere. `EventAnswered` in `JsonReaderTheorems` shows, from
the stack alone, that every event of a text fits a handler that has had the ones
before, and changes its open containers as `OpenAfter` says. It leaves two facts to
each method, and they need the handler's invariant: there is an error exactly if the
method returned `false`; and if it returned `true`, the handler is parsed at the end
of the value, and before that only if it was parsed already. The second is where
the code finds the end of its value by `depth == 1`, by the progress of a part, or, in
a document, by what lies on the stack. Reaping, preparing and repeating map to the
actions of the same names.

**JsonReaderTheorems** has the facts about the stack that all of these need: what
each event does to its length, its outermost frame and the number of open
containers of a kind.

**ScalarHandlers** (`ScalarHandlersProofs`): `IntegersAreExact`, for integer
types of every width. The range test compares after conversion to the common
type, in which a negative number or an end of the other type may wrap. The
argument is that it compares nothing that does: the common type has every value
of both types that is not negative (`CommonTypeHolds`), a conversion keeps the
values of the type it is to (`ConvertKeeps`), and for each combination of signs
the test only converts such values, having tested `n < 0` before
(`RangeTestExact`).

`NumbersAreKept` and `WrittenIsReadBack` add the floating numbers, for mantissas of
every width, of any double (the proof does not use the bound `Halves`). Assumed is
what machines have: integer types are powers of two wide, and a double has every
`int`, on which `Handler<double>` relies when it does not cast back
(`BinaryAssumption`). The laws of powers come from counting subsets, as the
library has none (`PowerDoubles`), and inductions are made over sets that are
named (`Least`, `Reached`). Of rounding four things are needed: it is
idempotent (`StableNat`), leaves what fits the mantissa alone (`ExactNat`), keeps
integers integers (`EvenNat`) and does not pass a power of two (`WithinNat`). The last
says which casts back are undefined: only from the power of two just above the
upper end of the type. There a cast that wraps, or gives the lowest value,
shows the loss, and one that saturates hides it (`CastBackKeeps`), the exception
`NumbersKept` names. The invariant `ScalarInv` says that a parsed handler holds a
value of its class; it is all that reading back needs, with the least mapping of an
enumerator and of its name being the same one when no name is mapped twice.

**FixedArrayHandler** (`FixedArrayHandlerProofs`): `ContractIsKept`,
`SlotsAreFilledInOrder`, `ErrorsAreJustified`, `Refinement`, for every N, zero
included. The invariant is `ArrayHandler`'s with `count` for the length of the
container; `Broken` says in addition that a length error is justified, which
follows from `count` being the number of elements the outermost array has
completed, both when one element more is complete (`Exceeds`) and at the end
(`EndsShort`).

**ForwardingHandlers** (`ForwardingHandlersProofs`): `Invariance`,
`ContractIsKept`, `ErrorsAreCaused`, `PartsStayInStep`, `ValuesFollowText`,
`ErrorsNamePlace`. Each of
the four classes has an invariant of its own, kept by each of its actions and
untouched by the others', since only one of them reads; `ForwardingInv` is
their composition.

* `MapInv`: `depth` is the number of *objects* on the stack, the value handler is
  one bracket less deep than the text, the pending key of the outermost object is
  `current_key`, and `m_value` holds what `EntriesOf` makes of the entries
  given, of which every key has one (`Represented`). The last is where `EndObject`
  at depth 1 must not be taken for an entry's. The invariant says more than
  `EntriesMatchText`, which does not care which value of a repeated key is kept.
* `PointerInv`: there is a handler exactly if there is an object, as deep as the
  text; null is taken for the pointer's own only while there is none. Without the
  equality a `Null` in a value could reset the object whose handler it is for.
* `TupleInv`: the handler at `index` is as deep as the text below the array, the
  ones before are parsed and the ones after have seen nothing; `depth` is the
  number of arrays; the only one with an error is the one `the_error` names.
* `ConversionInv`: the shadow's handler is as deep as the text and not parsed
  before the end, so `from_shadow` runs once per value and on a whole one.

**JSONHandler** (`JSONHandlerProofs`): `DomInvariance`, `NothingIsStale`,
`ContractIsKept`, `Refinement`. That every event finds on `m_stack` what its method
expects depends on everything below it, so the invariant places the whole stack:
there are positions `at` such that the container open i-th lies at `at[i]` of
`Whole`, and directly above it come what `Width` says (the slot of an array's next
element, an object's key and slot, or nothing) and then the next container (`Laid`);
the top is null if a value is expected (`SlotOpen`). Each method keeps this, and
with it the bound of two values per open container.

A handler that `precheck` has prepared in the middle of a text has forgotten the
containers around, and the invariant describes it too (`DomAstray`). They are b objects,
because a repeated value that came through an array or past a scalar would have been
prepared there; what is read since lies on the stack as a text of its own. It
is not an object, as objects do not run `precheck`, so when it is complete the
next `Key` or `EndObject` of the b-th object finds no object on top and calls
`set_corrupted_dom`. Hence no such text is accepted, and no other is refused.

`Refinement` maps the stack to `DomTree` by what lies on it, not by the reader's
frames: `Open` lists the elements of `Whole` that are containers, the j-th being the
one with j containers up to it, with the names above them. `OpenFound` proves that
these are the values at `at`, in their order, with the keys of the frames: no
completed container is left on the stack, and no string on it is taken for a
name. Then `Begin`, `Name`, `Place` and `End` follow from what each method does
to the innermost position and leaves alone below it. Where the handler is astray
or prepared the mapping is to `Renew`: the tree is given up, and by `NothingStale`
no accepted text ends so.

**EntryPoints** (`EntryPointsProofs`): `OwnershipIsUnique`,
`TracebacksAreOfThisCall`, for every way a call returns. That the two stacks have
no error in common and none twice (`Apart`) is kept by `push` only because every error on them is of an
earlier call: `LastOwner` is the last call that may own one, the one before while
a call is under way and after one that returned true. `Progress` says what the
errors of the call under way are, and that there are none unless it was rejected.

Only model-checked, because out of the prover's reach: `CallsReturn`, which is
liveness, and everything in `HandlerTree`, `HandlerOutput` and `TreeReading`,
whose operators are recursive over types and values.

## 5. Not modelled

The memory pool (`mempool` in `basic.hpp`: strings and maps that take memory from
an allocator that only grows; nothing a handler does depends on it), the
namespace aliases in `autojsoncxx`, the wording of messages and descriptions, the
offset in a status, the characters of numbers and strings and of pretty output
but its last newline, the numeric ranges in schemas of integers,
`generate_schema`'s effect on pointers (above), `int depth` overflow (2^31 open
brackets). `HandlerTree` has no limits: they are in `ObjectHandler`, whose counters
see the whole text below the object they belong to, and no other handler has any.
C++ exceptions (allocation, copy constructors of maps) leave a handler's
invariants open and are not considered. User code (`ObjectTypeHandler`,
`Converter`, a `Handler` of one's own) appears as what the contract lets it do.

## 6. State

Modelled: every handler, alone and nested, reading and writing; the DOM, the status
and the calls; the abstract sequence, tree and part; liveness of calls. Proved:
every property of a handler taken alone, the contract its neighbours rely on, and
the refinements. What stays with TLC, and why:

* `TreeKeepsContract`, `RoundTrip`, `SchemaAgrees`, `TracebackNamesPlace`
  (`tree_reading`): what `HandlerTree` and `HandlerOutput` compute is defined by
  recursion over types and values, and the theorems would be inductions over
  these. The step of the induction for the contract, one handler over contracted
  parts, is what `ContractIsKept` proves.
* `CallsReturn` (`entry_points`): liveness under fairness.

Not done, should the project go on: `HandlerTree` as functions over a set of types of
bounded height, so that the induction can be made over a named set, as
`ScalarHandlersProofs` does over numbers.
