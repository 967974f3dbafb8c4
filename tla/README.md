# snmp-stream: specification

TLA+ models of `snmp-stream`, a C++ library with Python bindings that collects
SNMP tables from many devices in one thread. Paths below are relative to
`src/`; `session.cpp` and `types.cpp` are in `snmp_stream/_snmp_stream/`,
`session.hpp` and `types.hpp` in `include/`.

Contents: [The system](#the-system) · [Modules and the code](#modules-and-the-code) ·
[Model checking](#model-checking) · [Fairness](#fairness) · [Proofs](#proofs) ·
[Findings](#findings) · [Observations](#observations) ·
[Walks and endOfMibView](#walks-and-endofmibview) · [Not modelled](#not-modelled) ·
[Order of work](#order-of-work)

## The system

A caller builds `SnmpRequest`s (a GET or a WALK of some root OIDs, optionally
restricted to ranges of the index below them), adds them to a `SessionManager`,
and calls `run` until it returns None. `run` gives each request a `Session`
(one net-snmp connection) as far as the limits on concurrent sessions allow,
and drives the sessions with `send` and `read` until one of them is closed. A
session keeps one `CollectionHead` per root OID and range: a cursor that is put
into a request PDU, moved by the answers, and erased when it is complete.

| Component | State | Operations | Talks to |
|---|---|---|---|
| OIDs and ranges (`types.hpp`, `types.cpp`) | values | comparison, `is_root_of`, `ObjectIdentityRange` constructor and `<`, `optimize_ranges` | used by all |
| `Config`, `SnmpRequest` | values | constructors and what they refuse, `config << config` | built by the caller, again by `add_request` |
| `CollectionHead` (`session.hpp`) | root OID and index, range, `req_oid`, `last_resp_oid` | constructor, `get_next_req_oid`, `clear_req_oid`, `is_active`, `is_complete` | owned by a session |
| `Session` | status, heads, results, errors | constructor, `send`, `read`, `process_pdu`, `process_var_bind`, `get_response` | net-snmp by calls, net-snmp back by callback |
| `SessionManager` | config, queue of requests, list of sessions | `add_request`, `run` | sessions by calls |
| Wire format | bytes of a response | `append_result`, the header of the constructor | read by consumers elsewhere |
| Python façade (`__init__.py`) | none | `ObjectIdentity`, `to_object_identity`, `to_object_identity_range`; `get`, `walk`: one `add_request`, then `run` | the manager |
| Bindings (`module.cpp`) | none | pickling, which runs the constructors of a request and its ranges again | `SnmpRequest` |
| net-snmp (external) | the PDU in flight, its timer, its retries | callbacks | the session, the agent |

What is hard here:

- **Callbacks.** `read` ends inside net-snmp, which calls `process_pdu` for an
  answer, a resend, a timeout, a failed resend or a disconnect. One function
  handles all of them and ends in one loop over the heads.
- **The peer.** Nothing obliges it to answer what it was asked: bindings come
  back repeated, out of order, from other tables, or not at all. Whether a walk
  ends, and whether it is complete, depends on how the cursor treats them.
- **Matching by content.** The heads rotate while PDUs are built from them, and
  an answer is matched to heads by OID, not by its place in the reply.
- **Several sessions in one thread.** A session that waits blocks the others in
  `select`; one session's exception leaves `run` with the others half-way.
- **Limits.** Each request brings its own `max_async_sessions`, and the
  strictest one among the active requests rules.
- **Ranges.** An `operator<` of eight returns under `std::sort`, and a merge loop
  that relies on its order; the result passes through the same code again when
  the request is queued, and whenever it is pickled. Stops are compared as plain
  OIDs there, and as roots of what they take when answers come in.
- **Bytes.** Sizes are computed in one place, positions in another, and both are
  aligned; the consumer knows neither, only the table of `README.rst`.
- **Spellings.** Two functions of the façade read the text of an OID, each in its
  own way, and an OID can be written in five.

What makes each component correct:

- *OIDs and ranges*: the order is a strict weak order; optimization keeps what
  the ranges cover and what a walk takes with them, leaves them apart, and is
  idempotent.
- *Session*: it always has a PDU in flight when it waits; heads and PDU agree;
  results are below the roots asked for, increasing, never taken back; it gives up
  what it was asked for only with an error or an answer to it, a resend aside; it ends
  whatever the peer does; against an agent that answers in whole rows a walk is complete.
- *SessionManager*: no request is lost or answered twice, requests are served
  in order, limits hold, None means nothing is left, `run` returns; in all, it is
  a queue.
- *Wire format*: what a consumer reads is what was collected.
- *Façade*: however an OID or a range is written, what was meant is requested.

## Modules and the code

| Module | Models | Notes |
|---|---|---|
| `Oids` | `ObjectIdentity` | an OID is a sequence of naturals; `std::optional` is a sequence of at most one element |
| `Loop` | a for-loop over a container | a recursive function with the body as parameter, so that one proved rule serves every loop |
| `SnmpRequests` | `Config`, `ObjectIdentityRange`, `SnmpRequest`, `optimize_ranges`, `test_ambiguous_root_oids` | operators only; `…Throws` is what a constructor refuses |
| `Facade` | the conversions of `__init__.py`, `oid_to_string` | a text is what `split('.')` makes of it; `OidArgument` and `RangeArgument` are the ways to write one |
| `RequestRanges` | a request from the caller to the queue | `Call` is `get` or `walk`, `Build` the constructor of `SnmpRequest`, `Enqueue` the second construction in `add_request`, `Pickle` the one after reading it back |
| `CollectionHeads` | `CollectionHead` | `Activate` is `get_next_req_oid`, `Accepts` the matching of `process_var_bind` |
| `SessionHandlers` | the member functions of `Session` | each an operator from session object to session object |
| `SessionStatus` | `SessionStatus` and its transitions | |
| `SessionLifecycle` | what the manager may expect of a session | the abstract specification: what a call of send, and a callback in read, may do to the status and the PDU in flight |
| `Session` | a session on its connection | `session` is the object, `in_flight` and `resends` are net-snmp's |
| `Agent` | an SNMP agent (external) | which replies a request PDU may get |
| `SessionAgent` | `Session` and `Agent` | the response compared with what the agent holds |
| `WireFormat` | the header and the records in memory, and the consumer of `README.rst:76-126` | a byte is the k-th of a number; `Copy` is `memcpy` |
| `SessionWire` | `SessionAgent` and `WireFormat` | the bytes compared with the session and with the agent |
| `SessionManager` | the manager | `pc` says where `run` is, `it` is its iterator |
| `RequestQueue` | what the caller may expect of a manager | the abstract specification |
| `ManagedSession` | `SessionManager` and `Session` | a manager with a real session in its list, one at a time |
| `MC…` | small instances | constants only |
| `…Proofs` | see [Proofs](#proofs) | |

`SessionAgent` composes `Session` and `Agent`; `SessionManager` composes its
sessions through `SessionStatus` and not through `Session`, which is what makes
it small enough to check with several of them. That the view through the status is right is
the refinement `ImplementsLifecycle`: every behaviour of `Session` is one of
`SessionLifecycle`, which sees of a session its `status`, whether a PDU is `pending`,
how often it has been sent again (`resends`), and how often it may be (`retries`).
`ManagedSession` puts one real session at a time into the list. It takes from
`SessionManager` what `run` does with a given status (`PromoteAs`, `SendAs`,
`ReadAs`), without the guards of `SessionManager` on what that status may be; the
status is whatever `Opened`, `Send` or `Read` of `Session` leaves. That it is always
one `SessionManager` allows is the refinement `ImplementsManager`. Towards the caller the manager
implements `RequestQueue` (`ImplementsQueue`): its queue is `waiting`, the requests
of its sessions are `running`, those of `responses` are `finished`, and the
answered ones `delivered`.

### Session, action by action

| Action | Code |
|---|---|
| `Init` | the constructor: `Opened`, or `OpenFailed` when the connection cannot be opened (status CLOSED with a SESSION_ERROR) |
| `SendNoPdu` | `send`, `snmp_pdu_create` fails |
| `SendTaken`, `SendRefused`, `SendDivides` | `send` after the PDU was filled: handed over; refused by `snmp_sess_async_send`; stopped by the division by the number of bindings |
| `Receive`, `ReceiveNull` | `read`, callback RECEIVED_MESSAGE with a reply, or with none |
| `Resend`, `TimedOut`, `SendFailed`, `Disconnect` | `read`, the other callbacks |
| `Done` | the session is over; `run` hands its response out |

`send` and `read` are no-ops on a session that is not IDLE or WAIT, so the
actions have those guards. `Fill` is the whole loop of `send`: which OIDs
net-snmp takes is chosen at once (`taken`), pass by pass. The epilogue of
`process_pdu` (erase complete heads, reset the others, close when none is left)
is part of every callback, resend included.

A result keeps the fields of its record: the root index, the index part, the
type; and, as history, the OID it came from. Values, and the bytes of
all this, are a function of the result and come in with `WireFormat`. Timestamps
and the wording of errors are left out.

### The bytes of a response

`WireFormat!Wire` is what the constructor of `Session` and the calls of
`append_result` leave in the vector of results: it grows by `SYS_ALIGN`ed sizes
(`Zeros`), and each field is copied to the position the sizes before it add up to
(`CopyField`). A byte is `<<n, k>>`, the k-th byte of the number n in memory, so
that a byte that was overwritten, moved or never written shows; the order of the
bytes within a number is the machine's, on both ends. `Consume` is the other end:
it reads the tables of `README.rst:76-126` from front to back, and knows of the
sender only what the header says of its word and octet sizes. It is no code of the
repository, which has no consumer; it makes the documented format a definition.
The code compiles only where net-snmp's `oid` is `uint64_t` (`oid_to_string`, in
`utils.hpp`, takes nothing else), so that words and octets are both of 8 bytes.

### SessionManager, action by action

| Action | Code |
|---|---|
| `AddRequest` | `add_request` |
| `CallRun`, `Return` | the caller calls `run`, `run` returns |
| `Promote`, `PromoteThrows`, `PromoteDone` | one pass of the promotion loop, the constructor of the session throwing, the end of the loop |
| `PerformIo` | the condition of the loop "while every session is active" |
| `SendNext`, `ReadNext` | one step of the passes of `send` and `read` over the list |
| `CollectClosed`, `CollectSkip`, `CollectDone` | one pass of the loop that collects responses |

`it` follows the code's iterator: `erase` and `--it` at the first session steps
before `begin()`, which in the circular lists of libstdc++ and libc++ is
`end()`, here 0. A request is known by its place in the order of submission.
A session's reads are counted, and bounded by `MaxReads`: a session is closed
after at most so many reads, which is `EventuallyOver` of `Session` made finite.

## Model checking

`tlc -config <Run>.cfg <Module>` for each row.

### Runs that pass

| Run | Module | Question | Properties |
|---|---|---|---|
| `SessionAnyPeer` | `MCSession` | does a session keep its invariants and end, whatever the peer answers and whichever call fails? | `TypeOK`, `OneInFlight`, `HeadsMatchRequest`, `NoHeadLostSilently`, `PduWithinLimit`, `ResultsUnderRoot`, `WalkIncreasing`, `OnlyGrows`, `AnswerAdvances`, `EventuallyOver`, `ImplementsLifecycle` |
| `SessionAgent` | `MCSessionWire` | against an agent that answers in whole rows, is what is collected, and read back from the bytes, what the agent holds? | `WalkComplete`, `GetAnswered`, `OnlyValuesCollected`, `ResponseReadable`, `ConsumerReassembles` |
| `Manager` | `MCSessionManager` | what may `run` never do, with requests under different limits and one whose session cannot be built? | `TypeOK`, `ConcurrencyLimit`, `EachRequestOnce`, `FirstComeFirstServed`, `NoneMeansEmpty`, `ImplementsQueue` |
| `ManagerSerial` | `MCManagedSession` | with one real session at a time and any peer, does every call return and every request get its answer, and is that a manager? | `MaxReadsSuffice`, `NeverSpins`, `ImplementsManager`, `RunReturns`, `AddedIsAnswered` |
| `Ranges` | `MCRequestRanges` | what becomes of every small list of ranges, from the caller's spelling to the queue? | `RangesOrdered`, `IntervalsKept`, `TakesKept`, `RangesApart`, `SpellingKept`, `RebuildKeepsRequest` |

**SessionAnyPeer.** Walks of one and two roots, with no range, a point, and two
ranges (so up to four heads), as SNMPv1 and SNMPv2c, and gets, with and without
a point range; 0 or 1 retries; a limit of 1 (one head per PDU: the heads
rotate) and of 5 (several heads per PDU, and a GETBULK whose limit is not a
square). The peer answers with any list of up to two bindings over five OIDs (a
root itself, two instances of one table, one of the other, one of nobody's),
values or end-of-view markers, with an error status pointing at a binding or at
none, or with something that is no response. Every fault is enabled: opening
the session, allocating the PDU, any subset of its OIDs, handing it over, a
null reply, a failed resend, a disconnect. The OIDs of the replies are finite,
so the results of a walk are bounded by `WalkIncreasing`, and the state space
needs no constraint. Two bindings are enough to answer one head twice, two heads
in either order, or a head and a stranger; one retry is enough for an answer that
comes after a resend.

`NoHeadLostSilently` looks at every step that drops a head or closes the session, and
at the heads before the step, so that what the epilogue erases counts. There are three
ways for a head to go: the session ends with a fatal error of that step; the OID to be
asked for next is refused, and an error names it; or the head's PDU is answered, and a
walk took nothing from the answer for it. Steps that send the PDU again are excluded
by their guard, `resends' <= resends`: they drop the heads behind the PDU with neither
(finding 1). An answer that drops a head may be empty or incomplete; whether the
head was complete is what `WalkComplete` and `GetAnswered` are about.
`ImplementsLifecycle` has the transitions of each call: a send that does anything finds
an idle session with no PDU pending and leaves it waiting with one, or closed; a read
that does anything finds a waiting one, and its callback ends the PDU, counts a resend
of it (at most `retries`), or leaves it behind with the session closed.

**SessionAgent.** Every limit from 1 to 6, walks of one table, two tables, a
table that does not exist between two that do, the whole MIB, and a subtree of
a table; gets of OIDs that exist, do not, and a mixture. The agent holds two
tables (one with an instance below another) and a neighbour behind them, so
that a walk overshoots its root, and the last walk runs into the end of the
MIB. It may cut a GETBULK reply at any binding behind the first repetition; as
SNMPv1 it refuses a PDU at the first OID it does not have. Every fault of `SessionAnyPeer` is
enabled; the responses of sessions that end early are read too. Resends, ranges and
replies that end within the first repetition are left out of this run because the code does not keep
the property under them: see [Findings](#findings). An SNMPv1 walk that runs
into noSuchName ends with an error, and `WalkComplete` speaks of walks that end
without one. The responses are read with no request ID and with IDs, and hold
values, of lengths shorter than a word, equal to one, and one beyond; the sizes
in whole words are the same for all lengths between.

**Manager.** Seven requests: one that brings no limit (the manager's 3 applies),
limits 3, 3, 2, 1, 3, and one of 2 with a range whose session cannot be built, added
at any moment the caller holds control. A session may take up to three reads.
The first three may run together, which is enough for the collect loop to erase the
first session, the only one it ever erases, with none, one and two behind it, open or
closed; then a stricter request waits for wider ones to end,
and a wider one for the strictest.

**ManagerSerial.** `ManagedSession`, with `max_async_sessions = 1`: one session at a
time is what `get` and `walk` of the façade come to, with one request each. Three
requests follow one another: a walk with GETNEXT of two tables, one OID per PDU; a
get; a walk with GETBULK; the latter two with a retry. The peer answers with any
list of up to two bindings over five OIDs, an error, or no response, and every fault
of `SessionAnyPeer` is enabled; sessions that could not be opened stand in the list
before the one that was. A session is to end of itself: `EnoughReads` asks for a `MaxReads` above
`MostReads`, one read for each sending of a PDU, for each head and each OID of
`Answerable` (those of the requests and those the peer may name), which is 26 here, and
`MaxReadsSuffice` says that no session reaches it. `ImplementsManager` says that the
sessions, with their own send and read, do to the list what `SessionManager` lets a
session do. `NeverSpins` says that the loop
that collects responses, which goes on only from a session that is closed, never
comes to one that is not. `aborted` counts as a return, since the process is gone
(finding 5). Nothing of the kind can be claimed for two sessions: `run` may then
hang, which `ManagerHang` shows.

**Ranges.** Every list of up to two ranges whose bounds are indexes of up to two
arcs out of two, or missing, and every list of three over five shorter bounds;
probed with every index of up to three arcs out of three. Three ranges
are enough for transitivity of the order and for a range that is swallowed
after a merge; two places are enough for bounds that lie below one another. Beside
these, requests that are refused: without OIDs, with OIDs below one another, with
ranges whose ends are in the wrong order, a get of ranges that are no points.
Each is written in five styles: as `str()` prints OIDs, without the leading dot,
as numbers, as objects (and the empty OID as None), and a point as a single OID.
A request may be pickled as often as one likes, before and after it is queued.
The system stops when the request is refused, so deadlock is not checked.

### Runs that find a violation

`SessionRetry`, `SessionRangeIndex`, `SessionLateRange`, `SessionShortReply`,
`SessionZeroLimit`, `ManagerHang` and `ManagerPoison` each check one statement
of the documentation or of a comment, on the smallest instance that shows how
the code departs from it: see [Findings](#findings).

## Fairness

`Session!FairSpec` has weak fairness of `Send` and of `Read`. `run` calls both
on every session in every pass of its loop (`session.cpp`, "perform IO until at
least one session has completed"), `Send` stays enabled while a session is
idle, and a `read` comes back at the latest when the timer of the PDU in flight
expires, because `snmp_sess_select_info` hands that timer to `select`: then
`snmp_sess_timeout` reports a resend or a timeout. Nothing is assumed of the
peer: weak fairness of `Read` is satisfied by timeouts alone. A read that ends
without a callback (a stray datagram) is a stuttering step; that such reads are
not repeated for ever is the timer again.

`SessionManager!FairSpec` and `ManagedSession!ManagedFairSpec` have weak fairness of `Run`, the steps of the thread
inside `run`, and of `CallRun`: the documented caller calls `run` in a loop
until it returns None. `AddRequest` has no fairness. That a session ends is the
bound `MaxReads`, which stands for `EventuallyOver` of `Session`. It bounds the
reads, not the passes of the collect loop. In `ManagedSession` it never takes
effect (`MaxReadsSuffice`, proved as `ReadsSuffice`), and that a session ends follows
from what `Session` does.

## Proofs

`tlapm <Module>.tla`; no theorem depends on an instance of TLC.

| Module | Theorems | Meaning |
|---|---|---|
| `LoopProofs` | lemmas | the rules for loops that the other proofs use |
| `OidProofs` | lemmas | the order of OIDs is strict and total, `is_root_of` is a partial order, and both survive a root in front; optional values |
| `RequestRangesProofs` | `RangesAreOrdered`, `SpellingIsKept`, `RangesKeepIntervals`, `RangesKeepTakes`, `RangesComeApart`, `RebuildingKeeps`, `BuiltIsWellFormed`, `HeadsNeedStops` | `[]RangesOrdered`, `SpellingKept`, `[]IntervalsKept`, `[]TakesKept`, `[]RangesApart`, `RebuildKeepsRequest`; what the constructor lets through is well formed; which ranges a head refuses |
| `SessionProofs` | `TypeCorrect`, `PduInFlight`, `LifecycleImplemented`, `HeadsNotLost`, `ReportsOnlyGrow`, `PduLimit`, `HeadsMatch`, `ResultsRooted`, `WalkIncreases`, `AnswersAdvance` | `[]TypeOK`, `[]OneInFlight`, `ImplementsLifecycle`, `NoHeadLostSilently`, `OnlyGrows`, `[]PduWithinLimit`, `[]HeadsMatchRequest`, `[]ResultsUnderRoot`, `[]WalkIncreasing`, `AnswerAdvances`; before them, lemmas on what each member function of `Session` keeps |
| `SessionAgentProofs` | `WalksComplete`, `GetsAnswered`, `OnlyValues` | `[]WalkComplete`, `[]GetAnswered`, `[]OnlyValuesCollected`, against an agent that answers in whole rows |
| `SessionWireProofs` | `ResponsesReadable`, `ConsumersReassemble` | `[]ResponseReadable` against any peer, `[]ConsumerReassembles` against an agent that answers in whole rows |
| `SessionManagerProofs` | `ManagerTypeCorrect`, `NoneOnlyWhenEmpty`, `InOrderOfSubmission`, `WithinLimits`, `NoneLostNoneTwice`, `ManagerIsQueue` | `[]TypeOK`, `[]NoneMeansEmpty`, `[]FirstComeFirstServed`, `[]ConcurrencyLimit`, `[]EachRequestOnce`, `ImplementsQueue` |
| `ManagedSessionProofs` | `ManagerImplemented`, `NeverHangs`, `ReadsSuffice`, `SessionsSound` | `ImplementsManager`; `[]NeverSpins`; `[]MaxReadsSuffice`; `[]` of `OneInFlight`, `HeadsMatchRequest` and `WalkIncreasing` for the session a manager drives |

**Assumptions.** Of a session: `RequestsAssumption` (the requests are well
formed, that is, as the constructor of `SnmpRequest` leaves them, with a full
config) and `FaultsAssumption` (the faults are among the named ones). Nothing
is assumed of the replies: `Receive` takes those that are decoded PDUs,
whatever the peer sent. Of the manager: `ManagerConfigAssumption` and
`SubmissionsAssumption` (the configs and requests got past their constructors)
and `MaxReadsAssumption`. Of the requests on their way into the queue:
`GivenRequestsAssumption` (they have the types of a request). `BuiltIsWellFormed`
shows that a request that got past the constructor is what `RequestsAssumption`
asks for.

The theorems of `SessionAgentProofs` have two hypotheses of their own, and are false
without either. `WholeRows`: the replies are among `WholeRowReplies`, so that the
agent keeps to the protocol and answers each OID it was asked for at least once
(finding 4 is a reply that does not). `Plain`: no request has ranges or retries
(findings 3 and 1). The MIB is any finite set of OIDs, all faults may occur, and
the run `SessionAgent` is an instance of both hypotheses.

Of a manager with its sessions: `OneAtATime` and `QueuedRequests` (the manager's limit
is 1, and its sessions take the requests of its queue), and `SomeSubmission` (there is
a request at all). `EnoughReads` asks for limits above 0, because under a limit of
0 a get or a GETNEXT walk asks for nothing for ever (finding 5 and what is noted
with it), and for a `MaxReads` above what a session takes: of the code it assumes the
former alone, as `MaxReads` is the model's. `ReadsSuffice` and `ManagerImplemented` have the
hypothesis `AnswersWithin`: what a peer names in an answer without an error is in the
finite set `Answerable`. The OIDs that a message can carry, of at most 128 arcs of
32 bits, are such a set; the run `ManagerSerial` is an instance. `NeverHangs` and `SessionsSound`
assume nothing of the answers.

Of the bytes, `PlatformAssumption` says that words and arcs have some size, and
`RequestIdsAssumption` that IDs are texts; `ValuesAreBytes`, a hypothesis of the
theorems in `SessionWireProofs`, says the same of the values. A byte is
`<<n, k>>`, so that every count fits into its word: that a length stays below 2^64
is not modelled. `ConsumersReassemble` needs `WholeRows` and `Plain` as well.

**Loops.** `send` and `process_pdu` run loops over heads and bindings, which
are `Loop!Run` with the body as parameter. `LoopProofs` shows that the recursive
function behind `Run` exists, by an induction over the natural numbers that it
derives from their well-foundedness (`Induction`, `IterationExists`), and gives
the rule of the loop once, for a property given as the set of the loop states
that have it (`RunInvariant`), or as such a set for each number of passes
(`RunInvariantAt`). `FillType`, `VarBindsType`, `FillReports` and
`VarBindsReport` are instances of the rule.

**Session.** The invariant is `IInv == TypeOK /\ OneInFlight`: that a waiting
session has a PDU in flight needs the types of the handlers' results and
is preserved together with them. `InitIInv` and a lemma for each of send and
read prove it. For `LifecycleImplemented` the initial states
map to initial states of `SessionLifecycle`, every path through `Send` to its `Send`
(`SendLifecycle`; the division by zero, which ends the process in the middle of one,
to a stutter), and every callback to its `Read` (`ReadLifecycle`). `ReportsOnlyGrow` relies on what each handler does to
results and errors: it appends. A session that is open has no fatal error (`Quiet`); a
fatal path appends one and closes (`Closing`); the loops add warnings and
errors that are not fatal; the epilogue adds none, and closes a session only
when it has no heads left. `PduLimit` is arithmetic: the loop's guard gives `n <= max` for a
plain PDU and the division gives `n * (max \div n) <= max` for a GETBULK.

**Heads.** Three invariants, each inductive on top of those before it.

- `HeadsAsked`: an idle session has heads, none of them active; a waiting one has
  the heads of its PDU at the end of the list, in the PDU's order, asked for and
  not answered, unless the PDU was sent again. It holds because the loop of `send`
  rotates exactly the heads whose OIDs were taken, and because the epilogue leaves
  no head active. `HeadsMatchRequest` follows from it.
- `Rooted`: both ends of every head's range lie below its root OID, and every result
  completes a root OID. An OID that lies between two OIDs below a root, or below
  one of them, lies below the root too (`OidProofs`), which is why what
  `process_var_bind` accepts is always long enough for its index.
- `Ordered`: the heads have different indexes, and every result of a walk lies
  behind the cursor of the head with its index. One binding adds at most one
  result, beyond that cursor, and moves the cursor there; sending forgets the
  answer but asks from it. `WalkIncreasing` follows, and `AnswerAdvances` from the
  same lemmas for one callback.

`HeadsNotLost` rests on the first and the last. In the loop of `send` a head either
rotates or goes with an error that names the OID it would have asked for
(`SendLosesNone`). A callback that is neither fatal nor a resend runs the loop over the
bindings on the session's heads, and the epilogue keeps every head that is not
complete (`EpilogueKeepsAll`). A head that is gone was therefore complete, that is
asked for: by `HeadsAsked` its OID is in the PDU. And it has no answer, so that by the
credit each result gives to a head (`VarBindsCredited`) none of the new results of a
walk is its own.

**Ranges.** `RangesAreOrdered` goes through the branches of `operator<` with the
totality of the order of OIDs. `SpellingIsKept` needs to know what the
comprehension of `to_object_identity` does to a text of any length; that is
`RunInvariantAt` with the part of the text read so far. `HeadsNeedStops` says
which requests finding 7 is about.

What the sort leaves is defined by what it is (`SortedRanges`: the sequence of these
ranges in which each comes before those behind it), and not by a recursion over the
list, which is what makes it provable. That there is such a sequence follows by
counting: each range goes to the place that the number of ranges before it gives it.
That there is only one follows from the first place where two of them would differ.
On sorted ranges the merge loop has the invariant `MergedUpTo`: the ranges it holds
come in order, do not touch, and cover what the first ones read so far cover.
`RangesKeepIntervals`, `RangesComeApart` and, where no stop lies below another,
`RangesKeepTakes` are read off its end, for any number of ranges. Ranges that come in
order and do not touch go through the sort and the loop unchanged; with `BuiltInv`, which says
that the request in the caller's hands and the queued one are requests the constructor has
made, that is `RebuildingKeeps`.

**Agent.** A finite set of OIDs has a first one, by counting what comes before each
(`FirstOid`), so that the agent's successor is well defined; the bindings of a GETBULK
reply are, column by column, chains of successors (`BulkBindingsAre`, `Chained`), each
of which begins in the first row. The invariant of a walk, `Keeping`, has three parts.
`Placed`: each head keeps the root OID it was made for, no two have the same, and none asks
for anything outside of its root. `Covered`: every instance that is wanted and not yet held
lies ahead of the cursor of a head of its root. `Genuine`: what is held is held by the
agent and wanted. Within an answer it takes one more, `Reached`: every head that
was answered has come at least as far as the last successor it was told of. It is why a
binding that moves a cursor passes no instance by, although bindings are matched to heads
by OID and a repetition of one head's column may move another one (`NothingBetween`), and
why the epilogue erases only heads with nothing ahead (`NothingAhead`): their first row led
out of their root, or to the end of the MIB.

The invariant of a get, `Accounted`, says of every OID asked for that either a head still
pursues it and neither a result nor an error names it, or none does and exactly one
names it, once. Filling a PDU either rotates a head or drops it with an error that
names it (`PassMoves`); an answer gives each head of the PDU a result or a warning, and the
epilogue erases it (`AccountedBut` is the invariant in between).

**Bytes.** `Has` says that bytes lie at a position of a buffer, and is kept by whatever
is appended or copied behind them (`HasInside` puts a block within a block). A number, a
text or an OID that lies somewhere is read back from there (`ReadNumberHas`,
`ReadCountedBytes`, `ReadCountedArcs`): the bytes of a number in the middle of a row are
found by a division (`Quotient`). The seven fields of a record lie at the sums of the
aligned sizes before them (`RecordHas`), and its size in words is what separates it
from the next (`RecordsRead`). Header and records are loops, so `Laid` is their
invariant: the blocks written so far lie one behind the other, and
nothing that was there has moved. On the way back, the consumer is a recursive
function of the position; it exists because each record ends behind its start,
and what it reads is settled from the last record to the first. No property of the
session is needed but its types (`ConsumeGivesBack`). What a walk's consumer puts
together is then, by `ResultsUnderRoot`, the names of the results, and by
`WalkComplete` those the agent holds.

**Manager.** `TypeOK` says where `it` stands: at `end()` or in the list, and on a
session in the passes of `send` and `read`. To be inductive it needs that the list is not
empty while IO goes on (`Positions`) and that the reads of a session that is open are
below the bound (`ReadsBound`); `IInv` is their conjunction. `Positions` also says that
the collect loop ends at `end()` only when there is a response, which with the list that
is not empty is all of `NoneMeansEmpty`. `ConcurrencyLimit` is then
inductive on top of it: a promotion is within the limit of the new session and of
every active one, and every other step leaves no more sessions active, and none under another limit (`FewerLimited`). `EachRequestOnce`
counts: the lengths of the four sequences add up to the requests added, and
together they hold every one of them (`Accounted`), so none is there twice; and `responses` is empty outside of the collect loop
(`NothingHeld`), so that `CallRun` and an exception lose nothing. `ManagerIsQueue` maps each
action to one of `RequestQueue` or to a stutter: `AddRequest` submits an identity
that `Accounted` shows to be new, `Promote` starts, `CollectClosed` finishes, and
`Return` delivers, or stutters when there is nothing to deliver.

**A manager and its sessions.** `ManagerInv` is what one session at a time gives the
list: all sessions of the list but the last are closed
(`OnlyLastOpen`), and the collect loop erases the first one and is then at `end()`
(`Positions`). When IO ends one session is closed, hence the first, and
`NeverSpins` follows. `StatusLinked` says that the last session of the list has the
status of the object, and `SessionSound` that the object has the invariants of a
session; `SoundInv` is all three, and what `SessionsSound` reads off.

How long a session lasts is bounded by a measure. `Outstanding` is the set of
pairs of a head and an OID of `Answerable` that the head may still ask for, and no handler adds
to it (`Narrows`): a head only moves on or is erased. Filling a PDU takes at least
one pair away (`ChosenLess`), as a head that asks from an OID cannot come to that OID
again; this is where a limit above 0 is needed. A PDU is sent at most
`retries + 1` times, and each read uses up a sending of the PDU in flight or ends the
session. `ReadsLeft`, the sendings for each pair outstanding and those of the PDU in
flight, therefore loses one with every read (`ReadLeaves`) and gains nothing by sending
(`SendLeaves`). `Linked` ties this to the list: the last session is made for the object's
request, and its reads and `ReadsLeft` together stay within `MostReads`. `ManagedInv`, which adds it to `SoundInv`
and to what the measure needs of the session (`SessionInv`), is inductive, and
`MaxReadsSuffice` follows.

`ManagerImplemented` has to show of each status that the list takes over from the
object that `SessionManager` would have let it be there. A constructor leaves a session
idle, or closed; that and its throwing on the same requests is
`PromoteImplements`. A send moves an idle session to waiting or closed and a read finds
it waiting: `PassImplements` gets both from the theorem about the lifecycle, by
`SendLifecycle` and `ReadLifecycle` and the link between object and list. What is left
is the guard that a session may not take its last read and stay open, which is
`MaxReadsSuffice` in the next state. So everything proved of `SessionManager`, its
queue included, holds of a manager that drives real sessions one at a time.

**Only model-checked.** The liveness properties (`EventuallyOver`, `RunReturns`,
`AddedIsAnswered`): the proof system does not treat fairness. What they rest on is
proved: a session has finitely many reads left and loses one with each
(`ReadsSuffice`), and the loop that collects responses does not spin (`NeverHangs`).

## Findings

Each is a run whose property TLC refutes. Paths and lines are those of
`src/`.

1. **A resend ends the request** (`SessionRetry`, `RetryIsNotTheEnd`) — *the
   resend finding*. When an answer is late and retries are left, net-snmp sends
   the PDU again and calls `process_pdu` with OP_RESEND. The switch only logs
   (`session.cpp:321`), and the epilogue behind it (`session.cpp:326-342`) takes
   the heads of the PDU, asked and not answered, for complete. If they are all
   the heads there are, the session closes without an error and with whatever
   it had; otherwise it waits on, for an answer that matches no head any more.
   `README.rst:163`: retries are the "Number of retries for the same PDU before
   the request is terminated".
2. **The root index counts heads** (`SessionRangeIndex`, `RootIndexNamesRoot`).
   The constructor numbers its heads, that is every root OID with every range
   (`session.cpp:460`), and the records carry that number, while the header
   lists each root OID once. `README.rst:118`: "Index of the Root ID from the
   section above."
3. **A late range is never reached** (`SessionLateRange`, `WalkComplete`). A
   head asks from its root OID on (`session.hpp:52`), and an answer in front of
   its range is no answer. If a whole PDU brings nothing within the range, the
   head is erased. `README.rst:200`: "The index can be capped to only collect a
   single /8 of the table at a time."
4. **A short reply drops heads** (`SessionShortReply`, `WalkComplete`). A
   GETBULK reply may end at any binding, within the first repetition too (RFC
   3416, 4.2.3); heads that it does not reach are erased as complete
   (`session.cpp:333`), without an error. `session.hpp:28-31` says the last
   response OID "is used to determine if this collection node is complete".
5. **A limit of 0 is no error** (`SessionZeroLimit`, `RequestsAreSurvived`).
   `Config` compares an unsigned limit with `< 0` (`types.hpp:443-444`). A
   GETBULK walk under a limit of 0 takes no head into its PDU, and `send` divides by
   the number of heads taken (`session.cpp:552`), which ends the process and
   with it every other session. The message of the check, `types.hpp:446`:
   "max_response_var_binds_per_pdu must be greater than 0".
6. **`run` does not return** (`ManagerHang`, `RunReturns`). The collect loop
   moves its iterator only by erasing (`session.cpp:689`), and spins when the
   first session it looks at is not closed. `README.rst:144`: "Run until one or
   more requests has completed."
7. **A request that cannot be started blocks the queue** (`ManagerPoison`,
   `AddedIsAnswered`). A range with a start and no stop passes
   `ObjectIdentityRange` and `SnmpRequest`; in front of it the root OID turns
   the stop into the root OID, which is less than the start, and the head's
   constructor throws out of `run` (`session.cpp:666`) before `pop_front`.
   Every later call throws again. `types.cpp:138`: "ObjectIdentity('') consumes
   everything"; `session.hpp:261`: "Run all async sessions until one or more
   completes."

Two consequences of these for the properties that hold: `HeadsMatchRequest`
says that the heads behind a PDU are gone once it has been sent again, and
`WalkComplete` is checked (in `SessionAgent`) without retries, ranges, and
replies shorter than a row.

## Observations

What was noticed while modelling and is in the models, without a run of its own:

- Under a limit of 0 a get, or a walk with GETNEXT, sends PDUs without bindings for
  as long as the peer answers them.
- The division of finding 5 is also reached when net-snmp takes none of the OIDs of a
  GETBULK (`session.cpp:538`, "not fatal, but OID will no longer be
  attempted"). The model keeps the end of the process as a state: `aborted`.
- A get with a point range asks for the bare root OID of its head
  (`session.hpp:52`) and takes only the point below it (`session.cpp:145`), so
  that it collects nothing and warns "root OID not found". `types.hpp:568-569`:
  "Optional sequence of OID ranges to restrict collection on (appended to each
  OID)." It is the same cause as in finding 3.
- `get_response` always reports SUCCESSFUL (`session.cpp:617`), although
  `types.hpp:781-785` has other types of responses; `Response` has it so, and
  `NoHeadLostSilently` is therefore about the errors.
- A stop may be a partial index, which a head matches together with everything
  below it (`session.cpp`, `is_root_of` in `process_var_bind`), but
  `optimize_ranges` compares stops as plain OIDs (`types.cpp:143-154`): merging
  1..2 with 1.5..2.3 gives 1..2.3, which no longer takes 2.4, and of 1..2 and
  1..2.3 only 1..2.3 is kept, although `types.cpp:142` says "sorting guarantees
  lhs is bigger". `README.rst:198` speaks of "full or partial index values".
  `IntervalsKept` compares what the ranges cover between their bounds, which is
  kept always; `TakesKept` compares what walks take, which is kept as long as no
  stop lies below another (`NestedStops`).

Of the bytes of a response:

- The type of a value is one byte in a word (`session.cpp:97-99`), the first one on
  every machine: a big-endian consumer must not read the word as a number.
- The length of a root OID and of an index is written in octets (arcs), that of an ID
  and of a value in bytes. `README.rst` gives the former "in system WORDs", which is
  the same as long as an octet has the size of a word.
- No ID and an empty ID give the same bytes.
- A session that could not be opened has written no header, not even an empty one
  (`session.cpp:391-405`).
- The position behind the last byte is taken with `operator[]` when the last field is
  empty (`session.cpp:114`, `472`).

Of the façade and the bindings:

- `ObjectIdentity('')` raises an IndexError, while `to_object_identity('')` is the
  empty OID; so `str()` of an empty OID is accepted by `get` and `walk` but not by
  the class (`ObjectIdentityThrows`).
- `to_object_identity` drops empty parts: `'1..2'` is read as 1.2, where the class
  raises a ValueError.
- A range given as a tuple of numbers, which is a way to write an OID, is taken for
  a pair of OIDs (`__init__.py:53`) and raises a TypeError. `RangeArgument` writes
  a single OID as a text.
- The capsule of `as_ndarray` destroys the shared pointer it allocated but does not
  delete it (`module.cpp:36-44`): a few bytes stay behind for each response.
- A head that throws leaves `Session`'s constructor after `snmp_sess_open`, and the
  destructor that closes the connection does not run (`session.cpp:459`).

## Walks and endOfMibView

`process_var_bind` looks at the type of a value only for a get: a walk would
record noSuchInstance or endOfMibView as a result. Against an agent that keeps
to the protocol it does not: endOfMibView comes back under the OID that was
asked for, or under the one of the repetition before, and the cursor only takes
OIDs beyond the last one. That is what `OnlyValuesCollected` checks, in a run
in which walks do run into the end of the MIB. `SessionAnyPeer` also answers
with markers under new OIDs, which the code records.

## Not modelled

- **net-snmp** beyond what `session.cpp` sees of it: one PDU in flight per
  session, answer, resend while there are retries, timeout, failed resend,
  disconnect. `Agent` is external too and keeps to RFC 1157 and RFC 3416.
- **Threads.** `run` gives up the GIL for its whole length and takes no lock;
  `README.rst:175` says that the package "has not been tested for
  multithreading", and a data race has no outcomes to enumerate. The models
  have one thread.
- **The numbers in errors** (`sys_errno`, `snmp_errno`, one of which is
  written to `errno` in `session.cpp:395`): no state depends on them.
- **The rest of the façade**: `to_version` and `Config(**mapping)` look names up.
- **The rest of the bindings and formatting**: declarations, and text for people.
- **Build scripts, vendored boost**: no state of their own.
- **Connections and descriptors**: what net-snmp keeps open, and whether `select` can
  take it (FD_SETSIZE), is outside of the models.
- **Big-endian machines**, on which the header has another first byte, and whatever
  reads the bytes has the order of the sender.

## Order of work

The models were written from the session outwards. Every property of the passing runs that
is not a liveness property is proved.

1. `Oids`, `SnmpRequests`, `CollectionHeads`, `SessionHandlers`, `Session`
   against any peer (`SessionAnyPeer`).
2. `SessionLifecycle`, and `Session` shown to implement it.
3. `Agent`, `SessionAgent` (`SessionAgent` and the runs of the findings).
4. `SessionManager` (`Manager`), `RequestQueue`, which it implements, and
   `ManagedSession` (`ManagerSerial`).
5. `Facade` and `RequestRanges` (`Ranges`).
6. `WireFormat`, read back by the documented format (`SessionAgent`).
7. Proofs: types, the PDU in flight, the lifecycle, the reports, the PDU limit, the
   manager and its queue, the ranges, the spellings, the heads, what is collected
   from an agent, the bytes of a response, and the manager with its sessions: how many
   reads a session takes, and that the collect loop does not spin.

An abstract collection (per head, a growing set of OIDs below its root) was
considered as a third abstract specification. `OnlyGrows`, `WalkIncreasing` and
`ResultsUnderRoot` say together what it would say, and are proved.
