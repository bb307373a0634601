# Verification of tcpclips60

TLA+ models, TLC runs and TLAPS proofs for the TCP server that wraps the CLIPS 6.0
expert system (`clipsserver`, `clipswrapper`), its client library (`clipsclient`), the
terminal program that uses it (`clipscontrol`) and the part of the CLIPS engine that
keeps state between two commands of the server: the join network, logical support, the
agenda and the run loop (`clips60`).

## 1. The system

| component | code | state | operations |
|---|---|---|---|
| client rpc | `clipsclient.cpp`, `request.cpp`, `reply.cpp` | `pendingCommands` under `pcmutex`, condition variable `pccv`, `Request::lastCommandId`, `clipsStatus` | `rpc()`, `sendRaw()`, `awaitResponse()`, `handleResponseMesage()`, `updateStatus()`, `abortAllRPC()` |
| client connection | `clipsclient.cpp`, `clipscontrol/src/main.cpp` | `socketPtr`, `serviceThreadPtr`, the `io_service`; `running`, `acThreadPtr` and the window's state | `connect()`, `disconnect()`, `asyncReadHandler()`, `asyncConnectTask()`, the event handlers, leaving |
| server | `server.cpp`, `session.cpp`, `main.cpp` | `clients`, `queue`, `clppath`, watches (in CLIPS) | `run()`, `acceptHandler()`, `asyncReadHandler()`, `removeSession()`, `parseMessage()` and the command handlers, `acknowledgeMessage()`, `broadcast()`, `sendTo()`, `publishStatus()` |
| queue | `sync_queue.h` | `_q`, `_m`, `_cv` | `produce()`, `timedProduce()`, `consume()`, `timedConsume()` |
| framing | `session.cpp`, `clipsclient.cpp` | the `streambuf` of each end, the client's `istream` | `beginAsyncReceivePoll()` / `beginReceive()`, the loops of `asyncReadHandler()`, `peekMessageHeader()`, `fetchStringFromBuffer()` |
| query capture | `queryrouter.cpp`, `clipswrapper.cpp`, `clips60/src/router.c` | `enabled`, `registered`, `buffer`, CLIPS's router list | `clips::query()`, `enable()`, `disable()`, `read()`, `printFunction()` |
| join network | `rulebld.c`, `factbld.c`, `factmch.c`, `drive.c`, `retract.c`, `incrrset.c`, `ruledlt.c` | joins, alpha and beta memories, pseudo-facts, the fact list | defining and removing a rule, asserting and retracting a fact |
| logical support | `lgcldpnd.c`, `factmngr.c`, `facthsh.c`, `rulepsr.c`, `rulebld.c`, `ruledlt.c`, `engine.c` | the links between facts and partial matches, the list of facts that lost their support, the logical flag of a join | `AddLogicalDependencies()`, `AddToDependencyList()`, `ForceLogicalRetractions()`, `RemoveEntityDependencies()`, `TestJoinForReuse()`, removing a join |
| agenda | `agenda.c`, `crstrtgy.c` | an agenda per module, the strategy, saliences and their evaluation | `PlaceActivation()` under seven strategies, `AddActivation()`, `RemoveActivation()`, `ReorderAgenda()`, `RefreshAgenda()`, `set-strategy`, `set-salience-evaluation`, `refresh` |
| execution of rules | `engine.c` | the focus stack, breakpoints, the activation that fires, the halt flag | `Run()`, `Focus()`, `PopFocus()`, `SetBreak()`, `halt`, `return` |
| other constructs and the language | the rest of `clips60/src` | symbols, classes, functions, ... | sequential, see "Not modelled" |
| terminal interface | `clipscontrol/src/ncurseswin.cpp` and others | window, line editor, history | user input |

How they interact. A caller of the client library writes a command to the socket and
sleeps on `pccv` until the library's service thread has filed the reply under the
command's identifier. The connection itself is made by a second thread of clipscontrol,
which retries, and taken down by the main thread. The server's only thread polls the
network: accepted connections become sessions, the bytes of a session are cut into
messages, messages go to the queue. Between two polls the server takes one message off
the queue and executes it; a command may publish the status to every client, may make
CLIPS print, broadcast, send to one client or change watches, any number of times, and is
acknowledged last, when CLIPS returns. CLIPS prints
through its router list, on which the query router sits while a query runs. A command
asserts and retracts facts and runs rules: a fact is driven through the join network, a
match that becomes complete is put on the agenda of its module, the run loop takes the
first activation of the module on top of the focus stack, and what its actions assert is
linked to the match they fired for, when the rule is logical.

What is hard:

* client: callers, the service thread and a disconnecting thread share
  `pendingCommands`; the identifier counter, `socketPtr` and `clipsStatus` are shared
  without a lock; a disconnect happens in the middle of calls; a connection attempt
  fails and is repeated.
* server: sequential, but clients come, send, stop reading and leave between any two of
  its steps; everything it writes is written synchronously, to sessions that may be gone.
* framing: a TCP stream is cut into reads anywhere.
* query capture: the print function changes, while CLIPS walks it, the list CLIPS walks.
* engine: sequential, but long sequences of legal commands, in any order, act on
  structures that rest on each other: joins shared by rules that come and go while there
  are facts; matches blocked by facts that go; an agenda kept sorted by insertion while
  strategy and saliences change; support that is lost, regained and refused while the
  actions of the rule that gives it retract what it rests on.

What makes each correct:

* client: `rpc()` returns the reply to its own command, and returns at all; nobody sleeps
  with a reply filed or after an abort; nothing piles up in `pendingCommands`; the status
  read after a call reflects the call; a connection is served and the program can be left.
* server: every command of a connected client is acknowledged once, in order; every
  client sees the same sequence of statuses and broadcasts; no client can end or stop it.
* queue: FIFO, each value to one consumer, no lost notification.
* framing: messages are handed over whole, in order, as soon as they are complete.
* query capture: a query returns its output, all of it and nothing else, and capturing
  hides nothing from the terminal.
* join network: a rule is on the agenda once for every way its left-hand side holds.
* logical support: a fact stays exactly as long as it needs none or has some.
* agenda and run loop: the agenda is sorted; each match fires once; breakpoints and
  refreshes take effect; a run ends.

## 2. The modules

| module | models | state and actions |
|---|---|---|
| `ClipsClient` | the remote procedure calls | `pc[t]` walks a caller through `rpc()` (`readId`/`writeId` the two halves of `++lastCommandId`, `send`, `register`, `await`, `asleep`, `woken`); `ioPc` is the service thread, `dPc` a thread in `disconnect()`. A critical section of `pcmutex` is one action, a `notify_all()` after the unlock another. The server is a process that answers in order |
| `RemoteCall` | what a call promises | the abstract specification `ClipsClient` implements: commands given and not executed (`open`), results made and not returned (`results`), and per caller the command and the result of its latest call. Identifiers, the map, the mutex and both ends of the connection are not in it |
| `ClientLifecycle` | the connection of clipscontrol | `main`, `connector` and `service` are where the three threads are; each access to `socketPtr`, `serviceThreadPtr` or the `io_service` is an action. A socket is made, opened and connected in three steps. `crash` names what ended the process |
| `SyncQueue`, `FifoQueue` | `sync_queue.h`, and what it promises | critical sections are actions, `wait()` splits its caller in two; `FifoQueue` is the abstract queue `SyncQueue` implements with `items <- q` |
| `ClipsServer` | the server's loop and sessions | one action per handler; its writes are put in `todo` and made one by one by `Write`, during which clients move. A command that CLIPS executes is a state of its own (`pc = "clips"`), in which it broadcasts, sends texts or changes watches in any mix, and which it leaves by returning, by ending the process, or never. `received[c]` is what was written to a connection, `read[c]` how much of it the client has read |
| `QueryRouter` | query capture | `routers` is CLIPS's list, the routers of queries and that of the terminal, each active or not. A print looks for the first active one (`Finds`); the print function of the query router takes its router out of the way, prints again and puts it back (`depth` counts its calls); the terminal's router is the only way to `screen` |
| `Framing` | cutting messages out of the stream | bytes are places in the stream, `Receiver` selects the end; one action per iteration of the handler's loop |
| `JoinNetwork` | rules compiled into joins, facts driven through them | `rete` holds joins and memories, in the order of the lists of the code; an action (`AssertFact`, `RetractFact`, `Defrule`, `Undefrule`) is a whole command, written as a function on `rete`. `MatchesOf` is the reference: what a left-hand side means |
| `TruthMaintenance` | logical support | one join per rule is kept, the one at the end of its logical prefix; `dependents` and `supported` are the two directions of the links. The retractions that follow a loss are steps of their own, in any order. Patterns have no variables, a fact occurs once, and rules with different prefixes begin with different facts |
| `Agenda` | the order of an agenda | operators only: the strategies, `PlaceActivation`, and what sorted means |
| `RuleEngine` | agendas, focus stack and `Run()` | everything a rule or a user can do between two firings is an action, taken at the prompt or among the actions of the rule that fires; reordering and refreshing are steps, one per activation they place |
| `ConflictSet` | what the engine promises | the abstract specification `RuleEngine` implements: a set of activations (`pending`), of which `Fire` takes one of the module in focus that no other of this module comes before. The lists, and taking them apart and putting them together again, are not in it |
| `...Proofs` | theorems about the module whose name they carry; those of `Agenda` are in `RuleEngineProofs` | |

`ClipsClient` names its `RC == INSTANCE RemoteCall WITH ...` next to the properties: a
command counts as given from the moment a caller begins (`Unsent`) or while it is on its
way to the server, its result while the acknowledgement is on its way or filed. `CS` of
`RuleEngine` takes for `pending` the activations on all agendas and those taken off one
to be placed anew. `RuleEngine` and `ConflictSet` extend `Agenda`, whose strategies say
in both which activation stays ahead; the join network is seen from it by what it calls:
a match appears (`AddActivation()`) or is gone (`RemoveActivation()`), which is what
`JoinNetwork` shows of its `ActivationsAreMatches`. `TruthMaintenance` takes from the
network that a join of ground patterns holds one match at most, determined by the facts.

`MCClipsClient`, `MCClipsServer`, `MCSyncQueue`, `MCJoinNetwork`, `MCRuleEngine` and
`MCTruthMaintenance` give the constants their values; the other modules have constants a
`.cfg` can write.

## 3. The runs

Passing runs:

| run | question | bounds |
|---|---|---|
| `rpc` | what does an rpc guarantee against service thread, other callers, disconnect and failure; does the client implement `RemoteCall` | 2 callers, 2 calls in total, by one of them or both; 8 identifiers, so that the counter neither wraps nor reaches the one reserved for a status (`rpc_reserved` is about that); Requests constructed one at a time |
| `lifecycle` | is the socket taken away under a user of it before a loss or leaving; is a connection served while it stands; does leaving come to the end of `main()` when no attempt to connect is under way | none needed: finite |
| `server` | order and completeness of acknowledgements, statuses and broadcasts; does the loop leave a command behind | 2 clients, 2 messages in total, by one of them or both; 1 unread message per connection; 2 effects of CLIPS in any mix, of one run or of several |
| `queue` | is a notification ever lost; does the queue implement `FifoQueue`, liveness included | 3 threads, 5 operations |
| `query_capture` | is output lost or printed for ever | 4 requests, 5 prints |
| `framing` | are messages whole, in order and delivered, at either end | 4 messages of 2, 3 or 5 bytes, reads cut anywhere |
| `match` | are the activations the matches, whatever the order of facts and rules | 4 facts; 3 rules with a not CE and a negated group that share joins |
| `engine` | is the agenda sorted, nothing lost or doubled; do breakpoints, refreshes and the end of a run work; does the engine implement `ConflictSet` | 3 rules in 2 modules with a match each, 3 time tags, a focus stack of 2, 1 command per firing, 2 changes of settings; strategies `depth`, `lex` and `simplicity` |
| `support` | has every fact its support or needs none; does one that needs none stay | 4 facts; 3 logical rules and a plain one, 3 joins; no counter, so that none is bounded |

The bounds are enough for the cases that matter: the races of the client need two
callers, or one and the service thread, and its faults two calls in a row; a broadcast
order that two clients disagree about needs two clients and two broadcasts; a lost
notification needs two sleepers and two values produced before either is awake, four
operations of three threads; a message of 2 bytes is empty, one of 3 fits one read of
three bytes, one of 5 spans two. In `match`, two facts of one pattern let a blocker be
replaced by the next one, and three rules a join be shared, extended and taken down to
the shared part. In `engine`, three time tags let an activation be placed between two
others and a refreshed one come back with a new age; two modules let the focus move
under a reordering. In `support`, a fact gets support from two matches, from two rules
of one match, and none at all; a rule deletes what it fired for between two assertions;
and a shared join loses one of its rules or all.

`CallsAreKept` (`rpc` implements `RemoteCall`) contains that a call returns the reply to
its own command (`ReplyIsMine`, which `rpc_race` shows to fail without `SerialIds`) and
that no command is executed twice or out of its caller's turn. It does not promise that
every result is returned: `Forget` drops a result nobody waits for, and a caller of
`rpc()` waits only once it registered its command. That is the window `rpc_lost_reply`
is about; `RemoteCall` allows it and says that there is no other. `FifoLive` contains
`FifoSafe`, the safety part that is proved. `FiresInOrder` (`engine` implements
`ConflictSet`) relates what fires to every activation there is, those of an agenda that
was taken apart included, where `AgendaSorted` speaks of the lists.

Violations, each a statement of a comment of the code that the code does not keep:

| run | what TLC finds |
|---|---|
| `rpc_lost_reply` | the reply comes before `rpc()` registers the command: dropped, the caller waits for ever |
| `lifecycle_retry` | after one failed attempt `connect()` returns false for ever, server or not |
| `server_leaving` | acknowledging a client that left dereferences a null session |

More counterexamples can be had with the configurations kept beside these:

| configuration, module | what TLC finds |
|---|---|
| `rpc_abort_late`, `MCClipsClient` | a call registers after `abortAllRPC()` and is never released |
| `rpc_reserved`, `MCClipsClient` | the counter reaches 0xffffffff (here 2): the reply to that command is taken for a status, and its caller waits for ever (against `AnsweredRpcReturns`, which `rpc` checks below that number) |
| `rpc_race`, `MCClipsClient` | two callers draw one identifier; one returns the other's reply |
| `lifecycle_leaving`, `ClientLifecycle` | the user leaves while an attempt to connect is under way: `disconnect()` resets the socket the attempt, or the service thread it starts, dereferences next |
| `lifecycle_lost`, `ClientLifecycle` | the connection is lost: `disconnect()` runs on the service thread and joins it, which ends the process |
| `lifecycle_online`, `ClientLifecycle` | the connection is lost before `connect()` came back: the window shows Online without one |
| `lifecycle_handler`, `ClientLifecycle` | a handler of messages that calls `rpc()`, as the library allows, waits for a reply its own thread would read |
| `framing_split`, `Framing` | the first byte of a header that arrives in two reads is lost; the client then reads nothing any more |
| `match_deleted`, `MCJoinNetwork` | retraction drives a match out of a nested negated group while a memory below still holds the retracted fact, and the new match contains it |
| `match_prime`, `MCJoinNetwork` | a rule that is defined while a not CE it shares is blocked takes the blocked matches over as if they were not, and is activated |
| `support_deleted`, `MCTruthMaintenance` | a rule that is logical as a whole and ends with exists or not retracts what it rests on; its next assertion is made all the same, linked to a blocked match, and stays (against `lgcldpnd.c:90-95`) |
| `support_shared`, `MCTruthMaintenance` | `TestJoinForReuse()` counts patterns, the number of logical CEs counts CEs, so that behind a negated group the wrong join is inspected: a logical rule shares a join whose match has no slot for links (against `rulebld.c:410-415`) |

Those of the engine were replayed on the compiled engine, which behaves as the model. In
the last one it writes behind the end of the match, and the fact stays when the match
goes. `match` and `support` use rules of other shapes, so that what holds beside these
faults is seen. `RuleEngine` also states `EvaluationKept`, `RunsUntilEmpty` and
`LimitReported`, which fail for it: refreshing the agendas of two modules leaves the
salience evaluation at when-activated, for the second one saves what the first one set;
the first run takes MAIN off the focus stack, so that one that starts with the focus on
another module leaves the activations of MAIN; and a limit that is reached with the last
activation is not reported.

The models contain more of the kind, which the passing properties state their way
around: an aborted call leaves its identifier in `pendingCommands` (`NoLeakBeforeAbort`
holds until the first abort); a write to a connection that was reset throws out of the
loop (`failure = "write"`), and so does a `run` command whose argument is no number
(`ClipsExits`); a client that does not read, and a command that makes CLIPS run for
ever, stop the server (`WaitsForReader` and `pc = "clips"` in `CommandAnswered`); after a
malformed query the next one also returns what was printed in between
(`QueryReturnsItsOutput` asks for the query's own strings only); each query adds a router
to CLIPS's list, and one that fires no rule is reported as failed (`FinishQuery`);
leaving clipscontrol ends in `std::terminate()`, for the connection thread is never
joined (`crash = "joinable"`).

Deadlock is checked in `match`, `engine` and `support`, whose systems can always take a
command. The others may stop, with all calls made, the clients gone or the process ended.

Fairness. Client: each caller, the service thread, a `disconnect()` under way and the
answering server are weakly fair: threads that can run do. Nobody has to call,
disconnect or close, and spurious wake-ups are never owed. Connection: weak fairness of
each of the three threads; the user and the server may stay away. Server: its loop is
weakly fair, and nothing else is: clients need not read, and CLIPS need not come back from
a run. A client that does not read stops the server, which writes synchronously and
without a timeout, and so does a run without end; `CommandAnswered` excepts both, by name,
a client that leaves and the end of the process. What it says is that the loop itself,
its queue, its handlers and its writes, in any interleaving with clients that come and
go, leave no command behind. `poll()` ends because the clients of the model send finitely many
messages; under endless input the code may poll for ever. Queue: weak
fairness of each thread's critical section; `FifoLive` needs no more because the threads
that compete for the mutex are finitely many calls. Framing: what was sent arrives and
the handler's thread goes on. Engine: weak fairness of the engine's own steps, a
sequential program that goes on while it runs; rules that activate each other for ever
are beyond the bounds of `engine`, so that `RunEnds` says that the loop itself, its
reorderings and its focus stack come to an end.

What holds under which conditions is stated in the properties: `InOrder` until a header
is split, `NoLeakBeforeAbort` until an abort, `ResolvedRpcReturns` unless another caller
drew the same identifier, `AnsweredRpcReturns` when no abort is under way (a disconnect
may follow, and releases the call), `SocketStays` until the connection is lost or the user
leaves, `LeavingEnds` when no attempt to connect is under way, with the one exception of a
connection that is lost meanwhile.

## 4. The proofs

Every invariant and every action property that a run checks is proved too, but those of
`JoinNetwork`, and so are the safety parts of the three refinements: from the named
assumptions on the constants alone, for every value of the constants, except where a
hypothesis is named below.

* `ClipsClientProofs`. Unconditional are `TypeCorrect` (`TypeOK` is inductive as it
  stands; the step goes action by action, with lemmas on the messages the server sends),
  `NoLostWakeupHolds` and `WatchesAreFresh`. `NoLostWakeup` is inductive given `TypeOK`:
  an action that files a reply or clears the map enters the very control state (`notify`,
  `abortNotify`, `dPc = "notify"`) the property speaks of, the action that leaves it
  wakes every sleeper (`NotifyAllWakes`), and the others change neither sleepers nor map
  (`QuietStep`). `WatchReadFresh` follows from `FreshInv`: statuses are handled in the
  order they were published, and each acknowledgement of a watch, on its way or filed,
  comes behind a status at least as recent; this holds whatever identifiers are drawn.
* `ReplyIsAlwaysMine` and `NothingLeftBehind` of the same module have two hypotheses. `SerialIds`: Requests are constructed one at a time, as in every
  program of the repository; without it two callers may draw one identifier, which is
  what `rpc_race` shows. `[]IdsLeft`: the counter did not reach 0xffffffff, which
  `handleResponseMesage()` takes for a status; without it the reply to that command is
  swallowed, as `rpc_reserved` shows.
  The invariant (`SerialInv`) says that everything that carries an identifier, a caller's
  request, a command at the server, a reply on its way or filed, carries that of one
  request: equal identifiers, equal requests. Only drawing a number adds to what is
  outstanding, and the new one is above all others. `LeakInv` adds that until the first
  abort a command is registered while its caller awaits it.
* `ImplementsRemoteCall` of the same module, under the same two hypotheses: every step
  of the client, its service thread, the thread that disconnects and the server is a
  step of `RemoteCall` or a stutter. It rests on the invariants above and on `CallInv`:
  what the server has to read, what is on its way back and what is filed hold the
  commands of a caller in the order of its calls, each once (`InTurn`); a command that
  was sent is that of its caller's latest call or of an earlier one (`Latest`), and
  calls are counted (`Counted`); the number a caller drew has no entry in
  `pendingCommands` before it is registered (`Registering`); the server's end is closed
  when the socket is reset (`SocketClosed`). `sendRaw()` does not wait (`OnlyRpcWaits`).
  There is one lemma per step of `RemoteCall` (`BeginsCall`, `SendsCommand`,
  `ExecutesCommand`, `ReceivesResult`, `ReturnsResult`, `AbortsCalls`, ...). `SerialIds`
  and `[]IdsLeft` are needed where a filed reply is found by its number: that it is the
  reply to the command of the caller that looks is `Owned` of `SerialInv`.
* `ClientLifecycleProofs`: `TypeCorrect` and `SocketAlwaysStays`. The invariant says
  which thread may be where while the socket is what: while nothing was lost and nobody
  leaves, only the connection thread replaces the socket, and no attempt that failed
  takes it away; the main thread is past its test only with a socket.
* `SyncQueueProofs`: `QueueInvariant` (`TypeOK` and `Conservation`: taken and queued
  values together are 1 .. made, in order), `NoValueStranded` (a count: a notification
  adds a thread to those leaving `wait()`, a thread leaves only with a value or from an
  empty queue), and `ImplementsFifo` (each step maps to a step of `FifoQueue` or a
  stutter; `Conservation` gives the number that `Put` appends).
* `ClipsServerProofs`: `TypeCorrect`, `CommandsAnsweredInOrder`, `BroadcastsAreComplete`
  and `StatusGoesFirst`, from one invariant that keeps an account per client (`Account`):
  what it sent is a first part whose commands are acknowledged or about to be, a second
  part in the queue, and a rest not read yet, in this order and without gap. What the
  handler that runs has still to write to a client is a set (`Due`), for there is one
  broadcast or text at most to be written, of the handler or of CLIPS, and the
  acknowledgement comes last (`TodoShape`). `Informed` says
  the same of the broadcasts since the client was accepted, `StatusFirst` that the
  acknowledgement of a watch that is due has its status due as well, or written as the
  latest. An action that ends the process or closes the connection ends the account:
  nothing is owed to a client then.
* `QueryRouterProofs`: `TypeCorrect`, `PrintsReturn`, `TerminalShowsAll` and
  `QueriesReturnTheirOutput`. The list of CLIPS grows by a router with each query; what
  makes printing end nevertheless is that only the topmost of them is ever active, and
  exactly while capture is enabled and no print function runs, and that the terminal's
  router stays last and active (`ListInv`). What the search finds follows
  (`WhatIsFound`): the query router, or inside its print function the terminal, so that
  each string gets to the screen once (`OnScreen`). The buffer is ascending and holds
  what the query under way printed (`Buffered`).
* `FramingProofs`: `TypeCorrect` and `MessagesInOrder`, for any number and sizes of
  messages and any cut of the stream. What is in the buffer or under way is a stretch of
  whole frames, one behind the other (`Whole`, `Joined`, `Ordered`), which begins with a
  header (`Begins`) as long as none was split: `Fetch` takes off the first frame
  (`FetchCuts`), `Send` adds the next one, and a read only moves bytes from one to the
  other.
* `RuleEngineProofs`, on the strategies: `PlacedInOrder`, for any rules, matches,
  saliences and each strategy. The bubble sort of `SortPartialMatch()` ends in order: of
  all arrangements its exchanges reach, one with a least set of pairs out of order has
  none (`ArrangementDescends`, from strict inclusion being well-founded on finite sets).
  What a strategy prefers is then a strict weak order (`PreferredAsymmetric`,
  `PreferredSplits`), refined by age it is total and transitive, and the place the search
  stops at is the only one.
* `RuleEngineProofs`, on the engine: `TypeCorrect`, `AlwaysSorted`, `BreakpointsStop` and
  `RefreshIsCurrent`, from one inductive invariant: the type; where control can be while
  agendas are reordered (`Control`); different ages of all activations (`Ages`), which
  the order needs; the order itself; what was refreshed so far is current
  (`CurrentSoFar`); and no breakpoint on what fires next after the first
  (`NoBreakNext`). One lemma per action. `OneActivationEach` rests on a second one
  (`One`): what is pending, on an agenda or taken off it by a reordering, belongs to
  matches that hold (`Known`), one each (`Unique`), in the module of its rule
  (`InPlace`); the engine's counter is its cardinality, plus the one that executes
  (`Counted`); a match that a refresh is about to activate has none (`Awaited`). Taking
  an agenda off to reorder it changes nothing in that count because positions and
  activations correspond one to one (`TakeAgendaOne`).
* `ImplementsConflictSet` of the same module, from the two invariants and that a refresh
  is done with before the next rule is looked for (`Awaiting`), without hypotheses. Most
  commands and all steps that place an activation are stutters or change one variable of
  `ConflictSet`; the three that are not obvious are `Fires` (the first of a sorted list
  stays ahead of every other element of its set, `AgendaSorted`), `Selects` (what
  `NextActivationToFire()` leaves of the focus stack is the part from the first module
  with something to fire, `FocusSelected`, an argument by the least element) and
  `TakesAgenda` (the refreshed agenda, as a set, is that of its activations with the
  saliences of their rules, and reordering without a refresh changes no set). That the
  order of `ConflictSet` is the one of the lists is `SameOrder`.
* `TruthMaintenanceProofs`: `TypeCorrect` and `GivenFactsAlwaysStay` from `LinkInv`
  (links go both ways; what is not there, needs no support or is about to be retracted
  has none), and `SupportKept` for rules that satisfy `SoundRules`. Its invariant adds
  that joins are shared by rules with one prefix, that a join that is logical for one of
  its rules has matches with a slot (`Flags`), that links lead to matches that hold and
  have a slot (`Holding`), that a fact without any is accounted for (`Accounted`), and
  that what would be found for the rule that fires does hold (`BasisHolds`).
  `SoundRules` excludes exactly the two shapes of `support_deleted` and
  `support_shared`; where it is used (`DriveSupport`, `DefineSupport`) the code goes
  wrong without it.

Only model-checked: what must eventually happen (`ResolvedRpcReturns`,
`AnsweredRpcReturns`, `LeavingEnds`,
`ConnectionIsServed`, `CommandAnswered`, `FifoLive`, `FollowedIsDelivered`, `RunEnds`),
which is out of the prover's reach; and `JoinNetwork`, which is written with recursive
operators, as is the code, which goes down the network by recursion: what such a
definition computes for every input takes an induction the provers do not have, and
`match_deleted` and `match_prime` show that its invariants hold for some shapes of rules
and fail for others.

`AnsweredInOrder`, `BroadcastComplete`, `QueryReturnsItsOutput` and `InOrder` speak of
the positions in a sequence and of the set of what stands there, rather than of a
subsequence selected from it: a selection is a recursive operator, of which the provers
know nothing.

## 5. Not modelled

* Most of the lines of `clips60`: the parser and the evaluator of the language, classes,
  instances and message handlers, generic functions, globals, deftemplates, binary save
  and load, the constructs-to-c compiler, the editor, the memory manager. They are
  sequential functions over data, far larger than the parts that keep state between two
  commands; their correctness is that of each function on its input, which tests reach,
  and their data (symbol tables, expression trees) is what a model leaves out. This is
  why the share of all lines that is mapped is small, although the concurrent code of the
  client, the server, the wrapper and the queue is modelled nearly throughout.
* Of the join network: slots, multifields, test CEs, objects, and join expressions other
  than equality of variables. Of the run loop: run functions, statistics, the current
  module, removing a rule while it fires. Of logical support: variables in patterns, fact
  duplication, instances, and deletion of what is being driven.
* The ncurses windows (layout and input), start-up and command-line arguments,
  `runAsync()` and `stop()`, formatting helpers, the test programs.
* `send()`, which writes a text without the header of a message, and the
  `removeXHandler()` functions of the client: nobody in the repository calls them.
* Messages and strings are abstract; only the number 0xffffffff and the sizes
  of frames matter to a property. The facts that texts assert are left out: a text is
  taken off the queue and not acknowledged. (None is ever asserted: the terminator in its
  length hides the closing parenthesis, server.cpp:169.) What a command makes CLIPS do
  is what the server sees of it; that (exit) and a `run` with an argument that is no
  number end the process is one action (`ClipsExits`). A `SendPayload` that writes to a connection
  the server closed either is lost or throws; both outcomes are in the model.
* That a fact supports itself through others (a supports c and c supports a) is not
  noticed by CLIPS; `FactsAreSupported` asks for a match that holds, not for a ground.

## 6. Plan

1. `ClipsClient`, `SyncQueue`/`FifoQueue`, `ClipsServer`, `QueryRouter`, `Framing` with
   their runs; type invariants, `NoLostWakeup`, and the refinement of the queue proved.
   Done.
2. `ClientLifecycle`, `Agenda` and `RuleEngine`, `JoinNetwork`, `TruthMaintenance`, with
   the proofs of section 4. Done.
3. The proofs of `ReplyIsMine`, `NoLeakBeforeAbort` and `WatchReadFresh`, of
   `OneActivation`, and of `ClipsServer`, `QueryRouter` and `Framing`. Done.
4. `RemoteCall`, implemented by `ClipsClient`, and `ConflictSet`, implemented by
   `RuleEngine`, both checked and proved. Done.
5. One of logical support (a fact is there as long as some match supports it) for
   `TruthMaintenance`.
6. Watches and path: `toggleWatch()`, `getWatches()`, `clipsstatus.cpp`, `handlePath()`.
