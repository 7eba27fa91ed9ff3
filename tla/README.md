# A TLA+ model of infercat

infercat is a host program that lends one person's inference engines to their
friends: an HTTP gateway with per-key limits, a first-come queue in front of each
engine, durable runs (chats, images, agents), engines it starts and stops itself,
a public bridge, and files that are the host's memory of keys, runs and spending.
This directory holds TLA+ models of the parts of it that are hard to test, the TLC
configurations that check them on small instances, and proofs TLAPS checks for every
instance.

`PROJECT.json` is the index: components, runs, the map from each definition to the
source lines it models, a mutant for every property, hazards, findings and theorems.

    tlc -workers 2 -config MCFront.cfg MCFront     # any run of PROJECT.json
    tlapm SlotQueueProofs.tla                      # and every other *Proofs.tla

## Inventory

| Component | State it keeps | Operations | What is hard | What makes it correct |
|---|---|---|---|---|
| Slot queue, `internal/gateway/queue.go` | `inFlight`, `waiters`, a channel per waiter | acquire, wait, fill, release | a hand-over racing a timeout or a departure; a slot count that changes under the queue | no slot leaks or is minted; first come, first served; the line moves |
| Limiter, `internal/gateway/limits.go` | per key: admissions log, concurrency, token log, day counter, reservations | admit, reserve, settle, counters, seed | check long before charge; window edge; midnight; Retry-After | ceilings over every window; exact counters; exact Retry-After |
| Request pipeline, `internal/gateway/{request,proxy,gateway}.go` | outcome, slot, admission, buffered body of each request | the stages of `proxy` and `models`, `finish`, shutdown | every stage may fail, panic or lose its friend holding part of the resources; kills; forced shutdown | everything comes back once; nothing unsent is charged |
| Usage recorder, `internal/usage/` | channel, page, `usage.jsonl` | Record, write loop, Close, Load | a slow or failing writer; Close; a torn line; midnight | the file and the live counter agree on the day |
| Audio routes, `gateway/audio.go` | two day meters with reservations | reserve, call, relay, settle | parallel reservations; a listener who leaves; measured against reserved | the day is a ceiling; the unheard is free |
| Image routes, `gateway/images.go` | day holds, the suspect engine, last probe | batch, wait for recovery, back off, generate, settle, cancel | promises over cancels, midnight and failures; lost requests | charged and promised fit the day; a failing engine stops charging |
| Managed members, `internal/profile/runtime.go`, `internal/supervise/` | refs, process, start in flight, failures, back-off, idle clock | acquire, release, start, tick, probe, Close | stop for idleness racing a caller; crash while starting; shutdown | one process at a time; never stopped under a caller; none survives Close |
| Run manager, `internal/run/{manager,join,consumer,maintenance}.go` | active workers, blocked and quarantined kinds, reservations, positions | Submit, drive, attempt, Approval, Answer, Cancel, boundJoin, stop hook, Close, recovery | hanging consumers and hooks; late settlements; full store; restart | terminal is final; nothing is replayed or forgotten; one generation of a runtime |
| Run store, `internal/run/{store,stored,retained,images,cleanup}.go` | rows, events and their epoch, image files, byte budget, one file per key | commit, Subscribe, clear, save, collect and delete an image | failing writes; a follower that lags; a crash between file and record | a follower ends with the truth; files and records match |
| Key store, `internal/keys/`, `keys` commands | `keys.json`, the host's parse of it and its stamp | Lookup, reload, mutate, save, commands, poke | several processes write the file without a lock | no change of another is lost; in force when the command returns |
| Chat runs over HTTP, `gateway/{runs,chat_run,search,host_tools}.go` | a delivery per chat run, a search meter | submit, follow, tools, search, cancel, join | friend leaves while the run goes on; deltas after the consumer returned | what the friend is told is what is stored |
| Responses endpoint, `gateway/{responses,responses_stream}.go` | items of a stream | translate history; open, feed and close items | calls whose pieces interleave; every way of stopping | the stream is well formed and whole |
| Agent adapter, `internal/agent/` | child, session, workspace, record | start, checkpoint, model call, approval, abort, join; install | a child that does not answer or dies; channels in any order | no tool ahead of the record; no child outlives its run |
| Owner console, `gateway/console.go`, `internal/adminkey/` | one code, failure table, rate windows | authorize, forward, mint, disable | attempts under way while the table is swept; a code that changes itself | a peer cannot go on guessing; the shown code works |
| Bridge, `internal/bridge/`, `bridge/src/index.ts` | a table of requests at each end, line, windows | admit, start, frames, cancel, reconnect | cancel, late frames and lost sockets on both ends | no frame refused, no slot given twice, a complete answer is whole |
| Profiles and installation, `internal/profile/`, `setup`, `serve` | downloads, trees, `installation.json`, `config.json`, `host.lock` | check, fetch, unpack, try, save, retire | interruption and kill at every step; a host that starts | what the configuration names is there |
| Destinations, sessions, tunnel, upstream client, commands, web client, macOS app | tables, I/O or wiring | | | |

How they interact. A request is authenticated against the key store, admitted and
reserved by the limiter, queued for its destination's slot (a managed destination is
acquired first, which may start its process), relayed, and settled by `finish`, which
gives back slot, concurrency, reservation and body and hands an event to the
recorder. `New` seeds the limiter's day from the recorder's file. A run's worker calls
the same pipeline for each attempt through an executor; the store commits every change
of a run, and its refusals and its budget decide what the manager may do. The bridge
client hands public requests to the same gateway. The commands change files under the
running host, through its admin socket when there is one.

## Modules

| Module | Models | State and actions |
|---|---|---|
| `SlotPool` | the queue's promise | owners, line, slots; `Join`, `TurnAway`, `Return`, `Quit`, `Resize`, each served oldest first |
| `SlotQueue` | `queue.go` | one action per critical section of the mutex (`AcquireNow/Refused/Waits`, `LeaveLine`, `HandOn`, `Release`) and per case of the select in `wait` (`WaitHanded`, `WaitTimeout`, `WaitGone`, `WaitWriteFails`), which runs unlocked |
| `Limiter` | `limits.go`, one key, the token meter | `Admit`, `Reserve`, `Settle` and their refusals, `Counters`, a clock |
| `Gateway` | `request.go`, `proxy.go`, `gateway.go`, `usage/recorder.go` | instantiates `SlotQueue` and `Limiter`; one action per stage, `finish` one action per lock it takes, the recorder's writer and its failure, shutdown in order or by force, kill |
| `AudioCalls` | `gateway/audio.go` | a call through health, reservation, slot, engine and relay to `SettleAudio` |
| `ImageJobs` | `gateway/images.go` over the manager's one image worker | `SubmitPictures`, the waits of `proxyImage`, `EngineAnswersImage`, `SettlePicture`, probes, midnight, `ManagerCloses`, restart |
| `ManagedMember` | `profile/runtime.go`, `supervise/process.go`, `gateway/managed.go` | callers of `acquire`, the goroutine of a start, the loop's ticks, `Close`; children that exit at any time |
| `RunManager` | `run/manager.go`, `join.go`, `consumer.go`, `maintenance.go`, and the parts of `store.go` they rely on | worker, joiner and stop-hook goroutines of each run; `Submit`, `Cancel`, `Answer`, `Close`, `Restart` |
| `RunFeed` | `run/store.go`: commit, publish, `Subscribe`, clear, recovery | the snapshot in memory and on disk, followers with bounded channels |
| `RunImages` | `run/images.go`, `cleanup.go` | files, records, the byte budget; each file operation a step, a crash between any two |
| `ChatRun` | `gateway/chat_run.go`, `search.go`, `host_tools.go`, `runs.go` | consumer and follower of a chat, the delivery between them, the search meter |
| `AgentRun` | `agent/adapter.go`, `adapter_runtime.go`, `runtime.go`, `assets/adapter.mjs` | consumer, child, plugin and model call of one run |
| `AgentInstall` | `agent/install.go` | installers that build a tree each and rename it |
| `ResponsesStream` | `gateway/responses.go`, `responses_stream.go` | the translated history; chunks in, events out |
| `KeyStore` | `keys/store.go`, `cmd/infercat/keys.go`, `key_online.go`, the admin socket | a host and commands, each a process with its own `FileStore` |
| `RemoteConsole` | `gateway/console.go`, `adminkey/store.go` | console requests, the code's file, the failure table, a clock |
| `Bridge` | `bridge/src/index.ts`, `internal/bridge/` | the object, the client and the ordered socket between them |
| `ProfileSetup` | `cmd/infercat/setup.go`, `serve.go`, `internal/profile/`, `dirlock` | a setup, a host, and the files they share |
| `SlotQueueProofs`, `LimiterProofs`, `GatewayProofs`, `RunProofs`, `HostProofs`, `RecordProofs`, `BridgeProofs` | | the theorems; `HostProofs` is about `KeyStore`, `ManagedMember`, `ProfileSetup` and `RemoteConsole`, `RecordProofs` about `AgentInstall`, `ImageJobs`, `AudioCalls`, `RunImages` and `RunFeed`, `RunProofs` about `RunManager`, `ChatRun` and `AgentRun` |
| `SumProofs` | | lemmas about sums over finite sets (`FoldFunctionOnSet`) |
| `MC*` | | TLC instances. `MCFront`, `MCRuns`, `MCTurns` and `MCRecords` put modules that share no state into one run: a behaviour is one of the parts, chosen at the start |

Abstractions, all modules. A request, a run and a key are model values; bodies, texts
and token streams appear as counts or not at all. One key is modelled wherever keys
share no state. A random choice of the Go `select` is a disjunction; a deadline is an
action that may fire at any time. Every module's header says what a step is.

`SlotQueue`. `fill`'s loop is a count (`FillCount`) and a split of the line. `slots` is
read live in every critical section, as `cap` does, and may change between any two.
`why` keeps the error `acquire` returned. `NextRequest` lets a request's name be used
again, so that runs are unbounded in length.

`Limiter`. `Unexpired` drops the prefix of a log that has left the window, as `prune`
does, and `SettledLog` cuts the request's own entry out, as `settle` does. The fields `since`, `counted`, `charged` and `at` of an
admission are history, read by the properties only. `Overrun` says by how much the
engine's report may exceed a reservation: 0 where the reservation is meant to be an
upper bound.

`Gateway`. Stages take and give back resources through the actions of the instantiated
modules, so that the composition has no second model of either. A panic leaves the
outcome unset and runs `finish`. A kill keeps only the file, whose last line it may
tear; the next process appends to a torn line, and the two are one malformed line. A
failed write leaves the `bufio.Writer` refusing everything (`stuck`). Shutdown closes
the recorder when the requests have ended or when the grace has passed, with requests
still in `finish`. The event's time is the instant `settle` read (`AccountingTime`).

`RunManager`. `Committed` is `Store.change`: the state asked for or, when the store has
no room for a change of the lifecycle, `failed`. `line` is the positions map as a
sequence. A kind's policy (serial, join on cancel, in-process, deferred cancel) is what
the host registers: chats are in-process and not serial, agents are serial with a stop
hook, images are serial, pulled, with deferred cancel.

`ManagedMember`. One member: members share only the context that `Close` cancels. The
times `idle` and `retry` are what the code compares them for (never set, running,
elapsed; before or after), so the length of a back-off is left out. `lost` counts
running children that an assignment overwrote, which is what a second start would do.

`KeyStore`. A stamp (modification time and size) is a number of the file's version, so
two versions never share one. A command acts as the code does: it looks for the socket
once and keeps to its finding, though a host may start or stop in between. `ghost` keeps
what the properties are about and no code reads: the version a store's keys really have
(`ver`), the version a command wrote, whether another process renamed between a command's
read and its rename (`raced`), the stamp that misleads the host (`blind`; `HostMisled`
compares it with the stamp the host remembers), and the host a command has spoken to.

`ProfileSetup`. The host reads its configuration only while no setup runs or while one
is about to save its own, the only places where the order matters; a setup starts only
when no host is between reading and locking, except for the race the finding is about;
behaviours stop once the configuration has been undone. `serve`'s flags may give a member
any address, the profile's own included: `profile.go:24` compares a flag with the member's
address and does not look at whether the installation has the member as unavailable.
`stated` remembers which addresses were given so, by a flag or by the custom setup;
`EndpointHasEngine` speaks of the others. `odd` are trees whose walk was read and whose
member failed afterwards: the installation names their files, and `Retire` keeps them.

`ImageJobs`. `Close` gives every hold back while rows are still live; a job may then be
without its hold until the process ends, but nothing more is sent (`closing`).

`ResponsesStream`. A chunk is one with a choice, with a piece of at most one tool call: a
chunk with pieces of several is as many chunks in a row, and a chunk of usage alone changes
no item. `Complete` may fail at any event by size, and the stream then ends as failed.

`RemoteConsole`. A rotation needs a code to rotate; a `Mint` whose write fails and a
`Disable` that cannot remove the file change nothing; a start may find `admin.json` damaged,
which turns the console off and keeps the file.

`Bridge`. `EdgeDrops` is the object dropping the host's socket of itself: a registration
anew, a host that was disabled, a frame that cannot be sent.

`RunFeed`. An image that is lost is a change of its run though the run has ended; a commit
that tells of several images is as many commits, one each.

`AgentRun` and `ChatRun` follow one run's consumer with the manager's part in it (cancel,
join, shutdown) reduced to what the consumer sees. `AgentJoinExpires` is left out while
the child is being started, where the consumer has deadlines of its own.

## Runs

| Run | Instance | What it shows |
|---|---|---|
| `gateway_day` | 2 chats, a midnight, kills, shutdowns, torn lines, failing writes, a channel of one event | file and counter agree but for what was demonstrably lost; no second budget; a shutdown forgets only what could not be written; every request ends |
| `gateway_load` | 3 requests through every exit | nothing leaks; engine work is covered; the unsent is free |
| `front` | queue: 4 requests, 0-2 slots; console: 3 calls, 2 peers, 2 codes; setup: 2 members sharing an engine; bridge: 3 jobs, 1 slot, 2 connections | slot accounting, nobody stranded or overtaken, `SlotQueue` implements `SlotPool`; the failure budget; a sound configuration; two ends in step |
| `runs` | 2 runs, every kind and chat with image, tight storage | owners, generations, reservations and leases; terminal is final, nothing is replayed |
| `lines_move` | queue: 3 requests, 0-1 slots; manager: 2 images, an agent or a chat | the line moves by releases alone; cancels end, images end, answers are heard |
| `members` | 2 callers, every policy | one engine, none stopped under a lease, none left after `Close`; acquire returns; an unused engine stops, a resident one comes back |
| `turns` | a chat with three tool rounds; an agent that asks twice | the friend is told what happened; tools wait for the record; both end |
| `records` | limiter, keys, feed, image files, image jobs, audio, responses, agent install | ceilings and Retry-After; no lost key change; truthful followers; accounted files, days, items and runtimes |
| `limits_overrun`, `keys_stale`, `bridge_early`, `setup_undone` | | **violations**: see Findings |

Bounds and why they are enough. The queue's races involve the request that holds, the
one being handed a slot, the one behind it and a newcomer: four requests, of which the
three that do not stream are symmetric; two slots let one `fill` hand out two. A line is
full at 2 x slots waiters, so with one slot four requests reach a refusal. The limiter
needs a request in each of three ages relative to a window of two ticks (in it, at its
edge, out of it) and one midnight that does not fall on a window's edge: three requests
and a clock of four. Budgets are chosen so that each can be the one that refuses and
that two reservations that fit alone do not fit together. In the gateway two requests
make every pair of stages meet, and the third makes concurrency and `RPM = 2` refuse. In
`gateway_load` both chats fit the day, so that they meet at the slot; in `gateway_day`
they do not, so that the budget refuses. In the run manager two runs of one kind are an
owner and its successor, the smallest pair in which a stale owner can hurt. Two callers
of a managed engine are one that holds it and one that comes or goes; with three, which
the proofs cover, safety was also checked. Image jobs need four: two that fail and are
charged, a third whose failure is free, and one that finds the day full. A follower with
a channel and a snapshot of two events can be replayed to, trimmed and cut off with
three changes. Two commands and a host that starts and stops give every order of a reading,
a renaming and a stat of three writers. The bridge was also checked with three jobs and
two slots (6 million states), setup with three assets.

Named bounds: `MaxTime`, `MaxSlots`, `MaxLive`, `BufferedEvents`, `Overrun`, `MaxCodes`,
`MaxConns`, `MaxData`, `MaxSubs`, `MaxEpochs`, `MaxSeq`, `MaxPuts`, `MaxStarts`,
`MaxChunks`, `MaxHistory`, `MaxDeltas`, `MaxAsks`, `FrameCap`, `DeltaCap`, `Trees`.

Symmetry is used only in runs without liveness, over model values that no initial state
and no property tells apart. The composed runs and those of modules whose actors act
once each disable the deadlock check: there the system may come to rest with everything
done. The gateway, runs, members and lines runs check for deadlock.

Fairness. `QueueSpec`: a goroutine whose channel is closed, whose context is done or
whose mutex is free runs on, and a holder releases, since `finish` is deferred. Neither
the queue's timer nor the friend is fair, which makes `LineMoves` stronger: the line
needs no timeouts. `GatewaySpec`: each request's own step is fair because every blocking
call in it has a deadline (read, probe, queue, first byte, idle and write timeouts);
friends, engine, kills and clock are not. `RunFairness`: a worker's own steps and the
joiner are fair (engine calls have deadlines, the joiner a timer); a consumer callback
and a stop hook are not: they may hang for ever, which is what joining is for.
`MemberSpec`: the goroutines, the ticker and the deadlines are fair. A done context is
chosen by some `select` in the end (strong fairness of `GivesUp`), because Go chooses at
random among ready cases; without it a caller could see each start end well and be lost
again, for ever. Holders, engines, friends and `Close` are not fair. `ChatFairness`: the
follower's steps and the joiner's timer; the chat's consumer is not fair. `AgentSpec`:
the consumer's own steps, a model call whose context is cancelled, and the joiner's
timer; the child is not fair. `MCTurns` states the same for the part that runs.

Every property has a mutant in the module of the code it guards (a comment that starts
with "Mutant:" marks it): a definition changed the way a plausible bug would change it,
under which TLC reports the property violated.

### Findings

- `limits_overrun`. `limits.go:24` says "So Σ reservations + Σ charges never exceeds
  TPM". `settle` charges what the engine reported, even when that is more than was
  reserved; the reservation rests on a prompt count that leaves image parts out and falls
  back to an estimate (`proxy.go:119`, `proxy.go:165`). With `Overrun = 0` the same
  ceiling holds (`records`).
- `keys_stale`. `save` renames `keys.json` and then stats it. Another process that renames
  in between leaves the host with that file's stamp and its own keys; a key minted by the
  other process then answers 401 until the file changes again, though the comment of
  `Lookup` says that never happens (`keys/store.go:137`). The host's next change starts
  from its old keys, since the forced reload of `mutate` trusts the stamp as well, and so
  drops the other process's change; this takes three commands, and was found when
  `KeepsOthersChanges` was to be proved.
- `bridge_early`. A request admitted before a reconnect, whose body is still being read,
  is started on the new socket before its first snapshot (`bridge/src/index.ts:326`),
  though `bridge/README.md:110` says a new socket starts with an empty set. The host
  refuses the frame and closes the connection.
- `setup_undone`. `serve` reads `config.json`, then takes the lock of the data directory,
  then saves what it read: a setup that ran in between is undone.

### Observations

Met while modelling; the models have the code's behaviour, and no property claims
otherwise.

- Audio: the documents disagree on speech. `docs/LIMITS.md:170` says "Speech charges its
  reserved characters after dispatch, including interrupted calls"; `docs/ARCHITECTURE.md:422`
  says that "upstream failures and pre-audio client cuts do not" charge, and `settleAudio` does
  the latter (`gateway/audio.go:387`): it charges when the call was served or its listener left
  after the first sound. `AudioDayHolds` states what the code and `ARCHITECTURE.md` say; in
  the model, speech that was sent and then failed settles at nothing, against `LIMITS.md`.
- Usage: a malformed line anywhere in `usage.jsonl`, of any date, makes every later host
  refuse audio and images (`gateway.go:144`). After one write error the `bufio.Writer`
  refuses every later write and `Dropped` does not count them.
- Images: a probe sent before an engine lost a request, and answered after, counts as fresh.
- Keys: `keys resume` with an id revives a revoked key, which the README calls permanent.
- Agent: while the host closes, a run may be recorded done with only the end of its
  turn; only the first failure of a run aborts it, so a later tool may run without its
  prefix stored, though `docs/AGENT-RUNTIME.md` says dispatch waits for it; a child that
  dies with an approval pending leaves its run waiting until the approval is answered.
- Agent install: a damaged runtime directory cannot be replaced, as the rename meets a
  directory that is not empty, though the error says to run the installer.
- Setup: a crash between an overlong copy and its removal leaves a `.part` that makes
  later setups fail; a finished download that rots is never removed; a cancelled
  verification deletes a complete `.part`; `SaveInstallation` has not the limits of
  `LoadInstallation`; a custom setup after a built-in one whose member is unavailable
  saves an address that `serve` refuses; a flag of `serve` that names the profile's own
  address of a member that is unavailable is accepted and saved, and the endpoint then has
  no engine (`profile.go:24`, `serve.go:154`).

## Proofs

`SlotQueueProofs` proves, for any finite set of requests, any set of streaming ones and
any bound on slots (`QueueAssumption`, nothing more), that `QueueSafety` implies
`QueueTypeOK` (`QueueTypeCorrect`), which includes that the counter never goes below 0,
`SlotAccounting` (`SlotsAccounted`), `LineExact` (`LineIsExact`) and `NeverStranded`
(`NobodyStranded`). The inductive invariant is `QueueInv`, their conjunction with
`IdleFresh`. None is inductive alone: `SlotAccounting` needs the line to be exact (else
`fill` could hand a slot to somebody who is not waiting, or twice to the same),
`LineExact` needs a request that arrives not to be in the line and its channel to be
open, which is `IdleFresh`; and `NeverStranded` follows from the counter being the number
of owners and `fill` leaving waiters only when the counter is at the limit, which is at
least 1. The argument goes through lemmas about `Fill` (`FillFacts`: it hands slots to
the k oldest and leaves the rest of the line; `FillKeepsInv`: owners, counter and line
stay in step), which every action that calls `fill` cites. `LineExact` and the type
invariant are proved and no run repeats them.

`HostProofs` is about four modules, which share no state. For `ManagedMember` it proves,
for any finite set of callers (`MemberAssumption`), that `MemberSafety` implies `OneEngine` (`NeverTwoEngines`), `NoneSurvives`
(`CloseLeavesNone`) and the action property `HeldEngineRuns` (`LeaseKeepsEngine`). The
inductive invariant `MemberInv` adds to the type invariant and `OneEngine`: `StartShape`
(a start has its goroutine, which alone holds the child, and a process has been ready:
this is why a caller that does not find `ready` may start without looking at `process`),
`CloseShape` (who may still act while `Close` proceeds), and `LeasesExact` (refs is the
number of callers inside `acquire` or holding), from which an action guarded by
`refs = 0` is known to hurt nobody. One lemma covers `startLocked` for its two callers.

From `QueueInv` also follow the action property `LineIsFair` (`LineFairness`) and the
refinement `ImplementsPool` (`QueueImplementsPool`): the initial states map to initial
states of `SlotPool`, and each action to one of its actions or to a stutter.

`SumProofs` has what the meters need: the sum of a function over a finite set is a number,
splits over disjoint sets, grows with the function and with the set, and is the same
under a bijection. The community modules define it by `FoldFunctionOnSet`, a recursion
through `CHOOSE`. The library's induction theorems cannot be instantiated by the
installed provers, so the induction is an argument about a minimal counterexample: the
strict subsets of a finite set are well founded, and a sum is shown to be the cardinality
of a set of cells (`SumIsCells`).

`LimiterProofs` proves, for any finite set of requests, any limits, window, day and
clock (`LimiterAssumption`), that `LimiterSpec` implies `Exactness` (`CountersExact`). It
is the inductive invariant: `InFlightExact` and `ReservedExact` (the two counters are
those of the requests under way), `HoldsWhileReserved`, `RPMCeiling` for every window of
the past, `LogKept` (the log still has every request that counts), `MinuteExact` and
`DayExact` (the logs and the day's total are what was charged). `MinuteExact` speaks of
every later time too: a charge that is dropped by `prune` must be one that no later
reading would count. `LimitsAlwaysHold` derives `LimitsHold` from it under `Overrun = 0`,
the assumption that no charge exceeds its reservation; the code does not enforce it, and
`limits_overrun` shows the ceilings exceeded without it. `RetryAlwaysExact` proves
`RetryAfterExact` without that assumption. It adds to `Exactness` that the charges are in
the order of time (`ChargesInOrder`), because `prune` only ever drops a prefix and the
oldest charge must not outlive a later one, and that the log of admissions is never longer
than the limit (`LogBounded`), because otherwise more than one admission would have to
expire. Sums over neighbouring parts of the log add up (`SliceSums`), and what is left after
`Retry-After` is at most what was left of the first charges that are enough. The theorem
speaks of a need of at most `TPM - reserved` tokens: more than that waits for a reservation
to settle, which no clock announces.

`GatewayProofs` proves four properties of the pipeline and its recorder, for any finite set
of requests, any limits, slots, length of the channel and clock (`GatewayAssumption`, which
includes the assumptions of the queue and the limiter). Queue and limiter are instances in
`Gateway`, and here the modules of their proofs are instances too (`QueueFacts`,
`LimitsFacts`): what `SlotQueueProofs` says of a step of the queue is carried over by
`SameQueueNext` and `SameQueueInv`, and `LimitsStep` does the same for what each step of the
limiter keeps (`Lending`, the part of `Exactness` about what is lent). There are three
inductive invariants:
- `LentInv`, for `ResourcesAlwaysCovered` (`ResourcesCovered`): besides the queue's invariant
  and the limiter's, each stage of a request says which admission, which place in the queue
  and which body it has (`LentOK`). The counters are exact because the parts are; nothing
  leaks because `finish` cannot be passed holding anything; and `KilledAndRestarted` gives
  back everything at once.
- `FreeInv`, for `UnsentAlwaysFree` (`UnsentIsFree`): an outcome comes with `finish`, only what
  was sent or lists models is served or cut, and what `settle` has settled without its being
  sent was free.
- `DayInv`, for `DayAlwaysKept` (`DayIsKept`) and `ShutdownAlwaysKeepsTheDay`
  (`ShutdownKeepsTheDay`): it adds to `LentInv` where every event is (`FileOK`: in the file, the
  page, the channel, dropped or lost, in one of them only, and which of these may be when
  nothing is torn or stuck) and what the counter counts (`DayOK`: the charges of the settled
  requests of its own day, whichever process settled them). A charge moves from one place to
  the next and the sum stays, so the lemmas of `SumProofs` do most of the work. That counter
  and file agree needs no assumption on what is charged (`CounterAlwaysMatches`); that a
  restart hands out no second budget is proved under `Overrun = 0`, because a charge beyond
  its reservation exceeds the day without any restart (`limits_overrun`).

`RunProofs` proves of the run manager, for any set of runs, any mix of kinds and any limit
(`RunAssumption`), that `RunSafety` implies `RunsHold` (`RunsAlwaysHold`) and
`HistoryIsFinal` (`HistoryAlwaysFinal`). None of the parts of `RunsHold` is inductive.
`RunInv` adds what makes them so:
- for `OneGeneration`: a kind is blocked exactly while a join of it is being settled
  (`BlockedExact`), a runtime that may still be there keeps its kind in quarantine and is
  the only one of its kind (`Doubt`), a kind in quarantine is empty (`Quarantine`), and an
  expired join is settled, and its row ended, before the run is let go (`Expiry`,
  `JoinShape`). Without `Doubt` a hook that returns late could open a kind in which
  another runtime is still in doubt;
- for `LiveHasOwner`: a worker leaves only a run that has ended (`Driven`), a run without
  a row has no worker and one without a worker is held by nobody (`Fresh`), and a queued
  run is among the rows `queued` reads (`Listed`);
- for `ReservationFollowsRun` and `NoGhostInLine`: images are joined at shutdown only and
  lease nothing (`ImageShape`), and the line of images holds images (`NoGhost`);
- for `LeaseFollowsOwner`: the lease of a chat in a step is held until its joiner makes it
  late (`ChatLease`).

The parts that speak of owners and workers take both as parameters, because an action
that ends with `schedule` changes them twice: `ScheduleKeeps` shows once that a schedule
completes the invariant after a change that kept it but for the line, and the five
actions that end with one cite it. `StepKeeps` does the same for the steps of one run's
worker. `schedule` reads its line through `Queued`, and `QueuedFacts` says what that
gives: queued runs of the kind, and none only if there are none. `RunInv` was an
invariant of a TLC run of the same instance as `runs` before it was proved.

For `KeyStore`, `HostProofs` proves, for any set of commands and keys and any number of starts
(`KeysAssumption`: the host, the first author and the commands are different), that
`KeySpec` implies `[]InForceOnReturn` and `KeepsOthersChanges`. `KeyInv` strengthens the
first. `VersionsOK`: no store is ahead of the file, and one whose keys have the file's
version has its keys. `StampsOK`: a remembered stamp that is the file's is the version of
the keys, except for a command that has renamed, whose store is not read again, and for a
misled host. `HostOK`: the console's mutex admits one route at a time, and between its
rename and its stat the host has either its own version, which is the file's, or a
misleading stamp. `ReadsOK`: what a command that nobody raced is about to write is made of
the file as it is; for `limits`, the values it sends along are the file's but for its own
field. The action property follows: only `Rename` takes a command from `loaded` to
`renamed` (`OnlyRename`), and `ReadsOK` says what it writes. Most steps only read a store
again, so that one lemma (`ReadKeeps`) proves them all from what the step does to its own
command (`OwnStep`). `KeyInv` was checked by TLC with two commands and two starts and, for
a choice of verbs, with three commands.

For `ProfileSetup`, `HostProofs` proves that `SetupSpec` implies `ConfigurationSound`
(`ConfigurationAlwaysSound`), for any profile of members that need any finite lists of assets
(`SetupAssumption`). `SetupInv` says, until a host has undone a setup: where setup is and what
it holds (`PlaceOK`: the lock, the member and the asset in hand, a tree that is being walked
is only staged), what is on the disk (`DiskOK`: a published download is never wrong, what the
installation in hand records is there, what `config.json` names is there, and what is
retired is no part of what was just saved), and that an endpoint served by a member that is
unavailable was stated (`FieldsOK`). The installation in hand has to be in the invariant because it becomes the
configuration's two steps later, after steps that may fail; one lemma (`DiskStays`:
a disk that only gains keeps what is recorded) serves every step that adds files.

For `RemoteConsole`, it proves that `ConsoleSpec` implies `ConsoleGuarded`
(`ConsoleAlwaysGuarded`), for any finite set of calls, any peers, codes and length of the minute
(`ConsoleAssumption`). `refusals` is what really happened and the table is what the host
remembers; `EntryOK` relates them for each peer: the failures remembered are the last of
those that happened, the others are a minute old, and so is whatever came after the entry
was last touched; the attempts under way are counted by `active`; and both together stay
within the budget. A peer the table has forgotten has nothing under way and nothing of the
last minute (`PeerOK`), which is what a sweep for somebody else must not break. Every
attempt under way is in the budget already, so that its failure only moves from one
count to the other. `Recent` drops what leads its list and is a minute old, as the loop of
the code does, and `RecentFacts` says what that leaves.

`RecordProofs` proves six properties, with five invariants.
`RuntimeAlwaysStays`: `InstallSpec` implies `RuntimeStays`; the invariant adds that an
installer publishes only a tree it marked. `ImageDayAlwaysHolds`: `PicturesSpec` implies
`ImageDayHolds`; the invariant adds that images queued and running are held, and that
holds are images of those kinds or of the worker that is ending (`LiveIsHeld`, until a
Close, and `HoldIsLive`), that the day covers spent and held together (`DayCovers`), whom the
worker is busy with, and how the failures that cost relate to the breaker.
`AudioDayAlwaysHolds`: `AudioSpec` implies `AudioDayHolds`; the invariant gives every
call one claim on its day (`Claim`: its reservation while it is under way, then its
charge up to the reservation) and bounds their sum. Every step but a reservation lowers
claims or leaves them alone, so that `SumMonotone` does the rest. The sets of pictures
and calls are finite, and no call is of both classes (`PicturesAssumption`,
`AudioAssumption`). `ImagesAlwaysAccounted`: `ImagesSpec` implies `ImagesAccounted`, the
accord of image files and records through failed writes, collections, deletions and a
crash between any two file operations. `ImagesInv` adds the shape of the two snapshots
(`LedgerOK`), of the steps an operation still has to take (`PlanOK`) and what the next of
them relies on (`NextOK`: an unlink touches no image that is held, a record finds its
file, an intent is forgotten only when its file is gone), and that memory and disk agree
until a commit fails (`UpOK`). TLC checked it with three runs and three images (23.9
million states).

`FeedAlwaysTrue` and `CursorsAlwaysDurable`: for any runs, followers, capacities and bounds
(`FeedAssumption`), `FeedSpec` implies `FollowerShowsTheTruth` and `CursorsAreDurable`. A
follower's connection may end after any entry of its channel, it may be told of nothing for
a while, and what it then replays depends on the cursor it was left with. `FeedInv` speaks
therefore of every place in every channel: a follower cut off there is not ahead of the
ledger or of the disk, and what it shows by then, with the events kept after its cursor, is
what the snapshot holds, unless the cursor is older than what is kept (`Faithful`). It holds
for both snapshots, because a restart may go on from either. `EventsSound` is what makes a
replay bring a follower level: the events kept have the last numbers, without a gap, and the
last one about a run has its state. `Level` says that whoever is subscribed has, with its
channel, everything; `EpochsUpTo` that nobody knows an epoch that is yet to come, from which
a new epoch needs no word about old cursors; `KnownByFollower` that a row which is new is
known to nobody; `DiskAgrees` when disk and ledger may differ. A commit is proved once
(`WriteKeeps`) from what it writes and whom it tells, and `EventPublished` and
`ResetPublished` say what an event and a reset do to a follower with room, without, or away.
TLC checked `FeedInv` with two runs and a follower (787,707 states). `Replay` selects its
events with `Selected`, not `SelectSeq`, which is recursive.

`RunProofs` also proves the safety of a turn. `ChatAlwaysFaithful` and `SearchCeilingHolds`:
`ChatSpec` implies `ChatIsFaithful` and `SearchCeiling`, for any chats, channel length,
number of deltas and of rounds (`ChatAssumption`). `SearchCeiling` is inductive.
`ChatIsFaithful` needs where each delta is (`DeltasOK`: with the friend or in the channel,
unless the consumer has failed; a consumer that closed `done` streams no more) and where
each batch is (`RoundsOK`: in a round and an opened step of its own, and only the answering
round is the last).

`NothingEverOutlives`, `ToolsAlwaysAuthorized` and `DoneAlwaysKeepsAll`: `AgentSpec`
implies `NothingOutlives`, `ToolIsAuthorized` and `DoneKeepsAll`. The first needs only what
the consumer holds at each of its points (`HoldsOK`). The others are about a plugin and a
consumer that see each other through two wires, and `Quiet` is what makes them inductive as
long as the run has met no failure (a failure is never taken back, `FailureStays`):
- `FrameOK`: a question is the last frame on the wire and not answered yet, it is the one
  the plugin waits for, and what it carries completes the record (`kept + n = made`), or
  the plugin has dropped an event;
- `MsgOK`: an answer finds the plugin waiting and the wire to the host empty, there is at
  most one, and a good one to a question of the turn is given only when the record is
  complete and nothing was dropped;
- `SpoiltOK`: a plugin that dropped an event has its `model_cancel` on the wire before
  anything else it asks, or the consumer has taken it and aborted;
- `TurnOK`, `FreshOK`, `EndOK`: what is in the record at each point of the plugin, before
  its start, and when the consumer ends without a failure.
`FrameCap` is at least two (`AgentAssumption`; the code has 256): a session that could not
hold a model call and its cancellation together would lose the latter, and a tool could
then run on an incomplete record; TLC shows that trace for a capacity of one. `Quiet` was
an invariant of a TLC run with three questions (1.8 million states) before it was proved.

`EndsAlwaysKeepStep` and `CompleteAlwaysMeansAll` (`BridgeProofs`): for any finite set of
jobs, any number of slots, connections and chunks and any length of the line
(`BridgeAssumption`), `BridgeSpec` implies `EndsKeepStep` and `CompleteMeansAll`. The two
ends never agree at a moment: a job the object has given up may still be kept by the host,
and the other way round. `BridgeInv` therefore speaks of both ends and of both wires at
once. Its parts:
- `JobsOK`: of each job, what the object knows, what the host keeps and which frames about
  it are on their way fit one another. `HostFine` says that whoever counts a slot at one end
  has it at the other, or a frame on its way gives it back, and that an `ack`, a `cancel` or
  a `ready` finds the job in the client's table; `EdgeFine`, that a frame of the host finds
  the job active, and that a `ready` is the last word about a job that was cancelled;
  `DataFine`, that at most one chunk is written, on its way or acknowledged, that nothing
  is lost of a job that was not cancelled, and that an `end` follows everything;
- `OrderOK`: which frames about a job may follow which on a wire (`RelayPairs`,
  `EdgePairs`), so that taking the first leaves frames that are still allowed;
- `RoomOK`: neither end has more jobs than slots now, and the client will not have after
  any frame on its wire (`WireRoom`). `KeptAfter` says what it will have kept by then as a
  set of jobs, those it keeps or is asked to serve and not told to give up, in place of
  a fold over the wire;
- `LineOK`: the line has each waiting job once; `KeysFirst`: unless a request was started
  before the first snapshot of its connection (the finding of `bridge_early`, which
  `EndsKeepStep` excepts), the number of slots is on the wire before every request.
None of them is inductive alone: that a request finds room at the host needs that the object
counts a job until its `ready`, that the host does not keep a job whose `ready` is on its
way needs the order of the wire, and `CompleteMeansAll` needs that a chunk is never
overtaken by the `end`. `Starts`, which sends a request for each job that leaves
the line, is proved once (`StartsKeep`) from a state sound but for the room just made.
TLC checked `BridgeInv` on the runs' instance first (177,458 states).

The leaves that take a solver more than a few seconds name its time limit (`SMTT`, `ZenonT`),
so that they also succeed on a slower machine.

Only model-checked:
- everything under fairness (`LineMoves`, `EveryRequestEnds`, `AcquireReturns`,
  `EngineFollowsUse`, `RunsProgress`, `ChatEnds`, `CancelledRunEnds`), which is out of the
  prover's reach;
- `StreamIsFaithful` of `ResponsesStream`: it compares the events sent with what the chunks
  add up to, a fold over a sequence, and would need induction over data.

## Not modelled, and why

- A managed destination inside the pipeline, and `onAcquired` failing inside
  `acquireSlot`: the two modules are checked by themselves, and meet in one call.
- Engines that outlive a killed host until their guardians see the lifetime pipe close
  (`supervise/guardian_unix.go`): the order is the operating system's.
- In `RunManager`, `Sweep`'s deletion of old terminal rows (`RunFeed` has it); anywhere, the
  size accounting of a snapshot.
- Of the bridge: the rate window, the reader's byte budget, hibernation, the codes and tokens
  of registration, the counters of the status page, each local to one end; and a publication
  of keys that fails (`client.go:82`), after which the session ends.
- `seedCounters` when `usage.jsonl` cannot be read at all (`gateway.go:139`): the counters then
  start at zero, as the code's log says, which no property could bound.
- Of the meters other than tokens: their Retry-After.
- Parsing, rendering, logging, flags and prompts, `connect`, the service installers, the
  contents of archives: no state shared with anybody, or sequential I/O.
- The tunnel and the engines: external; what the code sees of them is in the models.
- The web client and the macOS app.

## What is left

Every part of the host with state of its own that concurrency, failure or restart can hurt
is modelled, and every safety property is proved but for the one listed above. What would
come next is the translation of a stream, whose correctness is about a fold, and the parts
of the bridge that are local to one end.
