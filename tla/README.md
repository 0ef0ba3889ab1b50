# A TLA+ verification of Shea

Shea is an assistant that turns a request into a plan, has every step of it
authorized, runs it through tools with real side effects, verifies the result
and recovers from failures and crashes. This directory holds TLA+ models of
the part of it whose mistakes cannot be undone, the TLC configurations that
check them and TLAPS proofs of their main results. Paths below are relative to
`src/src/shea/`; `PROJECT.json` maps every definition to the lines it models.

## 1. The system

### Components

| Component | State it keeps | Operations | What makes it correct |
|---|---|---|---|
| **Execution supervisor** (`app/supervisor.py`, app-plane repositories) | rows of `app_idempotency`, `app_receipts`, `app_attempts`, `app_recovery_incidents` | `execute`, `reconcile_receipt`, `reconcile_stuck` | one adapter call per key; a durable receipt before it; a final and truthful verdict; stuck receipts get settled |
| **Reconcilers** (`app/reconcile/`) | none | `observe` | claim SUCCESS or FAILURE only when it is known |
| **Task state machine, orchestrator** (`state_machine/`, `core/orchestrator.py`) | row of the task, audit events | `create_task`, `advance`, `attach_plan`, `cancel_task` | terminal states are final; the trail explains the row |
| **Plan runner** (`execution/plan_runner.py`) | its in-memory plan, step rows | `run` | steps in order, completed ones skipped, completion means all verified |
| **Execution service** (`execution/service.py`) | execution records, consumed authorizations | `execute` | no duplicate effect; record, authorization and state change together |
| **Decision service** (`decision/`) | decisions, authorizations, pending confirmations | `evaluate_and_authorize`, confirmations | one step per authorization; risky steps wait for the user |
| **Verification service** (`verification/`) | verification rows | `verify` | a step counts only when confirmed |
| **Recovery service** (`recovery/`) | recovery attempts | `begin_recovery`, `resolve_recovery`, `stabilize`, `resolve_blocked`, `reconcile_stranded_tasks` | retries stay within their budget; no task in limbo after a restart |
| **Unit of work** (`persistence/sqlite/unit_of_work.py`) | nesting counter, SQLite transaction | `__enter__`, `__exit__` | composed writes are all or nothing |
| **Audit log** (`audit/`, `persistence/sqlite/audit_*.py`) | `audit_events`, a hash chain | `record`, `verify_audit_chain` | append-only; tampering shows; no false alarms |
| **Interaction service, API, facade** (`app/interaction/`, `api/`, `app/facade.py`) | sessions, chat events, pending confirmations | `submit_chat`, `handle_text`, `confirm_and_run`, `/cancel`, `reconcile` | one run per READY task; an error hides no work |
| **Planning, understanding** (`planning/`, `understanding/`) | requests, intents, plans of new tasks | `open_request`, `understand`, `answer_conversationally`, `create_and_plan` | plan and READY come together; a request is answered or becomes a task; no task is stranded in planning |
| **Provider routing** (`provider/`, `model/`) | a window of outcomes per provider | `generate` | failover ends honestly; an outage ends when the provider answers again |
| **App-plane adapters, reconcilers, scopes** (`app/adapters/`, `app/reconcile/`, `app/scope_enforce.py`) | files, processes, connections: the outside world | `invoke`, `observe`, `evaluate_scope` | a FAILURE is known as one, also after a crash; every hop is checked; every contract ends |
| **Tools** (`tools/`, `security/sandbox.py`, `credentials/injection.py`) | the registry | `ToolExecutor.execute` | a permitted call reaches its handler, an unpermitted one never |
| **Events** (`events/`) | subscriptions, sinks | `publish`, `subscribe`, `unsubscribe` | a failing listener costs nobody else the event |
| **Memory** (`memory/`, its table and full-text index) | memories in two stores | extraction, `propose`, `delete`, `run_maintenance` | learnt from completed work only; superseded is not forgotten; deleted stays deleted; profiles do not mix |
| Security policies (`security/`) | none | `enforce`, `scan_output` and predicates | a violation halts the task |
| Configuration (`config/`), credentials (`credentials/`), audio (`audio/`), extensions (`extensions/`), updater (`system/updater.py`) | their own stores | see `PROJECT.json` | see section 5 |
| Profiles, observability, CLI, GUI, wiring | rows, counters | load, save | no protocol of their own |

### How they interact

The API server runs handlers on a thread pool; all of them share one runtime,
one SQLite connection (`check_same_thread=False`) and one unit of work.
`handle_text` plans a task and calls `PlanRunner.run`; for each step the runner
asks the decision service (READY to RUNNING), the execution service (which
calls the supervisor, which calls the adapter; RUNNING to VERIFYING) and the
verification service (VERIFYING to READY or COMPLETED). A step that needs the
user leaves a pending confirmation; the answer starts a second run. Every move
of the task goes through `Orchestrator.advance`, which writes row and audit
event in one unit of work and publishes `task.state_changed`; handlers, the
memory extractor first, run on the publisher's thread, also when it is inside a
unit of work. The planner, the intent parser, the extractor and the broker
share one provider routing service. At start-up `build_runtime` settles
receipts and then tasks; `begin_recovery` and `SheaApp.reconcile` do the same
at any time.

### What is hard

* Threads that meet on one row: every operation reads the row, decides, and
  writes it all back; no lock or version check spans the two.
* Crashes between commits: `execute()` commits four times and calls the
  outside world in the middle.
* Three memories of one execution that must agree on whether it may run again:
  the idempotency row, the execution record, the recovery attempts.
* Whole-object saves of stale copies: the runner saves the plan it read once.
* One transaction for all threads: commit and rollback are not per thread.
* Reconciliation that was written for start-up and is also called live.
* Checks whose subject may change before the act: paths, host names, health
  windows, the memory a proposal was judged against.
* Events published before the transaction they tell of is committed.

`PROJECT.json` lists each hazard at its line, with the properties aimed at it.

## 2. Modules

| Module | Models | State and actions |
|---|---|---|
| `OneShot` | abstract specification of a supervised operation | a key is new, claimed, called, settled; `Claim`, `Call`, `Settle` |
| `Supervisor` | `ExecutionSupervisor` | the durable rows; a frame per worker in `execute()` and one for the sweep; one action per commit, plus the adapter call, crash and restart. `SupervisorProofs` proves about it and that it implements `OneShot` |
| `TaskStates` | `state_machine/transitions.py` | the transition table as a set of triples, `next_state` |
| `Orchestrator` | `core/orchestrator.py` over one task | the row, the audited trail, a frame per caller with its copy of the row; reading and writing are separate actions. `OrchestratorProofs` |
| `PlanExecution` | runner, decision, execution, verification and recovery services and the users, composed over one task | the rows of task, plan, authorization, records, keys, attempts; per runner its program point, plan copy, step, acknowledgement, result and the state its `advance` is about to save; per caller (cancellation, recovery, reconciliation) the call it is in. `PlanExecutionProofs` |
| `UnitOfWork` | `SqliteUnitOfWork` | counter, open transaction, committed writes, units of threads. `PersistenceProofs` |
| `AuditChain` | `SqliteAuditSink.record`, `verify_audit_chain` | the table and its committed contents, who is inside a unit, the tip each has read. Its definitions have names of their own (`LogSpec`, `LogTypeOK`, ...) so that one module can prove about it and `UnitOfWork`. `PersistenceProofs` |
| `ProviderRouting` | `ProviderRoutingService`, `ProviderRouter`, `HealthTracker` | the windows; per caller the providers still to try with the ranks they got when the call began. `Begin` filters and ranks, `Answer` and `Fail` record one attempt, `End` reports exhaustion. `ProviderRoutingProofs` |
| `Intake` | `submit_chat`, `handle_text`, `PlanningService`, `IntentParser` | the rows of a message (chat, request, intent, response, task, plan); per message the handler's place and draft; one action per commit or model call, crash, restart, live sweep. `IntakeProofs` |
| `AppWorld` | what adapters share | the contract, the world, the `AdapterResult` and how the supervisor reads an exception |
| `FilesystemAdapter`, `HostAdapters`, `NetworkAdapters`, `ToolAdapter` | the adapters `build_runtime` registers, and `filesystem.local`, which it does not: only a supervisor composed with it has that one (`tests/unit/test_app_filesystem.py:42`), so it is there when `WithFilesystem` is set | gate, act, re-read as steps; a host adapter per platform; one step per hop of a request; permit, injection and executor of a tool call |
| `AppPlane` | one contract from selection to verdict | composes the adapters with `_select_adapter`, `evaluate_scope`, `evaluate_verification`, the reconcilers, a crash and a program that meddles. `AppPlaneProofs` |
| `EventBus` | `EventBus`, patterns and filters, `state_changed`, `conversation_turn` and one event below and above what sinks filter by | subscriptions, sinks; per thread the event and the receivers left, a set ranked as the stable sort would order it |
| `Memory` | extractor, broker, `MemoryService`, its two stores | composes `EventBus` with the unit of work of the announcing task: the database as the connection sees it and as committed; who is inside a save's unit; per thread the ids the index gave, the row read for the proposal in hand and the new id. `MemoryProofs` |

`MC*` modules add the symmetry sets and constants TLC needs.

Composition: `PlanExecution` uses `TaskStates` and abstracts `Supervisor` to
what its callers see and `Supervisor` guarantees: a key that ever had a row is
refused, and a verdict comes with at most one effect (`Reservable`,
`Verdicts`). Like `Orchestrator` it takes `advance` as two steps, the read and
the save of what was decided on it, so two runners may both get past READY.

Units of work: `UnitOfWork` and `AuditChain` model the counter that all threads
share, and `Memory` that counter with every save as an enter and an exit of its
own. In `Memory` the decrement and the commit of an exit are one step, which
`AuditChain` splits. `Supervisor`, `PlanExecution` and `Intake` take a unit
(the reservation, the receipt, the INVOKED mark; a decision or an outcome with
its new state; intent, plan and READY) as one step that is durable when it
ends. In the code that is so only while no other thread's unit is open on the
connection: otherwise the writes wait for that thread's exit and share its
rollback. `UnitOfWork_serial` shows the first, the same module with `Overlap =
TRUE` the second, and what the three modules show holds where the first applies.

`Intake` ends where `PlanExecution` begins, at READY, and uses the same
`TaskStates`.
`AppPlane` opens the adapter call that `Supervisor` takes as one step, for one
contract and without its database rows. `Intake` takes a model call as an
answer or an exception; `ProviderRouting` is what happens inside it.

Definitions whose comment begins with "Seeded fault" are the plausible mistakes
the properties are tried against; no specification uses them.

### Abstractions worth knowing

* Payloads, identities, scopes and policy tables are reduced to the refusals
  they cause. A risk decision is whether a step needs an acknowledgement
  (`NeedsAck`).
* An adapter may report SUCCESS (with its effect), FAILURE or UNKNOWN (with or
  without). A supervised FAILURE with an effect is possible: verification
  demotes a SUCCESS whose postcondition is not met.
* `invoked`, `effect`, `refused`, `verified` and `torn` only observe.
* Steps are run in the topological order `OperationGraph` returns, given as
  `1 .. NumSteps`. Equal steps of a plan share an idempotency key (`StepKey`).
* Recovery is called by the embedding program (no route calls it), from as many
  threads as there are `Callers`. `begin_recovery` is three steps: it counts the
  attempts, saves its own, and advances the task.
* The requests a failed step's compensations make are left out: they run
  without an authorization of their own and the binding check refuses them.
* `UnitOfWork` takes `__exit__` as one step; `AuditChain` splits it into the
  counter and the commit or rollback, because a thread can enter in between.
* SHA-256 is an injective pairing of an event with the hash before it.
* A health window's rate is compared in integers: `state` says from how many
  failures in a window of n a provider is DEGRADED or UNAVAILABLE.
* A draft of the parser is its type, whether it carries a reply and whether its
  confidence suffices; prompts, patterns and validator criteria are choices.
* A contract misses at most one requirement of its adapter (`flaw`); files are
  absent, a directory, old, new or cut; a name resolves to a public or a
  private address and may do otherwise the next time. A contract of a tool may
  name the capability of another family and so be served by its adapter
  (`Names`).
* A memory is its source, type, status and who superseded it. Searching
  the index, reading the rows and storing what was decided are separate steps;
  how the model judges a pair is a choice; `last_errors` of the bus,
  which only tests read, is left out.

## 3. Runs

| Run | Result | What it shows |
|---|---|---|
| `Supervisor_boot` | pass | Two threads, two keys, two receipts, two crashes anywhere, sweep at start-up. `AtMostOneInvocation`, `ReceiptBeforeInvoke`; `CompletedMeansDone` (a COMPLETED key had its effect); `SweptFailureIsSafe` (a receipt the sweep settles as FAILURE was never invoked); `StuckReceiptsSettle` (liveness); `ImplementsOneShot` (refinement) |
| `Supervisor_live_race` | violation | The sweep run live settles a receipt as FAILURE while its adapter is about to run |
| `Orchestrator_serial` | pass | One caller, crashes between read and write: `TrailReplays` (the audit trail is one path from CREATED to the row, or the row was cancelled), `TerminalStays` |
| `PlanExecution_safety` | pass | Two runners and a third thread, two steps, confirmation, cancellation, retries, halts, live reconciliation, two crashes, reads and saves of the task interleaved: `EffectAtMostOnce`, `CompletedMeansAllVerified`, `SkippedStepsAreVerified`, `ConsumedMeansSuccess`, `RestartSettlesTask` |
| `UnitOfWork_serial` | pass | Three units, nested three deep, raising, catching, killed: `AllOrNothing` |
| `AuditChain_log` | pass | Three threads on the shared connection: `CommittedRowsStay`, `ChainVerifies`, `TamperEvident` |
| `ProviderRouting_failover` | pass | Two callers, a local and two remote providers, a window of three, four calls: `ExhaustedMeansTried` |
| `ProviderRouting_recovery` | violation | One caller that never stops and providers that answer when asked again and again: an UNAVAILABLE provider stays so for ever (`OutagesEnd`) |
| `Intake_pipeline` | pass | Two messages, one crash, one live sweep, with and without a model: `ReadyHasPlan`, `NeverPreAnswered`, `OnlyOutageStrands`, `RestartUnstrands` (liveness) |
| `AppPlane_effects` | pass | Every contract on every platform, with `filesystem.local` composed in, one meddling, a crash anywhere: `FailureIsKnown`, `ReconciledFailureIsSafe`, `EveryHopChecked`, `EveryContractEnds` (liveness), `TypeOK` |
| `AppPlane_credentials` | violation | With the adapters of `build_runtime` alone: a tool call in order whose arguments hold a credential never reaches its handler |
| `Memory_pipeline` | pass | A completing task and a turn of one profile beside a memory of another; a handler or a save that raises, a delete, maintenance, a client, a crash: `TaskMemoryIsEarned`, `SupersededHasSuccessor`, `EveryListenerIsCalled`, `ProfilesAreIsolated`, `AnnouncedBecomesDurable` (liveness), `TypeOK` |

Each of the three violations is a finding in `PROJECT.json`, with the sentence
of the repository it contradicts.

### What else the models show

These disagreements between code and documentation, and these surprises, are
part of the models: without the restriction named, the property below fails.
Where the text says that a property fails, TLC prints the trace once the
constant is set as described and the property is listed in the configuration.

* `Supervisor`: a sweep settles receipts, never keys, so after a crash the key
  of a settled receipt stays IN_PROGRESS and is refused for ever, although
  `README.md:223` speaks of "Universal Reconciliation".
* `Orchestrator`: `cancel_task` writes no audit event, hence the exception in
  `TrailReplays`, although `orchestrator.py:146` says that `advance()` is the
  only method that changes `state`. With two callers the trail is no single
  path, and the save of the one that read first revives a task the other had
  ended (`TerminalStays` fails).
* `PlanExecution`: with two runners a run that waits for a confirmation saves
  its stale plan over completed steps (`CompletedStepsStay` fails); the step is
  then run again and refused by its key. READY is no lock: two runs can both be
  authorized and both execute; it is the idempotency key that keeps the effect
  single. A step whose tool reported FAILURE passes the duplicate check on
  retry ("a genuine retry is safe to attempt", `execution/service.py:101`) and
  is then refused by the supervisor, whose row for the key is never released. A
  task that crashes in STABILIZING is not moved by the restart, hence the
  exception in `RestartSettlesTask`. Two calls of `begin_recovery` that both
  count the attempts before either saves its own retry once more than
  `max_attempts` (`RecoveryWithinBudget` fails with two `Callers`).
* `UnitOfWork`: with `Overlap = TRUE` the unit of a thread that leaves first
  has returned and nothing of it is committed; the other thread commits it or
  rolls it back (`AllOrNothing` fails).
* `AuditChain`: a rollback runs after the shared counter has reached zero, so a
  thread that entered in between can chain its next row to one that is gone;
  `ChainVerifies` says that this is the only way to a false alarm.
* `ProviderRouting`: one failure on a fresh window makes a provider
  UNAVAILABLE, and nothing but a call could record a success; the tracker's own
  test fills its window by hand.
* `Intake`: an exception of the model during planning leaves the task in
  PLANNING until the next restart (`OnlyOutageStrands` names the only way); a
  live `reconcile` cancels tasks that are being planned.
* `AppPlane`: errors of copy, move, the browser engine and tool handlers after
  a part of the effect are reported as FAILURE, the exceptions in
  `FailureIsKnown`; the filesystem reconciler calls a file that was there
  before SUCCESS; `browser.local` is registered before `browser.engine` and
  serves every browser operation that does not name its backend; Windows
  `activate` starts the program twice.
* `Memory`: the extractor's model calls run inside the unit of work that
  completes the task, so every other thread's save waits in that transaction
  and is lost with it by a crash; a save that raises while its unit is the last
  one open rolls back what other threads had written and left to it, a
  completion they announced included (`undone`, exempted in three properties);
  a proposal stores again the memory it read before its delete (`DeletedIsGone`
  fails); EXPIRED memories are still retrieved and may absorb a duplicate;
  nobody calls `run_maintenance`.

### Bounds

Two workers, callers or runners and two keys are enough for every pairwise
race; `PlanExecution_safety` adds a thread that cancels, recovers or reconciles
beside the two runners; a third writer in `AuditChain_log` lets a commit and a
rollback of two others fall inside one read-insert pair. Two crashes allow a
crash during the sweep that follows a crash. Two steps give a first, a last and
a skipped step; two attempts a retry and an exhausted budget; three runs a
first run, a confirmed run and a run after recovery. `MaxTrail`, `MaxEvents`,
`MaxWrites`, `MaxNest` only bound lengths; four audit rows have an interior, a
tip and a gap. Three providers give a first choice, a failover and a last one,
and with a window of three a provider can be HEALTHY, DEGRADED and UNAVAILABLE;
four calls let one caller finish between two calls of the other, and
`ProviderRouting_recovery` sets no bound on calls (`MaxCalls = 0`). Two
messages let a crash or sweep hit one in planning and the other anywhere. One
contract at a time is enough for the app plane, whose races are with the world:
`MaxMeddles` is one change at every possible moment, `MaxRedirects` two. In
`Memory` the task and the turn propose one memory each, so that the second
proposal meets what the first stored, in its own transaction or in the other's
(the theorems say the same of any number); four ids leave room for both beside
the two that are there before; `MaxDisturbances` allows one of the independent
disturbances at every moment of every interleaving of both threads.
`CHECK_DEADLOCK FALSE` is set where the bounds use up the work (runs, crashes,
receipts, events) and the system may rest; `Orchestrator` always has a next
step. Symmetry is used only in runs without liveness.

### Fairness

`Supervisor!FairSpec` assumes weak fairness of the start-up sweep, of its end,
and of a worker that has reserved a key: this is straight-line code that
nothing blocks on. Nobody has to call `execute()`, and a crash is never forced
or forbidden: the bound on crashes is what makes `StuckReceiptsSettle` say "if
the process stays up long enough". A live sweep is not assumed to run.
`Intake!FairSpec` assumes weak fairness of a handler's steps (model calls have
timeouts) and of the start-up sweep, which `build_runtime` calls before
anything is served. `AppPlane!FairSpec` assumes it of the supervisor's and
adapters' steps (every external call has a timeout) and of the reconciliation
after a crash. `Memory!FairSpec` assumes it of a handler that has begun and of
the end of every unit that was entered: model calls have timeouts, handlers no
loops of their own, and `with` always runs `__exit__`.

`ProviderRouting!FairSpec` makes a counterexample mean something. It assumes
that requests keep coming, that each exchange ends (by its timeout at the
latest), and, strongly, that a provider that is asked again and again answers
again and again: even then an outage does not end.

## 4. Proofs

Every invariant and every action property that a passing run checks is also a
theorem; what is left to TLC alone is listed at the end of this section. So is
every module's type invariant (`UnitOfWork`'s and `Orchestrator`'s under the
hypothesis of their other theorems).

All theorems hold for every value of the constants under the named
assumptions of the modules (sentinels outside their sets, bounds in `Nat`, a
finite set of threads for `Memory`). Where a theorem needs more, such as one
caller or no live sweep, it is a hypothesis of the theorem, said below.

* **`SupervisorProofs`**: `TypeCorrect`, `AdapterCalledOnce`,
  `ReceiptsComeFirst`, with or without live sweeps. `AtMostOneInvocation` is
  not inductive: it needs that a worker past its reservation is the only one
  with its key (`OwnerInv`), that a key without a row was never called
  (`KeyInv`), that a frame's key, receipt and attempt row fit its program point
  (`WorkerInv`), and that the sweep holds a receipt that exists (`SweepInv`).
  With sweeps at start-up only, also `Refinement`
  (Supervisor implements OneShot) and `VerdictsAreFinal`. On top of the above
  a receipt is in one pair of hands: no worker is active during boot
  (`PhaseInv`), a receipt in a worker's hands is still open (`HandInv`), no two
  keys share a receipt (`BindingInv`). Each action maps to one abstract step or
  to a stutter. With live sweeps both are false, as `Supervisor_live_race` shows.
  Under the same assumption `SweptFailuresAreSafe` and `CompletionIsTrue`: their
  invariant (`TInv`) adds what a worker and the sweep know of the calls when
  they settle a receipt (`KnowledgeInv`), and that only finalized receipts have
  incidents or a finalized attempt (`RowsInv`).
* **`OrchestratorProofs`**: with one caller (`Serial`), `SerialTrail`,
  `SerialTerminal` and `SerialTypes`. The caller's copy of the row is still the
  row when it is written back (`CopyInv`): exactly what a second caller breaks.
* **`PlanExecutionProofs`**: `EffectsHappenOnce`, `CompletionIsVerified` and
  `SkippedWasVerified`, for any plan, runners, retries, crashes and live
  reconciliation. A run between reservation and call owns a key whose effect is
  still zero (`ClaimInv`); every COMPLETED step of every copy of the plan,
  durable or stale, was verified (`CopyInv`), so the last pending step of a
  stale copy is still the last unverified one; results are verdicts
  (`ResultInv`). An `advance` is about to save COMPLETED only when all steps
  are verified (`GoalInv`). `RestartSettles` and `TypeCorrect` hold as
  generally, and so does `OnlySuccessConsumes`, although nothing keeps two runs
  from executing at once: who is authorized for a step has seen every earlier
  one verified, a key is in one run's hands until its outcome is recorded, and
  a verified step has the record SUCCESS (`UseInv`), so the authorization on
  file can only be used up by the success it was given for. With a single
  runner `CompletedStaysSerial`: a run's copy of the plan is then the row
  itself, and its step not COMPLETED in it (`FreshInv`).
* **`PersistenceProofs`**, units of work: units that do not overlap are all or
  nothing (`SerialUnitsAreAtomic`): the one open unit owns all of the open
  transaction (`SoleInv`, `OpenInv`) and committed writes belong to returned
  units (`DbInv`). `SerialCounterBalanced`: the counter is zero when no unit is
  open. Audit log: `LogTypesHold` and `HistoryIsAppendOnly` for any threads
  (the connection's table extends the committed one), and
  `UntouchedLogVerifies`: both tables are chains, and what a writer has read is
  still a row of the table (`ChainInv`), so the insert the unique index lets
  through is the one after the last row. `ChainsVerify` shows that
  `verify_audit_chain` accepts every chain. `TamperingShows`: any change,
  removal or exchange before the tip is reported, for logs of any length. An
  altered row no longer has its hash or is not the one its successor names; a
  missing row leaves a gap; an exchanged row does not continue the row before
  it, because no two rows of a chain have the same hash (`HashesDiffer`): the
  least row that had the hash of a later one would come after another such row.
  The least row exists as the order of the naturals is well founded, so no
  induction is needed.
* **`AppPlaneProofs`**: `FailuresAreKnown`, `ReconciledFailuresAreSafe`,
  `HopsAreChecked`, `TypeCorrect`, for any number of outside changes and of
  redirects. A verdict is about a call long before it, so the invariant carries
  along which adapter may hold which contract (`SelectInv`: one of its own
  family, or one it was offered for its capability and does not let past its
  gate), what has not happened yet at each phase (`QuietInv`), how far a
  request has come (`HopInv`), and what is known of the paths and of the
  evidence once an adapter has acted (`EvidenceInv`, `VerdictInv`).
* **`MemoryProofs`**: `TaskMemoriesAreEarned`, `SuccessorsFollow`,
  `ListenersAreCalled`, `ProfilesStayApart` (an action property),
  `TypeCorrect`, for any tasks, turns, profiles, memories, failed saves,
  deletes and crashes. The durable database becomes the working one when the
  last open unit ends, so each property is also kept for the working database
  and for the rows threads hold in their hands (`EarnedInv`, `FollowedInv`,
  `ProfileInv`; the first two until a rollback has undone the writes of others,
  `undone`). That a unit is the last one when the counter says so is `UnitInv`:
  the counter is the number of tasks in their announcement and of saves in
  their unit. `BusInv`: who is owed an event was called or is still queued. A
  step is first reduced to what it may do to rows, holders and threads
  (`Course`); three lemmas show that any such step keeps the properties, and
  one lemma per action that it takes such a course. A crash, a rollback and the
  change of a connection are shown directly.
* **`ProviderRoutingProofs`**: `ExhaustionIsHonest`, `OrderIsKept`,
  `OutagesLast`, `TypeCorrect`, for any providers, requirements, callers and
  window. The invariant splits what a call was offered into what it has tried,
  within its budget, and what is left (`SplitInv`), and keeps the ranks of the
  call; `OutagesLast` is an action property and the general form of what
  `ProviderRouting_recovery` shows: a window only changes for a provider some
  call has ranked, so an outage that no call is waiting out is for ever.
* **`IntakeProofs`**: `PlanAndReadyTogether`, `AnsweredOrTask`,
  `StrandedOnlyByOutage`, `MemoryNeedsConsent`, `ErrorsHideNoWork`,
  `TypeCorrect`, for any requests, crashes and sweeps. One cell of facts per
  request: nothing of a task exists before planning (`NoTaskYet`), a handler in
  planning holds a task in the state its place says or one that a sweep has
  cancelled (`InPlanning`), and the rows agree with each other (`Rows`). A step
  of one handler leaves the cells of the others alone (`CellUnchanged`); the
  sweep is the one action that touches all.

Only model-checked: the liveness properties `StuckReceiptsSettle`,
`RestartUnstrands`, `EveryContractEnds` and `AnnouncedBecomesDurable`, which
need fairness and so are outside the prover's reach. The runs about
properties with a hypothesis (one caller, no overlapping units, no live
sweep) set their constants as the hypothesis asks.

## 5. Not modelled, and what could follow

Not modelled: the operating-system calls inside tools and adapters, the string
predicates of the security policies (host names, paths, injection patterns),
the pattern rules of the parser, row-by-row storage (profiles, sessions, chat,
the credential vault), metrics and traces, command line and GUI. Configuration
is a merge of dictionaries at start-up; the updater's download and migration
are stubs; the audio loop is synchronous and enters through `handle_text`;
`StartupRecoveryService`, `ProviderChannel`, `DecisionChannel`,
`macos_adapter.py` and `browser_adapter.py` are constructed by nobody. Of the
extensions only the restricted event bus is part of a model.

What could follow:

1. `RecoveryPlanning`: the classifier, planner and compensator tables, refining
   the choices of `PlanExecution`'s recovery actions.
2. `ExtensionHost`: the plug-in process protocol with its timeouts.
