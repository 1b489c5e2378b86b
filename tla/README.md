# TLA+ models of auto-code

auto-code drives one ticket of one Git repository through an automated
development run: it selects a ticket, takes the repository, prepares a branch,
executes ten cognitive stages under an iteration budget, and finalizes the
approved result. Everything it promises rests on files below one directory,
the Authoritative State Root, that several short-lived processes read and write
at the same time, any of which may die between two writes.

These modules model the parts of the code (`src/auto_code/*.py`) that make those
promises. They are written from the code; where a document or a test says
something else, a run shows the difference (see "Disagreements").

Contents: [Inventory](#inventory) · [Modules](#modules) ·
[Runs](#runs-what-is-checked) · [Proofs](#proofs) ·
[Disagreements](#disagreements) · [Not modelled](#not-modelled) · [Plan](#plan)

## Inventory

### How the parts interact

    command line ── prepare.py ──► run_index.py ──► state.py   (one store per run)
        │               │              ▲               ▲
        │               ▼              │ release       │ compare-and-swap
        │          linear.py ◄── mcp_bridge.py         │
        │                              │               │
        ├────────► supervisor.py ──────┼───────────────┤
        │             │   └ router.py (pure)           │
        │             ▼                │               │
        │          crew, tools, verification, browser  │
        │                              │               │
        ├────────► repair.py ── runner.py ─────────────┤
        └────────► finalizer.py ───────┴───────────────┘

There is no server and no shared memory. Processes interact through the run's
store (an optimistic compare-and-swap on revision and hash), the index entry and
journals of a repository (under a per-repository `flock`), and signed request
and receipt files; a launcher serves one request of its own child over a socket,
and talks to a sandbox daemon that is not part of this repository. A conflict is never retried silently: the
process that lost raises and its caller starts over.

### Components

| component (sources) | state it keeps | operations | what is hard | what makes it correct | module |
|---|---|---|---|---|---|
| Run store (`state.py`) | immutable generation files, `current.json`, a per-run flock | load, compare-and-swap, orphan recovery, lock-free load | two writes per commit and a crash between them; readers without a lock | one validated chain of generations; a commit is atomic and based on what its caller saw; an orphan decides its revision | `RunStore`, `CasRegister` |
| Stage graph, router (`router.py`, parts of `contracts.py`, `checkpoint.py`) | none (pure) | next stage, invalidation, routing of a failure | invalidation must be exact for every owner | closed checkpoints, budgeted retries | `StageRouter` |
| Supervisor (`supervisor.py`) | the run's stage, checkpoints, iteration, eligibility | step, record a failure, execute and checkpoint | a stage executes for minutes outside any lock; nothing prevents two supervisors | outcomes never land on a newer state; an eligible run is approved as a whole; convergence | `Supervisor` |
| Active run index (`run_index.py`) | the entry of a repository, activation journals, bindings, tombstones | probe or reserve, claim, activate, replay, release, verify | five files written in order; expiry races a slow claimant; replay after a crash | one run per repository; what is published is complete; the entry outlives the run | `ActiveRunIndex` |
| Preparation (`prepare.py`) | preparation phase, branch binding and intention, compensation | start the ticket, consume a receipt, create the branch, restore, ask a person | Linear and Git effects around crashes; late and lost receipts; a resume after a compensation | a branch only for a started ticket and never unknown to the run; compensation is earned | `Preparation`; activation in `ActiveRunIndex` |
| Linear gateway, MCP bridge (`linear.py`, `mcp_bridge.py`) | pending request, effect ledger, receipts | persist a request, replay it, call, consume a receipt | lost, late and duplicate receipts | one receipt per request, applied once | as used by preparation and finalizer, in `Preparation`, `Finalizer` |
| Finalizer (`finalizer.py`) | effect ledger, attempts, projections, release binding | commit, push, complete the ticket, DONE, release, mark | each effect may have happened when its process dies | effects at most once; DONE only with evidence; marked means released | `Finalizer`, `Delivery`; release handshake in `ActiveRunIndex` |
| Repair (`repair.py`, `repair_entrypoint.py`, `runner.py`) | workspace handles, requests, repair journal, effect receipts, registry and pointer, nonces | prepare, apply: test, snapshot, build, end, start, attest, publish, activate | a death between any two of a dozen writes; the same request under another descriptor; two requests | no effect twice; only a tested, attested runner is commanded; pointer and run never more than one activation apart | `Repair`, `RunnerSwap`; the checkpoints an activation keeps in `StageRouter`, `Supervisor` |
| Finalization service and launcher (`finalization_service.py`, `launcher.py`, `launcher_finalization.py`) | nonce records, capability, child, socket | prepare a child, issue, transfer, serve one request, reply, reap | lost replies, late handlers, expiry, a death between "consumed" and "completed" | a handler runs once; who asks again hears the recorded answer; exit 0 is true; children are reaped | `FinalizationService` |
| Process runner (`process.py`) | pinned descriptors, one command, a managed process | run, record evidence, start, poll, stop and reap | each clean-up step may fail and decides what others may do | nothing stays open or running; no signal to a reused group | `CommandRun`, `ProductChecks` |
| Verification, browser tester (`verification.py`, `browser.py`) | checks, verdict, run result | run the commands; start the application, drive a browser, report | a clean-up that fails after a passed report | a pass is earned | `ProductChecks` |
| OpenSpec adapter (`openspec.py`) | staged versions, receipts, revisions, visible pointer, publication flock | ensure a change, stage, validate, publish | staging reads without the lock; partial files of dead processes | what is visible is one whole revision that fits together and undoes nothing | `Publication` |
| Git guard (`git.py`) | the approved commit and remote of one process | branch, commit, push, reconcile | a call may fail after it worked | nothing is pushed but the approved commit; a branch is reconciled with its binding | by its effects, in `Preparation`, `Finalizer` |
| Catalog preflight, model transport, crew and tools, configuration | mostly none | checks, external calls, text | — | — | see "Not modelled" |

`PROJECT.json` lists every component with its status and, under "hazards", the
places of the code where these difficulties bite, each with the properties that
would notice.

## Modules

### RunStore and CasRegister

`CasRegister` is the promise: a register with a complete history, which clients
read and append to only if it has not moved since they read it.
`RunStore` is what `state.py` does to keep it.

| code | model |
|---|---|
| files `generations/<revision>-<hash>.json` | `generations`, a set of (revision, content) |
| `current.json` | `pointer` (`NoPointer` when missing) |
| per-run flock | `lock` |
| what a process loaded or committed | `view[w]` |
| `load`, `load_locked` | `Load`, `LoadRefused` (one step: all of it is under the flock) |
| `compare_and_swap` | `CompareAndSwap` (all checks), `WriteGeneration`, `ReplacePointer`; `CompareAndSwapRefused` |
| `_persist_initial_state` of the activation | `PersistInitialState`, replayable |
| `load_read_only` | `ReadPointer`, then `ListRecords`, without the flock |
| death of a process | `Crash`, before or between the writes |

A content stands for its canonical hash (`hash_json` is taken to be injective).
What a state may turn into is the constant relation `Steps`; the proofs hold for
every such relation, and `StageRouter` models the part about stages.

Because a commit is atomic for everybody else (`ImplementsRegister`, proved),
the other modules commit in one step and replace "revision and hash" by a flag:
is what this process holds still current?

### StageRouter and Supervisor

`StageRouter` translates `router.py` and the parts of `contracts.py`, `state.py`
and `runner.py` it depends on, as operators on a run record. `Supervisor` adds
the processes.

| code | model |
|---|---|
| `DEPENDENCIES`, `_descendants` | `DEPENDENCIES`, `Descendants` (the least closed set) |
| `stage_checkpoints`, `stage_outputs` | `checkpoints`: stage to the contract version it was issued under |
| `next_stage`, `invalidate_from`, `route_failure`, `apply_route` | `NextStage`, `InvalidateFrom`, `RouteFailure`, `ApplyRoute` |
| `_validate_transition` | `ValidTransition` (dispositions, iterations, authorizations) |
| `Supervisor.step` | `Step` (joins or opens an iteration), `StepRefused` |
| `execute_and_checkpoint` | `Misrouted`, `Checkpoint`, `Approve`, `Fail`, `Conflict` |
| `record_failure` | `RecordFailure` |
| `TrustedLauncher.reconcile_activation` (its commit) | `RepairActivate` |
| moving `current_stage`, binding a manifest, resume, abandon | `PositionStage`, `Resume`, `Abandon`: no code in `src/` does these, it only validates them, and the tests do them through the store |

`executing[p]` is the stage a process is executing, outside any lock;
`fresh[p]` says that nobody has committed since it loaded. Evidence, identifiers
and signatures are abstracted to what routing distinguishes: the class, source,
kind and owner of a failure and whether it cites anything. Of the append-only
`failure_history` only the last entry is kept. `record_failure` compares nothing
with the run, and `RecordFailure` takes a product defect or an invalid output of
any stage, at any time.

### ActiveRunIndex

The entry that gives one physical repository to one run at a time, with its two
users: the coordinator that activates a run and the finalizer that releases it.

| code | model |
|---|---|
| index file | `entry`: none, reservation, no-candidate marker, active run |
| activation journal | `journal[r]`: phase and outcome |
| run store, `preparation-context.json`, `active-run-binding.json` | `run[r]` |
| release receipts (tombstones) | `tombstones`: run and number of its DONE generation |
| repository flock, and the write its holder performs next | `task` |
| `probe_or_reserve` | `Reserve`, `ClearStaleReservation`, `CompleteNoCandidateJournal`, `RemoveMarker` |
| `claim_selected_activation`, `record_claim_compatibility` | `Claim`, `ClaimExpired`, `RecordCompatibility`, `CompatibilityFails`, `VerifiedTooLate` |
| `complete_selected_activation[_human_review]`, `activate_reservation` (no candidate) | `PrepareSelected`, `PrepareHumanReview`, `PrepareNoCandidate` |
| `_complete_prepared_activation_locked` | `WriteContext`, `PersistInitialState`, `WriteRunBinding`, `PublishEntry`, `CompleteJournal`, `ActivationRefused` |
| `activation_result` | `Replay` |
| `Finalizer.advance` from the release binding on, `_release_active_run`, `_reconcile_released_index` | `LoadRun`, `BindRelease`, `CommitDone`, `WriteTombstone`, `RemoveEntry`, `ReleaseElsewhere`, `ReleaseFails`, `VerifyRelease`, `MarkReleased`, `Escalate` |

A reservation fixes the identity of the run it may activate, so one number
stands for reservation, journal, challenge and run. An entry is determined by its
kind and that number, which therefore stand for its revision and hash. What a
run does in between is reduced to its disposition (`Work`, `Authorize`), and
`fin[f].fresh` again stands for the generation a finalizer holds. Receipts are
signed over a generation hash, modelled as the pair of a run and the number of
its DONE generations. The lock order of the code (repository, run identity, run
store) has no cycle, so the run locks are not separate variables; the one window
where `release` holds the run's flock as well is kept (`Commit` is excluded while
the entry is being removed). A finalizer only exists for the run in the index:
`LoadRun` has the gate of the launcher (`_require_active_run`).

### Delivery and Finalizer

`Delivery` is the promise: commit, push and completion of the ticket, in this
order, each once, and DONE after all three. `Finalizer` is how `finalizer.py`, the
launcher, the gateway, the bridge and the Git guard keep it when processes die
and answers get lost.

| code | model |
|---|---|
| `effect_ledger` | `run.ledger`: one entry per effect, the effect it looks at again (`of`) and its outcome (`none` until reconciled); the code saves an intention alone and later its invocation, observation and reconciliation together, so an effect has no other intermediate state |
| `commit_sha`, `pushed_sha`, `linear_done_receipt` | `run.recorded` |
| `pending_external_request` | `run.pending`, an entry of the ledger |
| `finalization_next_eligible_at`, `finalization_retry_wait_seconds` | `backoff` (is it in the future?), `run.waited` |
| the branch, the remote, the ticket | `world`, changed by effects and by others (`Drift`); `applied` counts what we changed |
| a command of the launcher | `proc[f]`: where it is, whether its generation is current, the entry it works on |
| `_handle_finalize`, `_handle_receipt` | `Finalize`, `Receipt` (with the check that the request is saved) |
| `advance` | `NotReady`, `RequestProjection`, `VerifyPosition`, then one of `ObserveOpen`, `IntendReconcile`, `Intend`, `RequestCompletion`, `GiveUp`, `Confirm`, and `Finish`, `Escalate` |
| `_invoke_commit`, `_invoke_push`, `_observe_local_effect`, `_record_local_result` | `Invoke`, `Observe`, `Record` |
| bridge call | `QueryProjection`, `CompleteTicket` |
| `accept_trusted_receipt`, `consume_receipt` | `AcceptProjection`, `BackOff`, `AcceptCompletion` |

A process whose generation has become stale only matters if it is about to call
Git or the bridge, where it still has its effect (`Stale`): everything else it
does is reading, and its next save is refused. Calls may have their effect and
fail, or not have it and fail; the bridge may report a completion as unknown.
The projection and the completion are compared with the state and the revision in
the preparation context, which is captured before the run starts its ticket:
`OriginalState` is that state. The listed runs set it to the state of the ticket at
finalization, as tests/test_finalizer.py:261 does, which takes somebody who puts
the ticket back to what it was; with the state the code captures, nothing of a
finalization is ever reached (see "Disagreements", 10). That a completion changes
the ticket once rests on the Linear MCP server, which compares the revision: `src/`
passes it the ticket and the new state only (`mcp_bridge.py:338`). The baseline
commit has a parent.

### Preparation

One prepare command loads a generation, decides, and ends with one
compare-and-swap; only Git lies between two saves of a command.

| code | model |
|---|---|
| `preparation_phase`, disposition, `preparation_compensated` | `run.phase`, `run.disposition`, `run.compensated` |
| ticket effects of the ledger, `pending_external_request` | `run.requests` (operation and outcome), `run.pending` (an index into them) |
| `create_ticket_branch` in the ledger, the branch binding | `run.effect`, `run.binding` (the base it was bound to) |
| the ticket, the base and the branch | `ticket`, `git`; `moves` is the history of what the bridge did |
| `advance` | `RequestStart`, `RequestRestore`, `RecordIntention`, `InvokeBranch`, `StartReconcile`, `EnterHumanReview` |
| `prepare_ticket_branch`, `create_bound_ticket_branch`, `reconcile` | `PrepareTicketBranch`, `CreateBoundTicketBranch`, `ReconcileBranch` |
| `_record_branch_result` | `RecordBinding`, `RecordBranch`, `RecordFailure`, `RecordRefusal` |
| bridge command | `Execute`, `Answer` (the ticket may have moved although the answer is lost) |
| `consume_receipt` | `ConsumeReceipt`: `Confirm`, `Compensate`, `Reject` |
| a signed resume or abandon | `Authorize` (resuming a compensated run is `MayReset`) |

### RunnerSwap and Repair

`RunnerSwap` is the promise: the runner of a run is replaced in one step, which makes
the run ACTIVE, by a runner that was built from a tested source, and started and
attested after the one it replaces had ended; a runner is ended only when one is
built to take its place, and one that ended never replaces another. It is what
`Supervisor` takes for granted in its one action `RepairActivate`.

`Repair` is the protected repair launcher that keeps it. An action is one durable write or one effect of
the sandbox daemon; `proc[d]` walks through the phases of one apply command in
the order of the code, and its nonce lock makes it one command per descriptor.

| code | model |
|---|---|
| workspace handles, requests | `handle`, `request` (the generation and the runner they are bound to), `source` |
| the request's journal, receipts of effects | `journal`, `effect` (receipt, journal entry, how often it ran) |
| pending activation, activation files, registry pointer | `pending`, `activations`, `pointer` |
| descriptor nonce | `nonce` (status, expiry, recorded result); `lock` is the activation lock of the run |
| `prepare` | `IntendWorkspace`, `IssueHandle`, `CreateRequest` (for any handle that was issued, whether its command was answered or not) |
| the expiry of a handle, another workspace or plan in its place | `InvalidateHandle`; every apply command looks at these first (`Admitted`), also when a pending activation is there already |
| `apply` up to the build | `Start`, `ReadSource`, then the rounds of the loop (`Test`, `Recheck`, `Reread`), `TakeSnapshot`, `Execute`, `CloseEffect`, `RecordPending` |
| lifecycle and activation | `Lock`, `Execute` (terminate, start, attest), `Publish`, `RecordActivation`, `Commit` |
| the answer | `Report`, `Complete`; `Recoverable` is `_recover_applied_generation`, `Invokable` is `TrustedLauncher.invoke` |

The mapping (`Swap`): runner and disposition are those of the stored run; a runner is
built (`Built`) when the evidence the activation requires is there, and ended, started
or attested (`Ended`, `Replacing`) when the daemon keeps the receipt of that effect.

### FinalizationService

One launcher command with its child, and services restarted over the same nonce
records. A nonce is named by the launcher that issued it.

| code | model |
|---|---|
| nonce record: issued, consumed, completed with a response | `rec` |
| `serve_ticket_process` with its failure paths | `stage`, `child`, `known`, `verdict` |
| `dispatch` and its deadline | `phase`, `asked`, `made`, `late`, `answer` |
| the generation handlers are bound to | `gen`; `handled` counts calls of a handler |
| what the handler commits | a move of `run`, or none, followed by a return or an exception |

The finalizer itself is `Finalizer`; here only that a handler moves the run or
not, and returns or raises, in any combination. `FinalizationService` has no
daemon: `src/` contains its client and no `serve_forever`, so every exchange with
it may fail before or after it took effect.

### CommandRun and ProductChecks

`CommandRun` is one finite command of `process.py`: pinned directories are opened
one by one, the executable is verified, the sandbox runs it, evidence is stored,
the descriptors are closed, and any of these may fail. `ProductChecks` extends it
with the code that issues commands: `VerificationRunner.run_all`
(`BeginVerification`, `CallCheck`, `CheckAnswered`, `Verified`) and
`BrowserRunner.run` with `ManagedProcess` (`Request`, `StartApplication`,
`CallProbe`, `CallTool`, `TesterReports`, `CallClose`, `Terminate`, `Grace`, `Kill`,
`Last`, `Settle`, `BindPrimary`, `Bind`). The program is sequential; what interleaves
is the world: an application that begins to listen or exits, a deadline,
directories and executables that are replaced.

### Publication

| code | model |
|---|---|
| version trees, their manifests, validation receipts | `versions` with `trees`, `sealed`, `receipts` |
| `current.json` of a change, revision trees | `pointer`, `revisions` |
| `.publish.lock` | `lock` |
| `ensure_change` and the owner file | `NewChange`, `Bind` |
| `stage_artifact`, `validate_artifact` | `ReadInput`, `ReadParent`, `Stage`, `WriteFile`, `Seal`, `Validate` (no lock) |
| `publish_artifact` | `CheckCheckpoint`, `Lock`, `Decide`, `WriteFile`, `CheckRevision`, `Point`, `Unlock` |

A version is its record (content, the versions it was made from, the version it
replaces), which is what its hash covers; `trees[v]` says which of its files are
absent, partial or written. Looking a file up and creating it exclusively are
one step: who loses that race is refused exactly as if the file had been there
before. The response of `publish_artifact` names a path after the lock is
released and may name another publisher's revision; no property is about it.
`OpenSpecClient` has no caller in `src/`, so publishers are processes that call
it in the order its own preconditions allow.

## Runs: what is checked

All runs check for the properties named in `PROJECT.json`; each property of a
passing run has at least one mutant, an operator in the module that changes a
definition as a plausible bug would, under which TLC must find the property
violated. A property with several named conjuncts (`EntryHolds` is
`ActivationOwnsEntry` and `PublishedIsDurable` with the types) has a mutant for
each conjunct that says something about the code.

| run | specification and bounds | what it shows |
|---|---|---|
| `run_store` | 2 writers, 1 reader, 3 contents, 3 revisions, 2 crashes, with fairness | legal history, orphans decide, lock-free loads are current, refinement of `CasRegister`, the initial state is eventually stored |
| `supervisor` | 2 symmetric supervisors, 2 manifests, budget 2, one repair (of two distant contracts, the first in the middle of the planning), one resume, one crash, two recorded failures | `CheckpointsHold` (closed, current), `ApprovalBinding`, `RoutesAccepted`, `RetryResumesAtOwner` |
| `convergence` | the same with fairness, 1 manifest, no resume, one recorded failure, and a repair of one contract | an ACTIVE run is approved or gated |
| `active_run_index` | 2 reservations, 2 symmetric finalizers, 1 resume, 1 crash at any write | `EntryHolds`, `ReleasesHold` (one unreleased run, marked means released), `EntryOutlivesRun` |
| `activation` | fairness, 2 reservations, 1 finalizer, 1 crash | a claim ends as a published run although its claimant dies; a DONE run gives the repository back |
| `one_live_run` | the same without a crash | violated, see "Disagreements" |
| `finalizer` | fairness, a ticket as the preparation context has it, 2 processes, 2 attempts per effect, 1 wait, 1 resume, and 2 disturbances: crashes, overlapping commands, changes by others, in any mixture | `LedgerHolds`: effects are intended before they happen, recorded only if they did, and bounded; `ObservedBeforeRetry`; Retry-After; refinement of `Delivery`; finalization ends |
| `preparation` | fairness, 2 commands, 3 disturbances (deaths, overlaps, lost calls, failing Git, drift), 2 resumes | `BranchIsIntended`, `HandedOver`, `CompensationIsEarned`, and each preparation ends with its branch or before a person: the first time it does; what may follow a resume is in "Disagreements", 6 |
| `repair` | fairness, 2 requests, 2 descriptors usable for either, 2 contents, 1 disturbance (death, failure, edit, expiry of a descriptor), and 1 commit by others or 1 handle that becomes invalid | `ReleaseHolds` (no effect twice, commands on a tested release), `PointerTracksRun`, `CompletedIsRecoverable`, refinement of `RunnerSwap`, and an ended runner is replaced, unless its request can no longer be answered |
| `service` | fairness, 1 launcher, 1 restarted service, 2 keys, 2 revisions, 1 death, losses and delays anywhere | `AnswersHold` (handled once, answers agree, success is real), `NoChildLeft`, `LauncherEnds`, `ConsumedIsSettled` |
| `product_checks` | fairness, 2 pinned roots, 2 commands, 2 tool calls, 3 faults anywhere | `ResourcesAreOwned`, `PassesAreEarned`, and every run ends |
| `publication` | fairness, 2 publishers, 2 dependent artifacts, 2 contents, 3 publications, 1 death or failed write | `VisibleRevisionHolds` (whole and closed), `NeverBack`, and whoever asks is answered |

Why the bounds suffice for the cases of interest:

- Two writers, supervisors, prepare commands or publishers are enough for every
  race the code can lose, because a conflict is pairwise: one process holds a
  stale generation, another moved it.
- Two iterations and one extra grant reach the budget's boundary from both sides;
  two recorded failures and a repair interrupt a pass, its retry and its approval.
- Two reservations are one run and its successor, the only pair the index
  relates; a second finalizer and a resume produce a second DONE generation of
  the same run, hence a superseded tombstone.
- One crash can hit any write; a second crash repeats it on the replay, and the
  activation run has passed with two as well (it then takes two minutes).
- Two disturbances of a finalization are, for instance, a crash after a push and a
  second command that overlaps the recovery, or two processes and a moved branch.
  Without a bound on overlapping commands the state space is infinite: two
  finalizers in lockstep append reconcile intentions, which nothing counts.
  Two attempts make a retry; one wait meets the limit from both sides.
- Three disturbances of a preparation are a start whose answer is lost, a restore
  that fails, and one more; two resumes let a compensated run fail again.
- Two requests compete for one run in REPAIR_REQUIRED and two descriptors replay
  each of them after the death of the other; one disturbance at every write is
  what a replay has to absorb. A commit by others and an invalid handle need not
  meet: after a commit no command passes that is bound to the generation before
  it, whatever its handle. With two of either the run is too long for a routine
  check.
- Three publications make a prerequisite, a dependent, and either a replacement of
  one or a rival; the dependent artifact reads two versions of the first.
- Two roots tell the first from the last (a failure half-way leaves one open);
  two tool calls tell the first goto, which decides readiness, from a later one.

Deadlock is checked for `RunStore` (a caller can always load). It is off for the
others: a run that is over, a repository that stays taken, a finished command, and
the bounds stop the system legitimately.

### Fairness, and why the code justifies it

- `RunStore`: the launcher replays an activation until it completes, and the
  holder of the flock keeps going or dies (bounded crashes). Weak fairness.
- `Supervisor`: executors return, since model calls and tools have timeouts, and
  the command line keeps stepping a run that is ACTIVE. Weak fairness of `Step`,
  `StepRefused` and `Finish`. Nothing is assumed of failures, repairs or humans.
- `ActiveRunIndex`: time passes; a coordinator is called again until its claim is
  decided; a finalizer is called again for a DONE run that is not marked. Taking
  the repository lock is a blocking `flock` that other processes take and release
  again and again, so operations that take it get strong fairness. Nothing is
  assumed of claimants, probes, humans or the work on a run.
- `Finalizer`: time passes; as long as a run is ACTIVE or waits for a receipt the
  orchestrator issues another command; a process that runs goes on until it ends
  (its calls have deadlines). Weak fairness; commands are fair only when no
  process is running, since overlaps are bounded. Nothing is assumed of crashes,
  humans, or what others do to Git and the ticket.
- `Preparation`: the bridge executes and answers what is pending, and a command is
  issued and goes on as long as it can do something. Weak fairness of `Execute`,
  `Answer` and `Step`; lost calls, deaths, drift and people are not fair.
- `Repair`: a command goes on or dies, one that ended is issued again while its
  descriptor is active, and the activation lock, a blocking `flock`, is passed on:
  weak fairness of `Continue`, strong fairness of `Start` and `Lock`.
- `FinalizationService`: launchers and servers go on; each of their blocking calls
  has a deadline in the code. Nothing is assumed of the child.
- `ProductChecks`: weak fairness of the program as a whole, which is sequential.
  Nothing is assumed of the application, and `RunEnds` says where this is not
  enough: the last `wait` has no timeout, so a refused kill may leave it waiting.
- `Publication`: weak fairness of each publisher. Taking the flock needs no more,
  because the bound on requests leaves nobody to take it over and over.

## Proofs

Eight modules hold proofs, for every value of the constants that the named
assumptions of the modules allow; each checks in one to a few minutes. Every
invariant and every action property a passing run checks is a theorem, and so are
the three refinements (`CasRegister`, `Delivery`, `RunnerSwap`). The pattern is the
same throughout. The property is not inductive, because it relates pieces of state
that are written one after the other; `IInv` adds what each process knows at each
of its steps, and which writes of the others can make that untrue. TLC checked
each such invariant on the component's run before it was proved. Where many actions
disturb the same part, a frame lemma says once what such a step keeps, and each
action only shows what it changes.

### The run store

`RunStoreProofs` proves with TLAPS, for any sets of writers and readers, any
contents and transition relation, any number of revisions and crashes:

| theorem | result |
|---|---|
| `TypeCorrect` | `Spec => []TypeOK`, with the flock discipline |
| `HistoryIsLegal` | `Spec => []LegalHistory` |
| `OrphansDecide` | `Spec => OrphanDecides` |
| `ReadOnlyLoadsAreCurrent` | `Spec => ReadOnlyLoadIsCurrent` |
| `Implementation` | `Spec => ImplementsRegister`, the refinement of `CasRegister` |

The assumptions are those of the module: the initial state is a content, `Steps`
relates contents, and the values for "none" are not contents, pointers or
writers.

The argument. `LegalHistory` is not inductive: that a new file extends the chain
depends on who may write it, and what was checked before the flock was used. The
strengthening `IInv` adds to `TypeOK` that revisions on disk are exactly those up
to the pointer plus at most one beyond it; that the pointer names one of the
files; that each revision has one file; that the holder of the flock has a
current view and that its candidate passed the transition and recovery checks
against the files now on disk (nobody else can have changed them); that at the
second write the candidate's file is there; and that a reader's remembered
pointer is not beyond the current one. Each action then disturbs one or two
conjuncts, which the proof of the step treats one by one. The orphan of a crash is
the one file beyond the pointer: the recovery check lets only an equal candidate
pass, which gives `OrphanDecides`. A lock-free load returns only if the
listing ends exactly at the pointer it read, and the listing never shrinks, which
gives `ReadOnlyLoadIsCurrent`. The refinement maps the log to the contents up to
the pointer: only `ReplacePointer` changes it, and there it appends the candidate
to the log the writer saw.

### The Supervisor

`SupervisorProofs` proves, for any processes, manifests and sets of contracts that
a repair changes, any budget and any number of repairs, resumes, crashes and
recorded failures:

| theorem | result |
|---|---|
| `CheckpointsStand` | `Spec => []CheckpointsHold` |
| `ApprovalIsBound` | `Spec => []ApprovalBinding` |
| `NoFailureIsLost` | `Spec => []RoutesAccepted` |
| `RetriesResume` | `Spec => RetryResumesAtOwner` |

A commit replaces the whole run, so the proof is about which runs are `Sound` under
which contracts, and each operator of `StageRouter` maps a sound run to a sound
one. `Stands`: a checkpoint is of the contract in force and has its prerequisites.
`Earned`: an eligible run is approved as a whole and is not in REPAIR_REQUIRED (a
repair would drop checkpoints and leave the eligibility; it cannot happen because
only a failure of an executor is repaired, and nothing executes once all is
approved). `InOrder`: a current stage that is finished has all earlier ones behind
it (otherwise a retry of its output would resume too late). `ProcHolds` ties the
processes to the run: whoever holds the current generation executes
`NextStage` of it inside its open iteration, so its output is new and everything
before it is there.

The graph enters by three facts: `BeforeIsOrder` (the stages are in a total order),
`DependenciesAreEarlier`, and `DescendantsAreLater`, that the least set closed
under dependents contains nothing earlier than its owner. From these,
`InvalidationStands` and `RetainedStands` show that what a retry or a repair keeps is
closed and a prefix, `NextIs` identifies the next stage, and `OwnerBefore`
shows that whatever an executor reports is retried at its own stage or earlier.
`RoutedValid` needs nothing about the failure: the store takes any routing.
`RetriesResume` covers every call of `record_failure`: a stage the run has reached
resumes (`ReachedAfterAll`), and one still to be reached (`Unreached`) has no
checkpoint, so what its retry drops is empty (`NothingLost`). Such a retry leaves
`current_stage` ahead of the work, and the next step routes the run to human review
(`Misrouted`); that an executor never reports such a stage is proved (`FailInv`).
The assumptions are `BudgetAssumption` (at least one iteration) and
`SupervisorAssumption` (None is no stage and no manifest).

### The stages that run the product

The last section of `SupervisorProofs` is about `ProductChecks`, for any number of
pinned directories, verification commands, browser operations and disturbances:

| theorem | result |
|---|---|
| `StagesCleanUp` | `ChecksSpec => []ResourcesAreOwned` |
| `PassesStandUp` | `ChecksSpec => []PassesAreEarned` |

The two modules share nothing and are only proved in one file. Neither invariant is
inductive: what is open follows from how far a command is, and what a passed report
is worth from how far the clean-up was when it was made. `ChecksInv` adds both.
`CommandsDescriptors` says which descriptors a finite command may hold at each of
its steps, and that the executable is opened after the last root;
`AppsDescriptorsHeld` the same for the application, whose descriptors outlive
the command that opened them until it answers or is stopped. `Places` ties phase,
command, clean-up and verdict. `RecordedIsRun` is what makes a verdict worth
something: as long as no recorded check failed, the kinds recorded are those of what
the sandbox ran, and while a command is between its execution and its answer the
sandbox is one ahead. `TakenDown` follows the process through `stop_and_reap`: who
has not waited has not reaped, past the kill it is gone unless the kill was
refused, and a clean-up without an error has waited. The assumptions,
`CommandAssumption` and `ChecksAssumption`, say that the bounds are numbers.

### The index of active runs

`ActiveRunIndexProofs` proves, for any finalizers and any number of reservations,
resumes and crashes:

| theorem | result |
|---|---|
| `EntryIsSound` | `Spec => []EntryHolds` |
| `ReleasesAreExact` | `Spec => []ReleasesHold` |
| `IndexKeepsItsRun` | `Spec => EntryOutlivesRun` |

Entry, journal, run, binding, tombstone and mark are separate files, so `IInv` is a
conjunction over the identifiers: `JournalHolds` says which entry goes with which
phase of the journal, `RunHolds` that a stored run is in the index or was released
from it, by a tombstone of one of its DONE generations. `TaskHolds` says what the
holder of the index lock has already written at each of its steps, `FinalizerHolds`
what a finalizer knows while its generation is current, and `Alone` that one
finalizer at a time is between its tombstone and the unlink. `JournalInv`,
`EntryInv`, `ActivationInv`, `CommitInv` and `FinalizerInv` are the frames, one for
each kind of write. `IndexAssumption` bounds the counters and says that the free
lock is no task.

### The Finalizer

`FinalizerProofs` proves, for any launchers and any number of invocations, waits,
disturbances and resumes:

| theorem | result |
|---|---|
| `LedgerIsTrue` | `Spec => []LedgerHolds` |
| `RetriesAreObserved` | `Spec => []ObservedBeforeRetry` |
| `BackoffBinds` | `Spec => BackoffHonoured` |
| `FinalizerDelivers` | `Spec => ImplementsDelivery`, the refinement of `Delivery` |

`EntryHolds` says what an entry of the ledger may refer to and that a success is
recorded with it; `PendingHolds` that the open request is the one the run waits
for, and none while a Retry-After time runs; `WorldHolds` how what was applied shows
outside (and that a change made by others is never taken for it); `ProcHolds` what
a process found out before it acts, which stays true while its generation is
current, and for a call already made even after that. `Truth` relates ledger and
world. The ledger only grows and a reconciled entry never changes (`Kept`): from
`AppendLedger` and `CloseEntry` the counting of attempts and `ObservedBeforeRetry`
follow, since an entry that allows a retry is closed by then. `SaveStep`,
`LocalStep` and `QuietStep` are the frames. The refinement (`StepDelivers`) uses
the invariant where an effect is invoked by a stale process: `applied` then holds
what the ledger says it may.

### Preparation

`PreparationProofs` proves, for any preparers, disturbances and resumes:

| theorem | result |
|---|---|
| `BranchIsKnown` | `Spec => []BranchIsIntended` |
| `TicketIsStarted` | `Spec => []HandedOver` |
| `RestoreIsMade` | `Spec => []CompensationIsEarned` |

`Ledger` fixes the place of every request in each phase, in the first episode and
in the one after a compensation; `Effect` the state of the branch effect. `Linear`
is the conjunct that makes receipts usable: the last request is answered only once
the bridge is done with all before it, so its success is the last move of the
ticket, and no outcome is recorded without its receipt. `Backed` is what a branch
stands on, and `CommandHolds` that whoever is about to create one has it. The
frames are `RunInv` (a save), `LocalInv` and `OutsideInv`.

### Repair

`RepairProofs` proves, for any finite set of requests, any descriptors and contents
and any number of disturbances:

| theorem | result |
|---|---|
| `EffectsRunOnce` | `Spec => []EffectsOnce` |
| `PointerFollowsRun` | `Spec => []PointerTracksRun` |
| `ReleaseIsTested` | `Spec => []ReleaseHolds` |
| `CompletedStaysRecoverable` | `Spec => []CompletedIsRecoverable` |
| `RepairSwaps` | `Spec => ImplementsSwap`, the refinement of `RunnerSwap` |

`CommandHolds` follows a command through the activation: what it has to have
tested, started, attested and published at each place, the lock it holds from the
first lifecycle effect to the commit, and what a completed nonce answers.
`EffectHolds` ties receipts to executions, `EvidenceHolds` the build to the tested
source, and `Committed` says what remains of a request whose generation is gone.
`Counted` bounds the revision by the number of requests that were committed, each
at most once, because the generation it is bound to does not come back; this is
where the requests must be finite. `Grows` (nothing stored is taken back) carries
the facts of one command over the steps of another. `RepairAssumption` also keeps
the markers of places apart from contents.

The refinement needs to know where the runner of a run comes from, which `IInv` does
not say. `SwapHolds` adds that a request whose runner the run has or had (`Was`) is
bound to a generation that is gone (`Spent`), and that between the decision under the
lock and the commit (`Held`) the run still has the runner that was ended, and the new
one is none it ever had. Only a commit of an activation extends `Was`, and it needs the
lock. With that, the three effects of `Execute` and the successful `Commit` are
`Terminate`, `Start`, `Attest` and `Activate`; the write that completes the evidence of a
build is `Build` (`QuietSwap`: one at most in a step); commits of others are `Move`; and
all other writes, deaths and replays leave the swap as it is (`OutsideSwap`, `JournalSwap`).

### The finalization service

`FinalizationServiceProofs` proves, for any launchers, restarted services, keys,
revisions and deaths:

| theorem | result |
|---|---|
| `AnswersAreTrue` | `Spec => []AnswersHold` |
| `NoChildIsLeft` | `Spec => []NoChildLeft` |

A nonce leaves "issued" once, under the lock of its record. `RecordHolds` and
`ServerHolds` say what that means between consuming, handling, storing and
replying: the server that consumed a nonce is the only one (`Exclusive`), the
handler has not run before it does, and a completed record is never written again,
so whoever replays it answers the same. `Honest` ties a response to the revision
the run reached, which only grows. `ChildHolds` and `Tidy` are the launcher's side:
a child it learnt of is reaped or the verdict says that the clean-up failed.
`MoveInv`, `ServeStep`, `StopInv` and `CleanupInv` are the frames.

### The visible artifacts

`PublicationProofs` proves, for any publishers, artifacts and dependency graph
without self-dependencies, any contents and any number of requests and faults:

| theorem | result |
|---|---|
| `PublicationsNeverGoBack` | `Spec => NeverBack` |
| `VisibleStaysClosed` | `Spec => []VisibleIsClosed` |
| `VisibleIsSound` | `Spec => []VisibleRevisionHolds` |

Neither of the first two holds of a state alone: what is made visible was decided
a few writes earlier. The invariant `IInv` says that a version is only named when
every dependency of its artifact was found (`VersionsAreBased`, from `Based`); that
whoever is past `Stage` works on a version of its artifact (`Named`); that whoever
is between the decision and `Unlock` holds the lock (`Holds`); and that what
`Decide` found, the successor of the current pointer and that the version may be
published, is still so (`Decided`), since only `Point` moves the pointer and needs
the lock. `LocalStep` shows once that a step which leaves names and pointer alone
and takes the lock from nobody keeps all of this for the others; most actions are
instances. `StageInv` adds a version without touching what is published; `PointInv`
is where the two checks on dependents and dependencies are used, one for each side
of an edge. The assumptions are `PublicationAssumption`: `Artifacts` and `Contents`
are not empty, `Requires` maps artifacts to sets of artifacts and none to itself
(`_ARTIFACT_DEPENDENCIES`), and "nobody" is not a publisher.

That the visible tree is whole needs a second invariant, `Whole`, on top of the
first: what a publisher has written before the next write (`Prepared`, with
`WritesHold` while the files of a revision are written), that a complete tree holds
what its revision names (`TreesHold`), that the visible one is complete
(`VisibleIsWhole`), and that names are never used up (`Counted`). `RevisionStep` and
`QuietStep` are its frames; `CompleteTree` is the point where the last file closes
the tree.

### Only model-checked

Every invariant and action property of the passing runs is a theorem above; what
TLC adds there is that the interesting cases occur. Liveness under fairness
(`InitialStateEventuallyStored`, `RunConverges`, `ClaimIsPublished`,
`DoneIsReleased`, `FinalizationSettles`, `PreparationSettles`, `EndedIsReplaced`,
`LauncherEnds`, `ConsumedIsSettled`, `RunEnds`, `RequestsSettle`) is out of the
prover's reach and stays with TLC. None of the modules declares a recursive
operator, so nothing else keeps a module from being proved about.

## Disagreements

Where a document or a test says something the code does not do, a property
states what is said and TLC finds it violated. The first is the run
`one_live_run`; the others are configurations beside the listed runs, which
reproduce with `tlc -config X.cfg M`.

| configuration, module | property | code | said at |
|---|---|---|---|
| `OneLiveRun.cfg`, `MCActiveRunIndex` | `OneLiveRun` | `finalizer.py:202` | CONTEXT.md:64; tests/test_finalizer.py:699 |
| `NormalGraph.cfg`, `MCSupervisor` | `NormalGraph` | `supervisor.py:179` | orchestration design:168 |
| `Replay.cfg`, `MCActiveRunIndex` | `ReplayAnswers` | `run_index.py:722` | orchestration design:142 |
| `Recovery.cfg`, `MCActiveRunIndex` | `ReleaseIsRecovered` | `launcher_finalization.py:309` | launcher boundary design:61; tests/test_finalizer.py:714 |
| `CompletedTicket.cfg`, `MCFinalizer` | `CompletedTicketAccepted` | `finalizer.py:159` | orchestration design:427 |
| `PreparedTicket.cfg`, `MCFinalizer` | `StartedTicketAccepted` | `finalizer.py:219` | orchestration design:420 |
| `ResumedPreparation.cfg`, `MCPreparation` | `ResumeRepeatsBranch` | `prepare.py:551` | orchestration design:165 |
| `PreparedChild.cfg`, `MCFinalizationService` | `PreparedChildReaped` | `process.py:528` | finalization remediation design:25 |
| `Readiness.cfg`, `MCProductChecks` | `ReadyWithinTimeout` | `browser.py:322` | integrations plan:597; localhost tester design:37 |
| `Interrupted.cfg`, `MCPublication` | `InterruptionIsSafe` | `openspec.py:1070` | artifact adapter design:55 |

1. `OneLiveRun`. "Only one Active Run per physical repository", and human review
   counts. Between the release and its verification the repository lock is free;
   a probe that reserves the repository there makes the verification fail, and
   the finalizer escalates a released DONE run to human review while the
   reservation activates another run. What does hold is `OneUnreleasedRun`: the
   older run has been released.
2. `NormalGraph`. The design describes the normal graph from Analyst to Reviewer.
   The supervisor commits a checkpoint with `current_stage` set to the stage just
   finished, and the next step refuses to execute the following stage because it
   is not `current_stage`. Nothing under `src/` moves it on, so a run without any
   failure ends in human review after its first stage. The runs set
   `Positioned = TRUE`: somebody moves the stage on, as the tests do.
3. `ReplayAnswers`. "Identical replay returns the recorded run." After a crash
   between publishing the entry and completing the journal, the run is visible
   and may move; from then on each replay is refused because the stored state is
   not the initial one.
4. `ReleaseIsRecovered`. After a crash between the removal of the index entry and
   the mark, "recovery loads and verifies the receipt" and marks the run. A test
   does so with a finalizer it builds itself; the launcher, the only code that
   composes one, first requires the run to be in the index, where it no longer
   is. The run stays unmarked. What does hold is `DoneIsReleased`: the repository
   is given back.
5. `CompletedTicketAccepted`. "Before retry, Finalizer queries ... current Linear
   state. A compatible completed Linear state is accepted." It queries Git, not
   Linear: after a completion whose outcome stays unknown, each retry compares
   the revision from before it, fails, and the run goes to human review with its
   commit pushed and its ticket completed.
6. `ResumeRepeatsBranch`. A resume of a compensated preparation "repeats
   start/branch reconciliation". The start has a request of its own, but the
   branch keeps the intention of the first attempt, which is reconciled already,
   so the next invocation is refused for ever and the ticket stays started.
7. `PreparedChildReaped`. Evidence that is missing or malformed should have the
   prepared child killed and reaped. When it is missing the launcher does not
   know whom to kill, and reports a failure with the child prepared. What holds
   is `NoChildLeft`, for children whose identifier arrived.
8. `ReadyWithinTimeout`. The tester should poll readiness until a deadline. The
   first `goto` decides: its failure is an exception, which stops the application
   before the poll begins.
9. `InterruptionIsSafe`. "Incomplete/unpointed version trees remain invisible and
   are safe to ignore after interruption." They are invisible, but a partial file
   has the name the same version will need, and the identical publication is
   refused as "immutable" for ever.
10. `StartedTicketAccepted`. "Normative ticket-content changes or remote-base
   advancement cause Human Review." The finalizer also refuses a ticket whose
   content nobody changed: it compares state and revision with the preparation
   context, which is captured (`prepare.py:240`) from a candidate that has to be
   unstarted (`linear.py:122`) before the start of the same run moves it. The test
   that finalizes sets the original state to `started` (tests/test_finalizer.py:261);
   the tests that prepare keep `state-original` and `state-started` apart
   (tests/test_prepare.py:853-927). Unless somebody puts the ticket back to what it
   was, each prepared run goes to human review before anything is committed.

Two more, without a configuration. "If repair and ticket ownership overlap on any
path, enter Human Review" (orchestration design:362): `runner.py:1254` compares
the paths only when repair and ticket share a repository, and raises; nothing in
`src/` turns that into human review. And a socket timeout of the sandbox client
reaches `process.py` as an `OSError` (`TimeoutError` is one), so it is recorded
as a spawn failure, while the child of the daemon may still be running.

## Not modelled

- Cryptography, hashing, serialisation, redaction and file permissions: a hash
  is its content, a signature holds or the process raises.
- Parsing and validation of documents, configuration and provider protocols, most
  of `contracts.py` among them: checks of one record without state.
- Catalog preflight and compatibility: checks of observed versions and models
  behind a cache, within one call; `ActiveRunIndex` has its two outcomes.
- Model transport: a sequential retry loop within one call, and encodings.
- What a stage does: crew and tools are an executor that returns a success or one
  of the failures the code can build. Verification and the browser are modelled
  by themselves (`ProductChecks`), not inside `Supervisor`.
- `WAITING_MCP` in the supervisor, and the DONE disposition there: they belong to
  `Preparation` and `Finalizer`.
- The review result of a run is the manifest it approves. The code stores the hash of the
  reviewer's output (`supervisor.py:229`) after it has compared the manifest that
  output names with the one of the run (`supervisor.py:194`).
- In `Finalizer`: the verification of the approval (`_verify_approval`; its
  artifacts are loaded by the hashes the same state records, so it gives the same
  answer throughout), index and work tree of Git, and people who undo a commit or
  bring a ticket back to what it was. In `FinalizationService`: what handlers do.
- In `ActiveRunIndex`: several repositories (the entries do not interact), the
  reuse of a process identifier by the operating system, and reservations of
  other hosts, which the code never clears; `activate_reservation` of a run its
  caller chose, which has no caller.
- In `Preparation`: `query_preparation`, one signed read before the activation.
- In `Repair`: what a workspace contains beyond which content it has, captured
  release files, and the directory `.effect.<nonce>` a kill during the copy of a
  snapshot leaves behind. An effect and the receipt of the daemon are one step:
  `EffectsOnce` rests on the daemon, which is not in `src/`, joining a second
  invocation with the same effect identifier to the first one (`runner.py:419-425`
  invokes again what it cannot observe, also when the first command timed out in
  `process.py:343-397` while the daemon still worked). A handle that is invalid
  stays so: an edited plan or workspace that is put back is left out.
- In `Repair` there is a state nothing recovers from, and `EndedIsReplaced` says so by
  its escape `ShutOut`: a command that dies after it ended the runner, whose
  handle then expires (one hour, `runner.py:1194`, `1213`) or whose plan or workspace
  is replaced (`1201`, `1215-1217`), leaves a request every later command refuses
  before it looks at the pending activation (`1219`).
- In `Publication`: a failure after the rename of the pointer and before the
  directory is synced. The publisher reports an error for what is visible; no
  property speaks of a loss of power.
- In `CommandRun`: sanitizing of output, the wire format of the sandbox socket, the
  ticket archive. `LauncherSocketSandbox.start` always raises; `ProductChecks`
  models the managed process for a sandbox that can start one.
- In `Publication`: task definitions and their status, instructions,
  `validate_complete_change` (reads under the same lock) and the JSON contracts.
  A published prerequisite with published dependents can never be replaced, which
  is the code's rule, not a bound.
- The command line: argument parsing and wiring; what it does over and over is a
  fairness assumption.

## Plan

Done: (1) `RunStore`, `CasRegister`, `RunStoreProofs`; (2) `StageRouter`,
`Supervisor`, `SupervisorProofs`; (3) `ActiveRunIndex`, `ActiveRunIndexProofs`;
(4) `Delivery`, `Finalizer`, `FinalizerProofs`; (5) `Preparation`,
`PreparationProofs`; (6) `RunnerSwap`, `Repair`, `RepairProofs`;
(7) `FinalizationService`, `FinalizationServiceProofs`; (8) `CommandRun`,
`ProductChecks` (proofs in `SupervisorProofs`); (9) `Publication`, `PublicationProofs`.

What could follow: a specification of the repository lease that `ActiveRunIndex`
implements, as `RunStore` implements its register; `Supervisor` on top of the modules
of its stages, with `ProductChecks` in place of the executor of two of them; a model
of the cache of the catalog preflight.
