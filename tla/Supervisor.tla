------------------------------ MODULE Supervisor ------------------------------
(***************************************************************************)
(* supervisor.py: processes that step one run through its stages.          *)
(*                                                                         *)
(* A step loads the run, opens a crew iteration if none is open, executes  *)
(* the next stage outside any lock, and commits one outcome on top of the  *)
(* generation it holds.  RunStore implements a compare-and-swap register,  *)
(* so a commit is one atomic step that succeeds iff nothing was committed  *)
(* since the load: fresh[p] stands for the revision and hash p holds.      *)
(* Nothing keeps two processes from executing the same stage at once.      *)
(*                                                                         *)
(* Outside supervisor.py: RepairActivate is runner.py; PositionStage,      *)
(* Resume and Abandon have no code in src, which only validates their      *)
(* commits (the tests perform them through the store).                     *)
(***************************************************************************)
EXTENDS StageRouter

CONSTANTS
    Supervisors,        \* processes
    Manifests,          \* review manifests
    Positioned,         \* is there a caller that moves current_stage on?
    ExecutorFails,      \* may the stage executor fail?
    ContractChanges,    \* sets of stages whose contract one repair changes
    MaxRepairs,         \* bound: repair activations
    MaxResumes,         \* bound: resumes of a human review
    MaxCrashes,         \* bound: crashes of supervisors
    MaxRecords          \* bound: calls of record_failure

ASSUME SupervisorAssumption ==
    /\ NoValue \notin Manifests \cup Stages
    /\ Positioned \in BOOLEAN
    /\ ExecutorFails \in BOOLEAN
    /\ ContractChanges \subseteq SUBSET Stages
    /\ MaxRepairs \in Nat /\ MaxResumes \in Nat /\ MaxCrashes \in Nat /\ MaxRecords \in Nat

VARIABLES
    run,            \* the state in the store
    contract,       \* stage |-> contract version of the running runner
    executing,      \* process |-> the stage it executes, NoValue when idle
    fresh,          \* process |-> is what it holds still the current generation?
    crashes,        \* crashes so far
    records         \* calls of record_failure so far

vars == <<run, contract, executing, fresh, crashes, records>>

Init ==
    /\ run = InitialRun
    /\ contract = [s \in Stages |-> 0]
    /\ executing = [p \in Supervisors |-> NoValue]
    /\ fresh = [p \in Supervisors |-> FALSE]
    /\ crashes = 0
    /\ records = 0

(* An accepted compare-and-swap: whatever others hold is now stale. *)
Commit(new) ==
    /\ ValidTransition(run, new)
    /\ run' = new
    /\ fresh' = [p \in Supervisors |-> FALSE]

Idle(p) == executing' = [executing EXCEPT ![p] = NoValue]

-----------------------------------------------------------------------------
(* step *)

(* Mutant: executes without opening an iteration. *)
StepUncounted(p) ==
    LET stage == NextStage(run, contract)
    IN  /\ executing[p] = NoValue
        /\ run.disposition = "ACTIVE"
        /\ stage # NoValue
        /\ run.open \/ CanStartIteration(run)
        /\ executing' = [executing EXCEPT ![p] = stage]
        /\ fresh' = [fresh EXCEPT ![p] = TRUE]
        /\ UNCHANGED <<run, contract, crashes, records>>

(* Join the open iteration, or open one with a commit of its own, and      *)
(* start on the next stage.                                                *)
Step(p) ==
    LET stage == NextStage(run, contract)
    IN  /\ executing[p] = NoValue
        /\ run.disposition = "ACTIVE"
        /\ stage # NoValue
        /\ executing' = [executing EXCEPT ![p] = stage]
        /\ \/ /\ run.open
              /\ fresh' = [fresh EXCEPT ![p] = TRUE]
              /\ UNCHANGED run
           \/ /\ CanStartIteration(run)
              /\ ValidTransition(run, BeginIteration(run))
              /\ run' = BeginIteration(run)
              /\ fresh' = [q \in Supervisors |-> q = p]
        /\ UNCHANGED <<contract, crashes, records>>

(* No iteration may be opened, or nothing is pending and nothing approved. *)
(* (A run that is ready to finalize, or gated, is only reported.)          *)
StepRefused(p) ==
    LET stage == NextStage(run, contract)
    IN  /\ executing[p] = NoValue
        /\ run.disposition = "ACTIVE"
        /\ IF stage = NoValue THEN run.open \/ ~run.eligible
                              ELSE ~run.open /\ ~CanStartIteration(run)
        /\ Commit(Routed(run, IF stage = NoValue THEN SupervisorFailure ELSE BudgetExhausted))
        /\ UNCHANGED <<contract, executing, crashes, records>>

-----------------------------------------------------------------------------
(* execute_and_checkpoint *)

Holds(p) == executing[p] # NoValue /\ fresh[p]

(* The stage passed on is not the current one, or the iteration is closed. *)
OnTrack(p) == executing[p] = run.current /\ run.open

Misrouted(p) ==
    /\ Holds(p)
    /\ ~OnTrack(p)
    /\ Commit(Routed(run, SupervisorFailure))
    /\ Idle(p)
    /\ UNCHANGED <<contract, crashes, records>>

(* A success; a candidate the store refuses (a second output of the stage) *)
(* is routed as an orchestration failure instead.                          *)
WithCheckpoint(s) ==
    [run EXCEPT !.checkpoints = [t \in DOMAIN @ \cup {s} |->
                                    IF t = s THEN contract[s] ELSE @[t]],
                !.current = s]

CommitSuccess(s, new) ==
    Commit(IF s \notin DOMAIN run.checkpoints /\ ValidTransition(run, new)
           THEN new ELSE Routed(run, OrchestrationFailure(s)))

Checkpoint(p) ==
    LET s == executing[p]
    IN  /\ Holds(p)
        /\ OnTrack(p)
        /\ s # "reviewer"
        /\ CommitSuccess(s, WithCheckpoint(s))
        /\ Idle(p)
        /\ UNCHANGED <<contract, crashes, records>>

Approved(m) ==
    [WithCheckpoint("reviewer") EXCEPT !.result = m, !.open = FALSE, !.eligible = TRUE]

(* Mutant: an approval of any manifest counts. *)
ApproveAnyManifest(p, m) ==
    /\ Holds(p)
    /\ OnTrack(p)
    /\ executing[p] = "reviewer"
    /\ CommitSuccess("reviewer", Approved(m))
    /\ Idle(p)
    /\ UNCHANGED <<contract, crashes, records>>

(* _checkpoint_reviewer, approved: the checkpoint, the end of the          *)
(* iteration and the eligibility are one commit, and the review must be of *)
(* the persisted manifest.                                                 *)
Approve(p, m) ==
    /\ Holds(p)
    /\ OnTrack(p)
    /\ executing[p] = "reviewer"
    /\ IF m = run.manifest THEN CommitSuccess("reviewer", Approved(m))
                           ELSE Commit(Routed(run, SupervisorFailure))
    /\ Idle(p)
    /\ UNCHANGED <<contract, crashes, records>>

(* What the executor of stage s may report: an exception, invalid output   *)
(* (not from verification, which no model authors), a lost transport, and  *)
(* the findings of analysis, verification, browser test and review.        *)
ExecutorFailures(s) ==
    {OrchestrationFailure(s), Failure("orchestration", "transport", "invalid_unit_output", s, FALSE)}
    \cup (IF s = "verification" THEN {} ELSE {InvalidOutput(s)})
    \cup (CASE s = "analyst" ->
                 {Failure("ambiguity", "artifact", "requirements_mismatch", s, TRUE)}
            [] s = "verification" ->
                 {Failure("product", "verification", "implementation_mismatch", "programmer", TRUE)}
            [] s = "tester" ->
                 {Failure("product", "browser", "scenario_mismatch", "programmer", TRUE)}
            [] s = "reviewer" ->
                 {Failure("product", "review", "requirements_mismatch", "analyst", TRUE),
                  Failure("product", "review", "implementation_mismatch", "programmer", TRUE),
                  Failure("product", "review", "artifact_mismatch", "architect_tasks", FALSE)}
                 \cup {Failure("product", "review", "artifact_mismatch", a, TRUE) :
                          a \in ArchitectStages}
            [] OTHER -> {})

Fail(p, f) ==
    /\ ExecutorFails
    /\ Holds(p)
    /\ OnTrack(p)
    /\ f \in ExecutorFailures(executing[p])
    /\ Commit(Routed(run, f))
    /\ Idle(p)
    /\ UNCHANGED <<contract, crashes, records>>

(* CompareAndSwapConflict, of the outcome and of its fallback. *)
Conflict(p) ==
    /\ executing[p] # NoValue
    /\ ~fresh[p]
    /\ Idle(p)
    /\ UNCHANGED <<run, contract, fresh, crashes, records>>

(* A process dies while it executes; an open iteration stays open. *)
Crash(p) ==
    /\ executing[p] # NoValue
    /\ crashes < MaxCrashes
    /\ crashes' = crashes + 1
    /\ fresh' = [fresh EXCEPT ![p] = FALSE]
    /\ Idle(p)
    /\ UNCHANGED <<run, contract, records>>

-----------------------------------------------------------------------------
(* record_failure: a product defect or invalid output, owned by whichever  *)
(* stage the caller names, in any state of the run.                        *)
RecordedFailures ==
    {Failure("product", "review", "implementation_mismatch", owner, TRUE) : owner \in Stages}
    \cup {InvalidOutput(owner) : owner \in Stages}

RecordFailure(f) ==
    /\ records < MaxRecords
    /\ f \in RecordedFailures
    /\ Commit(Routed(run, f))
    /\ records' = records + 1
    /\ UNCHANGED <<contract, executing, crashes>>

(* reconcile_activation: the runner is replaced by one with other          *)
(* contracts; the old one is terminated before the run becomes ACTIVE.     *)
RepairActivate(changed) ==
    LET new == [s \in Stages |-> IF s \in changed THEN contract[s] + 1 ELSE contract[s]]
    IN  /\ run.disposition = "REPAIR_REQUIRED"
        /\ run.runner < MaxRepairs
        /\ Commit([run EXCEPT !.disposition = "ACTIVE",
                              !.runner = @ + 1,
                              !.checkpoints = Retained(@, contract, new)])
        /\ contract' = new
        /\ executing' = [p \in Supervisors |-> NoValue]
        /\ UNCHANGED <<crashes, records>>

(* Outside src: current_stage is moved to the next stage; for the reviewer *)
(* a manifest is bound.                                                    *)
PositionStage ==
    LET stage == NextStage(run, contract)
    IN  /\ Positioned
        /\ run.disposition = "ACTIVE"
        /\ stage \notin {NoValue, run.current}
        /\ \E m \in IF stage = "reviewer" THEN Manifests ELSE {run.manifest} :
               Commit([run EXCEPT !.current = stage, !.manifest = m])
        /\ UNCHANGED <<contract, executing, crashes, records>>

(* Outside src: a signed authorization leads out of human review. *)
Resume ==
    /\ run.disposition = "HUMAN_REVIEW"
    /\ Grants(run) < MaxResumes
    /\ Commit([run EXCEPT !.disposition = "ACTIVE",
                          !.authorizations = Append(@, "resume")])
    /\ UNCHANGED <<contract, executing, crashes, records>>

Abandon ==
    /\ run.disposition = "HUMAN_REVIEW"
    /\ Commit([run EXCEPT !.disposition = "ABANDONED",
                          !.authorizations = Append(@, "abandon")])
    /\ UNCHANGED <<contract, executing, crashes, records>>

-----------------------------------------------------------------------------
Finish(p) == \/ Misrouted(p)
             \/ Checkpoint(p)
             \/ \E m \in Manifests : Approve(p, m)
             \/ \E f \in UNION {ExecutorFailures(s) : s \in Stages} : Fail(p, f)
             \/ Conflict(p)

SupervisorStep(p) == Step(p) \/ StepRefused(p) \/ Finish(p) \/ Crash(p)

Next == \/ \E p \in Supervisors : SupervisorStep(p)
        \/ \E f \in RecordedFailures : RecordFailure(f)
        \/ \E changed \in ContractChanges : RepairActivate(changed)
        \/ PositionStage
        \/ Resume
        \/ Abandon

Spec == Init /\ [][Next]_vars

(* Every executor returns (its tools and model calls have timeouts), and   *)
(* the command line keeps stepping a run that is ACTIVE.  Nothing is       *)
(* assumed of failures, repairs, humans, or whoever moves current_stage.   *)
Fairness == \A p \in Supervisors : /\ WF_vars(Step(p))
                                   /\ WF_vars(StepRefused(p))
                                   /\ WF_vars(Finish(p))

FairSpec == Spec /\ Fairness

-----------------------------------------------------------------------------
(* Properties *)

(* Types, the validated run, and the discipline of execution: a process    *)
(* whose view is current executes inside the open iteration of an ACTIVE   *)
(* run.                                                                    *)
TypeOK ==
    /\ run.disposition \in Dispositions
    /\ run.current \in Stages
    /\ DOMAIN run.checkpoints \subseteq Stages
    /\ \A s \in DOMAIN run.checkpoints : run.checkpoints[s] \in Nat
    /\ run.manifest \in Manifests \cup {NoValue}
    /\ run.result \in Manifests \cup {NoValue}
    /\ contract \in [Stages -> Nat]
    /\ executing \in [Supervisors -> Stages \cup {NoValue}]
    /\ fresh \in [Supervisors -> BOOLEAN]
    /\ ValidState(run)
    /\ \A p \in Supervisors : Holds(p) => run.disposition = "ACTIVE" /\ run.open

(* Routing, repairs, stale supervisors and out-of-order callers never      *)
(* leave a checkpoint standing without the checkpoints it was built on.    *)
CheckpointsClosed ==
    \A s \in DOMAIN run.checkpoints : DEPENDENCIES[s] \subseteq DOMAIN run.checkpoints

(* No checkpoint survives a change of the contract it was issued under, so *)
(* no stage is ever executed on top of its own old output (the store would *)
(* refuse the second output and the run would go to repair again).         *)
CheckpointsCurrent ==
    \A s \in DOMAIN run.checkpoints : run.checkpoints[s] = contract[s]

(* Checkpoints are whole and current in a well-formed run (router.py,      *)
(* invalidate_from and reusable; runner.py, _activate).                    *)
CheckpointsHold == TypeOK /\ CheckpointsClosed /\ CheckpointsCurrent

(* What the finalizer may rely on: an eligible run went through every      *)
(* stage under the contracts in force, the reviewer approved the manifest  *)
(* that is bound now, and no iteration is open.                            *)
ApprovalBinding ==
    run.eligible =>
        /\ \A s \in Stages : Reusable(run, contract, s)
        /\ run.result = run.manifest
        /\ run.manifest # NoValue
        /\ ~run.open

(* No failure is lost: in every reachable state that is not terminal, the  *)
(* store accepts the routing of each failure an executor or a caller can   *)
(* report, so _route_failure never raises InvalidStateTransition.          *)
RoutesAccepted ==
    run.disposition # "ABANDONED" =>
        \A f \in RecordedFailures \cup ExecutorFailures(run.current)
                 \cup {SupervisorFailure, BudgetExhausted} :
            ValidTransition(run, Routed(run, f))

(* Stage s cannot run yet: an earlier one is next. *)
Unreached(s) ==
    \E i, j \in DOMAIN StageOrder :
        i < j /\ StageOrder[i] = NextStage(run, contract) /\ StageOrder[j] = s

(* A failure that is retried resumes exactly at its owner: the stage made  *)
(* current is the one next_stage selects from the checkpoints left over;   *)
(* otherwise the next step would misroute itself into human review.  Only  *)
(* a caller of record_failure can retry a stage the run has not reached    *)
(* (nothing there compares the owner with the run), and that takes no      *)
(* checkpoint away.                                                        *)
RetryResumesAtOwner ==
    [][run.disposition = "ACTIVE" /\ run'.disposition = "ACTIVE"
          /\ run'.failure # NoValue /\ run'.failure # run.failure =>
              IF Unreached(run'.failure.owner)
              THEN records' = records + 1 /\ run'.checkpoints = run.checkpoints
              ELSE run'.current = NextStage(run', contract')]_vars

(* An ACTIVE run never loops: whatever fails and whatever is recorded, it  *)
(* is approved or gated, because each retry costs an iteration.            *)
RunConverges ==
    run.disposition = "ACTIVE" ~> (run.eligible \/ run.disposition # "ACTIVE")

(* The normal graph of the design: with an executor that succeeds at every *)
(* stage a run does not end up in human review.                            *)
NormalGraph == run.disposition # "HUMAN_REVIEW"
=============================================================================
