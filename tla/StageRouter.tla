----------------------------- MODULE StageRouter -----------------------------
(***************************************************************************)
(* router.py and the parts of contracts.py and state.py it relies on: the  *)
(* stage graph, the state of a run as far as crew iterations, routing and  *)
(* dispositions go, the routing of a failure, and which successors of a    *)
(* state the store accepts.  Pure definitions; Supervisor adds the actors. *)
(*                                                                         *)
(* stage_outputs carries one output per checkpoint and must match the      *)
(* checkpoints exactly, so one partial function stands for both: it maps   *)
(* a stage to the contract version its checkpoint was issued under.  A     *)
(* resume authorization grants one iteration.                              *)
(***************************************************************************)
EXTENDS Naturals, Sequences, FiniteSets

CONSTANTS
    MaxCrewIterations,  \* RunState.max_crew_iterations
    NoValue             \* None

ASSUME BudgetAssumption == MaxCrewIterations \in Nat \ {0}

-----------------------------------------------------------------------------
(* The execution graph *)

StageOrder == <<"analyst", "architect_outline", "architect_proposal", "architect_specs",
                "architect_design", "architect_tasks", "programmer", "verification",
                "tester", "reviewer">>

Stages == {StageOrder[i] : i \in DOMAIN StageOrder}

ArchitectStages == {StageOrder[i] : i \in 2 .. 6}

DEPENDENCIES ==
    [s \in Stages |->
        CASE s = "analyst"            -> {}
          [] s = "architect_outline"  -> {"analyst"}
          [] s = "architect_proposal" -> {"architect_outline"}
          [] s = "architect_specs"    -> {"architect_proposal"}
          [] s = "architect_design"   -> {"architect_proposal"}
          [] s = "architect_tasks"    -> {"architect_specs", "architect_design"}
          [] s = "programmer"         -> {"architect_tasks"}
          [] s = "verification"       -> {"programmer"}
          [] s = "tester"             -> {"verification"}
          [] s = "reviewer"           -> {"tester"}]

(* A set of stages that contains every stage depending on a member. *)
Invalidated(S) == \A s \in Stages : DEPENDENCIES[s] \cap S # {} => s \in S

(* _descendants: the least such set around a stage. *)
DescendantsOf ==
    [owner \in Stages |->
        {s \in Stages : \A S \in SUBSET Stages : owner \in S /\ Invalidated(S) => s \in S}]

(* Mutant: only the direct dependents. *)
DirectDependents(owner) == {owner} \cup {s \in Stages : owner \in DEPENDENCIES[s]}

(* Mutant: the owner keeps its checkpoint. *)
ProperDescendants(owner) == DescendantsOf[owner] \ {owner}

Descendants(owner) == DescendantsOf[owner]

-----------------------------------------------------------------------------
(* The state of a run *)

Dispositions ==
    {"ACTIVE", "WAITING_MCP", "REPAIR_REQUIRED", "HUMAN_REVIEW", "DONE", "ABANDONED"}

(* FailureRecord; cited stands for "has cited_ids and evidence_refs". *)
Failure(class, source, kind, owner, cited) ==
    [class |-> class, source |-> source, kind |-> kind, owner |-> owner, cited |-> cited]

SupervisorFailure == Failure("orchestration", "supervisor", "invalid_routing", NoValue, FALSE)

OrchestrationFailure(stage) ==
    Failure("orchestration", "artifact", "invalid_unit_output", stage, FALSE)

InvalidOutput(stage) ==
    Failure("invalid_output", "artifact", "invalid_unit_output", stage, FALSE)

BudgetExhausted ==
    Failure("budget_exhausted", "supervisor", "requirements_mismatch", NoValue, FALSE)

(* The initial snapshot: everything but the identities has its default. *)
InitialRun ==
    [disposition    |-> "ACTIVE",
     count          |-> 0,             \* crew_iteration_count
     open           |-> FALSE,         \* iteration_open
     current        |-> "analyst",     \* current_stage
     checkpoints    |-> <<>>,          \* stage |-> contract version
     manifest       |-> NoValue,       \* review_manifest
     result         |-> NoValue,       \* review_result: the manifest it approves
     eligible       |-> FALSE,         \* finalization_eligible
     failure        |-> NoValue,       \* the last entry of failure_history
     authorizations |-> <<>>,          \* actions of human_authorizations
     runner         |-> 0]             \* runner_identity

(* authorized_iteration_limit *)
Grants(run) == Cardinality({i \in DOMAIN run.authorizations : run.authorizations[i] = "resume"})

AuthorizedLimit(run) == MaxCrewIterations + Grants(run)

(* RunState.validate_state *)
ValidState(run) ==
    /\ run.count <= AuthorizedLimit(run)
    /\ run.open => run.count > 0
    /\ run.eligible => /\ ~run.open
                       /\ run.manifest # NoValue
                       /\ run.result # NoValue

(* Mutant: the budget is left to the store. *)
CanStartUnbudgeted(run) == run.disposition = "ACTIVE" /\ ~run.open /\ ~run.eligible

CanStartIteration(run) ==
    /\ run.disposition = "ACTIVE"
    /\ ~run.open
    /\ ~run.eligible
    /\ run.count < AuthorizedLimit(run)

BeginIteration(run) == [run EXCEPT !.count = @ + 1, !.open = TRUE]

-----------------------------------------------------------------------------
(* Routing *)

(* next_stage for an ACTIVE run: the earliest stage without a checkpoint   *)
(* that is reusable under the supervisor's contracts; NoValue if none.     *)
Reusable(run, contract, s) == s \in DOMAIN run.checkpoints /\ run.checkpoints[s] = contract[s]

NextStage(run, contract) ==
    LET Pending == {i \in DOMAIN StageOrder : ~Reusable(run, contract, StageOrder[i])}
    IN  IF Pending = {} THEN NoValue
        ELSE StageOrder[CHOOSE i \in Pending : \A j \in Pending : i <= j]

Keep(checkpoints, S) == [s \in DOMAIN checkpoints \cap S |-> checkpoints[s]]

(* Mutant: finalization eligibility survives. *)
InvalidateCheckpoints(run, owner) ==
    [run EXCEPT !.checkpoints = Keep(@, Stages \ Descendants(owner)),
                !.current = owner, !.open = FALSE, !.manifest = NoValue, !.result = NoValue]

(* Every stage has the reviewer among its descendants, so the review and   *)
(* finalization fields are cleared for every owner.                        *)
InvalidateFrom(run, owner) ==
    [run EXCEPT !.checkpoints = Keep(@, Stages \ Descendants(owner)),
                !.current = owner, !.open = FALSE,
                !.manifest = NoValue, !.result = NoValue, !.eligible = FALSE]

(* The failures that _active_retry answers. *)
RetryableInvalidOutput(run, f) ==
    /\ f.class = "invalid_output"
    /\ run.open
    /\ f.source = "artifact"
    /\ f.kind = "invalid_unit_output"
    /\ f.owner = run.current

ProgrammerDefect(f) ==
    /\ f.class = "product"
    /\ f.owner = "programmer"
    /\ f.source \in {"verification", "browser", "review"}
    /\ f.kind \in {"implementation_mismatch", "scenario_mismatch"}

CitedArtifactDefect(f) ==
    /\ f.class = "product"
    /\ f.source = "review"
    /\ f.kind = "artifact_mismatch"
    /\ f.owner \in ArchitectStages
    /\ f.cited

Retried(run, f) ==
    RetryableInvalidOutput(run, f) \/ ProgrammerDefect(f) \/ CitedArtifactDefect(f)

Repaired(f) ==
    /\ f.class = "orchestration"
    /\ f.source \in {"transport", "artifact", "verification", "browser", "review"}

(* Failures handed to a human as they are; any other is replaced. *)
HandedOver(f) ==
    \/ f.class = "ambiguity"
    \/ f.class = "budget_exhausted" /\ f.source = "supervisor"
    \/ f.class = "product" /\ f.owner = "analyst"
    \/ f.class = "orchestration" /\ f.source \in {"preflight", "finalization", "supervisor"}

Decision(disposition, retry, failure) ==
    [disposition |-> disposition, retry |-> retry, failure |-> failure]

(* The gate: a run that is not ACTIVE keeps its disposition, except that a *)
(* failure while waiting for MCP goes to a human.                          *)
GatedDisposition(run) ==
    IF run.disposition = "WAITING_MCP" THEN "HUMAN_REVIEW" ELSE run.disposition

RouteFailure(run, f) ==
    CASE run.disposition # "ACTIVE" -> Decision(GatedDisposition(run), NoValue, f)
      [] run.disposition = "ACTIVE" /\ Retried(run, f) -> Decision("ACTIVE", f.owner, f)
      [] run.disposition = "ACTIVE" /\ Repaired(f) -> Decision("REPAIR_REQUIRED", NoValue, f)
      [] OTHER -> Decision("HUMAN_REVIEW", NoValue,
                           IF HandedOver(f) THEN f
                           ELSE [SupervisorFailure EXCEPT !.cited = f.cited])

(* apply_route: the iteration is closed whatever the decision is. *)
ApplyRoute(run, decision) ==
    LET routed == IF decision.retry = NoValue THEN run
                                              ELSE InvalidateFrom(run, decision.retry)
    IN  [routed EXCEPT !.disposition = decision.disposition,
                       !.open = FALSE,
                       !.failure = decision.failure]

Routed(run, f) == ApplyRoute(run, RouteFailure(run, f))

-----------------------------------------------------------------------------
(* What the store accepts after run (_validate_transition).  An ABANDONED  *)
(* run accepts only itself; DONE is entered by the finalizer.              *)

AllowedDispositions ==
    [ACTIVE          |-> {"ACTIVE", "WAITING_MCP", "REPAIR_REQUIRED", "HUMAN_REVIEW", "DONE"},
     WAITING_MCP     |-> {"WAITING_MCP", "ACTIVE", "REPAIR_REQUIRED", "HUMAN_REVIEW"},
     REPAIR_REQUIRED |-> {"REPAIR_REQUIRED", "ACTIVE", "HUMAN_REVIEW"},
     HUMAN_REVIEW    |-> {"HUMAN_REVIEW", "ACTIVE", "ABANDONED"}]

(* _validate_iteration_transition *)
ValidIteration(old, new) ==
    \/ /\ new.count = old.count
       /\ new.open => old.open
    \/ /\ new.count = old.count + 1
       /\ CanStartIteration(old)
       /\ new.open

(* _validate_appended_authorizations: one action, for one lifecycle change *)
ValidAuthorizations(old, new) ==
    CASE old.disposition = "HUMAN_REVIEW" /\ new.disposition = "ACTIVE" ->
            new.authorizations = Append(old.authorizations, "resume")
      [] old.disposition = "HUMAN_REVIEW" /\ new.disposition = "ABANDONED" ->
            new.authorizations = Append(old.authorizations, "abandon")
      [] OTHER -> new.authorizations = old.authorizations

ValidTransition(old, new) ==
    /\ ValidState(new)
    /\ old.disposition \notin {"DONE", "ABANDONED"}
    /\ new.disposition \in AllowedDispositions[old.disposition]
    /\ ValidIteration(old, new)
    /\ ValidAuthorizations(old, new)
    /\ old.disposition = "REPAIR_REQUIRED" /\ new.disposition = "ACTIVE" =>
            new.runner # old.runner

-----------------------------------------------------------------------------
(* Repair *)

(* Mutant: every checkpoint outlives the repair. *)
RetainAll(checkpoints, old, new) == checkpoints

(* _compatible_checkpoints: the checkpoints before the first stage whose   *)
(* contract the repaired runner changes.                                   *)
Retained(checkpoints, old, new) ==
    Keep(checkpoints, {StageOrder[i] : i \in {j \in DOMAIN StageOrder :
                          \A k \in 1 .. j : old[StageOrder[k]] = new[StageOrder[k]]}})
=============================================================================
