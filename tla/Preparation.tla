----------------------------- MODULE Preparation -----------------------------
(***************************************************************************)
(* prepare.py with what it calls in linear.py, mcp_bridge.py, git.py and   *)
(* the preparation rules of state.py: how a selected ticket is started in  *)
(* Linear, gets its branch, and is restored when the branch cannot be      *)
(* made.                                                                   *)
(*                                                                         *)
(* A prepare command loads one generation and ends with one                *)
(* compare-and-swap; only a Git call lies between two saves of a command,  *)
(* so the rest of a command is one step.  Ticket requests are saved as     *)
(* pending, executed by the launcher's bridge, which writes receipts, and  *)
(* consumed by a later command.  Activation of the run is in               *)
(* ActiveRunIndex, its stages in Supervisor.                               *)
(***************************************************************************)
EXTENDS Naturals, Sequences, FiniteSets

CONSTANTS
    Preparers,          \* processes that serve prepare commands
    MaxDisturbances,    \* bound: deaths, overlapping commands, lost calls, policy
                        \* failures and changes by others, together
    MaxResumes          \* bound: resumes of a human review

ASSUME PreparationAssumption ==
    /\ MaxDisturbances \in Nat
    /\ MaxResumes \in Nat

VARIABLES
    run,            \* the stored run state
    ticket,         \* the ticket's state in Linear
    moves,          \* history: the operations that moved the ticket
    bridge,         \* the request the bridge is executing, or 0
    receipts,       \* signed receipts, [request, outcome]
    git,            \* the remote base and the ticket's local branch
    proc,           \* preparer |-> what its command is doing
    disturbances, resumes

vars == <<run, ticket, moves, bridge, receipts, git, proc, disturbances, resumes>>

linear == <<ticket, moves, bridge, receipts>>

-----------------------------------------------------------------------------
(* The run and its effects *)

Operations == {"compare_and_start_ticket", "restore_ticket_state"}

(* The ticket state an operation asks for, and the one it leaves. *)
Expects == [compare_and_start_ticket |-> "unstarted", restore_ticket_state |-> "started"]
Leaves  == [compare_and_start_ticket |-> "started", restore_ticket_state |-> "unstarted"]

Idle == [pc |-> "idle", fresh |-> FALSE, base |-> 0, result |-> "none"]

Init ==
    /\ run = [disposition |-> "ACTIVE",
              phase       |-> "SELECTED",
              compensated |-> FALSE,
              requests    |-> <<>>,     \* the ledger of ticket effects
              pending     |-> 0,        \* the pending request, or 0
              effect      |-> "none",   \* create_ticket_branch in the ledger
              binding     |-> 0]        \* base_sha of the branch binding, or 0
    /\ ticket = "unstarted"
    /\ moves = <<>>
    /\ bridge = 0
    /\ receipts = {}
    /\ git = [base |-> 1, branch |-> "absent"]
    /\ proc = [p \in Preparers |-> Idle]
    /\ disturbances = 0 /\ resumes = 0

Settled(i, op) == run.requests[i] = [op |-> op, outcome |-> "SUCCESS"]

Succeeded(op) == {i \in DOMAIN run.requests : Settled(i, op)}

(* A restore follows the last start: the episode is compensated. *)
CurrentRestore ==
    /\ Succeeded("compare_and_start_ticket") # {}
    /\ \E r \in Succeeded("restore_ticket_state") :
          \A s \in Succeeded("compare_and_start_ticket") : s < r

-----------------------------------------------------------------------------
(* Processes and saves *)

At(p, pc) == proc[p].pc = pc

Disturb ==
    /\ disturbances < MaxDisturbances
    /\ disturbances' = disturbances + 1

(* A command starts, normally when no other is running. *)
Starts(p) ==
    /\ At(p, "idle")
    /\ IF \A q \in Preparers : At(q, "idle") THEN UNCHANGED disturbances ELSE Disturb

(* A generation was superseded: the command may still be inside Git, but   *)
(* its next save is refused.                                               *)
Overtaken(s) == IF s.pc \in {"prepare", "create", "reconcile"} THEN [s EXCEPT !.fresh = FALSE] ELSE Idle

(* A compare_and_swap that succeeds; p goes on at pc. *)
Save(p, new, pc) ==
    /\ run.disposition # "ABANDONED"
    /\ run' = new
    /\ proc' = [q \in Preparers |->
                   IF q # p THEN Overtaken(proc[q])
                   ELSE IF pc = "idle" THEN Idle ELSE [Idle EXCEPT !.pc = pc, !.fresh = TRUE]]

(* The Git call of p has returned. *)
Returned(p, result, base) ==
    proc' = [proc EXCEPT ![p] = IF @.fresh THEN [@ EXCEPT !.pc = "record", !.result = result, !.base = base]
                                ELSE Idle]

-----------------------------------------------------------------------------
(* Requests to Linear *)

WithPending(op, phase) ==
    [run EXCEPT !.disposition = "WAITING_MCP",
                !.phase       = phase,
                !.requests    = Append(@, [op |-> op, outcome |-> "none"]),
                !.pending     = Len(run.requests) + 1]

Requestable == run.disposition = "ACTIVE" /\ run.pending = 0

RequestStart(p) ==
    /\ Starts(p)
    /\ run.phase = "SELECTED"
    /\ Requestable
    /\ Save(p, WithPending("compare_and_start_ticket", "IN_PROGRESS_REQUESTED"), "idle")
    /\ UNCHANGED <<linear, git, resumes>>

(* Mutant: a compensation that is never requested. *)
NeverRequestsRestore(p) == FALSE /\ UNCHANGED vars

RequestRestore(p) ==
    /\ Starts(p)
    /\ run.phase = "COMPENSATION_REQUIRED"
    /\ ~run.compensated
    /\ Requestable
    /\ Save(p, WithPending("restore_ticket_state", "COMPENSATION_REQUIRED"), "idle")
    /\ UNCHANGED <<linear, git, resumes>>

(* The bridge executes only a request that is the stored pending one. *)
Execute ==
    /\ bridge = 0
    /\ run.pending # 0
    /\ bridge' = run.pending
    /\ UNCHANGED <<run, ticket, moves, receipts, git, proc, disturbances, resumes>>

(* The ticket is moved, if it is as the operation expects. *)
Move(op) ==
    /\ ticket = Expects[op]
    /\ ticket' = Leaves[op]
    /\ moves' = Append(moves, op)

(* A receipt says SUCCESS only if the ticket was moved; another outcome    *)
(* may hide a move, and a call that raises leaves no receipt.              *)
Answer ==
    /\ bridge # 0
    /\ bridge' = 0
    /\ LET op == run.requests[bridge].op
           receipt(outcome) == [request |-> bridge, outcome |-> outcome]
       IN \/ /\ Move(op)
             /\ receipts' = receipts \cup {receipt("SUCCESS")}
             /\ UNCHANGED disturbances
          \/ /\ UNCHANGED <<ticket, moves, disturbances>>
             /\ receipts' = receipts \cup {receipt("FAILURE")}
          \/ /\ Disturb
             /\ Move(op)
             /\ receipts' \in {receipts, receipts \cup {receipt("FAILURE")}}
          \/ /\ Disturb
             /\ UNCHANGED <<ticket, moves, receipts>>
    /\ UNCHANGED <<run, git, proc, resumes>>

(* Mutant: a consumed request stays pending.                               *)
KeepsPending(receipt) == [run EXCEPT !.requests[receipt.request].outcome = receipt.outcome]

Reconciled(receipt) == [run EXCEPT !.pending = 0, !.requests[receipt.request].outcome = receipt.outcome]

(* Mutant: the outcome of a receipt is not looked at. *)
AnsweredAnyhow(receipt, op) == run.requests[receipt.request].op = op

Answered(receipt, op) ==
    /\ run.requests[receipt.request].op = op
    /\ receipt.outcome = "SUCCESS"

(* The ticket is started.  A run under review is not made active by it:    *)
(* the store refuses.                                                      *)
Confirm(receipt) ==
    /\ Answered(receipt, "compare_and_start_ticket")
    /\ run.phase = "IN_PROGRESS_REQUESTED"
    /\ run.disposition # "HUMAN_REVIEW"
    /\ run' = [Reconciled(receipt) EXCEPT !.disposition = "ACTIVE", !.phase = "IN_PROGRESS_CONFIRMED"]

Compensate(receipt) ==
    /\ Answered(receipt, "restore_ticket_state")
    /\ run.phase = "COMPENSATION_REQUIRED"
    /\ run' = [Reconciled(receipt) EXCEPT !.disposition = "HUMAN_REVIEW", !.compensated = TRUE]

Reject(receipt) ==
    /\ \A op \in Operations : ~Answered(receipt, op)
    /\ run' = [Reconciled(receipt) EXCEPT !.disposition = "HUMAN_REVIEW"]

ConsumeReceipt(p) ==
    /\ Starts(p)
    /\ run.disposition # "ABANDONED"
    /\ \E receipt \in {r \in receipts : r.request = run.pending} :
          Confirm(receipt) \/ Compensate(receipt) \/ Reject(receipt)
    /\ proc' = [q \in Preparers |-> Overtaken(proc[q])]
    /\ UNCHANGED <<linear, git, resumes>>

-----------------------------------------------------------------------------
(* The branch *)

Confirmed == run.phase = "IN_PROGRESS_CONFIRMED"

RecordIntention(p) ==
    /\ Starts(p)
    /\ Confirmed
    /\ run.effect = "none"
    /\ Save(p, [run EXCEPT !.effect = "ready"], "idle")
    /\ UNCHANGED <<linear, git, resumes>>

(* An invocation is saved before the Git call it announces. *)
InvokeBranch(p) ==
    /\ Starts(p)
    /\ Confirmed
    /\ run.effect = "ready"
    /\ Save(p, [run EXCEPT !.effect = "awaiting"], IF run.binding = 0 THEN "prepare" ELSE "create")
    /\ UNCHANGED <<linear, git, resumes>>

(* An invocation without an observation: before the binding it cannot be   *)
(* decided, after it Git is asked.                                         *)
EnterHumanReview(p) ==
    /\ Starts(p)
    /\ Confirmed
    /\ run.effect = "awaiting" /\ run.binding = 0
    /\ Save(p, [run EXCEPT !.disposition = "HUMAN_REVIEW"], "idle")
    /\ UNCHANGED <<linear, git, resumes>>

StartReconcile(p) ==
    /\ Starts(p)
    /\ Confirmed
    /\ run.effect = "awaiting" /\ run.binding # 0
    /\ proc' = [proc EXCEPT ![p] = [Idle EXCEPT !.pc = "reconcile", !.fresh = TRUE]]
    /\ UNCHANGED <<run, linear, git, resumes>>

(* The remote is where the binding says. *)
InLineage == run.binding = git.base

(* Mutant: preparing the branch makes it, before the binding is saved.     *)
PreparesAndCreates(p) ==
    /\ At(p, "prepare")
    /\ git.branch = "absent"
    /\ git' = [git EXCEPT !.branch = "bound"]
    /\ Returned(p, "bound", git.base)
    /\ UNCHANGED <<run, linear, disturbances, resumes>>

(* Preflight, fetch or switch may fail at any time, and a failed switch    *)
(* may have made the branch.                                               *)
PrepareTicketBranch(p) ==
    /\ At(p, "prepare")
    /\ Returned(p, "bound", git.base) \/ Returned(p, "failed", 0)
    /\ UNCHANGED <<run, linear, git, disturbances, resumes>>

ReconcileOutcomes ==
    {"failed"} \cup
    IF ~InLineage \/ git.branch = "absent" THEN {"refused"}
    ELSE IF git.branch = "bound" THEN {"made"} ELSE {"made", "refused"}

CreateBoundTicketBranch(p) ==
    /\ At(p, "create")
    /\ \/ /\ InLineage /\ git.branch = "absent"
          /\ git' = [git EXCEPT !.branch = "bound"]
          /\ Returned(p, "made", 0) \/ Returned(p, "failed", 0)
       \/ /\ ~(InLineage /\ git.branch = "absent")
          /\ \E result \in ReconcileOutcomes : Returned(p, result, 0)
          /\ UNCHANGED git
       \/ /\ Returned(p, "failed", 0)
          /\ UNCHANGED git
    /\ UNCHANGED <<run, linear, disturbances, resumes>>

ReconcileBranch(p) ==
    /\ At(p, "reconcile")
    /\ \E result \in ReconcileOutcomes : Returned(p, result, 0)
    /\ UNCHANGED <<run, linear, git, disturbances, resumes>>

Came(p, result) == At(p, "record") /\ proc[p].result = result

RecordBinding(p) ==
    /\ Came(p, "bound")
    /\ Save(p, [run EXCEPT !.effect = "ready", !.binding = proc[p].base], "idle")

RecordBranch(p) ==
    /\ Came(p, "made")
    /\ Save(p, [run EXCEPT !.effect = "reconciled", !.phase = "BRANCH_CREATED"], "idle")

(* Compensation begins from an active run only; else the save is refused.  *)
RecordFailure(p) ==
    /\ Came(p, "failed")
    /\ IF run.disposition = "ACTIVE"
       THEN Save(p, [run EXCEPT !.effect = "reconciled", !.phase = "COMPENSATION_REQUIRED"], "idle")
       ELSE proc' = [proc EXCEPT ![p] = Idle] /\ UNCHANGED run

RecordRefusal(p) ==
    /\ Came(p, "refused")
    /\ Save(p, [run EXCEPT !.disposition = "HUMAN_REVIEW"], "idle")

Record(p) ==
    /\ RecordBinding(p) \/ RecordBranch(p) \/ RecordFailure(p) \/ RecordRefusal(p)
    /\ UNCHANGED <<linear, git, disturbances, resumes>>

-----------------------------------------------------------------------------
(* Failures, people, and the specification *)

(* The project policy cannot be loaded: any command ends in human review.  *)
PolicyFails(p) ==
    /\ At(p, "idle")
    /\ Disturb
    /\ Save(p, [run EXCEPT !.disposition = "HUMAN_REVIEW"], "idle")
    /\ UNCHANGED <<linear, git, resumes>>

Crash(p) ==
    /\ ~At(p, "idle")
    /\ Disturb
    /\ proc' = [proc EXCEPT ![p] = Idle]
    /\ UNCHANGED <<run, linear, git, resumes>>

(* Others move the remote base, make a branch of that name, or change the  *)
(* ticket.                                                                 *)
Drift ==
    /\ Disturb
    /\ \/ git.base = 1 /\ git' = [git EXCEPT !.base = 2] /\ UNCHANGED ticket
       \/ git.branch = "absent" /\ git' = [git EXCEPT !.branch = "foreign"] /\ UNCHANGED ticket
       \/ ticket' = "other" /\ UNCHANGED git
    /\ UNCHANGED <<run, moves, bridge, receipts, proc, resumes>>

(* Mutant: a compensation is reset without its restore. *)
MayResetUnrestored == run.pending = 0

(* A compensated preparation starts over. *)
MayReset == run.compensated /\ run.pending = 0 /\ CurrentRestore

(* A signed authorization resumes or ends a review. *)
Authorize ==
    /\ run.disposition = "HUMAN_REVIEW"
    /\ \/ /\ resumes < MaxResumes
          /\ resumes' = resumes + 1
          /\ IF run.phase = "COMPENSATION_REQUIRED"
             THEN MayReset /\ run' = [run EXCEPT !.disposition = "ACTIVE", !.phase = "SELECTED"]
             ELSE run' = [run EXCEPT !.disposition = "ACTIVE"]
       \/ run' = [run EXCEPT !.disposition = "ABANDONED"] /\ UNCHANGED resumes
    /\ proc' = [p \in Preparers |-> Overtaken(proc[p])]
    /\ UNCHANGED <<linear, git, disturbances>>

Advance(p) ==
    \/ RequestStart(p) \/ RequestRestore(p)
    \/ RecordIntention(p) \/ InvokeBranch(p) \/ EnterHumanReview(p) \/ StartReconcile(p)

Git(p) == PrepareTicketBranch(p) \/ CreateBoundTicketBranch(p) \/ ReconcileBranch(p)

Step(p) == Advance(p) \/ ConsumeReceipt(p) \/ Git(p) \/ Record(p)

Next ==
    \/ \E p \in Preparers : Step(p) \/ PolicyFails(p) \/ Crash(p)
    \/ Execute \/ Answer \/ Drift \/ Authorize

Spec == Init /\ [][Next]_vars

(* Commands are issued again until the preparation is over, and the bridge *)
(* executes and answers what is pending.                                   *)
Fair == Spec /\ WF_vars(Execute) /\ WF_vars(Answer) /\ \A p \in Preparers : WF_vars(Step(p))

-----------------------------------------------------------------------------
(* Properties *)

Phases == {"SELECTED", "IN_PROGRESS_REQUESTED", "IN_PROGRESS_CONFIRMED", "COMPENSATION_REQUIRED",
           "BRANCH_CREATED"}

Outcomes == {"none", "SUCCESS", "FAILURE"}

(* Variables have their types; a pending request is the last one and       *)
(* unsettled (contracts.py, RunState.validate_state).                      *)
TypeOK ==
    /\ run \in [disposition : {"ACTIVE", "WAITING_MCP", "HUMAN_REVIEW", "ABANDONED"}, phase : Phases,
                compensated : BOOLEAN, requests : Seq([op : Operations, outcome : Outcomes]),
                pending : 0..Len(run.requests), effect : {"none", "ready", "awaiting", "reconciled"},
                binding : 0..2]
    /\ run.disposition = "WAITING_MCP" => run.pending # 0
    /\ run.pending # 0 => run.pending = Len(run.requests) /\ run.requests[run.pending].outcome = "none"
    /\ ticket \in {"unstarted", "started", "other"}
    /\ bridge \in 0..Len(run.requests)
    /\ receipts \subseteq [request : DOMAIN run.requests, outcome : Outcomes \ {"none"}]
    /\ git \in [base : 1..2, branch : {"absent", "bound", "foreign"}]

(* A branch is made only after the ticket was started for this run, with   *)
(* its intention, invocation and binding saved before (prepare.py,         *)
(* _reconcile_branch): no crash and no second command makes a branch that  *)
(* the run does not know of.                                               *)
BranchIsIntended ==
    git.branch = "bound" =>
        /\ Succeeded("compare_and_start_ticket") # {}
        /\ run.binding # 0
        /\ run.effect \in {"awaiting", "reconciled"}

(* A preparation that succeeds hands over a branch that exists and a       *)
(* ticket that this run started and did not restore; only others may have  *)
(* changed it (prepare.py, _record_branch_result).                         *)
HandedOver ==
    run.phase = "BRANCH_CREATED" =>
        /\ git.branch # "absent"
        /\ moves # <<>> /\ moves[Len(moves)] = "compare_and_start_ticket"
        /\ ticket # "unstarted"

(* A run counts as compensated only when its restore was made after its    *)
(* start (state.py, _validate_preparation_transition), and starts over     *)
(* only with the ticket as it was selected, unless others changed it.      *)
CompensationIsEarned ==
    /\ TypeOK
    /\ run.phase = "COMPENSATION_REQUIRED" /\ run.compensated =>
          moves # <<>> /\ moves[Len(moves)] = "restore_ticket_state"
    /\ run.phase = "SELECTED" => ticket # "started"

(* Every preparation ends with its branch or in front of a person,         *)
(* whatever is lost or dies on the way.                                    *)
PreparationSettles ==
    <>(run.phase = "BRANCH_CREATED" \/ run.disposition \in {"HUMAN_REVIEW", "ABANDONED"})

(* The design: an authenticated resume of a compensated preparation        *)
(* repeats start and branch reconciliation.  So, once its second start is  *)
(* confirmed, the branch is made or a person is asked.                     *)
ResumeRepeatsBranch ==
    (run.compensated /\ Confirmed) ~>
        (run.phase = "BRANCH_CREATED" \/ run.disposition \in {"HUMAN_REVIEW", "ABANDONED"})
=============================================================================
