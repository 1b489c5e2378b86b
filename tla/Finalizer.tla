------------------------------ MODULE Finalizer ------------------------------
(***************************************************************************)
(* finalizer.py with the launcher that composes it                         *)
(* (launcher_finalization.py), the pending request and receipt of          *)
(* linear.py, the bridge call of mcp_bridge.py and the commit and push of  *)
(* git.py: how an approved run reaches DONE.                               *)
(*                                                                         *)
(* Every effect on the outside is preceded by an intention in the run's    *)
(* effect ledger and followed by its reconciliation, both saved by         *)
(* compare-and-swap.  Git effects are made by the finalizer itself; ticket *)
(* requests are saved as pending and executed by a later receipt command,  *)
(* which calls the bridge and consumes the receipt.  Processes are short,  *)
(* several may run at once, and each may die, or leave with an exception   *)
(* or a missed deadline, between any two steps.                            *)
(*                                                                         *)
(* RunStore implements a register, so a save is one step.  The release of  *)
(* the index after DONE is in ActiveRunIndex.                              *)
(***************************************************************************)
EXTENDS Naturals, Sequences, FiniteSets

CONSTANTS
    Launchers,          \* processes that serve finalize and receipt commands
    OriginalState,      \* state of the ticket in the preparation context
    MaxInvocations,     \* finalization.max_invocations_per_effect
    MaxWait,            \* finalization.total_retry_wait_seconds, in waits
    MaxDisturbances,    \* bound: deaths of processes, overlapping commands, and
                        \* changes to Git or the ticket by others, together
    MaxResumes          \* bound: resumes of a human review

(* The context is captured before the run starts its ticket.  A ticket     *)
(* whose original state is "started" is one that stands, at finalization,  *)
(* as it stood when the context was captured.                              *)
ASSUME FinalizerAssumption ==
    /\ OriginalState \in {"started", "unstarted"}
    /\ MaxInvocations \in Nat \ {0}
    /\ MaxWait \in Nat
    /\ MaxDisturbances \in Nat
    /\ MaxResumes \in Nat

VARIABLES
    run,            \* the stored run state
    backoff,        \* is finalization_next_eligible_at in the future?
    world,          \* HEAD, the remote branch, the remote base, the ticket
    applied,        \* effect |-> how many times it changed the world
    proc,           \* launcher |-> what its process is doing
    disturbances, resumes

vars == <<run, backoff, world, applied, proc, disturbances, resumes>>

outside == <<world, applied>>
bounds  == <<disturbances, resumes>>

-----------------------------------------------------------------------------
(* The run and its effect ledger *)

Effects == {"commit", "push", "complete"}

Before == [commit |-> {}, push |-> {"commit"}, complete |-> {"commit", "push"}]

(* An entry stands for all events of one effect; of is the effect that a   *)
(* reconcile_commit or reconcile_push looks at again.                      *)
Intention(op, of) == [op |-> op, of |-> of, outcome |-> "none"]

Attempts(op) == {i \in DOMAIN run.ledger : run.ledger[i].op = op}

(* The last attempt, if there is one. *)
Latest(op) == {i \in Attempts(op) : \A j \in Attempts(op) : j <= i}

(* Mutant: one attempt too many. *)
ExhaustedLate(op) == Cardinality(Attempts(op)) > MaxInvocations

Exhausted(op) == Cardinality(Attempts(op)) >= MaxInvocations

Reconciled(i) == run.ledger[i].outcome # "none"

(* Effect i has been looked at again after it was reconciled. *)
Observed(i) == \E k \in DOMAIN run.ledger : run.ledger[k].of = i /\ Reconciled(k)

(* Mutant: a reconciled failure is retried as it is. *)
MayRetryBlindly(op) == \A i \in Latest(op) : Reconciled(i)

MayRetry(op) == \A i \in Latest(op) : Observed(i)

(* The operation whose effect entry i is about. *)
Operation(i) == LET e == run.ledger[i] IN IF e.of = 0 THEN e.op ELSE run.ledger[e.of].op

(* Mutant: the ticket is completed although the push is not recorded. *)
DueEarly(op) == op \notin run.recorded /\ (Before[op] \ {"push"}) \subseteq run.recorded

(* The next effect of the run: commit_sha, pushed_sha and                  *)
(* linear_done_receipt are recorded in this order.                         *)
Due(op) == op \notin run.recorded /\ Before[op] \subseteq run.recorded

Idle == [pc |-> "idle", fresh |-> FALSE, effect |-> 0, result |-> "none"]

Init ==
    /\ run = [disposition |-> "ACTIVE",
              projected   |-> FALSE,    \* prefinalization_ticket_projection
              recorded    |-> {},       \* commit_sha, pushed_sha, linear_done_receipt
              pending     |-> 0,        \* the entry of the pending request, or 0
              waited      |-> 0,        \* finalization_retry_wait_seconds
              ledger      |-> <<>>]
    /\ backoff = FALSE
    /\ world = [head |-> "baseline", remote |-> "none", base |-> "baseline", ticket |-> "started"]
    /\ applied = [op \in Effects |-> 0]
    /\ proc = [f \in Launchers |-> Idle]
    /\ disturbances = 0 /\ resumes = 0

-----------------------------------------------------------------------------
(* Processes and saves *)

At(f, pc) == proc[f].pc = pc

Goto(f, pc) == proc' = [proc EXCEPT ![f] = IF pc = "idle" THEN Idle ELSE [@ EXCEPT !.pc = pc]]

(* Mutant: a save of one process leaves the other's generation current. *)
SaveUnseen(f, new, pc, effect) ==
    /\ run' = new
    /\ proc' = [proc EXCEPT ![f] = IF pc = "idle" THEN Idle
                                   ELSE [pc |-> pc, fresh |-> TRUE, effect |-> effect, result |-> "none"]]

(* A generation that became stale: the next save of its process will be    *)
(* refused.  Until then a process only reads, unless it is about to call   *)
(* Git or the bridge; any other process ends here.                         *)
Stale(p) == IF p.pc \in {"invoke", "call"} THEN [p EXCEPT !.fresh = FALSE] ELSE Idle

(* A compare_and_swap that succeeds; f goes on at pc with an effect. *)
Save(f, new, pc, effect) ==
    /\ run' = new
    /\ proc' = [g \in Launchers |->
                   IF g # f THEN Stale(proc[g])
                   ELSE IF pc = "idle" THEN Idle
                   ELSE [pc |-> pc, fresh |-> TRUE, effect |-> effect, result |-> "none"]]

(* A call has returned.  A process that is not stale reconciles it. *)
Returned(f, pc, result) ==
    proc' = [proc EXCEPT ![f] = IF @.fresh THEN [@ EXCEPT !.pc = pc, !.result = result] ELSE Idle]

(* Two finalizers that disturb each other for ever would fill the ledger.  *)
Disturb ==
    /\ disturbances < MaxDisturbances
    /\ disturbances' = disturbances + 1

(* A command starts a process, normally when no other is running. *)
Start(f) ==
    /\ At(f, "idle")
    /\ \/ /\ \A g \in Launchers : At(g, "idle")
          /\ UNCHANGED disturbances
       \/ /\ \E g \in Launchers : ~At(g, "idle")
          /\ Disturb
    /\ UNCHANGED <<run, backoff, outside, resumes>>

(* A finalize command; a run that waits for a receipt, is under review or  *)
(* over is only reported.                                                  *)
Finalize(f) ==
    /\ Start(f)
    /\ run.disposition = "ACTIVE"
    /\ proc' = [proc EXCEPT ![f] = [Idle EXCEPT !.pc = "check", !.fresh = TRUE]]

(* A receipt command for the pending request, which the bridge finds to be *)
(* saved before it calls.                                                  *)
Receipt(f) ==
    /\ Start(f)
    /\ run.pending # 0
    /\ proc' = [proc EXCEPT ![f] = [Idle EXCEPT !.pc = "call", !.fresh = TRUE, !.effect = run.pending]]

-----------------------------------------------------------------------------
(* What an effect does to the outside *)

Done(op) ==
    CASE op = "commit"   -> world.head = "commit"
      [] op = "push"     -> world.remote = "commit"
      [] op = "complete" -> world.ticket = "completed"

(* A push of what is already there changes nothing. *)
Perform(op) ==
    /\ world' = CASE op = "commit"   -> [world EXCEPT !.head = "commit"]
                  [] op = "push"     -> [world EXCEPT !.remote = "commit"]
                  [] op = "complete" -> [world EXCEPT !.ticket = "completed"]
    /\ applied' = [applied EXCEPT ![op] = IF Done(op) THEN @ ELSE @ + 1]

-----------------------------------------------------------------------------
(* advance() *)

(* Nothing to do, or not yet. *)
NotReady(f) ==
    /\ At(f, "check")
    /\ run.disposition # "ACTIVE" \/ backoff
    /\ Goto(f, "idle")
    /\ UNCHANGED <<run, backoff, outside, bounds>>

(* Mutant: the Retry-After time is not consulted. *)
ReadyAnyTime(f) == At(f, "check") /\ run.disposition = "ACTIVE"

Ready(f) == At(f, "check") /\ run.disposition = "ACTIVE" /\ ~backoff

WithIntention(op, of) == [run EXCEPT !.ledger = Append(@, Intention(op, of))]

(* persist_pending: the request and its intention in one save. *)
WithPending(op) ==
    [WithIntention(op, 0) EXCEPT !.pending = Len(run.ledger) + 1, !.disposition = "WAITING_MCP"]

RequestProjection(f) ==
    /\ Ready(f)
    /\ ~run.projected
    /\ Save(f, WithPending("projection"), "idle", 0)
    /\ UNCHANGED <<backoff, outside, bounds>>

(* _verify_git_position *)
GitPosition ==
    /\ world.base = "baseline"
    /\ "commit" \in run.recorded => world.head = "commit"
    /\ "push" \in run.recorded => world.remote = "commit"

VerifyPosition(f) ==
    /\ Ready(f)
    /\ run.projected
    /\ Goto(f, IF GitPosition THEN "act" ELSE "escalate")
    /\ UNCHANGED <<run, backoff, outside, bounds>>

(* An attempt that was never reconciled: a process died in it. *)
ObserveOpen(f) ==
    \E op \in {"commit", "push"} : \E i \in Latest(op) :
        /\ At(f, "act") /\ Due(op)
        /\ ~Reconciled(i)
        /\ proc' = [proc EXCEPT ![f].pc = "observe", ![f].effect = i]
        /\ UNCHANGED <<run, backoff, outside, bounds>>

(* A reconciled attempt is looked at again before the next one. *)
IntendReconcile(f) ==
    \E op \in {"commit", "push"} : \E i \in Latest(op) :
        /\ At(f, "act") /\ Due(op)
        /\ Reconciled(i) /\ ~Observed(i)
        /\ Save(f, WithIntention("reconcile", i), "observe", Len(run.ledger) + 1)
        /\ UNCHANGED <<backoff, outside, bounds>>

(* Mutant: the effect is made before its intention is saved. *)
IntendLater(f) ==
    \E op \in {"commit", "push"} :
        /\ At(f, "act") /\ Due(op)
        /\ MayRetry(op) /\ ~Exhausted(op)
        /\ Perform(op)
        /\ Goto(f, "check")
        /\ UNCHANGED <<run, backoff, bounds>>

Intend(f) ==
    \E op \in {"commit", "push"} :
        /\ At(f, "act") /\ Due(op)
        /\ MayRetry(op) /\ ~Exhausted(op)
        /\ Save(f, WithIntention(op, 0), "invoke", Len(run.ledger) + 1)
        /\ UNCHANGED <<backoff, outside, bounds>>

RequestCompletion(f) ==
    /\ At(f, "act") /\ Due("complete")
    /\ ~Exhausted("complete")
    /\ Save(f, WithPending("complete"), "idle", 0)
    /\ UNCHANGED <<backoff, outside, bounds>>

GiveUp(f) ==
    /\ At(f, "act")
    /\ \E op \in Effects : Due(op) /\ Exhausted(op) /\ (op = "complete" \/ MayRetry(op))
    /\ Goto(f, "escalate")
    /\ UNCHANGED <<run, backoff, outside, bounds>>

(* The second look at Git, right before DONE. *)
Confirm(f) ==
    /\ At(f, "act")
    /\ run.recorded = Effects
    /\ Goto(f, IF GitPosition THEN "finish" ELSE "escalate")
    /\ UNCHANGED <<run, backoff, outside, bounds>>

Finish(f) ==
    /\ At(f, "finish")
    /\ Save(f, [run EXCEPT !.disposition = "DONE"], "idle", 0)
    /\ UNCHANGED <<backoff, outside, bounds>>

Escalate(f) ==
    /\ At(f, "escalate")
    /\ Save(f, [run EXCEPT !.disposition = "HUMAN_REVIEW"], "idle", 0)
    /\ UNCHANGED <<backoff, outside, bounds>>

-----------------------------------------------------------------------------
(* Git: the calls, and what can be seen of them *)

(* commit: on the baseline only.  push: of HEAD, if the base has not moved *)
(* and the remote branch does not refuse it.                               *)
Possible(op) ==
    IF op = "commit" THEN world.head = "baseline"
    ELSE world.head = "commit" /\ world.base = "baseline" /\ world.remote # "other"

(* The call happens or not, and may fail after it happened. *)
Invoke(f) ==
    LET op == Operation(proc[f].effect)
    IN  /\ At(f, "invoke")
        /\ \/ /\ Possible(op)
              /\ Perform(op)
              /\ \E result \in {"SUCCESS", "FAILURE"} : Returned(f, "record", result)
           \/ /\ Returned(f, "record", "FAILURE")
              /\ UNCHANGED outside
        /\ UNCHANGED <<run, backoff, bounds>>

(* Mutant: any commit or remote branch is taken for the effect. *)
SeenAnything(op) == IF op = "commit" THEN world.head # "baseline" ELSE world.remote # "none"

Seen(op) == Done(op)

Observe(f) ==
    /\ At(f, "observe")
    /\ Returned(f, "record", IF Seen(Operation(proc[f].effect)) THEN "SUCCESS" ELSE "UNKNOWN")
    /\ UNCHANGED <<run, backoff, outside, bounds>>

(* _record_local_result; a failed invocation ends advance(), an            *)
(* observation goes on.                                                    *)
Record(f) ==
    LET i == proc[f].effect
        result == proc[f].result
        recorded == IF result = "SUCCESS" THEN {Operation(i)} ELSE {}
    IN  /\ At(f, "record")
        /\ Save(f, [run EXCEPT !.ledger[i].outcome = result, !.recorded = @ \cup recorded],
                IF result = "FAILURE" THEN "idle" ELSE "check", 0)
        /\ UNCHANGED <<backoff, outside, bounds>>

-----------------------------------------------------------------------------
(* The bridge call and its receipt *)

(* The receipt names the ticket's state, its revision and the hash of its  *)
(* content, which accept_trusted_receipt compares with the context.        *)
QueryProjection(f) ==
    /\ At(f, "call") /\ run.ledger[proc[f].effect].op = "projection"
    /\ \/ Returned(f, "accept", IF world.ticket = OriginalState THEN "SUCCESS" ELSE "OTHER_STATE")
       \/ Returned(f, "accept", "FAILURE")
    /\ UNCHANGED <<run, backoff, outside, bounds>>

(* compare_and_complete_ticket compares the revision in the context, so it *)
(* changes the ticket once; the outcome of a call that changed it may be   *)
(* unknown.  A call may also report success with the ticket in a state     *)
(* that is not the completed one.                                          *)
CompleteTicket(f) ==
    /\ At(f, "call") /\ run.ledger[proc[f].effect].op = "complete"
    /\ \/ /\ world.ticket = OriginalState
          /\ Perform("complete")
          /\ \E result \in {"SUCCESS", "UNKNOWN"} : Returned(f, "accept", result)
       \/ /\ \E result \in {"FAILURE", "RETRY_AFTER", "OTHER_STATE"} : Returned(f, "accept", result)
          /\ UNCHANGED outside
    /\ UNCHANGED <<run, backoff, bounds>>

(* consume_receipt: the request is reconciled and no longer pending. *)
Consumed(i, result) ==
    [run EXCEPT !.ledger[i].outcome = CASE result = "RETRY_AFTER" -> "FAILURE"
                                        [] result = "OTHER_STATE" -> "SUCCESS"
                                        [] OTHER -> result,
                !.pending = 0,
                !.disposition = "ACTIVE"]

AcceptProjection(f) ==
    LET i == proc[f].effect
    IN  /\ At(f, "accept") /\ run.ledger[i].op = "projection"
        /\ Save(f, IF proc[f].result = "SUCCESS"
                   THEN [Consumed(i, "SUCCESS") EXCEPT !.projected = TRUE]
                   ELSE [Consumed(i, "FAILURE") EXCEPT !.disposition = "HUMAN_REVIEW"],
                "check", 0)
        /\ UNCHANGED <<backoff, outside, bounds>>

(* A receipt with a Retry-After time, while waits are left. *)
BackOff(f) ==
    LET i == proc[f].effect
    IN  /\ At(f, "accept") /\ run.ledger[i].op = "complete"
        /\ proc[f].result = "RETRY_AFTER" /\ run.waited < MaxWait
        /\ Save(f, [Consumed(i, "RETRY_AFTER") EXCEPT !.waited = @ + 1], "check", 0)
        /\ backoff' = TRUE
        /\ UNCHANGED <<outside, bounds>>

AcceptCompletion(f) ==
    LET i == proc[f].effect
        result == proc[f].result
    IN  /\ At(f, "accept") /\ run.ledger[i].op = "complete"
        /\ \/ /\ result = "SUCCESS"
              /\ Save(f, [Consumed(i, result) EXCEPT !.recorded = @ \cup {"complete"}], "check", 0)
           \/ /\ result \in {"FAILURE", "UNKNOWN"}
              /\ Save(f, Consumed(i, result), "check", 0)
           \/ /\ \/ result = "OTHER_STATE"
                 \/ result = "RETRY_AFTER" /\ run.waited = MaxWait
              /\ Save(f, [Consumed(i, result) EXCEPT !.disposition = "HUMAN_REVIEW"], "check", 0)
        /\ UNCHANGED <<backoff, outside, bounds>>

-----------------------------------------------------------------------------
(* Time, failures, humans *)

(* Mutant: a run with a Retry-After time never becomes eligible again. *)
NeverElapses == FALSE /\ UNCHANGED vars

Elapse ==
    /\ backoff
    /\ backoff' = FALSE
    /\ UNCHANGED <<run, outside, proc, bounds>>

(* A process dies, raises, or misses its deadline. *)
Crash(f) ==
    /\ ~At(f, "idle")
    /\ Disturb
    /\ Goto(f, "idle")
    /\ UNCHANGED <<run, backoff, outside, resumes>>

(* Others move HEAD, the ticket branch, the remote base or the ticket. *)
Drift ==
    /\ Disturb
    /\ \E part \in {"head", "remote", "base", "ticket"} :
          /\ world[part] # "other"
          /\ world' = [world EXCEPT ![part] = "other"]
    /\ UNCHANGED <<run, backoff, applied, proc, resumes>>

(* A signed authorization after human review. *)
Authorize ==
    /\ run.disposition = "HUMAN_REVIEW"
    /\ \/ /\ resumes < MaxResumes
          /\ resumes' = resumes + 1
          /\ run' = [run EXCEPT !.disposition = "ACTIVE"]
       \/ /\ run' = [run EXCEPT !.disposition = "ABANDONED"]
          /\ UNCHANGED resumes
    /\ proc' = [f \in Launchers |-> Stale(proc[f])]
    /\ UNCHANGED <<backoff, outside, disturbances>>

-----------------------------------------------------------------------------
Command(f) == Finalize(f) \/ Receipt(f)

Step(f) ==
    \/ NotReady(f)
    \/ RequestProjection(f)
    \/ VerifyPosition(f)
    \/ ObserveOpen(f)
    \/ IntendReconcile(f)
    \/ Intend(f)
    \/ RequestCompletion(f)
    \/ GiveUp(f)
    \/ Confirm(f)
    \/ Finish(f)
    \/ Escalate(f)
    \/ Invoke(f)
    \/ Observe(f)
    \/ Record(f)
    \/ QueryProjection(f)
    \/ CompleteTicket(f)
    \/ AcceptProjection(f)
    \/ BackOff(f)
    \/ AcceptCompletion(f)

Next ==
    \/ Elapse
    \/ Drift
    \/ Authorize
    \/ \E f \in Launchers : Command(f) \/ Step(f) \/ Crash(f)

Spec == Init /\ [][Next]_vars

(* Commands are issued as long as the run is not settled, processes go on  *)
(* until they end (calls have deadlines), and time passes.                 *)
Fairness ==
    /\ WF_vars(Elapse)
    /\ WF_vars(\E f \in Launchers : Command(f))
    /\ \A f \in Launchers : WF_vars(Step(f))

FairSpec == Spec /\ Fairness

-----------------------------------------------------------------------------
(* Properties *)

Ops      == Effects \cup {"projection", "reconcile"}
Outcomes == {"none", "SUCCESS", "FAILURE", "UNKNOWN"}
Pcs      == {"idle", "check", "act", "invoke", "observe", "record", "finish", "escalate",
             "call", "accept"}

(* Types, and that a process with a current generation holds an open entry *)
(* to reconcile, the pending one if it is a request.                       *)
TypeOK ==
    /\ run.disposition \in {"ACTIVE", "WAITING_MCP", "HUMAN_REVIEW", "DONE", "ABANDONED"}
    /\ run.recorded \subseteq Effects
    /\ run.waited \in 0 .. MaxWait
    /\ run.ledger \in Seq([op : Ops, of : Nat, outcome : Outcomes])
    /\ run.pending \in 0 .. Len(run.ledger)
    /\ run.pending # 0 <=> run.disposition = "WAITING_MCP"
    /\ \A f \in Launchers :
          /\ proc[f].pc \in Pcs
          /\ ~proc[f].fresh => proc[f].pc \in {"idle", "invoke", "call"}
          /\ proc[f].pc \in {"invoke", "observe", "record", "call", "accept"} =>
                /\ proc[f].effect \in DOMAIN run.ledger
                /\ proc[f].fresh => ~Reconciled(proc[f].effect)
          /\ proc[f].pc \in {"call", "accept"} /\ proc[f].fresh => proc[f].effect = run.pending

(* What the run has recorded did happen, whoever did it and however often  *)
(* it was lost on the way: a commit that is on the branch, a push that     *)
(* reached the remote, a ticket that was completed by a request of ours.   *)
RecordedIsReal == \A op \in run.recorded : applied[op] = 1

(* Write ahead: nothing happens outside without its intention in the       *)
(* ledger, so a process that dies in the middle leaves a trace.            *)
EffectsAreIntended == \A op \in Effects : applied[op] > 0 => Attempts(op) # {}

(* The design: finalization retries are bounded, whatever crashes, resumes *)
(* and concurrent commands there are.                                      *)
AttemptsBounded == \A op \in Effects : Cardinality(Attempts(op)) <= MaxInvocations

(* The Effect Ledger is the truth about the outside, and it is bounded     *)
(* (finalizer.py, _record_local_result, _intend and _attempts).            *)
LedgerHolds == TypeOK /\ RecordedIsReal /\ EffectsAreIntended /\ AttemptsBounded

(* "Before retry, Finalizer queries local refs, ... remote refs": between  *)
(* two attempts at a Git effect the first was reconciled and then looked   *)
(* for once more, in vain.                                                 *)
ObservedBeforeRetry ==
    \A op \in {"commit", "push"} : \A i, j \in Attempts(op) : i < j =>
        /\ Reconciled(i)
        /\ \E k \in i + 1 .. j - 1 : run.ledger[k].of = i /\ run.ledger[k].outcome = "UNKNOWN"

(* A Retry-After time that was recorded holds for every process: nothing   *)
(* is attempted while it runs.                                             *)
BackoffHonoured == [][backoff => run'.ledger = run.ledger]_vars

(* The effects happen in order, once each, and DONE comes after them. *)
D == INSTANCE Delivery WITH delivered <- applied, finished <- run.disposition = "DONE"

ImplementsDelivery == D!Spec

(* Finalization ends: DONE, or a human looks at it. *)
FinalizationSettles ==
    run.disposition \in {"ACTIVE", "WAITING_MCP"} ~>
        run.disposition \notin {"ACTIVE", "WAITING_MCP"}

(* The design: before a retry the finalizer queries the current Linear     *)
(* state, and "a compatible completed Linear state is accepted".  So a run *)
(* that pushed its commit and completed its ticket is not given to a human *)
(* as long as both are as it left them.                                    *)
CompletedTicketAccepted ==
    /\ "push" \in run.recorded /\ GitPosition
    /\ applied["complete"] = 1 /\ world.ticket = "completed"
    => run.disposition # "HUMAN_REVIEW"

(* The design: "Re-read Linear ... Normative ticket-content changes ...    *)
(* cause Human Review."  So a re-read that answers leads there only when   *)
(* the ticket is no longer as the run that started it left it.             *)
StartedTicketAccepted ==
    [][\A f \in Launchers : AcceptProjection(f) /\ proc[f].result = "OTHER_STATE" => world.ticket = "other"]_vars
=============================================================================
