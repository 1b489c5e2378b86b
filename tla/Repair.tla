--------------------------------- MODULE Repair ---------------------------------
(***************************************************************************)
(* repair_entrypoint.py, runner.py and repair.py: how the protected repair *)
(* launcher replaces the runner of a run that stands in REPAIR_REQUIRED.   *)
(*                                                                         *)
(* A prepare command makes a workspace; the ticket runner derives a        *)
(* request from it; an apply command tests and builds the workspace, ends  *)
(* the old runner, starts the new one, publishes the activation and makes  *)
(* the run ACTIVE.  Each command runs under a signed descriptor whose      *)
(* nonce it locks, so a descriptor has one command at a time.  An action   *)
(* is one durable write, or one effect of the sandbox daemon.              *)
(***************************************************************************)
EXTENDS Naturals, FiniteSets

CONSTANTS
    Requests,           \* repair requests; each has a workspace of its own
    Descriptors,        \* signed apply descriptors
    Versions,           \* contents a repair workspace may have
    Original,           \* the runner before any repair
    None,
    MaxDisturbances,    \* bound: deaths, failures, edits and expiries of descriptors, together
    MaxOutside          \* bound: commits to the run by others, handles that become invalid

(* Where a command stands; from "source" or "again" to "tested" it is at   *)
(* the version whose regression runs.                                      *)
Places == {"idle", "source", "again", "tested", "build", "activate", "terminate", "start", "attest",
           "publish", "commit", "report", "complete"}

ASSUME RepairAssumption ==
    /\ IsFiniteSet(Requests)
    /\ Versions \cap Places = {}
    /\ Original \notin Requests
    /\ None \notin Requests \cup Versions \cup Descriptors
    /\ Versions # {}
    /\ MaxDisturbances \in Nat /\ MaxOutside \in Nat

VARIABLES
    run,            \* the stored run state
    handle,         \* request |-> how far its workspace handle is, and whether it is good
    request,        \* request |-> the generation it is bound to
    source,         \* request |-> content of the workspace
    journal,        \* request |-> its evidence, and the snapshot for its build
    effect,         \* <<request, effect>> |-> its receipt, its journal entry, its executions
    pending,        \* request |-> the version its pending activation was built from
    activations,    \* requests with an activation file
    pointer,        \* the activation the registry points to
    nonce,          \* descriptor |-> its request and its status
    proc,           \* descriptor |-> what its command is doing
    lock,           \* holder of the activation lock of the run
    disturbances, outside

registry == <<pending, activations, pointer>>
workspaces == <<handle, request, source>>
bounds == <<disturbances, outside>>
vars == <<run, workspaces, journal, effect, registry, nonce, proc, lock, bounds>>

-----------------------------------------------------------------------------
(* Effects of the sandbox daemon: the regression of a version, the build,  *)
(* and the three steps from one runner to the next, in this order.         *)

Lifecycle == {"terminate", "start", "attest"}
Effects == Versions \cup {"build"} \cup Lifecycle

(* A new runner is named by the request that built it. *)
Old(r) == request[r].old

(* What is stored *)
Ids == Requests \cup {Original}
RunState == [rev : Nat, disposition : {"ACTIVE", "REPAIR_REQUIRED", "HUMAN_REVIEW"}, runner : Ids,
             receipt : Requests \cup {None}]
Handle == [stage : {"none", "intended", "issued"}, rev : Nat, valid : BOOLEAN]
Request == [rev : Nat, old : Ids \cup {None}]
Journal == [source : Versions \cup {None}, snapshot : Versions \cup {None}, activation : BOOLEAN, activated : Nat]
EffectEntry == [receipt : {"none", "ok", "failed"}, closed : BOOLEAN, runs : Nat]
Pending == Versions \cup {None}
Activations == SUBSET Requests
Pointer == Requests \cup {None}
Nonce == [request : Requests \cup {None}, status : {"unused", "pending", "completed"}, result : Nat,
          expired : BOOLEAN]

Idle == [pc |-> "idle", version |-> None, rev |-> 0]

Init ==
    /\ run = [rev |-> 1, disposition |-> "REPAIR_REQUIRED", runner |-> Original, receipt |-> None]
    /\ handle = [r \in Requests |-> [stage |-> "none", rev |-> 0, valid |-> TRUE]]
    /\ request = [r \in Requests |-> [rev |-> 0, old |-> None]]
    /\ source = [r \in Requests |-> CHOOSE v \in Versions : TRUE]
    /\ journal = [r \in Requests |-> [source |-> None, snapshot |-> None, activation |-> FALSE, activated |-> 0]]
    /\ effect = [k \in Requests \X Effects |-> [receipt |-> "none", closed |-> FALSE, runs |-> 0]]
    /\ pending = [r \in Requests |-> None]
    /\ activations = {}
    /\ pointer = None
    /\ nonce = [d \in Descriptors |-> [request |-> None, status |-> "unused", result |-> 0, expired |-> FALSE]]
    /\ proc = [d \in Descriptors |-> Idle]
    /\ lock = None
    /\ disturbances = 0 /\ outside = 0

Disturb ==
    /\ disturbances < MaxDisturbances
    /\ disturbances' = disturbances + 1
    /\ UNCHANGED outside

-----------------------------------------------------------------------------
(* Prepare: intention, worktree and handle *)

Repairable(rev) == run.rev = rev /\ run.disposition = "REPAIR_REQUIRED"

SetHandle(r, stage, rev) ==
    /\ handle' = [handle EXCEPT ![r].stage = stage, ![r].rev = rev]
    /\ UNCHANGED <<run, request, source, journal, effect, registry, nonce, proc, lock>>

IntendWorkspace(r) ==
    /\ handle[r].stage = "none"
    /\ Repairable(run.rev)
    /\ SetHandle(r, "intended", run.rev)
    /\ UNCHANGED bounds

(* A command that dies before the handle is written is issued again, for   *)
(* the generation it intended.  One that dies after it may never be        *)
(* answered; its handle was issued all the same.                           *)
IssueHandle(r) ==
    /\ handle[r].stage = "intended"
    /\ SetHandle(r, "issued", handle[r].rev)
    /\ UNCHANGED bounds

(* The ticket runner binds a request to the generation of its handle. *)
CreateRequest(r) ==
    /\ handle[r].stage = "issued"
    /\ request[r].rev = 0
    /\ Repairable(handle[r].rev)
    /\ request' = [request EXCEPT ![r] = [rev |-> run.rev, old |-> run.runner]]
    /\ UNCHANGED <<run, handle, source, journal, effect, registry, nonce, proc, lock, bounds>>

(* The hour of the handle passes, or the workspace or the plan in it is    *)
(* replaced.  Only apply commands look, at this as at what the workspace   *)
(* contains: neither is changed before there is a request.                 *)
InvalidateHandle(r) ==
    /\ request[r].rev # 0
    /\ handle[r].valid
    /\ outside < MaxOutside
    /\ handle' = [handle EXCEPT ![r].valid = FALSE]
    /\ outside' = outside + 1
    /\ UNCHANGED <<run, request, source, journal, effect, registry, nonce, proc, lock, disturbances>>

Edit(r) ==
    /\ request[r].rev # 0
    /\ Disturb
    /\ \E v \in Versions \ {source[r]} : source' = [source EXCEPT ![r] = v]
    /\ UNCHANGED <<run, handle, request, journal, effect, registry, nonce, proc, lock>>

-----------------------------------------------------------------------------
(* Apply commands *)

At(d, pc) == proc[d].pc = pc

For(d) == nonce[d].request

Active(d) == nonce[d].status = "pending" /\ ~nonce[d].expired

Bound(r) == Repairable(request[r].rev) /\ run.runner = Old(r)

Goto(d, pc) == proc' = [proc EXCEPT ![d].pc = pc]

(* Mutant: a command that dies leaves its lock behind. *)
EndHolding(d) == proc' = [proc EXCEPT ![d] = Idle] /\ lock' = lock

(* The command ends, however it ends, and its locks are released. *)
End(d) ==
    /\ proc' = [proc EXCEPT ![d] = Idle]
    /\ lock' = IF lock = d THEN None ELSE lock

(* The nonce is written before anything else; a run that became ACTIVE is  *)
(* left to the activation, which knows its own request.                    *)
Start(d) ==
    /\ At(d, "idle")
    /\ \E r \in Requests :
          /\ request[r].rev # 0
          /\ \/ nonce[d].status = "unused"
             \/ Active(d) /\ For(d) = r
          /\ nonce' = [nonce EXCEPT ![d].request = r, ![d].status = "pending"]
          /\ \/ Repairable(request[r].rev) /\ Goto(d, "source")
             \/ run.rev # request[r].rev /\ run.disposition = "ACTIVE" /\ Goto(d, "activate")
    /\ UNCHANGED <<run, workspaces, journal, effect, registry, lock, bounds>>

(* Mutant: the registry is not told of the new runner. *)
AfterUnpublished(e) ==
    CASE e \in Versions -> "tested"
      [] e = "build" -> "activate"
      [] e = "terminate" -> "start"
      [] e = "start" -> "attest"
      [] e = "attest" -> "commit"
      [] e = "publish" -> "commit"
      [] e = "commit" -> "report"

(* Mutant: what became ACTIVE is not recorded in the journal. *)
AfterUnreported(e) ==
    CASE e \in Versions -> "tested"
      [] e = "build" -> "activate"
      [] e = "terminate" -> "start"
      [] e = "start" -> "attest"
      [] e = "attest" -> "publish"
      [] e = "publish" -> "commit"
      [] e = "commit" -> "complete"

(* Mutant: a runner is published that was started, but not attested. *)
AfterUnattested(e) ==
    CASE e \in Versions -> "tested"
      [] e = "build" -> "activate"
      [] e = "terminate" -> "start"
      [] e = "start" -> "publish"
      [] e = "attest" -> "publish"
      [] e = "publish" -> "commit"
      [] e = "commit" -> "report"

(* Where a command goes after an effect or a write *)
After(e) ==
    CASE e \in Versions -> "tested"
      [] e = "build" -> "activate"
      [] e = "terminate" -> "start"
      [] e = "start" -> "attest"
      [] e = "attest" -> "publish"
      [] e = "publish" -> "commit"
      [] e = "commit" -> "report"

(* The lock of the effect's journal is free, but for d. *)
Alone(d, e) == \A o \in Descriptors \ {d} : ~(At(o, e) /\ For(o) = For(d))

(* What is read is what the regression runs on. *)
Test(d) ==
    LET v == source[For(d)]
    IN  Alone(d, v) /\ proc' = [proc EXCEPT ![d].pc = v, ![d].version = v]

(* Every command of a run that is still to be repaired validates the       *)
(* state, the handle, the workspace and the plan before anything else.     *)
Admitted(r) == Bound(r) /\ handle[r].valid

(* A pending activation is taken as it is; else the workspace is read.     *)
ReadSource(d) ==
    /\ At(d, "source")
    /\ Active(d)
    /\ LET r == For(d) IN
          \/ ~Admitted(r) /\ End(d) /\ UNCHANGED effect
          \/ /\ Admitted(r) /\ pending[r] # None
             /\ Goto(d, "activate") /\ UNCHANGED lock
             /\ effect' = [effect EXCEPT ![<<r, "build">>].closed = TRUE]
          \/ Admitted(r) /\ pending[r] = None /\ Test(d) /\ UNCHANGED <<effect, lock>>
    /\ UNCHANGED <<run, workspaces, journal, registry, nonce, bounds>>

(* Later rounds of the loop look at the workspace only, which is one of    *)
(* the things that make a handle invalid.                                  *)
Reread(d) ==
    /\ At(d, "again")
    /\ Active(d)
    /\ \/ Test(d) /\ UNCHANGED lock
       \/ ~handle[For(d)].valid /\ End(d)
    /\ UNCHANGED <<run, workspaces, journal, effect, registry, nonce, bounds>>

(* A source that changed during its regression is tried again, three times *)
(* in all; one that did not is recorded, unless another was, and built in  *)
(* a workspace that is still the same.                                     *)
Recheck(d) ==
    /\ At(d, "tested")
    /\ Active(d)
    /\ LET r == For(d)
           same == source[r] = proc[d].version
       IN \/ ~same /\ ((Goto(d, "again") /\ UNCHANGED lock) \/ End(d)) /\ UNCHANGED journal
          \/ /\ same /\ journal[r].source \notin {None, proc[d].version}
             /\ End(d) /\ UNCHANGED journal
          \/ /\ same /\ journal[r].source \in {None, proc[d].version}
             /\ journal' = [journal EXCEPT ![r].source = proc[d].version]
             /\ \/ Alone(d, "build") /\ Goto(d, "build") /\ UNCHANGED lock
                \/ ~handle[r].valid /\ End(d)
    /\ UNCHANGED <<run, workspaces, effect, registry, nonce, bounds>>

(* The journal entry of the effect that d is at *)
Phase(d) == effect[<<For(d), proc[d].pc>>]

(* Mutant: the receipt is not looked for. *)
UnseenAnyhow(d) == Phase(d).runs < 2

(* The daemon keeps a receipt of what it ran.  A command looks for it, so  *)
(* what the command before it left is not run again.  A command that dies  *)
(* or times out while the daemon still works finds none and invokes again: *)
(* the daemon is then taken to join the two by their effect identifier.    *)
Unseen(d) == Phase(d).receipt = "none"

(* Mutant: what is copied is not compared with what was tested. *)
CopiesAnyhow(d) == TRUE

(* The workspace is copied for the build as long as it is what was tested. *)
Copies(d) == source[For(d)] = proc[d].version

TakeSnapshot(d) ==
    /\ At(d, "build")
    /\ Unseen(d) /\ journal[For(d)].snapshot = None
    /\ \/ /\ Copies(d)
          /\ journal' = [journal EXCEPT ![For(d)].snapshot = source[For(d)]]
          /\ UNCHANGED <<proc, lock>>
       \/ ~Copies(d) /\ End(d) /\ UNCHANGED journal
    /\ UNCHANGED <<run, workspaces, effect, registry, nonce, bounds>>

(* Intention and invocation are saved first; a death between them and the  *)
(* effect leaves what a death before them leaves.                          *)
Ran(d, receipt) == effect' = [effect EXCEPT ![<<For(d), proc[d].pc>>].receipt = receipt,
                                            ![<<For(d), proc[d].pc>>].runs = @ + 1]

Execute(d) ==
    /\ proc[d].pc \in Effects
    /\ Active(d)
    /\ Unseen(d)
    /\ At(d, "build") => journal[For(d)].snapshot # None
    /\ \/ Ran(d, "ok") /\ UNCHANGED <<proc, lock, bounds>>
       \/ Ran(d, "failed") /\ Disturb /\ End(d)
    /\ UNCHANGED <<run, workspaces, journal, registry, nonce>>

RefuseFailed(d) ==
    /\ proc[d].pc \in Effects
    /\ Phase(d).receipt = "failed"
    /\ End(d)
    /\ UNCHANGED <<run, workspaces, journal, effect, registry, nonce, bounds>>

RecordPending(d) ==
    /\ At(d, "build")
    /\ Active(d)
    /\ Phase(d).receipt = "ok"
    /\ pending[For(d)] = None
    /\ pending' = [pending EXCEPT ![For(d)] = journal[For(d)].snapshot]
    /\ UNCHANGED <<run, workspaces, journal, effect, activations, pointer, nonce, proc, lock, bounds>>

(* Observation and reconciliation are saved, or found to be.  The effects  *)
(* between one runner and the next follow each other.                      *)
CloseEffect(d) ==
    /\ proc[d].pc \in Effects
    /\ Phase(d).receipt = "ok"
    /\ At(d, "build") => pending[For(d)] # None
    /\ effect' = [effect EXCEPT ![<<For(d), proc[d].pc>>].closed = TRUE]
    /\ Goto(d, After(proc[d].pc))
    /\ UNCHANGED <<run, workspaces, journal, registry, nonce, lock, bounds>>

-----------------------------------------------------------------------------
(* Activation, under the activation lock of the run *)

Closed(r, es) == \A e \in es : effect[<<r, e>>].closed

Tested(r) == pending[r] # None /\ journal[r].source # None /\ Closed(r, {journal[r].source, "build"})

(* Mutant: several activations go on at a time. *)
LockAnyhow == TRUE

LockFree == lock = None

(* A run that is ACTIVE already must be so by this activation. *)
ActiveBy(r) == run.disposition = "ACTIVE" /\ run.receipt = r /\ pointer = r /\ run.runner = r

Lock(d) ==
    /\ At(d, "activate")
    /\ Active(d)
    /\ LockFree
    /\ LET r == For(d) IN
          \/ /\ ActiveBy(r)
             /\ proc' = [proc EXCEPT ![d].pc = "report", ![d].rev = run.rev] /\ lock' = d
          \/ Bound(r) /\ Tested(r) /\ Goto(d, "terminate") /\ lock' = d
          \/ ~ActiveBy(r) /\ ~(Bound(r) /\ Tested(r)) /\ End(d)
    /\ UNCHANGED <<run, workspaces, journal, effect, registry, nonce, bounds>>

(* The pointer moves from the old runner only. *)
Movable(r) == pointer = r \/ pointer = None \/ pointer = Old(r)

(* The activation file is written before the pointer that names it. *)
Publish(d) ==
    /\ At(d, "publish")
    /\ Active(d)
    /\ LET r == For(d) IN
          \/ ~(Bound(r) /\ Movable(r)) /\ End(d) /\ UNCHANGED registry
          \/ /\ Bound(r) /\ Movable(r) /\ r \notin activations
             /\ activations' = activations \cup {r}
             /\ UNCHANGED <<pending, pointer, proc, lock>>
          \/ /\ Bound(r) /\ Movable(r) /\ r \in activations
             /\ pointer' = r
             /\ Goto(d, After("publish")) /\ UNCHANGED <<pending, activations, lock>>
    /\ UNCHANGED <<run, workspaces, journal, effect, nonce, bounds>>

RecordActivation(d) ==
    /\ At(d, "commit")
    /\ ~journal[For(d)].activation
    /\ journal' = [journal EXCEPT ![For(d)].activation = TRUE]
    /\ UNCHANGED <<run, workspaces, effect, registry, nonce, proc, lock, bounds>>

(* The commit is compared with the state that was loaded under the lock. *)
Commit(d) ==
    /\ At(d, "commit")
    /\ Active(d)
    /\ journal[For(d)].activation
    /\ LET r == For(d) IN
          \/ ~Bound(r) /\ End(d) /\ UNCHANGED run
          \/ /\ Bound(r)
             /\ run' = [rev |-> run.rev + 1, disposition |-> "ACTIVE", runner |-> r, receipt |-> r]
             /\ proc' = [proc EXCEPT ![d].pc = After("commit"), ![d].rev = run.rev + 1]
             /\ UNCHANGED lock
    /\ UNCHANGED <<workspaces, journal, effect, registry, nonce, bounds>>

(* The revision that became ACTIVE is recorded once. *)
Report(d) ==
    /\ At(d, "report")
    /\ LET r == For(d) IN
          \/ /\ journal[r].activated \in {0, proc[d].rev}
             /\ journal' = [journal EXCEPT ![r].activated = proc[d].rev]
             /\ Goto(d, "complete") /\ lock' = None
          \/ journal[r].activated \notin {0, proc[d].rev} /\ End(d) /\ UNCHANGED journal
    /\ UNCHANGED <<run, workspaces, effect, registry, nonce, bounds>>

Complete(d) ==
    /\ At(d, "complete")
    /\ Active(d)
    /\ nonce' = [nonce EXCEPT ![d].status = "completed", ![d].result = proc[d].rev]
    /\ End(d)
    /\ UNCHANGED <<run, workspaces, journal, effect, registry, bounds>>

(* A command issued again for a completed descriptor is answered so. *)
Recoverable(d) ==
    LET r == For(d) IN
    /\ run.rev = request[r].rev + 1 /\ nonce[d].result = run.rev
    /\ run.disposition = "ACTIVE" /\ run.receipt = pointer /\ run.runner = pointer /\ pointer = r
    /\ Tested(r) /\ Closed(r, Lifecycle) /\ journal[r].activation /\ journal[r].activated = nonce[d].result

(* The launcher runs ticket commands on the runner of the activation. *)
Invokable ==
    /\ run.disposition = "ACTIVE" /\ run.receipt # None
    /\ pointer = run.receipt /\ run.runner = pointer
    /\ Closed(pointer, Lifecycle) /\ journal[pointer].activation /\ journal[pointer].activated # 0

-----------------------------------------------------------------------------
(* What commands do not do *)

Expire(d) ==
    /\ ~nonce[d].expired
    /\ Disturb
    /\ nonce' = [nonce EXCEPT ![d].expired = TRUE]
    /\ UNCHANGED <<run, workspaces, journal, effect, registry, proc, lock>>

(* A command of an expired descriptor ends at its next authorization. *)
Abort(d) ==
    /\ proc[d].pc # "idle"
    /\ nonce[d].expired
    /\ End(d)
    /\ UNCHANGED <<run, workspaces, journal, effect, registry, nonce, bounds>>

Crash(d) ==
    /\ proc[d].pc # "idle"
    /\ Disturb
    /\ End(d)
    /\ UNCHANGED <<run, workspaces, journal, effect, registry, nonce>>

(* Commits to the run that are not an activation: its progress, a failure  *)
(* that asks for a repair, a failure during one, a person's resume.        *)
Moves ==
    {<<"ACTIVE", "ACTIVE">>, <<"ACTIVE", "REPAIR_REQUIRED">>,
     <<"REPAIR_REQUIRED", "REPAIR_REQUIRED">>, <<"REPAIR_REQUIRED", "HUMAN_REVIEW">>,
     <<"HUMAN_REVIEW", "ACTIVE">>}

OtherCommit ==
    /\ outside < MaxOutside
    /\ \E move \in Moves :
          /\ run.disposition = move[1]
          /\ run' = [run EXCEPT !.rev = @ + 1, !.disposition = move[2]]
    /\ outside' = outside + 1
    /\ UNCHANGED <<workspaces, journal, effect, registry, nonce, proc, lock, disturbances>>

-----------------------------------------------------------------------------
Prepare(r) == IntendWorkspace(r) \/ IssueHandle(r) \/ CreateRequest(r)

Continue(d) ==
    \/ ReadSource(d) \/ Reread(d) \/ Recheck(d)
    \/ TakeSnapshot(d) \/ Execute(d) \/ RefuseFailed(d) \/ RecordPending(d) \/ CloseEffect(d)
    \/ Lock(d) \/ Publish(d) \/ RecordActivation(d) \/ Commit(d) \/ Report(d) \/ Complete(d)
    \/ Abort(d)

Next ==
    \/ \E r \in Requests : Prepare(r) \/ Edit(r) \/ InvalidateHandle(r)
    \/ \E d \in Descriptors : Start(d) \/ Continue(d) \/ Expire(d) \/ Crash(d)
    \/ OtherCommit

Spec == Init /\ [][Next]_vars

(* A command goes on, and one that ended is issued again while its         *)
(* descriptor is active; the activation lock is passed on.                 *)
Fair ==
    Spec /\ \A d \in Descriptors : SF_vars(Start(d)) /\ WF_vars(Continue(d)) /\ SF_vars(Lock(d))

-----------------------------------------------------------------------------
(* Properties *)

(* Variables have their types, a pointer names an activation that exists,  *)
(* and who acts on a runner holds the lock.                                *)
TypeOK ==
    /\ run \in RunState /\ run.rev <= 1 + MaxOutside + Cardinality(Requests)
    /\ handle \in [Requests -> Handle]
    /\ request \in [Requests -> Request]
    /\ source \in [Requests -> Versions]
    /\ journal \in [Requests -> Journal]
    /\ effect \in [Requests \X Effects -> EffectEntry]
    /\ pending \in [Requests -> Pending]
    /\ activations \in Activations /\ pointer \in Pointer /\ pointer \in activations \cup {None}
    /\ nonce \in [Descriptors -> Nonce]
    /\ lock \in Descriptors \cup {None}
    /\ \A d \in Descriptors : proc[d].pc \in Lifecycle \cup {"publish", "commit", "report"} => lock = d

(* A ticket command runs on a runner that was built from a source that     *)
(* passed its regression, that was started and attested after the runner   *)
(* it replaces had ended, each once and with its receipt (runner.py,       *)
(* TrustedLauncher.invoke): no death, edit or other request goes around.   *)
CommandsRunTestedRelease ==
    Invokable =>
        \A e \in {pending[pointer], "build"} \cup Lifecycle :
            effect[<<pointer, e>>] = [receipt |-> "ok", closed |-> TRUE, runs |-> 1]

(* However often commands die and are issued again, by one descriptor or   *)
(* several, the daemon runs no effect twice (runner.py, reconcile_effect). *)
EffectsOnce == \A k \in Requests \X Effects : effect[k].runs <= 1

(* What the daemon does, it does once, and a ticket command runs on a      *)
(* release for which it did all of it.                                     *)
ReleaseHolds == EffectsOnce /\ CommandsRunTestedRelease

(* The registry and the run are never more than one activation apart: the  *)
(* pointer names the runner of the run, or the one about to replace it     *)
(* (repair_entrypoint.py, publish_activation).                             *)
PointerTracksRun ==
    /\ TypeOK
    /\ IF pointer = None THEN run.runner = Original ELSE run.runner \in {Old(pointer), pointer}

(* A completed descriptor is answered the same as long as the run stands   *)
(* where the activation left it (repair_entrypoint.py,                     *)
(* _recover_applied_generation).                                           *)
CompletedIsRecoverable ==
    \A d \in Descriptors :
        nonce[d].status = "completed" /\ run.rev = nonce[d].result /\ run.rev = request[For(d)].rev + 1
            => Recoverable(d)

(* The effect of a request went well. *)
Received(e) == {r \in Requests : effect[<<r, e>>].receipt = "ok"}

(* A runner and the one that took a step to replace it *)
Replacing(e) == {<<Old(r), r>> : r \in Received(e)}

Built == {r \in Requests : Tested(r)}
Ended == {Old(r) : r \in Received("terminate")}

Swap == INSTANCE RunnerSwap WITH
    runner <- run.runner,
    disposition <- run.disposition,
    built <- Built,
    ended <- Ended,
    started <- Replacing("start"),
    attested <- Replacing("attest")

(* The dozen writes of an activation, whoever makes them and however often *)
(* they die, amount to one replacement of a runner that ended by one that  *)
(* was tested, started and attested after it (runner.py,                   *)
(* reconcile_activation).                                                  *)
ImplementsSwap == Swap!Spec

(* No command of the request can start over, and none is under way. *)
ShutOut(r) ==
    /\ ~handle[r].valid
    /\ \A d \in Descriptors : For(d) = r => proc[d].pc \in {"idle", "source"}

(* Once the old runner is ended, the run gets its new one: unless the run  *)
(* moved on, the new runner could not be started or attested, another      *)
(* request moved the pointer, no descriptor is left, or the command died   *)
(* and the handle, which the next one validates again although all is      *)
(* built by then, became invalid.                                          *)
EndedIsReplaced ==
    \A r \in Requests :
        effect[<<r, "terminate">>].receipt = "ok" ~>
            \/ ~Bound(r)
            \/ \E e \in {"start", "attest"} : effect[<<r, e>>].receipt = "failed"
            \/ ~Movable(r)
            \/ \A d \in Descriptors : For(d) = r => nonce[d].expired
            \/ ShutOut(r)
=============================================================================
