--------------------------- MODULE PreparationProofs ---------------------------
(***************************************************************************)
(* What TLAPS proves of Preparation, for any preparers, disturbances and   *)
(* resumes: no branch is made that the run does not know of, what is       *)
(* handed over was started and not restored, and a compensation is earned. *)
(***************************************************************************)
EXTENDS Preparation, SequenceTheorems, TLAPS

Start == "compare_and_start_ticket"
Restore == "restore_ticket_state"

Entry == [op : Operations, outcome : Outcomes]
Command == [pc : {"idle", "prepare", "create", "reconcile", "record"}, fresh : BOOLEAN, base : 0..2,
            result : {"none", "bound", "failed", "made", "refused"}]

State == [disposition : {"ACTIVE", "WAITING_MCP", "HUMAN_REVIEW", "ABANDONED"}, phase : Phases,
          compensated : BOOLEAN, requests : Seq(Entry), pending : Nat,
          effect : {"none", "ready", "awaiting", "reconciled"}, binding : 0..2]

Types ==
    /\ run \in State
    /\ ticket \in {"unstarted", "started", "other"}
    /\ moves \in Seq(Operations)
    /\ bridge \in Nat
    /\ receipts \subseteq [request : Nat, outcome : {"SUCCESS", "FAILURE"}]
    /\ git \in [base : 1..2, branch : {"absent", "bound", "foreign"}]
    /\ proc \in [Preparers -> Command]

Count == Len(run.requests)

(* Each episode, a start and perhaps its restore, has its place in the     *)
(* ledger; a compensated run is in its second.                             *)
Before == IF run.compensated THEN 2 ELSE 0
Ledger ==
    /\ run.pending # 0 => run.pending = Count /\ run.requests[Count].outcome = "none"
    /\ run.disposition = "WAITING_MCP" => run.pending # 0
    /\ run.compensated => Count >= 2 /\ Settled(1, Start) /\ Settled(2, Restore)
    /\ run.phase = "SELECTED" => Count = Before /\ run.pending = 0
    /\ run.phase = "IN_PROGRESS_REQUESTED" => Count = Before + 1 /\ run.requests[Count].op = Start
    /\ run.phase = "IN_PROGRESS_CONFIRMED" => Count = Before + 1 /\ Settled(Count, Start) /\ run.pending = 0
    /\ run.phase = "COMPENSATION_REQUIRED" =>
          /\ Count \in 1..2 /\ Settled(1, Start)
          /\ Count = 1 => run.pending = 0
          /\ run.disposition = "ACTIVE" => Count = 1
          /\ Count = 2 => run.requests[2].op = Restore
          /\ run.compensated => Count = 2 /\ run.pending = 0
    /\ run.phase = "BRANCH_CREATED" => Count = 1 /\ Settled(1, Start) /\ run.pending = 0

(* The branch effect follows the phase; a second episode finds it done.    *)
Effect ==
    /\ run.compensated => run.effect = "reconciled"
    /\ run.phase \in {"COMPENSATION_REQUIRED", "BRANCH_CREATED"} => run.effect = "reconciled"
    /\ ~run.compensated /\ run.phase \in {"SELECTED", "IN_PROGRESS_REQUESTED"} => run.effect = "none"
    /\ ~run.compensated /\ run.phase = "IN_PROGRESS_CONFIRMED" => run.effect # "reconciled"

(* The ticket is where the last move left it, but for others; the last     *)
(* request is answered only once the bridge is done with those before it,  *)
(* so its success is the last move; no outcome comes without its receipt.  *)
LastMove == moves[Len(moves)]
Linear ==
    /\ ticket \in {"other", IF moves = <<>> THEN "unstarted" ELSE Leaves[LastMove]}
    /\ Count = 0 => moves = <<>>
    /\ bridge <= Count
    /\ \A r \in receipts :
          /\ r.request \in 1..Count
          /\ r.request = Count => bridge \in {0, Count}
          /\ r.request = Count /\ r.outcome = "SUCCESS" =>
                moves # <<>> /\ LastMove = run.requests[Count].op
    /\ \A i \in 1..Count :
          run.requests[i].outcome # "none" => [request |-> i, outcome |-> run.requests[i].outcome] \in receipts

(* Everything a branch stands on. *)
Backed ==
    /\ Count >= 1 /\ Settled(1, Start)
    /\ run.binding # 0
    /\ run.effect \in {"awaiting", "reconciled"}

CommandHolds(p) ==
    LET s == proc[p] IN
    /\ s.pc = "record" => s.fresh
    /\ s.fresh /\ s.pc # "idle" => run.phase = "IN_PROGRESS_CONFIRMED" /\ run.effect = "awaiting"
    /\ s.fresh /\ s.pc = "prepare" => run.binding = 0
    /\ s.pc = "create" => Backed
    /\ s.fresh /\ s.pc = "reconcile" => run.binding # 0
    /\ s.pc = "record" /\ s.result = "bound" => run.binding = 0 /\ s.base # 0
    /\ s.pc = "record" /\ s.result = "made" => git.branch # "absent"

IInv ==
    /\ Types /\ Ledger /\ Effect /\ Linear
    /\ \A p \in Preparers : CommandHolds(p)
    /\ git.branch = "bound" => Backed
    /\ run.phase = "BRANCH_CREATED" => git.branch # "absent"

-----------------------------------------------------------------------------
(* Frames *)

LEMMA InitInv == Init => IInv
  <1> SUFFICES ASSUME Init PROVE IInv
    OBVIOUS
  <1>1. run \in State /\ Count = 0
    BY DEF Init, State, Phases, Count
  <1>2. Types
    BY <1>1 DEF Init, Types, Idle, Command
  <1>3. Ledger /\ Effect
    BY <1>1 DEF Init, Ledger, Effect, Before
  <1>4. Linear
    BY <1>1 DEF Init, Linear
  <1>5. \A p \in Preparers : CommandHolds(p)
    BY DEF Init, CommandHolds, Idle
  <1> QED
    BY <1>2, <1>3, <1>4, <1>5 DEF IInv, Init

(* A command whose generation was superseded has at most Git to finish.    *)
LEMMA OvertakenHolds ==
    ASSUME IInv, NEW q \in Preparers, proc'[q] = Overtaken(proc[q]), Backed => Backed'
    PROVE  CommandHolds(q)' /\ proc'[q] \in Command
  <1>1. proc[q] \in Command /\ CommandHolds(q)
    BY DEF IInv, Types
  <1>2. CASE proc[q].pc \in {"prepare", "create", "reconcile"}
    <2>1. proc'[q] = [proc[q] EXCEPT !.fresh = FALSE]
      BY <1>2 DEF Overtaken
    <2> QED
      BY <1>1, <1>2, <2>1 DEF Command, CommandHolds
  <1>3. CASE proc[q].pc \notin {"prepare", "create", "reconcile"}
    <2>1. proc'[q] = Idle
      BY <1>3 DEF Overtaken
    <2> QED
      BY <2>1 DEF Idle, Command, CommandHolds
  <1> QED
    BY <1>2, <1>3

(* The run changes, by a command p or by nobody's, and Git does not.       *)
LEMMA RunInv ==
    ASSUME IInv, NEW p, proc' = [q \in Preparers |-> proc'[q]],
           \A q \in Preparers \ {p} : proc'[q] = Overtaken(proc[q]),
           p \in Preparers => proc'[p] \in Command /\ CommandHolds(p)',
           run' \in State, UNCHANGED <<linear, git>>,
           Ledger', Effect', Linear', Backed => Backed',
           run'.phase = "BRANCH_CREATED" => git.branch # "absent"
    PROVE  IInv'
  <1>1. \A q \in Preparers : CommandHolds(q)' /\ proc'[q] \in Command
    BY OvertakenHolds
  <1>2. Types'
    <2>1. proc' \in [Preparers -> Command]
      BY <1>1
    <2> QED
      BY <2>1 DEF IInv, Types, linear
  <1>3. git' = git
    OBVIOUS
  <1> QED
    BY <1>1, <1>2, <1>3 DEF IInv

(* Only a command p, and perhaps Git, changes.                             *)
LEMMA LocalInv ==
    ASSUME IInv, NEW p \in Preparers, NEW c \in Command, proc' = [proc EXCEPT ![p] = c],
           UNCHANGED <<run, linear>>, CommandHolds(p)',
           git' \in [base : 1..2, branch : {"absent", "bound", "foreign"}],
           git.branch # "absent" => git'.branch # "absent",
           git'.branch = "bound" => Backed
    PROVE  IInv'
  <1>1. run' = run /\ ticket' = ticket /\ moves' = moves /\ bridge' = bridge /\ receipts' = receipts
    BY DEF linear
  <1>2. Types'
    BY <1>1 DEF IInv, Types
  <1>3. Ledger' /\ Effect' /\ Linear' /\ (Backed' <=> Backed)
    BY <1>1 DEF IInv, Ledger, Effect, Linear, Backed, Count, Before, Settled, LastMove
  <1>4. ASSUME NEW q \in Preparers PROVE CommandHolds(q)'
    <2>1. CASE q = p
      BY <2>1
    <2>2. CASE q # p
      <3>1. proc'[q] = proc[q] /\ CommandHolds(q)
        BY <2>2 DEF IInv, Types
      <3> QED
        BY <1>1, <1>3, <3>1 DEF CommandHolds
    <2> QED
      BY <2>1, <2>2
  <1> QED
    BY <1>1, <1>2, <1>3, <1>4 DEF IInv

(* The ledger is as it was, and with it all that concerns Linear.          *)
LEMMA SameLedger ==
    ASSUME IInv, run'.requests = run.requests, UNCHANGED linear
    PROVE  Linear'
  BY DEF IInv, Linear, Count, linear, LastMove

(* The process that a save leaves behind.                                  *)
LEMMA SaveShape ==
    ASSUME IInv, NEW p \in Preparers, NEW new, NEW pc, Save(p, new, pc)
    PROVE  /\ run' = new /\ run.disposition # "ABANDONED"
           /\ proc' = [q \in Preparers |-> proc'[q]]
           /\ \A q \in Preparers \ {p} : proc'[q] = Overtaken(proc[q])
           /\ proc'[p] = IF pc = "idle" THEN Idle ELSE [Idle EXCEPT !.pc = pc, !.fresh = TRUE]
  BY DEF Save

LEMMA IdleHolds ==
    ASSUME NEW p, proc'[p] = Idle
    PROVE  proc'[p] \in Command /\ CommandHolds(p)'
  BY DEF Idle, Command, CommandHolds

-----------------------------------------------------------------------------
(* Saves that leave the ledger alone *)

(* A save after which the command is over.                                 *)
LEMMA SaveInv ==
    ASSUME IInv, NEW p \in Preparers, NEW new \in State, Save(p, new, "idle"),
           new.requests = run.requests, UNCHANGED <<linear, git>>,
           Ledger', Effect', Backed => Backed',
           new.phase = "BRANCH_CREATED" => git.branch # "absent"
    PROVE  IInv'
  <1>1. proc'[p] \in Command /\ CommandHolds(p)'
    BY SaveShape, IdleHolds
  <1>2. Linear'
    BY SameLedger, SaveShape
  <1> QED
    BY <1>1, <1>2, SaveShape, RunInv

LEMMA Review ==
    ASSUME IInv, NEW p \in Preparers, Save(p, [run EXCEPT !.disposition = "HUMAN_REVIEW"], "idle"),
           UNCHANGED <<linear, git>>
    PROVE  IInv'
  <1> DEFINE new == [run EXCEPT !.disposition = "HUMAN_REVIEW"]
  <1>1. /\ new \in State /\ new.disposition = "HUMAN_REVIEW" /\ new.requests = run.requests
        /\ new.phase = run.phase /\ new.pending = run.pending /\ new.compensated = run.compensated
        /\ new.effect = run.effect /\ new.binding = run.binding
    BY DEF IInv, Types, State
  <1>2. run' = new
    BY DEF Save
  <1> HIDE DEF new
  <1>3. Ledger' /\ Effect' /\ (Backed => Backed')
    BY <1>1, <1>2 DEF IInv, Ledger, Effect, Backed, Count, Before, Settled
  <1> QED
    BY <1>1, <1>3, SaveInv DEF IInv, new

LEMMA RecordIntentionInv ==
    ASSUME IInv, NEW p \in Preparers, RecordIntention(p)
    PROVE  IInv'
  <1> DEFINE new == [run EXCEPT !.effect = "ready"]
  <1>1. /\ new \in State /\ new.disposition = run.disposition /\ new.requests = run.requests
        /\ new.phase = run.phase /\ new.pending = run.pending /\ new.compensated = run.compensated
        /\ new.effect = "ready" /\ new.binding = run.binding
    BY DEF IInv, Types, State
  <1>2. run' = new /\ Save(p, new, "idle") /\ UNCHANGED <<linear, git>>
        /\ run.phase = "IN_PROGRESS_CONFIRMED" /\ run.effect = "none"
    BY DEF RecordIntention, Save, Confirmed
  <1> HIDE DEF new
  <1>3. Ledger' /\ Effect' /\ (Backed => Backed')
    BY <1>1, <1>2 DEF IInv, Ledger, Effect, Backed, Count, Before, Settled
  <1> QED
    BY <1>1, <1>2, <1>3, SaveInv DEF IInv

LEMMA InvokeBranchInv ==
    ASSUME IInv, NEW p \in Preparers, InvokeBranch(p)
    PROVE  IInv'
  <1> DEFINE new == [run EXCEPT !.effect = "awaiting"]
             pc == IF run.binding = 0 THEN "prepare" ELSE "create"
  <1>1. /\ new \in State /\ new.disposition = run.disposition /\ new.requests = run.requests
        /\ new.phase = run.phase /\ new.pending = run.pending /\ new.compensated = run.compensated
        /\ new.effect = "awaiting" /\ new.binding = run.binding
    BY DEF IInv, Types, State
  <1>2. run' = new /\ Save(p, new, pc) /\ UNCHANGED <<linear, git>>
        /\ run.phase = "IN_PROGRESS_CONFIRMED" /\ run.effect = "ready"
    BY DEF InvokeBranch, Save, Confirmed
  <1>3. proc'[p] = [Idle EXCEPT !.pc = pc, !.fresh = TRUE]
    BY <1>2, SaveShape
  <1> HIDE DEF new
  <1>4. Ledger' /\ Effect' /\ (Backed => Backed')
    BY <1>1, <1>2 DEF IInv, Ledger, Effect, Backed, Count, Before, Settled
  <1>5. Linear'
    BY <1>1, <1>2, SameLedger
  <1>6. proc'[p] \in Command
    <2>1. pc \in {"prepare", "create"}
      OBVIOUS
    <2> HIDE DEF pc
    <2>2. proc'[p] = [pc |-> pc, fresh |-> TRUE, base |-> 0, result |-> "none"]
      BY <1>3 DEF Idle
    <2>3. 0 \in 0..2
      OBVIOUS
    <2> QED
      BY <2>1, <2>2, <2>3 DEF Command
  <1>7. Settled(1, Start)' /\ Count' >= 1
    BY <1>1, <1>2 DEF IInv, Ledger, Effect, Count, Before, Settled
  <1>8. CommandHolds(p)'
    BY <1>1, <1>2, <1>3, <1>7 DEF CommandHolds, Idle, Backed
  <1> HIDE DEF pc
  <1> QED
    BY <1>1, <1>2, <1>4, <1>5, <1>6, <1>8, SaveShape, RunInv DEF IInv

LEMMA EnterHumanReviewInv ==
    ASSUME IInv, NEW p \in Preparers, EnterHumanReview(p)
    PROVE  IInv'
  BY Review DEF EnterHumanReview

LEMMA PolicyFailsInv ==
    ASSUME IInv, NEW p \in Preparers, PolicyFails(p)
    PROVE  IInv'
  BY Review DEF PolicyFails

LEMMA RecordInv ==
    ASSUME IInv, NEW p \in Preparers, Record(p)
    PROVE  IInv'
  <1>1. UNCHANGED <<linear, git>> /\ CommandHolds(p) /\ proc[p] \in Command
    BY DEF Record, IInv, Types
  <1>2. /\ proc[p].pc = "record" => run.phase = "IN_PROGRESS_CONFIRMED" /\ run.effect = "awaiting"
        /\ run \in State
    BY <1>1 DEF CommandHolds, IInv, Types
  <1>3. CASE RecordBinding(p)
    <2> DEFINE new == [run EXCEPT !.effect = "ready", !.binding = proc[p].base]
    <2>1. /\ new \in State /\ new.disposition = run.disposition /\ new.requests = run.requests
          /\ new.phase = run.phase /\ new.pending = run.pending /\ new.compensated = run.compensated
          /\ new.effect = "ready"
      BY <1>1, <1>2 DEF State, Command
    <2>2. run' = new /\ Save(p, new, "idle") /\ run.phase = "IN_PROGRESS_CONFIRMED" /\ run.binding = 0
          /\ run.effect = "awaiting"
      BY <1>1, <1>2, <1>3 DEF RecordBinding, Save, Came, At, CommandHolds
    <2> HIDE DEF new
    <2>3. Ledger' /\ Effect' /\ (Backed => Backed')
      BY <2>1, <2>2 DEF IInv, Ledger, Effect, Backed, Count, Before, Settled
    <2> QED
      BY <1>1, <2>1, <2>2, <2>3, SaveInv
  <1>4. CASE RecordBranch(p)
    <2> DEFINE new == [run EXCEPT !.effect = "reconciled", !.phase = "BRANCH_CREATED"]
    <2>1. /\ new \in State /\ new.disposition = run.disposition /\ new.requests = run.requests
          /\ new.phase = "BRANCH_CREATED" /\ new.pending = run.pending /\ new.compensated = run.compensated
          /\ new.effect = "reconciled" /\ new.binding = run.binding
      BY <1>2 DEF State, Phases
    <2>2. run' = new /\ Save(p, new, "idle") /\ run.phase = "IN_PROGRESS_CONFIRMED"
          /\ run.effect = "awaiting" /\ git.branch # "absent"
      BY <1>1, <1>2, <1>4 DEF RecordBranch, Save, Came, At, CommandHolds
    <2> HIDE DEF new
    <2>3. Ledger'
      <3>1. ~run.compensated /\ Count = 1 /\ Settled(1, Start) /\ run.pending = 0
        BY <2>2 DEF IInv, Ledger, Effect, Before
      <3>2. Count' = 1 /\ Settled(1, Start)'
        BY <2>1, <2>2, <3>1 DEF Count, Settled
      <3> QED
        BY <2>1, <2>2, <3>1, <3>2 DEF IInv, Ledger
    <2>4. Effect' /\ (Backed => Backed')
      BY <2>1, <2>2 DEF IInv, Effect, Backed, Count, Settled
    <2> QED
      BY <1>1, <2>1, <2>2, <2>3, <2>4, SaveInv
  <1>5. CASE RecordFailure(p) /\ run.disposition = "ACTIVE"
    <2> DEFINE new == [run EXCEPT !.effect = "reconciled", !.phase = "COMPENSATION_REQUIRED"]
    <2>1. /\ new \in State /\ new.disposition = run.disposition /\ new.requests = run.requests
          /\ new.phase = "COMPENSATION_REQUIRED" /\ new.pending = run.pending
          /\ new.compensated = run.compensated
          /\ new.effect = "reconciled" /\ new.binding = run.binding
      BY <1>2 DEF State, Phases
    <2>2. run' = new /\ Save(p, new, "idle") /\ run.phase = "IN_PROGRESS_CONFIRMED"
          /\ run.effect = "awaiting"
      BY <1>1, <1>2, <1>5 DEF RecordFailure, Save, Came, At, CommandHolds
    <2> HIDE DEF new
    <2>3. Ledger'
      <3>1. ~run.compensated /\ Count = 1 /\ Settled(1, Start) /\ run.pending = 0
        BY <2>2 DEF IInv, Ledger, Effect, Before
      <3>2. Count' = 1 /\ Settled(1, Start)'
        BY <2>1, <2>2, <3>1 DEF Count, Settled
      <3> QED
        BY <2>1, <2>2, <3>1, <3>2 DEF IInv, Ledger
    <2>4. Effect' /\ (Backed => Backed')
      BY <2>1, <2>2 DEF IInv, Effect, Backed, Count, Settled
    <2> QED
      BY <1>1, <2>1, <2>2, <2>3, <2>4, SaveInv
  <1>6. CASE RecordFailure(p) /\ run.disposition # "ACTIVE"
    <2>1. proc' = [proc EXCEPT ![p] = Idle] /\ run' = run
      BY <1>6 DEF RecordFailure
    <2>2. Idle \in Command /\ proc'[p] = Idle
      BY <2>1 DEF Idle, Command, IInv, Types
    <2>3. git' = git /\ git \in [base : 1..2, branch : {"absent", "bound", "foreign"}]
      BY <1>1 DEF IInv, Types
    <2> QED
      BY <1>1, <2>1, <2>2, <2>3, IdleHolds, LocalInv DEF IInv
  <1>7. CASE RecordRefusal(p)
    BY <1>1, <1>7, Review DEF RecordRefusal
  <1> QED
    BY <1>3, <1>4, <1>5, <1>6, <1>7 DEF Record

-----------------------------------------------------------------------------
(* Commands inside Git *)

(* The Git call of p returns, with what CommandHolds asks of its result.   *)
LEMMA ReturnedInv ==
    ASSUME IInv, NEW p \in Preparers,
           NEW result \in {"none", "bound", "failed", "made", "refused"}, NEW base \in 0..2,
           Returned(p, result, base), proc[p].pc # "idle", UNCHANGED <<run, linear>>,
           git' \in [base : 1..2, branch : {"absent", "bound", "foreign"}],
           git.branch # "absent" => git'.branch # "absent",
           git'.branch = "bound" => Backed,
           proc[p].fresh /\ result = "bound" => run.binding = 0 /\ base # 0,
           result = "made" => git'.branch # "absent"
    PROVE  IInv'
  <1>1. proc[p] \in Command /\ proc \in [Preparers -> Command] /\ CommandHolds(p)
    BY DEF IInv, Types
  <1>2. CASE proc[p].fresh
    <2> DEFINE c == [proc[p] EXCEPT !.pc = "record", !.result = result, !.base = base]
    <2>1. /\ proc' = [proc EXCEPT ![p] = c]
          /\ c \in Command /\ c.pc = "record" /\ c.result = result /\ c.base = base /\ c.fresh
      BY <1>1, <1>2 DEF Returned, Command
    <2> HIDE DEF c
    <2>2. proc'[p] = c /\ run' = run
      BY <1>1, <2>1
    <2>3. CommandHolds(p)'
      BY <1>1, <1>2, <2>1, <2>2 DEF CommandHolds
    <2> QED
      BY <2>1, <2>3, LocalInv
  <1>3. CASE ~proc[p].fresh
    <2>1. proc' = [proc EXCEPT ![p] = Idle] /\ proc'[p] = Idle
      BY <1>1, <1>3 DEF Returned
    <2>2. Idle \in Command
      BY DEF Idle, Command
    <2> QED
      BY <2>1, <2>2, IdleHolds, LocalInv
  <1> QED
    BY <1>2, <1>3

LEMMA PrepareTicketBranchInv ==
    ASSUME IInv, NEW p \in Preparers, PrepareTicketBranch(p)
    PROVE  IInv'
  <1>1. /\ proc[p].pc = "prepare" /\ UNCHANGED <<run, linear>> /\ git' = git
        /\ Returned(p, "bound", git.base) \/ Returned(p, "failed", 0)
    BY DEF PrepareTicketBranch, At
  <1>2. /\ git \in [base : 1..2, branch : {"absent", "bound", "foreign"}]
        /\ git.branch = "bound" => Backed
        /\ proc[p].fresh => run.binding = 0
    BY <1>1 DEF IInv, Types, CommandHolds
  <1>3. git.base \in 0..2 /\ git.base # 0 /\ 0 \in 0..2
    BY <1>2
  <1> QED
    BY <1>1, <1>2, <1>3, ReturnedInv

(* Git finds the branch made only where there is one.                      *)
LEMMA ReconcileInv ==
    ASSUME IInv, NEW p \in Preparers, NEW result \in ReconcileOutcomes, Returned(p, result, 0),
           proc[p].pc # "idle", UNCHANGED <<run, linear, git>>
    PROVE  IInv'
  <1>1. result \in {"failed", "refused", "made"} /\ (result = "made" => git.branch # "absent")
    BY DEF ReconcileOutcomes
  <1>2. git \in [base : 1..2, branch : {"absent", "bound", "foreign"}] /\ git' = git
        /\ (git.branch = "bound" => Backed) /\ 0 \in 0..2
    BY DEF IInv, Types
  <1> QED
    BY <1>1, <1>2, ReturnedInv

LEMMA ReconcileBranchInv ==
    ASSUME IInv, NEW p \in Preparers, ReconcileBranch(p)
    PROVE  IInv'
  BY ReconcileInv DEF ReconcileBranch, At

LEMMA CreateBoundTicketBranchInv ==
    ASSUME IInv, NEW p \in Preparers, CreateBoundTicketBranch(p)
    PROVE  IInv'
  <1>1. proc[p].pc = "create" /\ UNCHANGED <<run, linear>> /\ 0 \in 0..2
    BY DEF CreateBoundTicketBranch, At
  <1>2. Backed /\ git \in [base : 1..2, branch : {"absent", "bound", "foreign"}]
    BY <1>1 DEF IInv, Types, CommandHolds
  <1>3. CASE /\ git' = [git EXCEPT !.branch = "bound"]
             /\ Returned(p, "made", 0) \/ Returned(p, "failed", 0)
    <2>1. git' \in [base : 1..2, branch : {"absent", "bound", "foreign"}] /\ git'.branch = "bound"
      BY <1>2, <1>3
    <2> QED
      BY <1>1, <1>2, <1>3, <2>1, ReturnedInv
  <1>4. CASE UNCHANGED git /\ \E result \in ReconcileOutcomes : Returned(p, result, 0)
    BY <1>1, <1>4, ReconcileInv
  <1>5. CASE UNCHANGED git /\ Returned(p, "failed", 0)
    BY <1>1, <1>5, ReconcileInv DEF ReconcileOutcomes
  <1> QED
    BY <1>3, <1>4, <1>5 DEF CreateBoundTicketBranch

LEMMA StartReconcileInv ==
    ASSUME IInv, NEW p \in Preparers, StartReconcile(p)
    PROVE  IInv'
  <1> DEFINE c == [Idle EXCEPT !.pc = "reconcile", !.fresh = TRUE]
  <1>1. /\ proc' = [proc EXCEPT ![p] = c] /\ UNCHANGED <<run, linear>> /\ git' = git
        /\ run.phase = "IN_PROGRESS_CONFIRMED" /\ run.effect = "awaiting" /\ run.binding # 0
    BY DEF StartReconcile, Confirmed
  <1>2. c.pc = "reconcile"
    BY DEF Idle
  <1>3. c \in Command
    <2>1. 0 \in 0..2
      OBVIOUS
    <2>2. Idle \in Command
      BY <2>1 DEF Idle, Command
    <2> QED
      BY <2>2 DEF Command
  <1>4. proc'[p] = c /\ run' = run
    BY <1>1 DEF IInv, Types
  <1>5. CommandHolds(p)'
    BY <1>1, <1>2, <1>4 DEF CommandHolds
  <1>6. git \in [base : 1..2, branch : {"absent", "bound", "foreign"}] /\ (git.branch = "bound" => Backed)
    BY DEF IInv, Types
  <1> HIDE DEF c
  <1> QED
    BY <1>1, <1>3, <1>5, <1>6, LocalInv

LEMMA CrashInv ==
    ASSUME IInv, NEW p \in Preparers, Crash(p)
    PROVE  IInv'
  <1>1. proc' = [proc EXCEPT ![p] = Idle] /\ UNCHANGED <<run, linear>> /\ git' = git
    BY DEF Crash
  <1>2. Idle \in Command /\ proc'[p] = Idle
    BY <1>1 DEF Idle, Command, IInv, Types
  <1>3. git \in [base : 1..2, branch : {"absent", "bound", "foreign"}] /\ (git.branch = "bound" => Backed)
    BY DEF IInv, Types
  <1> QED
    BY <1>1, <1>2, <1>3, IdleHolds, LocalInv

-----------------------------------------------------------------------------
(* Requests, receipts and authorizations *)

(* A request is added behind the others.                                   *)
LEMMA WithPendingShape ==
    ASSUME run \in State, NEW op \in Operations, NEW phase \in Phases
    PROVE  LET new == WithPending(op, phase) IN
           /\ new \in State /\ new.disposition = "WAITING_MCP" /\ new.phase = phase
           /\ new.compensated = run.compensated /\ new.effect = run.effect /\ new.binding = run.binding
           /\ Len(new.requests) = Count + 1 /\ new.pending = Count + 1
           /\ new.requests[Count + 1] = [op |-> op, outcome |-> "none"]
           /\ \A i \in 1..Count : new.requests[i] = run.requests[i]
  <1>1. run.requests \in Seq(Entry) /\ Count \in Nat
    BY DEF State, Count
  <1>2. [op |-> op, outcome |-> "none"] \in Entry
    BY DEF Entry, Outcomes
  <1> DEFINE longer == Append(run.requests, [op |-> op, outcome |-> "none"])
  <1>3. /\ longer \in Seq(Entry) /\ Len(longer) = Count + 1
        /\ longer[Count + 1] = [op |-> op, outcome |-> "none"]
        /\ \A i \in 1..Count : longer[i] = run.requests[i]
    BY <1>1, <1>2 DEF Count
  <1>4. WithPending(op, phase) = [run EXCEPT !.disposition = "WAITING_MCP", !.phase = phase,
                                             !.requests = longer, !.pending = Count + 1]
    BY DEF WithPending, Count, State
  <1> HIDE DEF longer
  <1>5. Count + 1 \in Nat
    BY <1>1
  <1> DEFINE new == WithPending(op, phase)
  <1>6. /\ new \in State /\ new.disposition = "WAITING_MCP" /\ new.phase = phase
        /\ new.compensated = run.compensated /\ new.effect = run.effect /\ new.binding = run.binding
        /\ new.requests = longer /\ new.pending = Count + 1
    BY <1>3, <1>4, <1>5 DEF State
  <1> QED
    BY <1>3, <1>6

(* The last request was settled by its receipt, so the bridge is not       *)
(* executing an earlier one, and a request that is new has no receipt.     *)
LEMMA RequestInv ==
    ASSUME IInv, NEW p \in Preparers, NEW op \in Operations, NEW phase \in Phases,
           Save(p, WithPending(op, phase), "idle"), UNCHANGED <<linear, git>>,
           Ledger', Effect', phase # "BRANCH_CREATED"
    PROVE  IInv'
  <1> DEFINE new == WithPending(op, phase)
  <1>1. run \in State /\ Count \in Nat
    BY DEF IInv, Types, State, Count
  <1>2. /\ new \in State /\ new.phase = phase
        /\ new.effect = run.effect /\ new.binding = run.binding
        /\ Len(new.requests) = Count + 1
        /\ new.requests[Count + 1] = [op |-> op, outcome |-> "none"]
        /\ \A i \in 1..Count : new.requests[i] = run.requests[i]
    BY <1>1, WithPendingShape
  <1>3. run' = new
    BY DEF Save
  <1> HIDE DEF new
  <1>4. Count' = Count + 1
    BY <1>2, <1>3 DEF Count
  <1>5. Linear'
    <2>1. ticket' = ticket /\ moves' = moves /\ bridge' = bridge /\ receipts' = receipts
      BY DEF linear
    <2>2. bridge \in Nat /\ \A r \in receipts : r.request \in Nat
      BY DEF IInv, Types
    <2> QED
      BY <1>1, <1>2, <1>3, <1>4, <2>1, <2>2 DEF IInv, Linear, LastMove
  <1>6. Backed => Backed'
    BY <1>1, <1>2, <1>3, <1>4 DEF Backed, Settled
  <1>7. proc'[p] \in Command /\ CommandHolds(p)'
    BY SaveShape, IdleHolds
  <1> QED
    BY <1>2, <1>3, <1>5, <1>6, <1>7, SaveShape, RunInv

LEMMA RequestStartInv ==
    ASSUME IInv, NEW p \in Preparers, RequestStart(p)
    PROVE  IInv'
  <1> DEFINE new == WithPending(Start, "IN_PROGRESS_REQUESTED")
  <1>1. Save(p, new, "idle") /\ UNCHANGED <<linear, git>> /\ run.phase = "SELECTED" /\ run' = new
    BY DEF RequestStart, Save, Start
  <1>2. run \in State /\ Start \in Operations /\ "IN_PROGRESS_REQUESTED" \in Phases
    BY DEF IInv, Types, Start, Operations, Phases
  <1>3. /\ new.disposition = "WAITING_MCP" /\ new.phase = "IN_PROGRESS_REQUESTED"
        /\ new.compensated = run.compensated /\ new.effect = run.effect
        /\ Len(new.requests) = Count + 1 /\ new.pending = Count + 1
        /\ new.requests[Count + 1] = [op |-> Start, outcome |-> "none"]
        /\ \A i \in 1..Count : new.requests[i] = run.requests[i]
    BY <1>2, WithPendingShape
  <1> HIDE DEF new
  <1>4. Count' = Count + 1 /\ Count \in Nat /\ Before' = Before
    BY <1>1, <1>2, <1>3 DEF Count, State, Before
  <1>5. Ledger'
    <2>1. Count = Before
      BY <1>1 DEF IInv, Ledger
    <2>2. run'.compensated => Count >= 2 /\ Settled(1, Start)' /\ Settled(2, Restore)'
      BY <1>1, <1>3, <1>4 DEF IInv, Ledger, Settled
    <2> QED
      BY <1>1, <1>3, <1>4, <2>1, <2>2 DEF Ledger
  <1>6. Effect'
    BY <1>1, <1>3 DEF IInv, Effect
  <1> QED
    BY <1>1, <1>2, <1>5, <1>6, RequestInv DEF new

LEMMA RequestRestoreInv ==
    ASSUME IInv, NEW p \in Preparers, RequestRestore(p)
    PROVE  IInv'
  <1> DEFINE new == WithPending(Restore, "COMPENSATION_REQUIRED")
  <1>1. /\ Save(p, new, "idle") /\ UNCHANGED <<linear, git>> /\ run' = new
        /\ run.phase = "COMPENSATION_REQUIRED" /\ ~run.compensated
        /\ run.disposition = "ACTIVE" /\ run.pending = 0
    BY DEF RequestRestore, Save, Restore, Requestable
  <1>2. run \in State /\ Restore \in Operations /\ "COMPENSATION_REQUIRED" \in Phases
    BY DEF IInv, Types, Restore, Operations, Phases
  <1>3. /\ new.disposition = "WAITING_MCP" /\ new.phase = "COMPENSATION_REQUIRED"
        /\ new.compensated = run.compensated /\ new.effect = run.effect
        /\ Len(new.requests) = Count + 1 /\ new.pending = Count + 1
        /\ new.requests[Count + 1] = [op |-> Restore, outcome |-> "none"]
        /\ \A i \in 1..Count : new.requests[i] = run.requests[i]
    BY <1>2, WithPendingShape
  <1> HIDE DEF new
  <1>4. Count = 1 /\ Settled(1, Start)
    BY <1>1 DEF IInv, Ledger
  <1>5. Count' = 2 /\ Settled(1, Start)'
    BY <1>1, <1>3, <1>4 DEF Count, Settled
  <1>6. Ledger'
    BY <1>1, <1>3, <1>4, <1>5 DEF Ledger
  <1>7. Effect'
    BY <1>1, <1>3 DEF IInv, Effect
  <1> QED
    BY <1>1, <1>2, <1>6, <1>7, RequestInv DEF new

(* The pending request gets the outcome of its receipt.                    *)
LEMMA ReconciledShape ==
    ASSUME IInv, NEW receipt \in receipts, receipt.request = run.pending
    PROVE  LET new == Reconciled(receipt) IN
           /\ run.pending = Count /\ Count >= 1 /\ Count \in Nat /\ run.requests[Count] \in Entry
           /\ run.requests[Count].outcome = "none" /\ receipt.outcome \in {"SUCCESS", "FAILURE"}
           /\ new \in State /\ new.disposition = run.disposition /\ new.phase = run.phase
           /\ new.compensated = run.compensated /\ new.effect = run.effect /\ new.binding = run.binding
           /\ new.pending = 0 /\ Len(new.requests) = Count
           /\ new.requests[Count] = [op |-> run.requests[Count].op, outcome |-> receipt.outcome]
           /\ \A i \in 1..Count : i # Count => new.requests[i] = run.requests[i]
  <1>1. /\ run \in State /\ run.requests \in Seq(Entry) /\ Count \in Nat
        /\ receipt.request \in 1..Count /\ receipt.outcome \in {"SUCCESS", "FAILURE"}
    BY DEF IInv, Types, Linear, Count, State
  <1>2. run.pending = Count /\ Count >= 1 /\ run.requests[Count].outcome = "none"
    BY <1>1 DEF IInv, Ledger
  <1>3. run.requests[Count] \in Entry /\ Count \in DOMAIN run.requests
    BY <1>1, <1>2 DEF Count
  <1> DEFINE last == [run.requests[Count] EXCEPT !.outcome = receipt.outcome]
             settled == [run.requests EXCEPT ![Count] = last]
  <1>4. last \in Entry /\ last = [op |-> run.requests[Count].op, outcome |-> receipt.outcome]
    BY <1>1, <1>3 DEF Entry, Outcomes
  <1>5. /\ settled \in Seq(Entry) /\ Len(settled) = Count /\ settled[Count] = last
        /\ \A i \in 1..Count : i # Count => settled[i] = run.requests[i]
    <2> HIDE DEF last
    <2> QED
      BY <1>1, <1>2, <1>3, <1>4, ExceptSeq DEF Count
  <1> DEFINE new == Reconciled(receipt)
  <1>6. new = [run EXCEPT !.pending = 0, !.requests = settled]
    BY <1>1, <1>2 DEF Reconciled, State
  <1> HIDE DEF settled, last, new
  <1>7. /\ new \in State /\ new.disposition = run.disposition /\ new.phase = run.phase
        /\ new.compensated = run.compensated /\ new.effect = run.effect /\ new.binding = run.binding
        /\ new.pending = 0 /\ new.requests = settled
    BY <1>1, <1>5, <1>6 DEF State
  <1> QED
    BY <1>1, <1>2, <1>3, <1>4, <1>5, <1>7 DEF new

(* Settling by a receipt that is there, whatever the run becomes by it.    *)
LEMMA SettleInv ==
    ASSUME IInv, NEW receipt \in receipts, receipt.request = run.pending,
           proc' = [q \in Preparers |-> Overtaken(proc[q])], UNCHANGED <<linear, git>>,
           run' \in State, run'.requests = Reconciled(receipt).requests,
           run'.effect = run.effect, run'.binding = run.binding,
           Ledger', Effect', run'.phase = "BRANCH_CREATED" => run.phase = "BRANCH_CREATED"
    PROVE  IInv'
  <1> DEFINE new == Reconciled(receipt)
  <1>1. /\ Count >= 1 /\ Count \in Nat /\ run.pending = Count /\ run.requests[Count].outcome = "none"
        /\ Len(new.requests) = Count
        /\ new.requests[Count] = [op |-> run.requests[Count].op, outcome |-> receipt.outcome]
        /\ \A i \in 1..Count : i # Count => new.requests[i] = run.requests[i]
    BY ReconciledShape
  <1> HIDE DEF new
  <1>2. run'.requests = new.requests
    BY DEF new
  <1>3. Count' = Count
    BY <1>1, <1>2 DEF Count
  <1>4. Linear'
    <2>1. ticket' = ticket /\ moves' = moves /\ bridge' = bridge /\ receipts' = receipts
      BY DEF linear
    <2>2. receipt = [request |-> receipt.request, outcome |-> receipt.outcome]
      BY DEF IInv, Types
    <2>3. \A r \in receipts : r.request \in Nat
      BY DEF IInv, Types
    <2>4. \A i \in 1..Count : run'.requests[i].op = run.requests[i].op
      BY <1>1, <1>2
    <2>5. \A i \in 1..Count :
             run'.requests[i].outcome # "none" => [request |-> i, outcome |-> run'.requests[i].outcome] \in receipts
      BY <1>1, <1>2, <2>2 DEF IInv, Linear
    <2>6. \A r \in receipts :
          /\ r.request \in 1..Count
          /\ r.request = Count => bridge \in {0, Count}
          /\ r.request = Count /\ r.outcome = "SUCCESS" =>
                moves # <<>> /\ LastMove = run'.requests[Count].op
      BY <1>1, <2>4 DEF IInv, Linear
    <2> QED
      BY <1>3, <2>1, <2>5, <2>6 DEF IInv, Linear, LastMove
  <1>5. Backed => Backed'
    BY <1>1, <1>2, <1>3 DEF Backed, Settled
  <1> DEFINE p == CHOOSE p : p \notin Preparers
  <1>6. p \notin Preparers
    BY NoSetContainsEverything
  <1> HIDE DEF p
  <1> QED
    BY <1>4, <1>5, <1>6, RunInv DEF IInv

LEMMA ConsumeReceiptInv ==
    ASSUME IInv, NEW p \in Preparers, ConsumeReceipt(p)
    PROVE  IInv'
  <1> PICK receipt \in receipts :
          /\ receipt.request = run.pending
          /\ Confirm(receipt) \/ Compensate(receipt) \/ Reject(receipt)
    BY DEF ConsumeReceipt
  <1> DEFINE new == Reconciled(receipt)
  <1>1. proc' = [q \in Preparers |-> Overtaken(proc[q])] /\ UNCHANGED <<linear, git>>
    BY DEF ConsumeReceipt
  <1>2. /\ run.pending = Count /\ Count >= 1 /\ Count \in Nat /\ run.requests[Count] \in Entry
        /\ run.requests[Count].outcome = "none" /\ receipt.outcome \in {"SUCCESS", "FAILURE"}
        /\ new \in State /\ new.disposition = run.disposition /\ new.phase = run.phase
        /\ new.compensated = run.compensated /\ new.effect = run.effect /\ new.binding = run.binding
        /\ new.pending = 0 /\ Len(new.requests) = Count
        /\ new.requests[Count] = [op |-> run.requests[Count].op, outcome |-> receipt.outcome]
        /\ \A i \in 1..Count : i # Count => new.requests[i] = run.requests[i]
    BY ReconciledShape
  <1>3. Ledger /\ Effect
    BY DEF IInv
  (* Only a first or a second request is pending, or the one of an         *)
  (* episode's start.                                                      *)
  <1>4. run.phase \in {"IN_PROGRESS_REQUESTED", "COMPENSATION_REQUIRED"}
    BY <1>2, <1>3 DEF Ledger, IInv, Types, State, Phases
  <1>5. CASE Confirm(receipt)
    <2>1. /\ run' = [new EXCEPT !.disposition = "ACTIVE", !.phase = "IN_PROGRESS_CONFIRMED"]
          /\ run.requests[Count].op = Start /\ receipt.outcome = "SUCCESS"
          /\ run.phase = "IN_PROGRESS_REQUESTED"
      BY <1>2, <1>5 DEF Confirm, Answered, Start
    <2> HIDE DEF new
    <2>2. /\ run' \in State /\ run'.disposition = "ACTIVE" /\ run'.phase = "IN_PROGRESS_CONFIRMED"
          /\ run'.requests = new.requests /\ run'.pending = 0 /\ run'.compensated = run.compensated
          /\ run'.effect = run.effect /\ run'.binding = run.binding
      BY <1>2, <2>1 DEF State, Phases
    <2>3. Count' = Count /\ Before' = Before
      BY <1>2, <2>2 DEF Count, Before
    <2>4. Ledger'
      <3>1. run.compensated => Count = 3
        BY <1>3, <2>1 DEF Ledger, Before
      <3>2. run.compensated => Settled(1, Start)' /\ Settled(2, Restore)'
        BY <1>2, <1>3, <2>2, <3>1 DEF Ledger, Settled
      <3> QED
        BY <1>2, <1>3, <2>1, <2>2, <2>3, <3>1, <3>2 DEF Ledger, Settled
    <2>5. Effect'
      BY <1>3, <2>1, <2>2 DEF Effect
    <2> QED
      BY <1>1, <2>2, <2>4, <2>5, SettleInv DEF new
  <1>6. CASE Compensate(receipt)
    <2>1. /\ run' = [new EXCEPT !.disposition = "HUMAN_REVIEW", !.compensated = TRUE]
          /\ run.requests[Count].op = Restore /\ receipt.outcome = "SUCCESS"
          /\ run.phase = "COMPENSATION_REQUIRED"
      BY <1>2, <1>6 DEF Compensate, Answered, Restore
    <2> HIDE DEF new
    <2>2. /\ run' \in State /\ run'.disposition = "HUMAN_REVIEW" /\ run'.phase = run.phase
          /\ run'.requests = new.requests /\ run'.pending = 0 /\ run'.compensated
          /\ run'.effect = run.effect /\ run'.binding = run.binding
      BY <1>2, <2>1 DEF State
    <2>3. Count' = 2 /\ Count = 2
      BY <1>2, <1>3, <2>1, <2>2 DEF Count, Ledger
    <2>4. Settled(1, Start)' /\ Settled(2, Restore)'
      BY <1>2, <1>3, <2>1, <2>2, <2>3 DEF Ledger, Settled
    <2>5. Ledger' /\ Effect'
      BY <1>3, <2>1, <2>2, <2>3, <2>4 DEF Ledger, Effect, Settled
    <2> QED
      BY <1>1, <2>2, <2>5, SettleInv DEF new
  <1>7. CASE Reject(receipt)
    <2>1. run' = [new EXCEPT !.disposition = "HUMAN_REVIEW"]
      BY <1>7 DEF Reject
    <2> HIDE DEF new
    <2>2. /\ run' \in State /\ run'.disposition = "HUMAN_REVIEW" /\ run'.phase = run.phase
          /\ run'.requests = new.requests /\ run'.pending = 0 /\ run'.compensated = run.compensated
          /\ run'.effect = run.effect /\ run'.binding = run.binding
      BY <1>2, <2>1 DEF State
    <2>3. Count' = Count /\ Before' = Before
      BY <1>2, <2>2 DEF Count, Before
    <2>4. Ledger'
      <3>1. CASE run.phase = "IN_PROGRESS_REQUESTED"
        <4>1. run.compensated => Count = 3
          BY <1>3, <3>1 DEF Ledger, Before
        <4>2. run.compensated => Settled(1, Start)' /\ Settled(2, Restore)'
          BY <1>2, <1>3, <2>2, <4>1 DEF Ledger, Settled
        <4> QED
          BY <1>2, <1>3, <2>2, <2>3, <3>1, <4>1, <4>2 DEF Ledger
      <3>2. CASE run.phase = "COMPENSATION_REQUIRED"
        <4>1. Count = 2 /\ ~run.compensated
          BY <1>2, <1>3, <3>2 DEF Ledger
        <4>2. Settled(1, Start)'
          BY <1>2, <1>3, <2>2, <3>2, <4>1 DEF Ledger, Settled
        <4> QED
          BY <1>2, <1>3, <2>2, <2>3, <3>2, <4>1, <4>2 DEF Ledger
      <3> QED
        BY <1>4, <3>1, <3>2
    <2>5. Effect'
      BY <1>3, <2>2 DEF Effect
    <2> QED
      BY <1>1, <2>2, <2>4, <2>5, SettleInv DEF new
  <1> QED
    BY <1>5, <1>6, <1>7

LEMMA AuthorizeInv ==
    ASSUME IInv, Authorize
    PROVE  IInv'
  <1>1. /\ proc' = [p \in Preparers |-> Overtaken(proc[p])] /\ UNCHANGED <<linear, git>>
        /\ run.disposition = "HUMAN_REVIEW" /\ run \in State /\ Ledger /\ Effect
    BY DEF Authorize, IInv, Types
  <1>2. /\ run' \in State /\ run'.requests = run.requests /\ run'.pending = run.pending
        /\ run'.compensated = run.compensated /\ run'.effect = run.effect
        /\ run'.binding = run.binding /\ run'.disposition \in {"ACTIVE", "ABANDONED"}
        /\ \/ run'.phase = "SELECTED" /\ run.compensated /\ run.phase = "COMPENSATION_REQUIRED"
           \/ run'.phase = run.phase /\ (run.phase = "COMPENSATION_REQUIRED" => run'.disposition = "ABANDONED")
    BY <1>1 DEF Authorize, MayReset, State, Phases
  <1>3. Ledger'
    BY <1>1, <1>2 DEF Ledger, Count, Before, Settled
  <1>4. Effect' /\ (Backed => Backed')
    BY <1>1, <1>2 DEF Effect, Backed, Count, Settled
  <1>5. Linear'
    BY <1>1, <1>2, SameLedger
  <1> DEFINE p == CHOOSE p : p \notin Preparers
  <1>6. p \notin Preparers
    BY NoSetContainsEverything
  <1> HIDE DEF p
  <1> QED
    BY <1>1, <1>2, <1>3, <1>4, <1>5, <1>6, RunInv DEF IInv

-----------------------------------------------------------------------------
(* The bridge, and others *)

LEMMA OutsideInv ==
    ASSUME IInv, UNCHANGED <<run, proc>>, Types', Linear',
           git.branch # "absent" => git'.branch # "absent",
           git'.branch = "bound" => git.branch = "bound"
    PROVE  IInv'
  <1>1. run' = run /\ proc' = proc
    OBVIOUS
  <1>2. Ledger' /\ Effect' /\ (Backed' <=> Backed)
    BY <1>1 DEF IInv, Ledger, Effect, Backed, Count, Before, Settled
  <1>3. ASSUME NEW p \in Preparers PROVE CommandHolds(p)'
    BY <1>1, <1>2 DEF IInv, CommandHolds
  <1> QED
    BY <1>1, <1>2, <1>3 DEF IInv

LEMMA ExecuteInv ==
    ASSUME IInv, Execute
    PROVE  IInv'
  <1>1. /\ run' = run /\ proc' = proc /\ git' = git /\ bridge' = run.pending
        /\ ticket' = ticket /\ moves' = moves /\ receipts' = receipts
    BY DEF Execute
  <1>2. bridge' = Count /\ Count \in Nat
    BY <1>1 DEF Execute, IInv, Ledger, Types, State, Count
  <1>3. Types'
    BY <1>1, <1>2 DEF IInv, Types
  <1>4. Linear'
    BY <1>1, <1>2 DEF IInv, Linear, Count, LastMove
  <1> QED
    BY <1>1, <1>3, <1>4, OutsideInv

LEMMA AnswerInv ==
    ASSUME IInv, Answer
    PROVE  IInv'
  <1> DEFINE op == run.requests[bridge].op
             receipt(outcome) == [request |-> bridge, outcome |-> outcome]
  <1>1. /\ run' = run /\ proc' = proc /\ git' = git /\ bridge # 0 /\ bridge' = 0
        /\ \/ Move(op) /\ receipts' \in {receipts, receipts \cup {receipt("SUCCESS")},
                                        receipts \cup {receipt("FAILURE")}}
           \/ UNCHANGED <<ticket, moves>> /\ receipts' \in {receipts, receipts \cup {receipt("FAILURE")}}
    BY DEF Answer
  <1>2. Types /\ Linear /\ Count \in Nat /\ bridge \in 1..Count /\ run.requests[bridge] \in Entry
    BY <1>1 DEF IInv, Types, State, Linear, Count
  <1>3. op \in Operations
    BY <1>2 DEF Entry
  <1>4. \A outcome : receipt(outcome).request = bridge /\ receipt(outcome).outcome = outcome
    OBVIOUS
  <1>5. receipt("SUCCESS") \in [request : Nat, outcome : {"SUCCESS", "FAILURE"}]
        /\ receipt("FAILURE") \in [request : Nat, outcome : {"SUCCESS", "FAILURE"}]
    BY <1>2
  <1>6. receipts' \subseteq [request : Nat, outcome : {"SUCCESS", "FAILURE"}] /\ receipts \subseteq receipts'
    BY <1>1, <1>2, <1>5 DEF Types
  <1>7. CASE Move(op) /\ receipts' \in {receipts, receipts \cup {receipt("SUCCESS")},
                                       receipts \cup {receipt("FAILURE")}}
    <2>1. /\ moves' = Append(moves, op) /\ ticket' = Leaves[op] /\ moves \in Seq(Operations)
      BY <1>2, <1>7 DEF Move, Types
    <2>2. moves' \in Seq(Operations) /\ moves' # <<>> /\ LastMove' = op
      BY <1>3, <2>1 DEF LastMove
    <2>3. ticket' \in {"unstarted", "started", "other"}
      BY <1>3, <2>1 DEF Leaves, Operations
    <2>4. \A r \in receipts' : r \in receipts \/ r.request = bridge
      BY <1>4, <1>7
    <2> HIDE DEF receipt
    <2>5. \A r \in receipts' : r.request \in 1..Count /\ (r.request = Count => bridge = Count)
      BY <1>1, <1>2, <2>4 DEF Linear
    <2>6. \A r \in receipts' : r.request = Count => LastMove' = run.requests[Count].op
      BY <2>2, <2>5
    <2> HIDE DEF op
    <2>7. Types'
      BY <1>1, <1>2, <1>6, <2>2, <2>3 DEF Types
    <2>8. Linear'
      BY <1>1, <1>2, <1>6, <2>1, <2>2, <2>5, <2>6 DEF Linear, Count
    <2> QED
      BY <1>1, <2>7, <2>8, OutsideInv
  <1>8. CASE UNCHANGED <<ticket, moves>> /\ receipts' \in {receipts, receipts \cup {receipt("FAILURE")}}
    <2>1. \A r \in receipts' : r \in receipts \/ (r.request = bridge /\ r.outcome = "FAILURE")
      BY <1>4, <1>8
    <2>2. Types'
      BY <1>1, <1>2, <1>6, <1>8 DEF Types
    <2> HIDE DEF receipt, op
    <2>3. Linear'
      <3>1. \A r \in receipts' :
               /\ r.request \in 1..Count
               /\ r.request = Count /\ r.outcome = "SUCCESS" =>
                     moves # <<>> /\ LastMove = run.requests[Count].op
        BY <1>2, <2>1 DEF Linear
      <3> QED
        BY <1>1, <1>2, <1>6, <1>8, <3>1 DEF Linear, Count, LastMove
    <2> QED
      BY <1>1, <2>2, <2>3, OutsideInv
  <1> QED
    BY <1>1, <1>7, <1>8

LEMMA DriftInv ==
    ASSUME IInv, Drift
    PROVE  IInv'
  <1>1. /\ run' = run /\ proc' = proc /\ moves' = moves /\ bridge' = bridge /\ receipts' = receipts
        /\ \/ git' = [git EXCEPT !.base = 2] /\ ticket' = ticket
           \/ git' = [git EXCEPT !.branch = "foreign"] /\ ticket' = ticket /\ git.branch = "absent"
           \/ git' = git /\ ticket' = "other"
    BY DEF Drift
  <1>2. Types /\ Linear /\ git \in [base : 1..2, branch : {"absent", "bound", "foreign"}]
    BY DEF IInv, Types
  <1>3. /\ git' \in [base : 1..2, branch : {"absent", "bound", "foreign"}]
        /\ git.branch # "absent" => git'.branch # "absent"
        /\ git'.branch = "bound" => git.branch = "bound"
    <2>1. 2 \in 1..2
      OBVIOUS
    <2> QED
      BY <1>1, <1>2, <2>1
  <1>4. Types'
    BY <1>1, <1>2, <1>3 DEF Types
  <1>5. Linear'
    BY <1>1, <1>2 DEF Linear, Count, LastMove
  <1> QED
    BY <1>1, <1>3, <1>4, <1>5, OutsideInv

-----------------------------------------------------------------------------
(* The specification *)

LEMMA StepInv == IInv /\ [Next]_vars => IInv'
  <1> SUFFICES ASSUME IInv, [Next]_vars PROVE IInv'
    OBVIOUS
  <1>1. ASSUME NEW p \in Preparers, Step(p) PROVE IInv'
    BY <1>1, RequestStartInv, RequestRestoreInv, RecordIntentionInv, InvokeBranchInv, EnterHumanReviewInv,
       StartReconcileInv, ConsumeReceiptInv, PrepareTicketBranchInv, CreateBoundTicketBranchInv,
       ReconcileBranchInv, RecordInv
       DEF Step, Advance, Git
  <1>2. CASE UNCHANGED vars
    <2>1. UNCHANGED <<run, proc>> /\ UNCHANGED <<linear, git>>
      BY <1>2 DEF vars, linear
    <2>2. Types' /\ Linear'
      BY <2>1 DEF IInv, Types, Linear, Count, LastMove, linear
    <2> QED
      BY <2>1, <2>2, OutsideInv
  <1> QED
    BY <1>1, <1>2, PolicyFailsInv, CrashInv, ExecuteInv, AnswerInv, DriftInv, AuthorizeInv DEF Next

LEMMA Inductive == Spec => []IInv
  BY InitInv, StepInv, PTL DEF Spec

(* A request that succeeded and is the last one was the last to move the    *)
(* ticket.                                                                 *)
LEMMA SuccessIsLastMove ==
    ASSUME IInv, NEW op, Count >= 1, Settled(Count, op)
    PROVE  /\ moves # <<>> /\ LastMove = op
           /\ ticket \in {"other", Leaves[op]}
  <1>1. Count \in Nat /\ Linear
    BY DEF IInv, Types, State, Count
  <1>2. run.requests[Count].outcome = "SUCCESS" /\ run.requests[Count].op = op
    BY DEF Settled
  <1>3. [request |-> Count, outcome |-> "SUCCESS"] \in receipts
    BY <1>1, <1>2 DEF Linear
  <1>4. moves # <<>> /\ LastMove = op
    BY <1>1, <1>2, <1>3 DEF Linear
  <1> QED
    BY <1>1, <1>4 DEF Linear

(* Whatever dies or overlaps, no branch is made that the run does not know  *)
(* of: its ticket was started, and intention, invocation and binding are    *)
(* saved (prepare.py, _reconcile_branch).                                   *)
THEOREM BranchIsKnown == Spec => []BranchIsIntended
  <1>1. ASSUME IInv PROVE BranchIsIntended
    <2>1. ASSUME git.branch = "bound" PROVE Backed /\ 1 \in DOMAIN run.requests
      BY <1>1, <2>1 DEF IInv, Types, State, Backed, Count
    <2> QED
      BY <2>1 DEF BranchIsIntended, Backed, Succeeded, Start
  <1> QED
    BY <1>1, Inductive, PTL

(* What preparation hands over is a branch that exists and a ticket that    *)
(* this run was the last to start (prepare.py, _record_branch_result).      *)
THEOREM TicketIsStarted == Spec => []HandedOver
  <1>1. ASSUME IInv PROVE HandedOver
    <2>1. ASSUME run.phase = "BRANCH_CREATED" PROVE Count = 1 /\ Settled(Count, Start) /\ git.branch # "absent"
      BY <1>1, <2>1 DEF IInv, Ledger
    <2>2. ASSUME run.phase = "BRANCH_CREATED"
          PROVE  moves # <<>> /\ LastMove = Start /\ ticket \in {"other", Leaves[Start]}
      BY <1>1, <2>1, <2>2, SuccessIsLastMove
    <2>3. Leaves[Start] = "started"
      BY DEF Leaves, Start
    <2> QED
      BY <2>1, <2>2, <2>3 DEF HandedOver, LastMove, Start
  <1> QED
    BY <1>1, Inductive, PTL

(* A run counts as compensated, and starts over, only when its restore was  *)
(* the last to move the ticket (state.py, _validate_preparation_transition).*)
THEOREM RestoreIsMade == Spec => []CompensationIsEarned
  <1>1. ASSUME IInv PROVE TypeOK
    <2>1. /\ run \in State /\ run.requests \in Seq(Entry) /\ Count \in Nat
          /\ Types /\ Ledger /\ Linear
      BY <1>1 DEF IInv, Types, State, Count
    <2>2. run.pending \in 0..Len(run.requests)
      BY <2>1 DEF Ledger, Count
    <2>3. run \in [disposition : {"ACTIVE", "WAITING_MCP", "HUMAN_REVIEW", "ABANDONED"}, phase : Phases,
                   compensated : BOOLEAN, requests : Seq([op : Operations, outcome : Outcomes]),
                   pending : 0..Len(run.requests), effect : {"none", "ready", "awaiting", "reconciled"},
                   binding : 0..2]
      BY <2>1, <2>2 DEF State, Entry
    <2>4. bridge \in 0..Len(run.requests)
      BY <2>1 DEF Types, Linear, Count
    <2>5. ASSUME NEW r \in receipts PROVE r \in [request : DOMAIN run.requests, outcome : Outcomes \ {"none"}]
      <3>1. r \in [request : Nat, outcome : {"SUCCESS", "FAILURE"}] /\ r.request \in DOMAIN run.requests
        BY <2>1 DEF Types, Linear, Count
      <3> QED
        BY <3>1 DEF Outcomes
    <2> QED
      BY <2>1, <2>3, <2>4, <2>5 DEF TypeOK, Types, Ledger, Count
  <1>2. ASSUME IInv, run.phase = "COMPENSATION_REQUIRED", run.compensated
        PROVE  moves # <<>> /\ moves[Len(moves)] = "restore_ticket_state"
    <2>1. Count = 2 /\ Settled(Count, Restore)
      BY <1>2 DEF IInv, Ledger
    <2> QED
      BY <1>2, <2>1, SuccessIsLastMove DEF LastMove, Restore
  <1>3. ASSUME IInv, run.phase = "SELECTED" PROVE ticket # "started"
    <2>1. CASE run.compensated
      <3>1. Count = 2 /\ Settled(Count, Restore)
        BY <1>3, <2>1 DEF IInv, Ledger, Before
      <3>2. ticket \in {"other", Leaves[Restore]} /\ Leaves[Restore] = "unstarted"
        BY <1>3, <3>1, SuccessIsLastMove DEF Leaves, Restore
      <3> QED
        BY <3>2
    <2>2. CASE ~run.compensated
      BY <1>3, <2>2 DEF IInv, Ledger, Before, Linear
    <2> QED
      BY <2>1, <2>2
  <1> QED
    BY <1>1, <1>2, <1>3, Inductive, PTL DEF CompensationIsEarned
=============================================================================
