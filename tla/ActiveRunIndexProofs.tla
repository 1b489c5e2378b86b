-------------------------- MODULE ActiveRunIndexProofs --------------------------
(***************************************************************************)
(* What TLAPS proves of ActiveRunIndex, for any finalizers, reservations,  *)
(* resumes and crashes: the entry stands for its activation, one run at a  *)
(* time is not over and not released, a mark means a release, and the      *)
(* index lets go only of a run that is DONE.                               *)
(***************************************************************************)
EXTENDS ActiveRunIndex, TLAPS

RunRecord == [disposition : Dispositions, initial : BOOLEAN, context : BOOLEAN,
              bound : BOOLEAN, dones : 0 .. MaxResumes + 1, marked : BOOLEAN]

Finalizer == [pc : {"idle", "bind", "done", "release", "unlink", "verify", "mark", "escalate"},
              id : 0 .. MaxReservations, fresh : BOOLEAN]

Types ==
    /\ entry \in Entries
    /\ journal \in [Ids -> [phase : Phases, outcome : Outcomes]]
    /\ run \in [Ids -> RunRecord]
    /\ tombstones \in SUBSET (Ids \X (1 .. MaxResumes + 1))
    /\ issued \in 0 .. MaxReservations
    /\ expired \cup ownerDead \cup verifying \subseteq 1 .. issued
    /\ task \in {Free} \cup [step : Steps, id : Ids]
    /\ fin \in [Finalizers -> Finalizer]
    /\ resumes \in 0 .. MaxResumes /\ crashes \in 0 .. MaxCrashes

Advanced(r) == Stored(r) /\ ~run[r].initial

(* A journal and its entry, from the reservation to the run.               *)
JournalHolds(r) ==
    /\ r > issued => journal[r].phase = "none"
    /\ journal[r].phase \notin {"prepared", "completed"} => ~Stored(r)
    /\ journal[r].outcome = "no_candidate" => ~Stored(r)
    /\ journal[r].phase \in {"prepared", "completed"} => journal[r].outcome # "none"
    /\ journal[r].phase \in Preflight => entry = Reservation(r)
    /\ journal[r].phase = "prepared" => entry \in {Reservation(r), Published(r)} \/ Advanced(r)
    /\ entry = Reservation(r) => r <= issued /\ journal[r].phase # "completed" /\ ~Advanced(r)
    /\ entry = Active(r) =>
          /\ Stored(r) /\ run[r].bound
          /\ journal[r].outcome = "active" => run[r].context

(* A run that is stored is in the index or was released from it.           *)
Released(r) == \E n \in 1 .. run[r].dones : <<r, n>> \in tombstones
RunHolds(r) ==
    /\ Stored(r) => entry \in {Reservation(r), Active(r)} \/ Released(r)
    /\ ~Advanced(r) => run[r].dones = 0 /\ ~run[r].marked
    /\ run[r].initial => Live(r)
    /\ run[r].dones <= IF run[r].disposition = "ACTIVE" THEN resumes ELSE resumes + 1
    /\ run[r].disposition = "DONE" => run[r].dones # 0
    /\ run[r].marked => run[r].disposition = "DONE" /\ Tombstone(r) \in tombstones /\ entry # Active(r)

(* What was written before the next write.                                 *)
Activation == {"context", "initial", "binding", "publish", "complete"}
TaskHolds(r, step) ==
    /\ step = "remove_marker" => entry = NoCandidate(r) /\ journal[r].phase = "completed"
    /\ step \in Activation => journal[r].phase = "prepared"
    /\ step = "context" => journal[r].outcome = "active"
    /\ step \in {"initial", "binding"} => journal[r].outcome \in {"active", "human_review"}
    /\ step \in Activation \ {"context"} => (journal[r].outcome = "active" => run[r].context)
    /\ step \in {"binding", "publish", "complete"} => journal[r].outcome = "no_candidate" \/ Stored(r)
    /\ step \in {"publish", "complete"} => journal[r].outcome = "no_candidate" \/ run[r].bound
    /\ step = "complete" => entry = Published(r)

LockHolds == task # Free => TaskHolds(task.id, task.step)

(* What a finalizer knows of its run as long as its generation is current. *)
FinalizerHolds(f) ==
    LET r == fin[f].id
        pc == fin[f].pc
    IN  /\ pc # "idle" => r \in Ids
        /\ pc # "idle" /\ fin[f].fresh => Advanced(r) /\ ~run[r].marked
        /\ pc \in {"bind", "done"} /\ fin[f].fresh => run[r].disposition = "ACTIVE"
        /\ pc \in {"release", "unlink", "verify", "mark"} /\ fin[f].fresh => run[r].disposition = "DONE"
        /\ pc = "unlink" =>
              /\ task = [step |-> "unlink", id |-> r] /\ fin[f].fresh
              /\ entry = Active(r) /\ Tombstone(r) \in tombstones
        /\ pc = "mark" /\ fin[f].fresh => Tombstone(r) \in tombstones /\ entry # Active(r)

Alone == \A f, g \in Finalizers : fin[f].pc = "unlink" /\ fin[g].pc = "unlink" => f = g

IInv ==
    /\ Types /\ Alone
    /\ \A r \in Ids : JournalHolds(r) /\ RunHolds(r)
    /\ LockHolds
    /\ \A f \in Finalizers : FinalizerHolds(f)

-----------------------------------------------------------------------------
(* Entries *)

(* The kind and the identifier of an entry tell entries apart.             *)
LEMMA Kinds ==
    ASSUME NEW r, NEW q
    PROVE  /\ Reservation(r) # NoCandidate(q) /\ Reservation(r) # Active(q) /\ NoCandidate(r) # Active(q)
           /\ NoEntry \notin {Reservation(r), NoCandidate(r), Active(r)}
           /\ Reservation(r) = Reservation(q) => r = q
           /\ NoCandidate(r) = NoCandidate(q) => r = q
           /\ Active(r) = Active(q) => r = q
           /\ Published(r) \in {NoCandidate(r), Active(r)}
  BY DEF Reservation, NoCandidate, Active, NoEntry, Published

LEMMA EntryMember ==
    ASSUME NEW r \in Ids
    PROVE  {NoEntry, Reservation(r), NoCandidate(r), Active(r), Published(r)} \subseteq Entries
  BY Kinds DEF Entries

LEMMA InitInv == Init => IInv
  <1> SUFFICES ASSUME Init PROVE IInv
    OBVIOUS
  <1>1. Types
    <2>1. 0 \in 0..MaxResumes /\ 0 \in 0..MaxCrashes /\ 0 \in 0..MaxReservations /\ 0 \in 0..MaxResumes + 1
      BY IndexAssumption
    <2>2. NoRun \in RunRecord
      BY <2>1 DEF NoRun, RunRecord, Dispositions
    <2>3. IdleFinalizer \in Finalizer
      BY <2>1 DEF IdleFinalizer, Finalizer
    <2> QED
      BY <2>1, <2>2, <2>3 DEF Init, Types, Entries, Phases, Outcomes
  <1>2. Alone /\ \A f \in Finalizers : FinalizerHolds(f)
    BY DEF Init, Alone, FinalizerHolds, IdleFinalizer
  <1>3. ASSUME NEW r \in Ids PROVE JournalHolds(r) /\ RunHolds(r)
    <2>1. entry = NoEntry /\ entry # Reservation(r) /\ entry # Active(r)
      BY Kinds DEF Init
    <2> QED
      BY <2>1, IndexAssumption DEF Init, JournalHolds, RunHolds, NoRun, Stored, Advanced, Live, Preflight
  <1> QED
    BY <1>1, <1>2, <1>3 DEF IInv, Init, LockHolds

-----------------------------------------------------------------------------
(* Frames *)

(* A holder of the lock that is not releasing: no finalizer is.            *)
NotReleasing == task = Free \/ task.step # "unlink"

LEMMA NoRelease ==
    ASSUME IInv, NotReleasing, NEW f \in Finalizers
    PROVE  fin[f].pc # "unlink"
  <1> SUFFICES ASSUME fin[f].pc = "unlink" PROVE FALSE
    OBVIOUS
  <1>1. task = [step |-> "unlink", id |-> fin[f].id] /\ fin[f].id \in Ids
    BY DEF IInv, FinalizerHolds
  <1>2. task \in [step : Steps, id : Ids]
    BY <1>1 DEF Steps
  <1>3. task # Free
    BY <1>2, IndexAssumption
  <1> QED
    BY <1>1, <1>3 DEF NotReleasing

(* The lock and one journal change.                                        *)
LEMMA JournalInv ==
    ASSUME IInv, Types', UNCHANGED <<entry, run, release, issued, resumes>>,
           NotReleasing \/ task' = task,
           NEW r, \A q \in Ids \ {r} : journal'[q] = journal[q], r \in Ids => JournalHolds(r)',
           LockHolds'
    PROVE  IInv'
  <1>1. /\ entry' = entry /\ run' = run /\ tombstones' = tombstones /\ fin' = fin /\ issued' = issued
        /\ resumes' = resumes
    BY DEF release
  <1>2. ASSUME NEW q \in Ids PROVE JournalHolds(q)'
    <2>1. CASE q = r
      BY <2>1
    <2>2. CASE q # r
      <3>1. journal'[q] = journal[q] /\ JournalHolds(q)
        BY <2>2 DEF IInv
      <3> QED
        BY <1>1, <3>1 DEF JournalHolds, Stored, Advanced, Published
    <2> QED
      BY <2>1, <2>2
  <1>3. ASSUME NEW q \in Ids PROVE RunHolds(q)'
    BY <1>1 DEF IInv, RunHolds, Stored, Advanced, Released, Tombstone, Live
  <1>4. ASSUME NEW f \in Finalizers PROVE FinalizerHolds(f)'
    <2>1. FinalizerHolds(f) /\ (task' = task \/ fin[f].pc # "unlink")
      BY NoRelease DEF IInv
    <2> QED
      BY <1>1, <2>1 DEF FinalizerHolds, Stored, Advanced, Tombstone
  <1>5. Alone'
    BY <1>1 DEF IInv, Alone
  <1> QED
    BY <1>2, <1>3, <1>4, <1>5 DEF IInv

(* The entry changes, by the holder of the lock.                           *)
LEMMA EntryInv ==
    ASSUME IInv, Types', UNCHANGED <<journal, run, release, resumes>>, NotReleasing,
           issued' >= issued,
           \A q \in Ids : JournalHolds(q)',
           \A q \in Ids : Stored(q) => entry' \in {Reservation(q), Active(q)} \/ Released(q),
           \A q \in Ids : entry' = Active(q) => entry = Active(q) \/ ~Advanced(q),
           LockHolds'
    PROVE  IInv'
  <1>1. journal' = journal /\ run' = run /\ tombstones' = tombstones /\ fin' = fin /\ resumes' = resumes
    BY DEF release
  <1>2. ASSUME NEW q \in Ids PROVE RunHolds(q)'
    <2>1. RunHolds(q)
      BY DEF IInv
    <2> QED
      BY <1>1, <2>1 DEF RunHolds, Stored, Advanced, Released, Tombstone, Live
  <1>3. ASSUME NEW f \in Finalizers PROVE FinalizerHolds(f)'
    <2>1. FinalizerHolds(f) /\ fin[f].pc # "unlink"
      BY NoRelease DEF IInv
    <2> QED
      BY <1>1, <2>1 DEF FinalizerHolds, Stored, Advanced, Tombstone
  <1>4. Alone'
    BY <1>1 DEF IInv, Alone
  <1> QED
    BY <1>2, <1>3, <1>4 DEF IInv

(* An activation writes a file of its run, which no finalizer has loaded   *)
(* as far as it changes what a finalizer reads.                            *)
LEMMA ActivationInv ==
    ASSUME IInv, NEW r \in Ids, NEW new \in RunRecord, run' = [run EXCEPT ![r] = new],
           UNCHANGED <<entry, journal, release, issued, clock, verifying, bounds>>, NotReleasing,
           task' \in [step : Steps, id : Ids],
           new.marked = run[r].marked, new.dones = run[r].dones,
           \/ new.disposition = run[r].disposition /\ new.initial = run[r].initial
           \/ ~Advanced(r) /\ new.initial,
           JournalHolds(r)', RunHolds(r)', LockHolds'
    PROVE  IInv'
  <1>1. /\ entry' = entry /\ journal' = journal /\ tombstones' = tombstones /\ fin' = fin
        /\ issued' = issued /\ expired' = expired /\ ownerDead' = ownerDead /\ verifying' = verifying
        /\ resumes' = resumes /\ crashes' = crashes
    BY DEF release, clock, bounds
  <1>2. run'[r] = new /\ \A q \in Ids \ {r} : run'[q] = run[q]
    BY DEF IInv, Types
  <1>3. Types'
    BY <1>1 DEF IInv, Types
  <1>4. ASSUME NEW q \in Ids, q # r PROVE JournalHolds(q)' /\ RunHolds(q)'
    <2>1. run'[q] = run[q] /\ JournalHolds(q) /\ RunHolds(q)
      BY <1>2, <1>4 DEF IInv
    <2> QED
      BY <1>1, <2>1 DEF JournalHolds, RunHolds, Stored, Advanced, Released, Tombstone, Live, Published
  <1>5. ASSUME NEW f \in Finalizers PROVE FinalizerHolds(f)'
    <2>1. FinalizerHolds(f) /\ fin[f].pc # "unlink"
      BY NoRelease DEF IInv
    <2>2. CASE fin[f].id = r
      BY <1>1, <1>2, <2>1, <2>2 DEF FinalizerHolds, Stored, Advanced, Tombstone
    <2>3. CASE fin[f].id # r
      BY <1>1, <1>2, <2>1, <2>3 DEF FinalizerHolds, Stored, Advanced, Tombstone
    <2> QED
      BY <2>2, <2>3
  <1>6. Alone'
    BY <1>1 DEF IInv, Alone
  <1> QED
    BY <1>3, <1>4, <1>5, <1>6 DEF IInv

(* A commit of a run that is past its initial state: whoever else has its  *)
(* previous generation loses it.                                           *)
LEMMA CommitInv ==
    ASSUME IInv, NEW r \in Ids, NEW new \in RunRecord, run' = [run EXCEPT ![r] = new],
           UNCHANGED <<entry, journal, tombstones, issued, clock, verifying, task, crashes>>,
           resumes' \in 0..MaxResumes, resumes' >= resumes,
           Stored(r), Known(r), new.context = run[r].context, new.bound = run[r].bound,
           ~new.initial, new.disposition # "none", new.dones >= run[r].dones, RunHolds(r)',
           fin' \in [Finalizers -> Finalizer],
           \A f \in Finalizers : \/ fin[f].id # r /\ fin'[f] = fin[f]
                                 \/ fin[f].id = r /\ fin'[f] = [fin[f] EXCEPT !.fresh = FALSE]
                                 \/ fin'[f].pc # "unlink" /\ FinalizerHolds(f)',
           task # [step |-> "unlink", id |-> r]
    PROVE  IInv'
  <1>1. /\ entry' = entry /\ journal' = journal /\ tombstones' = tombstones
        /\ issued' = issued /\ expired' = expired /\ ownerDead' = ownerDead /\ verifying' = verifying
        /\ crashes' = crashes /\ task' = task
    BY DEF clock
  <1>2. run'[r] = new /\ (\A q \in Ids \ {r} : run'[q] = run[q])
        /\ resumes \in Nat /\ resumes' \in Nat
    BY IndexAssumption DEF IInv, Types
  <1>3. Types'
    BY <1>1 DEF IInv, Types
  <1>4. ASSUME NEW q \in Ids, q # r PROVE JournalHolds(q)' /\ RunHolds(q)'
    <2>1. run'[q] = run[q] /\ JournalHolds(q) /\ RunHolds(q) /\ run[q].dones \in Nat
      BY <1>2, <1>4, IndexAssumption DEF IInv, Types, RunRecord
    <2>2. JournalHolds(q)'
      BY <1>1, <2>1 DEF JournalHolds, Stored, Advanced, Published
    <2>3. run'[q].dones <= IF run'[q].disposition = "ACTIVE" THEN resumes' ELSE resumes' + 1
      BY <1>2, <2>1 DEF RunHolds
    <2>4. RunHolds(q)'
      BY <1>1, <2>1, <2>3 DEF RunHolds, Stored, Advanced, Released, Tombstone, Live
    <2> QED
      BY <2>2, <2>4
  <1>5. JournalHolds(r)'
    <2>1. JournalHolds(r)
      BY DEF IInv
    <2>2. entry # Reservation(r)
      BY <2>1, Kinds DEF JournalHolds, Known, Advanced
    <2> QED
      BY <1>1, <1>2, <2>1, <2>2 DEF JournalHolds, Stored, Advanced, Published
  <1>6. LockHolds'
    <2> SUFFICES ASSUME task # Free PROVE TaskHolds(task.id, task.step)'
      BY <1>1 DEF LockHolds
    <2>1. TaskHolds(task.id, task.step) /\ task.id \in Ids
      BY DEF IInv, Types, LockHolds
    <2>2. CASE task.id = r
      BY <1>1, <1>2, <2>1, <2>2 DEF TaskHolds, Stored, Published
    <2>3. CASE task.id # r
      BY <1>1, <1>2, <2>1, <2>3 DEF TaskHolds, Stored, Published
    <2> QED
      BY <2>2, <2>3
  <1>7. ASSUME NEW f \in Finalizers
        PROVE  FinalizerHolds(f)' /\ (fin'[f].pc = "unlink" => fin[f].pc = "unlink")
    <2>1. FinalizerHolds(f) /\ fin[f] \in Finalizer
      BY DEF IInv, Types
    <2>2. CASE fin[f].id # r /\ fin'[f] = fin[f]
      <3>1. fin[f].id \in Ids => run'[fin[f].id] = run[fin[f].id]
        BY <1>2, <2>2
      <3> QED
        BY <1>1, <2>1, <2>2, <3>1 DEF FinalizerHolds, Stored, Advanced, Tombstone
    <2>3. CASE fin[f].id = r /\ fin'[f] = [fin[f] EXCEPT !.fresh = FALSE]
      <3>1. fin'[f].id = r /\ fin'[f].pc = fin[f].pc /\ ~fin'[f].fresh /\ fin[f].pc # "unlink"
        BY <2>1, <2>3 DEF FinalizerHolds, Finalizer
      <3> QED
        BY <2>1, <3>1 DEF FinalizerHolds
    <2>4. CASE fin'[f].pc # "unlink" /\ FinalizerHolds(f)'
      BY <2>4
    <2> QED
      BY <2>2, <2>3, <2>4
  <1>8. Alone'
    BY <1>7 DEF IInv, Alone
  <1> QED
    BY <1>3, <1>4, <1>5, <1>6, <1>7, <1>8 DEF IInv

(* A finalizer goes on, without the entry, a journal or a run.             *)
LEMMA FinalizerInv ==
    ASSUME IInv, NEW f \in Finalizers, NEW c \in Finalizer, fin' = [fin EXCEPT ![f] = c],
           UNCHANGED <<entry, journal, run, issued, clock, verifying, resumes>>,
           crashes' \in 0..MaxCrashes,
           tombstones' \in SUBSET (Ids \X (1 .. MaxResumes + 1)), tombstones \subseteq tombstones',
           \/ task' = task
           \/ task' = Free /\ fin[f].pc = "unlink"
           \/ task' = [step |-> "unlink", id |-> fin[f].id] /\ task = Free /\ fin[f].id \in Ids,
           FinalizerHolds(f)', c.pc = "unlink" => task = Free
    PROVE  IInv'
  <1>1. /\ entry' = entry /\ journal' = journal /\ run' = run
        /\ issued' = issued /\ expired' = expired /\ ownerDead' = ownerDead /\ verifying' = verifying
        /\ resumes' = resumes
    BY DEF clock
  <1>2. fin'[f] = c /\ \A g \in Finalizers \ {f} : fin'[g] = fin[g]
    BY DEF IInv, Types
  <1>3. task' \in {Free} \cup [step : Steps, id : Ids]
    BY DEF IInv, Types, Steps
  <1>4. Types'
    BY <1>1, <1>3 DEF IInv, Types
  <1>5. ASSUME NEW q \in Ids PROVE JournalHolds(q)' /\ RunHolds(q)'
    <2>1. JournalHolds(q) /\ RunHolds(q)
      BY DEF IInv
    <2> QED
      BY <1>1, <2>1 DEF JournalHolds, RunHolds, Stored, Advanced, Released, Tombstone, Live, Published
  <1>6. LockHolds'
    <2>1. CASE task' = task
      BY <1>1, <2>1 DEF IInv, LockHolds, TaskHolds, Stored, Published
    <2>2. CASE task' # task /\ task' # Free
      <3>1. task'.step = "unlink"
        BY <2>2
      <3> QED
        BY <3>1 DEF LockHolds, TaskHolds, Activation
    <2> QED
      BY <2>1, <2>2 DEF LockHolds
  <1>7. task = Free => \A g \in Finalizers : fin[g].pc # "unlink"
    BY NoRelease DEF NotReleasing
  <1>8. ASSUME NEW g \in Finalizers, g # f PROVE FinalizerHolds(g)'
    <2>1. fin'[g] = fin[g] /\ FinalizerHolds(g)
      BY <1>2, <1>8 DEF IInv
    <2>2. fin[g].pc = "unlink" => task' = task
      BY <1>7, <1>8 DEF IInv, Alone
    <2> QED
      BY <1>1, <2>1, <2>2 DEF FinalizerHolds, Stored, Advanced, Tombstone
  <1>9. Alone'
    BY <1>2, <1>7 DEF IInv, Alone
  <1> QED
    BY <1>4, <1>5, <1>6, <1>8, <1>9 DEF IInv

-----------------------------------------------------------------------------
(* Reservations *)

LEMMA ReserveInv ==
    ASSUME IInv, Reserve
    PROVE  IInv'
  <1> DEFINE r == issued + 1
  <1>1. /\ UNCHANGED <<journal, run, release, resumes>> /\ NotReleasing /\ task' = Free
        /\ entry = NoEntry /\ entry' = Reservation(r) /\ issued' = r
        /\ UNCHANGED <<clock, verifying, crashes>>
    BY DEF Reserve, NotReleasing, bounds
  <1>2. r \in Ids /\ issued \in Nat /\ r \in 0..MaxReservations
    BY IndexAssumption DEF Reserve, IInv, Types, Ids
  <1>3. Types'
    <2>1. /\ journal' = journal /\ run' = run /\ tombstones' = tombstones /\ fin' = fin /\ resumes' = resumes
          /\ expired' = expired /\ ownerDead' = ownerDead /\ verifying' = verifying /\ crashes' = crashes
      BY <1>1 DEF release, clock
    <2>2. entry' \in Entries
      BY <1>1, <1>2, EntryMember
    <2>3. 1 .. issued \subseteq 1 .. issued'
      BY <1>1, <1>2
    <2> QED
      BY <1>1, <1>2, <2>1, <2>2, <2>3 DEF IInv, Types
  <1>4. ASSUME NEW q \in Ids PROVE JournalHolds(q)'
    <2>1. JournalHolds(q) /\ journal' = journal /\ run' = run /\ q \in Nat
      BY <1>1 DEF IInv, release, Ids
    <2>2. entry \notin {Reservation(q), Published(q), Active(q)} /\ entry' # Active(q)
          /\ (entry' = Reservation(q) <=> q = r)
      BY <1>1, Kinds
    <2> HIDE DEF r
    <2>3. q > issued' => q > issued
      BY <1>1, <1>2, <2>1 DEF r
    <2>4. q = r => q <= issued' /\ journal[q].phase = "none"
      BY <1>1, <1>2, <2>1 DEF r, JournalHolds
    <2> QED
      BY <2>1, <2>2, <2>3, <2>4 DEF JournalHolds, Stored, Advanced, Preflight
  <1>5. ASSUME NEW q \in Ids, Stored(q) PROVE Released(q)
    BY <1>1, <1>5, Kinds DEF IInv, RunHolds
  <1>6. \A q \in Ids : entry' # Active(q)
    BY <1>1, Kinds
  <1>7. LockHolds'
    BY <1>1 DEF LockHolds
  <1>8. issued' >= issued
    BY <1>1, <1>2
  <1> QED
    BY <1>1, <1>3, <1>4, <1>5, <1>6, <1>7, <1>8, EntryInv

(* The entry is removed by the holder of the lock: no journal counted on it.*)
LEMMA RemovedInv ==
    ASSUME IInv, NEW r \in Ids, UNCHANGED <<journal, run, release, issued, clock, verifying, bounds>>,
           NotReleasing, task' = [step |-> "reserve", id |-> r],
           entry' = NoEntry, entry \in {Reservation(r), NoCandidate(r)},
           journal[r].phase \in {"none", "completed"}
    PROVE  IInv'
  <1>1. /\ journal' = journal /\ run' = run /\ tombstones' = tombstones /\ fin' = fin /\ resumes' = resumes
        /\ issued' = issued /\ expired' = expired /\ ownerDead' = ownerDead /\ verifying' = verifying
        /\ crashes' = crashes
    BY DEF release, clock, bounds
  <1>2. Types'
    BY <1>1 DEF IInv, Types, Entries, Steps
  <1>3. ASSUME NEW q \in Ids PROVE JournalHolds(q)'
    <2>1. JournalHolds(q) /\ entry' # Reservation(q) /\ entry' # Active(q)
      BY Kinds DEF IInv
    <2>2. q # r => entry \notin {Reservation(q), Published(q)}
      BY Kinds
    <2> QED
      BY <1>1, <2>1, <2>2 DEF JournalHolds, Stored, Advanced, Preflight
  <1>4. ASSUME NEW q \in Ids, Stored(q) PROVE Released(q)
    <2>1. JournalHolds(r) /\ JournalHolds(q) /\ RunHolds(q)
      BY DEF IInv
    <2>2. q = r => entry # Reservation(r)
      BY <1>4, <2>1 DEF JournalHolds
    <2> QED
      BY <1>4, <2>1, <2>2, Kinds DEF RunHolds
  <1>5. \A q \in Ids : entry' # Active(q)
    BY Kinds
  <1>6. LockHolds'
    BY DEF LockHolds, TaskHolds, Activation
  <1>7. issued' >= issued
    BY <1>1, IndexAssumption DEF IInv, Types
  <1> QED
    BY <1>1, <1>2, <1>3, <1>4, <1>5, <1>6, <1>7, EntryInv DEF release

LEMMA ClearStaleReservationInv ==
    ASSUME IInv, NEW r \in Ids, ClearStaleReservation(r)
    PROVE  IInv'
  BY RemovedInv DEF ClearStaleReservation, Then, NotReleasing

LEMMA RemoveMarkerInv ==
    ASSUME IInv, NEW r \in Ids, RemoveMarker(r)
    PROVE  IInv'
  <1>1. task = [step |-> "remove_marker", id |-> r] /\ LockHolds
    BY DEF RemoveMarker, IInv
  <1>2. task \in [step : Steps, id : Ids]
    BY <1>1 DEF Steps
  <1>3. task # Free
    BY <1>2, IndexAssumption
  <1>4. entry = NoCandidate(r) /\ journal[r].phase = "completed"
    BY <1>1, <1>3 DEF LockHolds, TaskHolds
  <1>5. NotReleasing
    BY <1>1 DEF NotReleasing
  <1> QED
    BY <1>4, <1>5, RemovedInv DEF RemoveMarker, Then

-----------------------------------------------------------------------------
(* Journals *)

(* A claim, and the ways it is decided.                                    *)
LEMMA PreflightInv ==
    ASSUME IInv, NEW r \in Ids, NEW phase \in Preflight, journal' = [journal EXCEPT ![r].phase = phase],
           task = Free, UNCHANGED <<entry, run, release, issued, clock, task, bounds>>,
           verifying' \subseteq verifying \cup {r}, entry = Reservation(r),
           journal[r].phase \in Preflight \cup {"none"}
    PROVE  IInv'
  <1>1. /\ entry' = entry /\ run' = run /\ tombstones' = tombstones /\ fin' = fin /\ resumes' = resumes
        /\ issued' = issued /\ expired' = expired /\ ownerDead' = ownerDead /\ task' = task
        /\ crashes' = crashes
    BY DEF release, clock, bounds
  <1>2. /\ journal \in [Ids -> [phase : Phases, outcome : Outcomes]] /\ JournalHolds(r) /\ phase \in Phases
    BY DEF IInv, Types, Phases
  <1>3. journal'[r].phase = phase /\ \A q \in Ids \ {r} : journal'[q] = journal[q]
    BY <1>2
  <1>4. r \in 1 .. issued
    BY <1>2, IndexAssumption DEF JournalHolds, IInv, Types, Ids
  <1>5. Types'
    BY <1>1, <1>2, <1>4 DEF IInv, Types
  <1>6. JournalHolds(r)'
    <2>1. ~Stored(r) /\ r <= issued /\ ~(r > issued) /\ entry # Active(r) /\ phase \notin {"none", "prepared", "completed"}
      BY <1>2, <1>4, Kinds, IndexAssumption DEF JournalHolds, Preflight, IInv, Types
    <2> QED
      BY <1>1, <1>3, <2>1 DEF JournalHolds, Stored, Advanced
  <1>7. LockHolds'
    BY <1>1 DEF LockHolds
  <1> QED
    BY <1>1, <1>3, <1>5, <1>6, <1>7, JournalInv DEF NotReleasing, release

LEMMA ClaimInv ==
    ASSUME IInv, NEW r \in Ids, Claim(r) \/ ClaimExpired(r) \/ RecordCompatibility(r) \/ CompatibilityFails(r)
    PROVE  IInv'
  <1>1. JournalHolds(r) /\ Preflight \subseteq Phases
    BY DEF IInv, Preflight, Phases
  <1>2. CASE Claim(r)
    BY <1>2, PreflightInv DEF Claim, Preflight
  <1>3. CASE ClaimExpired(r)
    BY <1>3, PreflightInv DEF ClaimExpired, Preflight
  <1>4. CASE RecordCompatibility(r)
    BY <1>1, <1>4, PreflightInv DEF RecordCompatibility, Preflight, JournalHolds
  <1>5. CASE CompatibilityFails(r)
    BY <1>1, <1>5, PreflightInv DEF CompatibilityFails, Preflight, JournalHolds
  <1> QED
    BY <1>2, <1>3, <1>4, <1>5

(* A journal is prepared, and its first write is next.                     *)
LEMMA PrepareInv ==
    ASSUME IInv, NEW r \in Ids, NEW outcome \in {"active", "human_review", "no_candidate"}, NEW step \in Steps,
           journal' = [journal EXCEPT ![r] = [phase |-> "prepared", outcome |-> outcome]],
           task = Free, Then(step, r), UNCHANGED <<entry, run, release, issued, clock, verifying, bounds>>,
           entry = Reservation(r), journal[r].phase \in Preflight \cup {"none"},
           \/ outcome = "active" /\ step = "context"
           \/ outcome = "human_review" /\ step = "initial"
           \/ outcome = "no_candidate" /\ step = "publish"
    PROVE  IInv'
  <1>1. /\ entry' = entry /\ run' = run /\ tombstones' = tombstones /\ fin' = fin /\ resumes' = resumes
        /\ issued' = issued /\ expired' = expired /\ ownerDead' = ownerDead /\ verifying' = verifying
        /\ crashes' = crashes /\ task' = [step |-> step, id |-> r]
    BY DEF release, clock, bounds, Then
  <1>2. journal \in [Ids -> [phase : Phases, outcome : Outcomes]] /\ JournalHolds(r)
    BY DEF IInv, Types
  <1>3. /\ journal'[r].phase = "prepared" /\ journal'[r].outcome = outcome
        /\ \A q \in Ids \ {r} : journal'[q] = journal[q]
    BY <1>2
  <1>4. [phase |-> "prepared", outcome |-> outcome] \in [phase : Phases, outcome : Outcomes]
    BY DEF Phases, Outcomes
  <1>5. Types'
    BY <1>1, <1>2, <1>4 DEF IInv, Types
  <1>6. JournalHolds(r)'
    <2>1. ~Stored(r) /\ r <= issued /\ ~(r > issued) /\ entry # Active(r)
      BY <1>2, Kinds, IndexAssumption DEF JournalHolds, Preflight, IInv, Types, Ids
    <2> QED
      BY <1>1, <1>3, <2>1 DEF JournalHolds, Stored, Advanced, Preflight
  <1>7. LockHolds'
    BY <1>1, <1>3 DEF LockHolds, TaskHolds, Activation
  <1> QED
    BY <1>1, <1>3, <1>5, <1>6, <1>7, JournalInv DEF NotReleasing, release

LEMMA PreparedInv ==
    ASSUME IInv, NEW r \in Ids, PrepareSelected(r) \/ PrepareHumanReview(r) \/ PrepareNoCandidate(r)
    PROVE  IInv'
  <1>1. JournalHolds(r)
    BY DEF IInv
  <1>2. CASE PrepareSelected(r)
    BY <1>1, <1>2, PrepareInv DEF PrepareSelected, Preflight, JournalHolds, Steps
  <1>3. CASE PrepareHumanReview(r)
    BY <1>1, <1>3, PrepareInv DEF PrepareHumanReview, Preflight, JournalHolds, Steps
  <1>4. CASE PrepareNoCandidate(r)
    BY <1>4, PrepareInv DEF PrepareNoCandidate, Steps
  <1> QED
    BY <1>2, <1>3, <1>4

(* Nothing changes but the holder of the lock, the clock and the claimants.*)
LEMMA LockInv ==
    ASSUME IInv, UNCHANGED <<entry, journal, run, release, issued, resumes>>, NotReleasing \/ task' = task,
           expired' \cup ownerDead' \cup verifying' \subseteq 1 .. issued, crashes' \in 0 .. MaxCrashes,
           task' \in {Free} \cup [step : Steps, id : Ids], LockHolds'
    PROVE  IInv'
  <1>1. /\ entry' = entry /\ run' = run /\ tombstones' = tombstones /\ fin' = fin /\ resumes' = resumes
        /\ issued' = issued /\ journal' = journal
    BY DEF release
  <1>2. Types'
    BY <1>1 DEF IInv, Types
  <1> DEFINE r == CHOOSE r : r \notin Ids
  <1>3. r \notin Ids
    BY NoSetContainsEverything
  <1> HIDE DEF r
  <1> QED
    BY <1>1, <1>2, <1>3, JournalInv

(* What the holder of the lock can count on.                               *)
LEMMA Holder ==
    ASSUME IInv, NEW r \in Ids, NEW step \in Steps, task = [step |-> step, id |-> r]
    PROVE  task # Free /\ TaskHolds(r, step) /\ (step # "unlink" => NotReleasing)
  <1>1. task # Free
    BY IndexAssumption
  <1> QED
    BY <1>1 DEF IInv, LockHolds, NotReleasing

LEMMA VerifiedTooLateInv ==
    ASSUME IInv, NEW r \in Ids, VerifiedTooLate(r)
    PROVE  IInv'
  <1>1. expired' \cup ownerDead' \cup verifying' \subseteq 1 .. issued
    BY DEF VerifiedTooLate, IInv, Types, clock
  <1>2. LockHolds' /\ task' = task /\ NotReleasing
    BY DEF VerifiedTooLate, LockHolds, NotReleasing
  <1> QED
    BY <1>1, <1>2, LockInv DEF VerifiedTooLate, IInv, Types, bounds

LEMMA ReplayInv ==
    ASSUME IInv, NEW r \in Ids, Replay(r)
    PROVE  IInv'
  <1>1. /\ journal[r].phase = "prepared" /\ NotReleasing /\ JournalHolds(r)
        /\ journal \in [Ids -> [phase : Phases, outcome : Outcomes]]
    BY DEF Replay, IInv, Types, NotReleasing
  <1>2. journal[r].outcome \in {"active", "human_review", "no_candidate"}
    BY <1>1 DEF JournalHolds, Outcomes
  <1>3. \/ journal[r].outcome = "active" /\ task' = [step |-> "context", id |-> r]
        \/ journal[r].outcome = "human_review" /\ task' = [step |-> "initial", id |-> r]
        \/ journal[r].outcome = "no_candidate" /\ task' = [step |-> "publish", id |-> r]
    BY <1>2 DEF Replay, Then
  <1>4. /\ entry' = entry /\ journal' = journal /\ run' = run /\ UNCHANGED <<release, issued, resumes>>
        /\ expired' = expired /\ ownerDead' = ownerDead /\ verifying' = verifying /\ crashes' = crashes
    BY DEF Replay, clock, bounds
  <1>5. LockHolds'
    BY <1>1, <1>3, <1>4 DEF LockHolds, TaskHolds, Activation
  <1>6. task' \in {Free} \cup [step : Steps, id : Ids]
    BY <1>3 DEF Steps
  <1>7. expired' \cup ownerDead' \cup verifying' \subseteq 1 .. issued /\ crashes' \in 0 .. MaxCrashes
    BY <1>4 DEF IInv, Types
  <1> QED
    BY <1>1, <1>4, <1>5, <1>6, <1>7, LockInv

(* A journal is completed when its entry is published.                     *)
LEMMA CompletedInv ==
    ASSUME IInv, NEW r \in Ids, journal' = [journal EXCEPT ![r].phase = "completed"],
           journal[r].phase \in {"prepared", "completed"}, entry \in {NoCandidate(r), Published(r)},
           UNCHANGED <<entry, run, release, issued, clock, verifying, bounds>>, NotReleasing,
           \/ task' = Free
           \/ task' = [step |-> "remove_marker", id |-> r] /\ entry = NoCandidate(r)
    PROVE  IInv'
  <1>1. /\ entry' = entry /\ run' = run /\ tombstones' = tombstones /\ fin' = fin /\ resumes' = resumes
        /\ issued' = issued /\ expired' = expired /\ ownerDead' = ownerDead /\ verifying' = verifying
        /\ crashes' = crashes
    BY DEF release, clock, bounds
  <1>2. journal \in [Ids -> [phase : Phases, outcome : Outcomes]] /\ JournalHolds(r) /\ "completed" \in Phases
    BY DEF IInv, Types, Phases
  <1>3. /\ journal'[r].phase = "completed" /\ journal'[r].outcome = journal[r].outcome
        /\ \A q \in Ids \ {r} : journal'[q] = journal[q]
    BY <1>2
  <1>4. Types'
    BY <1>1, <1>2 DEF IInv, Types, Steps
  <1>5. JournalHolds(r)'
    <2>1. entry # Reservation(r) /\ ~(r > issued)
      BY <1>2, Kinds DEF JournalHolds
    <2> QED
      BY <1>1, <1>2, <1>3, <2>1 DEF JournalHolds, Stored, Advanced, Preflight
  <1>6. LockHolds'
    BY <1>1, <1>3 DEF LockHolds, TaskHolds, Activation
  <1> QED
    BY <1>1, <1>3, <1>4, <1>5, <1>6, JournalInv DEF release

LEMMA CompleteNoCandidateJournalInv ==
    ASSUME IInv, NEW r \in Ids, CompleteNoCandidateJournal(r)
    PROVE  IInv'
  BY CompletedInv DEF CompleteNoCandidateJournal, Then, NotReleasing

LEMMA CompleteJournalInv ==
    ASSUME IInv, NEW r \in Ids, CompleteJournal(r)
    PROVE  IInv'
  <1>1. task = [step |-> "complete", id |-> r] /\ "complete" \in Steps
    BY DEF CompleteJournal, Steps
  <1>2. journal[r].phase = "prepared" /\ entry = Published(r) /\ NotReleasing
    BY <1>1, Holder DEF TaskHolds, Activation
  <1> QED
    BY <1>2, CompletedInv DEF CompleteJournal

LEMMA ActivationRefusedInv ==
    ASSUME IInv, NEW r \in Ids, ActivationRefused(r)
    PROVE  IInv'
  <1>1. NotReleasing /\ LockHolds'
    BY DEF ActivationRefused, NotReleasing, LockHolds
  <1> QED
    BY <1>1, LockInv DEF ActivationRefused, IInv, Types, clock, bounds

LEMMA ClockInv ==
    ASSUME IInv, NEW r \in Ids, Expire(r) \/ OwnerEnds(r)
    PROVE  IInv'
  <1>1. expired' \cup ownerDead' \cup verifying' \subseteq 1 .. issued
    BY DEF Expire, OwnerEnds, IInv, Types
  <1>2. UNCHANGED <<entry, journal, run, release, issued, resumes, crashes, task>>
    BY DEF Expire, OwnerEnds, bounds
  <1>3. LockHolds'
    BY <1>2 DEF IInv, LockHolds, TaskHolds, Published, Stored
  <1> QED
    BY <1>1, <1>2, <1>3, LockInv DEF IInv, Types

LEMMA CoordinatorCrashInv ==
    ASSUME IInv, CoordinatorCrash
    PROVE  IInv'
  <1>1. UNCHANGED <<entry, journal, run, release, issued, resumes, clock>>
    BY DEF CoordinatorCrash
  <1>2. crashes' \in 0 .. MaxCrashes
    BY IndexAssumption DEF CoordinatorCrash, IInv, Types
  <1>3. expired' \cup ownerDead' \cup verifying' \subseteq 1 .. issued
    BY DEF CoordinatorCrash, IInv, Types, clock
  <1>4. CASE task # Free /\ task.step # "unlink" /\ task' = Free
    <2>1. NotReleasing /\ LockHolds'
      BY <1>4 DEF NotReleasing, LockHolds
    <2> QED
      BY <1>1, <1>2, <1>3, <1>4, <2>1, LockInv
  <1>5. CASE task' = task
    <2>1. LockHolds'
      BY <1>1, <1>5 DEF IInv, LockHolds, TaskHolds, Published, Stored
    <2>2. task' \in {Free} \cup [step : Steps, id : Ids]
      BY <1>5 DEF IInv, Types
    <2> QED
      BY <1>1, <1>2, <1>3, <1>5, <2>1, <2>2, LockInv
  <1> QED
    BY <1>4, <1>5 DEF CoordinatorCrash

-----------------------------------------------------------------------------
(* The writes of an activation *)

LEMMA WriteContextInv ==
    ASSUME IInv, NEW r \in Ids, WriteContext(r)
    PROVE  IInv'
  <1> DEFINE new == [run[r] EXCEPT !.context = TRUE]
  <1>1. task = [step |-> "context", id |-> r] /\ "context" \in Steps /\ task' = [step |-> "initial", id |-> r]
    BY DEF WriteContext, Then, Steps
  <1>2. NotReleasing /\ journal[r].phase = "prepared" /\ journal[r].outcome = "active"
    BY <1>1, Holder DEF TaskHolds, Activation
  <1>3. /\ run' = [run EXCEPT ![r] = new] /\ run[r] \in RunRecord
        /\ run \in [Ids -> RunRecord]
        /\ UNCHANGED <<entry, journal, release, issued, clock, verifying, bounds>>
    BY DEF WriteContext, IInv, Types
  <1>4. /\ new \in RunRecord /\ new.disposition = run[r].disposition /\ new.initial = run[r].initial
        /\ new.marked = run[r].marked /\ new.dones = run[r].dones /\ new.bound = run[r].bound
        /\ new.context = TRUE
    BY <1>3 DEF RunRecord
  <1> HIDE DEF new
  <1>5. run'[r] = new /\ entry' = entry /\ journal' = journal /\ tombstones' = tombstones
        /\ resumes' = resumes /\ issued' = issued
    BY <1>3 DEF release, bounds
  <1>6. JournalHolds(r)' /\ RunHolds(r)'
    BY <1>4, <1>5 DEF IInv, JournalHolds, RunHolds, Stored, Advanced, Live, Released, Tombstone, Published
  <1>7. LockHolds'
    BY <1>1, <1>2, <1>4, <1>5 DEF LockHolds, TaskHolds, Activation
  <1>8. task' \in [step : Steps, id : Ids]
    BY <1>1 DEF Steps
  <1> QED
    BY <1>2, <1>3, <1>4, <1>6, <1>7, <1>8, ActivationInv

LEMMA WriteRunBindingInv ==
    ASSUME IInv, NEW r \in Ids, WriteRunBinding(r)
    PROVE  IInv'
  <1> DEFINE new == [run[r] EXCEPT !.bound = TRUE]
  <1>1. task = [step |-> "binding", id |-> r] /\ "binding" \in Steps /\ task' = [step |-> "publish", id |-> r]
    BY DEF WriteRunBinding, Then, Steps
  <1>2. /\ NotReleasing /\ journal[r].phase = "prepared" /\ TaskHolds(r, "binding")
    BY <1>1, Holder DEF TaskHolds, Activation
  <1>3. /\ run' = [run EXCEPT ![r] = new] /\ run[r] \in RunRecord
        /\ run \in [Ids -> RunRecord]
        /\ UNCHANGED <<entry, journal, release, issued, clock, verifying, bounds>>
    BY DEF WriteRunBinding, IInv, Types
  <1>4. /\ new \in RunRecord /\ new.disposition = run[r].disposition /\ new.initial = run[r].initial
        /\ new.marked = run[r].marked /\ new.dones = run[r].dones /\ new.bound = TRUE
        /\ new.context = run[r].context
    BY <1>3 DEF RunRecord
  <1> HIDE DEF new
  <1>5. run'[r] = new /\ entry' = entry /\ journal' = journal /\ tombstones' = tombstones
        /\ resumes' = resumes /\ issued' = issued
    BY <1>3 DEF release, bounds
  <1>6. JournalHolds(r)' /\ RunHolds(r)'
    BY <1>4, <1>5 DEF IInv, JournalHolds, RunHolds, Stored, Advanced, Live, Released, Tombstone, Published
  <1>7. LockHolds'
    BY <1>1, <1>2, <1>4, <1>5 DEF LockHolds, TaskHolds, Activation, Stored
  <1>8. task' \in [step : Steps, id : Ids]
    BY <1>1 DEF Steps
  <1> QED
    BY <1>2, <1>3, <1>4, <1>6, <1>7, <1>8, ActivationInv

(* A run is stored for the first time while its reservation is in the      *)
(* index; later the same state is stored again.                            *)
LEMMA PersistInitialStateInv ==
    ASSUME IInv, NEW r \in Ids, PersistInitialState(r)
    PROVE  IInv'
  <1> DEFINE disposition == IF journal[r].outcome = "active" THEN "ACTIVE" ELSE "HUMAN_REVIEW"
             new == [run[r] EXCEPT !.initial = TRUE, !.disposition = disposition]
  <1>1. task = [step |-> "initial", id |-> r] /\ "initial" \in Steps /\ task' = [step |-> "binding", id |-> r]
    BY DEF PersistInitialState, Then, Steps
  <1>2. /\ NotReleasing /\ journal[r].phase = "prepared" /\ TaskHolds(r, "initial")
    BY <1>1, Holder DEF TaskHolds, Activation
  <1>3. /\ run' = [run EXCEPT ![r] = new] /\ run[r] \in RunRecord /\ ~Advanced(r)
        /\ run \in [Ids -> RunRecord] /\ JournalHolds(r) /\ RunHolds(r)
        /\ UNCHANGED <<entry, journal, release, issued, clock, verifying, bounds>>
    BY DEF PersistInitialState, IInv, Types, Advanced
  <1>4. disposition \in {"ACTIVE", "HUMAN_REVIEW"}
    OBVIOUS
  <1> HIDE DEF disposition
  <1>5. /\ new \in RunRecord /\ new.disposition = disposition /\ new.initial
        /\ new.marked = run[r].marked /\ new.dones = run[r].dones /\ new.bound = run[r].bound
        /\ new.context = run[r].context
    BY <1>3, <1>4 DEF RunRecord, Dispositions
  <1> HIDE DEF new
  <1>6. run'[r] = new /\ entry' = entry /\ journal' = journal /\ tombstones' = tombstones
        /\ resumes' = resumes /\ issued' = issued /\ resumes \in Nat
    BY <1>3, IndexAssumption DEF release, bounds, IInv, Types
  <1>7. JournalHolds(r)'
    <2>1. journal[r].outcome # "no_candidate"
      BY <1>2 DEF TaskHolds
    <2> QED
      BY <1>2, <1>3, <1>4, <1>5, <1>6, <2>1 DEF JournalHolds, Stored, Advanced, Published
  <1>8. entry \in {Reservation(r), Active(r)}
    <2>1. journal[r].outcome \in {"active", "human_review"}
      BY <1>2 DEF TaskHolds
    <2> QED
      BY <1>2, <1>3, <2>1 DEF JournalHolds, Published
  <1>9. RunHolds(r)'
    <2>1. new.dones = 0 /\ ~new.marked
      BY <1>3, <1>5 DEF RunHolds
    <2> QED
      BY <1>4, <1>5, <1>6, <1>8, <2>1 DEF RunHolds, Stored, Advanced, Live
  <1>10. LockHolds'
    BY <1>1, <1>2, <1>4, <1>5, <1>6 DEF LockHolds, TaskHolds, Activation, Stored
  <1>11. task' \in [step : Steps, id : Ids]
    BY <1>1 DEF Steps
  <1> QED
    BY <1>2, <1>3, <1>5, <1>7, <1>9, <1>10, <1>11, ActivationInv

LEMMA PublishEntryInv ==
    ASSUME IInv, NEW r \in Ids, PublishEntry(r)
    PROVE  IInv'
  <1>1. task = [step |-> "publish", id |-> r] /\ "publish" \in Steps /\ task' = [step |-> "complete", id |-> r]
    BY DEF PublishEntry, Then, Steps
  <1>2. NotReleasing /\ journal[r].phase = "prepared" /\ TaskHolds(r, "publish")
    BY <1>1, Holder DEF TaskHolds, Activation
  <1>3. /\ journal' = journal /\ run' = run /\ tombstones' = tombstones /\ fin' = fin /\ resumes' = resumes
        /\ issued' = issued /\ expired' = expired /\ ownerDead' = ownerDead /\ verifying' = verifying
        /\ crashes' = crashes /\ entry \in {Reservation(r), Published(r)} /\ entry' = Published(r)
    BY DEF PublishEntry, release, clock, bounds
  <1>4. Types'
    BY <1>1, <1>3, EntryMember DEF IInv, Types, Steps
  <1>5. ASSUME NEW q \in Ids PROVE JournalHolds(q)'
    <2>1. JournalHolds(q)
      BY DEF IInv
    <2>2. CASE q = r
      <3>1. entry' # Reservation(r)
        BY <1>3, Kinds
      <3>2. entry' = Active(r) => journal[r].outcome # "no_candidate"
        BY <1>3, Kinds DEF Published
      <3> QED
        BY <1>2, <1>3, <2>1, <2>2, <3>1, <3>2 DEF JournalHolds, TaskHolds, Activation, Stored, Advanced, Preflight,
                                                   Published
    <2>3. CASE q # r
      <3>1. {entry, entry'} \cap {Reservation(q), Published(q), Active(q)} = {}
        BY <1>3, <2>3, Kinds
      <3> QED
        BY <1>3, <2>1, <3>1 DEF JournalHolds, Stored, Advanced, Preflight, Published
    <2> QED
      BY <2>2, <2>3
  <1>6. ASSUME NEW q \in Ids, Stored(q) PROVE entry' \in {Reservation(q), Active(q)} \/ Released(q)
    <2>1. RunHolds(q) /\ JournalHolds(q)
      BY DEF IInv
    <2>2. CASE q = r
      <3>1. CASE Published(r) = Active(r)
        BY <1>3, <2>2, <3>1
      <3>2. CASE Published(r) = NoCandidate(r) /\ entry = Published(r)
        BY <1>3, <1>6, <2>1, <2>2, <3>2, Kinds DEF RunHolds
      <3>3. CASE Published(r) = NoCandidate(r) /\ entry = Reservation(r)
        <4>1. journal[r].outcome = "no_candidate"
          BY <3>3, Kinds DEF Published
        <4> QED
          BY <1>6, <2>1, <2>2, <4>1 DEF JournalHolds
      <3> QED
        BY <1>3, <3>1, <3>2, <3>3, Kinds
    <2>3. CASE q # r
      <3>1. entry \notin {Reservation(q), Active(q)}
        BY <1>3, <2>3, Kinds
      <3> QED
        BY <1>6, <2>1, <3>1 DEF RunHolds
    <2> QED
      BY <2>2, <2>3
  <1>7. ASSUME NEW q \in Ids, entry' = Active(q) PROVE entry = Active(q) \/ ~Advanced(q)
    <2>1. q = r
      BY <1>3, <1>7, Kinds
    <2> QED
      BY <1>3, <1>7, <2>1 DEF IInv, JournalHolds
  <1>8. LockHolds'
    BY <1>1, <1>2, <1>3 DEF LockHolds, TaskHolds, Activation, Stored, Published
  <1>9. issued' >= issued
    BY <1>3, IndexAssumption DEF IInv, Types
  <1> QED
    BY <1>2, <1>3, <1>4, <1>5, <1>6, <1>7, <1>8, <1>9, EntryInv DEF release

-----------------------------------------------------------------------------
(* The run, and its finalizers *)

(* What a commit makes of a run that moves on.                             *)
LEMMA MovedShape ==
    ASSUME IInv, NEW r \in Ids, NEW d \in Dispositions
    PROVE  LET new == Moved(r, d) IN
           /\ new \in RunRecord /\ new.disposition = d /\ ~new.initial /\ new.context = run[r].context
           /\ new.bound = run[r].bound /\ new.dones = run[r].dones /\ new.marked = run[r].marked
           /\ new.dones \in Nat
  <1>1. run[r] \in RunRecord
    BY DEF IInv, Types
  <1>2. run[r].dones \in Nat
    BY <1>1, IndexAssumption DEF RunRecord
  <1> QED
    BY <1>1, <1>2 DEF Moved, RunRecord

(* A run of a disposition that is not final is not marked.                 *)
LEMMA MovedRunHolds ==
    ASSUME IInv, NEW r \in Ids, NEW d \in Dispositions \ {"none", "DONE"}, Stored(r), ~run[r].marked,
           run' = [run EXCEPT ![r] = Moved(r, d)], entry' = entry,
           tombstones' = tombstones, resumes' \in Nat, resumes' >= resumes,
           d = "ACTIVE" => run[r].disposition = "ACTIVE" \/ resumes' = resumes + 1
    PROVE  RunHolds(r)'
  <1>1. /\ run'[r] = Moved(r, d) /\ RunHolds(r) /\ resumes \in Nat
    BY IndexAssumption DEF IInv, Types
  <1>2. /\ run'[r].disposition = d /\ ~run'[r].initial /\ run'[r].dones = run[r].dones
        /\ run'[r].marked = run[r].marked /\ run[r].dones \in Nat
    BY <1>1, MovedShape
  <1>3. run'[r].dones <= IF run'[r].disposition = "ACTIVE" THEN resumes' ELSE resumes' + 1
    BY <1>1, <1>2 DEF RunHolds
  <1>4. Stored(r) => entry \in {Reservation(r), Active(r)} \/ Released(r)
    BY <1>1 DEF RunHolds
  <1> QED
    BY <1>1, <1>2, <1>3, <1>4 DEF RunHolds, Stored, Advanced, Released

LEMMA WorkInv ==
    ASSUME IInv, NEW r \in Ids, Work(r) \/ Authorize(r)
    PROVE  IInv'
  <1> PICK d \in {"ACTIVE", "HUMAN_REVIEW", "ABANDONED"} :
          /\ Commit(r, Moved(r, d))
          /\ d = "ACTIVE" => run[r].disposition = "ACTIVE" \/ resumes' = resumes + 1
    BY DEF Work, Authorize
  <1>1. /\ run[r].disposition \in {"ACTIVE", "HUMAN_REVIEW"} /\ Known(r) /\ Stored(r)
        /\ UNCHANGED <<entry, journal, tombstones, issued, clock, verifying, task, crashes>>
    BY DEF Work, Authorize, Stored, bounds
  <1>2. resumes' \in 0..MaxResumes /\ resumes' >= resumes /\ resumes' \in Nat
    BY IndexAssumption DEF Work, Authorize, IInv, Types, bounds
  <1>3. run' = [run EXCEPT ![r] = Moved(r, d)] /\ ~run[r].marked /\ RunHolds(r)
    BY <1>1 DEF Commit, IInv, RunHolds
  <1>4. RunHolds(r)'
    BY <1>1, <1>2, <1>3, MovedRunHolds DEF Dispositions
  <1> DEFINE new == Moved(r, d)
  <1>5. /\ new \in RunRecord /\ new.disposition = d /\ ~new.initial /\ new.context = run[r].context
        /\ new.bound = run[r].bound /\ new.dones >= run[r].dones
    BY MovedShape DEF Dispositions
  <1>6. fin' = [f \in Finalizers |-> IF fin[f].id = r THEN [fin[f] EXCEPT !.fresh = FALSE] ELSE fin[f]]
        /\ fin \in [Finalizers -> Finalizer]
    BY DEF Commit, IInv, Types
  <1>7. fin' \in [Finalizers -> Finalizer]
    BY <1>6 DEF Finalizer
  <1>8. \A f \in Finalizers : \/ fin[f].id # r /\ fin'[f] = fin[f]
                              \/ fin[f].id = r /\ fin'[f] = [fin[f] EXCEPT !.fresh = FALSE]
    BY <1>6
  <1>9. task # [step |-> "unlink", id |-> r]
    <2>1. [step |-> "unlink", id |-> r] \in [step : Steps, id : Ids]
      BY DEF Steps
    <2> QED
      BY <2>1, IndexAssumption DEF Commit
  <1> HIDE DEF new
  <1>10. run' = [run EXCEPT ![r] = new] /\ new.disposition # "none"
    BY <1>3, <1>5 DEF new
  <1> QED
    BY <1>1, <1>2, <1>4, <1>5, <1>7, <1>8, <1>9, <1>10, CommitInv

(* A refused commit ends the finalizer; so does a crash.                   *)
LEMMA IdleInv ==
    ASSUME IInv, NEW f \in Finalizers, fin' = [fin EXCEPT ![f] = IdleFinalizer],
           UNCHANGED <<entry, journal, run, tombstones, issued, clock, verifying, resumes>>,
           crashes' \in 0..MaxCrashes, task' = task \/ (task' = Free /\ fin[f].pc = "unlink")
    PROVE  IInv'
  <1>1. 0 \in 0 .. MaxReservations
    BY IndexAssumption
  <1>2. IdleFinalizer \in Finalizer /\ IdleFinalizer.pc = "idle"
    BY <1>1 DEF IdleFinalizer, Finalizer
  <1>3. fin'[f] = IdleFinalizer
    BY DEF IInv, Types
  <1>4. FinalizerHolds(f)'
    BY <1>2, <1>3 DEF FinalizerHolds
  <1>5. tombstones' \in SUBSET (Ids \X (1 .. MaxResumes + 1)) /\ tombstones \subseteq tombstones'
    BY DEF IInv, Types
  <1> QED
    BY <1>2, <1>4, <1>5, FinalizerInv

LEMMA FinalizerCrashInv ==
    ASSUME IInv, NEW f \in Finalizers, FinalizerCrash(f)
    PROVE  IInv'
  <1>1. crashes' \in 0..MaxCrashes
    BY IndexAssumption DEF FinalizerCrash, IInv, Types
  <1> QED
    BY <1>1, IdleInv DEF FinalizerCrash

(* A finalizer's own commit, when its generation is current.               *)
LEMMA CommitOwnInv ==
    ASSUME IInv, NEW f \in Finalizers, NEW r, r = fin[f].id, NEW new, NEW pc \in {"idle", "release"},
           CommitOwn(f, new, pc), fin[f].pc # "idle",
           UNCHANGED <<entry, journal, tombstones, issued, clock, verifying, task, bounds>>,
           fin[f].fresh => /\ new \in RunRecord
                           /\ new.context = run[r].context /\ new.bound = run[r].bound
                           /\ ~new.initial /\ new.disposition # "none" /\ new.dones >= run[r].dones
                           /\ RunHolds(r)'
                           /\ pc = "release" => new.disposition = "DONE" /\ ~new.marked
    PROVE  IInv'
  <1>1. fin[f] \in Finalizer /\ r \in Ids /\ FinalizerHolds(f) /\ fin \in [Finalizers -> Finalizer]
    BY DEF IInv, Types, FinalizerHolds
  <1>2. CASE fin[f].fresh
    <2>1. /\ run' = [run EXCEPT ![r] = new] /\ (task # Free => task # [step |-> "unlink", id |-> r])
          /\ fin' = [g \in Finalizers |->
                        IF g = f THEN IF pc = "idle" THEN IdleFinalizer ELSE [fin[f] EXCEPT !.pc = pc]
                        ELSE IF fin[g].id = r THEN [fin[g] EXCEPT !.fresh = FALSE]
                        ELSE fin[g]]
      BY <1>2 DEF CommitOwn
    <2>2. Stored(r) /\ Known(r)
      BY <1>1, <1>2 DEF FinalizerHolds, Advanced, Known
    <2>3. 0 \in 0 .. MaxReservations
      BY IndexAssumption
    <2>4. IdleFinalizer \in Finalizer /\ IdleFinalizer.pc = "idle"
      BY <2>3 DEF IdleFinalizer, Finalizer
    <2>5. pc = "release" => [fin[f] EXCEPT !.pc = pc] \in Finalizer
      BY <1>1 DEF Finalizer
    <2>6. fin' \in [Finalizers -> Finalizer]
      <3>1. ASSUME NEW g \in Finalizers PROVE [fin[g] EXCEPT !.fresh = FALSE] \in Finalizer
        BY <1>1 DEF Finalizer
      <3> QED
        BY <1>1, <2>1, <2>4, <2>5, <3>1
    <2>7. FinalizerHolds(f)' /\ fin'[f].pc # "unlink"
      <3>1. CASE pc = "idle"
        <4>1. fin'[f] = IdleFinalizer
          BY <2>1, <3>1
        <4> QED
          BY <2>4, <4>1 DEF FinalizerHolds
      <3>2. CASE pc = "release"
        <4>1. fin'[f].pc = "release" /\ fin'[f].id = r
          BY <1>1, <2>1, <3>2 DEF Finalizer
        <4>2. run'[r] = new
          BY <1>1, <2>1 DEF IInv, Types
        <4> QED
          BY <1>1, <1>2, <3>2, <4>1, <4>2 DEF FinalizerHolds, Stored, Advanced
      <3> QED
        BY <3>1, <3>2
    <2>8. \A g \in Finalizers : \/ fin[g].id # r /\ fin'[g] = fin[g]
                                \/ fin[g].id = r /\ fin'[g] = [fin[g] EXCEPT !.fresh = FALSE]
                                \/ fin'[g].pc # "unlink" /\ FinalizerHolds(g)'
      BY <2>1, <2>7
    <2>9. task # [step |-> "unlink", id |-> r]
      <3>1. [step |-> "unlink", id |-> r] \in [step : Steps, id : Ids]
        BY <1>1 DEF Steps
      <3> QED
        BY <2>1, <3>1, IndexAssumption
    <2>10. /\ resumes' \in 0..MaxResumes /\ resumes' >= resumes
           /\ UNCHANGED <<entry, journal, tombstones, issued, clock, verifying, task, crashes>>
      BY IndexAssumption DEF bounds, IInv, Types
    <2>11. /\ new \in RunRecord /\ new.context = run[r].context /\ new.bound = run[r].bound
           /\ ~new.initial /\ new.disposition # "none" /\ new.dones >= run[r].dones /\ RunHolds(r)'
      BY <1>2
    <2>12. run' = [run EXCEPT ![r] = new] /\ r \in Ids
      BY <1>1, <2>1
    <2> QED
      BY <2>2, <2>6, <2>8, <2>9, <2>10, <2>11, <2>12, CommitInv
  <1>3. CASE ~fin[f].fresh
    BY <1>3, IdleInv DEF CommitOwn, bounds, IInv, Types
  <1> QED
    BY <1>2, <1>3

LEMMA CommitDoneInv ==
    ASSUME IInv, NEW f \in Finalizers, CommitDone(f)
    PROVE  IInv'
  <1>1. /\ fin[f].pc = "done" /\ FinalizerHolds(f)
        /\ UNCHANGED <<entry, journal, tombstones, issued, clock, verifying, task, bounds>>
    BY DEF CommitDone, bounds, IInv
  <1> PICK r \in Ids : r = fin[f].id
    BY <1>1 DEF FinalizerHolds
  <1> DEFINE new == [Moved(r, "DONE") EXCEPT !.dones = @ + 1]
  <1>2. CommitOwn(f, new, "release")
    BY DEF CommitDone
  <1>3. ASSUME fin[f].fresh
        PROVE  /\ new \in RunRecord /\ new.disposition = "DONE" /\ ~new.initial /\ new.context = run[r].context
               /\ new.bound = run[r].bound /\ new.dones = run[r].dones + 1 /\ ~new.marked
               /\ new.dones >= run[r].dones /\ RunHolds(r)'
    <2>1. /\ run[r].disposition = "ACTIVE" /\ ~run[r].marked /\ RunHolds(r) /\ run[r].dones \in Nat
          /\ resumes \in 0..MaxResumes /\ run \in [Ids -> RunRecord]
      BY <1>1, <1>3, IndexAssumption DEF FinalizerHolds, IInv, Types, RunRecord
    <2>2. run[r].dones <= resumes /\ run[r].dones + 1 \in 0 .. MaxResumes + 1
      BY <2>1, IndexAssumption DEF RunHolds
    <2>3. /\ new \in RunRecord /\ new.disposition = "DONE" /\ ~new.initial /\ new.context = run[r].context
          /\ new.bound = run[r].bound /\ new.dones = run[r].dones + 1 /\ ~new.marked
      BY <2>1, <2>2 DEF Moved, RunRecord, Dispositions
    <2> HIDE DEF new
    <2>4. run'[r] = new /\ entry' = entry /\ tombstones' = tombstones /\ resumes' = resumes
      BY <1>1, <1>2, <1>3, <2>1 DEF CommitOwn, bounds
    <2>5. Stored(r) => entry \in {Reservation(r), Active(r)} \/ Released(r)
      BY <2>1 DEF RunHolds
    <2>6. Stored(r) => entry' \in {Reservation(r), Active(r)} \/ Released(r)'
      BY <2>1, <2>3, <2>4, <2>5 DEF Released
    <2>7. Stored(r)
      BY <2>1 DEF Stored
    <2>8. RunHolds(r)'
      BY <2>1, <2>2, <2>3, <2>4, <2>6, <2>7, IndexAssumption DEF RunHolds, Stored, Advanced
    <2> QED
      BY <2>1, <2>3, <2>8
  <1> HIDE DEF new
  <1> QED
    BY <1>1, <1>2, <1>3, CommitOwnInv

LEMMA MarkReleasedInv ==
    ASSUME IInv, NEW f \in Finalizers, MarkReleased(f)
    PROVE  IInv'
  <1>1. /\ fin[f].pc = "mark" /\ FinalizerHolds(f)
        /\ UNCHANGED <<entry, journal, tombstones, issued, clock, verifying, task, bounds>>
    BY DEF MarkReleased, bounds, IInv
  <1> PICK r \in Ids : r = fin[f].id
    BY <1>1 DEF FinalizerHolds
  <1> DEFINE new == [run[r] EXCEPT !.marked = TRUE]
  <1>2. CommitOwn(f, new, "idle")
    BY DEF MarkReleased
  <1>3. ASSUME fin[f].fresh
        PROVE  /\ new \in RunRecord /\ new.disposition # "none" /\ ~new.initial /\ new.context = run[r].context
               /\ new.bound = run[r].bound /\ new.dones >= run[r].dones /\ RunHolds(r)'
    <2>1. /\ run[r].disposition = "DONE" /\ Advanced(r) /\ RunHolds(r) /\ run[r].dones \in Nat
          /\ Tombstone(r) \in tombstones /\ entry # Active(r)
          /\ run \in [Ids -> RunRecord]
      BY <1>1, <1>3, IndexAssumption DEF FinalizerHolds, IInv, Types, RunRecord
    <2>2. /\ new \in RunRecord /\ new.disposition = "DONE" /\ ~new.initial /\ new.context = run[r].context
          /\ new.bound = run[r].bound /\ new.dones = run[r].dones /\ new.marked
      BY <2>1 DEF RunRecord, Advanced
    <2> HIDE DEF new
    <2>3. run'[r] = new /\ entry' = entry /\ tombstones' = tombstones /\ resumes' = resumes
      BY <1>1, <1>2, <1>3, <2>1 DEF CommitOwn, bounds
    <2>4. RunHolds(r)'
      BY <2>1, <2>2, <2>3 DEF RunHolds, Stored, Advanced, Released, Tombstone
    <2> QED
      BY <2>1, <2>2, <2>4
  <1> HIDE DEF new
  <1> QED
    BY <1>1, <1>2, <1>3, CommitOwnInv

LEMMA EscalateInv ==
    ASSUME IInv, NEW f \in Finalizers, Escalate(f)
    PROVE  IInv'
  <1>1. /\ fin[f].pc = "escalate" /\ FinalizerHolds(f)
        /\ UNCHANGED <<entry, journal, tombstones, issued, clock, verifying, task, bounds>>
    BY DEF Escalate, bounds, IInv
  <1> PICK r \in Ids : r = fin[f].id
    BY <1>1 DEF FinalizerHolds
  <1> DEFINE new == Moved(r, "HUMAN_REVIEW")
  <1>2. CommitOwn(f, new, "idle") /\ "HUMAN_REVIEW" \in Dispositions \ {"none", "DONE"}
    BY DEF Escalate, Dispositions
  <1>3. ASSUME fin[f].fresh
        PROVE  /\ new \in RunRecord /\ new.disposition # "none" /\ ~new.initial /\ new.context = run[r].context
               /\ new.bound = run[r].bound /\ new.dones >= run[r].dones /\ RunHolds(r)'
    <2>1. Stored(r) /\ ~run[r].marked
      BY <1>1, <1>3 DEF FinalizerHolds, Advanced
    <2>2. run' = [run EXCEPT ![r] = Moved(r, "HUMAN_REVIEW")]
      BY <1>2, <1>3 DEF CommitOwn
    <2>3. entry' = entry /\ tombstones' = tombstones /\ resumes' \in Nat /\ resumes' >= resumes
      BY <1>1, IndexAssumption DEF bounds, IInv, Types
    <2>4. RunHolds(r)'
      BY <1>2, <2>1, <2>2, <2>3, MovedRunHolds
    <2>5. /\ new \in RunRecord /\ new.disposition = "HUMAN_REVIEW" /\ ~new.initial
          /\ new.context = run[r].context /\ new.bound = run[r].bound /\ new.dones >= run[r].dones
      BY <1>2, MovedShape
    <2> QED
      BY <2>4, <2>5
  <1> HIDE DEF new
  <1> QED
    BY <1>1, <1>2, <1>3, CommitOwnInv

(* A finalizer goes from one place to another, and knows there what it      *)
(* knew.                                                                   *)
LEMMA GotoInv ==
    ASSUME IInv, NEW f \in Finalizers, fin[f].pc # "idle",
           NEW pc \in {"done", "escalate", "verify", "mark"}, Goto(f, pc),
           UNCHANGED <<entry, journal, run, tombstones, issued, clock, verifying, task, bounds>>,
           pc = "done" => fin[f].pc = "bind",
           pc = "verify" => fin[f].pc = "release",
           pc = "mark" => fin[f].pc = "verify" /\ Tombstone(fin[f].id) \in tombstones /\ entry = NoEntry
    PROVE  IInv'
  <1> DEFINE c == [fin[f] EXCEPT !.pc = pc]
  <1>1. /\ fin \in [Finalizers -> Finalizer] /\ fin[f] \in Finalizer /\ FinalizerHolds(f)
    BY DEF IInv, Types
  <1>2. fin' = [fin EXCEPT ![f] = c]
    BY <1>1 DEF Goto
  <1>3. c \in Finalizer /\ c.pc = pc /\ c.id = fin[f].id /\ c.fresh = fin[f].fresh
    BY <1>1 DEF Finalizer
  <1> HIDE DEF c
  <1>4. fin'[f] = c /\ entry' = entry /\ run' = run /\ tombstones' = tombstones /\ task' = task
    BY <1>1, <1>2
  <1>5. FinalizerHolds(f)'
    <2>1. pc = "mark" => entry # Active(fin[f].id)
      BY Kinds
    <2> QED
      BY <1>1, <1>3, <1>4, <2>1 DEF FinalizerHolds, Stored, Advanced, Tombstone
  <1>6. /\ tombstones' \in SUBSET (Ids \X (1 .. MaxResumes + 1)) /\ tombstones \subseteq tombstones'
        /\ crashes' \in 0..MaxCrashes
        /\ UNCHANGED <<entry, journal, run, issued, clock, verifying, resumes>>
    BY DEF IInv, Types, bounds
  <1> QED
    BY <1>2, <1>3, <1>4, <1>5, <1>6, FinalizerInv

LEMMA LoadRunInv ==
    ASSUME IInv, NEW f \in Finalizers, NEW r \in Ids, LoadRun(f, r)
    PROVE  IInv'
  <1>1. /\ JournalHolds(r) /\ RunHolds(r) /\ entry = Active(r)
        /\ UNCHANGED <<entry, journal, run, tombstones, issued, clock, verifying, task, bounds>>
    BY DEF LoadRun, IInv, bounds
  <1> PICK c \in {[pc |-> "bind", id |-> r, fresh |-> TRUE], [pc |-> "release", id |-> r, fresh |-> TRUE]} :
          /\ fin' = [fin EXCEPT ![f] = c]
          /\ c.pc = "bind" => run[r].disposition = "ACTIVE" /\ ~run[r].initial
          /\ c.pc = "release" => run[r].disposition = "DONE" /\ ~run[r].marked
    BY DEF LoadRun
  <1>2. Advanced(r) /\ ~run[r].marked
    BY <1>1 DEF Advanced, Stored, RunHolds, Live
  <1>3. r \in 0 .. MaxReservations
    BY IndexAssumption DEF Ids
  <1>4. c \in Finalizer
    <2>1. CASE c = [pc |-> "bind", id |-> r, fresh |-> TRUE]
      BY <1>3, <2>1 DEF Finalizer
    <2>2. CASE c = [pc |-> "release", id |-> r, fresh |-> TRUE]
      BY <1>3, <2>2 DEF Finalizer
    <2> QED
      BY <2>1, <2>2
  <1>5. fin'[f] = c /\ entry' = entry /\ run' = run /\ tombstones' = tombstones /\ task' = task
    BY <1>1 DEF IInv, Types
  <1>6. FinalizerHolds(f)'
    BY <1>2, <1>5 DEF FinalizerHolds, Stored, Advanced
  <1>7. /\ tombstones' \in SUBSET (Ids \X (1 .. MaxResumes + 1)) /\ tombstones \subseteq tombstones'
        /\ crashes' \in 0..MaxCrashes
        /\ UNCHANGED <<entry, journal, run, issued, clock, verifying, resumes>>
    BY <1>1 DEF IInv, Types, bounds
  <1> QED
    BY <1>4, <1>5, <1>6, <1>7, FinalizerInv

LEMMA WriteTombstoneInv ==
    ASSUME IInv, NEW f \in Finalizers, WriteTombstone(f)
    PROVE  IInv'
  <1> DEFINE c == [fin[f] EXCEPT !.pc = "unlink"]
  <1>1. /\ fin \in [Finalizers -> Finalizer] /\ fin[f] \in Finalizer /\ FinalizerHolds(f)
        /\ fin[f].pc = "release" /\ fin[f].fresh /\ entry = Active(fin[f].id) /\ task = Free
        /\ tombstones' = tombstones \cup {Tombstone(fin[f].id)}
        /\ task' = [step |-> "unlink", id |-> fin[f].id]
        /\ UNCHANGED <<entry, journal, run, issued, clock, verifying, resumes, crashes>>
    BY DEF IInv, Types, WriteTombstone, Then, bounds
  <1>2. fin' = [fin EXCEPT ![f] = c]
    BY DEF WriteTombstone, Goto
  <1>3. c \in Finalizer /\ c.pc = "unlink" /\ c.id = fin[f].id /\ c.fresh
    BY <1>1 DEF Finalizer
  <1> HIDE DEF c
  <1>4. fin'[f] = c /\ entry' = entry /\ run' = run
    BY <1>1, <1>2
  <1>5. fin[f].id \in Ids /\ run[fin[f].id].disposition = "DONE"
    BY <1>1 DEF FinalizerHolds
  <1>6. Tombstone(fin[f].id) \in Ids \X (1 .. MaxResumes + 1)
    <2>1. run[fin[f].id] \in RunRecord /\ run[fin[f].id].dones # 0
      BY <1>5 DEF IInv, Types, RunHolds
    <2>2. run[fin[f].id].dones \in 1 .. MaxResumes + 1
      BY <2>1, IndexAssumption DEF RunRecord
    <2> QED
      BY <1>5, <2>2 DEF Tombstone
  <1>7. FinalizerHolds(f)'
    BY <1>1, <1>3, <1>4, <1>5 DEF FinalizerHolds, Stored, Advanced, Tombstone
  <1>8. /\ tombstones' \in SUBSET (Ids \X (1 .. MaxResumes + 1)) /\ tombstones \subseteq tombstones'
        /\ crashes' \in 0..MaxCrashes
    BY <1>1, <1>6 DEF IInv, Types
  <1> QED
    BY <1>1, <1>2, <1>3, <1>5, <1>7, <1>8, FinalizerInv

(* The entry of a run that is DONE goes, after its receipt was written.    *)
LEMMA RemoveEntryInv ==
    ASSUME IInv, NEW f \in Finalizers, RemoveEntry(f)
    PROVE  IInv'
  <1> DEFINE r == fin[f].id
             c == [fin[f] EXCEPT !.pc = "verify"]
  <1>1. /\ fin[f].pc = "unlink" /\ entry' = NoEntry /\ task' = Free /\ fin' = [fin EXCEPT ![f] = c]
        /\ journal' = journal /\ run' = run /\ tombstones' = tombstones /\ issued' = issued
        /\ expired' = expired /\ ownerDead' = ownerDead /\ verifying' = verifying
        /\ resumes' = resumes /\ crashes' = crashes
    BY DEF RemoveEntry, Goto, clock, bounds
  <1>2. /\ fin \in [Finalizers -> Finalizer] /\ fin[f] \in Finalizer /\ FinalizerHolds(f)
    BY DEF IInv, Types
  <1>3. c \in Finalizer /\ c.pc = "verify" /\ c.id = fin[f].id /\ c.fresh = fin[f].fresh
    BY <1>2 DEF Finalizer
  <1> HIDE DEF c
  <1>4. fin'[f] = c /\ \A g \in Finalizers \ {f} : fin'[g] = fin[g]
    BY <1>1, <1>2
  <1>5. /\ r \in Ids /\ Advanced(r) /\ run[r].disposition = "DONE" /\ entry = Active(r)
        /\ Tombstone(r) \in tombstones
    BY <1>1, <1>2 DEF FinalizerHolds
  <1>6. Types'
    BY <1>1, <1>2, <1>3 DEF IInv, Types, Entries
  <1>7. ASSUME NEW q \in Ids PROVE JournalHolds(q)'
    <2>1. JournalHolds(q) /\ entry' # Reservation(q) /\ entry' # Active(q)
      BY <1>1, Kinds DEF IInv
    <2>2. entry # Reservation(q) /\ (entry = Published(q) => q = r)
      BY <1>5, Kinds
    <2> QED
      BY <1>1, <1>5, <2>1, <2>2 DEF JournalHolds, Stored, Advanced, Preflight
  <1>8. ASSUME NEW q \in Ids PROVE RunHolds(q)'
    <2>1. RunHolds(q) /\ entry' # Active(q)
      BY <1>1, Kinds DEF IInv
    <2>2. Stored(q) => Released(q)
      <3>1. CASE q = r
        <4>1. run[r].dones \in Nat /\ run[r].dones # 0
          BY <1>5, <2>1, <3>1, IndexAssumption DEF RunHolds, IInv, Types, RunRecord
        <4> QED
          BY <1>5, <3>1, <4>1 DEF Released, Tombstone
      <3>2. CASE q # r
        BY <1>5, <2>1, <3>2, Kinds DEF RunHolds
      <3> QED
        BY <3>1, <3>2
    <2> QED
      BY <1>1, <2>1, <2>2 DEF RunHolds, Stored, Advanced, Released, Tombstone, Live
  <1>9. ASSUME NEW g \in Finalizers PROVE FinalizerHolds(g)'
    <2>1. CASE g = f
      BY <1>1, <1>2, <1>3, <1>4, <2>1 DEF FinalizerHolds, Stored, Advanced
    <2>2. CASE g # f
      <3>1. fin'[g] = fin[g] /\ FinalizerHolds(g) /\ fin[g].pc # "unlink"
        BY <1>1, <1>4, <2>2 DEF IInv, Alone
      <3>2. entry' # Active(fin[g].id)
        BY <1>1, Kinds
      <3> QED
        BY <1>1, <3>1, <3>2 DEF FinalizerHolds, Stored, Advanced, Tombstone
    <2> QED
      BY <2>1, <2>2
  <1>10. Alone' /\ LockHolds'
    BY <1>1, <1>3, <1>4 DEF IInv, Alone, LockHolds
  <1> QED
    BY <1>6, <1>7, <1>8, <1>9, <1>10 DEF IInv

LEMMA FinalizeInv ==
    ASSUME IInv, NEW f \in Finalizers, Finalize(f)
    PROVE  IInv'
  <1>1. CASE BindRelease(f)
    BY <1>1, GotoInv DEF BindRelease, bounds
  <1>2. CASE ReleaseFails(f)
    BY <1>2, GotoInv DEF ReleaseFails, bounds
  <1>3. CASE ReleaseElsewhere(f)
    BY <1>3, GotoInv DEF ReleaseElsewhere, bounds
  <1>4. CASE VerifyRelease(f)
    BY <1>4, GotoInv DEF VerifyRelease, bounds
  <1> QED
    BY <1>1, <1>2, <1>3, <1>4, CommitDoneInv, MarkReleasedInv, EscalateInv, WriteTombstoneInv, RemoveEntryInv
       DEF Finalize

-----------------------------------------------------------------------------
(* The specification *)

LEMMA StepInv == IInv /\ [Next]_vars => IInv'
  <1> SUFFICES ASSUME IInv, [Next]_vars PROVE IInv'
    OBVIOUS
  <1>1. ASSUME NEW r \in Ids, Probe(r) \/ Select(r) \/ Activate(r) PROVE IInv'
    BY <1>1, ClearStaleReservationInv, CompleteNoCandidateJournalInv, RemoveMarkerInv, ClaimInv,
       VerifiedTooLateInv, PreparedInv, ReplayInv, WriteContextInv, PersistInitialStateInv,
       WriteRunBindingInv, PublishEntryInv, CompleteJournalInv, ActivationRefusedInv
       DEF Probe, Select, Activate
  <1>2. CASE UNCHANGED vars
    <2>1. /\ UNCHANGED <<entry, journal, run, release, issued, resumes>> /\ task' = task
          /\ expired' = expired /\ ownerDead' = ownerDead /\ verifying' = verifying /\ crashes' = crashes
      BY <1>2 DEF vars, release
    <2>2. LockHolds'
      BY <2>1 DEF IInv, LockHolds, TaskHolds, Published, Stored
    <2> QED
      BY <2>1, <2>2, LockInv DEF IInv, Types
  <1> QED
    BY <1>1, <1>2, ReserveInv, CoordinatorCrashInv, WorkInv, ClockInv, LoadRunInv, FinalizeInv,
       FinalizerCrashInv DEF Next

LEMMA Inductive == Spec => []IInv
  BY InitInv, StepInv, PTL DEF Spec

(* The entry stands for its activation and for what is stored of its run,   *)
(* at every step of the journal, whoever dies (run_index.py,                *)
(* _complete_prepared_activation_locked).                                   *)
THEOREM EntryIsSound == Spec => []EntryHolds
  <1>1. ASSUME IInv PROVE EntryHolds
    <2>1. TypeOK
      <3>1. Types /\ \A f \in Finalizers : FinalizerHolds(f)
        BY <1>1 DEF IInv
      <3> QED
        BY <3>1 DEF TypeOK, Types, RunRecord, FinalizerHolds
    <2>2. ActivationOwnsEntry
      BY <1>1 DEF IInv, ActivationOwnsEntry, JournalHolds, Advanced
    <2>3. PublishedIsDurable
      BY <1>1 DEF IInv, PublishedIsDurable, JournalHolds
    <2> QED
      BY <2>1, <2>2, <2>3 DEF EntryHolds
  <1> QED
    BY <1>1, Inductive, PTL

(* One run at a time: of the runs stored and not over at most one was not   *)
(* released, and a mark is proof of the release of the run's last           *)
(* generation (run_index.py, release and verify_release).                   *)
THEOREM ReleasesAreExact == Spec => []ReleasesHold
  <1>1. ASSUME IInv PROVE ReleasesHold
    <2>1. ASSUME NEW r \in Ids, Live(r), ~\E n \in 1 .. run[r].dones : <<r, n>> \in tombstones
          PROVE  entry \in {Reservation(r), Active(r)}
      <3>1. RunHolds(r) /\ Stored(r)
        BY <1>1, <2>1 DEF IInv, Live, Stored
      <3> QED
        BY <2>1, <3>1 DEF RunHolds, Released
    <2>2. OneUnreleasedRun
      BY <2>1, Kinds DEF OneUnreleasedRun
    <2>3. MarkedIsReleased
      BY <1>1 DEF IInv, MarkedIsReleased, RunHolds
    <2> QED
      BY <2>2, <2>3 DEF ReleasesHold
  <1> QED
    BY <1>1, Inductive, PTL

(* The index lets go only of a run that is DONE and whose receipt is        *)
(* written, however long before the finalizer committed its DONE.           *)
THEOREM IndexKeepsItsRun == Spec => EntryOutlivesRun
  <1>1. ASSUME IInv, [Next]_vars, NEW r \in Ids, entry = Active(r), entry' # Active(r)
        PROVE  run[r].disposition = "DONE" /\ Tombstone(r) \in tombstones
    <2>1. CASE \E f \in Finalizers : RemoveEntry(f)
      <3> PICK f \in Finalizers : RemoveEntry(f)
        BY <2>1
      <3>1. FinalizerHolds(f) /\ fin[f].pc = "unlink"
        BY <1>1 DEF IInv, RemoveEntry
      <3>2. fin[f].id = r
        BY <1>1, <3>1, Kinds DEF FinalizerHolds
      <3> QED
        BY <3>1, <3>2 DEF FinalizerHolds
    <2>2. CASE \E q \in Ids : ClearStaleReservation(q) \/ RemoveMarker(q) \/ PublishEntry(q)
      <3> PICK q \in Ids : ClearStaleReservation(q) \/ RemoveMarker(q) \/ PublishEntry(q)
        BY <2>2
      <3>1. ~ClearStaleReservation(q)
        BY <1>1, Kinds DEF ClearStaleReservation
      <3>2. ~PublishEntry(q)
        BY <1>1, Kinds DEF PublishEntry
      <3>3. ~RemoveMarker(q)
        <4> SUFFICES ASSUME RemoveMarker(q) PROVE FALSE
          OBVIOUS
        <4>1. TaskHolds(q, "remove_marker")
          BY <1>1, Holder DEF RemoveMarker, Steps
        <4> QED
          BY <1>1, <4>1, Kinds DEF TaskHolds
      <3> QED
        BY <3>1, <3>2, <3>3
    <2>3. CASE Reserve
      BY <1>1, <2>3, Kinds DEF Reserve
    <2>4. CASE UNCHANGED entry
      BY <1>1, <2>4
    <2>5. ASSUME Next PROVE \/ \E f \in Finalizers : RemoveEntry(f)
                            \/ \E q \in Ids : ClearStaleReservation(q) \/ RemoveMarker(q) \/ PublishEntry(q)
                            \/ Reserve \/ UNCHANGED entry
      <3>1. ASSUME NEW q \in Ids, Probe(q) \/ Select(q)
            PROVE  ClearStaleReservation(q) \/ RemoveMarker(q) \/ UNCHANGED entry
        BY <3>1 DEF Probe, Select, CompleteNoCandidateJournal, Claim, ClaimExpired, RecordCompatibility,
                    CompatibilityFails, VerifiedTooLate, PrepareNoCandidate
      <3>2. ASSUME NEW q \in Ids, Activate(q) PROVE PublishEntry(q) \/ UNCHANGED entry
        BY <3>2 DEF Activate, PrepareSelected, PrepareHumanReview, Replay, WriteContext, PersistInitialState,
                    WriteRunBinding, CompleteJournal, ActivationRefused
      <3>3. ASSUME NEW q \in Ids, Work(q) \/ Authorize(q) \/ Expire(q) \/ OwnerEnds(q) PROVE UNCHANGED entry
        BY <3>3 DEF Work, Authorize, Expire, OwnerEnds
      <3>4. ASSUME NEW f \in Finalizers, Finalize(f) PROVE RemoveEntry(f) \/ UNCHANGED entry
        BY <3>4 DEF Finalize, BindRelease, CommitDone, WriteTombstone, ReleaseFails, ReleaseElsewhere,
                    VerifyRelease, MarkReleased, Escalate
      <3>5. ASSUME NEW f \in Finalizers, (\E q \in Ids : LoadRun(f, q)) \/ FinalizerCrash(f) PROVE UNCHANGED entry
        BY <3>5 DEF LoadRun, FinalizerCrash
      <3>6. CoordinatorCrash => UNCHANGED entry
        BY DEF CoordinatorCrash
      <3> QED
        BY <2>5, <3>1, <3>2, <3>3, <3>4, <3>5, <3>6 DEF Next
    <2> QED
      BY <1>1, <2>1, <2>2, <2>3, <2>4, <2>5 DEF vars
  <1>2. ASSUME IInv, [Next]_vars
        PROVE  [\A r \in Ids : entry = Active(r) /\ entry' # Active(r) =>
                   run[r].disposition = "DONE" /\ Tombstone(r) \in tombstones]_vars
    BY <1>1, <1>2
  <1> QED
    BY <1>2, Inductive, PTL DEF Spec, EntryOutlivesRun
=============================================================================
