------------------------------- MODULE RunStore -------------------------------
(***************************************************************************)
(* RunStateStore (state.py): the authoritative state of one run, kept as   *)
(* immutable generation files <revision>-<hash>.json and one current.json  *)
(* pointer, shared by several processes.                                   *)
(*                                                                         *)
(* Writers hold the per-run flock; a commit is two separate writes (the    *)
(* generation, then the pointer) and a process may die between them.  The  *)
(* kernel releases the flock of a dead process.  Read-only readers         *)
(* (load_read_only) take no lock at all.                                   *)
(*                                                                         *)
(* A content stands for its canonical hash: hash_json is taken to be       *)
(* injective.  What a content may turn into (_validate_transition) is the  *)
(* constant relation Steps; StageRouter models its crew-iteration part.    *)
(***************************************************************************)
EXTENDS Naturals, FiniteSets

CONSTANTS
    Writers,        \* processes that load and compare-and-swap
    Readers,        \* processes that call load_read_only
    States,         \* run-state contents
    InitialState,   \* the content bound by the activation journal
    Steps,          \* pairs <<old, new>> accepted by _validate_transition
    Empty,          \* EMPTY_STATE_HASH
    Unknown,        \* no generation remembered
    NoOne,          \* the flock is free
    MaxRevision,    \* bound: no commit beyond this revision
    MaxCrashes      \* bound: crashes of writers

ASSUME StatesAssumption ==
    /\ InitialState \in States
    /\ Steps \subseteq States \X States
    /\ Empty \notin States
    /\ NoOne \notin Writers
    /\ MaxRevision \in Nat
    /\ MaxCrashes \in Nat

Generation == [revision : Nat, state_hash : States]
Pointer    == [revision : Nat, state_hash : States \cup {Empty}]

ASSUME UnknownAssumption == Unknown \notin Pointer

NoPointer == [revision |-> 0, state_hash |-> Empty]

VARIABLES
    generations,    \* the files of the generations directory
    pointer,        \* current.json, NoPointer while it is missing
    lock,           \* the writer that holds the per-run flock
    pc,             \* per writer: idle, or the write it performs next
    view,           \* per writer: the generation it last loaded or committed
    candidate,      \* per writer: the content its running commit installs
    rpc,            \* per reader: idle, pointer already read, or the outcome
    rview,          \* per reader: the pointer it read
    crashes         \* crashes so far

disk    == <<generations, pointer>>
writers == <<lock, pc, view, candidate>>
readers == <<rpc, rview>>
vars    == <<generations, pointer, lock, pc, view, candidate, rpc, rview, crashes>>

-----------------------------------------------------------------------------
(* Checks on the directory listing *)

Revisions == {g.revision : g \in generations}

(* _generation_records: two files of one revision are refused as corrupt. *)
RecordsReadable ==
    \A g, h \in generations : g.revision = h.revision => g = h

(* Mutant: a listing that tolerates records beyond the pointer. *)
HistoryPrefixOnly(p) ==
    IF p = NoPointer THEN TRUE
                     ELSE /\ 1 .. p.revision \subseteq Revisions
                          /\ p \in generations

(* load_optional_locked without orphan recovery, for pointer value p: with *)
(* no pointer there must be no record, otherwise the records must be       *)
(* exactly revisions 1 .. p.revision and end in p itself.                  *)
CompleteHistory(p) ==
    IF p = NoPointer
    THEN generations = {}
    ELSE /\ RecordsReadable
         /\ Revisions = 1 .. p.revision
         /\ p \in generations

(* Mutant: an orphan at the candidate's revision is not compared with it. *)
RecoverableWithAnyOrphan(p, g) ==
    /\ Revisions \subseteq 1 .. g.revision
    /\ 1 .. p.revision \subseteq Revisions
    /\ p # NoPointer => p \in generations

(* _require_recoverable_generation: the committed history is there and the *)
(* only other record, if any, is the candidate itself.                     *)
Recoverable(p, g) ==
    /\ RecordsReadable
    /\ Revisions \subseteq 1 .. g.revision
    /\ 1 .. p.revision \subseteq Revisions
    /\ p # NoPointer => p \in generations
    /\ \A h \in generations : h.revision = g.revision => h = g

(* _validate_transition: initial-state validation at revision 0. *)
ValidTransition(p, s) ==
    IF p = NoPointer THEN s = InitialState
                     ELSE <<p.state_hash, s>> \in Steps

NextGeneration(p, s) == [revision |-> p.revision + 1, state_hash |-> s]

-----------------------------------------------------------------------------
Init ==
    /\ generations = {}
    /\ pointer = NoPointer
    /\ lock = NoOne
    /\ pc = [w \in Writers |-> "idle"]
    /\ view = [w \in Writers |-> Unknown]
    /\ candidate = [w \in Writers |-> Empty]
    /\ rpc = [r \in Readers |-> "idle"]
    /\ rview = [r \in Readers |-> NoPointer]
    /\ crashes = 0

(* load: the whole read happens under the flock. *)
Load(w) ==
    /\ pc[w] = "idle"
    /\ lock = NoOne
    /\ CompleteHistory(pointer)
    /\ pointer # NoPointer
    /\ view' = [view EXCEPT ![w] = pointer]
    /\ UNCHANGED <<disk, readers, lock, pc, candidate, crashes>>

(* A load that raises (StateNotFound or AuthoritativeStateCorrupt): the     *)
(* caller is left without a generation to base a commit on.                *)
LoadRefused(w) ==
    /\ pc[w] = "idle"
    /\ lock = NoOne
    /\ pointer = NoPointer \/ ~CompleteHistory(pointer)
    /\ view' = [view EXCEPT ![w] = Unknown]
    /\ UNCHANGED <<disk, readers, lock, pc, candidate, crashes>>

(* The part of compare_and_swap_locked that decides: everything before the *)
(* first write, with the flock held and orphans tolerated.                 *)
MayCommit(w, s) ==
    /\ view[w] = pointer
    /\ ValidTransition(pointer, s)
    /\ Recoverable(pointer, NextGeneration(pointer, s))

(* Mutant: the comparison and the writes run without the flock. *)
CompareAndSwapUnlocked(w, s) ==
    /\ pc[w] = "idle"
    /\ view[w] \notin {Unknown, NoPointer}
    /\ view[w].revision < MaxRevision
    /\ MayCommit(w, s)
    /\ pc' = [pc EXCEPT ![w] = "write"]
    /\ candidate' = [candidate EXCEPT ![w] = s]
    /\ UNCHANGED <<disk, readers, lock, view, crashes>>

CompareAndSwap(w, s) ==
    /\ pc[w] = "idle"
    /\ lock = NoOne
    /\ view[w] \notin {Unknown, NoPointer}
    /\ view[w].revision < MaxRevision
    /\ MayCommit(w, s)
    /\ lock' = w
    /\ pc' = [pc EXCEPT ![w] = "write"]
    /\ candidate' = [candidate EXCEPT ![w] = s]
    /\ UNCHANGED <<disk, readers, view, crashes>>

(* CompareAndSwapConflict, InvalidStateTransition or Corrupt: nothing is   *)
(* written; the caller starts over, or tries another content from the same *)
(* generation as Supervisor._route_failure does.                           *)
CompareAndSwapRefused(w, s) ==
    /\ pc[w] = "idle"
    /\ lock = NoOne
    /\ view[w] \notin {Unknown, NoPointer}
    /\ ~MayCommit(w, s)
    /\ view' \in {view, [view EXCEPT ![w] = Unknown]}
    /\ UNCHANGED <<disk, readers, lock, pc, candidate, crashes>>

(* Mutant: the replay refuses an orphan as load() does. *)
PersistInitialStateOnce(w) ==
    /\ pc[w] = "idle"
    /\ lock = NoOne
    /\ MaxRevision > 0
    /\ generations = {}
    /\ lock' = w
    /\ pc' = [pc EXCEPT ![w] = "write"]
    /\ candidate' = [candidate EXCEPT ![w] = InitialState]
    /\ view' = [view EXCEPT ![w] = NoPointer]
    /\ UNCHANGED <<disk, readers, crashes>>

(* ActiveRunIndex._persist_initial_state: under the flock, commit the      *)
(* journalled initial state at revision 0, or adopt the stored generation  *)
(* if it still is that state.  It is replayed until it succeeds.           *)
PersistInitialState(w) ==
    /\ pc[w] = "idle"
    /\ lock = NoOne
    /\ MaxRevision > 0
    /\ \/ /\ pointer = NoPointer
          /\ Recoverable(pointer, NextGeneration(pointer, InitialState))
          /\ lock' = w
          /\ pc' = [pc EXCEPT ![w] = "write"]
          /\ candidate' = [candidate EXCEPT ![w] = InitialState]
          /\ view' = [view EXCEPT ![w] = NoPointer]
       \/ /\ pointer.state_hash = InitialState
          /\ view' = [view EXCEPT ![w] = pointer]
          /\ UNCHANGED <<lock, pc, candidate>>
    /\ UNCHANGED <<disk, readers, crashes>>

(* _write_new_json: an exclusive link; a file that is already there is     *)
(* accepted only when its contents equal the candidate's.                  *)
WriteGeneration(w) ==
    /\ pc[w] = "write"
    /\ generations' = generations \cup {NextGeneration(view[w], candidate[w])}
    /\ pc' = [pc EXCEPT ![w] = "swap"]
    /\ UNCHANGED <<pointer, readers, lock, view, candidate, crashes>>

(* _atomic_replace_json on current.json, the return to the caller and the  *)
(* release of the flock.                                                   *)
ReplacePointer(w) ==
    /\ pc[w] = "swap"
    /\ pointer' = NextGeneration(view[w], candidate[w])
    /\ view' = [view EXCEPT ![w] = NextGeneration(view[w], candidate[w])]
    /\ lock' = NoOne
    /\ pc' = [pc EXCEPT ![w] = "idle"]
    /\ candidate' = [candidate EXCEPT ![w] = Empty]
    /\ UNCHANGED <<generations, readers, crashes>>

(* Mutant: the flock outlives its process. *)
CrashKeepingLock(w) ==
    /\ crashes < MaxCrashes
    /\ crashes' = crashes + 1
    /\ pc' = [pc EXCEPT ![w] = "idle"]
    /\ view' = [view EXCEPT ![w] = Unknown]
    /\ candidate' = [candidate EXCEPT ![w] = Empty]
    /\ UNCHANGED <<disk, readers, lock>>

(* The process dies; the kernel drops its flock and what it remembered is  *)
(* gone.  A temporary file it leaves behind is ignored by every reader.    *)
Crash(w) ==
    /\ crashes < MaxCrashes
    /\ crashes' = crashes + 1
    /\ lock' = IF lock = w THEN NoOne ELSE lock
    /\ pc' = [pc EXCEPT ![w] = "idle"]
    /\ view' = [view EXCEPT ![w] = Unknown]
    /\ candidate' = [candidate EXCEPT ![w] = Empty]
    /\ UNCHANGED <<disk, readers>>

(* load_read_only, first half: read current.json without the flock. *)
ReadPointer(r) ==
    /\ rpc[r] # "listing"
    /\ rpc' = [rpc EXCEPT ![r] = "listing"]
    /\ rview' = [rview EXCEPT ![r] = pointer]
    /\ UNCHANGED <<disk, writers, crashes>>

(* load_read_only, second half: list the records for the pointer read. *)
ListRecords(r) ==
    /\ rpc[r] = "listing"
    /\ rpc' = [rpc EXCEPT ![r] =
                  IF ~CompleteHistory(rview[r]) THEN "corrupt"
                  ELSE IF rview[r] = NoPointer THEN "not_found" ELSE "loaded"]
    /\ UNCHANGED <<disk, writers, rview, crashes>>

WriterStep(w) ==
    \/ Load(w)
    \/ LoadRefused(w)
    \/ \E s \in States : CompareAndSwap(w, s)
    \/ \E s \in States : CompareAndSwapRefused(w, s)
    \/ PersistInitialState(w)
    \/ WriteGeneration(w)
    \/ ReplacePointer(w)
    \/ Crash(w)

ReaderStep(r) == ReadPointer(r) \/ ListRecords(r)

Next == \/ \E w \in Writers : WriterStep(w)
        \/ \E r \in Readers : ReaderStep(r)

Spec == Init /\ [][Next]_vars

(* The launcher replays an activation until it completes, and a process    *)
(* that holds the flock keeps running (or crashes, boundedly often).       *)
Fairness ==
    \A w \in Writers : /\ WF_vars(PersistInitialState(w))
                       /\ WF_vars(WriteGeneration(w))
                       /\ WF_vars(ReplacePointer(w))

FairSpec == Spec /\ Fairness

-----------------------------------------------------------------------------
(* Properties *)

(* Types, and the flock discipline: exactly the holder of the flock is in  *)
(* the middle of a commit and has a candidate.                             *)
TypeOK ==
    /\ generations \in SUBSET Generation
    /\ pointer \in Pointer
    /\ lock \in Writers \cup {NoOne}
    /\ pc \in [Writers -> {"idle", "write", "swap"}]
    /\ view \in [Writers -> Pointer \cup {Unknown}]
    /\ candidate \in [Writers -> States \cup {Empty}]
    /\ rpc \in [Readers -> {"idle", "listing", "loaded", "not_found", "corrupt"}]
    /\ rview \in [Readers -> Pointer]
    /\ crashes \in 0 .. MaxCrashes
    /\ \A w \in Writers : /\ pc[w] # "idle" <=> lock = w
                          /\ pc[w] # "idle" <=> candidate[w] \in States

(* The generation files, the unreferenced one of a crash included, form    *)
(* one chain: one file per revision, the first is the journalled initial   *)
(* state, and each next one passed _validate_transition against the one    *)
(* before it, whatever stale views, races and crashes came between.        *)
LegalHistory ==
    \A g, h \in generations :
        /\ g.revision = h.revision => g = h
        /\ g.revision = 1 => g.state_hash = InitialState
        /\ h.revision = g.revision + 1 => <<g.state_hash, h.state_hash>> \in Steps

(* A generation that a crash left unreferenced decides its revision: the   *)
(* only move of current.json is to that very generation, never past it to  *)
(* another state (the allow_orphaned_recovery path).                       *)
OrphanDecides ==
    [][\A g \in generations :
          g.revision > pointer.revision => pointer' \in {pointer, g}]_vars

(* load_read_only takes no lock, reads two files and may be overtaken by a *)
(* commit; when it does return a generation, that generation is the        *)
(* current one at the moment it returns, never a superseded one.           *)
ReadOnlyLoadIsCurrent ==
    [][\A r \in Readers :
          rpc[r] = "listing" /\ rpc'[r] = "loaded" => rview[r] = pointer]_vars

(* However often processes die inside _persist_initial_state, replaying it *)
(* from the activation journal gets the first generation referenced.       *)
InitialStateEventuallyStored == (MaxRevision > 0) ~> (pointer.revision > 0)

(* RunStore implements the register: the log is the sequence of contents   *)
(* of the generations up to the pointer, so a commit takes effect when     *)
(* current.json is replaced, atomically, and only on top of the generation *)
(* its caller saw (CompareAndSwapConflict otherwise).                      *)
ContentAt(n) == (CHOOSE g \in generations : g.revision = n).state_hash

Log == [n \in 1 .. pointer.revision |-> ContentAt(n)]

Register == INSTANCE CasRegister WITH Clients <- Writers, log <- Log

ImplementsRegister == Register!Spec
=============================================================================
