---------------------------- MODULE RunStoreProofs ----------------------------
(***************************************************************************)
(* For any number of writers, readers, contents, revisions and crashes:    *)
(* the types and the flock discipline of RunStore, the legality of its     *)
(* generation chain, the two action properties about orphans and lock-free *)
(* readers, and the refinement of CasRegister.                             *)
(***************************************************************************)
EXTENDS RunStore, TLAPS, SequenceTheorems

(* What the generations directory holds at any moment: every revision up   *)
(* to the pointer exactly once, and at most one file beyond it.            *)
HistoryInv ==
    /\ pointer = NoPointer \/ pointer \in generations
    /\ \A g \in generations : g.revision \in 1 .. (pointer.revision + 1)
    /\ \A n \in 1 .. pointer.revision : \E g \in generations : g.revision = n

(* What a writer in the middle of a commit knows to be true of the disk,   *)
(* because it holds the flock since it checked it.                         *)
Prepared(w) ==
    /\ view[w] = pointer
    /\ ValidTransition(pointer, candidate[w])
    /\ \A g \in generations : g.revision = pointer.revision + 1
            => g = NextGeneration(pointer, candidate[w])
    /\ pc[w] = "swap" => NextGeneration(pointer, candidate[w]) \in generations

CommitInv == \A w \in Writers : pc[w] # "idle" => Prepared(w)

(* A lock-free reader may be behind the pointer, never ahead of it. *)
ReaderInv == \A r \in Readers : rview[r].revision <= pointer.revision

IInv == TypeOK /\ HistoryInv /\ LegalHistory /\ CommitInv /\ ReaderInv

-----------------------------------------------------------------------------
(* Records of the two sorts are what their fields say. *)
LEMMA NextGenerationType ==
    ASSUME NEW p \in Pointer, NEW s \in States
    PROVE  /\ NextGeneration(p, s) \in Generation
           /\ NextGeneration(p, s) \in Pointer
           /\ NextGeneration(p, s).revision = p.revision + 1
           /\ NextGeneration(p, s).state_hash = s
BY DEF NextGeneration, Pointer, Generation

(* A missing current.json is an ordinary pointer value. *)
LEMMA NoPointerType == NoPointer \in Pointer
BY DEF NoPointer, Pointer

(* Type correctness and the flock discipline are preserved by every step:  *)
(* only a process that found the flock free takes it, and whoever leaves   *)
(* the middle of a commit (or dies in it) gives it back.                   *)
LEMMA TypeStep == TypeOK /\ CommitInv /\ [Next]_vars => TypeOK'
<1> SUFFICES ASSUME TypeOK, CommitInv, [Next]_vars PROVE TypeOK'
    OBVIOUS
<1> USE StatesAssumption, UnknownAssumption
<1>1. ASSUME NEW w \in Writers, WriterStep(w) PROVE TypeOK'
    <2>1. CASE Load(w)
        BY <2>1 DEF Load, TypeOK, disk, readers
    <2>2. CASE LoadRefused(w)
        BY <2>2 DEF LoadRefused, TypeOK, disk, readers
    <2>3. CASE \E s \in States : CompareAndSwap(w, s)
        BY <2>3 DEF CompareAndSwap, TypeOK, disk, readers
    <2>4. CASE \E s \in States : CompareAndSwapRefused(w, s)
        BY <2>4 DEF CompareAndSwapRefused, TypeOK, disk, readers
    <2>5. CASE PersistInitialState(w)
        BY <2>5, NoPointerType DEF PersistInitialState, TypeOK, disk, readers
    <2>6. CASE WriteGeneration(w)
        <3>1. candidate[w] \in States /\ lock = w /\ view[w] = pointer
            BY <2>6 DEF WriteGeneration, TypeOK, CommitInv, Prepared
        <3>2. NextGeneration(view[w], candidate[w]) \in Generation
            BY <3>1, NextGenerationType DEF TypeOK
        <3> QED
            BY <2>6, <3>1, <3>2 DEF WriteGeneration, TypeOK, readers
    <2>7. CASE ReplacePointer(w)
        <3>1. candidate[w] \in States /\ lock = w /\ view[w] = pointer
            BY <2>7 DEF ReplacePointer, TypeOK, CommitInv, Prepared
        <3>2. NextGeneration(view[w], candidate[w]) \in Pointer
            BY <3>1, NextGenerationType DEF TypeOK
        <3> QED
            BY <2>7, <3>1, <3>2 DEF ReplacePointer, TypeOK, readers
    <2>8. CASE Crash(w)
        BY <2>8 DEF Crash, TypeOK, disk, readers
    <2> QED
        BY <1>1, <2>1, <2>2, <2>3, <2>4, <2>5, <2>6, <2>7, <2>8 DEF WriterStep
<1>2. ASSUME NEW r \in Readers, ReaderStep(r) PROVE TypeOK'
    BY <1>2 DEF ReaderStep, ReadPointer, ListRecords, TypeOK, disk, writers
<1>3. CASE UNCHANGED vars
    BY <1>3 DEF vars, TypeOK
<1> QED
    BY <1>1, <1>2, <1>3 DEF Next

-----------------------------------------------------------------------------
(* A commit in progress, named: what its two writes rely on. *)
LEMMA Committing ==
    ASSUME IInv, NEW w \in Writers, pc[w] # "idle"
    PROVE  /\ lock = w
           /\ view[w] = pointer
           /\ candidate[w] \in States
           /\ ValidTransition(pointer, candidate[w])
           /\ NextGeneration(view[w], candidate[w]) \in Generation
           /\ NextGeneration(view[w], candidate[w]) \in Pointer
           /\ NextGeneration(view[w], candidate[w]).revision = pointer.revision + 1
           /\ NextGeneration(view[w], candidate[w]).state_hash = candidate[w]
<1>1. lock = w /\ candidate[w] \in States /\ pointer \in Pointer
    BY DEF IInv, TypeOK
<1>2. view[w] = pointer /\ ValidTransition(pointer, candidate[w])
    BY DEF IInv, CommitInv, Prepared
<1> QED
    BY <1>1, <1>2, NextGenerationType

(* Only the two writes of a commit touch the disk. *)
LEMMA DiskWrites ==
    ASSUME [Next]_vars
    PROVE  \/ \E w \in Writers : WriteGeneration(w)
           \/ \E w \in Writers : ReplacePointer(w)
           \/ UNCHANGED disk
BY DEF Next, WriterStep, ReaderStep, Load, LoadRefused, CompareAndSwap, disk,
       CompareAndSwapRefused, PersistInitialState, Crash, ReadPointer, ListRecords, vars

(* The directory keeps holding the whole history and at most one file past *)
(* the pointer: a write goes to the revision after the pointer, and the    *)
(* pointer only moves to a file that is there.                             *)
LEMMA HistoryStep == IInv /\ [Next]_vars => HistoryInv'
<1> SUFFICES ASSUME IInv, [Next]_vars PROVE HistoryInv'
    OBVIOUS
<1>t. pointer \in Pointer /\ generations \subseteq Generation
    BY DEF IInv, TypeOK
<1>1. ASSUME NEW w \in Writers, WriteGeneration(w) PROVE HistoryInv'
    <2> DEFINE new == NextGeneration(view[w], candidate[w])
    <2>1. new.revision = pointer.revision + 1
        BY <1>1, Committing DEF WriteGeneration
    <2>2. generations' = generations \cup {new} /\ pointer' = pointer
        BY <1>1 DEF WriteGeneration
    <2>3. new.revision \in 1 .. (pointer.revision + 1)
        BY <1>t, <2>1 DEF Pointer
    <2> QED
        BY <2>2, <2>3 DEF IInv, HistoryInv
<1>2. ASSUME NEW w \in Writers, ReplacePointer(w) PROVE HistoryInv'
    <2> DEFINE new == NextGeneration(view[w], candidate[w])
    <2>1. new.revision = pointer.revision + 1 /\ new \in Pointer
        BY <1>2, Committing DEF ReplacePointer
    <2>2. generations' = generations /\ pointer' = new
        BY <1>2 DEF ReplacePointer
    <2>3. new \in generations
        BY <1>2, Committing DEF ReplacePointer, IInv, CommitInv, Prepared
    <2>4. \A g \in generations' : g.revision \in 1 .. (pointer'.revision + 1)
        BY <1>t, <2>1, <2>2 DEF IInv, HistoryInv, Pointer
    <2>5. \A n \in 1 .. pointer'.revision : \E g \in generations' : g.revision = n
        <3> TAKE n \in 1 .. pointer'.revision
        <3>1. n \in 1 .. pointer.revision \/ n = new.revision
            BY <1>t, <2>1, <2>2 DEF Pointer
        <3> QED
            BY <2>2, <2>3, <3>1 DEF IInv, HistoryInv
    <2> QED
        BY <2>2, <2>3, <2>4, <2>5 DEF HistoryInv
<1>3. CASE UNCHANGED disk
    BY <1>3 DEF disk, IInv, HistoryInv
<1> QED
    BY <1>1, <1>2, <1>3, DiskWrites

(* The generation a commit adds fits the chain: there is no other file of  *)
(* its revision (or it is the same one), and the file before it is the     *)
(* pointer's, against which it was validated.                              *)
LEMMA LegalStep == IInv /\ [Next]_vars => LegalHistory'
<1> SUFFICES ASSUME IInv, [Next]_vars PROVE LegalHistory'
    OBVIOUS
<1>t. pointer \in Pointer /\ generations \subseteq Generation
    BY DEF IInv, TypeOK
<1>1. ASSUME NEW w \in Writers, WriteGeneration(w) PROVE LegalHistory'
    <2> DEFINE new == NextGeneration(view[w], candidate[w])
    <2>1. /\ new.revision = pointer.revision + 1
          /\ new.state_hash = candidate[w]
          /\ new = NextGeneration(pointer, candidate[w])
        BY <1>1, Committing DEF WriteGeneration
    <2>2. generations' = generations \cup {new}
        BY <1>1 DEF WriteGeneration
    <2>3. \A g \in generations : g.revision = new.revision => g = new
        BY <1>1, <2>1 DEF IInv, CommitInv, Prepared, WriteGeneration
    <2>4. ValidTransition(pointer, candidate[w])
        BY <1>1, Committing DEF WriteGeneration
    <2>5. new.revision = 1 => new.state_hash = InitialState
        <3> SUFFICES ASSUME new.revision = 1 PROVE candidate[w] = InitialState
            BY <2>1
        <3>1. pointer.revision = 0
            BY <1>t, <2>1 DEF Pointer
        <3>2. pointer \notin generations
            BY <3>1 DEF IInv, HistoryInv
        <3>3. pointer = NoPointer
            BY <3>2 DEF IInv, HistoryInv
        <3> QED
            BY <2>4, <3>3 DEF ValidTransition
    <2>6. \A g \in generations : new.revision = g.revision + 1
                                    => <<g.state_hash, new.state_hash>> \in Steps
        <3> TAKE g \in generations
        <3> HAVE new.revision = g.revision + 1
        <3>1. g.revision = pointer.revision /\ g.revision \in 1 .. (pointer.revision + 1)
            BY <1>t, <2>1 DEF Generation, Pointer, IInv, HistoryInv
        <3>2. pointer # NoPointer
            BY <3>1 DEF NoPointer
        <3>3. pointer \in generations
            BY <3>2 DEF IInv, HistoryInv
        <3>4. g = pointer
            BY <3>1, <3>3 DEF IInv, LegalHistory
        <3> QED
            BY <2>1, <2>4, <3>2, <3>4 DEF ValidTransition
    <2>7. \A h \in generations : h.revision # new.revision + 1
        BY <1>t, <2>1 DEF IInv, HistoryInv, Generation, Pointer
    <2>8. new.revision # new.revision + 1
        BY <1>t, <2>1 DEF Pointer
    <2> HIDE DEF new
    <2> QED
        BY <2>2, <2>3, <2>5, <2>6, <2>7, <2>8 DEF IInv, LegalHistory
<1>2. CASE generations' = generations
    BY <1>2 DEF IInv, LegalHistory
<1>3. ASSUME NEW w \in Writers, ReplacePointer(w) PROVE generations' = generations
    BY <1>3 DEF ReplacePointer
<1> QED
    BY <1>1, <1>2, <1>3, DiskWrites DEF disk

(* What a writer checked under the flock stays true until it has written:  *)
(* no other writer can write meanwhile, and its own first write installs   *)
(* the very generation it compared the directory with.                     *)
LEMMA CommitStep == IInv /\ [Next]_vars => CommitInv'
<1> SUFFICES ASSUME IInv, [Next]_vars, NEW v \in Writers, pc'[v] # "idle"
             PROVE  Prepared(v)'
    BY DEF CommitInv
<1>t. /\ pointer \in Pointer
      /\ pc \in [Writers -> {"idle", "write", "swap"}]
      /\ view \in [Writers -> Pointer \cup {Unknown}]
      /\ candidate \in [Writers -> States \cup {Empty}]
    BY DEF IInv, TypeOK
<1>free. lock = NoOne => pc[v] = "idle"
    BY StatesAssumption DEF IInv, TypeOK
<1>held. \A w \in Writers : pc[w] # "idle" /\ pc[v] # "idle" => w = v
    BY DEF IInv, TypeOK
<1>old. pc[v] # "idle" => Prepared(v)
    BY DEF IInv, CommitInv
<1>1. ASSUME NEW w \in Writers, WriterStep(w) PROVE Prepared(v)'
    <2>1. CASE Load(w) \/ LoadRefused(w) \/ \E s \in States : CompareAndSwapRefused(w, s)
        BY <1>free, <2>1 DEF Load, LoadRefused, CompareAndSwapRefused
    <2>2. ASSUME NEW s \in States, CompareAndSwap(w, s) PROVE Prepared(v)'
        <3>1. v = w
            BY <1>t, <1>free, <2>2 DEF CompareAndSwap
        <3>2. view'[v] = pointer' /\ candidate'[v] = s /\ pc'[v] = "write"
              /\ generations' = generations /\ pointer' = pointer
            BY <1>t, <2>2, <3>1 DEF CompareAndSwap, MayCommit, disk
        <3>3. /\ ValidTransition(pointer, s)
              /\ \A g \in generations : g.revision = pointer.revision + 1
                    => g = NextGeneration(pointer, s)
            BY <2>2 DEF CompareAndSwap, MayCommit, Recoverable, NextGeneration
        <3> QED
            BY <3>2, <3>3 DEF Prepared, ValidTransition, NextGeneration
    <2>3. CASE PersistInitialState(w)
        <3>1. v = w /\ pc'[v] # pc[v]
            BY <1>t, <1>free, <2>3 DEF PersistInitialState
        <3>2. /\ pointer = NoPointer
              /\ Recoverable(pointer, NextGeneration(pointer, InitialState))
              /\ view'[v] = NoPointer /\ candidate'[v] = InitialState /\ pc'[v] = "write"
              /\ generations' = generations /\ pointer' = pointer
            BY <1>t, <2>3, <3>1 DEF PersistInitialState, disk
        <3>3. \A g \in generations : g.revision = pointer.revision + 1
                    => g = NextGeneration(pointer, InitialState)
            BY <3>2 DEF Recoverable, NextGeneration
        <3> QED
            BY <3>2, <3>3 DEF Prepared, ValidTransition, NextGeneration
    <2>4. CASE WriteGeneration(w)
        <3>1. v = w
            BY <1>t, <1>held, <2>4 DEF WriteGeneration
        <3>2. /\ view'[v] = view[v] /\ candidate'[v] = candidate[v] /\ pointer' = pointer
              /\ generations' = generations \cup {NextGeneration(view[v], candidate[v])}
            BY <2>4, <3>1 DEF WriteGeneration
        <3>3. Prepared(v)
            BY <1>old, <2>4, <3>1 DEF WriteGeneration
        <3> QED
            BY <3>2, <3>3 DEF Prepared, ValidTransition, NextGeneration
    <2>5. CASE ReplacePointer(w)
        BY <1>t, <1>held, <2>5 DEF ReplacePointer
    <2>6. CASE Crash(w)
        <3>1. v # w /\ pc[v] # "idle"
            BY <1>t, <2>6 DEF Crash
        <3>2. UNCHANGED <<disk, view[v], candidate[v], pc[v]>>
            BY <1>t, <2>6, <3>1 DEF Crash
        <3> QED
            BY <1>old, <3>1, <3>2 DEF Prepared, ValidTransition, NextGeneration, disk
    <2> QED
        BY <1>1, <2>1, <2>2, <2>3, <2>4, <2>5, <2>6 DEF WriterStep
<1>2. ASSUME UNCHANGED <<disk, writers>> PROVE Prepared(v)'
    BY <1>2, <1>old DEF disk, writers, Prepared, ValidTransition, NextGeneration
<1>3. ASSUME NEW r \in Readers, ReaderStep(r) PROVE UNCHANGED <<disk, writers>>
    BY <1>3 DEF ReaderStep, ReadPointer, ListRecords
<1>4. ASSUME UNCHANGED vars PROVE UNCHANGED <<disk, writers>>
    BY <1>4 DEF vars, disk, writers
<1> QED
    BY <1>1, <1>2, <1>3, <1>4 DEF Next

(* The pointer only moves forward, so what a reader read stays behind it. *)
LEMMA ReaderStepInv == IInv /\ [Next]_vars => ReaderInv'
<1> SUFFICES ASSUME IInv, [Next]_vars, NEW r \in Readers
             PROVE  rview'[r].revision <= pointer'.revision
    BY DEF ReaderInv
<1>t. pointer \in Pointer /\ rview \in [Readers -> Pointer]
    BY DEF IInv, TypeOK
<1>old. rview[r].revision <= pointer.revision
    BY DEF IInv, ReaderInv
<1>1. ASSUME NEW w \in Writers, ReplacePointer(w) PROVE rview'[r].revision <= pointer'.revision
    <2>1. pointer'.revision = pointer.revision + 1 /\ rview' = rview
        BY <1>1, Committing DEF ReplacePointer, readers
    <2> QED
        BY <1>t, <1>old, <2>1 DEF Pointer
<1>2. ASSUME pointer' = pointer PROVE rview'[r].revision <= pointer'.revision
    <2>1. rview'[r] = rview[r] \/ rview'[r] = pointer
        BY <1>t DEF Next, WriterStep, ReaderStep, Load, LoadRefused, CompareAndSwap, readers,
           CompareAndSwapRefused, PersistInitialState, WriteGeneration, ReplacePointer,
           Crash, ReadPointer, ListRecords, vars
    <2> QED
        BY <1>t, <1>2, <1>old, <2>1 DEF Pointer
<1> QED
    BY <1>1, <1>2, DiskWrites DEF disk, WriteGeneration

(* The empty directory with the flock free satisfies the invariant. *)
LEMMA InitIInv == Init => IInv
<1> SUFFICES ASSUME Init PROVE IInv
    OBVIOUS
<1> USE StatesAssumption
<1>1. pointer = NoPointer /\ generations = {} /\ pointer.revision = 0
    BY DEF Init, NoPointer
<1>2. TypeOK
    BY NoPointerType, <1>1 DEF Init, TypeOK
<1>3. HistoryInv
    BY <1>1 DEF HistoryInv
<1>4. ReaderInv
    BY <1>1 DEF Init, ReaderInv, NoPointer
<1> QED
    BY <1>1, <1>2, <1>3, <1>4 DEF Init, IInv, LegalHistory, CommitInv

(* The strengthened invariant holds in every reachable state. *)
THEOREM Invariance == Spec => []IInv
<1>1. IInv /\ [Next]_vars => IInv'
    BY TypeStep, HistoryStep, LegalStep, CommitStep, ReaderStepInv DEF IInv
<1> QED
    BY InitIInv, <1>1, PTL DEF Spec

(* Every reachable state is well typed, and exactly the holder of the run  *)
(* flock is between the check and the pointer replacement of a commit.     *)
THEOREM TypeCorrect == Spec => []TypeOK
<1>1. IInv => TypeOK
    BY DEF IInv
<1> QED
    BY Invariance, <1>1, PTL

(* The generation files always form one legally validated chain, orphans   *)
(* included: state.py's flock, compare and recovery check together allow   *)
(* neither a fork nor an unvalidated successor.                            *)
THEOREM HistoryIsLegal == Spec => []LegalHistory
<1>1. IInv => LegalHistory
    BY DEF IInv
<1> QED
    BY Invariance, <1>1, PTL

(* An interrupted commit decides its revision: current.json moves only to  *)
(* the generation file that is already there.                              *)
THEOREM OrphansDecide == Spec => OrphanDecides
<1>1. ASSUME IInv, [Next]_vars, NEW g \in generations, g.revision > pointer.revision
      PROVE  pointer' \in {pointer, g}
    <2>1. ASSUME NEW w \in Writers, ReplacePointer(w) PROVE pointer' = g
        <3>1. pointer \in Pointer /\ g \in Generation
            BY <1>1 DEF IInv, TypeOK
        <3>2. g.revision = pointer.revision + 1
            BY <1>1, <3>1 DEF IInv, HistoryInv, Pointer, Generation
        <3>3. Prepared(w)
            BY <1>1, <2>1 DEF IInv, CommitInv, ReplacePointer
        <3> QED
            BY <2>1, <3>2, <3>3 DEF Prepared, ReplacePointer
    <2> QED
        BY <1>1, <2>1, DiskWrites DEF disk, WriteGeneration
<1>2. IInv /\ [Next]_vars =>
        [\A g \in generations : g.revision > pointer.revision => pointer' \in {pointer, g}]_vars
    BY <1>1
<1> QED
    BY Invariance, <1>2, PTL DEF Spec, OrphanDecides

(* load_read_only, without the flock, returns a generation only if it is   *)
(* the current one: a newer one would have left a record in the listing.   *)
THEOREM ReadOnlyLoadsAreCurrent == Spec => ReadOnlyLoadIsCurrent
<1>1. ASSUME IInv, [Next]_vars, NEW r \in Readers, rpc[r] = "listing", rpc'[r] = "loaded"
      PROVE  rview[r] = pointer
    <2>1. ListRecords(r)
        BY <1>1 DEF IInv, TypeOK, Next, WriterStep, ReaderStep, Load, LoadRefused, readers,
           CompareAndSwap, CompareAndSwapRefused, PersistInitialState, WriteGeneration,
           ReplacePointer, Crash, ReadPointer, ListRecords, vars
    <2>2. CompleteHistory(rview[r]) /\ rview[r] # NoPointer
        BY <1>1, <2>1 DEF IInv, TypeOK, ListRecords
    <2>3. rview[r] \in generations /\ Revisions = 1 .. rview[r].revision
        BY <2>2 DEF CompleteHistory
    <2>4. /\ rview[r] \in Generation /\ pointer \in Pointer
          /\ rview[r].revision <= pointer.revision
        BY <1>1, <2>3 DEF IInv, TypeOK, ReaderInv
    <2>5. rview[r].revision >= 1
        BY <1>1, <2>3, <2>4 DEF IInv, HistoryInv, Generation, Pointer
    <2>6. pointer \in generations
        BY <1>1, <2>4, <2>5 DEF IInv, HistoryInv, NoPointer, Generation, Pointer
    <2>7. pointer.revision \in 1 .. rview[r].revision
        BY <2>3, <2>6 DEF Revisions
    <2>8. pointer.revision = rview[r].revision
        BY <2>4, <2>7 DEF Generation, Pointer
    <2> QED
        BY <1>1, <2>3, <2>6, <2>8 DEF IInv, LegalHistory
<1>2. IInv /\ [Next]_vars =>
        [\A r \in Readers :
            rpc[r] = "listing" /\ rpc'[r] = "loaded" => rview[r] = pointer]_vars
    BY <1>1
<1> QED
    BY Invariance, <1>2, PTL DEF Spec, ReadOnlyLoadIsCurrent

-----------------------------------------------------------------------------
(* The refinement of CasRegister *)

(* The content recorded for a committed revision is the one of its file. *)
LEMMA ContentOfFile ==
    ASSUME IInv, NEW g \in generations
    PROVE  ContentAt(g.revision) = g.state_hash
BY DEF IInv, LegalHistory, ContentAt

(* The log has one content for each revision current.json has reached. *)
LEMMA LogType ==
    ASSUME IInv
    PROVE  Log \in Seq(States) /\ Len(Log) = pointer.revision
<1>1. pointer.revision \in Nat
    BY DEF IInv, TypeOK, Pointer
<1>2. ASSUME NEW n \in 1 .. pointer.revision PROVE ContentAt(n) \in States
    <2>1. PICK g \in generations : g.revision = n
        BY DEF IInv, HistoryInv
    <2>2. g.state_hash \in States
        BY DEF IInv, TypeOK, Generation
    <2> QED
        BY <2>1, <2>2, ContentOfFile
<1>3. Log \in [1 .. pointer.revision -> States]
    BY <1>2 DEF Log
<1> QED
    BY <1>1, <1>3

(* The tip of the log is what current.json says. *)
LEMMA TipIsPointer ==
    ASSUME IInv
    PROVE  Register!Tip = pointer
<1>t. pointer \in Pointer /\ pointer.revision \in Nat
    BY DEF IInv, TypeOK, Pointer
<1>1. CASE pointer = NoPointer
    <2>1. Log = <<>>
        BY <1>1, LogType DEF NoPointer
    <2> QED
        BY <1>1, <2>1, LogType DEF Register!Tip, NoPointer
<1>2. CASE pointer # NoPointer
    <2>1. pointer \in generations
        BY <1>2 DEF IInv, HistoryInv
    <2>2. pointer.revision \in 1 .. (pointer.revision + 1)
        BY <2>1 DEF IInv, HistoryInv
    <2>3. Log[pointer.revision] = pointer.state_hash /\ Log # <<>>
        BY <1>t, <2>1, <2>2, ContentOfFile, LogType DEF Log
    <2>4. Register!Tip = [revision |-> pointer.revision, state_hash |-> pointer.state_hash]
        BY <2>3, LogType DEF Register!Tip
    <2> QED
        BY <1>t, <2>4 DEF Pointer
<1> QED
    BY <1>1, <1>2

(* Two directories that agree on the committed revisions give one log. *)
LEMMA LogUnchanged ==
    ASSUME IInv, IInv', pointer' = pointer, generations \subseteq generations'
    PROVE  Log' = Log
<1>1. ASSUME NEW n \in 1 .. pointer.revision PROVE ContentAt(n)' = ContentAt(n)
    <2>1. PICK g \in generations : g.revision = n
        BY DEF IInv, HistoryInv
    <2>2. ContentAt(n) = g.state_hash
        BY <2>1, ContentOfFile
    <2>3. \A h \in generations' : h.revision = n => h = g
        BY <2>1 DEF IInv, LegalHistory
    <2>4. ContentAt(n)' = g.state_hash
        BY <2>1, <2>3 DEF ContentAt
    <2> QED
        BY <2>2, <2>4
<1> QED
    BY <1>1 DEF Log

(* Replacing current.json is the register's commit: it takes effect on top *)
(* of the generation the writer saw, appends its candidate and hands it    *)
(* the new tip.                                                            *)
LEMMA ReplaceCommits ==
    ASSUME IInv, IInv', NEW w \in Writers, ReplacePointer(w)
    PROVE  Register!Commit(w, candidate[w])
<1> DEFINE new == NextGeneration(view[w], candidate[w])
<1>t. pointer \in Pointer /\ view \in [Writers -> Pointer \cup {Unknown}]
    BY DEF IInv, TypeOK
<1>1. /\ candidate[w] \in States /\ view[w] = pointer
      /\ ValidTransition(pointer, candidate[w])
      /\ new.revision = pointer.revision + 1 /\ new.state_hash = candidate[w]
    BY Committing DEF ReplacePointer
<1>2. generations' = generations /\ pointer' = new
    BY DEF ReplacePointer
<1>3. new \in generations
    BY <1>1 DEF ReplacePointer, IInv, CommitInv, Prepared
<1>4. view[w] = Register!Tip
    BY <1>1, TipIsPointer
<1>5. Register!Accepts(candidate[w])
    <2>1. CASE pointer = NoPointer
        <3>1. Log = <<>>
            BY <2>1, LogType DEF NoPointer
        <3> QED
            BY <1>1, <2>1, <3>1 DEF ValidTransition, Register!Accepts
    <2>2. CASE pointer # NoPointer
        <3>1. pointer \in generations
            BY <2>2 DEF IInv, HistoryInv
        <3>2. pointer.revision \in 1 .. pointer.revision
            BY <1>t, <3>1 DEF IInv, HistoryInv, Pointer
        <3>3. Log # <<>> /\ Log[Len(Log)] = pointer.state_hash
            BY <3>1, <3>2, ContentOfFile, LogType DEF Log
        <3> QED
            BY <1>1, <2>2, <3>3 DEF ValidTransition, Register!Accepts
    <2> QED
        BY <2>1, <2>2
<1>6. Log' = Append(Log, candidate[w])
    <2>1. ContentAt(pointer.revision + 1) = candidate[w]
        BY <1>1, <1>3, ContentOfFile
    <2>2. Log' = [n \in 1 .. (pointer.revision + 1) |-> ContentAt(n)]
        BY <1>1, <1>2 DEF Log, ContentAt
    <2>3. Append(Log, candidate[w]) =
            [n \in 1 .. (pointer.revision + 1) |->
                IF n <= pointer.revision THEN Log[n] ELSE candidate[w]]
        BY LogType, <1>1, <1>t DEF Pointer
    <2>4. ASSUME NEW n \in 1 .. (pointer.revision + 1)
          PROVE  ContentAt(n) = IF n <= pointer.revision THEN Log[n] ELSE candidate[w]
        <3>1. n <= pointer.revision => n \in 1 .. pointer.revision
            BY <1>t DEF Pointer
        <3>2. ~(n <= pointer.revision) => n = pointer.revision + 1
            BY <1>t DEF Pointer
        <3> QED
            BY <2>1, <3>1, <3>2 DEF Log
    <2> QED
        BY <2>2, <2>3, <2>4
<1>7. view' = [view EXCEPT ![w] = [revision |-> Len(Log) + 1, state_hash |-> candidate[w]]]
    BY <1>1, LogType DEF ReplacePointer, NextGeneration
<1> QED
    BY <1>4, <1>5, <1>6, <1>7 DEF Register!Commit

(* Every step of the store is a step of the register or leaves it alone. *)
LEMMA StepRefines ==
    IInv /\ IInv' /\ [Next]_vars => [Register!Next]_(Register!regVars)
<1> SUFFICES ASSUME IInv, IInv', [Next]_vars
             PROVE  [Register!Next]_(Register!regVars)
    OBVIOUS
<1>a. ASSUME UNCHANGED disk PROVE Log' = Log
    BY <1>a, LogUnchanged DEF disk
<1>1. ASSUME NEW w \in Writers, WriterStep(w)
      PROVE  [Register!Next]_(Register!regVars)
    <2>r. ASSUME Log' = Log, view' = [view EXCEPT ![w] = pointer]
          PROVE  Register!Next
        BY <2>r, TipIsPointer DEF Register!Next, Register!Read
    <2>f. ASSUME Log' = Log, view' = [view EXCEPT ![w] = Unknown]
          PROVE  Register!Next
        BY <2>f DEF Register!Next, Register!Forget
    <2>s. ASSUME Log' = Log, view' = view PROVE UNCHANGED Register!regVars
        BY <2>s DEF Register!regVars
    <2>1. CASE Load(w)
        BY <2>1, <1>a, <2>r DEF Load
    <2>2. CASE LoadRefused(w)
        BY <2>2, <1>a, <2>f DEF LoadRefused
    <2>3. CASE \E s \in States : CompareAndSwap(w, s)
        BY <2>3, <1>a, <2>s DEF CompareAndSwap
    <2>4. CASE \E s \in States : CompareAndSwapRefused(w, s)
        BY <2>4, <1>a, <2>f, <2>s DEF CompareAndSwapRefused
    <2>5. CASE PersistInitialState(w)
        BY <2>5, <1>a, <2>r DEF PersistInitialState
    <2>6. CASE WriteGeneration(w)
        BY <2>6, LogUnchanged, <2>s DEF WriteGeneration
    <2>7. CASE ReplacePointer(w)
        <3>1. candidate[w] \in States
            BY <2>7, Committing DEF ReplacePointer
        <3> QED
            BY <2>7, <3>1, ReplaceCommits DEF Register!Next
    <2>8. CASE Crash(w)
        BY <2>8, <1>a, <2>f DEF Crash
    <2> QED
        BY <1>1, <2>1, <2>2, <2>3, <2>4, <2>5, <2>6, <2>7, <2>8 DEF WriterStep
<1>2. ASSUME UNCHANGED <<disk, writers>> PROVE UNCHANGED Register!regVars
    BY <1>2, <1>a DEF writers, Register!regVars
<1>3. ASSUME NEW r \in Readers, ReaderStep(r) PROVE UNCHANGED <<disk, writers>>
    BY <1>3 DEF ReaderStep, ReadPointer, ListRecords
<1>4. ASSUME UNCHANGED vars PROVE UNCHANGED <<disk, writers>>
    BY <1>4 DEF vars, disk, writers
<1> QED
    BY <1>1, <1>2, <1>3, <1>4 DEF Next

(* The files, the pointer, the flock and the crashes of RunStateStore      *)
(* amount to a register with compare-and-swap: no commit is lost, applied  *)
(* twice, or applied on top of a generation its caller did not see.        *)
THEOREM Implementation == Spec => ImplementsRegister
<1>1. Init => Register!Init
    <2> SUFFICES ASSUME Init PROVE Register!Init
        OBVIOUS
    <2>1. IInv /\ pointer.revision = 0
        BY InitIInv DEF Init, NoPointer
    <2>2. Log = <<>>
        BY <2>1, LogType
    <2> QED
        BY <2>2 DEF Init, Register!Init
<1> QED
    BY <1>1, Invariance, StepRefines, PTL DEF Spec, ImplementsRegister, Register!Spec
=============================================================================
