--------------------------- MODULE PublicationProofs ---------------------------
(* What TLAPS proves of Publication, for every number of publishers, artifacts, *)
(* contents, requests and faults: no publication undoes another, what is visible*)
(* was made from what is visible beside it, and its tree is whole.              *)
EXTENDS Publication, FiniteSetTheorems, TLAPS

Numbers == [Artifacts -> Nat]
Version == [artifact : Artifacts, content : Contents, inputs : Numbers, parent : Nat]
PointerType == [revision : Nat, artifacts : Numbers]
Job == [phase : Phases, artifact : Artifacts, content : Contents,
        inputs : Numbers, parent : Nat, version : Nat,
        wanted : Files, open : Artifacts \cup {Nobody}, next : PointerType,
        outcome : {"none", "published", "refused", "immutable", "partial"}]

\* Types, without the bounds; what is visible exists.
Types ==
    /\ versions \in Seq(Version)
    /\ pointer \in PointerType
    /\ \A a \in Artifacts : Published(a) \in 0..Len(versions)
    /\ job \in [Publishers -> Job]

\* No version is named before every dependency of its artifact was found.
VersionsAreBased ==
    \A v \in 1..Len(versions) :
        \A d \in Requires[versions[v].artifact] : versions[v].inputs[d] # 0

Based(p) == job[p].phase \in {"parent", "name"} => Missing(p) = {}

\* A publisher past Stage works on a version of its artifact.
Named(p) ==
    job[p].phase \in {"stage", "validate", "checkpoint", "lock", "decide", "revision", "point"} =>
        /\ job[p].version \in 1..Len(versions)
        /\ versions[job[p].version].artifact = job[p].artifact

Holds(p) == job[p].phase \in {"decide", "revision", "point", "unlock"} => lock = p

Successor(p) == [revision |-> pointer.revision + 1,
                 artifacts |-> [pointer.artifacts EXCEPT ![job[p].artifact] = job[p].version]]

\* What Decide found is still so when the pointer is replaced: the lock is held.
Decided(p) ==
    job[p].phase \in {"revision", "point"} =>
        job[p].next = Successor(p) /\ Publishable(job[p].version)

Ready == \A p \in Publishers : Based(p) /\ Named(p) /\ Holds(p) /\ Decided(p)

IInv == Types /\ VersionsAreBased /\ Ready /\ VisibleIsClosed

-----------------------------------------------------------------------------

LEMMA IdleType == Idle \in Job
  <1>1. NoFiles \in Files
    BY DEF NoFiles, Files, FileStates
  <1>2. NoPointer \in PointerType
    BY DEF NoPointer, PointerType, Numbers
  <1>3. (CHOOSE a \in Artifacts : TRUE) \in Artifacts /\ (CHOOSE c \in Contents : TRUE) \in Contents
    BY PublicationAssumption
  <1>4. [a \in Artifacts |-> 0] \in Numbers
    BY DEF Numbers
  <1> QED
    BY <1>1, <1>2, <1>3, <1>4 DEF Idle, Job, Phases

LEMMA InitInv == Init => IInv
  <1> SUFFICES ASSUME Init PROVE IInv
    OBVIOUS
  <1>1. Types
    BY IdleType DEF Init, Types, NoPointer, PointerType, Numbers, Published
  <1>2. VersionsAreBased
    BY DEF Init, VersionsAreBased
  <1>3. Ready
    BY DEF Init, Ready, Based, Named, Holds, Decided, Idle
  <1>4. VisibleIsClosed
    BY DEF Init, VisibleIsClosed, Visible, Published, NoPointer
  <1> QED
    BY <1>1, <1>2, <1>3, <1>4 DEF IInv

-----------------------------------------------------------------------------
(* Steps *)

\* The other publishers do not notice a step that leaves names and pointer, and
\* takes the lock from none of them.
LEMMA LocalStep ==
    ASSUME IInv, NEW p \in Publishers, job' \in [Publishers -> Job],
           \A q \in Publishers \ {p} : job'[q] = job[q] /\ (lock = q => lock' = q),
           UNCHANGED <<versions, pointer>>,
           Based(p)', Named(p)', Holds(p)', Decided(p)'
    PROVE  IInv'
  <1>1. Types'
    BY DEF IInv, Types, Published
  <1>2. VersionsAreBased' /\ VisibleIsClosed'
    BY DEF IInv, VersionsAreBased, VisibleIsClosed, Visible, Published
  <1>3. ASSUME NEW q \in Publishers PROVE Based(q)' /\ Named(q)' /\ Holds(q)' /\ Decided(q)'
    <2>1. CASE q = p
      BY <2>1
    <2>2. CASE q # p
      <3>1. job'[q] = job[q] /\ Based(q) /\ Named(q) /\ Holds(q) /\ Decided(q)
        BY <2>2 DEF IInv, Ready
      <3> QED
        BY <3>1 DEF Based, Named, Holds, Decided, Missing, Successor, Publishable, Current,
                    Successive, StaleDependents, Visible, Published
    <2> QED
      BY <2>1, <2>2
  <1> QED
    BY <1>1, <1>2, <1>3 DEF IInv, Ready

\* Asking, refusing and giving up leave a publisher without obligations.
LEMMA IdleStep ==
    ASSUME IInv, NEW p \in Publishers, NEW o \in {"none", "published", "refused", "immutable", "partial"},
           job' = [job EXCEPT ![p] = [Idle EXCEPT !.outcome = o]],
           UNCHANGED <<versions, pointer, lock>>
    PROVE  IInv'
  <1>1. [Idle EXCEPT !.outcome = o] \in Job
    BY IdleType DEF Job
  <1>2. job' \in [Publishers -> Job] /\ job'[p].phase = "idle"
    BY <1>1 DEF IInv, Types, Idle
  <1>3. \A q \in Publishers \ {p} : job'[q] = job[q]
    BY DEF IInv, Types
  <1>4. Based(p)' /\ Named(p)' /\ Holds(p)' /\ Decided(p)'
    BY <1>2 DEF Based, Named, Holds, Decided
  <1> QED
    BY <1>2, <1>3, <1>4, LocalStep

\* Going on to a phase with no more obligations than the one before.
LEMMA PhaseStep ==
    ASSUME IInv, NEW p \in Publishers, NEW phase \in Phases,
           Goes(p, phase),
           UNCHANGED <<versions, pointer, lock>>,
           \/ phase \in {"new", "bind", "binding", "inputs"}
           \/ phase = "parent" /\ Missing(p) = {}
           \/ phase = "lock" /\ job[p].phase = "checkpoint"
           \/ phase = "validate" /\ job[p].phase = "stage"
           \/ phase = "checkpoint" /\ job[p].phase = "validate"
           \/ phase = "point" /\ job[p].phase = "revision"
    PROVE  IInv'
  <1>1. job' \in [Publishers -> Job] /\ job'[p] = [job[p] EXCEPT !.phase = phase]
    BY DEF IInv, Types, Goes, Job
  <1>2. \A q \in Publishers \ {p} : job'[q] = job[q]
    BY DEF IInv, Types, Goes
  <1>3. job[p] \in Job /\ Based(p) /\ Named(p) /\ Holds(p) /\ Decided(p)
    BY DEF IInv, Types, Ready
  <1>4. /\ job'[p].phase = phase /\ job'[p].version = job[p].version
        /\ job'[p].artifact = job[p].artifact /\ job'[p].inputs = job[p].inputs
        /\ job'[p].next = job[p].next
    BY <1>1, <1>3 DEF Job
  <1>5. Based(p)'
    BY <1>3, <1>4 DEF Based, Missing
  <1>6. Named(p)' /\ Holds(p)'
    BY <1>3, <1>4 DEF Named, Holds
  <1>7. Decided(p)'
    BY <1>3, <1>4 DEF Decided, Successor, Publishable, Current, Successive, StaleDependents, Visible, Published
  <1> QED
    BY <1>1, <1>2, <1>5, <1>6, <1>7, LocalStep

LEMMA AskInv == ASSUME IInv, NEW p \in Publishers, Ask(p) PROVE IInv'
  <1>1. PICK a \in Artifacts, c \in Contents :
            job' = [job EXCEPT ![p] = [Idle EXCEPT !.phase = "new", !.artifact = a, !.content = c]]
    BY DEF Ask
  <1>2. [Idle EXCEPT !.phase = "new", !.artifact = a, !.content = c] \in Job
    BY IdleType DEF Job, Phases
  <1>3. job' \in [Publishers -> Job] /\ job'[p].phase = "new" /\ \A q \in Publishers \ {p} : job'[q] = job[q]
    BY <1>1, <1>2 DEF IInv, Types, Idle
  <1>4. Based(p)' /\ Named(p)' /\ Holds(p)' /\ Decided(p)'
    BY <1>3 DEF Based, Named, Holds, Decided
  <1> QED
    BY <1>3, <1>4, LocalStep DEF Ask, disk

LEMMA ChangeInv == ASSUME IInv, NEW p \in Publishers, NewChange(p) \/ Bind(p) PROVE IInv'
  <1>1. UNCHANGED <<versions, pointer, lock>>
    BY DEF NewChange, Bind
  <1>2. Goes(p, "bind") \/ Goes(p, "binding") \/ Goes(p, "inputs") \/ Ends(p, "refused")
    BY DEF NewChange, Bind
  <1> QED
    BY <1>1, <1>2, PhaseStep, IdleStep DEF Ends, Phases

LEMMA ReadInv == ASSUME IInv, NEW p \in Publishers, ReadInput(p) \/ ReadParent(p) PROVE IInv'
  <1>0. UNCHANGED <<versions, pointer, lock>> /\ job \in [Publishers -> Job] /\ job[p] \in Job
    BY DEF ReadInput, ReadParent, disk, IInv, Types
  <1>1. CASE Missing(p) = {} /\ Goes(p, "parent")
    BY <1>0, <1>1, PhaseStep DEF Phases
  <1>2. CASE Ends(p, "refused")
    BY <1>0, <1>2, IdleStep DEF Ends
  <1>3. ASSUME At(p, "inputs"), NEW d \in Missing(p), job' = [job EXCEPT ![p].inputs[d] = Published(d)]
        PROVE  IInv'
    <2>1. d \in Artifacts /\ Published(d) \in Nat
      BY PublicationAssumption DEF Missing, Published, IInv, Types, Job, PointerType, Numbers
    <2>2. job[p].inputs \in Numbers /\ [job[p].inputs EXCEPT ![d] = Published(d)] \in Numbers
      BY <1>0, <2>1 DEF Job, Numbers
    <2>3. job'[p] \in Job /\ job'[p].phase = "inputs"
      BY <1>0, <1>3, <2>2 DEF Job, At
    <2>4. job' \in [Publishers -> Job] /\ \A q \in Publishers \ {p} : job'[q] = job[q]
      BY <1>0, <1>3, <2>3
    <2>5. Based(p)' /\ Named(p)' /\ Holds(p)' /\ Decided(p)'
      BY <2>3 DEF Based, Named, Holds, Decided
    <2> QED
      BY <1>0, <2>4, <2>5, LocalStep
  <1>4. CASE ReadParent(p)
    <2>1. Published(job[p].artifact) \in Nat
      BY <1>0 DEF Published, IInv, Types, Job, PointerType, Numbers
    <2>2. job'[p] = [job[p] EXCEPT !.phase = "name", !.parent = Published(job[p].artifact)]
      BY <1>0, <1>4 DEF ReadParent
    <2>3. job'[p] \in Job /\ job' \in [Publishers -> Job] /\ \A q \in Publishers \ {p} : job'[q] = job[q]
      BY <1>0, <1>4, <2>1, <2>2 DEF ReadParent, Job, Phases
    <2>4. /\ job'[p].phase = "name" /\ job'[p].artifact = job[p].artifact
          /\ job'[p].inputs = job[p].inputs /\ job[p].phase = "parent"
      BY <1>0, <1>4, <2>2 DEF Job, ReadParent, At
    <2>5. Based(p)'
      BY <2>4 DEF Based, Missing, IInv, Ready
    <2>6. Named(p)' /\ Holds(p)' /\ Decided(p)'
      BY <2>4 DEF Named, Holds, Decided
    <2> QED
      BY <1>0, <2>3, <2>5, <2>6, LocalStep
  <1> QED
    BY <1>1, <1>2, <1>3, <1>4 DEF ReadInput

\* The files of a complete tree are contents of versions.
LEMMA CompleteType ==
    ASSUME IInv, NEW a \in Artifacts, NEW c \in Contents
    PROVE  Complete(a, c) \in Files
  <1>1. ASSUME NEW b \in Visible PROVE ContentOf(Published(b)) \in Contents
    <2>1. versions \in Seq(Version) /\ Published(b) \in 1..Len(versions)
      BY DEF Visible, IInv, Types
    <2>2. versions[Published(b)] \in Version
      BY <2>1
    <2> QED
      BY <2>2 DEF ContentOf, Version
  <1> QED
    BY <1>1 DEF Complete, Files, FileStates

\* A new version takes the next number; nothing that is published changes.
LEMMA StageInv == ASSUME IInv, NEW p \in Publishers, Stage(p) PROVE IInv'
  <1> DEFINE known == {v \in DOMAIN versions : versions[v] = VersionOf(p)}
             v == IF known = {} THEN Len(versions) + 1 ELSE CHOOSE w \in known : TRUE
             wanted == Complete(job[p].artifact, job[p].content)
  <1>1. /\ UNCHANGED <<pointer, lock>> /\ job[p].phase = "name"
        /\ versions \in Seq(Version) /\ job \in [Publishers -> Job] /\ job[p] \in Job
    BY DEF Stage, IInv, Types, At
  <1>2. versions' = (IF known = {} THEN Append(versions, VersionOf(p)) ELSE versions)
    BY DEF Stage
  <1>3. job' = [job EXCEPT ![p].phase = "stage", ![p].version = v, ![p].wanted = wanted]
    BY DEF Stage
  <1>4. VersionOf(p) \in Version
    BY <1>1 DEF VersionOf, Version, Job
  <1>5. /\ versions' \in Seq(Version) /\ Len(versions) <= Len(versions')
        /\ \A w \in 1..Len(versions) : versions'[w] = versions[w]
        /\ \A w \in 1..Len(versions') : w \in 1..Len(versions) \/ versions'[w] = VersionOf(p)
    BY <1>1, <1>2, <1>4
  <1>6. v \in 1..Len(versions') /\ versions'[v] = VersionOf(p)
    <2>1. CASE known = {}
      BY <1>1, <1>2, <1>4, <2>1
    <2>2. CASE known # {}
      <3>1. v \in known
        BY <2>2
      <3> QED
        BY <1>1, <1>2, <2>2, <3>1
    <2> QED
      BY <2>1, <2>2
  <1> HIDE DEF v, known
  <1>7. Missing(p) = {}
    BY <1>1 DEF IInv, Ready, Based
  <1>8. VersionsAreBased'
    BY <1>1, <1>5, <1>7 DEF IInv, VersionsAreBased, VersionOf, Missing
  <1>9. wanted \in Files
    BY <1>1, CompleteType DEF Job
  <1>10. job'[p] = [job[p] EXCEPT !.phase = "stage", !.version = v, !.wanted = wanted]
    BY <1>1, <1>3
  <1>11. v \in Nat
    BY <1>5, <1>6
  <1> HIDE DEF wanted
  <1>12. job'[p] \in Job
    BY <1>1, <1>9, <1>10, <1>11 DEF Job, Phases
  <1>13. job' \in [Publishers -> Job] /\ \A q \in Publishers \ {p} : job'[q] = job[q]
    BY <1>1, <1>3, <1>12
  <1>14. job'[p].phase = "stage" /\ job'[p].version = v /\ job'[p].artifact = job[p].artifact
    BY <1>1, <1>10 DEF Job
  <1>15. Types'
    BY <1>1, <1>5, <1>13 DEF IInv, Types, Published
  <1>16. Visible' = Visible /\ \A a \in Artifacts : Published(a)' = Published(a)
    BY <1>1 DEF Visible, Published
  <1>17. \A a \in Visible : Published(a) \in 1..Len(versions) /\ versions'[Published(a)] = versions[Published(a)]
    BY <1>1, <1>5 DEF Visible, IInv, Types
  <1>18. VisibleIsClosed'
    BY <1>16, <1>17, PublicationAssumption DEF IInv, VisibleIsClosed, Visible
  <1>19. ASSUME NEW q \in Publishers PROVE Based(q)' /\ Named(q)' /\ Holds(q)' /\ Decided(q)'
    <2>1. CASE q = p
      BY <1>5, <1>6, <1>14, <2>1 DEF Based, Named, Holds, Decided, VersionOf
    <2>2. CASE q # p
      <3>1. job'[q] = job[q] /\ Based(q) /\ Named(q) /\ Holds(q) /\ Decided(q)
        BY <1>13, <2>2 DEF IInv, Ready
      <3>2. Based(q)' /\ Named(q)' /\ Holds(q)'
        BY <1>1, <1>5, <3>1 DEF Based, Named, Holds, Missing
      <3>3. Decided(q)'
        <4> SUFFICES ASSUME job[q].phase \in {"revision", "point"}
                     PROVE  job[q].next = Successor(q)' /\ Publishable(job[q].version)'
          BY <3>1 DEF Decided
        <4>1. job[q].version \in 1..Len(versions) /\ versions'[job[q].version] = versions[job[q].version]
          BY <1>5, <3>1 DEF Named
        <4>2. job[q].next = Successor(q)'
          BY <1>1, <3>1 DEF Decided, Successor
        <4>3. Current(job[q].version)' /\ Successive(job[q].version)'
          BY <1>1, <3>1, <4>1 DEF Decided, Publishable, Current, Successive, Published
        <4>4. StaleDependents(job[q].version)' = {}
          BY <1>16, <1>17, <3>1, <4>1 DEF Decided, Publishable, StaleDependents, Visible
        <4> QED
          BY <3>1, <4>2, <4>3, <4>4 DEF Publishable
      <3> QED
        BY <3>2, <3>3
    <2> QED
      BY <2>1, <2>2
  <1> QED
    BY <1>8, <1>15, <1>18, <1>19 DEF IInv, Ready

LEMMA RefuseInv ==
    ASSUME IInv, NEW p \in Publishers, NEW o \in {"refused", "immutable", "partial"},
           Refuse(p, o), UNCHANGED <<versions, pointer, lock>>
    PROVE  IInv'
  <1>1. CASE lock = p
    <2>1. job' = [job EXCEPT ![p].phase = "unlock", ![p].outcome = o]
      BY <1>1 DEF Refuse
    <2>2. job[p] \in Job /\ job \in [Publishers -> Job]
      BY DEF IInv, Types
    <2>3. job'[p] = [job[p] EXCEPT !.phase = "unlock", !.outcome = o]
      BY <2>1, <2>2
    <2>4. job'[p] \in Job /\ job'[p].phase = "unlock"
      BY <2>2, <2>3 DEF Job, Phases
    <2>5. job' \in [Publishers -> Job] /\ \A q \in Publishers \ {p} : job'[q] = job[q]
      BY <2>1, <2>2, <2>4
    <2>6. Based(p)' /\ Named(p)' /\ Holds(p)' /\ Decided(p)'
      BY <1>1, <2>4 DEF Based, Named, Holds, Decided
    <2> QED
      BY <2>5, <2>6, LocalStep
  <1>2. CASE lock # p
    BY <1>2, IdleStep DEF Refuse, Ends
  <1> QED
    BY <1>1, <1>2

LEMMA WriteInv == ASSUME IInv, NEW p \in Publishers, WriteFile(p) PROVE IInv'
  <1>1. /\ UNCHANGED <<versions, pointer, lock>> /\ job[p].phase \in {"stage", "revision"}
        /\ job \in [Publishers -> Job] /\ job[p] \in Job
    BY DEF WriteFile, IInv, Types
  <1>2. ASSUME NEW wanted \in Files, NEW o \in Artifacts \cup {Nobody},
               job' = [job EXCEPT ![p].wanted = wanted, ![p].open = o]
        PROVE  IInv'
    <2>1. job'[p] = [job[p] EXCEPT !.wanted = wanted, !.open = o]
      BY <1>1, <1>2
    <2>2. job'[p] \in Job
      BY <1>1, <2>1 DEF Job
    <2>3. job' \in [Publishers -> Job] /\ \A q \in Publishers \ {p} : job'[q] = job[q]
      BY <1>1, <1>2, <2>2
    <2>4. /\ job'[p].phase = job[p].phase /\ job'[p].version = job[p].version
          /\ job'[p].artifact = job[p].artifact /\ job'[p].next = job[p].next
      BY <1>1, <2>1 DEF Job
    <2>5. Based(p) /\ Named(p) /\ Holds(p) /\ Decided(p)
      BY DEF IInv, Ready
    <2>6. Based(p)' /\ Named(p)' /\ Holds(p)'
      BY <1>1, <2>4, <2>5 DEF Based, Named, Holds
    <2>7. Decided(p)'
      BY <1>1, <2>4, <2>5 DEF Decided, Successor, Publishable, Current, Successive, StaleDependents, Visible, Published
    <2> QED
      BY <1>1, <2>3, <2>6, <2>7, LocalStep
  <1>3. ASSUME NEW a \in Artifacts, job' = [job EXCEPT ![p].wanted[a] = Absent, ![p].open = Nobody]
        PROVE  IInv'
    <2>1. [job[p].wanted EXCEPT ![a] = Absent] \in Files
      BY <1>1 DEF Job, Files, FileStates
    <2>2. job' = [job EXCEPT ![p].wanted = [job[p].wanted EXCEPT ![a] = Absent], ![p].open = Nobody]
      BY <1>1, <1>3
    <2> QED
      BY <1>2, <2>1, <2>2
  <1>4. ASSUME NEW a \in Artifacts, job' = [job EXCEPT ![p].open = a]
        PROVE  IInv'
    <2>1. job' = [job EXCEPT ![p].wanted = job[p].wanted, ![p].open = a] /\ job[p].wanted \in Files
      BY <1>1, <1>4 DEF Job
    <2> QED
      BY <1>2, <2>1
  <1>5. ASSUME Refuse(p, "refused") \/ Refuse(p, "partial") \/ Refuse(p, "immutable")
        PROVE  IInv'
    BY <1>1, <1>5, RefuseInv
  <1>6. job[p].open # Nobody => job[p].open \in Artifacts
    BY <1>1 DEF Job
  <1> QED
    BY <1>3, <1>4, <1>5, <1>6 DEF WriteFile

LEMMA CheckInv ==
    ASSUME IInv, NEW p \in Publishers,
           Seal(p) \/ Validate(p) \/ CheckCheckpoint(p) \/ CheckRevision(p)
    PROVE  IInv'
  <1>1. CASE Seal(p) \/ Validate(p) \/ CheckCheckpoint(p)
    <2>1. UNCHANGED <<versions, pointer, lock>>
      BY <1>1 DEF Seal, Validate, CheckCheckpoint, disk
    <2>2. \/ Goes(p, "validate") /\ job[p].phase = "stage"
          \/ Goes(p, "checkpoint") /\ job[p].phase = "validate"
          \/ Goes(p, "lock") /\ job[p].phase = "checkpoint"
          \/ Ends(p, "refused")
      BY <1>1 DEF Seal, Written, Validate, CheckCheckpoint, At
    <2> QED
      BY <2>1, <2>2, PhaseStep, IdleStep DEF Phases, Ends
  <1>2. CASE CheckRevision(p)
    <2>1. UNCHANGED <<versions, pointer, lock>>
      BY <1>2 DEF CheckRevision, disk
    <2>2. (Goes(p, "point") /\ job[p].phase = "revision") \/ Refuse(p, "refused")
      BY <1>2 DEF CheckRevision, Written, At
    <2> QED
      BY <2>1, <2>2, PhaseStep, RefuseInv DEF Phases
  <1> QED
    BY <1>1, <1>2

LEMMA LockInv ==
    ASSUME IInv, NEW p \in Publishers, Lock(p) \/ Unlock(p) \/ Crash(p)
    PROVE  IInv'
  <1>1. /\ UNCHANGED <<versions, pointer>>
        /\ job \in [Publishers -> Job] /\ job[p] \in Job
        /\ Based(p) /\ Named(p) /\ Holds(p) /\ Decided(p)
    BY DEF Lock, Unlock, Crash, disk, IInv, Types, Ready
  <1>2. CASE Lock(p)
    <2>1. lock = Nobody /\ lock' = p /\ job[p].phase = "lock" /\ Goes(p, "decide")
      BY <1>2 DEF Lock, At
    <2>2. job'[p] = [job[p] EXCEPT !.phase = "decide"]
      BY <1>1, <2>1 DEF Goes
    <2>3. /\ job'[p] \in Job /\ job'[p].phase = "decide"
          /\ job'[p].version = job[p].version /\ job'[p].artifact = job[p].artifact
      BY <1>1, <2>2 DEF Job, Phases
    <2>4. /\ job' \in [Publishers -> Job]
          /\ \A q \in Publishers \ {p} : job'[q] = job[q] /\ (lock = q => lock' = q)
      BY <1>1, <2>1, <2>3, PublicationAssumption DEF Goes
    <2>5. Based(p)' /\ Named(p)' /\ Holds(p)' /\ Decided(p)'
      BY <1>1, <2>1, <2>3 DEF Based, Named, Holds, Decided
    <2> QED
      BY <1>1, <2>4, <2>5, LocalStep
  <1>3. ASSUME NEW idle \in Job, idle.phase = "idle", job' = [job EXCEPT ![p] = idle],
               lock = p \/ lock' = lock
        PROVE  IInv'
    <2>1. job'[p] = idle /\ job' \in [Publishers -> Job]
      BY <1>1, <1>3
    <2>2. \A q \in Publishers \ {p} : job'[q] = job[q] /\ (lock = q => lock' = q)
      BY <1>1, <1>3
    <2>3. Based(p)' /\ Named(p)' /\ Holds(p)' /\ Decided(p)'
      BY <1>3, <2>1 DEF Based, Named, Holds, Decided
    <2> QED
      BY <1>1, <2>1, <2>2, <2>3, LocalStep
  <1>4. CASE Unlock(p)
    <2>1. lock = p /\ job' = [job EXCEPT ![p] = [Idle EXCEPT !.outcome = job[p].outcome]]
      BY <1>1, <1>4 DEF Unlock, Ends, Holds, At
    <2>2. [Idle EXCEPT !.outcome = job[p].outcome] \in Job
      BY <1>1, IdleType DEF Job
    <2>3. [Idle EXCEPT !.outcome = job[p].outcome].phase = "idle"
      BY DEF Idle
    <2> QED
      BY <1>3, <2>1, <2>2, <2>3
  <1>5. CASE Crash(p)
    <2>1. (lock = p \/ lock' = lock) /\ job' = [job EXCEPT ![p] = Idle]
      BY <1>5 DEF Crash
    <2>2. Idle.phase = "idle"
      BY DEF Idle
    <2> QED
      BY <1>3, <2>1, <2>2, IdleType
  <1> QED
    BY <1>2, <1>4, <1>5

\* Under the lock the decision is made on the current pointer.
LEMMA DecideInv == ASSUME IInv, NEW p \in Publishers, Decide(p) PROVE IInv'
  <1> DEFINE v == job[p].version
             a == job[p].artifact
             wanted == Complete(a, job[p].content)
  <1>1. /\ UNCHANGED <<versions, pointer, lock>> /\ job[p].phase = "decide"
        /\ job \in [Publishers -> Job] /\ job[p] \in Job
        /\ Based(p) /\ Named(p) /\ Holds(p)
    BY DEF Decide, disk, At, IInv, Types, Ready
  <1>2. lock = p /\ v \in 1..Len(versions) /\ versions[v].artifact = a
    BY <1>1 DEF Holds, Named
  <1>3. CASE job' = [job EXCEPT ![p].phase = "unlock", ![p].outcome = "published"]
    <2>1. job'[p] = [job[p] EXCEPT !.phase = "unlock", !.outcome = "published"]
      BY <1>1, <1>3
    <2>2. job'[p] \in Job /\ job'[p].phase = "unlock"
      BY <1>1, <2>1 DEF Job, Phases
    <2>3. job' \in [Publishers -> Job] /\ \A q \in Publishers \ {p} : job'[q] = job[q]
      BY <1>1, <1>3, <2>2
    <2>4. Based(p)' /\ Named(p)' /\ Holds(p)' /\ Decided(p)'
      BY <1>1, <1>2, <2>2 DEF Based, Named, Holds, Decided
    <2> QED
      BY <1>1, <2>3, <2>4, LocalStep
  <1>4. CASE Refuse(p, "refused")
    BY <1>1, <1>4, RefuseInv
  <1>5. ASSUME Publishable(v),
               job' = [job EXCEPT ![p].phase = "revision", ![p].next = Successor(p), ![p].wanted = wanted]
        PROVE  IInv'
    <2>1. wanted \in Files
      BY <1>1, CompleteType DEF Job
    <2>2. Successor(p) \in PointerType
      BY <1>1, <1>2 DEF Successor, PointerType, Numbers, IInv, Types, Job
    <2>3. job'[p] = [job[p] EXCEPT !.phase = "revision", !.next = Successor(p), !.wanted = wanted]
      BY <1>1, <1>5
    <2> HIDE DEF wanted
    <2>4. job'[p] \in Job
      BY <1>1, <2>1, <2>2, <2>3 DEF Job, Phases
    <2>5. /\ job'[p].phase = "revision" /\ job'[p].next = Successor(p)
          /\ job'[p].version = v /\ job'[p].artifact = a
      BY <1>1, <2>3 DEF Job
    <2>6. job' \in [Publishers -> Job] /\ \A q \in Publishers \ {p} : job'[q] = job[q]
      BY <1>1, <1>5, <2>4
    <2>7. Based(p)' /\ Named(p)' /\ Holds(p)'
      BY <1>1, <1>2, <2>5 DEF Based, Named, Holds
    <2>8. Successor(p)' = Successor(p)
      BY <1>1, <2>5 DEF Successor
    <2>9. Publishable(v)' = Publishable(v)
      BY <1>1, <2>5 DEF Publishable, Current, Successive, StaleDependents, Visible, Published
    <2>10. Decided(p)'
      BY <1>1, <1>5, <2>5, <2>8, <2>9 DEF Decided, Publishable, Current, Successive, StaleDependents, Visible, Published
    <2> QED
      BY <1>1, <2>6, <2>7, <2>10, LocalStep
  <1> QED
    BY <1>3, <1>4, <1>5 DEF Decide, Successor

\* What the pointer's replacement does: the decision still holds.
LEMMA PointEffect ==
    ASSUME IInv, NEW p \in Publishers, Point(p)
    PROVE  /\ lock = p /\ job[p] \in Job
           /\ job[p].version \in 1..Len(versions)
           /\ versions[job[p].version].artifact = job[p].artifact
           /\ Publishable(job[p].version)
           /\ pointer' = Successor(p)
           /\ UNCHANGED <<versions, lock>>
  <1>1. Holds(p) /\ Named(p) /\ Decided(p) /\ job[p] \in Job
    BY DEF IInv, Types, Ready
  <1> QED
    BY <1>1 DEF Point, At, Holds, Named, Decided

LEMMA PointInv == ASSUME IInv, NEW p \in Publishers, Point(p) PROVE IInv'
  <1> DEFINE v == job[p].version
             a == job[p].artifact
  <1>1. /\ lock = p /\ v \in 1..Len(versions) /\ versions[v].artifact = a /\ Publishable(v)
        /\ pointer' = Successor(p) /\ UNCHANGED <<versions, lock>>
        /\ job[p] \in Job /\ a \in Artifacts
    BY PointEffect DEF Job
  <1>2. pointer \in PointerType /\ versions \in Seq(Version) /\ job \in [Publishers -> Job]
    BY DEF IInv, Types
  <1>3. pointer' \in PointerType
    BY <1>1, <1>2 DEF Successor, PointerType, Numbers
  <1>4. \A b \in Artifacts : Published(b)' = IF b = a THEN v ELSE Published(b)
    BY <1>1, <1>2 DEF Successor, Published, PointerType, Numbers
  <1>5. job' = [job EXCEPT ![p].phase = "unlock", ![p].outcome = "published"]
    BY DEF Point
  <1>6. job'[p] = [job[p] EXCEPT !.phase = "unlock", !.outcome = "published"]
    BY <1>2, <1>5
  <1>7. job'[p] \in Job /\ job'[p].phase = "unlock"
    BY <1>1, <1>6 DEF Job, Phases
  <1>8. job' \in [Publishers -> Job] /\ \A q \in Publishers \ {p} : job'[q] = job[q]
    BY <1>2, <1>5, <1>7
  <1>9. Types'
    BY <1>1, <1>2, <1>3, <1>4, <1>8 DEF IInv, Types
  <1>10. VersionsAreBased'
    BY <1>1 DEF IInv, VersionsAreBased
  <1>11. ASSUME NEW q \in Publishers PROVE Based(q)' /\ Named(q)' /\ Holds(q)' /\ Decided(q)'
    <2>1. CASE q = p
      BY <1>1, <1>7, <2>1 DEF Based, Named, Holds, Decided
    <2>2. CASE q # p
      <3>1. job'[q] = job[q] /\ Based(q) /\ Named(q) /\ Holds(q)
        BY <1>8, <2>2 DEF IInv, Ready
      <3>2. job[q].phase \notin {"decide", "revision", "point", "unlock"}
        BY <1>1, <2>2, <3>1 DEF Holds
      <3> QED
        BY <1>1, <3>1, <3>2 DEF Based, Named, Holds, Decided, Missing
    <2> QED
      BY <2>1, <2>2
  <1>12. VisibleIsClosed'
    <2> SUFFICES ASSUME NEW b \in Artifacts, Published(b)' # 0, NEW d \in Requires[b]
                 PROVE  Published(d)' # 0 /\ d \in Artifacts /\ versions[Published(b)'].inputs[d] = Published(d)'
      BY <1>1 DEF VisibleIsClosed, Visible, Published
    <2>1. d \in Artifacts /\ d # b
      BY PublicationAssumption
    <2>2. CASE b = a
      <3>1. Published(b)' = v /\ Published(d)' = Published(d)
        BY <1>4, <2>1, <2>2
      <3>2. versions[v].inputs[d] = Published(d)
        BY <1>1, <2>2 DEF Publishable, Current
      <3>3. versions[v].inputs[d] # 0
        BY <1>1, <2>2 DEF IInv, VersionsAreBased
      <3> QED
        BY <2>1, <3>1, <3>2, <3>3
    <2>3. CASE b # a
      <3>1. Published(b)' = Published(b) /\ b \in Visible
        BY <1>4, <2>3 DEF Visible
      <3>2. Published(d) # 0 /\ versions[Published(b)].inputs[d] = Published(d)
        BY <3>1 DEF IInv, VisibleIsClosed, Visible
      <3>3. CASE d = a
        <4>1. versions[Published(b)].inputs[a] = v
          BY <1>1, <2>3, <3>1, <3>3 DEF Publishable, StaleDependents
        <4> QED
          BY <1>1, <1>4, <2>1, <3>1, <3>3, <4>1
      <3>4. CASE d # a
        BY <1>4, <2>1, <3>1, <3>2, <3>4
      <3> QED
        BY <3>3, <3>4
    <2> QED
      BY <2>2, <2>3
  <1> QED
    BY <1>9, <1>10, <1>11, <1>12 DEF IInv, Ready

-----------------------------------------------------------------------------

LEMMA StepInv == IInv /\ [Next]_vars => IInv'
  <1> SUFFICES ASSUME IInv, [Next]_vars PROVE IInv'
    OBVIOUS
  <1>1. ASSUME NEW p \in Publishers, Ask(p) \/ Step(p) \/ Crash(p) PROVE IInv'
    BY <1>1, AskInv, ChangeInv, ReadInv, StageInv, WriteInv, CheckInv, LockInv, DecideInv, PointInv DEF Step
  <1>2. CASE UNCHANGED vars
    <2>1. UNCHANGED <<versions, pointer, lock, job>>
      BY <1>2 DEF vars, disk
    <2> QED
      BY <2>1 DEF IInv, Types, VersionsAreBased, Ready, Based, Named, Holds, Decided, Missing, Successor,
                  Publishable, Current, Successive, StaleDependents, VisibleIsClosed, Visible, Published
  <1> QED
    BY <1>1, <1>2 DEF Next

\* The pointer is only replaced by Point, and then by the decided successor.
LEMMA PointerMoves ==
    ASSUME IInv, [Next]_vars, pointer' # pointer
    PROVE  \E p \in Publishers : Point(p)
  BY DEF Next, Step, Ask, NewChange, Bind, ReadInput, ReadParent, Stage, WriteFile, Seal, Validate,
         CheckCheckpoint, Lock, Decide, CheckRevision, Unlock, Crash, disk, vars

LEMMA Succeeds ==
    ASSUME IInv, [Next]_vars, pointer' # pointer
    PROVE  /\ pointer'.revision = pointer.revision + 1
           /\ \E a \in Artifacts :
                 /\ \A b \in Artifacts \ {a} : pointer'.artifacts[b] = pointer.artifacts[b]
                 /\ versions[pointer'.artifacts[a]].parent = pointer.artifacts[a]
  <1>1. PICK p \in Publishers : Point(p)
    BY PointerMoves
  <1>2. /\ pointer' = Successor(p) /\ job[p].artifact \in Artifacts
        /\ Publishable(job[p].version) /\ versions[job[p].version].artifact = job[p].artifact
    BY <1>1, PointEffect DEF Job
  <1>3. pointer.artifacts \in Numbers
    BY DEF IInv, Types, PointerType
  <1>4. pointer'.artifacts[job[p].artifact] = job[p].version /\ pointer'.revision = pointer.revision + 1
    BY <1>2, <1>3 DEF Successor, Numbers
  <1>5. \A b \in Artifacts \ {job[p].artifact} : pointer'.artifacts[b] = pointer.artifacts[b]
    BY <1>2, <1>3 DEF Successor, Numbers
  <1>6. versions[job[p].version].parent = pointer.artifacts[job[p].artifact]
    BY <1>2 DEF Publishable, Successive, Published
  <1> QED
    BY <1>2, <1>4, <1>5, <1>6

-----------------------------------------------------------------------------
(* Theorems *)

LEMMA Inductive == Spec => []IInv
  BY InitInv, StepInv, PTL DEF Spec

\* No publisher undoes what another published while it was staging: each visible
\* revision is the next one, with one artifact replaced by a version that was
\* made to replace it (publish_artifact, under .publish.lock).
THEOREM PublicationsNeverGoBack == Spec => NeverBack
  <1>1. IInv /\ [Next]_vars =>
            [pointer' # pointer =>
                /\ pointer'.revision = pointer.revision + 1
                /\ \E a \in Artifacts :
                      /\ \A b \in Artifacts \ {a} : pointer'.artifacts[b] = pointer.artifacts[b]
                      /\ versions[pointer'.artifacts[a]].parent = pointer.artifacts[a]]_vars
    BY Succeeds
  <1> QED
    BY <1>1, Inductive, PTL DEF Spec, NeverBack

\* A visible artifact was made from the versions visible beside it, although its
\* dependencies were read without the lock (_revalidate_published_prerequisites,
\* _reject_stale_published_dependents).
THEOREM VisibleStaysClosed == Spec => []VisibleIsClosed
  <1>1. IInv => VisibleIsClosed
    BY DEF IInv
  <1> QED
    BY <1>1, Inductive, PTL

-----------------------------------------------------------------------------
(* What is visible is whole: a second invariant, on top of the first.           *)

NamedVersion == [artifact : Artifacts, content : Contents, inputs : [Artifacts -> Names], parent : Names]
NamedJob == [phase : Phases, artifact : Artifacts, content : Contents,
             inputs : [Artifacts -> Names], parent : Names, version : Names,
             wanted : Files, open : Artifacts \cup {Nobody}, next : Pointers,
             outcome : {"none", "published", "refused", "immutable", "partial"}]

\* Every request names one version at most, and replaces the pointer once at most.
Naming == {p \in Publishers : job[p].phase \in {"new", "bind", "binding", "inputs", "parent", "name"}}
Busy == {p \in Publishers : job[p].phase \notin {"idle", "unlock"}}
Counted ==
    /\ IsFiniteSet(Busy)
    /\ Len(versions) + Cardinality(Naming) <= requests
    /\ pointer.revision + Cardinality(Busy) <= requests

\* What the tree of a revision is to hold.
Target(n) == [a \in Artifacts |-> IF n.artifacts[a] # 0 THEN ContentOf(n.artifacts[a]) ELSE Absent]

\* The files still wanted are the missing ones; one of them may be open.
WritesHold(p) ==
    LET n == job[p].next
    IN  \A a \in Artifacts :
            /\ job[p].wanted[a] \in {Absent, Target(n)[a]}
            /\ job[p].wanted[a] = Absent => RevisionFiles(n)[a] = Target(n)[a]

Prepared(p) ==
    LET phase == job[p].phase
        v == job[p].version
    IN  /\ phase \in {"stage", "validate", "checkpoint", "lock", "decide", "revision", "point"} =>
              ContentOf(v) = job[p].content
        /\ phase = "validate" => v \in sealed
        /\ phase \in {"lock", "decide", "revision", "point"} => v \in receipts
        /\ phase = "revision" => WritesHold(p)
        /\ phase = "point" => RevisionFiles(job[p].next) = Target(job[p].next)
        /\ job[p].open # Nobody =>
              phase = "unlock" \/ (phase \in {"stage", "revision"} /\ job[p].wanted[job[p].open] # Absent)

\* No tree holds a file of an artifact that its revision does not have.
TreesHold ==
    \A r \in revisions, a \in Artifacts : r.pointer.artifacts[a] = 0 => r.files[a] = Absent

VisibleIsWhole ==
    /\ pointer # NoPointer => RevisionFiles(pointer) = Target(pointer)
    /\ \A a \in Visible : versions[Published(a)].artifact = a /\ Published(a) \in receipts

Whole == TypeOK /\ Counted /\ TreesHold /\ VisibleIsWhole /\ \A p \in Publishers : Prepared(p)

\* TypeOK but for the jobs.
StoreOK ==
    /\ change \in BOOLEAN /\ owner \in {Absent, Partial, "run"}
    /\ versions \in Seq(NamedVersion)
    /\ trees \in Seq(Files) /\ Len(trees) = Len(versions) /\ Len(versions) <= MaxRequests
    /\ sealed \subseteq DOMAIN versions /\ receipts \subseteq sealed
    /\ pointer \in Pointers
    /\ revisions \subseteq [pointer : Pointers, files : Files]
    /\ lock \in Publishers \cup {Nobody}
    /\ requests \in 0..MaxRequests /\ faults \in 0..MaxFaults

\* What was named, sealed and validated stays so.
Grows ==
    /\ \A v \in 1..Len(versions) : v \in 1..Len(versions') /\ versions'[v] = versions[v]
    /\ sealed \subseteq sealed' /\ receipts \subseteq receipts'

LEMMA TypeParts == TypeOK <=> StoreOK /\ job \in [Publishers -> NamedJob]
  BY DEF TypeOK, StoreOK, NamedVersion, NamedJob

LEMMA IdleNamed == /\ Idle \in NamedJob /\ Idle.phase = "idle" /\ Idle.open = Nobody
                   /\ NoPointer \in Pointers
  <1>1. NoFiles \in Files
    BY DEF NoFiles, Files, FileStates
  <1>2. 0 \in Names
    BY PublicationAssumption DEF Names
  <1>3. NoPointer \in Pointers
    BY <1>2 DEF NoPointer, Pointers
  <1>4. (CHOOSE a \in Artifacts : TRUE) \in Artifacts /\ (CHOOSE c \in Contents : TRUE) \in Contents
    BY PublicationAssumption
  <1>5. [a \in Artifacts |-> 0] \in [Artifacts -> Names]
    BY <1>2
  <1> QED
    BY <1>1, <1>2, <1>3, <1>4, <1>5 DEF Idle, NamedJob, Phases

\* The version of a publisher that has one, and those that are visible.
LEMMA VersionsKnown ==
    ASSUME IInv, TypeOK
    PROVE  /\ \A v \in 1..Len(versions) : versions[v] \in NamedVersion /\ ContentOf(v) \in Contents /\ v \in Names
           /\ \A a \in Artifacts : Published(a) \in 0..Len(versions) /\ Published(a) \in Names
           /\ \A p \in Publishers : job[p].phase \in {"revision", "point"} =>
                 \A a \in Artifacts : job[p].next.artifacts[a] \in 0..Len(versions)
  <1>1. StoreOK /\ Types /\ Len(versions) \in Nat /\ MaxRequests \in Nat
    BY TypeParts, PublicationAssumption DEF IInv, Types
  <1>2. \A v \in 1..Len(versions) : versions[v] \in NamedVersion
    BY <1>1 DEF StoreOK
  <1>3. \A v \in 1..Len(versions) : ContentOf(v) \in Contents /\ v \in Names
    BY <1>1, <1>2 DEF NamedVersion, ContentOf, StoreOK, Names
  <1>4. \A a \in Artifacts : Published(a) \in 0..Len(versions) /\ Published(a) \in Names
    BY <1>1 DEF Types, StoreOK, Names
  <1>5. ASSUME NEW p \in Publishers, job[p].phase \in {"revision", "point"}, NEW a \in Artifacts
        PROVE  job[p].next.artifacts[a] \in 0..Len(versions)
    <2>1. job[p].next = Successor(p) /\ job[p].version \in 1..Len(versions)
      BY <1>5 DEF IInv, Ready, Decided, Named
    <2>2. pointer.artifacts \in Numbers
      BY <1>1 DEF Types, PointerType
    <2>3. Successor(p).artifacts[a] \in {pointer.artifacts[a], job[p].version}
      BY <2>2 DEF Successor, Numbers
    <2> QED
      BY <1>1, <1>4, <2>1, <2>3 DEF Published
  <1> QED
    BY <1>2, <1>3, <1>4, <1>5

LEMMA TargetKept ==
    ASSUME Grows, NEW n, \A a \in Artifacts : n.artifacts[a] \in 0..Len(versions), Len(versions) \in Nat
    PROVE  [a \in Artifacts |-> IF n.artifacts[a] # 0 THEN versions'[n.artifacts[a]].content ELSE Absent] = Target(n)
  <1>1. ASSUME NEW a \in Artifacts, n.artifacts[a] # 0
        PROVE  versions'[n.artifacts[a]].content = ContentOf(n.artifacts[a])
    BY <1>1 DEF Grows, ContentOf
  <1> QED
    BY <1>1 DEF Target

\* A publisher that does nothing keeps its tree, unless that is written to.
LEMMA OthersPrepared ==
    ASSUME IInv, TypeOK, Grows, NEW q \in Publishers, Prepared(q), job'[q] = job[q],
           job[q].phase \in {"revision", "point"} => UNCHANGED revisions
    PROVE  Prepared(q)'
  <1>1. Named(q) /\ Len(versions) \in Nat
    BY DEF IInv, Types, Ready
  <1>2. job[q].phase \in {"stage", "validate", "checkpoint", "lock", "decide", "revision", "point"} =>
           ContentOf(job[q].version)' = ContentOf(job[q].version)
    BY <1>1 DEF Named, Grows, ContentOf
  <1>3. job[q].phase \in {"revision", "point"} => Target(job[q].next)' = Target(job[q].next)
    BY <1>1, VersionsKnown, TargetKept DEF Target, ContentOf
  <1>4. UNCHANGED revisions => RevisionFiles(job[q].next)' = RevisionFiles(job[q].next)
    BY DEF RevisionFiles
  <1>5. /\ job[q].phase \in {"stage", "validate", "checkpoint", "lock", "decide", "revision", "point"} =>
              ContentOf(job[q].version)' = job'[q].content
        /\ job[q].phase = "validate" => job'[q].version \in sealed'
        /\ job[q].phase \in {"lock", "decide", "revision", "point"} => job'[q].version \in receipts'
    BY <1>2 DEF Prepared, Grows
  <1>6. job[q].phase = "revision" => WritesHold(q)'
    BY <1>3, <1>4 DEF Prepared, WritesHold
  <1>7. job[q].phase = "point" => RevisionFiles(job[q].next)' = Target(job[q].next)'
    BY <1>3, <1>4 DEF Prepared
  <1> QED
    BY <1>5, <1>6, <1>7 DEF Prepared

LEMMA NamingIsBusy == Naming \subseteq Busy
  BY DEF Naming, Busy

\* One publisher's step that begins nothing leaves the counts as they are.
LEMMA CountsKept ==
    ASSUME Counted, TypeOK, NEW p \in Publishers,
           \A q \in Publishers \ {p} : job'[q] = job[q],
           UNCHANGED <<requests, versions, pointer>>,
           p \in Naming' => p \in Naming, p \in Busy' => p \in Busy
    PROVE  Counted'
  <1>1. Naming' \in SUBSET Naming /\ Busy' \in SUBSET Busy
    BY DEF Naming, Busy
  <1>2. IsFiniteSet(Busy) /\ IsFiniteSet(Naming)
    BY NamingIsBusy, FS_Subset DEF Counted
  <1>3. /\ IsFiniteSet(Busy') /\ Cardinality(Busy') <= Cardinality(Busy)
        /\ IsFiniteSet(Naming') /\ Cardinality(Naming') <= Cardinality(Naming)
    BY <1>1, <1>2, FS_Subset
  <1>4. /\ Cardinality(Busy) \in Nat /\ Cardinality(Busy') \in Nat
        /\ Cardinality(Naming) \in Nat /\ Cardinality(Naming') \in Nat
    BY <1>2, <1>3, FS_CardinalityType
  <1>5. Len(versions) \in Nat /\ pointer.revision \in Nat /\ requests \in Nat
    BY PublicationAssumption DEF TypeOK, Pointers, Names
  <1> QED
    BY <1>3, <1>4, <1>5 DEF Counted

\* A step of one publisher that names nothing and leaves the revisions alone.
LEMMA QuietStep ==
    ASSUME IInv, Whole, NEW p \in Publishers, NEW j \in NamedJob, job' = [job EXCEPT ![p] = j],
           UNCHANGED <<versions, pointer, revisions, requests>>, StoreOK',
           sealed \subseteq sealed', receipts \subseteq receipts',
           p \in Naming' => p \in Naming, p \in Busy' => p \in Busy,
           Prepared(p)'
    PROVE  Whole'
  <1>1. job \in [Publishers -> NamedJob] /\ TypeOK
    BY TypeParts DEF Whole
  <1>2. job' \in [Publishers -> NamedJob] /\ \A q \in Publishers \ {p} : job'[q] = job[q]
    BY <1>1
  <1>3. TypeOK'
    BY <1>2 DEF StoreOK, TypeOK, NamedVersion, NamedJob
  <1>4. Counted'
    BY <1>1, <1>2, CountsKept DEF Whole
  <1>5. TreesHold'
    BY DEF Whole, TreesHold
  <1>6. VisibleIsWhole'
    BY DEF Whole, VisibleIsWhole, RevisionFiles, Target, ContentOf, Visible, Published
  <1>7. Grows
    BY <1>1 DEF Grows
  <1>8. \A q \in Publishers : Prepared(q)'
    BY <1>1, <1>2, <1>7, OthersPrepared DEF Whole
  <1> QED
    BY <1>3, <1>4, <1>5, <1>6, <1>8 DEF Whole

\* A publisher without a tree has nothing to answer for.
LEMMA EasyStep ==
    ASSUME IInv, Whole, NEW p \in Publishers, NEW j \in NamedJob, job' = [job EXCEPT ![p] = j],
           UNCHANGED <<versions, pointer, revisions, requests>>, StoreOK',
           sealed \subseteq sealed', receipts \subseteq receipts',
           \/ j.phase \in {"idle", "unlock"}
           \/ /\ j.phase \in {"new", "bind", "binding", "inputs", "parent", "name"}
              /\ p \in Naming
           \/ /\ j.phase \in {"checkpoint", "lock", "decide"}
              /\ job[p].phase \notin {"idle", "unlock"}
              /\ ContentOf(job[p].version) = job[p].content
              /\ j.version = job[p].version /\ j.content = job[p].content
              /\ j.phase \in {"lock", "decide"} => j.version \in receipts',
           j.open = Nobody \/ j.phase = "unlock"
    PROVE  Whole'
  <1>1. job'[p] = j
    BY TypeParts DEF Whole
  <1>2. Prepared(p)'
    BY <1>1 DEF Prepared, ContentOf
  <1>3. (p \in Naming' => p \in Naming) /\ (p \in Busy' => p \in Busy)
    BY <1>1, NamingIsBusy DEF Naming, Busy
  <1> QED
    BY <1>2, <1>3, QuietStep

\* Refusals and the ways out.
LEMMA EndsWhole ==
    ASSUME IInv, Whole, NEW p \in Publishers, NEW o \in {"none", "published", "refused", "immutable", "partial"},
           Ends(p, o), UNCHANGED <<versions, pointer, revisions, requests>>, StoreOK',
           sealed \subseteq sealed', receipts \subseteq receipts'
    PROVE  Whole'
  <1>1. [Idle EXCEPT !.outcome = o] \in NamedJob
    BY IdleNamed DEF NamedJob
  <1>2. [Idle EXCEPT !.outcome = o].phase = "idle" /\ [Idle EXCEPT !.outcome = o].open = Nobody
    BY DEF Idle
  <1> QED
    BY <1>1, <1>2, EasyStep DEF Ends

LEMMA UnlockWhole ==
    ASSUME IInv, Whole, NEW p \in Publishers, NEW o \in {"none", "published", "refused", "immutable", "partial"},
           job' = [job EXCEPT ![p].phase = "unlock", ![p].outcome = o],
           UNCHANGED <<versions, pointer, revisions, requests>>, StoreOK',
           sealed \subseteq sealed', receipts \subseteq receipts'
    PROVE  Whole'
  <1>1. job \in [Publishers -> NamedJob] /\ job[p] \in NamedJob
    BY TypeParts DEF Whole
  <1>2. PICK j \in NamedJob : j = [job[p] EXCEPT !.phase = "unlock", !.outcome = o]
    <2>1. [job[p] EXCEPT !.phase = "unlock", !.outcome = o] \in NamedJob
      BY <1>1 DEF NamedJob, Phases
    <2> QED
      BY <2>1
  <1>3. j.phase = "unlock" /\ job' = [job EXCEPT ![p] = j]
    BY <1>1, <1>2 DEF NamedJob
  <1> QED
    BY <1>2, <1>3, EasyStep

LEMMA RefuseWhole ==
    ASSUME IInv, Whole, NEW p \in Publishers, NEW o \in {"refused", "immutable", "partial"},
           Refuse(p, o), UNCHANGED <<versions, pointer, revisions, requests>>, StoreOK',
           sealed \subseteq sealed', receipts \subseteq receipts'
    PROVE  Whole'
  BY EndsWhole, UnlockWhole DEF Refuse

\* Going on; a publisher that writes no tree has no file open.
LEMMA GoesWhole ==
    ASSUME IInv, Whole, NEW p \in Publishers, NEW phase \in Phases,
           Goes(p, phase), UNCHANGED <<versions, pointer, revisions, requests>>, StoreOK',
           sealed \subseteq sealed', receipts \subseteq receipts',
           job[p].open = Nobody,
           \/ phase \in {"new", "bind", "binding", "inputs", "parent", "name"} /\ p \in Naming
           \/ phase = "checkpoint" /\ job[p].phase = "validate"
           \/ /\ phase \in {"lock", "decide"} /\ job[p].phase \in {"checkpoint", "lock"}
              /\ job[p].version \in receipts
    PROVE  Whole'
  <1>1. job \in [Publishers -> NamedJob] /\ job[p] \in NamedJob /\ Prepared(p)
    BY TypeParts DEF Whole
  <1>2. PICK j \in NamedJob : j = [job[p] EXCEPT !.phase = phase]
    <2>1. [job[p] EXCEPT !.phase = phase] \in NamedJob
      BY <1>1 DEF NamedJob
    <2> QED
      BY <2>1
  <1>3. /\ job' = [job EXCEPT ![p] = j] /\ j.phase = phase /\ j.open = Nobody
        /\ j.version = job[p].version /\ j.content = job[p].content
    BY <1>1, <1>2 DEF Goes, NamedJob
  <1>4. job[p].phase \in {"validate", "checkpoint", "lock"} => ContentOf(job[p].version) = job[p].content
    BY <1>1 DEF Prepared
  <1> QED
    BY <1>2, <1>3, <1>4, EasyStep

\* A request counts for one name and one publication.
LEMMA AskWhole == ASSUME IInv, Whole, NEW p \in Publishers, Ask(p) PROVE Whole'
  <1>1. PICK a \in Artifacts, c \in Contents :
            job' = [job EXCEPT ![p] = [Idle EXCEPT !.phase = "new", !.artifact = a, !.content = c]]
    BY DEF Ask
  <1>2. PICK j \in NamedJob : j = [Idle EXCEPT !.phase = "new", !.artifact = a, !.content = c]
    <2>1. [Idle EXCEPT !.phase = "new", !.artifact = a, !.content = c] \in NamedJob
      BY IdleNamed DEF NamedJob, Phases
    <2> QED
      BY <2>1
  <1>3. j.phase = "new" /\ j.open = Nobody /\ job' = [job EXCEPT ![p] = j]
    BY <1>1, <1>2 DEF Idle
  <1>4. /\ job \in [Publishers -> NamedJob] /\ TypeOK /\ StoreOK /\ MaxRequests \in Nat
        /\ job[p].phase = "idle" /\ requests < MaxRequests /\ requests' = requests + 1
        /\ UNCHANGED <<change, owner, versions, trees, sealed, receipts, pointer, revisions, lock, faults>>
    BY TypeParts, PublicationAssumption DEF Whole, Ask, At, disk
  <1>5. job' \in [Publishers -> NamedJob] /\ job'[p] = j /\ \A q \in Publishers \ {p} : job'[q] = job[q]
    BY <1>3, <1>4
  <1>6. StoreOK'
    BY <1>4 DEF StoreOK
  <1>7. TypeOK'
    BY <1>5, <1>6 DEF StoreOK, TypeOK, NamedVersion, NamedJob
  <1>8. Naming' = Naming \cup {p} /\ Busy' = Busy \cup {p} /\ p \notin Naming /\ p \notin Busy
    BY <1>3, <1>4, <1>5 DEF Naming, Busy
  <1>9. IsFiniteSet(Busy) /\ IsFiniteSet(Naming)
    BY NamingIsBusy, FS_Subset DEF Whole, Counted
  <1>10. /\ IsFiniteSet(Busy \cup {p}) /\ Cardinality(Busy \cup {p}) = Cardinality(Busy) + 1
         /\ Cardinality(Naming \cup {p}) = Cardinality(Naming) + 1
    BY <1>8, <1>9, FS_AddElement
  <1>11. /\ Cardinality(Busy) \in Nat /\ Cardinality(Naming) \in Nat
         /\ Len(versions) \in Nat /\ pointer.revision \in Nat /\ requests \in Nat
    BY <1>4, <1>9, FS_CardinalityType DEF StoreOK, Pointers, Names
  <1>12. Counted'
    BY <1>4, <1>8, <1>10, <1>11 DEF Whole, Counted
  <1>13. TreesHold' /\ VisibleIsWhole'
    BY <1>4 DEF Whole, TreesHold, VisibleIsWhole, RevisionFiles, Target, ContentOf, Visible, Published
  <1>14. Grows
    BY <1>4 DEF Grows
  <1>15. ASSUME NEW q \in Publishers PROVE Prepared(q)'
    <2>1. CASE q = p
      BY <1>3, <1>5, <2>1 DEF Prepared
    <2>2. CASE q # p
      BY <1>4, <1>5, <1>14, <2>2, OthersPrepared DEF Whole
    <2> QED
      BY <2>1, <2>2
  <1> QED
    BY <1>7, <1>12, <1>13, <1>15 DEF Whole

LEMMA OpenOnlyInTrees ==
    ASSUME Whole, NEW p \in Publishers, job[p].phase \notin {"stage", "revision", "unlock"}
    PROVE  job[p].open = Nobody
  BY DEF Whole, Prepared

LEMMA ChangeWhole == ASSUME IInv, Whole, NEW p \in Publishers, NewChange(p) \/ Bind(p) PROVE Whole'
  <1>1. UNCHANGED <<versions, trees, pointer, revisions, requests, sealed, receipts>>
    BY DEF NewChange, Bind, Counters
  <1>2. StoreOK'
    BY TypeParts DEF Whole, StoreOK, NewChange, Bind, Counters
  <1>3. job[p].phase \in {"new", "bind", "binding"} /\ p \in Naming
    BY DEF NewChange, Bind, At, Naming
  <1>4. job[p].open = Nobody
    BY <1>3, OpenOnlyInTrees
  <1>5. Goes(p, "bind") \/ Goes(p, "binding") \/ Goes(p, "inputs") \/ Ends(p, "refused")
    BY DEF NewChange, Bind
  <1> QED
    BY <1>1, <1>2, <1>3, <1>4, <1>5, GoesWhole, EndsWhole DEF Phases

LEMMA ReadWhole == ASSUME IInv, Whole, NEW p \in Publishers, ReadInput(p) \/ ReadParent(p) PROVE Whole'
  <1>1. UNCHANGED <<change, owner, versions, trees, pointer, revisions, requests, sealed, receipts, lock, faults>>
    BY DEF ReadInput, ReadParent, Counters, disk
  <1>2. StoreOK' /\ job \in [Publishers -> NamedJob] /\ job[p] \in NamedJob
    BY <1>1, TypeParts DEF Whole, StoreOK
  <1>3. job[p].phase \in {"inputs", "parent"} /\ p \in Naming
    BY DEF ReadInput, ReadParent, At, Naming
  <1>4. job[p].open = Nobody
    BY <1>3, OpenOnlyInTrees
  <1>5. ASSUME NEW j \in NamedJob, job' = [job EXCEPT ![p] = j], j.open = Nobody,
               j.phase \in {"inputs", "name"}
        PROVE  Whole'
    BY <1>1, <1>2, <1>3, <1>5, EasyStep
  <1>6. CASE Goes(p, "parent")
    BY <1>1, <1>2, <1>3, <1>4, <1>6, GoesWhole DEF Phases
  <1>7. CASE Ends(p, "refused")
    BY <1>1, <1>2, <1>7, EndsWhole
  <1>8. ASSUME At(p, "inputs"), NEW d \in Missing(p), job' = [job EXCEPT ![p].inputs[d] = Published(d)]
        PROVE  Whole'
    <2>1. d \in Artifacts /\ Published(d) \in Names
      BY <1>2, PublicationAssumption, VersionsKnown DEF Missing, Whole, NamedJob
    <2>2. [job[p].inputs EXCEPT ![d] = Published(d)] \in [Artifacts -> Names]
      BY <1>2, <2>1 DEF NamedJob
    <2>3. PICK j \in NamedJob : j = [job[p] EXCEPT !.inputs = [job[p].inputs EXCEPT ![d] = Published(d)]]
      <3>1. [job[p] EXCEPT !.inputs = [job[p].inputs EXCEPT ![d] = Published(d)]] \in NamedJob
        BY <1>2, <2>2 DEF NamedJob
      <3> QED
        BY <3>1
    <2>4. job' = [job EXCEPT ![p] = j] /\ j.phase = "inputs" /\ j.open = Nobody
      BY <1>2, <1>4, <1>8, <2>3 DEF NamedJob, At
    <2> QED
      BY <1>5, <2>4
  <1>9. CASE ReadParent(p)
    <2>1. Published(job[p].artifact) \in Names
      BY <1>2, VersionsKnown DEF Whole, NamedJob
    <2>2. PICK j \in NamedJob : j = [job[p] EXCEPT !.phase = "name", !.parent = Published(job[p].artifact)]
      <3>1. [job[p] EXCEPT !.phase = "name", !.parent = Published(job[p].artifact)] \in NamedJob
        BY <1>2, <2>1 DEF NamedJob, Phases
      <3> QED
        BY <3>1
    <2>3. job' = [job EXCEPT ![p] = j] /\ j.phase = "name" /\ j.open = Nobody
      BY <1>2, <1>4, <1>9, <2>2 DEF NamedJob, ReadParent
    <2> QED
      BY <1>5, <2>3
  <1> QED
    BY <1>6, <1>7, <1>8, <1>9 DEF ReadInput

\* The files of a complete tree are what the visible versions and the new one say.
LEMMA CompleteTree ==
    ASSUME IInv, TypeOK, NEW a \in Artifacts, NEW v \in 1..Len(versions)
    PROVE  /\ Complete(a, ContentOf(v)) \in Files
           /\ Complete(a, ContentOf(v)) =
                 Target([revision |-> pointer.revision + 1, artifacts |-> [pointer.artifacts EXCEPT ![a] = v]])
           /\ \A b \in Artifacts : Complete(a, ContentOf(v))[b] = Absent => pointer.artifacts[b] = 0 /\ b # a
  <1>1. pointer \in Pointers /\ Len(versions) \in Nat
    BY DEF TypeOK, IInv, Types
  <1>2. \A w \in 1..Len(versions) : ContentOf(w) \in Contents
    BY VersionsKnown
  <1>3. \A b \in Artifacts : Published(b) \in 0..Len(versions)
    BY VersionsKnown
  <1>4. \A b \in Artifacts : [pointer.artifacts EXCEPT ![a] = v][b] = IF b = a THEN v ELSE Published(b)
    BY <1>1 DEF Pointers, Published
  <1>6. \A b \in Artifacts : Complete(a, ContentOf(v))[b] =
           IF b = a THEN ContentOf(v) ELSE IF Published(b) # 0 THEN ContentOf(Published(b)) ELSE Absent
    BY DEF Complete, Visible
  <1>7. v # 0
    BY <1>1
  <1>9. Complete(a, ContentOf(v)) =
           Target([revision |-> pointer.revision + 1, artifacts |-> [pointer.artifacts EXCEPT ![a] = v]])
    BY <1>4, <1>7 DEF Target, Complete, Visible
  <1>10. ASSUME NEW b \in Artifacts
         PROVE  /\ Complete(a, ContentOf(v))[b] \in FileStates
                /\ Complete(a, ContentOf(v))[b] = Absent => pointer.artifacts[b] = 0 /\ b # a
    <2>1. b # a /\ Published(b) # 0 => ContentOf(Published(b)) \in Contents
      BY <1>1, <1>2, <1>3
    <2> QED
      BY <1>2, <1>6, <2>1, PublicationAssumption DEF FileStates, Published
  <1>11. Complete(a, ContentOf(v)) \in Files
    BY <1>10 DEF Complete, Files
  <1> QED
    BY <1>9, <1>10, <1>11

LEMMA StageWhole == ASSUME IInv, Whole, NEW p \in Publishers, Stage(p) PROVE Whole'
  <1> DEFINE known == {v \in DOMAIN versions : versions[v] = VersionOf(p)}
             v == IF known = {} THEN Len(versions) + 1 ELSE CHOOSE w \in known : TRUE
             wanted == Complete(job[p].artifact, job[p].content)
  <1>1. /\ UNCHANGED <<change, owner, pointer, lock, revisions, sealed, receipts, requests, faults>>
        /\ job[p].phase = "name" /\ job[p].open = Nobody
        /\ TypeOK /\ StoreOK /\ job \in [Publishers -> NamedJob] /\ job[p] \in NamedJob
        /\ MaxRequests \in Nat
    BY OpenOnlyInTrees, TypeParts, PublicationAssumption DEF Stage, Whole, At, Counters
  <1>2. /\ versions' = (IF known = {} THEN Append(versions, VersionOf(p)) ELSE versions)
        /\ trees' = (IF known = {} THEN Append(trees, NoFiles) ELSE trees)
    BY DEF Stage
  <1>3. job' = [job EXCEPT ![p].phase = "stage", ![p].version = v, ![p].wanted = wanted]
    BY DEF Stage
  <1>4. VersionOf(p) \in NamedVersion /\ NoFiles \in Files
    BY <1>1 DEF VersionOf, NamedVersion, NamedJob, NoFiles, Files, FileStates
  <1>5. versions \in Seq(NamedVersion) /\ Len(versions) \in Nat /\ trees \in Seq(Files)
        /\ Len(trees) = Len(versions)
    BY <1>1 DEF StoreOK
  <1>6. /\ versions' \in Seq(NamedVersion) /\ Len(versions) <= Len(versions')
        /\ Len(versions') <= Len(versions) + 1 /\ Len(versions') \in Nat
        /\ trees' \in Seq(Files) /\ Len(trees') = Len(versions')
        /\ DOMAIN versions \subseteq DOMAIN versions'
        /\ \A w \in 1..Len(versions) : w \in 1..Len(versions') /\ versions'[w] = versions[w]
    BY <1>2, <1>4, <1>5
  <1>7. v \in 1..Len(versions') /\ versions'[v] = VersionOf(p)
    <2>1. CASE known = {}
      BY <1>2, <1>4, <1>5, <2>1
    <2>2. CASE known # {}
      <3>1. v \in known
        BY <2>2
      <3> QED
        BY <1>2, <1>5, <2>2, <3>1
    <2> QED
      BY <2>1, <2>2
  <1> HIDE DEF v, known
  <1>8. IsFiniteSet(Busy) /\ IsFiniteSet(Naming) /\ p \in Naming
    BY <1>1, NamingIsBusy, FS_Subset DEF Whole, Counted, Naming
  <1>9. /\ Cardinality(Naming) \in Nat /\ Cardinality(Naming \ {p}) \in Nat
        /\ Cardinality(Naming \ {p}) = Cardinality(Naming) - 1
    BY <1>8, FS_RemoveElement, FS_CardinalityType
  <1>10. Len(versions) + Cardinality(Naming) <= requests /\ requests \in 0..MaxRequests
    BY <1>1 DEF Whole, Counted, StoreOK
  <1>11. Len(versions') <= MaxRequests
    BY <1>1, <1>5, <1>6, <1>9, <1>10
  <1>12. v \in Names
    BY <1>1, <1>6, <1>7, <1>11 DEF Names
  <1>13. wanted \in Files
    <2>1. ASSUME NEW b \in Visible PROVE ContentOf(Published(b)) \in Contents
      BY <1>1, <2>1, VersionsKnown DEF Visible
    <2> QED
      BY <1>1, <2>1 DEF Complete, Files, FileStates, NamedJob
  <1> HIDE DEF wanted
  <1>14. PICK j \in NamedJob : j = [job[p] EXCEPT !.phase = "stage", !.version = v, !.wanted = wanted]
    <2>1. [job[p] EXCEPT !.phase = "stage", !.version = v, !.wanted = wanted] \in NamedJob
      BY <1>1, <1>12, <1>13 DEF NamedJob, Phases
    <2> QED
      BY <2>1
  <1>15. /\ job' = [job EXCEPT ![p] = j] /\ j.phase = "stage" /\ j.version = v
         /\ j.content = job[p].content /\ j.open = Nobody
    BY <1>1, <1>3, <1>14 DEF NamedJob
  <1>16. job' \in [Publishers -> NamedJob] /\ job'[p] = j /\ \A q \in Publishers \ {p} : job'[q] = job[q]
    BY <1>1, <1>15
  <1>17. StoreOK'
    BY <1>1, <1>6, <1>11 DEF StoreOK
  <1>18. TypeOK'
    BY <1>16, <1>17 DEF StoreOK, TypeOK, NamedVersion, NamedJob
  <1>19. Grows
    BY <1>1, <1>6 DEF Grows
  <1>20. Counted'
    <2>1. Naming' = Naming \ {p} /\ Busy' = Busy
      BY <1>1, <1>15, <1>16 DEF Naming, Busy
    <2> QED
      BY <1>1, <1>5, <1>6, <1>9, <1>10, <2>1 DEF Whole, Counted
  <1>21. TreesHold'
    BY <1>1 DEF Whole, TreesHold
  <1>22. VisibleIsWhole'
    <2>1. \A a \in Artifacts : pointer.artifacts[a] \in 0..Len(versions)
      BY <1>1, VersionsKnown DEF Published
    <2>2. Target(pointer)' = Target(pointer)
      BY <1>1, <1>5, <1>19, <2>1, TargetKept DEF Target, ContentOf
    <2>3. \A a \in Visible : versions'[Published(a)] = versions[Published(a)]
      BY <1>5, <1>6, <2>1 DEF Visible, Published
    <2> QED
      BY <1>1, <2>2, <2>3 DEF Whole, VisibleIsWhole, RevisionFiles, Visible, Published
  <1>23. ASSUME NEW q \in Publishers PROVE Prepared(q)'
    <2>1. CASE q = p
      BY <1>7, <1>15, <1>16, <2>1 DEF Prepared, ContentOf, VersionOf
    <2>2. CASE q # p
      BY <1>1, <1>16, <1>19, <2>2, OthersPrepared DEF Whole
    <2> QED
      BY <2>1, <2>2
  <1> QED
    BY <1>18, <1>20, <1>21, <1>22, <1>23 DEF Whole

LEMMA LockWhole == ASSUME IInv, Whole, NEW p \in Publishers, Lock(p) \/ Unlock(p) \/ Crash(p) PROVE Whole'
  <1>1. UNCHANGED <<change, owner, versions, trees, pointer, revisions, requests, sealed, receipts>>
    BY DEF Lock, Unlock, Crash, Counters, disk
  <1>2. StoreOK' /\ job \in [Publishers -> NamedJob] /\ job[p] \in NamedJob
    BY <1>1, TypeParts, PublicationAssumption DEF Whole, StoreOK, Lock, Unlock, Crash, Released, Counters
  <1>3. CASE Lock(p)
    <2>1. job[p].phase = "lock" /\ Goes(p, "decide")
      BY <1>3 DEF Lock, At
    <2>2. job[p].open = Nobody /\ job[p].version \in receipts
      BY <2>1, OpenOnlyInTrees DEF Whole, Prepared
    <2> QED
      BY <1>1, <1>2, <2>1, <2>2, GoesWhole DEF Phases
  <1>4. CASE Unlock(p)
    BY <1>1, <1>2, <1>4, EndsWhole DEF Unlock, NamedJob
  <1>5. CASE Crash(p)
    BY <1>1, <1>2, <1>5, IdleNamed, EasyStep DEF Crash
  <1> QED
    BY <1>3, <1>4, <1>5

LEMMA CheckWhole ==
    ASSUME IInv, Whole, NEW p \in Publishers, Validate(p) \/ CheckCheckpoint(p)
    PROVE  Whole'
  <1>1. UNCHANGED <<change, owner, versions, trees, pointer, revisions, requests, sealed, lock, faults>>
    BY DEF Validate, CheckCheckpoint, Counters, disk
  <1>2. job \in [Publishers -> NamedJob] /\ job[p] \in NamedJob /\ Prepared(p) /\ StoreOK
    BY TypeParts DEF Whole
  <1>3. job[p].open = Nobody
    BY OpenOnlyInTrees DEF Validate, CheckCheckpoint, At
  <1>4. receipts \subseteq receipts' /\ StoreOK'
    BY <1>1, <1>2 DEF StoreOK, Validate, CheckCheckpoint, disk, Prepared, At
  <1>5. \/ Ends(p, "refused")
        \/ Goes(p, "checkpoint") /\ job[p].phase = "validate"
        \/ Goes(p, "lock") /\ job[p].phase = "checkpoint" /\ job[p].version \in receipts
    BY DEF Validate, CheckCheckpoint, At
  <1> QED
    BY <1>1, <1>3, <1>4, <1>5, GoesWhole, EndsWhole DEF Phases

-----------------------------------------------------------------------------
(* Trees *)

\* What a revision holds, and what it cannot hold.
LEMMA FilesType ==
    ASSUME TypeOK, NEW n \in Pointers
    PROVE  /\ RevisionFiles(n) \in Files
           /\ TreesHold => \A a \in Artifacts : n.artifacts[a] = 0 => RevisionFiles(n)[a] = Absent
  <1> DEFINE tree == {r \in revisions : r.pointer = n}
             r == CHOOSE s \in tree : TRUE
  <1>1. CASE tree = {}
    BY <1>1 DEF RevisionFiles, NoFiles, Files, FileStates
  <1>2. CASE tree # {}
    <2>1. r \in tree
      BY <1>2
    <2>2. r \in revisions /\ r.pointer = n /\ r.files \in Files
      BY <2>1 DEF TypeOK
    <2>3. RevisionFiles(n) = r.files
      BY <1>2 DEF RevisionFiles
    <2> QED
      BY <2>2, <2>3 DEF TreesHold
  <1> QED
    BY <1>1, <1>2

\* Under the lock one file of one revision changes.
LEMMA PutRevision ==
    ASSUME TypeOK, NEW n \in Pointers, NEW a \in Artifacts, NEW file \in FileStates,
           revisions' = {r \in revisions : r.pointer # n}
                        \cup {[pointer |-> n, files |-> [RevisionFiles(n) EXCEPT ![a] = file]]}
    PROVE  /\ revisions' \subseteq [pointer : Pointers, files : Files]
           /\ RevisionFiles(n)' = [RevisionFiles(n) EXCEPT ![a] = file]
           /\ \A m \in Pointers : m # n => RevisionFiles(m)' = RevisionFiles(m)
           /\ TreesHold /\ (n.artifacts[a] = 0 => file = Absent) => TreesHold'
  <1>1. RevisionFiles(n) \in Files
    BY FilesType
  <1>2. PICK new : new = [pointer |-> n, files |-> [RevisionFiles(n) EXCEPT ![a] = file]]
    OBVIOUS
  <1>3. new \in [pointer : Pointers, files : Files] /\ new.pointer = n
        /\ new.files = [RevisionFiles(n) EXCEPT ![a] = file]
    BY <1>1, <1>2 DEF Files
  <1>4. revisions' = {r \in revisions : r.pointer # n} \cup {new}
    BY <1>2
  <1>5. revisions' \subseteq [pointer : Pointers, files : Files]
    BY <1>3, <1>4 DEF TypeOK
  <1>6. RevisionFiles(n)' = new.files
    <2>1. {r \in revisions' : r.pointer = n} = {new}
      BY <1>3, <1>4
    <2> QED
      BY <2>1 DEF RevisionFiles
  <1>7. ASSUME NEW m \in Pointers, m # n PROVE RevisionFiles(m)' = RevisionFiles(m)
    <2> DEFINE before == {r \in revisions : r.pointer = m}
               after == {r \in revisions' : r.pointer = m}
    <2>1. after = before
      BY <1>3, <1>4, <1>7
    <2>2. /\ RevisionFiles(m) = IF before = {} THEN NoFiles ELSE (CHOOSE r \in before : TRUE).files
          /\ RevisionFiles(m)' = IF after = {} THEN NoFiles ELSE (CHOOSE r \in after : TRUE).files
      BY DEF RevisionFiles, NoFiles
    <2> HIDE DEF before, after
    <2> QED
      BY <2>1, <2>2
  <1>8. ASSUME TreesHold, n.artifacts[a] = 0 => file = Absent PROVE TreesHold'
    <2>1. \A b \in Artifacts : n.artifacts[b] = 0 => new.files[b] = Absent
      BY <1>1, <1>3, <1>8, FilesType DEF Files
    <2> QED
      BY <1>3, <1>4, <1>8, <2>1 DEF TreesHold
  <1> QED
    BY <1>3, <1>5, <1>6, <1>7, <1>8

\* A step of the lock's holder on the tree of the next revision: nobody else
\* looks at that tree, and it is not the visible one.
LEMMA RevisionStep ==
    ASSUME IInv, Whole, NEW p \in Publishers, NEW j \in NamedJob, job' = [job EXCEPT ![p] = j],
           job[p].phase = "revision", j.phase \in {"revision", "point", "unlock"},
           UNCHANGED <<change, owner, versions, trees, sealed, receipts, pointer, lock, requests>>,
           faults' \in 0..MaxFaults,
           revisions' \subseteq [pointer : Pointers, files : Files], TreesHold',
           \A m \in Pointers : m # job[p].next => RevisionFiles(m)' = RevisionFiles(m),
           Prepared(p)'
    PROVE  Whole'
  <1>1. job \in [Publishers -> NamedJob] /\ TypeOK /\ StoreOK
    BY TypeParts DEF Whole
  <1>2. job' \in [Publishers -> NamedJob] /\ job'[p] = j /\ \A q \in Publishers \ {p} : job'[q] = job[q]
    BY <1>1
  <1>3. TypeOK'
    BY <1>1, <1>2 DEF StoreOK, TypeOK, NamedVersion, NamedJob
  <1>4. p \in Busy /\ p \notin Naming'
    BY <1>2 DEF Busy, Naming
  <1>5. Counted'
    BY <1>1, <1>2, <1>4, CountsKept DEF Whole
  <1>6. pointer # job[p].next /\ pointer \in Pointers
    <2>1. job[p].next = Successor(p)
      BY DEF IInv, Ready, Decided
    <2>2. Successor(p).revision = pointer.revision + 1 /\ pointer.revision \in Nat
      BY <1>1 DEF Successor, StoreOK, Pointers, Names
    <2> QED
      BY <1>1, <2>1, <2>2 DEF StoreOK
  <1>7. VisibleIsWhole'
    BY <1>6 DEF Whole, VisibleIsWhole, Target, ContentOf, Visible, Published
  <1>8. Grows
    BY <1>1 DEF Grows
  <1>9. ASSUME NEW q \in Publishers PROVE Prepared(q)'
    <2>1. CASE q = p
      BY <2>1
    <2>2. CASE q # p
      <3>1. job[q].phase \notin {"revision", "point"}
        BY <2>2 DEF IInv, Ready, Holds
      <3> QED
        BY <1>1, <1>2, <1>8, <2>2, <3>1, OthersPrepared DEF Whole
    <2> QED
      BY <2>1, <2>2
  <1> QED
    BY <1>3, <1>5, <1>7, <1>9 DEF Whole

\* The file of an artifact is written, or it is there already: it is no longer wanted.
LEMMA WroteJob ==
    ASSUME Whole, NEW p \in Publishers, NEW a \in Artifacts,
           job' = [job EXCEPT ![p].wanted[a] = Absent, ![p].open = Nobody]
    PROVE  \E j \in NamedJob :
              /\ job' = [job EXCEPT ![p] = j] /\ j.open = Nobody
              /\ j.phase = job[p].phase /\ j.version = job[p].version
              /\ j.content = job[p].content /\ j.next = job[p].next
              /\ j.wanted = [job[p].wanted EXCEPT ![a] = Absent]
  <1>1. job \in [Publishers -> NamedJob] /\ job[p] \in NamedJob
    BY TypeParts DEF Whole
  <1>2. PICK w : w = [job[p].wanted EXCEPT ![a] = Absent]
    OBVIOUS
  <1>3. w \in Files
    BY <1>1, <1>2 DEF NamedJob, Files, FileStates
  <1>4. PICK j : j = [job[p] EXCEPT !.wanted = w, !.open = Nobody]
    OBVIOUS
  <1>5. /\ j \in NamedJob /\ j.open = Nobody /\ j.phase = job[p].phase /\ j.version = job[p].version
        /\ j.content = job[p].content /\ j.next = job[p].next /\ j.wanted = w
    BY <1>1, <1>3, <1>4 DEF NamedJob
  <1>6. job' = [job EXCEPT ![p] = j]
    BY <1>1, <1>2, <1>4
  <1> QED
    BY <1>2, <1>5, <1>6

\* A file is created, and is open until it is written.
LEMMA OpenJob ==
    ASSUME Whole, NEW p \in Publishers, NEW a \in Artifacts, job' = [job EXCEPT ![p].open = a]
    PROVE  \E j \in NamedJob :
              /\ job' = [job EXCEPT ![p] = j] /\ j.open = a
              /\ j.phase = job[p].phase /\ j.version = job[p].version
              /\ j.content = job[p].content /\ j.next = job[p].next
              /\ j.wanted = job[p].wanted
  <1>1. job \in [Publishers -> NamedJob] /\ job[p] \in NamedJob
    BY TypeParts DEF Whole
  <1>2. PICK j : j = [job[p] EXCEPT !.open = a]
    OBVIOUS
  <1>3. /\ j \in NamedJob /\ j.open = a /\ j.phase = job[p].phase /\ j.version = job[p].version
        /\ j.content = job[p].content /\ j.next = job[p].next /\ j.wanted = job[p].wanted
    BY <1>1, <1>2 DEF NamedJob
  <1>4. job' = [job EXCEPT ![p] = j]
    BY <1>1, <1>2
  <1> QED
    BY <1>3, <1>4

\* What WriteFile does, case by case: it accepts a file, creates one, refuses
\* one, completes the open one, or fails to.
LEMMA WriteCases ==
    ASSUME Whole, NEW p \in Publishers, WriteFile(p)
    PROVE  /\ UNCHANGED <<change, owner, versions, sealed, receipts, pointer, lock, requests>>
           /\ faults' \in 0..MaxFaults
           /\ \/ \E a \in Artifacts :
                    /\ job[p].wanted[a] # Absent /\ job[p].open = Nobody
                    /\ \/ /\ FileAt(p, a) = job[p].wanted[a] /\ UNCHANGED <<trees, revisions>>
                          /\ job' = [job EXCEPT ![p].wanted[a] = Absent, ![p].open = Nobody]
                       \/ Put(p, a, Partial) /\ job' = [job EXCEPT ![p].open = a]
              \/ /\ UNCHANGED <<trees, revisions>>
                 /\ Refuse(p, "partial") \/ Refuse(p, "immutable")
              \/ /\ job[p].open \in Artifacts
                 /\ \/ /\ Put(p, job[p].open, job[p].wanted[job[p].open])
                       /\ job' = [job EXCEPT ![p].wanted[job[p].open] = Absent, ![p].open = Nobody]
                    \/ Put(p, job[p].open, Absent) /\ Refuse(p, "refused")
  <1>1. job[p] \in NamedJob /\ faults \in 0..MaxFaults /\ MaxFaults \in Nat
    BY TypeParts, PublicationAssumption DEF Whole, StoreOK
  <1>2. UNCHANGED <<change, owner, versions, sealed, receipts, pointer, lock, requests>>
    BY DEF WriteFile
  <1>3. faults' = faults \/ (faults < MaxFaults /\ faults' = faults + 1)
    BY DEF WriteFile
  <1>4. faults' \in 0..MaxFaults
    BY <1>1, <1>3
  <1>5. job[p].open # Nobody => job[p].open \in Artifacts
    BY <1>1 DEF NamedJob
  <1> QED
    BY <1>2, <1>4, <1>5 DEF WriteFile, Accepted

LEMMA WriteStageWhole ==
    ASSUME IInv, Whole, NEW p \in Publishers, WriteFile(p), job[p].phase = "stage"
    PROVE  Whole'
  <1>1. /\ UNCHANGED <<change, owner, versions, sealed, receipts, pointer, lock, requests>>
        /\ faults' \in 0..MaxFaults
        /\ job[p] \in NamedJob /\ job \in [Publishers -> NamedJob] /\ StoreOK /\ Prepared(p)
        /\ job[p].version \in 1..Len(versions)
    BY WriteCases, TypeParts DEF Whole, IInv, Ready, Named
  <1>2. ASSUME NEW a \in Artifacts, NEW file \in FileStates, Put(p, a, file)
        PROVE  UNCHANGED revisions /\ StoreOK'
    <2>1. UNCHANGED revisions /\ trees' = [trees EXCEPT ![job[p].version][a] = file]
      BY <1>1, <1>2 DEF Put, At
    <2>2. trees \in Seq(Files) /\ Len(trees) = Len(versions)
      BY <1>1 DEF StoreOK
    <2>3. [trees[job[p].version] EXCEPT ![a] = file] \in Files
      BY <1>1, <2>2 DEF Files
    <2>4. trees' \in Seq(Files) /\ Len(trees') = Len(trees)
      BY <1>1, <2>1, <2>2, <2>3
    <2> QED
      BY <1>1, <2>1, <2>4 DEF StoreOK
  <1>3. UNCHANGED <<trees, revisions>> => StoreOK'
    BY <1>1 DEF StoreOK
  <1>4. Absent \in FileStates /\ Partial \in FileStates /\ job[p].wanted \in Files
    BY <1>1 DEF FileStates, NamedJob
  <1>5. ASSUME NEW j \in NamedJob, job' = [job EXCEPT ![p] = j], j.phase = "stage",
               j.version = job[p].version, j.content = job[p].content,
               j.open # Nobody => j.wanted[j.open] # Absent,
               UNCHANGED revisions, StoreOK'
        PROVE  Whole'
    <2>1. job'[p] = j
      BY <1>1, <1>5
    <2>2. Prepared(p)'
      BY <1>1, <1>5, <2>1 DEF Prepared, ContentOf
    <2>3. p \in Busy /\ p \notin Naming'
      BY <1>1, <1>5, <2>1 DEF Busy, Naming
    <2> QED
      BY <1>1, <1>5, <2>2, <2>3, QuietStep
  <1>6. ASSUME NEW a \in Artifacts, job' = [job EXCEPT ![p].wanted[a] = Absent, ![p].open = Nobody],
               UNCHANGED revisions, StoreOK'
        PROVE  Whole'
    <2>1. PICK j \in NamedJob :
            /\ job' = [job EXCEPT ![p] = j] /\ j.open = Nobody
            /\ j.phase = job[p].phase /\ j.version = job[p].version
            /\ j.content = job[p].content /\ j.next = job[p].next
            /\ j.wanted = [job[p].wanted EXCEPT ![a] = Absent]
      BY <1>6, WroteJob
    <2> QED
      BY <1>5, <1>6, <2>1
  <1>7. CASE \E a \in Artifacts :
                    /\ job[p].wanted[a] # Absent /\ job[p].open = Nobody
                    /\ \/ /\ FileAt(p, a) = job[p].wanted[a] /\ UNCHANGED <<trees, revisions>>
                          /\ job' = [job EXCEPT ![p].wanted[a] = Absent, ![p].open = Nobody]
                       \/ Put(p, a, Partial) /\ job' = [job EXCEPT ![p].open = a]
    <2>1. PICK a \in Artifacts :
                    /\ job[p].wanted[a] # Absent /\ job[p].open = Nobody
                    /\ \/ /\ FileAt(p, a) = job[p].wanted[a] /\ UNCHANGED <<trees, revisions>>
                          /\ job' = [job EXCEPT ![p].wanted[a] = Absent, ![p].open = Nobody]
                       \/ Put(p, a, Partial) /\ job' = [job EXCEPT ![p].open = a]
      BY <1>7
    <2>2. CASE Put(p, a, Partial) /\ job' = [job EXCEPT ![p].open = a]
      <3>1. PICK j \in NamedJob :
              /\ job' = [job EXCEPT ![p] = j] /\ j.open = a
              /\ j.phase = job[p].phase /\ j.version = job[p].version
              /\ j.content = job[p].content /\ j.next = job[p].next
              /\ j.wanted = job[p].wanted
        BY <2>2, OpenJob
      <3>2. UNCHANGED revisions /\ StoreOK'
        BY <1>2, <1>4, <2>2
      <3> QED
        BY <1>5, <2>1, <3>1, <3>2
    <2> QED
      BY <1>3, <1>6, <2>1, <2>2
  <1>8. CASE UNCHANGED <<trees, revisions>> /\ (Refuse(p, "partial") \/ Refuse(p, "immutable"))
    BY <1>1, <1>3, <1>8, RefuseWhole
  <1>9. ASSUME job[p].open \in Artifacts, Put(p, job[p].open, job[p].wanted[job[p].open]),
               job' = [job EXCEPT ![p].wanted[job[p].open] = Absent, ![p].open = Nobody]
        PROVE  Whole'
    <2>1. job[p].wanted[job[p].open] \in FileStates
      BY <1>4, <1>9 DEF Files
    <2> QED
      BY <1>2, <1>6, <1>9, <2>1
  <1>10. ASSUME job[p].open \in Artifacts, Put(p, job[p].open, Absent), Refuse(p, "refused")
         PROVE  Whole'
    BY <1>1, <1>2, <1>4, <1>10, RefuseWhole
  <1> QED
    BY <1>7, <1>8, <1>9, <1>10, WriteCases

LEMMA WriteRevisionWhole ==
    ASSUME IInv, Whole, NEW p \in Publishers, WriteFile(p), job[p].phase = "revision"
    PROVE  Whole'
  <1>1. PICK n : n = job[p].next
    OBVIOUS
  <1>2. /\ UNCHANGED <<change, owner, versions, sealed, receipts, pointer, lock, requests>>
        /\ faults' \in 0..MaxFaults /\ TypeOK /\ TreesHold
        /\ job[p] \in NamedJob /\ job \in [Publishers -> NamedJob] /\ StoreOK /\ Prepared(p)
        /\ lock = p /\ n \in Pointers /\ WritesHold(p)
    BY <1>1, WriteCases, TypeParts DEF Whole, IInv, Ready, Holds, Prepared, NamedJob
  <1>3. /\ \A b \in Artifacts : job[p].wanted[b] \in {Absent, Target(n)[b]}
        /\ \A b \in Artifacts : job[p].wanted[b] = Absent => RevisionFiles(n)[b] = Target(n)[b]
        /\ \A b \in Artifacts : job[p].wanted[b] # Absent => n.artifacts[b] # 0
        /\ job[p].wanted \in Files /\ Absent \in FileStates /\ Partial \in FileStates
    BY <1>1, <1>2 DEF WritesHold, Target, NamedJob, FileStates
  <1>4. Target(n)' = Target(n) /\ RevisionFiles(n) \in Files
    BY <1>2, FilesType DEF Target, ContentOf
  <1>5. UNCHANGED <<trees, revisions>> => StoreOK'
    BY <1>2 DEF StoreOK
  <1>6. ASSUME NEW a \in Artifacts, NEW file \in FileStates, Put(p, a, file),
               n.artifacts[a] = 0 => file = Absent
        PROVE  /\ UNCHANGED trees /\ revisions' \subseteq [pointer : Pointers, files : Files] /\ TreesHold'
               /\ \A m \in Pointers : m # job[p].next => RevisionFiles(m)' = RevisionFiles(m)
               /\ RevisionFiles(n)' = [RevisionFiles(n) EXCEPT ![a] = file]
    <2>1. /\ UNCHANGED trees
          /\ revisions' = {r \in revisions : r.pointer # n}
                          \cup {[pointer |-> n, files |-> [RevisionFiles(n) EXCEPT ![a] = file]]}
      BY <1>1, <1>6 DEF Put, At
    <2> QED
      BY <1>1, <1>2, <1>6, <2>1, PutRevision
  \* What is left to write, after a step that went on writing.
  <1>7. ASSUME NEW j \in NamedJob, job' = [job EXCEPT ![p] = j], j.phase = "revision",
               j.version = job[p].version, j.content = job[p].content, j.next = n,
               j.open # Nobody => j.wanted[j.open] # Absent,
               \A b \in Artifacts : /\ j.wanted[b] \in {Absent, Target(n)[b]}
                                    /\ j.wanted[b] = Absent => RevisionFiles(n)'[b] = Target(n)[b]
        PROVE  Prepared(p)' /\ p \in Busy /\ p \notin Naming'
    <2>1. job'[p] = j
      BY <1>2, <1>7
    <2>2. WritesHold(p)'
      BY <1>4, <1>7, <2>1 DEF WritesHold
    <2>3. Prepared(p)'
      BY <1>2, <1>7, <2>1, <2>2 DEF Prepared, ContentOf
    <2> QED
      BY <1>7, <2>1, <2>3 DEF Busy, Naming
  <1>8. CASE \E a \in Artifacts :
                    /\ job[p].wanted[a] # Absent /\ job[p].open = Nobody
                    /\ \/ /\ FileAt(p, a) = job[p].wanted[a] /\ UNCHANGED <<trees, revisions>>
                          /\ job' = [job EXCEPT ![p].wanted[a] = Absent, ![p].open = Nobody]
                       \/ Put(p, a, Partial) /\ job' = [job EXCEPT ![p].open = a]
    <2>1. PICK a \in Artifacts :
                    /\ job[p].wanted[a] # Absent /\ job[p].open = Nobody
                    /\ \/ /\ FileAt(p, a) = job[p].wanted[a] /\ UNCHANGED <<trees, revisions>>
                          /\ job' = [job EXCEPT ![p].wanted[a] = Absent, ![p].open = Nobody]
                       \/ Put(p, a, Partial) /\ job' = [job EXCEPT ![p].open = a]
      BY <1>8
    <2>2. CASE FileAt(p, a) = job[p].wanted[a] /\ UNCHANGED <<trees, revisions>>
               /\ job' = [job EXCEPT ![p].wanted[a] = Absent, ![p].open = Nobody]
      <3>1. PICK j \in NamedJob :
              /\ job' = [job EXCEPT ![p] = j] /\ j.open = Nobody
              /\ j.phase = job[p].phase /\ j.version = job[p].version
              /\ j.content = job[p].content /\ j.next = job[p].next
              /\ j.wanted = [job[p].wanted EXCEPT ![a] = Absent]
        BY <2>2, WroteJob
      <3>2. RevisionFiles(n)' = RevisionFiles(n) /\ RevisionFiles(n)[a] = Target(n)[a]
        <4>1. RevisionFiles(n)[a] = job[p].wanted[a]
          BY <1>1, <2>2 DEF FileAt, At
        <4>2. job[p].wanted[a] = Target(n)[a]
          BY <1>3, <2>1
        <4> QED
          BY <2>2, <4>1, <4>2 DEF RevisionFiles
      <3>3. \A b \in Artifacts : /\ j.wanted[b] \in {Absent, Target(n)[b]}
                                 /\ j.wanted[b] = Absent => RevisionFiles(n)'[b] = Target(n)[b]
        BY <1>3, <3>1, <3>2 DEF Files
      <3>4. Prepared(p)' /\ p \in Busy /\ p \notin Naming'
        BY <1>1, <1>7, <3>1, <3>3
      <3> QED
        BY <1>2, <1>5, <2>2, <3>1, <3>4, QuietStep
    <2>3. CASE Put(p, a, Partial) /\ job' = [job EXCEPT ![p].open = a]
      <3>1. PICK j \in NamedJob :
              /\ job' = [job EXCEPT ![p] = j] /\ j.open = a
              /\ j.phase = job[p].phase /\ j.version = job[p].version
              /\ j.content = job[p].content /\ j.next = job[p].next
              /\ j.wanted = job[p].wanted
        BY <2>3, OpenJob
      <3>2. /\ UNCHANGED trees /\ revisions' \subseteq [pointer : Pointers, files : Files] /\ TreesHold'
            /\ \A m \in Pointers : m # job[p].next => RevisionFiles(m)' = RevisionFiles(m)
            /\ RevisionFiles(n)' = [RevisionFiles(n) EXCEPT ![a] = Partial]
        BY <1>3, <1>6, <2>1, <2>3
      <3>3. \A b \in Artifacts : /\ j.wanted[b] \in {Absent, Target(n)[b]}
                                 /\ j.wanted[b] = Absent => RevisionFiles(n)'[b] = Target(n)[b]
        BY <1>3, <1>4, <2>1, <3>1, <3>2 DEF Files
      <3>4. Prepared(p)'
        BY <1>1, <1>7, <2>1, <3>1, <3>3
      <3> QED
        BY <1>2, <3>1, <3>2, <3>4, RevisionStep
    <2> QED
      BY <2>1, <2>2, <2>3
  <1>9. CASE UNCHANGED <<trees, revisions>> /\ (Refuse(p, "partial") \/ Refuse(p, "immutable"))
    BY <1>2, <1>5, <1>9, RefuseWhole
  <1>10. ASSUME job[p].open \in Artifacts, Put(p, job[p].open, job[p].wanted[job[p].open]),
                job' = [job EXCEPT ![p].wanted[job[p].open] = Absent, ![p].open = Nobody]
         PROVE  Whole'
    <2>1. PICK o \in Artifacts : o = job[p].open
      BY <1>10
    <2>2. PICK file \in FileStates : file = job[p].wanted[o]
      BY <1>3, <2>1 DEF Files
    <2>3. job[p].wanted[o] # Absent
      BY <1>2, <2>1, PublicationAssumption DEF Prepared
    <2>4. PICK j \in NamedJob :
              /\ job' = [job EXCEPT ![p] = j] /\ j.open = Nobody
              /\ j.phase = job[p].phase /\ j.version = job[p].version
              /\ j.content = job[p].content /\ j.next = job[p].next
              /\ j.wanted = [job[p].wanted EXCEPT ![o] = Absent]
      BY <1>10, <2>1, WroteJob
    <2>5. /\ UNCHANGED trees /\ revisions' \subseteq [pointer : Pointers, files : Files] /\ TreesHold'
          /\ \A m \in Pointers : m # job[p].next => RevisionFiles(m)' = RevisionFiles(m)
          /\ RevisionFiles(n)' = [RevisionFiles(n) EXCEPT ![o] = file]
      BY <1>3, <1>6, <1>10, <2>1, <2>2, <2>3
    <2>6. \A b \in Artifacts : /\ j.wanted[b] \in {Absent, Target(n)[b]}
                               /\ j.wanted[b] = Absent => RevisionFiles(n)'[b] = Target(n)[b]
      BY <1>3, <1>4, <2>2, <2>3, <2>4, <2>5 DEF Files
    <2>7. Prepared(p)'
      BY <1>1, <1>7, <2>4, <2>6
    <2> QED
      BY <1>2, <2>4, <2>5, <2>7, RevisionStep
  <1>11. ASSUME job[p].open \in Artifacts, Put(p, job[p].open, Absent), Refuse(p, "refused")
         PROVE  Whole'
    <2>1. /\ UNCHANGED trees /\ revisions' \subseteq [pointer : Pointers, files : Files] /\ TreesHold'
          /\ \A m \in Pointers : m # job[p].next => RevisionFiles(m)' = RevisionFiles(m)
      BY <1>3, <1>6, <1>11
    <2>2. job' = [job EXCEPT ![p].phase = "unlock", ![p].outcome = "refused"]
      BY <1>2, <1>11 DEF Refuse
    <2>3. PICK j : j = [job[p] EXCEPT !.phase = "unlock", !.outcome = "refused"]
      OBVIOUS
    <2>4. j \in NamedJob /\ j.phase = "unlock" /\ job' = [job EXCEPT ![p] = j]
      BY <1>2, <2>2, <2>3 DEF NamedJob, Phases
    <2>5. Prepared(p)'
      BY <1>2, <2>4 DEF Prepared
    <2> QED
      BY <1>2, <2>1, <2>4, <2>5, RevisionStep
  <1> QED
    BY <1>8, <1>9, <1>10, <1>11, WriteCases

\* A tree with nothing left to write has every file, and no file is open.
LEMMA WrittenWhole ==
    ASSUME IInv, Whole, NEW p \in Publishers, Seal(p) \/ CheckRevision(p)
    PROVE  Whole'
  <1>1. /\ UNCHANGED <<change, owner, versions, trees, receipts, pointer, revisions, lock, requests, faults>>
        /\ job[p].wanted = NoFiles
    BY DEF Seal, CheckRevision, Written, Counters, disk
  <1>2. /\ job \in [Publishers -> NamedJob] /\ job[p] \in NamedJob /\ Prepared(p) /\ StoreOK
        /\ Named(p)
    BY TypeParts DEF Whole, IInv, Ready
  <1>3. job[p].phase \in {"stage", "revision"}
    BY DEF Seal, CheckRevision, Written, At
  <1>4. job[p].open = Nobody
    <2>1. ASSUME job[p].open # Nobody PROVE FALSE
      <3>1. job[p].open \in Artifacts /\ job[p].wanted[job[p].open] # Absent
        BY <1>2, <1>3, <2>1 DEF Prepared, NamedJob
      <3> QED
        BY <1>1, <3>1 DEF NoFiles
    <2> QED
      BY <2>1
  <1>5. ASSUME NEW phase \in {"validate", "point"}, Goes(p, phase), StoreOK', sealed \subseteq sealed',
               phase = "validate" => job[p].phase = "stage" /\ job[p].version \in sealed',
               phase = "point" => job[p].phase = "revision"
        PROVE  Whole'
    <2>1. PICK j : j = [job[p] EXCEPT !.phase = phase]
      OBVIOUS
    <2>2. /\ j \in NamedJob /\ job' = [job EXCEPT ![p] = j] /\ j.phase = phase /\ j.open = Nobody
          /\ j.version = job[p].version /\ j.content = job[p].content /\ j.next = job[p].next
      BY <1>2, <1>4, <1>5, <2>1 DEF NamedJob, Phases, Goes
    <2>3. job'[p] = j
      BY <1>2, <2>2
    <2>4. phase = "point" => RevisionFiles(job[p].next) = Target(job[p].next)
      <3> SUFFICES ASSUME phase = "point" PROVE RevisionFiles(job[p].next) = Target(job[p].next)
        OBVIOUS
      <3>1. \A a \in Artifacts : RevisionFiles(job[p].next)[a] = Target(job[p].next)[a]
        BY <1>1, <1>2, <1>5 DEF Prepared, WritesHold, NoFiles
      <3>2. RevisionFiles(job[p].next) \in Files
        BY <1>2, FilesType DEF Whole, NamedJob
      <3> QED
        BY <3>1, <3>2 DEF Files, Target
    <2>5. Prepared(p)'
      <3>1. ContentOf(j.version)' = ContentOf(job[p].version)
        BY <1>1, <2>2 DEF ContentOf
      <3>2. /\ RevisionFiles(j.next)' = RevisionFiles(job[p].next)
            /\ Target(j.next)' = Target(job[p].next)
        BY <1>1, <2>2 DEF RevisionFiles, Target, ContentOf
      <3>3. CASE phase = "validate"
        BY <1>2, <1>5, <2>2, <2>3, <3>1, <3>3 DEF Prepared
      <3>4. CASE phase = "point"
        BY <1>1, <1>2, <1>5, <2>2, <2>3, <2>4, <3>1, <3>2, <3>4 DEF Prepared
      <3> QED
        BY <3>3, <3>4
    <2>6. p \in Busy /\ p \notin Naming'
      BY <1>3, <2>2, <2>3 DEF Busy, Naming
    <2> QED
      BY <1>1, <1>5, <2>2, <2>5, <2>6, QuietStep
  <1>6. CASE Seal(p)
    <2>1. /\ job[p].phase = "stage" /\ Goes(p, "validate") /\ sealed' = sealed \cup {job[p].version}
          /\ job[p].version \in DOMAIN versions
      BY <1>2, <1>6 DEF Seal, Written, At, Named, StoreOK
    <2>2. StoreOK'
      BY <1>1, <1>2, <2>1 DEF StoreOK
    <2> QED
      BY <1>5, <2>1, <2>2
  <1>7. CASE CheckRevision(p)
    <2>1. UNCHANGED sealed /\ job[p].phase = "revision"
      BY <1>7 DEF CheckRevision, Written, At, disk
    <2>2. StoreOK'
      BY <1>1, <1>2, <2>1 DEF StoreOK
    <2> QED
      BY <1>1, <1>5, <1>7, <2>1, <2>2, RefuseWhole DEF CheckRevision
  <1> QED
    BY <1>6, <1>7

\* The next revision is to hold what its pointer names; the lock's holder is one
\* of those that were asked, so its number is within the bound.
LEMMA DecideWhole == ASSUME IInv, Whole, NEW p \in Publishers, Decide(p) PROVE Whole'
  <1>1. PICK a, v : a = job[p].artifact /\ v = job[p].version
    OBVIOUS
  <1>2. /\ UNCHANGED <<change, owner, versions, trees, sealed, receipts, pointer, revisions, lock, requests, faults>>
        /\ job \in [Publishers -> NamedJob] /\ job[p] \in NamedJob /\ Prepared(p) /\ StoreOK /\ TypeOK
        /\ job[p].phase = "decide" /\ lock = p /\ a \in Artifacts /\ v \in 1..Len(versions)
    BY <1>1, TypeParts DEF Decide, Whole, IInv, Ready, Holds, Named, NamedJob, At, Counters, disk
  <1>3. StoreOK' /\ ContentOf(v) = job[p].content /\ v \in receipts /\ v \in Names
    BY <1>1, <1>2, VersionsKnown DEF StoreOK, Prepared
  <1>4. CASE job' = [job EXCEPT ![p].phase = "unlock", ![p].outcome = "published"]
    BY <1>2, <1>3, <1>4, UnlockWhole
  <1>5. CASE Refuse(p, "refused")
    BY <1>2, <1>3, <1>5, RefuseWhole
  <1>6. ASSUME job' = [job EXCEPT ![p].phase = "revision", ![p].next = Successor(p),
                                  ![p].wanted = Complete(a, job[p].content)]
        PROVE  Whole'
    <2>1. PICK n : n = Successor(p)
      OBVIOUS
    <2>2. n = [revision |-> pointer.revision + 1, artifacts |-> [pointer.artifacts EXCEPT ![a] = v]]
      BY <1>1, <2>1 DEF Successor
    <2>3. PICK wanted : wanted = Complete(a, ContentOf(v))
      OBVIOUS
    <2>4. /\ wanted \in Files /\ wanted = Target(n)
          /\ \A b \in Artifacts : wanted[b] = Absent => pointer.artifacts[b] = 0 /\ b # a
      BY <1>2, <2>2, <2>3, CompleteTree
    <2>5. n \in Pointers
      <3>1. IsFiniteSet(Busy) /\ p \in Busy /\ pointer.revision + Cardinality(Busy) <= requests
        BY <1>2 DEF Whole, Counted, Busy
      <3>2. Cardinality(Busy) \in Nat /\ Cardinality(Busy) # 0
        BY <3>1, FS_CardinalityType, FS_EmptySet
      <3>3. /\ pointer.revision \in Nat /\ requests \in 0..MaxRequests /\ MaxRequests \in Nat
            /\ pointer.artifacts \in [Artifacts -> Names]
        BY <1>2, PublicationAssumption DEF StoreOK, Pointers, Names
      <3>4. pointer.revision + 1 \in Names
        BY <3>1, <3>2, <3>3 DEF Names
      <3>5. [pointer.artifacts EXCEPT ![a] = v] \in [Artifacts -> Names]
        BY <1>2, <1>3, <3>3
      <3> QED
        BY <2>2, <3>4, <3>5 DEF Pointers
    <2>6. PICK j : j = [job[p] EXCEPT !.phase = "revision", !.next = n, !.wanted = wanted]
      OBVIOUS
    <2>7. /\ j \in NamedJob /\ j.phase = "revision" /\ j.next = n /\ j.wanted = wanted
          /\ j.version = v /\ j.content = job[p].content /\ j.open = job[p].open
      BY <1>1, <1>2, <2>4, <2>5, <2>6 DEF NamedJob, Phases
    <2>8. job' = [job EXCEPT ![p] = j]
      BY <1>2, <1>3, <1>6, <2>1, <2>3, <2>6
    <2>9. job'[p] = j /\ j.open = Nobody
      BY <1>2, <2>7, <2>8, OpenOnlyInTrees
    <2>10. ASSUME NEW b \in Artifacts
           PROVE  /\ wanted[b] \in {Absent, Target(n)[b]}
                  /\ wanted[b] = Absent => RevisionFiles(n)[b] = Target(n)[b]
      <3> SUFFICES ASSUME wanted[b] = Absent PROVE RevisionFiles(n)[b] = Target(n)[b]
        BY <2>4
      <3>1. n.artifacts[b] = 0
        BY <1>2, <2>2, <2>4 DEF StoreOK, Pointers
      <3>2. RevisionFiles(n)[b] = Absent
        BY <1>2, <2>5, <3>1, FilesType DEF Whole
      <3> QED
        BY <2>4, <3>2
    <2>11. WritesHold(p)'
      BY <1>2, <2>7, <2>9, <2>10 DEF WritesHold, Target, ContentOf, RevisionFiles
    <2>12. Prepared(p)'
      BY <1>2, <1>3, <2>7, <2>9, <2>11 DEF Prepared, ContentOf
    <2>13. p \in Busy /\ p \notin Naming'
      BY <1>2, <2>7, <2>9 DEF Busy, Naming
    <2> QED
      BY <1>2, <1>3, <2>7, <2>8, <2>12, <2>13, QuietStep
  <1> QED
    BY <1>1, <1>4, <1>5, <1>6 DEF Decide, Successor

\* The pointer goes to a revision that is written; its one request is done with.
LEMMA PointWhole == ASSUME IInv, Whole, NEW p \in Publishers, Point(p) PROVE Whole'
  <1>1. PICK a, v : a = job[p].artifact /\ v = job[p].version
    OBVIOUS
  <1>2. /\ UNCHANGED <<change, owner, versions, trees, sealed, receipts, revisions, lock, requests, faults>>
        /\ job \in [Publishers -> NamedJob] /\ job[p] \in NamedJob /\ Prepared(p) /\ StoreOK /\ TypeOK
        /\ job[p].phase = "point" /\ lock = p /\ a \in Artifacts /\ v \in 1..Len(versions)
        /\ versions[v].artifact = a /\ pointer' = Successor(p) /\ pointer' = job[p].next
    BY <1>1, PointEffect, TypeParts DEF Point, Whole, NamedJob, At, Counters
  <1>3. job' = [job EXCEPT ![p].phase = "unlock", ![p].outcome = "published"]
    BY DEF Point
  <1>4. PICK j : j = [job[p] EXCEPT !.phase = "unlock", !.outcome = "published"]
    OBVIOUS
  <1>5. /\ j \in NamedJob /\ j.phase = "unlock" /\ job' = [job EXCEPT ![p] = j]
    BY <1>2, <1>3, <1>4 DEF NamedJob, Phases
  <1>6. job' \in [Publishers -> NamedJob] /\ job'[p] = j /\ \A q \in Publishers \ {p} : job'[q] = job[q]
    BY <1>2, <1>5
  <1>7. pointer' \in Pointers /\ pointer \in Pointers
    BY <1>2 DEF NamedJob, StoreOK
  <1>8. StoreOK'
    BY <1>2, <1>7 DEF StoreOK
  <1>9. TypeOK'
    BY <1>6, <1>8 DEF StoreOK, TypeOK, NamedVersion, NamedJob
  <1>10. /\ pointer'.revision = pointer.revision + 1
         /\ \A b \in Artifacts : Published(b)' = IF b = a THEN v ELSE Published(b)
    BY <1>1, <1>2, <1>7 DEF Successor, Pointers, Published
  <1>11. Counted'
    <2>1. Naming' = Naming /\ Busy' = Busy \ {p} /\ p \in Busy
      BY <1>2, <1>5, <1>6 DEF Naming, Busy
    <2>2. IsFiniteSet(Busy)
      BY DEF Whole, Counted
    <2>3. IsFiniteSet(Busy \ {p}) /\ Cardinality(Busy \ {p}) = Cardinality(Busy) - 1
      BY <2>1, <2>2, FS_RemoveElement
    <2>4. /\ Cardinality(Busy) \in Nat /\ pointer.revision \in Nat /\ requests \in Nat
      BY <1>2, <1>7, <2>2, FS_CardinalityType, PublicationAssumption DEF StoreOK, Pointers, Names
    <2> QED
      BY <1>2, <1>10, <2>1, <2>3, <2>4 DEF Whole, Counted
  <1>12. TreesHold'
    BY <1>2 DEF Whole, TreesHold
  <1>13. VisibleIsWhole'
    <2>1. RevisionFiles(job[p].next) = Target(job[p].next) /\ v \in receipts
      BY <1>1, <1>2 DEF Prepared
    <2>2. RevisionFiles(pointer)' = Target(pointer)'
      BY <1>2, <2>1 DEF RevisionFiles, Target, ContentOf
    <2>3. ASSUME NEW b \in Artifacts, Published(b)' # 0
          PROVE  versions[Published(b)'].artifact = b /\ Published(b)' \in receipts
      <3>1. CASE b = a
        BY <1>2, <1>10, <2>1, <3>1
      <3>2. CASE b # a
        BY <1>10, <2>3, <3>2 DEF Whole, VisibleIsWhole, Visible
      <3> QED
        BY <3>1, <3>2
    <2> QED
      BY <1>2, <2>2, <2>3 DEF VisibleIsWhole, Visible, Published
  <1>14. Grows
    BY <1>2 DEF Grows
  <1>15. ASSUME NEW q \in Publishers PROVE Prepared(q)'
    <2>1. CASE q = p
      BY <1>5, <1>6, <2>1 DEF Prepared
    <2>2. CASE q # p
      BY <1>2, <1>6, <1>14, <2>2, OthersPrepared DEF Whole
    <2> QED
      BY <2>1, <2>2
  <1> QED
    BY <1>9, <1>11, <1>12, <1>13, <1>15 DEF Whole

LEMMA WholeInit == Init => Whole
  <1> SUFFICES ASSUME Init PROVE Whole
    OBVIOUS
  <1>1. TypeOK
    <2>1. job \in [Publishers -> NamedJob]
      BY IdleNamed DEF Init
    <2>2. versions \in Seq(NamedVersion) /\ trees \in Seq(Files) /\ Len(versions) = 0 /\ Len(trees) = 0
      BY DEF Init
    <2>3. StoreOK
      <3>1. /\ change \in BOOLEAN /\ owner \in {Absent, Partial, "run"}
            /\ sealed \subseteq DOMAIN versions /\ receipts \subseteq sealed
            /\ pointer \in Pointers /\ lock \in Publishers \cup {Nobody}
        BY IdleNamed DEF Init
      <3>2. /\ revisions \subseteq [pointer : Pointers, files : Files]
            /\ requests \in 0..MaxRequests /\ faults \in 0..MaxFaults
            /\ Len(trees) = Len(versions) /\ Len(versions) <= MaxRequests
        BY <2>2, PublicationAssumption DEF Init
      <3> QED
        BY <2>2, <3>1, <3>2 DEF StoreOK
    <2> QED
      BY <2>1, <2>3, TypeParts
  <1>2. Naming = {} /\ Busy = {}
    BY IdleNamed DEF Init, Naming, Busy
  <1>3. Counted
    BY <1>2, FS_EmptySet DEF Init, Counted, NoPointer
  <1>4. TreesHold /\ VisibleIsWhole
    BY DEF Init, TreesHold, VisibleIsWhole, Visible, Published, NoPointer
  <1>5. \A p \in Publishers : Prepared(p)
    BY IdleNamed DEF Init, Prepared
  <1> QED
    BY <1>1, <1>3, <1>4, <1>5 DEF Whole

LEMMA WholeStep == IInv /\ Whole /\ [Next]_vars => Whole'
  <1> SUFFICES ASSUME IInv, Whole, [Next]_vars PROVE Whole'
    OBVIOUS
  <1>1. ASSUME NEW p \in Publishers, Ask(p) \/ Step(p) \/ Crash(p) PROVE Whole'
    <2>1. WriteFile(p) => job[p].phase \in {"stage", "revision"}
      BY DEF WriteFile
    <2> QED
      BY <1>1, <2>1, AskWhole, ChangeWhole, ReadWhole, StageWhole, WriteStageWhole, WriteRevisionWhole,
         WrittenWhole, CheckWhole, LockWhole, DecideWhole, PointWhole DEF Step
  <1>2. CASE UNCHANGED vars
    <2>1. UNCHANGED <<change, owner, versions, trees, sealed, receipts, pointer, revisions, lock, job, requests, faults>>
      BY <1>2 DEF vars, disk
    <2>2. TypeOK' /\ Counted'
      BY <2>1 DEF Whole, TypeOK, Counted, Naming, Busy
    <2>3. TreesHold'
      BY <2>1 DEF Whole, TreesHold
    <2>4. VisibleIsWhole'
      BY <2>1 DEF Whole, VisibleIsWhole, RevisionFiles, Target, ContentOf, Visible, Published
    <2>5. ASSUME NEW p \in Publishers PROVE Prepared(p)'
      BY <2>1 DEF Whole, Prepared, WritesHold, RevisionFiles, Target, ContentOf
    <2> QED
      BY <2>2, <2>3, <2>4, <2>5 DEF Whole
  <1> QED
    BY <1>1, <1>2 DEF Next

\* A reader of the pointer finds one whole revision: the tree that the pointer
\* names holds what the versions it names say, each of them sealed and
\* validated, and made from the others it names (publish_artifact,
\* _write_complete_revision: the tree is written under the lock before
\* current.json is replaced).  Deaths in the middle and failed writes included.
THEOREM VisibleIsSound == Spec => []VisibleRevisionHolds
  <1>1. Whole => VisibleIsComplete
    BY DEF Whole, VisibleIsComplete, VisibleIsWhole, TypeOK, Target, Visible, Published
  <1>2. IInv /\ Whole => VisibleRevisionHolds
    BY <1>1 DEF IInv, VisibleRevisionHolds
  <1> QED
    BY <1>2, Inductive, WholeInit, WholeStep, PTL DEF Spec
=============================================================================
