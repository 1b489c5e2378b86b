------------------------------ MODULE Publication ------------------------------
(* OpenSpecClient: the artifacts of one change are staged as immutable        *)
(* versions, validated, and published one at a time; readers see one complete *)
(* revision through a pointer that is replaced atomically.  Staging takes no  *)
(* lock and publication takes a flock; a process may die anywhere, and what   *)
(* it was writing stays as it is.                                             *)
(*                                                                            *)
(* A version is named by its place in `versions': its hash covers its content,*)
(* the versions of the artifacts it was made from and the version it replaces,*)
(* so equal records are the same version.  A file holds what the envelope of  *)
(* one version says about one artifact.                                       *)
EXTENDS Integers, Sequences

CONSTANTS
    Publishers,    \* processes that stage and publish
    Artifacts,     \* _ARTIFACT_KINDS
    Requires,      \* _ARTIFACT_DEPENDENCIES: artifact -> artifacts
    Contents,      \* what an envelope may say
    Absent,        \* no such file
    Partial,       \* a file that was created and not written to its end
    Nobody,        \* holder of a free lock; no file
    MaxRequests,   \* bound: publications asked for
    MaxFaults      \* bound: processes that die, and writes the disk refuses

ASSUME PublicationAssumption ==
    /\ Artifacts # {} /\ Contents # {}
    /\ Requires \in [Artifacts -> SUBSET Artifacts]
    /\ \A a \in Artifacts : a \notin Requires[a]
    /\ Absent \notin Contents /\ Partial \notin Contents /\ Absent # Partial
    /\ Nobody \notin Publishers \cup Artifacts
    /\ MaxRequests \in Nat /\ MaxFaults \in Nat

VARIABLES
    change,       \* OpenSpec has the change
    owner,        \* the file that binds the change to the run
    versions,     \* the staged versions, in the order they were named
    trees,        \* trees[v]: the files in the tree of version v
    sealed,       \* versions whose manifest is written
    receipts,     \* versions with a validation receipt
    pointer,      \* current.json: revision number, and the version of each artifact
    revisions,    \* revision trees on disk: a set of [pointer, files]
    lock,         \* holder of .publish.lock
    job,          \* job[p]: what publisher p is doing
    requests,     \* publications asked for
    faults        \* processes that died and writes that failed

disk == <<change, owner, versions, trees, sealed, receipts, pointer, revisions>>
vars == <<disk, lock, job, requests, faults>>

\* Files and versions; 0 is no version.
FileStates == Contents \cup {Absent, Partial}
Files == [Artifacts -> FileStates]
NoFiles == [a \in Artifacts |-> Absent]
Names == 0..MaxRequests
NoPointer == [revision |-> 0, artifacts |-> [a \in Artifacts |-> 0]]
Pointers == [revision : Names, artifacts : [Artifacts -> Names]]

Phases == {"idle", "new", "bind", "binding", "inputs", "parent", "name", "stage", "validate",
           "checkpoint", "lock", "decide", "revision", "complete", "point", "unlock"}
Idle == [phase |-> "idle", artifact |-> CHOOSE a \in Artifacts : TRUE,
         content |-> CHOOSE c \in Contents : TRUE,
         inputs |-> [a \in Artifacts |-> 0], parent |-> 0, version |-> 0,
         wanted |-> NoFiles, open |-> Nobody, next |-> NoPointer, outcome |-> "none"]

TypeOK ==
    /\ change \in BOOLEAN /\ owner \in {Absent, Partial, "run"}
    /\ versions \in Seq([artifact : Artifacts, content : Contents,
                         inputs : [Artifacts -> Names], parent : Names])
    /\ trees \in Seq(Files) /\ Len(trees) = Len(versions) /\ Len(versions) <= MaxRequests
    /\ sealed \subseteq DOMAIN versions /\ receipts \subseteq sealed
    /\ pointer \in Pointers
    /\ revisions \subseteq [pointer : Pointers, files : Files]
    /\ lock \in Publishers \cup {Nobody}
    /\ job \in [Publishers -> [phase : Phases, artifact : Artifacts, content : Contents,
                               inputs : [Artifacts -> Names], parent : Names, version : Names,
                               wanted : Files, open : Artifacts \cup {Nobody}, next : Pointers,
                               outcome : {"none", "published", "refused", "immutable", "partial"}]]
    /\ requests \in 0..MaxRequests /\ faults \in 0..MaxFaults

Init ==
    /\ change = FALSE /\ owner = Absent
    /\ versions = <<>> /\ trees = <<>> /\ sealed = {} /\ receipts = {}
    /\ pointer = NoPointer /\ revisions = {}
    /\ lock = Nobody
    /\ job = [p \in Publishers |-> Idle]
    /\ requests = 0 /\ faults = 0

Published(a) == pointer.artifacts[a]
Visible == {a \in Artifacts : Published(a) # 0}
ContentOf(v) == versions[v].content

At(p, phase) == job[p].phase = phase
Goes(p, phase) == job' = [job EXCEPT ![p].phase = phase]
Ends(p, outcome) == job' = [job EXCEPT ![p] = [Idle EXCEPT !.outcome = outcome]]
Counters == <<requests, faults>>

-----------------------------------------------------------------------------
(* The change and its owner.                                                  *)

Ask(p) ==
    /\ At(p, "idle") /\ requests < MaxRequests
    /\ \E a \in Artifacts, c \in Contents :
          job' = [job EXCEPT ![p] = [Idle EXCEPT !.phase = "new", !.artifact = a, !.content = c]]
    /\ requests' = requests + 1
    /\ UNCHANGED <<disk, lock, faults>>

\* `openspec new change' succeeds once; when it fails the binding written after
\* it must be there and name this run.
NewChange(p) ==
    /\ At(p, "new")
    /\ change' = TRUE
    /\ IF ~change THEN Goes(p, "bind")
       ELSE IF owner = "run" THEN Goes(p, "inputs") ELSE Ends(p, "refused")
    /\ UNCHANGED <<owner, versions, trees, sealed, receipts, pointer, revisions, lock, Counters>>

\* The binding is created exclusively and written in place.
Bind(p) ==
    /\ \/ At(p, "bind") /\ owner' = Partial /\ Goes(p, "binding")
       \/ At(p, "binding") /\ owner' = "run" /\ Goes(p, "inputs")
    /\ UNCHANGED <<change, versions, trees, sealed, receipts, pointer, revisions, lock, Counters>>

-----------------------------------------------------------------------------
(* stage_artifact, without the lock.                                          *)

Missing(p) == {d \in Requires[job[p].artifact] : job[p].inputs[d] = 0}

\* Every dependency is looked up through the pointer of that moment.
ReadInput(p) ==
    /\ At(p, "inputs")
    /\ \/ Missing(p) = {} /\ Goes(p, "parent")
       \/ \E d \in Missing(p) :
             IF d \in Visible THEN job' = [job EXCEPT ![p].inputs[d] = Published(d)]
                              ELSE Ends(p, "refused")
    /\ UNCHANGED <<disk, lock, Counters>>

ReadParent(p) ==
    /\ At(p, "parent")
    /\ job' = [job EXCEPT ![p].phase = "name", ![p].parent = Published(job[p].artifact)]
    /\ UNCHANGED <<disk, lock, Counters>>

VersionOf(p) == [artifact |-> job[p].artifact, content |-> job[p].content,
                 inputs |-> job[p].inputs, parent |-> job[p].parent]

\* The files of a tree with `own' for the artifact: every other visible artifact
\* is copied from its published version.
Complete(a, own) ==
    [b \in Artifacts |-> IF b = a THEN own
                         ELSE IF b \in Visible THEN ContentOf(Published(b)) ELSE Absent]

\* The version gets its name, and its tree is to hold the files visible now.
Stage(p) ==
    /\ At(p, "name")
    /\ LET known == {v \in DOMAIN versions : versions[v] = VersionOf(p)}
           v == IF known = {} THEN Len(versions) + 1 ELSE CHOOSE w \in known : TRUE
       IN  /\ versions' = IF known = {} THEN Append(versions, VersionOf(p)) ELSE versions
           /\ trees' = IF known = {} THEN Append(trees, NoFiles) ELSE trees
           /\ job' = [job EXCEPT ![p].phase = "stage", ![p].version = v,
                                 ![p].wanted = Complete(job[p].artifact, job[p].content)]
    /\ UNCHANGED <<change, owner, sealed, receipts, pointer, revisions, lock, Counters>>

-----------------------------------------------------------------------------
(* Trees: that of a version while it is staged, that of the next revision     *)
(* under the lock.                                                            *)

RevisionFiles(n) ==
    LET tree == {r \in revisions : r.pointer = n}
    IN  IF tree = {} THEN NoFiles ELSE (CHOOSE r \in tree : TRUE).files

FileAt(p, a) == IF At(p, "stage") THEN trees[job[p].version][a] ELSE RevisionFiles(job[p].next)[a]

Put(p, a, file) ==
    IF At(p, "stage")
    THEN trees' = [trees EXCEPT ![job[p].version][a] = file] /\ UNCHANGED revisions
    ELSE LET n == job[p].next
         IN  /\ revisions' = {r \in revisions : r.pointer # n}
                             \cup {[pointer |-> n, files |-> [RevisionFiles(n) EXCEPT ![a] = file]]}
             /\ UNCHANGED trees

\* A refusal under the lock still unlocks.
Refuse(p, outcome) ==
    IF lock = p THEN job' = [job EXCEPT ![p].phase = "unlock", ![p].outcome = outcome]
                ELSE Ends(p, outcome)

AnyFile(file, payload) == file # Absent

\* An existing file must hold what would be written.
Accepted(file, payload) == file = payload

\* _write_immutable_file, one file after the other.  A new file is created first
\* and then written; a write that fails removes it, a process that dies does not.
WriteFile(p) ==
    /\ job[p].phase \in {"stage", "revision"}
    /\ LET o == job[p].open
           Wrote(a) == job' = [job EXCEPT ![p].wanted[a] = Absent, ![p].open = Nobody]
       IN  \/ /\ o = Nobody
              /\ \E a \in {b \in Artifacts : job[p].wanted[b] # Absent} :
                    \/ /\ Accepted(FileAt(p, a), job[p].wanted[a])
                       /\ Wrote(a) /\ UNCHANGED <<trees, revisions>>
                    \/ /\ FileAt(p, a) = Absent
                       /\ Put(p, a, Partial) /\ job' = [job EXCEPT ![p].open = a]
                    \/ /\ FileAt(p, a) # Absent /\ ~Accepted(FileAt(p, a), job[p].wanted[a])
                       /\ Refuse(p, IF FileAt(p, a) = Partial THEN "partial" ELSE "immutable")
                       /\ UNCHANGED <<trees, revisions>>
              /\ UNCHANGED faults
           \/ /\ o # Nobody
              /\ Put(p, o, job[p].wanted[o]) /\ Wrote(o)
              /\ UNCHANGED faults
           \/ /\ o # Nobody /\ faults < MaxFaults
              /\ Put(p, o, Absent) /\ Refuse(p, "refused")
              /\ faults' = faults + 1
    /\ UNCHANGED <<change, owner, versions, sealed, receipts, pointer, lock, requests>>

Written(p, phase) == At(p, phase) /\ job[p].wanted = NoFiles

\* The manifest is written last and at once.
Seal(p) ==
    /\ Written(p, "stage")
    /\ sealed' = sealed \cup {job[p].version}
    /\ Goes(p, "validate")
    /\ UNCHANGED <<change, owner, versions, trees, receipts, pointer, revisions, lock, Counters>>

\* validate_artifact: the CLI looks at the tree of the version.
Validate(p) ==
    /\ At(p, "validate")
    /\ \/ receipts' = receipts \cup {job[p].version} /\ Goes(p, "checkpoint")
       \/ Ends(p, "refused") /\ UNCHANGED receipts
    /\ UNCHANGED <<change, owner, versions, trees, sealed, pointer, revisions, lock, Counters>>

-----------------------------------------------------------------------------
(* publish_artifact.                                                          *)

\* The checkpoint authority binds the version and its receipt, or it refuses.
CheckCheckpoint(p) ==
    /\ At(p, "checkpoint") /\ job[p].version \in receipts
    /\ Goes(p, "lock") \/ Ends(p, "refused")
    /\ UNCHANGED <<disk, lock, Counters>>

Lock(p) ==
    /\ At(p, "lock") /\ lock = Nobody
    /\ lock' = p
    /\ Goes(p, "decide")
    /\ UNCHANGED <<disk, Counters>>

Current(v) == \A d \in Requires[versions[v].artifact] : Published(d) = versions[v].inputs[d]
AnyParent(v) == TRUE
Successive(v) == Published(versions[v].artifact) = versions[v].parent

NoDependents(v) == {}

\* Published artifacts that were made from another version of this one.
StaleDependents(v) ==
    {b \in Visible \ {versions[v].artifact} :
        /\ versions[v].artifact \in Requires[b]
        /\ versions[Published(b)].inputs[versions[v].artifact] # v}
Publishable(v) == Current(v) /\ Successive(v) /\ StaleDependents(v) = {}

\* Publishing what is visible already changes nothing.
Decide(p) ==
    /\ At(p, "decide")
    /\ LET v == job[p].version
           a == job[p].artifact
           successor == [revision |-> pointer.revision + 1,
                         artifacts |-> [pointer.artifacts EXCEPT ![a] = v]]
       IN  \/ /\ Current(v) /\ Published(a) = v
              /\ job' = [job EXCEPT ![p].phase = "unlock", ![p].outcome = "published"]
           \/ /\ Published(a) # v /\ Publishable(v)
              /\ job' = [job EXCEPT ![p].phase = "revision", ![p].next = successor,
                                    ![p].wanted = Complete(a, job[p].content)]
           \/ /\ ~Current(v) \/ (Published(a) # v /\ ~Publishable(v))
              /\ Refuse(p, "refused")
    /\ UNCHANGED <<disk, lock, Counters>>

\* A revision with every artifact is validated by the CLI before it is visible.
CheckRevision(p) ==
    /\ Written(p, "revision")
    /\ \/ Goes(p, "point")
       \/ (\A b \in Artifacts : job[p].next.artifacts[b] # 0) /\ Refuse(p, "refused")
    /\ UNCHANGED <<disk, lock, Counters>>

Point(p) ==
    /\ At(p, "point")
    /\ pointer' = job[p].next
    /\ job' = [job EXCEPT ![p].phase = "unlock", ![p].outcome = "published"]
    /\ UNCHANGED <<change, owner, versions, trees, sealed, receipts, revisions, lock, Counters>>

KeptOnRefusal(outcome) == IF outcome = "published" THEN Nobody ELSE lock

\* `finally': whatever happened under the lock.
Released(outcome) == Nobody

Unlock(p) ==
    /\ At(p, "unlock")
    /\ lock' = Released(job[p].outcome)
    /\ Ends(p, job[p].outcome)
    /\ UNCHANGED <<disk, Counters>>

\* The process dies; the kernel releases its lock.
Crash(p) ==
    /\ ~At(p, "idle") /\ faults < MaxFaults
    /\ faults' = faults + 1
    /\ job' = [job EXCEPT ![p] = Idle]
    /\ lock' = IF lock = p THEN Nobody ELSE lock
    /\ UNCHANGED <<disk, requests>>

-----------------------------------------------------------------------------

Step(p) ==
    \/ NewChange(p) \/ Bind(p)
    \/ ReadInput(p) \/ ReadParent(p) \/ Stage(p) \/ WriteFile(p) \/ Seal(p) \/ Validate(p)
    \/ CheckCheckpoint(p) \/ Lock(p) \/ Decide(p) \/ CheckRevision(p) \/ Point(p) \/ Unlock(p)

Next == \E p \in Publishers : Ask(p) \/ Step(p) \/ Crash(p)

Spec == Init /\ [][Next]_vars

\* Every process is scheduled, and a flock is granted in the end: the bound on
\* requests leaves nobody to take it over and over.
Fair == Spec /\ \A p \in Publishers : WF_vars(Step(p))

-----------------------------------------------------------------------------
(* Properties.                                                                *)

\* What a reader finds through the pointer is whole: the tree of the visible
\* revision holds exactly the content of the versions the pointer names, each of
\* them sealed and validated (_write_complete_revision, _write_immutable_file).
VisibleIsComplete ==
    /\ TypeOK
    /\ pointer # NoPointer =>
          RevisionFiles(pointer) =
              [a \in Artifacts |-> IF a \in Visible THEN ContentOf(Published(a)) ELSE Absent]
    /\ \A a \in Visible : /\ versions[Published(a)].artifact = a
                          /\ Published(a) \in sealed \cap receipts

\* Every visible version was made from the very versions that are visible beside
\* it, although staging reads them without the lock and one by one
\* (_revalidate_published_prerequisites, _reject_stale_published_dependents).
VisibleIsClosed ==
    \A a \in Visible : \A d \in Requires[a] :
        d \in Visible /\ versions[Published(a)].inputs[d] = Published(d)

\* What a reader sees is one whole revision that fits together.
VisibleRevisionHolds == VisibleIsComplete /\ VisibleIsClosed

\* Every replacement of the pointer is the next revision, changes one artifact,
\* and replaces the version that the new one was made to replace: no publisher
\* undoes what another published while it was staging (publish_artifact's check
\* of the parent under the lock).
NeverBack ==
    [][pointer' # pointer =>
          /\ pointer'.revision = pointer.revision + 1
          /\ \E a \in Artifacts :
                /\ \A b \in Artifacts \ {a} : pointer'.artifacts[b] = pointer.artifacts[b]
                /\ versions[pointer'.artifacts[a]].parent = pointer.artifacts[a]]_vars

\* Whoever asks gets an answer, refusals and dead lock holders included: the
\* lock is released on every way out.
RequestsSettle == \A p \in Publishers : ~At(p, "idle") ~> At(p, "idle")

\* After an interruption alone (one publisher, nobody else writing) what it left
\* behind is never in the way.
InterruptionIsSafe == \A p \in Publishers : job[p].outcome # "partial"
=============================================================================
