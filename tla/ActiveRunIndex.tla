---------------------------- MODULE ActiveRunIndex ----------------------------
(***************************************************************************)
(* run_index.py, its caller PrepareCoordinator.activate_reservation        *)
(* (prepare.py) and the end of a run in finalizer.py: the entry that gives *)
(* one physical repository to one run at a time.                           *)
(*                                                                         *)
(* A coordinator reserves the repository, claims a ticket for its          *)
(* reservation, checks compatibility outside the lock, and activates a run *)
(* whose identity the reservation fixes, so one identifier stands for the  *)
(* reservation, its journal, its challenge and its run.  An entry is       *)
(* determined by its kind and identifier, which thus stand for its         *)
(* revision and hash.  The finalizer ends a run: DONE in the store, a      *)
(* signed tombstone, the removal of the entry, and a mark in the store.    *)
(*                                                                         *)
(* Every operation holds the repository lock, but writes several files and *)
(* may die between two of them; task is what the holder of the lock writes *)
(* next.  RunStore implements a register, so a commit of a run's state is  *)
(* one step here; what a run does between activation and finalization is   *)
(* reduced to its disposition.                                             *)
(***************************************************************************)
EXTENDS Naturals, FiniteSets

CONSTANTS
    Finalizers,         \* processes that finalize runs
    Free,               \* nobody holds the repository lock
    MaxReservations,    \* bound: reservations ever issued
    MaxResumes,         \* bound: resumes of human reviews, all runs together
    MaxCrashes          \* bound: crashes of coordinators and finalizers

Ids == 1 .. MaxReservations

(* What the holder of the lock writes next. *)
Steps == {"reserve", "remove_marker", "context", "initial", "binding", "publish",
          "complete", "unlink"}

ASSUME IndexAssumption ==
    /\ MaxReservations \in Nat
    /\ MaxResumes \in Nat
    /\ MaxCrashes \in Nat
    /\ Free \notin [step : Steps, id : Ids]

VARIABLES
    entry,          \* the index file of the repository
    journal,        \* id |-> the activation journal
    run,            \* id |-> the run's state, its store and binding files
    tombstones,     \* release receipts: pairs of a run and its DONE generation
    issued,         \* reservations issued so far
    expired,        \* ids whose five minutes are over
    ownerDead,      \* ids whose reserving process is gone
    verifying,      \* ids whose claimant is checking compatibility
    task,           \* Free, or the next write of the holder of the lock
    fin,            \* finalizer |-> where it is and the generation it holds
    resumes,        \* resumes so far
    crashes         \* crashes so far

vars == <<entry, journal, run, tombstones, issued, expired, ownerDead,
          verifying, task, fin, resumes, crashes>>

clock   == <<expired, ownerDead>>
bounds  == <<resumes, crashes>>
release == <<tombstones, fin>>

-----------------------------------------------------------------------------
(* The index file, a journal, a run and a finalizer *)

NoEntry        == [kind |-> "none", id |-> 0]
Reservation(r) == [kind |-> "reservation", id |-> r]
NoCandidate(r) == [kind |-> "no_candidate", id |-> r]
Active(r)      == [kind |-> "active", id |-> r]

Entries == {NoEntry} \cup UNION {{Reservation(r), NoCandidate(r), Active(r)} : r \in Ids}

Preflight == {"claimed", "preflight_complete", "preflight_failed"}
Phases    == {"none", "prepared", "completed"} \cup Preflight
Outcomes  == {"none", "no_candidate", "active", "human_review"}

(* What the journal of an outcome publishes. *)
Published(r) == IF journal[r].outcome = "no_candidate" THEN NoCandidate(r) ELSE Active(r)

Dispositions == {"none", "ACTIVE", "HUMAN_REVIEW", "DONE", "ABANDONED"}

NoRun == [disposition |-> "none",
          initial |-> FALSE,    \* is it still the journalled initial state?
          context |-> FALSE,    \* is preparation-context.json there?
          bound   |-> FALSE,    \* is active-run-binding.json there?
          dones   |-> 0,        \* DONE generations so far
          marked  |-> FALSE]    \* finalization_index_released

Stored(r) == run[r].disposition # "none"
Live(r)   == run[r].disposition \in {"ACTIVE", "HUMAN_REVIEW"}

Tombstone(r) == <<r, run[r].dones>>

IdleFinalizer == [pc |-> "idle", id |-> 0, fresh |-> FALSE]

(* The holder of the lock goes on with step, for id r. *)
Then(step, r) == task' = [step |-> step, id |-> r]

Init ==
    /\ entry = NoEntry
    /\ journal = [r \in Ids |-> [phase |-> "none", outcome |-> "none"]]
    /\ run = [r \in Ids |-> NoRun]
    /\ tombstones = {}
    /\ issued = 0
    /\ expired = {} /\ ownerDead = {} /\ verifying = {}
    /\ task = Free
    /\ fin = [f \in Finalizers |-> IdleFinalizer]
    /\ resumes = 0
    /\ crashes = 0

-----------------------------------------------------------------------------
(* probe_or_reserve *)

(* _create_reservation_locked; the entry is gone or was never there. *)
Reserve ==
    /\ \/ task = Free
       \/ task # Free /\ task.step = "reserve"
    /\ entry = NoEntry
    /\ issued < MaxReservations
    /\ issued' = issued + 1
    /\ entry' = Reservation(issued + 1)
    /\ task' = Free
    /\ UNCHANGED <<journal, run, release, clock, verifying, bounds>>

(* Mutant: the journal of the reservation is not consulted. *)
ClearAnyExpiredReservation(r) ==
    /\ task = Free
    /\ issued < MaxReservations
    /\ entry = Reservation(r)
    /\ r \in expired \cap ownerDead
    /\ entry' = NoEntry
    /\ Then("reserve", r)
    /\ UNCHANGED <<journal, run, release, issued, clock, verifying, bounds>>

(* _can_clear_stale_reservation_locked, and the removal of the entry. *)
ClearStaleReservation(r) ==
    /\ task = Free
    /\ issued < MaxReservations
    /\ entry = Reservation(r)
    /\ r \in expired \cap ownerDead
    /\ journal[r].phase = "none"
    /\ entry' = NoEntry
    /\ Then("reserve", r)
    /\ UNCHANGED <<journal, run, release, issued, clock, verifying, bounds>>

(* A no-candidate marker is replaced, once its journal is complete. *)
CompleteNoCandidateJournal(r) ==
    /\ task = Free
    /\ issued < MaxReservations
    /\ entry = NoCandidate(r)
    /\ journal[r].phase \in {"prepared", "completed"}
    /\ journal' = [journal EXCEPT ![r].phase = "completed"]
    /\ Then("remove_marker", r)
    /\ UNCHANGED <<entry, run, release, issued, clock, verifying, bounds>>

RemoveMarker(r) ==
    /\ task = [step |-> "remove_marker", id |-> r]
    /\ entry' = NoEntry
    /\ Then("reserve", r)
    /\ UNCHANGED <<journal, run, release, issued, clock, verifying, bounds>>

-----------------------------------------------------------------------------
(* From a reservation to a prepared journal *)

(* claim_selected_activation: the first caller claims and goes on to check *)
(* compatibility; _assert_run_id_unused holds of a fresh identifier.       *)
Claim(r) ==
    /\ task = Free
    /\ entry = Reservation(r)
    /\ journal[r].phase = "none"
    /\ ~Stored(r) /\ ~run[r].bound
    /\ journal' = [journal EXCEPT ![r].phase = "claimed"]
    /\ verifying' = verifying \cup {r}
    /\ UNCHANGED <<entry, run, release, issued, clock, task, bounds>>

(* Mutant: an expired claim waits for its owner's death, as a reservation. *)
ClaimOfDeadOwnerExpired(r) ==
    /\ task = Free
    /\ journal[r].phase = "claimed"
    /\ entry = Reservation(r)
    /\ r \in expired \cap ownerDead
    /\ journal' = [journal EXCEPT ![r].phase = "preflight_failed"]
    /\ UNCHANGED <<entry, run, release, issued, clock, verifying, task, bounds>>

(* A later caller finds the claim expired. *)
ClaimExpired(r) ==
    /\ task = Free
    /\ journal[r].phase = "claimed"
    /\ entry = Reservation(r)
    /\ r \in expired
    /\ journal' = [journal EXCEPT ![r].phase = "preflight_failed"]
    /\ UNCHANGED <<entry, run, release, issued, clock, verifying, task, bounds>>

(* record_claim_compatibility, by the claimant. *)
RecordCompatibility(r) ==
    /\ task = Free
    /\ r \in verifying
    /\ journal[r].phase = "claimed"
    /\ journal' = [journal EXCEPT ![r].phase = "preflight_complete"]
    /\ verifying' = verifying \ {r}
    /\ UNCHANGED <<entry, run, release, issued, clock, task, bounds>>

(* The compatibility check failed. *)
CompatibilityFails(r) ==
    /\ task = Free
    /\ r \in verifying
    /\ journal[r].phase = "claimed"
    /\ journal' = [journal EXCEPT ![r].phase = "preflight_failed"]
    /\ verifying' = verifying \ {r}
    /\ UNCHANGED <<entry, run, release, issued, clock, task, bounds>>

(* The claimant comes back after its claim was decided by someone else:    *)
(* ActivationReplayMismatch or AuthoritativeIndexCorrupt, nothing changes. *)
VerifiedTooLate(r) ==
    /\ task = Free
    /\ r \in verifying
    /\ journal[r].phase # "claimed"
    /\ verifying' = verifying \ {r}
    /\ UNCHANGED <<entry, journal, run, release, issued, clock, task, bounds>>

(* complete_selected_activation *)
PrepareSelected(r) ==
    /\ task = Free
    /\ journal[r].phase = "preflight_complete"
    /\ journal' = [journal EXCEPT ![r] = [phase |-> "prepared", outcome |-> "active"]]
    /\ Then("context", r)
    /\ UNCHANGED <<entry, run, release, issued, clock, verifying, bounds>>

(* complete_selected_activation_human_review: a run without a context. *)
PrepareHumanReview(r) ==
    /\ task = Free
    /\ journal[r].phase = "preflight_failed"
    /\ journal' = [journal EXCEPT ![r] = [phase |-> "prepared", outcome |-> "human_review"]]
    /\ Then("initial", r)
    /\ UNCHANGED <<entry, run, release, issued, clock, verifying, bounds>>

(* activate_reservation without a candidate. *)
PrepareNoCandidate(r) ==
    /\ task = Free
    /\ entry = Reservation(r)
    /\ journal[r].phase = "none"
    /\ journal' = [journal EXCEPT ![r] = [phase |-> "prepared", outcome |-> "no_candidate"]]
    /\ Then("publish", r)
    /\ UNCHANGED <<entry, run, release, issued, clock, verifying, bounds>>

(* Mutant: a prepared journal is taken for one whose files are written. *)
ReplayPublication(r) ==
    /\ task = Free
    /\ journal[r].phase = "prepared"
    /\ entry.kind = "reservation" => entry.id = r
    /\ Then("publish", r)
    /\ UNCHANGED <<entry, journal, run, release, issued, clock, verifying, bounds>>

(* activation_result: the replay of an interrupted activation starts over, *)
(* unless another reservation is in the index (or the marker is gone).     *)
Replay(r) ==
    /\ task = Free
    /\ journal[r].phase = "prepared"
    /\ entry.kind = "reservation" => entry.id = r
    /\ CASE journal[r].outcome = "active"       -> Then("context", r)
         [] journal[r].outcome = "human_review" -> Then("initial", r)
         [] OTHER -> entry \in {Reservation(r), NoCandidate(r)} /\ Then("publish", r)
    /\ UNCHANGED <<entry, journal, run, release, issued, clock, verifying, bounds>>

-----------------------------------------------------------------------------
(* _complete_prepared_activation_locked: four files and the journal *)

WriteContext(r) ==
    /\ task = [step |-> "context", id |-> r]
    /\ run' = [run EXCEPT ![r].context = TRUE]
    /\ Then("initial", r)
    /\ UNCHANGED <<entry, journal, release, issued, clock, verifying, bounds>>

(* _persist_initial_state adopts a stored run only in its initial state. *)
PersistInitialState(r) ==
    /\ task = [step |-> "initial", id |-> r]
    /\ Stored(r) => run[r].initial
    /\ run' = [run EXCEPT ![r].initial = TRUE,
                          ![r].disposition = IF journal[r].outcome = "active" THEN "ACTIVE"
                                                                              ELSE "HUMAN_REVIEW"]
    /\ Then("binding", r)
    /\ UNCHANGED <<entry, journal, release, issued, clock, verifying, bounds>>

WriteRunBinding(r) ==
    /\ task = [step |-> "binding", id |-> r]
    /\ run' = [run EXCEPT ![r].bound = TRUE]
    /\ Then("publish", r)
    /\ UNCHANGED <<entry, journal, release, issued, clock, verifying, bounds>>

(* The reservation is replaced by what the activation published. *)
PublishEntry(r) ==
    /\ task = [step |-> "publish", id |-> r]
    /\ entry \in {Reservation(r), Published(r)}
    /\ entry' = Published(r)
    /\ Then("complete", r)
    /\ UNCHANGED <<journal, run, release, issued, clock, verifying, bounds>>

CompleteJournal(r) ==
    /\ task = [step |-> "complete", id |-> r]
    /\ journal' = [journal EXCEPT ![r].phase = "completed"]
    /\ task' = Free
    /\ UNCHANGED <<entry, run, release, issued, clock, verifying, bounds>>

(* ActivationStateMismatch or AuthoritativeIndexCorrupt. *)
ActivationRefused(r) ==
    /\ \/ task = [step |-> "initial", id |-> r] /\ Stored(r) /\ ~run[r].initial
       \/ task = [step |-> "publish", id |-> r] /\ entry \notin {Reservation(r), Published(r)}
    /\ task' = Free
    /\ UNCHANGED <<entry, journal, run, release, issued, clock, verifying, bounds>>

-----------------------------------------------------------------------------
(* The run between activation and finalization.  Its identity is handed    *)
(* out when it is in the index, or by its completed journal.               *)

Known(r) == entry = Active(r) \/ journal[r].phase = "completed" \/ ~run[r].initial

(* A commit of run r, which must not be between the check and the removal  *)
(* of release (it holds the run's lock too); other views become stale.     *)
Commit(r, new) ==
    /\ task # Free => task # [step |-> "unlink", id |-> r]
    /\ run' = [run EXCEPT ![r] = new]
    /\ fin' = [f \in Finalizers |->
                  IF fin[f].id = r THEN [fin[f] EXCEPT !.fresh = FALSE] ELSE fin[f]]

Moved(r, disposition) ==
    [run[r] EXCEPT !.disposition = disposition, !.initial = FALSE]

(* Preparation and stages: any number of commits, or a human review. *)
Work(r) ==
    /\ Known(r)
    /\ run[r].disposition = "ACTIVE"
    /\ \E d \in {"ACTIVE", "HUMAN_REVIEW"} : Commit(r, Moved(r, d))
    /\ UNCHANGED <<entry, journal, tombstones, issued, clock, verifying, task, bounds>>

(* A signed authorization; its transition is validated by state.py. *)
Authorize(r) ==
    /\ Known(r)
    /\ run[r].disposition = "HUMAN_REVIEW"
    /\ \/ /\ resumes < MaxResumes
          /\ resumes' = resumes + 1
          /\ Commit(r, Moved(r, "ACTIVE"))
       \/ /\ Commit(r, Moved(r, "ABANDONED"))
          /\ UNCHANGED resumes
    /\ UNCHANGED <<entry, journal, tombstones, issued, clock, verifying, task, crashes>>

-----------------------------------------------------------------------------
(* The finalizer (finalizer.py), from the last check of advance() on *)

Goto(f, pc) == fin' = [fin EXCEPT ![f].pc = pc]

(* Mutant: the commit of one finalizer does not make the other's stale. *)
CommitUnseen(f, new, pc) ==
    LET r == fin[f].id
    IN  IF fin[f].fresh
        THEN /\ run' = [run EXCEPT ![r] = new]
             /\ fin' = [fin EXCEPT ![f] = IF pc = "idle" THEN IdleFinalizer ELSE [@ EXCEPT !.pc = pc]]
        ELSE /\ fin' = [fin EXCEPT ![f] = IdleFinalizer]
             /\ UNCHANGED run

(* A commit of the finalizer itself: refused if its generation is stale    *)
(* (CompareAndSwapConflict leaves advance), else its own view is current.  *)
CommitOwn(f, new, pc) ==
    LET r == fin[f].id
    IN  IF fin[f].fresh
        THEN /\ task # Free => task # [step |-> "unlink", id |-> r]
             /\ run' = [run EXCEPT ![r] = new]
             /\ fin' = [g \in Finalizers |->
                           IF g = f THEN IF pc = "idle" THEN IdleFinalizer
                                                        ELSE [fin[f] EXCEPT !.pc = pc]
                           ELSE IF fin[g].id = r THEN [fin[g] EXCEPT !.fresh = FALSE]
                           ELSE fin[g]]
        ELSE /\ fin' = [fin EXCEPT ![f] = IdleFinalizer]
             /\ UNCHANGED run

(* Mutant: a run that is DONE is not taken up again. *)
LoadActiveRun(f, r) ==
    /\ fin[f].pc = "idle"
    /\ task = Free
    /\ entry = Active(r)
    /\ run[r].disposition = "ACTIVE"
    /\ run[r].context /\ ~run[r].initial
    /\ fin' = [fin EXCEPT ![f] = [pc |-> "bind", id |-> r, fresh |-> TRUE]]
    /\ UNCHANGED <<entry, journal, run, tombstones, issued, clock, verifying, task, bounds>>

(* The launcher composes a finalizer only for the run that is in the index *)
(* (_require_active_run); advance() then takes up an eligible ACTIVE run,  *)
(* or one DONE and not yet marked.                                         *)
LoadRun(f, r) ==
    /\ fin[f].pc = "idle"
    /\ task = Free
    /\ entry = Active(r)
    /\ \/ /\ run[r].disposition = "ACTIVE"
          /\ run[r].context /\ ~run[r].initial
          /\ fin' = [fin EXCEPT ![f] = [pc |-> "bind", id |-> r, fresh |-> TRUE]]
       \/ /\ run[r].disposition = "DONE"
          /\ ~run[r].marked
          /\ fin' = [fin EXCEPT ![f] = [pc |-> "release", id |-> r, fresh |-> TRUE]]
    /\ UNCHANGED <<entry, journal, run, tombstones, issued, clock, verifying, task, bounds>>

(* _active_index_release_binding: the run must be the one in the index. *)
BindRelease(f) ==
    /\ fin[f].pc = "bind"
    /\ task = Free
    /\ Goto(f, IF entry = Active(fin[f].id) THEN "done" ELSE "escalate")
    /\ UNCHANGED <<entry, journal, run, tombstones, issued, clock, verifying, task, bounds>>

CommitDone(f) ==
    LET r == fin[f].id
    IN  /\ fin[f].pc = "done"
        /\ CommitOwn(f, [Moved(r, "DONE") EXCEPT !.dones = @ + 1], "release")
        /\ UNCHANGED <<entry, journal, tombstones, issued, clock, verifying, task, bounds>>

(* Mutant: the terminal generation is not compared with the current one. *)
ReleaseAnyGeneration(f) ==
    LET r == fin[f].id
    IN  /\ fin[f].pc = "release"
        /\ task = Free
        /\ entry = Active(r)
        /\ tombstones' = tombstones \cup {Tombstone(r)}
        /\ Then("unlink", r)
        /\ Goto(f, "unlink")
        /\ UNCHANGED <<entry, journal, run, issued, clock, verifying, bounds>>

(* release of a run that is in the index: the generation must be the       *)
(* current one (TerminalGenerationMismatch otherwise); a receipt that an   *)
(* interrupted release left behind is the same one.                        *)
WriteTombstone(f) ==
    LET r == fin[f].id
    IN  /\ fin[f].pc = "release"
        /\ task = Free
        /\ entry = Active(r) /\ fin[f].fresh
        /\ tombstones' = tombstones \cup {Tombstone(r)}
        /\ Then("unlink", r)
        /\ Goto(f, "unlink")
        /\ UNCHANGED <<entry, journal, run, issued, clock, verifying, bounds>>

RemoveEntry(f) ==
    /\ fin[f].pc = "unlink"
    /\ entry' = NoEntry
    /\ task' = Free
    /\ Goto(f, "verify")
    /\ UNCHANGED <<journal, run, tombstones, issued, clock, verifying, bounds>>

(* release raises with the run in the index: a receipt that cannot be      *)
(* signed by this process.                                                 *)
ReleaseFails(f) ==
    /\ fin[f].pc = "release"
    /\ task = Free
    /\ entry = Active(fin[f].id)
    /\ Goto(f, "escalate")
    /\ UNCHANGED <<entry, journal, run, tombstones, issued, clock, verifying, task, bounds>>

(* The lookup finds nothing, or a reservation: reconcile.  Another active  *)
(* run, or a stale generation: the exception that escalates.               *)
ReleaseElsewhere(f) ==
    LET r == fin[f].id
    IN  /\ fin[f].pc = "release"
        /\ task = Free
        /\ ~(entry = Active(r) /\ fin[f].fresh)
        /\ Goto(f, IF entry.kind # "active" THEN "verify" ELSE "escalate")
        /\ UNCHANGED <<entry, journal, run, tombstones, issued, clock, verifying, task, bounds>>

(* load_verified_release: no entry at all, the tombstone of exactly this   *)
(* DONE generation, and the run still in it.                               *)
VerifyRelease(f) ==
    LET r == fin[f].id
        verified == /\ entry = NoEntry
                    /\ Tombstone(r) \in tombstones
                    /\ run[r].disposition = "DONE" /\ fin[f].fresh
    IN  /\ fin[f].pc = "verify"
        /\ task = Free
        /\ Goto(f, IF verified THEN "mark" ELSE "escalate")
        /\ UNCHANGED <<entry, journal, run, tombstones, issued, clock, verifying, task, bounds>>

(* _mark_index_released; the store checks the exact receipt again. *)
MarkReleased(f) ==
    /\ fin[f].pc = "mark"
    /\ CommitOwn(f, [run[fin[f].id] EXCEPT !.marked = TRUE], "idle")
    /\ UNCHANGED <<entry, journal, tombstones, issued, clock, verifying, task, bounds>>

(* _human_review after an exception: even a DONE run, if it is not marked. *)
Escalate(f) ==
    /\ fin[f].pc = "escalate"
    /\ CommitOwn(f, Moved(fin[f].id, "HUMAN_REVIEW"), "idle")
    /\ UNCHANGED <<entry, journal, tombstones, issued, clock, verifying, task, bounds>>

-----------------------------------------------------------------------------
(* Time and crashes *)

Expire(r) ==
    /\ r \in (1 .. issued) \ expired
    /\ expired' = expired \cup {r}
    /\ UNCHANGED <<entry, journal, run, release, issued, ownerDead, verifying, task, bounds>>

(* The process that ran the probe ends; it is not needed any more. *)
OwnerEnds(r) ==
    /\ r \in (1 .. issued) \ ownerDead
    /\ ownerDead' = ownerDead \cup {r}
    /\ UNCHANGED <<entry, journal, run, release, issued, expired, verifying, task, bounds>>

(* A coordinator dies with the lock, or while it checks compatibility. *)
CoordinatorCrash ==
    /\ crashes < MaxCrashes
    /\ crashes' = crashes + 1
    /\ \/ /\ task # Free
          /\ task.step # "unlink"
          /\ task' = Free
          /\ UNCHANGED verifying
       \/ /\ \E r \in verifying : verifying' = verifying \ {r}
          /\ UNCHANGED task
    /\ UNCHANGED <<entry, journal, run, release, issued, clock, resumes>>

FinalizerCrash(f) ==
    /\ crashes < MaxCrashes
    /\ crashes' = crashes + 1
    /\ fin[f].pc # "idle"
    /\ fin' = [fin EXCEPT ![f] = IdleFinalizer]
    /\ task' = IF fin[f].pc = "unlink" THEN Free ELSE task
    /\ UNCHANGED <<entry, journal, run, tombstones, issued, clock, verifying, resumes>>

-----------------------------------------------------------------------------
Probe(r) == ClearStaleReservation(r) \/ CompleteNoCandidateJournal(r) \/ RemoveMarker(r)

Select(r) == \/ Claim(r)
             \/ ClaimExpired(r)
             \/ RecordCompatibility(r)
             \/ CompatibilityFails(r)
             \/ VerifiedTooLate(r)
             \/ PrepareNoCandidate(r)

Activate(r) == \/ PrepareSelected(r)
               \/ PrepareHumanReview(r)
               \/ Replay(r)
               \/ WriteContext(r)
               \/ PersistInitialState(r)
               \/ WriteRunBinding(r)
               \/ PublishEntry(r)
               \/ CompleteJournal(r)
               \/ ActivationRefused(r)

Finalize(f) == \/ BindRelease(f)
               \/ CommitDone(f)
               \/ WriteTombstone(f)
               \/ ReleaseFails(f)
               \/ RemoveEntry(f)
               \/ ReleaseElsewhere(f)
               \/ VerifyRelease(f)
               \/ MarkReleased(f)
               \/ Escalate(f)

Next ==
    \/ Reserve
    \/ CoordinatorCrash
    \/ \E r \in Ids : \/ Probe(r) \/ Select(r) \/ Activate(r)
                      \/ Work(r) \/ Authorize(r)
                      \/ Expire(r) \/ OwnerEnds(r)
    \/ \E f \in Finalizers : \/ \E r \in Ids : LoadRun(f, r)
                             \/ Finalize(f)
                             \/ FinalizerCrash(f)

Spec == Init /\ [][Next]_vars

(* Time passes; a coordinator is called again until its claim is decided,  *)
(* and the lock's holder goes on or dies; a finalizer is called again      *)
(* for every DONE run that is not marked.  The lock is a blocking flock,   *)
(* which a waiting process gets at some time: strong fairness.  Nothing is *)
(* assumed of claimants, probes, humans, or of the work on a run.          *)
Fairness ==
    /\ \A r \in Ids : /\ WF_vars(Expire(r))
                      /\ SF_vars(ClaimExpired(r))
                      /\ SF_vars(Activate(r))
                      /\ WF_vars(RemoveMarker(r))
                      /\ SF_vars(run[r].disposition = "DONE"
                                     /\ \E f \in Finalizers : LoadRun(f, r))
    /\ WF_vars(Reserve)
    /\ \A f \in Finalizers : SF_vars(Finalize(f))

FairSpec == Spec /\ Fairness

-----------------------------------------------------------------------------
(* Properties *)

(* Types, and who holds what: a finalizer that removes the entry holds the *)
(* repository lock, and a current view past the DONE commit is of a run    *)
(* that is DONE and not marked.                                            *)
TypeOK ==
    /\ entry \in Entries
    /\ journal \in [Ids -> [phase : Phases, outcome : Outcomes]]
    /\ run \in [Ids -> [disposition : Dispositions, initial : BOOLEAN, context : BOOLEAN,
                        bound : BOOLEAN, dones : 0 .. MaxResumes + 1, marked : BOOLEAN]]
    /\ tombstones \in SUBSET (Ids \X (1 .. MaxResumes + 1))
    /\ issued \in 0 .. MaxReservations
    /\ expired \cup ownerDead \cup verifying \subseteq 1 .. issued
    /\ task \in {Free} \cup [step : Steps, id : Ids]
    /\ resumes \in 0 .. MaxResumes /\ crashes \in 0 .. MaxCrashes
    /\ \A f \in Finalizers :
          /\ fin[f].pc = "idle" \/ fin[f].id \in Ids
          /\ fin[f].pc = "unlink" => task = [step |-> "unlink", id |-> fin[f].id]
          /\ fin[f].pc \in {"release", "unlink", "verify", "mark"} /\ fin[f].fresh =>
                run[fin[f].id].disposition = "DONE" /\ ~run[fin[f].id].marked

(* An activation under way keeps the repository, across crashes, probes of *)
(* others and the end of its reserving process: its reservation stays in   *)
(* the index until it is replaced by what the activation publishes.  The   *)
(* "claimed preflight no longer owns its reservation" and "journal lost    *)
(* its reservation" errors of run_index.py are then unreachable.           *)
ActivationOwnsEntry ==
    \A r \in Ids :
        /\ journal[r].phase \in Preflight => entry = Reservation(r)
        /\ journal[r].phase = "prepared" =>
              \/ entry \in {Reservation(r), Published(r)}
              \/ Stored(r) /\ ~run[r].initial

(* Whoever finds a run in the index can load it: its state, binding and,   *)
(* unless it was activated into human review, its preparation context were *)
(* written before, whichever process wrote them.                           *)
PublishedIsDurable ==
    \A r \in Ids : entry = Active(r) =>
        /\ Stored(r)
        /\ run[r].bound
        /\ journal[r].outcome = "active" => run[r].context

(* The entry stands for its activation and for what is stored of its run,  *)
(* at every step of the journal (run_index.py).                            *)
EntryHolds == TypeOK /\ ActivationOwnsEntry /\ PublishedIsDurable

(* One run at a time: of all runs stored and not over, at most one has not *)
(* been released, whatever reservations, claims and replays raced.         *)
OneUnreleasedRun ==
    \A r, q \in {i \in Ids : Live(i) /\ ~\E n \in 1 .. run[i].dones : <<i, n>> \in tombstones} :
        r = q

(* The mark is proof: a run marked as released is DONE for good, is not in *)
(* the index, and the receipt on disk names its very last generation.      *)
MarkedIsReleased ==
    \A r \in Ids : run[r].marked =>
        /\ run[r].disposition = "DONE"
        /\ Tombstone(r) \in tombstones
        /\ entry # Active(r)

(* Releases are exact: the repository is given away only by the last       *)
(* receipt of its run, and a mark means that it was (run_index.py,         *)
(* release and verify_release).                                            *)
ReleasesHold == OneUnreleasedRun /\ MarkedIsReleased

(* The index never lets go of a run that is not DONE, however long ago the *)
(* finalizer that removes the entry committed its DONE generation.         *)
EntryOutlivesRun ==
    [][\A r \in Ids : entry = Active(r) /\ entry' # Active(r) =>
          run[r].disposition = "DONE" /\ Tombstone(r) \in tombstones]_vars

(* A claim is decided although its claimant may die at any point: it ends  *)
(* up as a run in the index.                                               *)
ClaimIsPublished ==
    \A r \in Ids : journal[r].phase = "claimed" ~> entry = Active(r)

(* A DONE run gives the repository back, or returns to human review: an    *)
(* interrupted release is taken up again.                                  *)
DoneIsReleased ==
    \A r \in Ids : run[r].disposition = "DONE" ~>
        \/ entry # Active(r) /\ Tombstone(r) \in tombstones
        \/ run[r].disposition # "DONE"

(* The launcher boundary design: a process that crashes after the removal  *)
(* of the entry and before the mark is recovered, and the run is marked.   *)
ReleaseIsRecovered ==
    \A r \in Ids : run[r].disposition = "DONE" ~> run[r].marked \/ run[r].disposition # "DONE"

(* CONTEXT.md: "version one permits only one Active Run per physical       *)
(* repository", and a run under human review is one.                       *)
OneLiveRun == \A r, q \in Ids : Live(r) /\ Live(q) => r = q

(* The design: "Identical replay returns the recorded run".                *)
ReplayAnswers == \A r \in Ids : journal[r].phase = "prepared" ~> journal[r].phase = "completed"
=============================================================================
