------------------------------ MODULE RunnerSwap ------------------------------
(***************************************************************************)
(* What a repair promises to the run: its runner is replaced in one step,  *)
(* which makes the run ACTIVE, by a runner that was built from a tested    *)
(* source, and started and attested after the runner it replaces had       *)
(* ended.  A runner is ended only when one is built to take its place, and *)
(* what ended never replaces another.  Repair implements it.               *)
(***************************************************************************)
CONSTANTS
    Requests,       \* repair requests; each may build a runner, named by it
    Original        \* the runner before any repair

VARIABLES
    runner,         \* the runner of the run
    disposition,    \* of the run
    built,          \* runners built from a tested source
    ended,          \* runners that were ended
    started,        \* pairs of an ended runner and one started after it
    attested        \* those of them whose new runner was attested

vars == <<runner, disposition, built, ended, started, attested>>

Init ==
    /\ runner = Original /\ disposition = "REPAIR_REQUIRED"
    /\ built = {} /\ ended = {} /\ started = {} /\ attested = {}

(* Between the end of a runner and its replacement the run has no runner   *)
(* that is up, whatever its disposition says.                              *)
Build(r) ==
    /\ built' = built \cup {r}
    /\ UNCHANGED <<runner, disposition, ended, started, attested>>

Terminate(r) ==
    /\ r \in built \ {runner}
    /\ ended' = ended \cup {runner}
    /\ UNCHANGED <<runner, disposition, built, started, attested>>

Start(r) ==
    /\ runner \in ended
    /\ r \in built \ (ended \cup {runner})
    /\ started' = started \cup {<<runner, r>>}
    /\ UNCHANGED <<runner, disposition, built, ended, attested>>

Attest(r) ==
    /\ <<runner, r>> \in started
    /\ r \notin ended
    /\ attested' = attested \cup {<<runner, r>>}
    /\ UNCHANGED <<runner, disposition, built, ended, started>>

Activate(r) ==
    /\ disposition = "REPAIR_REQUIRED"
    /\ <<runner, r>> \in attested
    /\ r \notin ended
    /\ runner' = r
    /\ disposition' = "ACTIVE"
    /\ UNCHANGED <<built, ended, started, attested>>

(* Progress, failures and decisions of the run leave its runner alone.     *)
Moves ==
    {<<"ACTIVE", "REPAIR_REQUIRED">>, <<"REPAIR_REQUIRED", "HUMAN_REVIEW">>, <<"HUMAN_REVIEW", "ACTIVE">>}

Move ==
    /\ <<disposition, disposition'>> \in Moves
    /\ UNCHANGED <<runner, built, ended, started, attested>>

Next ==
    \/ Move
    \/ \E r \in Requests : Build(r) \/ Terminate(r) \/ Start(r) \/ Attest(r) \/ Activate(r)

Spec == Init /\ [][Next]_vars
=============================================================================
