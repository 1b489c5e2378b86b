----------------------------- MODULE CasRegister -----------------------------
(***************************************************************************)
(* What RunStateStore promises its callers (abstract specification).       *)
(*                                                                         *)
(* The store of one run is a single register with a complete history: a    *)
(* caller reads the tip, computes a successor and appends it, and the      *)
(* append takes effect only if the tip has not moved since.  There are no  *)
(* files, no pointer, no lock and no crash here; RunStore, which has all   *)
(* of them, is shown to implement this module.                             *)
(***************************************************************************)
EXTENDS Naturals, Sequences

CONSTANTS
    Clients,        \* processes that use the store
    States,         \* run-state contents (a content stands for its hash too)
    InitialState,   \* content of revision 1, fixed by the activation journal
    Steps,          \* pairs <<old, new>> that the transition validation accepts
    Empty,          \* the hash of "no generation yet"
    Unknown         \* a client that remembers no generation

VARIABLES
    log,            \* contents of revisions 1, 2, ...
    view            \* the generation each client last saw

regVars == <<log, view>>

(* The generation at the end of the log: its revision and its content. *)
Tip == [revision   |-> Len(log),
        state_hash |-> IF log = <<>> THEN Empty ELSE log[Len(log)]]

Init == /\ log = <<>>
        /\ view = [c \in Clients |-> Unknown]

Read(c) == /\ view' = [view EXCEPT ![c] = Tip]
           /\ UNCHANGED log

Forget(c) == /\ view' = [view EXCEPT ![c] = Unknown]
             /\ UNCHANGED log

(* What a commit may append after the current tip. *)
Accepts(s) == IF log = <<>> THEN s = InitialState
                            ELSE <<log[Len(log)], s>> \in Steps

Commit(c, s) ==
    /\ view[c] = Tip
    /\ Accepts(s)
    /\ log' = Append(log, s)
    /\ view' = [view EXCEPT ![c] = [revision |-> Len(log) + 1, state_hash |-> s]]

Next == \E c \in Clients :
            \/ Read(c)
            \/ Forget(c)
            \/ \E s \in States : Commit(c, s)

Spec == Init /\ [][Next]_regVars
=============================================================================
