------------------------------- MODULE Delivery -------------------------------
(***************************************************************************)
(* What the end of an approved run promises to the outside world: the      *)
(* approved change is committed, pushed and its ticket completed, in this  *)
(* order, each once, and the run is over only after all three.  Finalizer  *)
(* implements it.                                                          *)
(***************************************************************************)
EXTENDS Naturals

VARIABLES
    delivered,      \* effect |-> how many times it changed the world
    finished        \* is the run DONE?

vars == <<delivered, finished>>

Effects == {"commit", "push", "complete"}

(* The effects that precede an effect. *)
Before == [commit |-> {}, push |-> {"commit"}, complete |-> {"commit", "push"}]

Init ==
    /\ delivered = [op \in Effects |-> 0]
    /\ finished = FALSE

Deliver(op) ==
    /\ delivered[op] = 0
    /\ \A e \in Before[op] : delivered[e] = 1
    /\ delivered' = [delivered EXCEPT ![op] = 1]
    /\ UNCHANGED finished

Finish ==
    /\ \A op \in Effects : delivered[op] = 1
    /\ finished' = TRUE
    /\ UNCHANGED delivered

Next == Finish \/ \E op \in Effects : Deliver(op)

Spec == Init /\ [][Next]_vars
=============================================================================
