--------------------------- MODULE SupervisorProofs ---------------------------
(***************************************************************************)
(* Proofs about the Supervisor, for any processes, manifests, contract     *)
(* changes, budget and number of repairs, resumes, crashes and recorded    *)
(* failures: checkpoints stand on each other under the contracts in force, *)
(* an eligible run was approved as a whole, every failure can be routed,   *)
(* and a retry of work the run has reached resumes at its owner.           *)
(*                                                                         *)
(* What a commit does to a run does not depend on who makes it, so most of *)
(* the proof is about operators: the order of the stages (OrderFacts to    *)
(* NextIs), the stages an invalidation reaches (DescendantsAreLater), and  *)
(* which runs are Sound.                                                   *)
(*                                                                         *)
(* The last section proves the two invariants of ProductChecks, the stages *)
(* that run the product, which Supervisor has as executors only: the two   *)
(* modules share no variable and no definition.                            *)
(***************************************************************************)
EXTENDS Supervisor, ProductChecks, FiniteSetTheorems, TLAPS

-----------------------------------------------------------------------------
(* The invariant *)

Before(s, t) ==
    \E i, j \in DOMAIN StageOrder : i < j /\ s = StageOrder[i] /\ t = StageOrder[j]

(* A record with the fields of a run.  No decision reads the last failure, *)
(* so any value may stand there.                                           *)
RunOK(r) ==
    /\ r \in [disposition    : {"ACTIVE", "REPAIR_REQUIRED", "HUMAN_REVIEW", "ABANDONED"},
              count          : Nat,
              open           : BOOLEAN,
              current        : Stages,
              checkpoints    : {r.checkpoints},
              manifest       : Manifests \cup {NoValue},
              result         : Manifests \cup {NoValue},
              eligible       : BOOLEAN,
              failure        : {r.failure},
              authorizations : Seq({"resume", "abandon"}),
              runner         : Nat]
    /\ DOMAIN r.checkpoints \subseteq Stages
    /\ r.checkpoints \in [DOMAIN r.checkpoints -> Nat]

(* Every checkpoint is of the contract in force and has its prerequisites. *)
Stands(r, c) ==
    \A s \in DOMAIN r.checkpoints :
        /\ DEPENDENCIES[s] \subseteq DOMAIN r.checkpoints
        /\ r.checkpoints[s] = c[s]

(* An eligible run was approved as a whole, and cannot be sent to repair.  *)
Earned(r, c) ==
    r.eligible =>
        /\ \A s \in Stages : Reusable(r, c, s)
        /\ r.result = r.manifest
        /\ r.manifest # NoValue
        /\ ~r.open
        /\ r.disposition # "REPAIR_REQUIRED"

(* A current stage that is finished has all earlier ones behind it. *)
InOrder(r) ==
    r.current \in DOMAIN r.checkpoints =>
        \A s \in Stages : Before(s, r.current) => s \in DOMAIN r.checkpoints

Sound(r, c) ==
    /\ RunOK(r)
    /\ ValidState(r)
    /\ c \in [Stages -> Nat]
    /\ Stands(r, c)
    /\ Earned(r, c)
    /\ InOrder(r)

(* Whoever holds the current generation executes the stage that is next    *)
(* in it, within its open iteration.                                       *)
ProcHolds ==
    \A p \in Supervisors :
        Holds(p) => /\ executing[p] = NextStage(run, contract)
                    /\ run.disposition = "ACTIVE"
                    /\ run.open

IInv ==
    /\ Sound(run, contract)
    /\ executing \in [Supervisors -> Stages \cup {NoValue}]
    /\ fresh \in [Supervisors -> BOOLEAN]
    /\ ProcHolds

-----------------------------------------------------------------------------
(* The order of the stages *)

(* The ten stages are in the order of the graph, each once. *)
LEMMA OrderFacts ==
    /\ DOMAIN StageOrder = 1 .. 10
    /\ \A i, j \in 1 .. 10 : StageOrder[i] = StageOrder[j] => i = j
    /\ Stages = {"analyst", "architect_outline", "architect_proposal", "architect_specs",
                 "architect_design", "architect_tasks", "programmer", "verification",
                 "tester", "reviewer"}
  <1>1. DOMAIN StageOrder = 1 .. 10
    BY DEF StageOrder
  <1>2. \A i, j \in 1 .. 10 : StageOrder[i] = StageOrder[j] => i = j
    BY DEF StageOrder
  <1>3. Stages = {"analyst", "architect_outline", "architect_proposal", "architect_specs",
                  "architect_design", "architect_tasks", "programmer", "verification",
                  "tester", "reviewer"}
    BY DEF Stages, StageOrder
  <1> QED
    BY <1>1, <1>2, <1>3

(* Of two stages one is before the other, and never both. *)
LEMMA BeforeIsOrder ==
    /\ \A s, t \in Stages : s = t \/ Before(s, t) \/ Before(t, s)
    /\ \A s, t : Before(s, t) => s \in Stages /\ t \in Stages /\ s # t
    /\ \A s, t, u : Before(s, t) /\ Before(t, u) => Before(s, u)
  <1>1. \A s, t \in Stages : s = t \/ Before(s, t) \/ Before(t, s)
    <2> SUFFICES ASSUME NEW i \in 1 .. 10, NEW j \in 1 .. 10
                 PROVE  \/ StageOrder[i] = StageOrder[j]
                        \/ Before(StageOrder[i], StageOrder[j])
                        \/ Before(StageOrder[j], StageOrder[i])
      BY OrderFacts DEF Stages
    <2> i = j \/ i < j \/ j < i
      OBVIOUS
    <2> QED
      BY OrderFacts DEF Before
  <1>2. \A s, t : Before(s, t) => s \in Stages /\ t \in Stages /\ s # t
    BY OrderFacts DEF Before, Stages
  <1>3. \A s, t, u : Before(s, t) /\ Before(t, u) => Before(s, u)
    <2> SUFFICES ASSUME NEW s, NEW t, NEW u, Before(s, t), Before(t, u)
                 PROVE  Before(s, u)
      OBVIOUS
    <2>1. PICK i \in 1 .. 10, j \in 1 .. 10 : i < j /\ s = StageOrder[i] /\ t = StageOrder[j]
      BY OrderFacts DEF Before
    <2>2. PICK k \in 1 .. 10, l \in 1 .. 10 : k < l /\ t = StageOrder[k] /\ u = StageOrder[l]
      BY OrderFacts DEF Before
    <2>3. j = k
      BY <2>1, <2>2, OrderFacts
    <2>4. i < l
      BY <2>1, <2>2, <2>3
    <2> QED
      BY <2>1, <2>2, <2>4, OrderFacts DEF Before
  <1> QED
    BY <1>1, <1>2, <1>3

(* Prerequisites come earlier (DEPENDENCIES in router.py is acyclic). *)
LEMMA DependenciesAreEarlier ==
    \A s \in Stages : \A d \in DEPENDENCIES[s] : Before(d, s)
  <1>1. \A i, j \in 1 .. 10 : i < j => Before(StageOrder[i], StageOrder[j])
    BY OrderFacts DEF Before
  <1>2. \A i \in 1 .. 9 : Before(StageOrder[i], StageOrder[i + 1])
    BY <1>1
  <1>3. /\ Before("analyst", "architect_outline")
        /\ Before("architect_outline", "architect_proposal")
        /\ Before("architect_proposal", "architect_specs")
        /\ Before("architect_specs", "architect_design")
        /\ Before("architect_design", "architect_tasks")
        /\ Before("architect_tasks", "programmer")
        /\ Before("programmer", "verification")
        /\ Before("verification", "tester")
        /\ Before("tester", "reviewer")
    BY <1>2 DEF StageOrder
  <1>4. /\ Before("architect_proposal", "architect_design")
        /\ Before("architect_specs", "architect_tasks")
    BY <1>3, BeforeIsOrder
  <1> SUFFICES ASSUME NEW s \in Stages, NEW d \in DEPENDENCIES[s]
               PROVE  Before(d, s)
    OBVIOUS
  <1> QED
    BY <1>3, <1>4, OrderFacts DEF DEPENDENCIES

(* What is before the programmer, and that nothing is before the analyst   *)
(* or after the reviewer.                                                  *)
LEMMA OrderEnds ==
    /\ \A s : ~Before(s, "analyst")
    /\ \A s \in Stages \ {"reviewer"} : Before(s, "reviewer")
    /\ \A s : Before(s, "programmer") => s = "analyst" \/ s \in ArchitectStages
    /\ \A s \in {"verification", "tester", "reviewer"} : Before("programmer", s)
    /\ ArchitectStages = {"architect_outline", "architect_proposal", "architect_specs",
                          "architect_design", "architect_tasks"}
  <1>1. \A i, j \in 1 .. 10 : i < j => Before(StageOrder[i], StageOrder[j])
    BY OrderFacts DEF Before
  <1>2. \A i \in 1 .. 9 : Before(StageOrder[i], StageOrder[10])
    BY <1>1
  <1>3. \A s : ~Before(s, "analyst")
    BY OrderFacts DEF Before, StageOrder
  <1>4. \A s \in Stages \ {"reviewer"} : Before(s, "reviewer")
    BY <1>2, OrderFacts DEF StageOrder
  <1>5. \A s : Before(s, "programmer") => s = "analyst" \/ s \in ArchitectStages
    BY OrderFacts DEF Before, StageOrder, ArchitectStages
  <1>6. \A s \in {"verification", "tester", "reviewer"} : Before("programmer", s)
    BY <1>1 DEF StageOrder
  <1>7. ArchitectStages = {"architect_outline", "architect_proposal", "architect_specs",
                           "architect_design", "architect_tasks"}
    BY DEF ArchitectStages, StageOrder
  <1> QED
    BY <1>3, <1>4, <1>5, <1>6, <1>7

(* Some position in a non-empty set of positions is the least. *)
LEMMA LeastPosition ==
    ASSUME NEW P \in SUBSET (1 .. 10), P # {}
    PROVE  \E i \in P : \A j \in P : i <= j
  <1> SUFFICES ASSUME \A i \in P : \E j \in P : j < i
               PROVE  FALSE
    OBVIOUS
  <1>1. 1 \notin P
    OBVIOUS
  <1>2. 2 \notin P
    BY <1>1
  <1>3. 3 \notin P
    BY <1>1, <1>2
  <1>4. 4 \notin P
    BY <1>1, <1>2, <1>3
  <1>5. 5 \notin P
    BY <1>1, <1>2, <1>3, <1>4
  <1>6. 6 \notin P
    BY <1>1, <1>2, <1>3, <1>4, <1>5
  <1>7. 7 \notin P
    BY <1>1, <1>2, <1>3, <1>4, <1>5, <1>6
  <1>8. 8 \notin P
    BY <1>1, <1>2, <1>3, <1>4, <1>5, <1>6, <1>7
  <1>9. 9 \notin P
    BY <1>1, <1>2, <1>3, <1>4, <1>5, <1>6, <1>7, <1>8
  <1>10. 10 \notin P
    BY <1>1, <1>2, <1>3, <1>4, <1>5, <1>6, <1>7, <1>8, <1>9
  <1> PICK i \in 1 .. 10 : i \in P
    OBVIOUS
  <1> i \in {1, 2, 3, 4, 5, 6, 7, 8, 9, 10}
    OBVIOUS
  <1> QED
    BY <1>1, <1>2, <1>3, <1>4, <1>5, <1>6, <1>7, <1>8, <1>9, <1>10

-----------------------------------------------------------------------------
(* The next stage *)

(* next_stage is the first stage that is not reusable, None if there is none. *)
LEMMA NextFacts ==
    ASSUME NEW r, NEW c, NoValue \notin Stages
    PROVE  \/ /\ NextStage(r, c) = NoValue
              /\ \A s \in Stages : Reusable(r, c, s)
           \/ /\ NextStage(r, c) \in Stages
              /\ ~Reusable(r, c, NextStage(r, c))
              /\ \A s : Before(s, NextStage(r, c)) => Reusable(r, c, s)
  <1> PICK P : P = {i \in DOMAIN StageOrder : ~Reusable(r, c, StageOrder[i])}
    OBVIOUS
  <1>1. NextStage(r, c) = IF P = {} THEN NoValue
                          ELSE StageOrder[CHOOSE i \in P : \A j \in P : i <= j]
    BY DEF NextStage
  <1>2. CASE P = {}
    BY <1>1, <1>2 DEF Stages
  <1>3. CASE P # {}
    <2>1. P \in SUBSET (1 .. 10)
      BY OrderFacts
    <2>2. \E i \in P : \A j \in P : i <= j
      BY <1>3, <2>1, LeastPosition
    <2>3. PICK i : i = CHOOSE k \in P : \A j \in P : k <= j
      OBVIOUS
    <2>4. i \in P /\ \A j \in P : i <= j
      BY <2>2, <2>3
    <2>5. NextStage(r, c) = StageOrder[i]
      BY <1>1, <1>3, <2>3
    <2>6. \A j \in 1 .. 10 : j < i => Reusable(r, c, StageOrder[j])
      BY <2>4, <2>1, OrderFacts
    <2>7. ASSUME NEW s, Before(s, StageOrder[i])
          PROVE  Reusable(r, c, s)
      <3>1. PICK j \in 1 .. 10, k \in 1 .. 10 :
              j < k /\ s = StageOrder[j] /\ StageOrder[i] = StageOrder[k]
        BY <2>7, OrderFacts DEF Before
      <3>2. i = k
        BY <3>1, <2>4, <2>1, OrderFacts
      <3> QED
        BY <3>1, <3>2, <2>6
    <2> QED
      BY <2>4, <2>5, <2>7, <2>1 DEF Stages
  <1> QED
    BY <1>2, <1>3

(* A stage is the next one if it is not reusable and all before it are. *)
LEMMA NextIs ==
    ASSUME NEW r, NEW c, NoValue \notin Stages, NEW s \in Stages,
           ~Reusable(r, c, s), \A t : Before(t, s) => Reusable(r, c, t)
    PROVE  NextStage(r, c) = s
  <1>1. NextStage(r, c) \in Stages /\ ~Reusable(r, c, NextStage(r, c))
    BY NextFacts
  <1>2. ~Before(NextStage(r, c), s) /\ ~Before(s, NextStage(r, c))
    BY <1>1, NextFacts
  <1> QED
    BY <1>1, <1>2, BeforeIsOrder

(* Only the checkpoints decide which stage is next. *)
LEMMA NextSame ==
    ASSUME NEW r, NEW q, NEW c, r.checkpoints = q.checkpoints
    PROVE  /\ NextStage(r, c) = NextStage(q, c)
           /\ \A s : Reusable(r, c, s) <=> Reusable(q, c, s)
  <1>1. \A s : Reusable(r, c, s) <=> Reusable(q, c, s)
    BY DEF Reusable
  <1> PICK P : P = {i \in DOMAIN StageOrder : ~Reusable(r, c, StageOrder[i])}
    OBVIOUS
  <1> PICK Q : Q = {i \in DOMAIN StageOrder : ~Reusable(q, c, StageOrder[i])}
    OBVIOUS
  <1>2. P = Q
    BY <1>1
  <1>3. NextStage(r, c) = IF P = {} THEN NoValue
                          ELSE StageOrder[CHOOSE i \in P : \A j \in P : i <= j]
    BY DEF NextStage
  <1>4. NextStage(q, c) = IF Q = {} THEN NoValue
                          ELSE StageOrder[CHOOSE i \in Q : \A j \in Q : i <= j]
    BY DEF NextStage
  <1> QED
    BY <1>1, <1>2, <1>3, <1>4

-----------------------------------------------------------------------------
(* Invalidation *)

(* A stage's descendants hold the stage, everything that depends on one of *)
(* them, and nothing earlier than it.                                      *)
LEMMA DescendantsAreLater ==
    ASSUME NEW o \in Stages
    PROVE  /\ o \in Descendants(o)
           /\ Descendants(o) \subseteq Stages
           /\ Invalidated(Descendants(o))
           /\ \A s \in Descendants(o) : s = o \/ Before(o, s)
  <1>1. Descendants(o) = {s \in Stages : \A S \in SUBSET Stages :
                                            o \in S /\ Invalidated(S) => s \in S}
    BY DEF Descendants, DescendantsOf
  <1>2. o \in Descendants(o) /\ Descendants(o) \subseteq Stages
    BY <1>1
  <1>3. Invalidated(Descendants(o))
    <2> SUFFICES ASSUME NEW s \in Stages, DEPENDENCIES[s] \cap Descendants(o) # {},
                        NEW S \in SUBSET Stages, o \in S, Invalidated(S)
                 PROVE  s \in S
      BY <1>1 DEF Invalidated
    <2> QED
      BY <1>1 DEF Invalidated
  <1>4. \A s \in Descendants(o) : s = o \/ Before(o, s)
    <2> PICK L : L = {s \in Stages : s = o \/ Before(o, s)}
      OBVIOUS
    <2>1. Invalidated(L)
      <3> SUFFICES ASSUME NEW s \in Stages, NEW d \in DEPENDENCIES[s], d \in L
                   PROVE  s \in L
        BY DEF Invalidated
      <3>1. Before(d, s)
        BY DependenciesAreEarlier
      <3> QED
        BY <3>1, BeforeIsOrder
    <2> QED
      BY <1>1, <2>1
  <1> QED
    BY <1>2, <1>3, <1>4

(* The checkpoints left over by a retry of the owner o. *)
Left(r, o) == Keep(r.checkpoints, Stages \ Descendants(o))

(* Invalidation from a stage keeps what stands without it: the earlier     *)
(* checkpoints, never its own.                                             *)
LEMMA InvalidationStands ==
    ASSUME NEW r, NEW c, RunOK(r), Stands(r, c), NEW o \in Stages, NEW k,
           k = Left(r, o)
    PROVE  /\ DOMAIN k \subseteq Stages
           /\ k \in [DOMAIN k -> Nat]
           /\ \A s \in DOMAIN k : DEPENDENCIES[s] \subseteq DOMAIN k /\ k[s] = c[s]
           /\ \A s \in DOMAIN r.checkpoints : Before(s, o) => s \in DOMAIN k
           /\ o \notin DOMAIN k
  <1> DOMAIN r.checkpoints \subseteq Stages /\ r.checkpoints \in [DOMAIN r.checkpoints -> Nat]
    BY DEF RunOK
  <1> PICK h : h = r.checkpoints
    OBVIOUS
  <1> PICK D : D = Descendants(o)
    OBVIOUS
  <1>1. /\ DOMAIN k = DOMAIN h \cap (Stages \ D)
        /\ \A s \in DOMAIN k : k[s] = h[s]
        /\ k \in [DOMAIN k -> Nat]
    <2> PICK W : W = Stages \ D
      OBVIOUS
    <2>1. k = Keep(h, W) /\ h \in [DOMAIN h -> Nat]
      BY DEF Left
    <2>2. /\ DOMAIN Keep(h, W) = DOMAIN h \cap W
          /\ \A s \in DOMAIN h \cap W : Keep(h, W)[s] = h[s]
          /\ Keep(h, W) \in [DOMAIN Keep(h, W) -> Nat]
      BY <2>1 DEF Keep
    <2> QED
      BY <2>1, <2>2
  <1>2. o \in D /\ Invalidated(D) /\ \A s \in D : s = o \/ Before(o, s)
    BY DescendantsAreLater
  <1>3. \A s \in Stages : DEPENDENCIES[s] \subseteq Stages
    BY DependenciesAreEarlier, BeforeIsOrder
  <1>4. ASSUME NEW s \in DOMAIN k
        PROVE  DEPENDENCIES[s] \subseteq DOMAIN k /\ k[s] = c[s]
    <2>1. DEPENDENCIES[s] \subseteq DOMAIN h /\ h[s] = c[s]
      BY <1>1 DEF Stands
    <2>2. DEPENDENCIES[s] \cap D = {}
      BY <1>1, <1>2 DEF Invalidated
    <2> QED
      BY <2>1, <2>2, <1>1, <1>3
  <1>5. ASSUME NEW s \in DOMAIN h, Before(s, o)
        PROVE  s \in DOMAIN k
    <2>1. s # o /\ ~Before(o, s)
      BY <1>5, BeforeIsOrder
    <2>2. s \notin D
      BY <2>1, <1>2
    <2> QED
      BY <2>2, <1>1
  <1> QED
    BY <1>1, <1>2, <1>4, <1>5

(* The checkpoints a repair to the contracts new leaves. *)
Outliving(r, c, new) == Retained(r.checkpoints, c, new)

(* What outlives a repair stands under the new contracts. *)
LEMMA RetainedStands ==
    ASSUME NEW r, NEW c, RunOK(r), Stands(r, c), NEW new, NEW k,
           k = Outliving(r, c, new)
    PROVE  /\ DOMAIN k \subseteq Stages
           /\ k \in [DOMAIN k -> Nat]
           /\ \A s \in DOMAIN k : DEPENDENCIES[s] \subseteq DOMAIN k /\ k[s] = new[s]
           /\ \A s \in DOMAIN k : \A t \in DOMAIN r.checkpoints : Before(t, s) => t \in DOMAIN k
           /\ DOMAIN k \subseteq DOMAIN r.checkpoints
  <1> DOMAIN r.checkpoints \subseteq Stages /\ r.checkpoints \in [DOMAIN r.checkpoints -> Nat]
    BY DEF RunOK
  <1> PICK h : h = r.checkpoints
    OBVIOUS
  <1> PICK J : J = {j \in 1 .. 10 : \A i \in 1 .. j : c[StageOrder[i]] = new[StageOrder[i]]}
    OBVIOUS
  <1> PICK S : S = {StageOrder[i] : i \in J}
    OBVIOUS
  <1>1. /\ DOMAIN k = DOMAIN h \cap S
        /\ \A s \in DOMAIN k : k[s] = h[s]
        /\ k \in [DOMAIN k -> Nat]
    <2>1. k = Keep(h, S) /\ h \in [DOMAIN h -> Nat]
      BY OrderFacts DEF Retained, Outliving
    <2>2. /\ DOMAIN Keep(h, S) = DOMAIN h \cap S
          /\ \A s \in DOMAIN h \cap S : Keep(h, S)[s] = h[s]
          /\ Keep(h, S) \in [DOMAIN Keep(h, S) -> Nat]
      BY <2>1 DEF Keep
    <2> QED
      BY <2>1, <2>2
  <1>2. \A s \in S : c[s] = new[s]
    OBVIOUS
  <1>3. ASSUME NEW s \in S, NEW t, Before(t, s)
        PROVE  t \in S
    <2>1. PICK i \in J : s = StageOrder[i]
      OBVIOUS
    <2>2. PICK j \in 1 .. 10, l \in 1 .. 10 : j < l /\ t = StageOrder[j] /\ s = StageOrder[l]
      BY <1>3, OrderFacts DEF Before
    <2>3. i = l
      BY <2>1, <2>2, OrderFacts
    <2>4. j \in J
      BY <2>1, <2>2, <2>3
    <2> QED
      BY <2>2, <2>4
  <1>4. ASSUME NEW s \in DOMAIN k
        PROVE  DEPENDENCIES[s] \subseteq DOMAIN k /\ k[s] = new[s]
    <2>1. DEPENDENCIES[s] \subseteq DOMAIN h /\ h[s] = c[s]
      BY <1>1 DEF Stands
    <2>2. DEPENDENCIES[s] \subseteq S
      BY <1>1, <1>3, DependenciesAreEarlier
    <2> QED
      BY <2>1, <2>2, <1>1, <1>2
  <1> QED
    BY <1>1, <1>3, <1>4

-----------------------------------------------------------------------------
(* Routing *)

(* A retry of f: the iteration ends, and the work of f.owner and all that  *)
(* was built on it is gone.                                                *)
LEMMA RoutedRetry ==
    ASSUME NEW r, NEW f, NEW n, RunOK(r), NoValue \notin Stages,
           r.disposition = "ACTIVE", Retried(r, f), n = Routed(r, f)
    PROVE  /\ RunOK(n)
           /\ f.owner \in Stages
           /\ n.disposition = "ACTIVE"
           /\ n.count = r.count
           /\ ~n.open
           /\ n.current = f.owner
           /\ n.checkpoints = Left(r, f.owner)
           /\ n.manifest = NoValue
           /\ n.result = NoValue
           /\ ~n.eligible
           /\ n.failure = f
           /\ n.authorizations = r.authorizations
           /\ n.runner = r.runner
  <1>1. f.owner \in Stages
    BY OrderFacts, OrderEnds
       DEF Retried, RetryableInvalidOutput, ProgrammerDefect, CitedArtifactDefect, RunOK
  <1>2. RouteFailure(r, f) = Decision("ACTIVE", f.owner, f)
    <2> ~Repaired(f)
      BY DEF Repaired, Retried, RetryableInvalidOutput, ProgrammerDefect, CitedArtifactDefect
    <2> QED
      BY DEF RouteFailure
  <1> PICK k : k = Left(r, f.owner)
    OBVIOUS
  <1> PICK o : o = f.owner
    OBVIOUS
  <1>3. n = [InvalidateFrom(r, o) EXCEPT !.disposition = "ACTIVE", !.open = FALSE,
                                               !.failure = f]
    <2> f.owner # NoValue
      BY <1>1
    <2> QED
      BY <1>2 DEF Routed, ApplyRoute, Decision
  <1>4. InvalidateFrom(r, o)
          = [r EXCEPT !.checkpoints = k, !.current = o, !.open = FALSE,
                      !.manifest = NoValue, !.result = NoValue, !.eligible = FALSE]
    BY DEF InvalidateFrom, Left
  <1> o \in Stages
    BY <1>1
  <1>5. /\ n.disposition = "ACTIVE" /\ n.count = r.count /\ ~n.open /\ n.current = f.owner
        /\ n.checkpoints = k /\ n.manifest = NoValue /\ n.result = NoValue /\ ~n.eligible
        /\ n.failure = f /\ n.authorizations = r.authorizations /\ n.runner = r.runner
    BY <1>3, <1>4 DEF RunOK
  <1>6. k \in [DOMAIN k -> Nat] /\ DOMAIN k \subseteq Stages
    <2> PICK h : h = r.checkpoints
      OBVIOUS
    <2> PICK W : W = Stages \ Descendants(f.owner)
      OBVIOUS
    <2>1. k = Keep(h, W) /\ h \in [DOMAIN h -> Nat] /\ DOMAIN h \subseteq Stages
      BY DEF RunOK, Left
    <2>2. DOMAIN Keep(h, W) = DOMAIN h \cap W /\ Keep(h, W) \in [DOMAIN Keep(h, W) -> Nat]
      BY <2>1 DEF Keep
    <2> QED
      BY <2>1, <2>2
  <1>7. n \in [disposition    : {"ACTIVE", "REPAIR_REQUIRED", "HUMAN_REVIEW", "ABANDONED"},
               count          : Nat,
               open           : BOOLEAN,
               current        : Stages,
               checkpoints    : {k},
               manifest       : Manifests \cup {NoValue},
               result         : Manifests \cup {NoValue},
               eligible       : BOOLEAN,
               failure        : {f},
               authorizations : Seq({"resume", "abandon"}),
               runner         : Nat]
    <2> n = [r EXCEPT !.disposition = "ACTIVE", !.checkpoints = k, !.current = o, !.open = FALSE,
                      !.manifest = NoValue, !.result = NoValue, !.eligible = FALSE, !.failure = f]
      BY <1>3, <1>4 DEF RunOK
    <2> QED
      BY DEF RunOK
  <1>8. RunOK(n)
    BY <1>5, <1>6, <1>7 DEF RunOK
  <1> QED
    BY <1>1, <1>5, <1>8

(* Any other failure only moves the run to a gate, where it stays.  Only a *)
(* failure that can be repaired leads to REPAIR_REQUIRED.                  *)
LEMMA RoutedGate ==
    ASSUME NEW r, NEW f, NEW n, RunOK(r),
           ~(r.disposition = "ACTIVE" /\ Retried(r, f)), n = Routed(r, f)
    PROVE  /\ RunOK(n)
           /\ IF r.disposition = "ACTIVE"
              THEN \/ n.disposition = "HUMAN_REVIEW"
                   \/ n.disposition = "REPAIR_REQUIRED" /\ Repaired(f)
              ELSE n.disposition = r.disposition
           /\ n.count = r.count
           /\ ~n.open
           /\ n.current = r.current
           /\ n.checkpoints = r.checkpoints
           /\ n.manifest = r.manifest
           /\ n.result = r.result
           /\ n.eligible = r.eligible
           /\ n.authorizations = r.authorizations
           /\ n.runner = r.runner
  <1>1. PICK d, g : /\ RouteFailure(r, f) = Decision(d, NoValue, g)
                    /\ IF r.disposition = "ACTIVE"
                       THEN d = "HUMAN_REVIEW" \/ (d = "REPAIR_REQUIRED" /\ Repaired(f))
                       ELSE d = r.disposition
    <2>1. CASE r.disposition # "ACTIVE"
      <3> GatedDisposition(r) = r.disposition
        BY DEF GatedDisposition, RunOK
      <3> QED
        BY <2>1 DEF RouteFailure
    <2>2. CASE r.disposition = "ACTIVE" /\ Repaired(f)
      BY <2>2 DEF RouteFailure
    <2>3. CASE r.disposition = "ACTIVE" /\ ~Repaired(f)
      <3>1. PICK g : RouteFailure(r, f) = Decision("HUMAN_REVIEW", NoValue, g)
        BY <2>3 DEF RouteFailure
      <3> QED
        BY <2>3, <3>1
    <2> QED
      BY <2>1, <2>2, <2>3
  <1>2. n = [r EXCEPT !.disposition = d, !.open = FALSE, !.failure = g]
    BY <1>1 DEF Routed, ApplyRoute, Decision
  <1>3. /\ n.disposition = d /\ ~n.open
        /\ n.count = r.count /\ n.current = r.current /\ n.checkpoints = r.checkpoints
        /\ n.manifest = r.manifest /\ n.result = r.result /\ n.eligible = r.eligible
        /\ n.failure = g /\ n.authorizations = r.authorizations /\ n.runner = r.runner
    BY <1>2 DEF RunOK
  <1>4. d \in {"ACTIVE", "REPAIR_REQUIRED", "HUMAN_REVIEW", "ABANDONED"}
    BY <1>1 DEF RunOK
  <1>5. n \in [disposition    : {"ACTIVE", "REPAIR_REQUIRED", "HUMAN_REVIEW", "ABANDONED"},
               count          : Nat,
               open           : BOOLEAN,
               current        : Stages,
               checkpoints    : {r.checkpoints},
               manifest       : Manifests \cup {NoValue},
               result         : Manifests \cup {NoValue},
               eligible       : BOOLEAN,
               failure        : {g},
               authorizations : Seq({"resume", "abandon"}),
               runner         : Nat]
    BY <1>2, <1>4 DEF RunOK
  <1>6. RunOK(n)
    BY <1>3, <1>5 DEF RunOK
  <1> QED
    BY <1>1, <1>3, <1>6

(* The budget counts the resumes among the authorizations. *)
LEMMA SameLimit ==
    ASSUME NEW r, NEW n, n.authorizations = r.authorizations
    PROVE  AuthorizedLimit(n) = AuthorizedLimit(r)
BY DEF AuthorizedLimit, Grants

(* The store accepts the routing of any failure, unless the run is over.   *)
LEMMA RoutedValid ==
    ASSUME NEW r, NEW f, NEW n, RunOK(r), ValidState(r), NoValue \notin Stages,
           n = Routed(r, f)
    PROVE  /\ ValidState(n)
           /\ r.disposition # "ABANDONED" => ValidTransition(r, n)
  <1>1. CASE r.disposition = "ACTIVE" /\ Retried(r, f)
    <2>1. /\ n.disposition = "ACTIVE" /\ n.count = r.count /\ ~n.open /\ ~n.eligible
          /\ n.authorizations = r.authorizations
      BY <1>1, RoutedRetry
    <2>2. ValidState(n)
      BY <2>1, SameLimit DEF ValidState
    <2>3. ValidIteration(r, n) /\ ValidAuthorizations(r, n)
      BY <1>1, <2>1 DEF ValidIteration, ValidAuthorizations
    <2> QED
      BY <1>1, <2>1, <2>2, <2>3 DEF ValidTransition, AllowedDispositions
  <1>2. CASE ~(r.disposition = "ACTIVE" /\ Retried(r, f))
    <2>1. /\ IF r.disposition = "ACTIVE"
             THEN n.disposition \in {"HUMAN_REVIEW", "REPAIR_REQUIRED"}
             ELSE n.disposition = r.disposition
          /\ n.count = r.count /\ ~n.open /\ n.manifest = r.manifest /\ n.result = r.result
          /\ n.eligible = r.eligible /\ n.authorizations = r.authorizations
      BY <1>2, RoutedGate
    <2>2. ValidState(n)
      BY <2>1, SameLimit DEF ValidState
    <2>3. ValidIteration(r, n)
      BY <2>1 DEF ValidIteration
    <2>4. ValidAuthorizations(r, n)
      BY <2>1 DEF ValidAuthorizations
    <2>5. r.disposition \in {"ACTIVE", "REPAIR_REQUIRED", "HUMAN_REVIEW", "ABANDONED"}
      BY DEF RunOK
    <2> QED
      BY <2>1, <2>2, <2>3, <2>4, <2>5 DEF ValidTransition, AllowedDispositions
  <1> QED
    BY <1>1, <1>2

(* Routing keeps a run sound, if an approved one is not sent to repair. *)
LEMMA RoutedSound ==
    ASSUME NEW r, NEW c, NEW f, NEW n, Sound(r, c), NoValue \notin Stages,
           r.eligible => ~Repaired(f), n = Routed(r, f)
    PROVE  Sound(n, c)
  <1>1. /\ RunOK(r) /\ ValidState(r) /\ c \in [Stages -> Nat]
        /\ Stands(r, c) /\ Earned(r, c) /\ InOrder(r)
    BY DEF Sound
  <1>2. ValidState(n)
    BY <1>1, RoutedValid
  <1>3. CASE r.disposition = "ACTIVE" /\ Retried(r, f)
    <2>1. /\ RunOK(n) /\ f.owner \in Stages /\ n.current = f.owner /\ ~n.eligible
          /\ n.checkpoints = Left(r, f.owner)
      BY <1>1, <1>3, RoutedRetry
    <2> PICK k : k = n.checkpoints
      OBVIOUS
    <2> PICK o : o = f.owner
      OBVIOUS
    <2>2. /\ \A s \in DOMAIN k : DEPENDENCIES[s] \subseteq DOMAIN k /\ k[s] = c[s]
          /\ o \notin DOMAIN k
      BY <1>1, <2>1, InvalidationStands
    <2>3. Stands(n, c) /\ Earned(n, c) /\ InOrder(n)
      BY <2>1, <2>2 DEF Stands, Earned, InOrder
    <2> QED
      BY <1>1, <1>2, <2>1, <2>3 DEF Sound
  <1>4. CASE ~(r.disposition = "ACTIVE" /\ Retried(r, f))
    <2>1. /\ RunOK(n)
          /\ IF r.disposition = "ACTIVE"
             THEN \/ n.disposition = "HUMAN_REVIEW"
                  \/ n.disposition = "REPAIR_REQUIRED" /\ Repaired(f)
             ELSE n.disposition = r.disposition
          /\ ~n.open /\ n.current = r.current /\ n.checkpoints = r.checkpoints
          /\ n.manifest = r.manifest /\ n.result = r.result /\ n.eligible = r.eligible
      BY <1>1, <1>4, RoutedGate
    <2>2. Stands(n, c) /\ InOrder(n)
      BY <1>1, <2>1 DEF Stands, InOrder
    <2>3. \A s : Reusable(n, c, s) <=> Reusable(r, c, s)
      BY <2>1, NextSame
    <2>4. Earned(n, c)
      BY <1>1, <2>1, <2>3 DEF Earned
    <2> QED
      BY <1>1, <1>2, <2>1, <2>2, <2>4 DEF Sound
  <1> QED
    BY <1>3, <1>4

(* A retry resumes at its owner, if all that comes before it is finished.  *)
LEMMA RetryResumes ==
    ASSUME NEW r, NEW c, NEW f, NEW n, Sound(r, c), NoValue \notin Stages,
           r.disposition = "ACTIVE", Retried(r, f), n = Routed(r, f),
           \A t : Before(t, f.owner) => t \in DOMAIN r.checkpoints
    PROVE  n.current = NextStage(n, c)
  <1> PICK o : o = f.owner
    OBVIOUS
  <1> PICK k : k = Left(r, o)
    OBVIOUS
  <1>1. RunOK(r) /\ Stands(r, c)
    BY DEF Sound
  <1>2. o \in Stages /\ n.current = o /\ n.checkpoints = k
    BY <1>1, RoutedRetry
  <1>3. /\ \A s \in DOMAIN k : k[s] = c[s]
        /\ \A s \in DOMAIN r.checkpoints : Before(s, o) => s \in DOMAIN k
        /\ o \notin DOMAIN k
    BY <1>1, <1>2, InvalidationStands
  <1>4. ~Reusable(n, c, o) /\ \A t : Before(t, o) => Reusable(n, c, t)
    BY <1>2, <1>3 DEF Reusable
  <1> QED
    BY <1>2, <1>4, NextIs

-----------------------------------------------------------------------------
(* The commits that are no routings *)

(* A change of neither checkpoints nor current stage, that approves nothing. *)
LEMMA SoundOtherwise ==
    ASSUME NEW r, NEW c, NEW n, Sound(r, c), RunOK(n), ValidState(n),
           n.checkpoints = r.checkpoints, n.current = r.current,
           n.eligible => /\ r.eligible
                         /\ n.manifest = r.manifest
                         /\ n.result = r.result
                         /\ ~n.open
                         /\ n.disposition # "REPAIR_REQUIRED"
    PROVE  Sound(n, c)
  <1>1. Stands(n, c) /\ InOrder(n) /\ c \in [Stages -> Nat]
    BY DEF Sound, Stands, InOrder
  <1>2. \A s : Reusable(n, c, s) <=> Reusable(r, c, s)
    BY NextSame
  <1>3. Earned(n, c)
    BY <1>2 DEF Sound, Earned
  <1> QED
    BY <1>1, <1>3 DEF Sound

(* While a stage is still to be executed nothing is approved, its          *)
(* checkpoint is missing, and all before it are there.                     *)
LEMMA PendingStage ==
    ASSUME NEW r, NEW c, NEW s, Sound(r, c), NoValue \notin Stages,
           s = NextStage(r, c), s # NoValue
    PROVE  /\ s \in Stages
           /\ ~r.eligible
           /\ s \notin DOMAIN r.checkpoints
           /\ \A t : Before(t, s) => t \in DOMAIN r.checkpoints /\ Reusable(r, c, t)
  <1>1. s \in Stages /\ ~Reusable(r, c, s) /\ \A t : Before(t, s) => Reusable(r, c, t)
    BY NextFacts
  <1>2. ~r.eligible
    BY <1>1 DEF Sound, Earned
  <1>3. s \notin DOMAIN r.checkpoints
    BY <1>1 DEF Sound, Stands, Reusable
  <1> QED
    BY <1>1, <1>2, <1>3 DEF Reusable

LEMMA CheckpointSound ==
    ASSUME NEW s, Sound(run, contract), NoValue \notin Stages,
           s = NextStage(run, contract), s # NoValue,
           NEW n, n = WithCheckpoint(s), ValidState(n)
    PROVE  /\ Sound(n, contract)
           /\ n.failure = run.failure
           /\ \A t \in Stages : (t = s \/ Before(t, s)) => Reusable(n, contract, t)
  <1> PICK k : k = [t \in DOMAIN run.checkpoints \cup {s} |->
                      IF t = s THEN contract[s] ELSE run.checkpoints[t]]
    OBVIOUS
  <1> /\ RunOK(run) /\ contract \in [Stages -> Nat] /\ Stands(run, contract)
    BY DEF Sound
  <1>1. /\ s \in Stages /\ ~run.eligible /\ s \notin DOMAIN run.checkpoints
        /\ \A t : Before(t, s) => t \in DOMAIN run.checkpoints
    BY PendingStage
  <1>2. n = [run EXCEPT !.checkpoints = k, !.current = s]
    BY DEF WithCheckpoint
  <1>3. /\ n.checkpoints = k /\ n.current = s /\ ~n.eligible /\ n.failure = run.failure
    BY <1>1, <1>2 DEF RunOK
  <1>4. /\ DOMAIN k = DOMAIN run.checkpoints \cup {s}
        /\ DOMAIN k \subseteq Stages
        /\ k \in [DOMAIN k -> Nat]
        /\ \A t \in DOMAIN k : k[t] = contract[t]
    BY <1>1 DEF RunOK, Stands
  <1>5. n \in [disposition    : {"ACTIVE", "REPAIR_REQUIRED", "HUMAN_REVIEW", "ABANDONED"},
               count          : Nat,
               open           : BOOLEAN,
               current        : Stages,
               checkpoints    : {k},
               manifest       : Manifests \cup {NoValue},
               result         : Manifests \cup {NoValue},
               eligible       : BOOLEAN,
               failure        : {n.failure},
               authorizations : Seq({"resume", "abandon"}),
               runner         : Nat]
    BY <1>1, <1>2, <1>3 DEF RunOK
  <1>6. RunOK(n)
    BY <1>3, <1>4, <1>5 DEF RunOK
  <1>7. \A t \in DOMAIN k : DEPENDENCIES[t] \subseteq DOMAIN k
    <2>1. \A d \in DEPENDENCIES[s] : d \in DOMAIN k
      BY <1>1, <1>4, DependenciesAreEarlier
    <2>2. \A t \in DOMAIN run.checkpoints : DEPENDENCIES[t] \subseteq DOMAIN k
      BY <1>4 DEF Stands
    <2> QED
      BY <2>1, <2>2, <1>4
  <1>8. Stands(n, contract) /\ Earned(n, contract) /\ InOrder(n)
    BY <1>1, <1>3, <1>4, <1>7 DEF Stands, Earned, InOrder
  <1>9. Sound(n, contract)
    BY <1>6, <1>8 DEF Sound
  <1>10. \A t \in Stages : (t = s \/ Before(t, s)) => Reusable(n, contract, t)
    BY <1>1, <1>3, <1>4 DEF Reusable
  <1> QED
    BY <1>3, <1>9, <1>10

LEMMA ApprovedSound ==
    ASSUME Sound(run, contract), NoValue \notin Stages \cup Manifests,
           NextStage(run, contract) = "reviewer", run.disposition = "ACTIVE",
           NEW m \in Manifests, m = run.manifest,
           NEW n, n = Approved(m), ValidState(n)
    PROVE  Sound(n, contract) /\ n.failure = run.failure
  <1> PICK w : w = WithCheckpoint("reviewer")
    OBVIOUS
  <1> PICK s : s = "reviewer"
    OBVIOUS
  <1>0. s \in Stages
    BY OrderFacts
  <1>1. n = [w EXCEPT !.result = m, !.open = FALSE, !.eligible = TRUE]
    BY DEF Approved
  <1>2. /\ DOMAIN w = DOMAIN run
        /\ w.count = run.count /\ w.authorizations = run.authorizations /\ w.open = run.open
        /\ w.disposition = run.disposition /\ w.manifest = run.manifest /\ w.eligible = run.eligible
    BY DEF WithCheckpoint, Sound, RunOK
  <1>3. ValidState(w)
    <2> ~run.eligible
      BY <1>0, PendingStage
    <2> ValidState(run)
      BY DEF Sound
    <2> QED
      BY <1>2, SameLimit DEF ValidState
  <1>4. /\ Sound(w, contract) /\ w.failure = run.failure
        /\ \A t \in Stages : (t = s \/ Before(t, s)) => Reusable(w, contract, t)
    BY <1>0, <1>3, CheckpointSound
  <1>5. \A t \in Stages : Reusable(w, contract, t)
    BY <1>4, OrderEnds
  <1>6. RunOK(w)
    BY <1>4 DEF Sound
  <1>7. /\ n.checkpoints = w.checkpoints /\ n.current = w.current /\ n.failure = w.failure
        /\ n.result = m /\ n.manifest = m /\ ~n.open /\ n.eligible /\ n.disposition = "ACTIVE"
    BY <1>1, <1>2, <1>6 DEF RunOK
  <1>8. RunOK(n)
    <2> n \in [disposition    : {"ACTIVE", "REPAIR_REQUIRED", "HUMAN_REVIEW", "ABANDONED"},
               count          : Nat,
               open           : BOOLEAN,
               current        : Stages,
               checkpoints    : {w.checkpoints},
               manifest       : Manifests \cup {NoValue},
               result         : Manifests \cup {NoValue},
               eligible       : BOOLEAN,
               failure        : {w.failure},
               authorizations : Seq({"resume", "abandon"}),
               runner         : Nat]
      BY <1>1, <1>6 DEF RunOK
    <2> QED
      BY <1>6, <1>7 DEF RunOK
  <1>9. \A t : Reusable(n, contract, t) <=> Reusable(w, contract, t)
    BY <1>7, NextSame
  <1>10. Stands(n, contract) /\ InOrder(n)
    BY <1>4, <1>7 DEF Sound, Stands, InOrder
  <1>11. Earned(n, contract)
    BY <1>5, <1>7, <1>9 DEF Earned
  <1> QED
    BY <1>4, <1>7, <1>8, <1>10, <1>11 DEF Sound

-----------------------------------------------------------------------------
(* The steps *)

(* What RetryResumesAtOwner says of one step. *)
Resumes ==
    run.disposition = "ACTIVE" /\ run'.disposition = "ACTIVE"
        /\ run'.failure # NoValue /\ run'.failure # run.failure =>
            IF Unreached(run'.failure.owner)
            THEN records' = records + 1 /\ run'.checkpoints = run.checkpoints
            ELSE run'.current = NextStage(run', contract')

Executes == [Supervisors -> Stages \cup {NoValue}]

(* A commit makes every process stale. *)
LEMMA CommitInv ==
    ASSUME Sound(run', contract'), fresh' = [p \in Supervisors |-> FALSE], executing' \in Executes
    PROVE  IInv'
  <1>1. \A p \in Supervisors : ~fresh'[p]
    OBVIOUS
  <1>2. fresh' \in [Supervisors -> BOOLEAN]
    OBVIOUS
  <1> QED
    BY <1>1, <1>2 DEF IInv, ProcHolds, Holds, Executes

LEMMA IdleType ==
    ASSUME executing \in Executes, NEW p \in Supervisors, Idle(p)
    PROVE  executing' \in Executes
BY DEF Idle, Executes

(* Unless a stage is still to be reached, all before it are finished.      *)
LEMMA ReachedAfterAll ==
    ASSUME Sound(run, contract), NoValue \notin Stages, NEW o \in Stages, ~Unreached(o),
           NEW t, Before(t, o)
    PROVE  t \in DOMAIN run.checkpoints
  <1> PICK s : s = NextStage(run, contract)
    OBVIOUS
  <1>1. t \in Stages
    BY BeforeIsOrder
  <1>2. CASE \A u \in Stages : Reusable(run, contract, u)
    BY <1>1, <1>2 DEF Reusable
  <1>3. CASE /\ s \in Stages
             /\ \A u : Before(u, s) => Reusable(run, contract, u)
    <2>1. ~Before(s, o)
      <3> SUFFICES ASSUME Before(s, o)
                   PROVE  FALSE
        OBVIOUS
      <3>1. PICK i, j \in DOMAIN StageOrder : i < j /\ s = StageOrder[i] /\ o = StageOrder[j]
        BY DEF Before
      <3> QED
        BY <3>1 DEF Unreached
    <2>2. s = o \/ Before(o, s)
      BY <1>3, <2>1, BeforeIsOrder
    <2>3. Before(t, s)
      BY <2>2, BeforeIsOrder
    <2> QED
      BY <1>3, <2>3 DEF Reusable
  <1> QED
    BY <1>2, <1>3, NextFacts

(* A stage with all before it finished is reached. *)
LEMMA AfterAllReached ==
    ASSUME NoValue \notin Stages, NEW o \in Stages, Sound(run, contract),
           \A t : Before(t, o) => t \in DOMAIN run.checkpoints
    PROVE  ~Unreached(o)
  <1> PICK s : s = NextStage(run, contract)
    OBVIOUS
  <1> SUFFICES ASSUME Unreached(o)
               PROVE  FALSE
    OBVIOUS
  <1>1. Before(s, o)
    BY DEF Unreached, Before
  <1>2. s \in Stages
    BY <1>1, BeforeIsOrder
  <1>3. s \notin DOMAIN run.checkpoints
    BY <1>2, PendingStage
  <1> QED
    BY <1>1, <1>3

(* Without a checkpoint of the owner an invalidation keeps them all: what  *)
(* has none is closed under dependents.                                    *)
LEMMA NothingLost ==
    ASSUME NEW r, NEW c, RunOK(r), Stands(r, c), NEW o \in Stages, o \notin DOMAIN r.checkpoints
    PROVE  Left(r, o) = r.checkpoints
  <1> PICK h : h = r.checkpoints
    OBVIOUS
  <1> PICK L : L = Stages \ DOMAIN h
    OBVIOUS
  <1> PICK D : D = Descendants(o)
    OBVIOUS
  <1>1. h \in [DOMAIN h -> Nat] /\ DOMAIN h \subseteq Stages
    BY DEF RunOK
  <1>2. Invalidated(L)
    BY DEF Invalidated, Stands
  <1>3. D \subseteq L
    BY <1>2 DEF Descendants, DescendantsOf
  <1>4. DOMAIN h \cap (Stages \ D) = DOMAIN h
    BY <1>1, <1>3
  <1>5. Left(r, o) = [s \in DOMAIN h \cap (Stages \ D) |-> h[s]]
    BY DEF Left, Keep
  <1> QED
    BY <1>1, <1>4, <1>5

(* A routing, if an approved run is not sent to repair by it, and a retry  *)
(* of a stage still to be reached is a recorded one without a checkpoint.  *)
LEMMA RouteInv ==
    ASSUME IInv, NoValue \notin Stages, NEW f, run.eligible => ~Repaired(f),
           Retried(run, f) /\ Unreached(f.owner) =>
               records' = records + 1 /\ f.owner \notin DOMAIN run.checkpoints,
           Commit(Routed(run, f)), contract' = contract, executing' \in Executes
    PROVE  IInv' /\ Resumes
  <1> PICK n : n = Routed(run, f)
    OBVIOUS
  <1>1. run' = n /\ fresh' = [p \in Supervisors |-> FALSE]
    BY DEF Commit
  <1>2. Sound(run, contract)
    BY DEF IInv
  <1>3. Sound(n, contract)
    BY <1>2, RoutedSound
  <1>4. Sound(run', contract')
    BY <1>1, <1>3
  <1>5. IInv'
    BY <1>1, <1>4, CommitInv
  <1>6. CASE run.disposition = "ACTIVE" /\ Retried(run, f)
    <2> PICK o : o = f.owner
      OBVIOUS
    <2>1. /\ RunOK(run) /\ Stands(run, contract)
          /\ o \in Stages /\ n.failure = f /\ n.checkpoints = Left(run, o)
      BY <1>2, <1>6, RoutedRetry DEF Sound
    <2>2. CASE Unreached(o)
      <3>1. records' = records + 1 /\ n.checkpoints = run.checkpoints
        BY <1>6, <2>1, <2>2, NothingLost
      <3> QED
        BY <1>1, <1>5, <2>1, <2>2, <3>1 DEF Resumes
    <2>3. CASE ~Unreached(o)
      <3>1. \A t : Before(t, f.owner) => t \in DOMAIN run.checkpoints
        BY <1>2, <2>1, <2>3, ReachedAfterAll
      <3>2. n.current = NextStage(n, contract)
        BY <1>2, <1>6, <3>1, RetryResumes
      <3> QED
        BY <1>1, <1>5, <2>1, <2>3, <3>2 DEF Resumes
    <2> QED
      BY <2>2, <2>3
  <1>7. CASE ~(run.disposition = "ACTIVE" /\ Retried(run, f))
    <2>1. RunOK(run)
      BY <1>2 DEF Sound
    <2>2. run.disposition = "ACTIVE" => n.disposition # "ACTIVE"
      BY <2>1, <1>7, RoutedGate
    <2> QED
      BY <1>1, <1>5, <2>2 DEF Resumes
  <1> QED
    BY <1>6, <1>7

(* A failure of the supervisor itself is neither retried nor repaired, one *)
(* of the orchestration is not retried.                                    *)
LEMMA OwnFailures ==
    /\ \A f \in {SupervisorFailure, BudgetExhausted} : ~Repaired(f) /\ ~Retried(run, f)
    /\ \A s : ~Retried(run, OrchestrationFailure(s))
  <1>1. \A f \in {SupervisorFailure, BudgetExhausted} : ~Repaired(f) /\ ~Retried(run, f)
    BY DEF SupervisorFailure, BudgetExhausted, Failure, Repaired, Retried,
           RetryableInvalidOutput, ProgrammerDefect, CitedArtifactDefect
  <1>2. \A s : ~Retried(run, OrchestrationFailure(s))
    BY DEF OrchestrationFailure, Failure, Retried,
           RetryableInvalidOutput, ProgrammerDefect, CitedArtifactDefect
  <1> QED
    BY <1>1, <1>2

(* Of what the executor reports, only work up to its own stage is retried. *)
LEMMA OwnerBefore ==
    ASSUME NEW r, NEW s \in Stages, NEW f \in ExecutorFailures(s), Retried(r, f)
    PROVE  f.owner = s \/ Before(f.owner, s)
  <1>1. CASE f \in {OrchestrationFailure(s),
                    Failure("orchestration", "transport", "invalid_unit_output", s, FALSE)}
    BY <1>1 DEF OrchestrationFailure, Failure, Retried, RetryableInvalidOutput,
                ProgrammerDefect, CitedArtifactDefect
  <1>2. CASE f = InvalidOutput(s)
    BY <1>2 DEF InvalidOutput, Failure
  <1>3. CASE /\ f.class = "product"
             /\ f.owner = "programmer"
             /\ s \in {"verification", "tester", "reviewer"}
    BY <1>3, OrderEnds
  <1>4. CASE s = "reviewer" /\ f.owner \in ArchitectStages
    BY <1>4, OrderEnds, OrderFacts
  <1>5. CASE /\ f.class = "ambiguity"
    BY <1>5 DEF Retried, RetryableInvalidOutput, ProgrammerDefect, CitedArtifactDefect
  <1>6. CASE f = Failure("product", "review", "requirements_mismatch", "analyst", TRUE)
    BY <1>6 DEF Failure, Retried, RetryableInvalidOutput, ProgrammerDefect, CitedArtifactDefect
  <1>7. CASE f = Failure("product", "review", "artifact_mismatch", "architect_tasks", FALSE)
    BY <1>7 DEF Failure, Retried, RetryableInvalidOutput, ProgrammerDefect, CitedArtifactDefect
  <1>8. \/ f \in {OrchestrationFailure(s),
                  Failure("orchestration", "transport", "invalid_unit_output", s, FALSE)}
        \/ f = InvalidOutput(s)
        \/ /\ f.class = "product"
           /\ f.owner = "programmer"
           /\ s \in {"verification", "tester", "reviewer"}
        \/ s = "reviewer" /\ f.owner \in ArchitectStages
        \/ f.class = "ambiguity"
        \/ f = Failure("product", "review", "requirements_mismatch", "analyst", TRUE)
        \/ f = Failure("product", "review", "artifact_mismatch", "architect_tasks", FALSE)
    <2>1. CASE s = "analyst"
      BY <2>1 DEF ExecutorFailures, Failure
    <2>2. CASE s = "verification"
      BY <2>2 DEF ExecutorFailures, Failure
    <2>3. CASE s = "tester"
      BY <2>3 DEF ExecutorFailures, Failure
    <2>4. CASE s = "reviewer"
      BY <2>4 DEF ExecutorFailures, Failure
    <2>5. CASE s \notin {"analyst", "verification", "tester", "reviewer"}
      BY <2>5 DEF ExecutorFailures, Failure
    <2> QED
      BY <2>1, <2>2, <2>3, <2>4, <2>5
  <1> QED
    BY <1>1, <1>2, <1>3, <1>4, <1>5, <1>6, <1>7, <1>8

(* A process that holds the current generation. *)
LEMMA Executing ==
    ASSUME IInv, NoValue \notin Stages, NEW p \in Supervisors, Holds(p),
           NEW s, s = executing[p]
    PROVE  /\ Sound(run, contract)
           /\ s = NextStage(run, contract)
           /\ s # NoValue
           /\ s \in Stages
           /\ ~run.eligible
           /\ s \notin DOMAIN run.checkpoints
           /\ \A t : Before(t, s) => t \in DOMAIN run.checkpoints
           /\ run.disposition = "ACTIVE"
           /\ run.open
  <1>1. /\ Sound(run, contract) /\ s = NextStage(run, contract) /\ s # NoValue
        /\ run.disposition = "ACTIVE" /\ run.open
    BY DEF IInv, ProcHolds, Holds
  <1> QED
    BY <1>1, PendingStage

(* The outcome of an execution. *)
LEMMA SuccessInv ==
    ASSUME IInv, NoValue \notin Stages, NEW p \in Supervisors, Holds(p),
           NEW s, s = executing[p], NEW n, CommitSuccess(s, n),
           ValidState(n) => Sound(n, contract) /\ n.failure = run.failure,
           contract' = contract, executing' \in Executes
    PROVE  IInv' /\ Resumes
  <1>1. ~run.eligible
    BY Executing
  <1>2. CASE s \notin DOMAIN run.checkpoints /\ ValidTransition(run, n)
    <2>1. run' = n /\ fresh' = [q \in Supervisors |-> FALSE]
      BY <1>2 DEF CommitSuccess, Commit
    <2>2. Sound(n, contract) /\ n.failure = run.failure
      BY <1>2 DEF ValidTransition
    <2>3. Sound(run', contract')
      BY <2>1, <2>2
    <2> QED
      BY <2>1, <2>2, <2>3, CommitInv DEF Resumes
  <1>3. CASE ~(s \notin DOMAIN run.checkpoints /\ ValidTransition(run, n))
    <2> PICK f : f = OrchestrationFailure(s)
      OBVIOUS
    <2>1. Commit(Routed(run, f))
      BY <1>3 DEF CommitSuccess
    <2>2. ~Retried(run, f)
      BY OwnFailures
    <2> QED
      BY <1>1, <2>1, <2>2, RouteInv
  <1> QED
    BY <1>2, <1>3

LEMMA StepInv ==
    ASSUME IInv, NoValue \notin Stages, NEW p \in Supervisors, Step(p)
    PROVE  IInv' /\ Resumes
  <1> PICK s : s = NextStage(run, contract)
    OBVIOUS
  <1>1. /\ Sound(run, contract) /\ executing \in Executes /\ contract' = contract
        /\ s # NoValue /\ run.disposition = "ACTIVE" /\ executing[p] = NoValue
        /\ executing' = [executing EXCEPT ![p] = s]
    BY DEF IInv, Step, Executes
  <1>2. s \in Stages /\ ~run.eligible
    BY <1>1, PendingStage
  <1>3. executing' \in Executes
    BY <1>1, <1>2 DEF Executes
  <1>4. CASE run.open /\ fresh' = [fresh EXCEPT ![p] = TRUE] /\ UNCHANGED run
    <2>1. fresh' \in [Supervisors -> BOOLEAN]
      BY <1>4 DEF IInv
    <2>2. ASSUME NEW q \in Supervisors, Holds(q)'
          PROVE  executing'[q] = s /\ run'.disposition = "ACTIVE" /\ run'.open
      <3>1. CASE q = p
        BY <1>1, <1>4, <3>1 DEF Executes
      <3>2. CASE q # p
        <4>1. Holds(q) /\ executing'[q] = executing[q]
          BY <1>1, <1>4, <2>2, <3>2 DEF Holds, Executes, IInv
        <4> QED
          BY <1>1, <1>4, <4>1 DEF IInv, ProcHolds
      <3> QED
        BY <3>1, <3>2
    <2>3. ProcHolds'
      BY <1>1, <1>4, <2>2 DEF ProcHolds
    <2> QED
      BY <1>1, <1>3, <1>4, <2>1, <2>3 DEF IInv, Resumes, Executes
  <1>5. CASE /\ CanStartIteration(run)
             /\ ValidTransition(run, BeginIteration(run))
             /\ run' = BeginIteration(run)
             /\ fresh' = [q \in Supervisors |-> q = p]
    <2> PICK n : n = BeginIteration(run)
      OBVIOUS
    <2>1. RunOK(run)
      BY <1>1 DEF Sound
    <2>2. /\ n.checkpoints = run.checkpoints /\ n.current = run.current /\ n.open
          /\ n.disposition = "ACTIVE" /\ ~n.eligible /\ n.failure = run.failure
      BY <1>1, <1>2, <2>1 DEF BeginIteration, RunOK
    <2>3. RunOK(n)
      <3>1. PICK k \in Nat : k = run.count + 1
        BY <2>1 DEF RunOK
      <3>2. n = [run EXCEPT !.count = k, !.open = TRUE]
        BY <3>1 DEF BeginIteration
      <3> QED
        BY <2>1, <2>2, <3>2 DEF RunOK
    <2>4. ValidState(n)
      BY <1>5 DEF ValidTransition
    <2>5. Sound(n, contract)
      BY <1>1, <2>2, <2>3, <2>4, SoundOtherwise
    <2>6. NextStage(n, contract) = s
      BY <2>2, NextSame
    <2>7. fresh' \in [Supervisors -> BOOLEAN]
      BY <1>5
    <2>8. ASSUME NEW q \in Supervisors, Holds(q)'
          PROVE  executing'[q] = s
      <3>1. q = p
        BY <1>5, <2>8 DEF Holds
      <3> QED
        BY <1>1, <3>1 DEF Executes
    <2>9. run' = n
      BY <1>5
    <2>10. ProcHolds'
      BY <1>1, <2>2, <2>6, <2>8, <2>9 DEF ProcHolds
    <2> QED
      BY <1>1, <1>3, <2>2, <2>5, <2>7, <2>9, <2>10 DEF IInv, Resumes, Executes
  <1> QED
    BY <1>4, <1>5 DEF Step

LEMMA StepRefusedInv ==
    ASSUME IInv, NoValue \notin Stages, NEW p \in Supervisors, StepRefused(p)
    PROVE  IInv' /\ Resumes
  <1>1. PICK f \in {SupervisorFailure, BudgetExhausted} : Commit(Routed(run, f))
    BY DEF StepRefused
  <1>2. executing' \in Executes /\ contract' = contract
    BY DEF StepRefused, IInv, Executes
  <1> QED
    BY <1>1, <1>2, OwnFailures, RouteInv

LEMMA MisroutedInv ==
    ASSUME IInv, NoValue \notin Stages, NEW p \in Supervisors, Misrouted(p)
    PROVE  IInv' /\ Resumes
  <1> PICK f : f = SupervisorFailure
    OBVIOUS
  <1>1. executing' \in Executes
    BY IdleType DEF Misrouted, IInv, Executes
  <1> QED
    BY <1>1, OwnFailures, RouteInv DEF Misrouted

LEMMA CheckpointInv ==
    ASSUME IInv, NoValue \notin Stages, NEW p \in Supervisors, Checkpoint(p)
    PROVE  IInv' /\ Resumes
  <1> PICK s : s = executing[p]
    OBVIOUS
  <1> PICK n : n = WithCheckpoint(s)
    OBVIOUS
  <1>1. executing' \in Executes
    BY IdleType DEF Checkpoint, IInv, Executes
  <1>2. Holds(p) /\ CommitSuccess(s, n) /\ contract' = contract
    BY DEF Checkpoint
  <1>3. Sound(run, contract) /\ s = NextStage(run, contract) /\ s # NoValue
    BY <1>2, Executing
  <1>4. ValidState(n) => Sound(n, contract) /\ n.failure = run.failure
    BY <1>3, CheckpointSound
  <1> QED
    BY <1>1, <1>2, <1>4, SuccessInv

LEMMA ApproveInv ==
    ASSUME IInv, NoValue \notin Stages \cup Manifests, NEW p \in Supervisors,
           NEW m \in Manifests, Approve(p, m)
    PROVE  IInv' /\ Resumes
  <1>1. executing' \in Executes
    BY IdleType DEF Approve, IInv, Executes
  <1>2. Holds(p) /\ executing[p] = "reviewer" /\ contract' = contract
    BY DEF Approve
  <1>3. CASE m = run.manifest
    <2> PICK s : s = executing[p]
      OBVIOUS
    <2> PICK n : n = Approved(m)
      OBVIOUS
    <2>1. CommitSuccess(s, n)
      BY <1>2, <1>3 DEF Approve
    <2>2. /\ Sound(run, contract) /\ NextStage(run, contract) = "reviewer"
          /\ run.disposition = "ACTIVE"
      BY <1>2, Executing
    <2>3. ValidState(n) => Sound(n, contract) /\ n.failure = run.failure
      BY <1>3, <2>2, ApprovedSound
    <2> QED
      BY <1>1, <1>2, <2>1, <2>3, SuccessInv
  <1>4. CASE m # run.manifest
    <2> PICK f : f = SupervisorFailure
      OBVIOUS
    <2>1. Commit(Routed(run, f))
      BY <1>4 DEF Approve
    <2> QED
      BY <1>1, <1>2, <2>1, OwnFailures, RouteInv
  <1> QED
    BY <1>3, <1>4

LEMMA FailInv ==
    ASSUME IInv, NoValue \notin Stages, NEW p \in Supervisors, NEW f, Fail(p, f)
    PROVE  IInv' /\ Resumes
  <1> PICK s : s = executing[p]
    OBVIOUS
  <1>1. executing' \in Executes
    BY IdleType DEF Fail, IInv, Executes
  <1>2. Holds(p) /\ f \in ExecutorFailures(s) /\ Commit(Routed(run, f)) /\ contract' = contract
    BY DEF Fail
  <1>3. /\ s \in Stages /\ ~run.eligible
        /\ \A t : Before(t, s) => t \in DOMAIN run.checkpoints
    BY <1>2, Executing
  <1>4. ASSUME Retried(run, f)
        PROVE  ~Unreached(f.owner)
    <2> PICK o : o = f.owner
      OBVIOUS
    <2>1. o = s \/ Before(o, s)
      BY <1>2, <1>3, <1>4, OwnerBefore
    <2>2. \A t : Before(t, o) => t \in DOMAIN run.checkpoints
      BY <1>3, <2>1, BeforeIsOrder
    <2>3. o \in Stages
      BY <1>3, <2>1, BeforeIsOrder
    <2> QED
      BY <2>2, <2>3, AfterAllReached DEF IInv
  <1> QED
    BY <1>1, <1>2, <1>3, <1>4, RouteInv

LEMMA RecordFailureInv ==
    ASSUME IInv, NoValue \notin Stages, NEW f \in RecordedFailures, RecordFailure(f)
    PROVE  IInv' /\ Resumes
  <1> PICK h : h = run.checkpoints
    OBVIOUS
  <1> PICK o : o = f.owner
    OBVIOUS
  <1>1. /\ executing' \in Executes /\ Commit(Routed(run, f)) /\ contract' = contract
        /\ records' = records + 1
    BY DEF RecordFailure, IInv, Executes
  <1>2. Sound(run, contract)
    BY DEF IInv
  <1>3. /\ o \in Stages
        /\ \/ f = Failure("product", "review", "implementation_mismatch", o, TRUE)
           \/ f = InvalidOutput(o)
    BY DEF RecordedFailures, Failure, InvalidOutput
  <1>4. ~Repaired(f)
    BY <1>3 DEF Failure, InvalidOutput, Repaired
  <1>5. ASSUME Retried(run, f), o \in DOMAIN h
        PROVE  ~Unreached(o)
    <2>1. CASE f = Failure("product", "review", "implementation_mismatch", o, TRUE)
      <3>1. o = "programmer"
        BY <1>5, <2>1 DEF Failure, Retried, RetryableInvalidOutput, ProgrammerDefect,
                          CitedArtifactDefect
      <3>2. \A s \in DOMAIN h : DEPENDENCIES[s] \subseteq DOMAIN h
        BY <1>2 DEF Sound, Stands
      <3>3. "architect_tasks" \in DOMAIN h
        BY <1>5, <3>1, <3>2, OrderFacts DEF DEPENDENCIES
      <3>4. {"architect_specs", "architect_design"} \subseteq DOMAIN h
        BY <3>2, <3>3, OrderFacts DEF DEPENDENCIES
      <3>5. "architect_proposal" \in DOMAIN h
        BY <3>2, <3>4, OrderFacts DEF DEPENDENCIES
      <3>6. "architect_outline" \in DOMAIN h
        BY <3>2, <3>5, OrderFacts DEF DEPENDENCIES
      <3>7. "analyst" \in DOMAIN h
        BY <3>2, <3>6, OrderFacts DEF DEPENDENCIES
      <3>8. \A t : Before(t, o) => t = "analyst" \/ t \in ArchitectStages
        BY <3>1, OrderEnds
      <3>9. \A t : Before(t, o) => t \in DOMAIN run.checkpoints
        BY <3>3, <3>4, <3>5, <3>6, <3>7, <3>8, OrderEnds
      <3> QED
        BY <1>2, <1>3, <3>9, AfterAllReached
    <2>2. CASE f = InvalidOutput(o)
      <3>1. o = run.current
        BY <1>5, <2>2 DEF InvalidOutput, Failure, Retried, RetryableInvalidOutput,
                          ProgrammerDefect, CitedArtifactDefect
      <3>2. \A t : Before(t, o) => t \in DOMAIN run.checkpoints
        BY <1>2, <1>5, <3>1, BeforeIsOrder DEF Sound, InOrder
      <3> QED
        BY <1>2, <1>3, <3>2, AfterAllReached
    <2> QED
      BY <1>3, <2>1, <2>2
  <1> QED
    BY <1>1, <1>4, <1>5, RouteInv

LEMMA RepairActivateInv ==
    ASSUME IInv, NoValue \notin Stages, NEW changed, RepairActivate(changed)
    PROVE  IInv' /\ Resumes
  <1> PICK new : new = [s \in Stages |-> IF s \in changed THEN contract[s] + 1 ELSE contract[s]]
    OBVIOUS
  <1> PICK k : k = Outliving(run, contract, new)
    OBVIOUS
  <1> PICK n : n = [run EXCEPT !.disposition = "ACTIVE", !.runner = @ + 1,
                               !.checkpoints = Retained(@, contract, new)]
    OBVIOUS
  <1>1. /\ run.disposition = "REPAIR_REQUIRED" /\ Commit(n) /\ contract' = new
        /\ executing' = [p \in Supervisors |-> NoValue]
    BY DEF RepairActivate
  <1>2. /\ Sound(run, contract) /\ RunOK(run) /\ Stands(run, contract) /\ InOrder(run)
        /\ contract \in [Stages -> Nat]
    BY DEF IInv, Sound
  <1>3. ~run.eligible
    BY <1>1, <1>2 DEF Sound, Earned
  <1>4. new \in [Stages -> Nat]
    BY <1>2
  <1>5. /\ DOMAIN k \subseteq Stages
        /\ k \in [DOMAIN k -> Nat]
        /\ \A s \in DOMAIN k : DEPENDENCIES[s] \subseteq DOMAIN k /\ k[s] = new[s]
        /\ \A s \in DOMAIN k : \A t \in DOMAIN run.checkpoints : Before(t, s) => t \in DOMAIN k
        /\ DOMAIN k \subseteq DOMAIN run.checkpoints
    BY <1>2, RetainedStands
  <1>6. PICK j \in Nat : j = run.runner + 1
    BY <1>2 DEF RunOK
  <1>7. n = [run EXCEPT !.disposition = "ACTIVE", !.runner = j, !.checkpoints = k]
    BY <1>2, <1>6 DEF RunOK, Outliving
  <1>8. /\ n.checkpoints = k /\ n.current = run.current /\ ~n.eligible
        /\ n.failure = run.failure
    BY <1>2, <1>3, <1>7 DEF RunOK
  <1>9. RunOK(n)
    <2> n \in [disposition    : {"ACTIVE", "REPAIR_REQUIRED", "HUMAN_REVIEW", "ABANDONED"},
               count          : Nat,
               open           : BOOLEAN,
               current        : Stages,
               checkpoints    : {k},
               manifest       : Manifests \cup {NoValue},
               result         : Manifests \cup {NoValue},
               eligible       : BOOLEAN,
               failure        : {n.failure},
               authorizations : Seq({"resume", "abandon"}),
               runner         : Nat]
      BY <1>2, <1>7, <1>8 DEF RunOK
    <2> QED
      BY <1>5, <1>8 DEF RunOK
  <1>10. ValidState(n)
    BY <1>1 DEF Commit, ValidTransition
  <1>11. Stands(n, new) /\ Earned(n, new)
    BY <1>5, <1>8 DEF Stands, Earned
  <1>12. InOrder(n)
    BY <1>2, <1>5, <1>8 DEF InOrder
  <1>13. Sound(run', contract')
    BY <1>1, <1>4, <1>9, <1>10, <1>11, <1>12 DEF Sound, Commit
  <1> QED
    BY <1>1, <1>13, CommitInv DEF Commit, Resumes, Executes

LEMMA PositionStageInv ==
    ASSUME IInv, NoValue \notin Stages, PositionStage
    PROVE  IInv' /\ Resumes
  <1> PICK s : s = NextStage(run, contract)
    OBVIOUS
  <1>1. /\ Sound(run, contract) /\ RunOK(run) /\ Stands(run, contract)
        /\ contract \in [Stages -> Nat] /\ run.manifest \in Manifests \cup {NoValue}
        /\ executing \in Executes
    BY DEF IInv, Sound, RunOK, Executes
  <1>2. PICK m \in Manifests \cup {NoValue} : Commit([run EXCEPT !.current = s, !.manifest = m])
    BY <1>1 DEF PositionStage
  <1> PICK n : n = [run EXCEPT !.current = s, !.manifest = m]
    OBVIOUS
  <1>3. s # NoValue /\ contract' = contract /\ executing' = executing
    BY DEF PositionStage
  <1>4. s \in Stages /\ ~run.eligible /\ s \notin DOMAIN run.checkpoints
    BY <1>1, <1>3, PendingStage
  <1>5. /\ n.checkpoints = run.checkpoints /\ n.current = s /\ ~n.eligible
        /\ n.failure = run.failure
    BY <1>1, <1>4 DEF RunOK
  <1>6. RunOK(n)
    BY <1>1, <1>4, <1>5 DEF RunOK
  <1>7. ValidState(n)
    BY <1>2 DEF Commit, ValidTransition
  <1>8. Stands(n, contract) /\ Earned(n, contract) /\ InOrder(n)
    BY <1>1, <1>4, <1>5 DEF Stands, Earned, InOrder
  <1>9. Sound(run', contract')
    BY <1>1, <1>2, <1>3, <1>6, <1>7, <1>8 DEF Sound, Commit
  <1> QED
    BY <1>1, <1>2, <1>3, <1>5, <1>9, CommitInv DEF Commit, Resumes

(* Resume and Abandon. *)
LEMMA AuthorizedInv ==
    ASSUME IInv, NoValue \notin Stages, run.disposition = "HUMAN_REVIEW",
           NEW d \in {"ACTIVE", "ABANDONED"}, NEW a \in {"resume", "abandon"},
           Commit([run EXCEPT !.disposition = d, !.authorizations = Append(@, a)]),
           UNCHANGED <<contract, executing>>
    PROVE  IInv' /\ Resumes
  <1>1. Sound(run, contract) /\ RunOK(run) /\ executing \in Executes
    BY DEF IInv, Sound, Executes
  <1>2. PICK q \in Seq({"resume", "abandon"}) : q = Append(run.authorizations, a)
    <2> PICK A : A = {"resume", "abandon"}
      OBVIOUS
    <2>1. PICK u \in Seq(A) : u = run.authorizations
      BY <1>1 DEF RunOK
    <2>2. Append(u, a) \in Seq(A)
      OBVIOUS
    <2> QED
      BY <2>1, <2>2
  <1> PICK n : n = [run EXCEPT !.disposition = d, !.authorizations = Append(@, a)]
    OBVIOUS
  <1>3. n = [run EXCEPT !.disposition = d, !.authorizations = q] /\ Commit(n)
    BY <1>1, <1>2 DEF RunOK
  <1>4. /\ n.checkpoints = run.checkpoints /\ n.current = run.current
        /\ n.eligible = run.eligible /\ n.manifest = run.manifest /\ n.result = run.result
        /\ n.open = run.open /\ n.disposition # "REPAIR_REQUIRED" /\ n.failure = run.failure
    BY <1>1, <1>3 DEF RunOK
  <1>5. RunOK(n)
    BY <1>1, <1>3, <1>4 DEF RunOK
  <1>6. ValidState(n)
    BY <1>3 DEF Commit, ValidTransition
  <1>7. run.eligible => ~run.open
    BY <1>1 DEF Sound, Earned
  <1>8. Sound(n, contract)
    BY <1>1, <1>4, <1>5, <1>6, <1>7, SoundOtherwise
  <1>9. Sound(run', contract')
    BY <1>3, <1>8 DEF Commit
  <1>10. fresh' = [p \in Supervisors |-> FALSE] /\ executing' \in Executes
    BY <1>1, <1>3 DEF Commit
  <1> QED
    BY <1>9, <1>10, CommitInv DEF Resumes

(* Conflict and Crash: the process becomes idle and, in a crash, stale.    *)
LEMMA LeaveInv ==
    ASSUME IInv, NEW p \in Supervisors, Idle(p), UNCHANGED <<run, contract>>,
           fresh' = fresh \/ fresh' = [fresh EXCEPT ![p] = FALSE]
    PROVE  IInv' /\ Resumes
  <1>1. executing \in Executes /\ fresh \in [Supervisors -> BOOLEAN]
    BY DEF IInv, Executes
  <1>2. executing' \in Executes /\ fresh' \in [Supervisors -> BOOLEAN]
    BY <1>1, IdleType
  <1>3. ASSUME NEW q \in Supervisors, Holds(q)'
        PROVE  Holds(q) /\ executing'[q] = executing[q]
    <2>1. q # p
      BY <1>1, <1>3 DEF Holds, Idle, Executes
    <2> QED
      BY <1>1, <1>3, <2>1 DEF Holds, Idle, Executes
  <1>4. ProcHolds'
    BY <1>3 DEF IInv, ProcHolds
  <1> QED
    BY <1>2, <1>4 DEF IInv, Resumes, Executes

-----------------------------------------------------------------------------
(* The theorems *)

LEMMA InitInv ==
    ASSUME Init, NoValue \notin Stages
    PROVE  IInv
  <1> PICK k : k = run.checkpoints
    OBVIOUS
  <1>1. k = <<>> /\ DOMAIN k = {}
    BY DEF Init, InitialRun
  <1>2. k \in [DOMAIN k -> Nat]
    BY <1>1
  <1>3. "analyst" \in Stages
    BY OrderFacts
  <1>4. run.authorizations \in Seq({"resume", "abandon"})
    BY DEF Init, InitialRun
  <1>5. RunOK(run)
    BY <1>1, <1>2, <1>3, <1>4 DEF Init, InitialRun, RunOK
  <1>6. Grants(run) = 0
    <2>1. {i \in DOMAIN run.authorizations : run.authorizations[i] = "resume"} = {}
      BY DEF Init, InitialRun
    <2> QED
      BY <2>1, FS_EmptySet DEF Grants
  <1>7. ValidState(run)
    BY <1>6, BudgetAssumption DEF Init, InitialRun, ValidState, AuthorizedLimit
  <1>8. contract \in [Stages -> Nat]
    BY DEF Init
  <1>9. Stands(run, contract) /\ Earned(run, contract) /\ InOrder(run)
    BY <1>1 DEF Init, InitialRun, Stands, Earned, InOrder
  <1>10. ProcHolds
    BY DEF Init, ProcHolds, Holds
  <1> QED
    BY <1>5, <1>7, <1>8, <1>9, <1>10 DEF IInv, Sound, Init

LEMMA NextInv ==
    ASSUME IInv, [Next]_vars
    PROVE  IInv' /\ Resumes
  <1>0. NoValue \notin Stages /\ NoValue \notin Stages \cup Manifests
    BY SupervisorAssumption
  <1>1. CASE UNCHANGED vars
    BY <1>1 DEF vars, IInv, Sound, ProcHolds, Holds, Resumes
  <1>2. ASSUME NEW p \in Supervisors, SupervisorStep(p)
        PROVE  IInv' /\ Resumes
    <2>1. CASE Step(p)
      BY <1>0, <2>1, StepInv
    <2>2. CASE StepRefused(p)
      BY <1>0, <2>2, StepRefusedInv
    <2>3. CASE Misrouted(p)
      BY <1>0, <2>3, MisroutedInv
    <2>4. CASE Checkpoint(p)
      BY <1>0, <2>4, CheckpointInv
    <2>5. CASE \E m \in Manifests : Approve(p, m)
      BY <1>0, <2>5, ApproveInv
    <2>6. CASE \E f \in UNION {ExecutorFailures(s) : s \in Stages} : Fail(p, f)
      BY <1>0, <2>6, FailInv
    <2>7. CASE Conflict(p)
      BY <2>7, LeaveInv DEF Conflict
    <2>8. CASE Crash(p)
      BY <2>8, LeaveInv DEF Crash
    <2> QED
      BY <1>2, <2>1, <2>2, <2>3, <2>4, <2>5, <2>6, <2>7, <2>8 DEF SupervisorStep, Finish
  <1>3. CASE \E f \in RecordedFailures : RecordFailure(f)
    BY <1>0, <1>3, RecordFailureInv
  <1>4. CASE \E changed \in ContractChanges : RepairActivate(changed)
    BY <1>0, <1>4, RepairActivateInv
  <1>5. CASE PositionStage
    BY <1>0, <1>5, PositionStageInv
  <1>6. CASE Resume
    BY <1>0, <1>6, AuthorizedInv DEF Resume
  <1>7. CASE Abandon
    BY <1>0, <1>7, AuthorizedInv DEF Abandon
  <1> QED
    BY <1>1, <1>2, <1>3, <1>4, <1>5, <1>6, <1>7 DEF Next

(* A stored run stays sound, and whoever holds it current is on its next   *)
(* stage (supervisor.py, step, execute_and_checkpoint, record_failure).    *)
THEOREM Invariance == Spec => []IInv
  <1>1. Init => IInv
    BY InitInv, SupervisorAssumption
  <1>2. IInv /\ [Next]_vars => IInv'
    BY NextInv
  <1> QED
    BY <1>1, <1>2, PTL DEF Spec

(* Checkpoints stand only on checkpoints, and only under the contracts in  *)
(* force (router.py, invalidate_from; runner.py, _activate), and a process *)
(* whose view is current works inside the open iteration of an ACTIVE run  *)
(* (supervisor.py, step): whatever fails, repairs, crashes or interleaves. *)
THEOREM CheckpointsStand == Spec => []CheckpointsHold
  <1>1. IInv => CheckpointsHold
    <2> SUFFICES ASSUME IInv
                 PROVE  CheckpointsHold
      OBVIOUS
    <2>1. RunOK(run) /\ ValidState(run) /\ contract \in [Stages -> Nat] /\ Stands(run, contract)
      BY DEF IInv, Sound
    <2>2. \A p \in Supervisors : Holds(p) => run.disposition = "ACTIVE" /\ run.open
      BY DEF IInv, ProcHolds
    <2>3. TypeOK
      BY <2>1, <2>2 DEF TypeOK, IInv, RunOK, Dispositions
    <2> QED
      BY <2>1, <2>3 DEF CheckpointsHold, CheckpointsClosed, CheckpointsCurrent, Stands
  <1> QED
    BY <1>1, Invariance, PTL

(* An eligible run passed every stage under the contracts in force, and    *)
(* the reviewer approved the manifest bound now (supervisor.py,            *)
(* _checkpoint_reviewer; router.py, invalidate_from): no failure recorded  *)
(* later, and no repair, leaves an approval behind that does not hold.     *)
THEOREM ApprovalIsBound == Spec => []ApprovalBinding
  <1>1. IInv => ApprovalBinding
    BY DEF IInv, Sound, Earned, ApprovalBinding
  <1> QED
    BY <1>1, Invariance, PTL

(* The store accepts the routing of every failure until the run is over    *)
(* (router.py, route_failure and apply_route, against the transitions      *)
(* contracts.py and state.py allow).                                       *)
THEOREM NoFailureIsLost == Spec => []RoutesAccepted
  <1>1. IInv => RoutesAccepted
    <2> SUFFICES ASSUME IInv, run.disposition # "ABANDONED", NEW f
                 PROVE  ValidTransition(run, Routed(run, f))
      BY DEF RoutesAccepted
    <2> PICK n : n = Routed(run, f)
      OBVIOUS
    <2>1. RunOK(run) /\ ValidState(run) /\ NoValue \notin Stages
      BY SupervisorAssumption DEF IInv, Sound
    <2> QED
      BY <2>1, RoutedValid
  <1> QED
    BY <1>1, Invariance, PTL

(* A retry makes the stage current that next_stage then selects            *)
(* (router.py, _active_retry and invalidate_from; supervisor.py, step):    *)
(* whatever an executor reports, and for every failure a caller records of *)
(* a stage the run has reached.  One recorded of a stage still to be       *)
(* reached takes no checkpoint away.                                       *)
THEOREM RetriesResume == Spec => RetryResumesAtOwner
  <1>1. IInv /\ [Next]_vars => [Resumes]_vars
    BY NextInv
  <1>2. RetryResumesAtOwner <=> [][Resumes]_vars
    BY DEF RetryResumesAtOwner, Resumes
  <1> QED
    BY <1>1, <1>2, Invariance, PTL DEF Spec

-----------------------------------------------------------------------------
(***************************************************************************)
(* The commands of the Verifier and of the Tester (ProductChecks), for any *)
(* number of pinned directories, verification commands, browser operations *)
(* and disturbances.                                                       *)
(*                                                                         *)
(* The invariant says what a command holds at each of its steps, at which  *)
(* phase whose command is in progress, what the checks recorded so far say *)
(* of what ran, and how far the application is taken down.                 *)
(***************************************************************************)

(* The descriptors of a finite command: none before its first root and none *)
(* once it is answered; a command that is refused before all roots are open *)
(* has closed them, and the executable is opened last.                      *)
CommandsDescriptors ==
    /\ \A d \in open : d[1] = "command" =>
          /\ command.owner = "command"
          /\ command.step \notin {"idle", "done"}
          /\ command.step \in {"roots", "executable"} => d[2] # Executable
          /\ command.step \in {"record", "close"} => command.root > Roots
    /\ command.step = "execute" \/ (command.step = "executable" /\ command.owner = "command") =>
          command.root > Roots

(* The application's descriptors: those that start opened and has not yet   *)
(* closed, or those of an application that is not ready yet.                *)
AppsDescriptorsHeld ==
    \A d \in open : d[1] = "app" =>
        \/ /\ phase = "start"
           /\ command.step \in {"roots", "execute"} \/ (command.step \in {"record", "close"} /\ command.root > Roots)
        \/ phase = "probe"
        \/ phase = "stop" /\ stop.by # "cleanup"

(* Which command, process and clean-up there is at each phase.              *)
Places ==
    /\ command.owner = "app" <=> phase = "start"
    /\ phase \in {"idle", "request", "bind", "ended"} => command.step = "idle"
    /\ phase = "stop" => command.step \in {"idle", "done"}
    /\ command.step \notin {"record", "close", "done"} => command.stored = 0
    /\ command.step = "record" => command.stored \in 0..1
    /\ phase = "stop" <=> stop.by # "nobody"
    /\ stop.by = "nobody" <=> stop.step = "idle"
    /\ phase # "ended" => result = "none"
    /\ phase \in {"idle", "verify"} => verdict = "none"
    /\ phase \notin {"idle", "verify", "ended"} => verdict = "passed"
    /\ browse.held <=> browse.ready
    /\ phase \in {"idle", "verify", "request", "start", "probe"} => ~browse.held /\ browse.primary = "none"
    /\ phase = "tester" => browse.held
    /\ phase = "stop" => (browse.held <=> stop.by = "cleanup")
    /\ browse.primary = "passed" => browse.held

(* What the sandbox ran and what the Verifier recorded agree as long as     *)
(* every check succeeded.                                                   *)
RecordedIsRun ==
    /\ phase = "idle" => checks = <<>> /\ ran = <<>>
    /\ phase = "verify" =>
          /\ Len(ran) <= Len(checks) + (IF command.step \in {"record", "close", "done"} THEN 1 ELSE 0)
          /\ command.step # "idle" => Len(checks) < Checks
          /\ Passed =>
                IF command.step \in {"record", "close", "done"}
                THEN command.kind = "none" => ran = Append(checks, "none")
                ELSE ran = checks

(* How far the application is taken down.                                   *)
TakenDown ==
    /\ handle.waited => app.state = "exited" /\ (handle.reaped \/ handle.error)
    /\ handle.reaped => handle.waited
    /\ phase \in {"idle", "verify", "request", "start"} => app.state = "none"
    /\ phase \in {"idle", "verify", "request", "start", "probe", "tester"} => ~handle.waited
    /\ phase = "close" /\ browse.held => ~handle.waited
    /\ stop.step \in {"terminate", "grace"} => ~handle.waited
    /\ (stop.step \in {"last", "settle"} \/ (phase = "close" /\ ~browse.held) \/ phase \in {"bind", "ended"})
          /\ ~signals.refused => app.state # "running"
    /\ phase \in {"bind", "ended"} /\ browse.held /\ ~browse.broken => handle.waited /\ ~handle.error

ChecksInv ==
    /\ ResourcesAreOwned
    /\ PassesAreEarned
    /\ CommandsDescriptors
    /\ AppsDescriptorsHeld
    /\ Places
    /\ RecordedIsRun
    /\ TakenDown

Commands ==
    [owner: Owners, root: 1..(Roots + 1), kind: Kinds,
     step: {"idle", "roots", "executable", "execute", "record", "close", "done"},
     answer: {"none", "recorded", "raised"}, stored: 0..2]

(* A refused command keeps what it holds and where it was. *)
LEMMA FailsIs ==
  ASSUME command \in Commands, NEW kind \in Kinds
  PROVE  /\ Fails(kind) \in Commands
         /\ Fails(kind).owner = command.owner /\ Fails(kind).root = command.root
         /\ Fails(kind).stored = command.stored
         /\ Fails(kind).kind = kind /\ Fails(kind).step = "record"
BY DEF Fails, Commands

(* A call starts a command of its own, with its first directory or, for   *)
(* the application, its executable.                                        *)
LEMMA CallIs ==
  ASSUME NEW owner \in Owners, Call(owner)
  PROVE  /\ command' \in Commands
         /\ command'.owner = owner /\ command'.root = 1 /\ command'.stored = 0
         /\ command'.step = (IF owner = "app" THEN "executable" ELSE "roots")
<1>1. PICK step \in {"executable", "roots"} : step = IF owner = "app" THEN "executable" ELSE "roots"
  OBVIOUS
<1>3. command' = [NoCommand EXCEPT !.owner = owner, !.step = step]
  BY <1>1 DEF Call
<1>5. command' = [owner |-> owner, step |-> step, root |-> 1, kind |-> "none", answer |-> "none", stored |-> 0]
  BY <1>3 DEF NoCommand
<1>6. 1 \in 1..(Roots + 1) /\ 0 \in 0..2
  BY CommandAssumption
<1>7. QED BY <1>1, <1>5, <1>6 DEF Commands, Kinds

(* An answered command leaves none. *)
LEMMA NoCommandIs ==
  NoCommand \in Commands /\ NoCommand.owner = "command" /\ NoCommand.step = "idle"
  /\ NoCommand.root = 1 /\ NoCommand.stored = 0
<1>1. 1 \in 1..(Roots + 1) /\ 0 \in 0..2
  BY CommandAssumption
<1>2. QED BY <1>1 DEF NoCommand, Commands, Kinds, Owners

(* The steps of a command, each by what it does to the command and to what *)
(* is open: a directory is opened, or the command is refused and closes    *)
(* what it has.                                                            *)
LEMMA OpenRootIs ==
  ASSUME CommandType, OpenRoot
  PROVE  /\ command' \in Commands
         /\ command'.owner = command.owner /\ command'.stored = command.stored
         /\ \/ /\ command'.step = "roots" /\ command'.root = command.root + 1
               /\ command'.kind = command.kind
               /\ open' = open \cup {<<command.owner, command.root>>}
            \/ /\ command'.step = "record" /\ command'.root = command.root
               /\ command'.kind = "configuration"
               /\ open' = open \ (IF command.owner = "command" THEN OpenRoots ELSE Owned)
<1>0. command \in Commands /\ command.owner \in Owners
  BY DEF CommandType, Commands
<1>1. CASE command.root \notin replaced
  <2>1. PICK n : n = command.root + 1
    OBVIOUS
  <2>2. n \in 1..(Roots + 1)
    BY <2>1, <1>0, CommandAssumption DEF OpenRoot, Commands
  <2>3. command' = [command EXCEPT !.root = n]
    BY <1>1, <2>1 DEF OpenRoot
  <2>4. command.step = "roots" /\ open' = open \cup {<<command.owner, command.root>>}
    BY <1>1 DEF OpenRoot
  <2>5. QED BY <1>0, <2>1, <2>2, <2>3, <2>4 DEF Commands
<1>2. CASE command.root \in replaced
  <2>1. "configuration" \in Kinds
    BY DEF Kinds
  <2>2. /\ command' = Fails("configuration")
        /\ open' = open \ (IF command.owner = "command" THEN OpenRoots ELSE Owned)
    BY <1>2, <1>0 DEF OpenRoot, OnFailedRoot, OnFailedPrepare
  <2>3. QED BY <1>0, <2>1, <2>2, FailsIs
<1>3. QED BY <1>1, <1>2

(* With all directories open the command goes on or is refused. *)
LEMMA RootsOpenIs ==
  ASSUME CommandType, RootsOpen
  PROVE  /\ command' \in Commands
         /\ command'.owner = command.owner /\ command'.stored = command.stored
         /\ command'.root = command.root
         /\ \/ /\ command'.step = (IF command.owner = "app" THEN "execute" ELSE "executable")
               /\ command'.kind = command.kind
               /\ open' = open
            \/ /\ command'.step = "record" /\ command'.kind = "configuration"
               /\ open' = (IF command.owner = "command" THEN open ELSE open \ Owned)
<1>0. command \in Commands
  BY DEF CommandType, Commands
<1>1. CASE /\ command' = [command EXCEPT !.step = IF command.owner = "app" THEN "execute" ELSE "executable"]
           /\ open' = open
  <2>1. PICK step \in {"execute", "executable"} :
           step = IF command.owner = "app" THEN "execute" ELSE "executable"
    OBVIOUS
  <2>2. command' = [command EXCEPT !.step = step] /\ open' = open
    BY <1>1, <2>1
  <2>3. QED BY <1>0, <2>1, <2>2 DEF Commands
<1>2. CASE IF command.owner = "command"
           THEN command' = Fails("configuration") /\ open' = open
           ELSE OnFailedPrepare(Fails("configuration"))
  <2>1. "configuration" \in Kinds
    BY DEF Kinds
  <2>2. QED BY <1>0, <1>2, <2>1, FailsIs DEF OnFailedPrepare
<1>3. QED BY <1>1, <1>2 DEF RootsOpen

(* The executable is opened, or it is not the one that was pinned. *)
LEMMA VerifyExecutableIs ==
  ASSUME CommandType, VerifyExecutable
  PROVE  /\ command' \in Commands
         /\ command'.owner = command.owner /\ command'.stored = command.stored
         /\ command'.root = command.root
         /\ \/ /\ command'.step = (IF command.owner = "app" THEN "roots" ELSE "execute")
               /\ command'.kind = command.kind
               /\ open' = open \cup {<<command.owner, Executable>>}
            \/ /\ command'.step = "record" /\ command'.kind = "configuration"
               /\ open' = open
<1>0. command \in Commands
  BY DEF CommandType, Commands
<1>1. CASE tampered
  <2>1. "configuration" \in Kinds
    BY DEF Kinds
  <2>2. command' = Fails("configuration") /\ open' = open
    BY <1>1 DEF VerifyExecutable
  <2>3. QED BY <1>0, <2>1, <2>2, FailsIs
<1>2. CASE ~tampered
  <2>1. PICK step \in {"roots", "execute"} :
           step = IF command.owner = "app" THEN "roots" ELSE "execute"
    OBVIOUS
  <2>2. command' = [command EXCEPT !.step = step] /\ open' = open \cup {<<command.owner, Executable>>}
    BY <1>2, <2>1 DEF VerifyExecutable
  <2>3. QED BY <1>0, <2>1, <2>2 DEF Commands
<1>3. QED BY <1>1, <1>2

(* A file is stored; the second one, or a failure, ends the recording. *)
LEMMA RecordIs ==
  ASSUME CommandType, Record, command.stored \in 0..1
  PROVE  /\ command' \in Commands
         /\ command'.owner = command.owner /\ command'.root = command.root
         /\ command'.kind = command.kind
         /\ open' = open
         /\ (command'.step = "record" /\ command'.stored = 1) \/ command'.step = "close"
<1>0. command \in Commands /\ command.step = "record" /\ open' = open
  BY DEF CommandType, Commands, Record
<1>1. CASE StoreFile /\ command.stored = 0
  <2>1. PICK answer, step : answer = command.answer /\ step = command.step
    OBVIOUS
  <2>2. command' = [command EXCEPT !.stored = 1, !.answer = answer, !.step = step]
    BY <1>1, <2>1, 0 + 1 = 1 DEF StoreFile
  <2>3. /\ command.owner \in Owners /\ command.root \in 1..(Roots + 1) /\ command.kind \in Kinds
        /\ answer \in {"none", "recorded", "raised"} /\ step = "record" /\ 1 \in 0..2
    BY <1>0, <2>1 DEF Commands
  <2>4. command' = [owner |-> command.owner, root |-> command.root, kind |-> command.kind,
                    step |-> step, answer |-> answer, stored |-> 1]
    BY <1>0, <2>2 DEF Commands
  <2>5. QED BY <1>0, <2>3, <2>4 DEF Commands
<1>2. CASE StoreFile /\ command.stored = 1
  <2>1. command' = [command EXCEPT !.stored = 2, !.answer = "recorded", !.step = "close"]
    BY <1>2, 1 + 1 = 2 DEF StoreFile
  <2>2. /\ command.owner \in Owners /\ command.root \in 1..(Roots + 1) /\ command.kind \in Kinds
        /\ 2 \in 0..2
    BY <1>0 DEF Commands
  <2>3. command' = [owner |-> command.owner, root |-> command.root, kind |-> command.kind,
                    step |-> "close", answer |-> "recorded", stored |-> 2]
    BY <1>0, <2>1 DEF Commands
  <2>4. QED BY <1>0, <2>2, <2>3 DEF Commands
<1>3. CASE command' = [command EXCEPT !.answer = "raised", !.step = "close"]
  BY <1>0, <1>3 DEF Commands
<1>4. QED BY <1>1, <1>2, <1>3 DEF Record

(* The command closes what it was handed. *)
LEMMA CloseIs ==
  ASSUME CommandType, Close
  PROVE  /\ command' \in Commands
         /\ command'.owner = command.owner /\ command'.root = command.root
         /\ command'.kind = command.kind
         /\ command'.step = "done"
         /\ open' = open \ Handed
BY DEF CommandType, Commands, Close

(* The sandbox answers, with a status or a failure. *)
LEMMA ExecuteIs ==
  ASSUME CommandType, Execute(Answers)
  PROVE  /\ command.step = "execute" /\ command.owner = "command"
         /\ command' \in Commands
         /\ command'.owner = command.owner /\ command'.root = command.root
         /\ command'.stored = command.stored
         /\ command'.step = "record"
         /\ open' = open
<1>1. PICK kind \in Kinds : command' = Fails(kind)
  BY DEF Execute, SandboxRuns, Answers, Failures, Kinds, Statuses
<1>2. QED BY <1>1, FailsIs DEF CommandType, Commands, Execute

(* The command, what is open and the world have their types. *)
LEMMA CommandTyped ==
  ASSUME ChecksInv, ChecksNext
  PROVE  CommandType'
<1> USE DEF World, commandVars
<1>0. /\ CommandType /\ command \in Commands /\ open \subseteq Descriptors
      /\ disturbances \in 0..MaxDisturbances
      /\ (command.step = "record" => command.stored \in 0..1)
      /\ (Disturbed \/ Undisturbed => disturbances' \in 0..MaxDisturbances)
  BY CommandAssumption DEF ChecksInv, ResourcesAreOwned, ChecksType, CommandType, Commands, Places,
     Disturbed, Undisturbed
<1>1. ASSUME command' \in Commands, open' \subseteq Descriptors, UNCHANGED World,
             Disturbed \/ Undisturbed
      PROVE  CommandType'
  BY <1>0, <1>1 DEF CommandType, Commands
<1>2. CASE UNCHANGED commandVars
  BY <1>0, <1>1, <1>2 DEF Undisturbed
<1>3. CASE CallCheck \/ CallTool \/ CallProbe \/ CallClose \/ Request
  <2>1. command' = command \/ Call("command") \/ Call("app")
    BY <1>3 DEF CallCheck, CallTool, CallProbe, CallClose, Request
  <2>2. command' \in Commands
    BY <1>0, <2>1, CallIs DEF Owners
  <2>3. open' = open /\ UNCHANGED World /\ (Disturbed \/ Undisturbed)
    BY <1>3 DEF CallCheck, CallTool, CallProbe, CallClose, Request, Skipped, Undisturbed
  <2>4. QED BY <1>0, <1>1, <2>2, <2>3
<1>4. CASE CheckAnswered \/ StartAnswered \/ ProbeAnswered \/ ToolAnswered \/ CloseAnswered
  <2>1. command' = NoCommand \/ command' = command
    BY <1>4 DEF CheckAnswered, StartAnswered, ProbeAnswered, ToolAnswered, CloseAnswered, Free
  <2>2. open' \subseteq open /\ UNCHANGED World /\ Undisturbed
    BY <1>4 DEF CheckAnswered, StartAnswered, ProbeAnswered, ToolAnswered, CloseAnswered, Undisturbed
  <2>3. QED BY <1>0, <1>1, <2>1, <2>2, NoCommandIs
<1>5. CASE StartApplication
  <2>1. command' = NoCommand \/ \E kind \in Kinds : command' = Fails(kind)
    BY <1>5 DEF StartApplication, Free, Failures, Kinds
  <2>2. command' \in Commands
    BY <1>0, <2>1, FailsIs, NoCommandIs
  <2>3. open' = open /\ UNCHANGED World /\ (Disturbed \/ Undisturbed)
    BY <1>5 DEF StartApplication
  <2>4. QED BY <1>0, <1>1, <2>2, <2>3
<1>6. CASE Terminate \/ Grace \/ Kill \/ Last
  <2>1. command' = command /\ open' = open /\ UNCHANGED World /\ (Disturbed \/ Undisturbed)
    BY <1>6 DEF Terminate, Grace, Kill, Last, Stay, WaitReturns, WaitTimesOut, WaitFails, Undisturbed
  <2>2. QED BY <1>0, <1>1, <2>1
<1>7. CASE Settle
  <2>1. command' = NoCommand /\ open' \subseteq open /\ UNCHANGED World /\ (Disturbed \/ Undisturbed)
    BY <1>7 DEF Settle, Stopped, CleanedUp, GivenUp
  <2>2. QED BY <1>0, <1>1, <2>1, NoCommandIs
<1>8. CASE CommandStep
  <2>1. CASE OpenRoot
    <3>1. <<command.owner, command.root>> \in Descriptors
      BY <1>0, <2>1, CommandAssumption DEF OpenRoot, Commands, Descriptors, Executable
    <3>2. command' \in Commands /\ open' \subseteq Descriptors
      BY <1>0, <2>1, <3>1, OpenRootIs
    <3>3. QED BY <1>1, <2>1, <3>2 DEF OpenRoot, Undisturbed
  <2>2. CASE RootsOpen
    BY <1>0, <1>1, <2>2, RootsOpenIs DEF RootsOpen, Undisturbed
  <2>3. CASE VerifyExecutable
    <3>1. <<command.owner, Executable>> \in Descriptors
      BY <1>0, CommandAssumption DEF Commands, Descriptors, Executable
    <3>2. command' \in Commands /\ open' \subseteq Descriptors
      BY <1>0, <2>3, <3>1, VerifyExecutableIs
    <3>3. QED BY <1>1, <2>3, <3>2 DEF VerifyExecutable, Undisturbed
  <2>4. CASE Record
    <3>1. command' \in Commands /\ open' = open
      BY <1>0, <2>4, RecordIs DEF Record
    <3>2. QED BY <1>0, <1>1, <2>4, <3>1 DEF Record
  <2>5. CASE Close
    BY <1>0, <1>1, <2>5, CloseIs DEF Close, Undisturbed
  <2>6. QED BY <1>8, <2>1, <2>2, <2>3, <2>4, <2>5 DEF CommandStep
<1>9. CASE Execute(Answers)
  BY <1>0, <1>1, <1>9, ExecuteIs DEF Execute, SandboxRuns
<1>10. CASE WorldChanges
  BY <1>0, <1>10 DEF WorldChanges, Replace, CommandType, Commands
<1>11. QED
  BY <1>2, <1>3, <1>4, <1>5, <1>6, <1>7, <1>8, <1>9, <1>10
  DEF ChecksNext, Program, BeginVerification, Verified, TesterReports, Bind, CommandGoesOn,
      AppServes, AppExits, DeadlinePasses

(* The phase, the verdict and the result, the checks and the runs. *)
LEMMA StagesTyped ==
  ASSUME ChecksInv, ChecksNext
  PROVE  /\ (phase \in Phases)'
         /\ (verdict \in {"none", "passed", "failed", "raised"})'
         /\ (result \in {"none", "skipped", "ambiguity", "passed", "product", "orchestration"})'
<1>0. /\ phase \in Phases /\ verdict \in {"none", "passed", "failed", "raised"}
      /\ result \in {"none", "skipped", "ambiguity", "passed", "product", "orchestration"}
      /\ browse.primary \in {"none", "passed", "product", "orchestration"}
      /\ (phase = "bind" => verdict = "passed")
  BY DEF ChecksInv, ResourcesAreOwned, ChecksType, Places
<1>1. phase' \in Phases
  BY <1>0 DEF ChecksNext, Program, Phases, BeginVerification, CallCheck, CheckAnswered, Verified, Request,
     Skipped, StartApplication, StartAnswered, StartFails, CallProbe, ProbeAnswered, CallTool, ToolAnswered,
     TesterReports, CallClose, CloseAnswered, AfterClose, Terminate, Grace, Kill, Last, Stay, Settle, Stopped,
     CleanedUp, GivenUp, Bind, CommandGoesOn, AppServes, AppExits, DeadlinePasses, WorldChanges
<1>2. verdict' \in {"none", "passed", "failed", "raised"}
  BY <1>0 DEF ChecksNext, Program, verifyVars, BeginVerification, CallCheck, CheckAnswered, Verified, Request,
     StartApplication, StartAnswered, CallProbe, ProbeAnswered, CallTool, ToolAnswered,
     TesterReports, CallClose, CloseAnswered, Terminate, Grace, Kill, Last, Settle,
     Bind, CommandGoesOn, AppServes, AppExits, DeadlinePasses, WorldChanges
<1>3. result' \in {"none", "skipped", "ambiguity", "passed", "product", "orchestration"}
  BY <1>0 DEF ChecksNext, Program, BeginVerification, CallCheck, CheckAnswered, Verified, Request,
     Skipped, StartApplication, StartAnswered, CallProbe, ProbeAnswered, CallTool, ToolAnswered,
     TesterReports, CallClose, CloseAnswered, Terminate, Grace, Kill, Last, Settle,
     Bind, CommandGoesOn, AppServes, AppExits, DeadlinePasses, WorldChanges
<1>4. QED BY <1>1, <1>2, <1>3

(* The checks recorded and the commands that ran, as long as the policy's. *)
LEMMA ChecksTyped ==
  ASSUME ChecksInv, ChecksNext
  PROVE  /\ (checks \in Seq(Kinds) /\ Len(checks) <= Checks)'
         /\ (ran \in Seq(Kinds) /\ Len(ran) <= Checks)'
<1>0. /\ checks \in Seq(Kinds) /\ Len(checks) \in Nat /\ Len(checks) <= Checks
      /\ ran \in Seq(Kinds) /\ Len(ran) \in Nat /\ Len(ran) <= Checks
      /\ CommandType
  BY DEF ChecksInv, ResourcesAreOwned, ChecksType
<1>1. CASE CheckAnswered /\ Result
  <2>1. PICK kind \in Kinds : kind = command.kind
    BY <1>0 DEF CommandType
  <2>2. checks' = Append(checks, kind) /\ ran' = ran
    BY <1>1, <2>1 DEF CheckAnswered
  <2>3. Len(checks) < Checks
    BY <1>1 DEF ChecksInv, RecordedIsRun, CheckAnswered, Answered
  <2>4. QED BY <1>0, <2>2, <2>3, ChecksAssumption
<1>2. CASE Execute(Answers) /\ phase = "verify" /\ CommandGoesOn
  <2>1. command.step = "execute" /\ command'.kind \in Kinds
    BY <1>0, <1>2, ExecuteIs DEF Commands
  <2>2. Len(ran) < Checks
    BY <1>0, <1>2, <2>1, ChecksAssumption DEF ChecksInv, RecordedIsRun
  <2>3. PICK kind \in Kinds : kind = command'.kind
    BY <2>1
  <2>4. checks' = checks /\ (ran' = Append(ran, kind) \/ ran' = ran)
    BY <1>2, <2>3 DEF CommandGoesOn
  <2>5. QED BY <1>0, <2>2, <2>4, ChecksAssumption
<1>3. CASE UNCHANGED <<checks, ran>>
  BY <1>0, <1>3
<1>4. QED
  BY <1>1, <1>2, <1>3
  DEF ChecksNext, Program, verifyVars, BeginVerification, CallCheck, CheckAnswered, Verified, Request,
      StartApplication, StartAnswered, CallProbe, ProbeAnswered, CallTool, ToolAnswered,
      TesterReports, CallClose, CloseAnswered, Terminate, Grace, Kill, Last, Settle,
      Bind, CommandGoesOn, AppServes, AppExits, DeadlinePasses, WorldChanges

Apps == [state: {"none", "running", "exited"}, status: Statuses, serving: BOOLEAN]
Handles == [waited: BOOLEAN, reaped: BOOLEAN, error: BOOLEAN]
Browses ==
    [held: BOOLEAN, ready: BOOLEAN, evidence: BOOLEAN, broken: BOOLEAN,
     calls: 0..MaxCalls, allowed: SUBSET {"goto", "close"},
     primary: {"none", "passed", "product", "orchestration"}]

(* What a signal, a wait and the application itself may make of it. *)
LEMMA AppIs ==
  ASSUME app \in Apps, ChecksNext
  PROVE  /\ app' \in Apps
         /\ \/ app' = app
            \/ StartApplication /\ app'.state \in {"running", "exited"}
            \/ app.state = "running" /\ app'.state = "exited"
            \/ AppServes /\ app'.state = "running"
<1>1. CASE app' = app
  BY <1>1
<1>2. CASE AppServes
  BY <1>2 DEF AppServes, Apps
<1>3. ASSUME NEW state \in {"running", "exited"}, app' = [app EXCEPT !.state = state]
      PROVE  app' \in Apps /\ app'.state = state
  BY <1>3 DEF Apps
<1>4. ASSUME NEW status \in Statuses, app.state = "running",
             app' = [app EXCEPT !.state = "exited", !.status = status]
      PROVE  app' \in Apps /\ app'.state = "exited"
  BY <1>4 DEF Apps
<1>5. \/ app' = app
      \/ AppServes
      \/ StartApplication /\ \E state \in {"running", "exited"} : app' = [app EXCEPT !.state = state]
      \/ app.state = "running" /\ \E status \in Statuses : app' = [app EXCEPT !.state = "exited", !.status = status]
  <2>1. CASE StartApplication
    BY <2>1 DEF StartApplication
  <2>2. CASE Terminate
    BY <2>2 DEF Terminate
  <2>3. CASE Kill
    BY <2>3 DEF Kill, Statuses
  <2>4. CASE AppServes \/ AppExits
    BY <2>4 DEF AppExits
  <2>5. QED
    BY <2>1, <2>2, <2>3, <2>4
    DEF ChecksNext, Program, appVars, BeginVerification, CallCheck, CheckAnswered, Verified, Request,
      StartAnswered, CallProbe, ProbeAnswered, CallTool, ToolAnswered,
      TesterReports, CallClose, CloseAnswered, Grace, Last, Settle,
      Bind, CommandGoesOn, DeadlinePasses, WorldChanges
<1>6. app.state \in {"none", "running", "exited"}
  BY DEF Apps
<1>7. CASE StartApplication /\ \E state \in {"running", "exited"} : app' = [app EXCEPT !.state = state]
  BY <1>3, <1>6, <1>7
<1>8. CASE app.state = "running" /\ \E status \in Statuses : app' = [app EXCEPT !.state = "exited", !.status = status]
  BY <1>4, <1>8
<1>9. QED BY <1>1, <1>2, <1>5, <1>7, <1>8

(* Only a wait changes the handle, and what it leaves is this. *)
LEMMA HandleIs ==
  ASSUME handle \in Handles, ChecksNext
  PROVE  /\ handle' \in Handles
         /\ \/ handle' = handle
            \/ /\ stop.step \in {"grace", "last"}
               /\ \/ handle'.waited = handle.waited /\ handle'.reaped = handle.reaped
                     /\ (handle.error => handle'.error)
                  \/ app.state = "exited" /\ handle'.waited /\ (handle'.reaped \/ handle'.error)
<1>1. CASE handle' = handle
  BY <1>1
<1>2. CASE Grace \/ Last
  <2>1. stop.step \in {"grace", "last"} /\ (WaitReturns \/ WaitTimesOut \/ WaitFails)
    BY <1>2 DEF Grace, Last
  <2>2. CASE WaitReturns
    BY <2>1, <2>2 DEF WaitReturns, Handles
  <2>3. CASE WaitTimesOut \/ WaitFails
    BY <2>1, <2>3 DEF WaitTimesOut, WaitFails, Handles
  <2>4. QED BY <2>1, <2>2, <2>3
<1>3. QED
  BY <1>1, <1>2
  DEF ChecksNext, Program, appVars, BeginVerification, CallCheck, CheckAnswered, Verified, Request,
      StartApplication, StartAnswered, CallProbe, ProbeAnswered, CallTool, ToolAnswered,
      TesterReports, CallClose, CloseAnswered, Terminate, Kill, Settle,
      Bind, CommandGoesOn, AppServes, AppExits, DeadlinePasses, WorldChanges

Stops == [by: {"nobody", "start", "ready", "cleanup"},
          step: {"idle", "terminate", "grace", "kill", "last", "settle"}]

(* stop_and_reap is at one of its steps. *)
LEMMA StopTyped ==
  ASSUME stop \in Stops, ChecksNext
  PROVE  stop' \in Stops
<1>1. CASE stop' = stop
  BY <1>1
<1>2. CASE stop' = [by |-> "nobody", step |-> "idle"] \/ \E c \in {"start", "ready", "cleanup"} : StopFor(c)
  BY <1>2 DEF StopFor, Stops
<1>3. CASE \E step \in {"grace", "kill", "last", "settle"} : To(step)
  BY <1>3 DEF To, Stops
<1>4. QED
  BY <1>1, <1>2, <1>3
  DEF ChecksNext, Program, appVars, BeginVerification, CallCheck, CheckAnswered, Verified, Request,
      StartApplication, StartAnswered, CallProbe, ProbeAnswered, CallTool, ToolAnswered,
      TesterReports, CallClose, CloseAnswered, AfterClose, Terminate, Grace, Kill, Last, Settle, Stopped,
      Bind, CommandGoesOn, AppServes, AppExits, DeadlinePasses, WorldChanges

Signals == [refused: BOOLEAN, stray: BOOLEAN]

(* A signal is stray only when the leader was waited for. *)
LEMMA SignalsAre ==
  ASSUME signals \in Signals, handle \in Handles, ChecksNext
  PROVE  /\ signals' \in Signals
         /\ signals.refused => signals'.refused
         /\ signals'.stray => signals.stray \/ (Terminate /\ handle.waited)
<1>1. CASE signals' = signals
  BY <1>1
<1>2. CASE Terminate \/ (Kill /\ ~handle.waited /\ Signal)
  <2>1. PICK stray \in BOOLEAN : stray = (signals.stray \/ handle.waited)
    BY DEF Signals, Handles
  <2>2. signals' = [signals EXCEPT !.stray = stray]
    BY <1>2, <2>1 DEF Terminate, Signal
  <2>3. QED BY <1>2, <2>1, <2>2 DEF Signals
<1>3. CASE signals' = [signals EXCEPT !.refused = TRUE]
  BY <1>3 DEF Signals
<1>4. QED
  BY <1>1, <1>2, <1>3
  DEF ChecksNext, Program, appVars, BeginVerification, CallCheck, CheckAnswered, Verified, Request,
      StartApplication, StartAnswered, CallProbe, ProbeAnswered, CallTool, ToolAnswered,
      TesterReports, CallClose, CloseAnswered, Grace, Kill, Last, Settle,
      Bind, CommandGoesOn, AppServes, AppExits, DeadlinePasses, WorldChanges

(* The deadline has passed or not. *)
LEMMA ExpiredTyped ==
  ASSUME expired \in BOOLEAN, ChecksNext
  PROVE  expired' \in BOOLEAN
BY DEF ChecksNext, Program, appVars, BeginVerification, CallCheck, CheckAnswered, Verified, Request,
      StartApplication, StartAnswered, CallProbe, ProbeAnswered, CallTool, ToolAnswered,
      TesterReports, CallClose, CloseAnswered, Terminate, Grace, Kill, Last, Settle,
      Bind, CommandGoesOn, AppServes, AppExits, DeadlinePasses, WorldChanges

(* What the steps of the Tester's run leave of its locals: what it holds    *)
(* and is ready for, whether the clean-up failed, and what it would report. *)
LEMMA BrowseIs ==
  ASSUME browse \in Browses, ChecksNext
  PROVE  /\ browse' \in Browses
         /\ \/ browse' = browse
            \/ /\ Request \/ CallTool \/ CloseAnswered \/ CallClose \/ ProbeAnswered \/ Settle
               /\ browse'.held = browse.held /\ browse'.ready = browse.ready
               /\ browse'.primary = browse.primary
            \/ /\ ToolAnswered \/ StartAnswered \/ Settle
               /\ browse'.held = browse.held /\ browse'.ready = browse.ready
               /\ browse'.primary \in {browse.primary, "orchestration"}
            \/ TesterReports /\ browse'.held = browse.held /\ browse'.ready = browse.ready
            \/ ProbeAnswered /\ Success /\ browse'.held /\ browse'.ready /\ browse'.primary = browse.primary
<1>0. /\ browse.held \in BOOLEAN /\ browse.ready \in BOOLEAN /\ browse.evidence \in BOOLEAN
      /\ browse.broken \in BOOLEAN /\ browse.calls \in 0..MaxCalls
      /\ browse.allowed \in SUBSET {"goto", "close"}
      /\ browse.primary \in {"none", "passed", "product", "orchestration"}
  BY DEF Browses
<1>1. CASE browse' = browse
  BY <1>1
<1>2. CASE Request
  BY <1>1, <1>2 DEF Request, Policies, Browses
<1>3. CASE StartAnswered
  <2>1. PICK e \in BOOLEAN : e = (browse.evidence \/ Result)
    BY <1>0
  <2>2. browse' = [browse EXCEPT !.primary = "orchestration", !.evidence = e]
    BY <1>3, <2>1 DEF StartAnswered, StartFails
  <2>3. QED BY <1>3, <2>2 DEF Browses
<1>4. CASE ProbeAnswered
  <2>1. CASE Success
    <3>1. browse' = [browse EXCEPT !.evidence = TRUE, !.ready = TRUE, !.held = TRUE]
      BY <1>4, <2>1 DEF ProbeAnswered
    <3>2. QED BY <1>4, <2>1, <3>1 DEF Browses
  <2>2. CASE ~Success
    <3>1. PICK e \in BOOLEAN : e = Captured
      BY DEF Captured
    <3>2. browse' = [browse EXCEPT !.evidence = e]
      BY <1>4, <2>2, <3>1 DEF ProbeAnswered
    <3>3. QED BY <1>4, <3>2 DEF Browses
  <2>3. QED BY <2>1, <2>2
<1>5. CASE CallTool
  <2>1. PICK n : n = browse.calls + 1
    OBVIOUS
  <2>2. n \in 0..MaxCalls
    BY <1>0, <1>5, <2>1, ChecksAssumption DEF CallTool
  <2>3. browse' = [browse EXCEPT !.calls = n]
    BY <1>5, <2>1 DEF CallTool
  <2>4. QED BY <1>5, <2>2, <2>3 DEF Browses
<1>6. CASE ToolAnswered
  <2>1. PICK e \in BOOLEAN : e = Captured
    BY DEF Captured
  <2>2. PICK p \in {browse.primary, "orchestration"} : p = IF Success THEN browse.primary ELSE "orchestration"
    OBVIOUS
  <2>3. browse' = [browse EXCEPT !.evidence = e, !.primary = p]
    BY <1>6, <2>1, <2>2 DEF ToolAnswered
  <2>4. QED BY <1>0, <1>6, <2>2, <2>3 DEF Browses
<1>7. CASE TesterReports
  BY <1>7 DEF TesterReports, Reports, Browses
<1>8. ASSUME NEW ok \in BOOLEAN, AfterClose(ok), CallClose \/ CloseAnswered
      PROVE  /\ browse' \in Browses
             /\ browse'.held = browse.held /\ browse'.ready = browse.ready
             /\ browse'.primary = browse.primary
  <2>1. PICK e \in BOOLEAN, b \in BOOLEAN : e = Captured /\ b = ~ok
    BY <1>8 DEF Captured
  <2>2. browse' = [browse EXCEPT !.broken = b, !.evidence = e]
    BY <1>8, <2>1 DEF AfterClose
  <2>3. QED BY <2>2 DEF Browses
<1>9. CASE CallClose
  BY <1>1, <1>8, <1>9 DEF CallClose
<1>10. CASE CloseAnswered
  <2>1. PICK ok \in BOOLEAN : ok = Success
    BY DEF Success, Result, Succeeded
  <2>2. AfterClose(ok)
    BY <1>10, <2>1 DEF CloseAnswered
  <2>3. QED BY <1>8, <1>10, <2>2
<1>11. CASE Settle
  <2>1. ASSUME NEW shown \in BOOLEAN, GivenUp(shown)
        PROVE  /\ browse' \in Browses
               /\ browse'.held = browse.held /\ browse'.ready = browse.ready
               /\ browse'.primary = "orchestration"
    <3>1. PICK e \in BOOLEAN : e = (browse.evidence \/ shown)
      BY <1>0
    <3>2. browse' = [browse EXCEPT !.primary = "orchestration", !.evidence = e]
      BY <2>1, <3>1 DEF GivenUp, StartFails
    <3>3. QED BY <3>2 DEF Browses
  <2>2. ASSUME NEW returned \in BOOLEAN, CleanedUp(returned)
        PROVE  /\ browse' \in Browses
               /\ browse'.held = browse.held /\ browse'.ready = browse.ready
               /\ browse'.primary = browse.primary
    <3>1. PICK e \in BOOLEAN, b \in BOOLEAN : e = (browse.evidence \/ returned) /\ b = (browse.broken \/ ~returned)
      BY <1>0
    <3>2. browse' = [browse EXCEPT !.broken = b, !.evidence = e]
      BY <2>2, <3>1 DEF CleanedUp
    <3>3. QED BY <3>2 DEF Browses
  <2>3. PICK returned \in BOOLEAN : Stopped(returned)
    <3>1. PICK returned \in BOOLEAN : returned = (handle.waited /\ ~handle.error)
      OBVIOUS
    <3>2. QED BY <1>11, <3>1 DEF Settle
  <2>4. QED BY <1>11, <2>1, <2>2, <2>3 DEF Stopped
<1>12. QED
  BY <1>1, <1>2, <1>3, <1>4, <1>5, <1>6, <1>7, <1>9, <1>10, <1>11
  DEF ChecksNext, Program, BeginVerification, CallCheck, CheckAnswered, Verified,
      StartApplication, CallProbe, Terminate, Grace, Kill, Last, Stay,
      Bind, CommandGoesOn, AppServes, AppExits, DeadlinePasses, WorldChanges

(* Every step keeps the types. *)
LEMMA ChecksTypeStep ==
  ASSUME ChecksInv, ChecksNext
  PROVE  ChecksType'
<1>1. app \in Apps /\ handle \in Handles /\ browse \in Browses /\ stop \in Stops /\ signals \in Signals
      /\ expired \in BOOLEAN
  BY DEF ChecksInv, ResourcesAreOwned, ChecksType, Apps, Handles, Browses, Stops, Signals
<1>2. app' \in Apps /\ handle' \in Handles /\ browse' \in Browses /\ stop' \in Stops /\ signals' \in Signals
      /\ expired' \in BOOLEAN
  BY <1>1, AppIs, HandleIs, BrowseIs, StopTyped, SignalsAre, ExpiredTyped
<1>3. QED
  BY <1>2, CommandTyped, StagesTyped, ChecksTyped DEF ChecksType, Apps, Handles, Browses, Stops, Signals

(* Every step keeps what is known of the descriptors of a command. *)
LEMMA CommandsDescriptorsStep ==
  ASSUME ChecksInv, ChecksNext
  PROVE  CommandsDescriptors'
<1>0. /\ CommandType /\ command \in Commands /\ CommandsDescriptors /\ Places
  BY DEF ChecksInv, ResourcesAreOwned, ChecksType, CommandType, Commands
<1>1. CASE UNCHANGED <<command, open>>
  BY <1>0, <1>1 DEF CommandsDescriptors
<1>2. ASSUME command.step \in {"idle", "done"} \/ command.owner = "app", open' \subseteq open,
             command' = NoCommand \/ Call("command") \/ Call("app")
      PROVE  CommandsDescriptors'
  BY <1>0, <1>2, NoCommandIs, CallIs DEF CommandsDescriptors, Owners
<1>3. CASE CallCheck \/ CallTool \/ CallProbe \/ CallClose \/ Request
  BY <1>0, <1>1, <1>2, <1>3 DEF CallCheck, CallTool, CallProbe, CallClose, Request, AtRest, Places
<1>4. CASE CheckAnswered \/ StartAnswered \/ ToolAnswered \/ CloseAnswered \/ ProbeAnswered
  <2>1. CASE UNCHANGED <<command, open>>
    BY <1>1, <2>1
  <2>2. CASE command' = NoCommand
    <3>1. command.step = "done" /\ open' \subseteq open
      BY <1>4 DEF CheckAnswered, StartAnswered, ToolAnswered, CloseAnswered, ProbeAnswered, Answered
    <3>2. QED BY <1>2, <2>2, <3>1
  <2>3. QED
    BY <1>4, <2>1, <2>2 DEF CheckAnswered, StartAnswered, ToolAnswered, CloseAnswered, ProbeAnswered, Free
<1>5. CASE StartApplication
  <2>1. command.owner = "app" /\ open' = open
    BY <1>0, <1>5 DEF StartApplication, Places
  <2>2. CASE command' = NoCommand
    BY <1>2, <2>1, <2>2
  <2>3. ASSUME NEW kind \in Kinds, command' = Fails(kind)
        PROVE  CommandsDescriptors'
    BY <1>0, <2>1, <2>3, FailsIs DEF CommandsDescriptors
  <2>4. QED BY <1>5, <2>2, <2>3 DEF StartApplication, Free, Failures, Kinds
<1>6. CASE Settle
  <2>1. command' = NoCommand /\ open' \subseteq open
    BY <1>6 DEF Settle, Stopped, CleanedUp, GivenUp
  <2>2. command.step \in {"idle", "done"}
    BY <1>0, <1>6 DEF Settle, Places
  <2>3. QED BY <1>2, <2>1, <2>2
<1>7. CASE OpenRoot
  BY <1>0, <1>7, OpenRootIs, CommandAssumption DEF CommandsDescriptors, OpenRoot, OpenRoots, Owned, Commands, Executable
<1>8. CASE RootsOpen
  BY <1>0, <1>8, RootsOpenIs, CommandAssumption DEF CommandsDescriptors, RootsOpen, Owned, Commands
<1>9. CASE VerifyExecutable
  BY <1>0, <1>9, VerifyExecutableIs DEF CommandsDescriptors, VerifyExecutable, Commands, Owners
<1>10. CASE Record
  BY <1>0, <1>10, RecordIs DEF CommandsDescriptors, Record, Places
<1>11. CASE Close
  BY <1>0, <1>11, CloseIs DEF CommandsDescriptors, Close, Handed, Owned
<1>12. CASE Execute(Answers)
  BY <1>0, <1>12, ExecuteIs DEF CommandsDescriptors
<1>13. QED
  BY <1>1, <1>3, <1>4, <1>5, <1>6, <1>7, <1>8, <1>9, <1>10, <1>11, <1>12
  DEF ChecksNext, Program, commandVars, BeginVerification, Verified, TesterReports, Terminate, Grace, Kill, Last,
      Stay, Bind, CommandGoesOn, CommandStep, AppServes, AppExits, DeadlinePasses, WorldChanges, Replace

(* Every step keeps what is known of the descriptors of the application. *)
LEMMA AppsDescriptorsStep ==
  ASSUME ChecksInv, ChecksNext
  PROVE  AppsDescriptorsHeld'
<1>0. /\ CommandType /\ command \in Commands /\ AppsDescriptorsHeld /\ Places /\ phase \in Phases
  BY DEF ChecksInv, ResourcesAreOwned, ChecksType, CommandType, Commands
<1>1. CASE UNCHANGED <<command, open, phase, stop>>
  BY <1>0, <1>1 DEF AppsDescriptorsHeld
<1>2. ASSUME phase \notin {"start", "probe", "stop"}, open' \subseteq open
      PROVE  AppsDescriptorsHeld'
  BY <1>0, <1>2 DEF AppsDescriptorsHeld
<1>3. CASE BeginVerification \/ Verified \/ CallCheck \/ CheckAnswered \/ Request \/ CallTool \/ ToolAnswered
           \/ TesterReports \/ CallClose \/ CloseAnswered \/ Bind
  BY <1>2, <1>3 DEF BeginVerification, Verified, CallCheck, CheckAnswered, Request, CallTool, ToolAnswered,
     TesterReports, CallClose, CloseAnswered, Bind, commandVars
<1>4. CASE StartApplication
  <2>1. CASE phase' = "probe" \/ (phase' = "stop" /\ StopFor("start"))
    BY <2>1 DEF AppsDescriptorsHeld, StopFor
  <2>2. ASSUME NEW kind \in Kinds, command' = Fails(kind), phase' = phase
        PROVE  AppsDescriptorsHeld'
    <3>1. phase = "start" /\ command.step = "execute" /\ open' = open /\ command.root > Roots
      BY <1>4 DEF StartApplication, ChecksInv, CommandsDescriptors
    <3>2. QED BY <1>0, <2>2, <3>1, FailsIs DEF AppsDescriptorsHeld
  <2>3. QED BY <1>4, <2>1, <2>2 DEF StartApplication, Failures, Kinds
<1>5. CASE StartAnswered
  BY <1>0, <1>5 DEF StartAnswered, Answered, AppsDescriptorsHeld
<1>6. CASE CallProbe
  BY <1>6 DEF CallProbe, AppsDescriptorsHeld, StopFor
<1>7. CASE ProbeAnswered
  BY <1>7 DEF ProbeAnswered, AppsDescriptorsHeld, StopFor, AppsDescriptors
<1>8. CASE Terminate \/ Grace \/ Kill \/ Last
  <2>1. open' = open /\ phase' = phase /\ command' = command
    BY <1>8 DEF Terminate, Grace, Kill, Last, Stay
  <2>2. \E step \in {"grace", "kill", "last", "settle"} : stop' = [stop EXCEPT !.step = step]
    BY <1>8 DEF Terminate, Grace, Kill, Last, To
  <2>3. stop \in Stops
    BY DEF ChecksInv, ResourcesAreOwned, ChecksType, Stops
  <2>4. stop'.by = stop.by
    BY <2>2, <2>3 DEF Stops
  <2>5. QED BY <1>0, <2>1, <2>4 DEF AppsDescriptorsHeld
<1>9. CASE Settle
  <2>1. phase = "stop"
    BY <1>0, <1>9 DEF Settle, Places
  <2>2. CASE stop.by = "cleanup" /\ open' = open
    BY <1>0, <2>1, <2>2 DEF AppsDescriptorsHeld
  <2>3. CASE open' = open \ AppsDescriptors
    BY <2>3 DEF AppsDescriptorsHeld, AppsDescriptors
  <2>4. QED BY <1>9, <2>2, <2>3 DEF Settle, Stopped, CleanedUp, GivenUp
<1>10. CASE CommandGoesOn
  <2>1. phase' = phase /\ stop' = stop
    BY <1>10 DEF CommandGoesOn, appVars
  <2>2. CASE OpenRoot
    BY <1>0, <2>1, <2>2, OpenRootIs DEF AppsDescriptorsHeld, OpenRoot, Owned, Places, Commands, Owners
  <2>3. CASE RootsOpen
    BY <1>0, <2>1, <2>3, RootsOpenIs DEF AppsDescriptorsHeld, RootsOpen, Owned, Places, Commands, Owners
  <2>4. CASE VerifyExecutable
    BY <1>0, <2>1, <2>4, VerifyExecutableIs DEF AppsDescriptorsHeld, VerifyExecutable, Places, Commands, Owners
  <2>5. CASE Record
    BY <1>0, <2>1, <2>5, RecordIs DEF AppsDescriptorsHeld, Record, Places
  <2>6. CASE Close
    BY <1>0, <2>1, <2>6, CloseIs DEF AppsDescriptorsHeld, Close, Handed, Owned, Places
  <2>7. CASE Execute(Answers)
    BY <1>0, <2>1, <2>7, ExecuteIs DEF AppsDescriptorsHeld, Places
  <2>8. QED BY <1>10, <2>2, <2>3, <2>4, <2>5, <2>6, <2>7 DEF CommandGoesOn, CommandStep
<1>11. QED
  BY <1>1, <1>3, <1>4, <1>5, <1>6, <1>7, <1>8, <1>9, <1>10
  DEF ChecksNext, Program, commandVars, appVars, AppServes, AppExits, DeadlinePasses, WorldChanges, Replace

(* A command that was refused is no run, and its check is no success: as   *)
(* long as all succeed, each run has its check.                            *)
LEMMA RecordedIsRunStep ==
  ASSUME ChecksInv, ChecksNext
  PROVE  RecordedIsRun'
<1>0. /\ CommandType /\ command \in Commands /\ RecordedIsRun /\ Places
      /\ checks \in Seq(Kinds) /\ ran \in Seq(Kinds) /\ Len(checks) \in Nat /\ Len(ran) \in Nat
  BY DEF ChecksInv, ResourcesAreOwned, ChecksType, CommandType, Commands
<1>1. CASE UNCHANGED <<command, checks, ran, phase>>
  BY <1>0, <1>1 DEF RecordedIsRun, Passed, Succeeded
<1>2. CASE phase' \notin {"idle", "verify"}
  BY <1>2 DEF RecordedIsRun
<1>3. CASE BeginVerification
  <2>1. checks = <<>> /\ ran = <<>> /\ command.step = "idle" /\ UNCHANGED <<command, checks, ran>>
    BY <1>0, <1>3 DEF BeginVerification, RecordedIsRun, Places, commandVars
  <2>2. QED BY <1>2, <1>3, <2>1 DEF RecordedIsRun, BeginVerification
<1>4. CASE CallCheck
  <2>1. /\ UNCHANGED <<checks, ran, phase>> /\ phase = "verify" /\ command.step = "idle"
        /\ Len(checks) < Checks
    BY <1>4 DEF CallCheck, AtRest, verifyVars
  <2>2. command'.step = "roots"
    BY <1>4, CallIs DEF CallCheck, Owners
  <2>3. Passed' = Passed
    BY <2>1 DEF Passed, Succeeded
  <2>4. QED BY <1>0, <2>1, <2>2, <2>3 DEF RecordedIsRun
<1>5. CASE CheckAnswered /\ Result
  <2>1. PICK kind \in Kinds : kind = command.kind
    BY <1>0 DEF Commands
  <2>2. /\ checks' = Append(checks, kind) /\ ran' = ran /\ command' = NoCommand /\ phase = "verify"
        /\ command.step = "done"
    BY <1>5, <2>1 DEF CheckAnswered, Answered, Free
  <2>3. Len(checks') = Len(checks) + 1
    BY <1>0, <2>2
  <2>4. ASSUME Passed' PROVE ran' = checks'
    <3>1. \A i \in 1..Len(checks) : checks'[i] = checks[i]
      BY <1>0, <2>2
    <3>2. Passed
      BY <1>0, <2>2, <2>3, <2>4, <3>1 DEF Passed, Succeeded
    <3>3. checks'[Len(checks) + 1] = kind
      BY <1>0, <2>2
    <3>4. kind = "none"
      BY <1>0, <2>2, <2>3, <2>4, <3>3 DEF Passed, Succeeded
    <3>5. ran = Append(checks, "none")
      BY <1>0, <2>1, <2>2, <3>2, <3>4 DEF RecordedIsRun
    <3>6. QED BY <2>2, <3>4, <3>5
  <2>5. Len(ran) <= Len(checks) + 1
    BY <1>0, <2>2 DEF RecordedIsRun
  <2>6. phase' = "verify"
    BY <1>5, <2>2 DEF CheckAnswered
  <2>7. QED BY <2>2, <2>3, <2>4, <2>5, <2>6, NoCommandIs DEF RecordedIsRun
<1>6. CASE phase = "verify" /\ CommandGoesOn
  <2>0. phase' = phase /\ checks' = checks /\ phase = "verify" /\ command.owner = "command"
    BY <1>0, <1>6 DEF CommandGoesOn, Places, Commands, Owners
  <2>1. CASE CommandStep /\ ran' = ran
    <3>1. /\ command.step \notin {"idle", "done"} /\ command'.step # "idle"
          /\ \/ /\ command.step \in {"record", "close"} /\ command'.step \in {"record", "close", "done"}
                /\ command'.kind = command.kind
             \/ /\ command.step \notin {"record", "close", "done"}
                /\ command'.step \notin {"record", "close", "done"} \/ command'.kind = "configuration"
      <4>1. CASE OpenRoot
        BY <1>0, <4>1, OpenRootIs DEF OpenRoot
      <4>2. CASE RootsOpen
        BY <1>0, <4>2, RootsOpenIs DEF RootsOpen
      <4>3. CASE VerifyExecutable
        BY <1>0, <4>3, VerifyExecutableIs DEF VerifyExecutable
      <4>4. CASE Record
        BY <1>0, <4>4, RecordIs DEF Record, Places
      <4>5. CASE Close
        BY <1>0, <4>5, CloseIs DEF Close
      <4>6. QED BY <2>1, <4>1, <4>2, <4>3, <4>4, <4>5 DEF CommandStep
    <3>2. Passed' = Passed
      BY <2>0 DEF Passed, Succeeded
    <3>3. QED BY <1>0, <2>0, <2>1, <3>1, <3>2 DEF RecordedIsRun
  <2>2. CASE Execute(Answers) /\ ran' = Append(ran, command'.kind)
    <3>1. /\ command.step = "execute" /\ command'.step = "record" /\ command' \in Commands
      BY <1>0, <2>2, ExecuteIs
    <3>2. PICK kind \in Kinds : kind = command'.kind
      BY <3>1 DEF Commands
    <3>3. ran' = Append(ran, kind)
      BY <2>2, <3>2
    <3>4. Len(ran') = Len(ran) + 1
      BY <1>0, <3>3
    <3>5. Passed' = Passed
      BY <2>0 DEF Passed, Succeeded
    <3>6. QED BY <1>0, <2>0, <3>1, <3>2, <3>3, <3>4, <3>5 DEF RecordedIsRun
  <2>3. QED BY <1>6, <2>1, <2>2 DEF CommandGoesOn
<1>7. CASE phase # "verify" /\ UNCHANGED <<checks, ran, phase>>
  BY <1>0, <1>7 DEF RecordedIsRun
<1>8. QED
  <2>1. CASE phase \in {"idle", "verify"}
    BY <1>0, <1>1, <1>2, <1>3, <1>4, <1>5, <1>6, <1>7, <2>1
    DEF ChecksNext, Program, verifyVars, commandVars, Places, CheckAnswered, Verified, Request,
        StartApplication, StartAnswered, CallProbe, ProbeAnswered, CallTool, ToolAnswered,
        TesterReports, CallClose, CloseAnswered, Terminate, Grace, Kill, Last, Settle,
        Bind, CommandGoesOn, AppServes, AppExits, DeadlinePasses, WorldChanges, Replace
  <2>2. CASE phase \notin {"idle", "verify"}
    <3>1. phase' \notin {"idle", "verify"}
      BY <2>2
      DEF ChecksNext, Program, BeginVerification, CallCheck, CheckAnswered, Verified, Request, Skipped,
        StartApplication, StartAnswered, StartFails, CallProbe, ProbeAnswered, CallTool, ToolAnswered,
        TesterReports, CallClose, CloseAnswered, AfterClose, Terminate, Grace, Kill, Last, Stay, Settle,
        Stopped, CleanedUp, GivenUp, Bind, CommandGoesOn, AppServes, AppExits, DeadlinePasses, WorldChanges
    <3>2. QED BY <1>2, <3>1
  <2>3. QED BY <2>1, <2>2

(* Every step keeps command, clean-up and verdict in line with the phase. *)
LEMMA PlacesStep ==
  ASSUME ChecksInv, ChecksNext
  PROVE  Places'
<1>0. /\ CommandType /\ command \in Commands /\ Places /\ CommandsDescriptors /\ phase \in Phases
      /\ browse \in Browses /\ stop \in Stops /\ verdict \in {"none", "passed", "failed", "raised"}
  BY DEF ChecksInv, ResourcesAreOwned, ChecksType, CommandType, Commands, Browses, Stops
<1>1. CASE UNCHANGED <<command, phase, stop, result, verdict, browse>>
  BY <1>0, <1>1 DEF Places
<1>2. CASE BeginVerification \/ CheckAnswered \/ Verified
  BY <1>0, <1>2, NoCommandIs DEF BeginVerification, CheckAnswered, Verified, commandVars, appVars, Free, AtRest,
     Places, Browses
<1>3. CASE CallCheck
  BY <1>0, <1>3, CallIs DEF CallCheck, verifyVars, appVars, Owners, Places
<1>4. CASE CallTool
  BY <1>0, <1>4, CallIs, BrowseIs DEF CallTool, verifyVars, appVars, Owners, Places
<1>5. CASE Request
  <2>1. phase = "request" /\ UNCHANGED <<verdict, stop>>
    BY <1>5 DEF Request, verifyVars, appVars
  <2>2. /\ browse'.held = browse.held /\ browse'.ready = browse.ready /\ browse'.primary = browse.primary
    BY <1>0, <1>5 DEF Request, Browses
  <2>3. CASE phase' = "ended" /\ command' = command
    BY <1>0, <2>1, <2>2, <2>3 DEF Places
  <2>4. CASE phase' = "start" /\ Call("app") /\ result' = result
    BY <1>0, <2>1, <2>2, <2>4, CallIs DEF Owners, Places
  <2>5. QED BY <1>5, <2>3, <2>4 DEF Request, Skipped
<1>6. CASE StartApplication
  <2>1. phase = "start" /\ command.step = "execute" /\ UNCHANGED <<verdict, browse, result>>
    BY <1>6 DEF StartApplication, verifyVars
  <2>2. CASE phase' = "probe" /\ command' = NoCommand /\ stop' = stop
    BY <1>0, <2>1, <2>2, NoCommandIs DEF Places
  <2>3. CASE phase' = "stop" /\ command' = NoCommand /\ StopFor("start")
    BY <1>0, <2>1, <2>3, NoCommandIs DEF Places, StopFor
  <2>4. ASSUME NEW kind \in Kinds, command' = Fails(kind), phase' = phase, stop' = stop
        PROVE  Places'
    BY <1>0, <2>1, <2>4, FailsIs DEF Places
  <2>5. QED BY <1>6, <2>2, <2>3, <2>4 DEF StartApplication, Free, Failures, Kinds
<1>7. CASE StartAnswered \/ ToolAnswered
  <2>1. /\ command' = NoCommand /\ phase \in {"start", "tester"} /\ UNCHANGED <<verdict, stop, result>>
        /\ phase' = "close" \/ (phase' = "tester" /\ phase = "tester")
    BY <1>7 DEF StartAnswered, StartFails, ToolAnswered, Free, verifyVars, appVars
  <2>2. /\ browse'.held = browse.held /\ browse'.ready = browse.ready
        /\ browse'.primary \in {browse.primary, "orchestration"}
    <3>1. ~TesterReports /\ ~ProbeAnswered
      BY <1>7 DEF StartAnswered, ToolAnswered, TesterReports, ProbeAnswered, Answered, AtRest
    <3>2. QED BY <1>0, <3>1, BrowseIs
  <2>3. QED BY <1>0, <2>1, <2>2, NoCommandIs DEF Places
<1>8. CASE CallProbe
  <2>1. phase = "probe" /\ command.step = "idle" /\ UNCHANGED <<verdict, browse, result>>
    BY <1>8 DEF CallProbe, AtRest, verifyVars
  <2>2. CASE Call("command") /\ UNCHANGED <<phase, stop>>
    BY <1>0, <2>1, <2>2, CallIs DEF Places, Owners
  <2>3. CASE phase' = "stop" /\ StopFor("ready") /\ command' = command
    BY <1>0, <2>1, <2>3 DEF Places, StopFor
  <2>4. QED BY <1>8, <2>2, <2>3 DEF CallProbe
<1>9. CASE ProbeAnswered
  <2>1. phase = "probe" /\ command.step = "done" /\ UNCHANGED <<verdict, result>>
    BY <1>9 DEF ProbeAnswered, Answered, verifyVars
  <2>2. CASE Success
    <3>1. /\ phase' = "tester" /\ command' = NoCommand /\ stop' = stop
          /\ browse' = [browse EXCEPT !.evidence = TRUE, !.ready = TRUE, !.held = TRUE]
      BY <1>9, <2>2 DEF ProbeAnswered, Free
    <3>2. browse'.held /\ browse'.ready /\ browse'.primary = browse.primary
      BY <1>0, <3>1 DEF Browses
    <3>3. QED BY <1>0, <2>1, <3>1, <3>2, NoCommandIs DEF Places
  <2>3. CASE ~Success
    <3>1. /\ phase' = "stop" /\ StopFor("ready") /\ command' = command
          /\ browse' = [browse EXCEPT !.evidence = Captured]
      BY <1>9, <2>3 DEF ProbeAnswered
    <3>2. browse'.held = browse.held /\ browse'.ready = browse.ready /\ browse'.primary = browse.primary
      BY <1>0, <3>1 DEF Browses
    <3>3. QED BY <1>0, <2>1, <3>1, <3>2 DEF Places, StopFor
  <2>4. QED BY <2>2, <2>3
<1>10. CASE TesterReports
  <2>1. /\ phase = "tester" /\ phase' = "close" /\ command.step = "idle"
        /\ UNCHANGED <<command, verdict, stop, result>>
    BY <1>10 DEF TesterReports, AtRest, commandVars, verifyVars, appVars
  <2>2. browse'.held = browse.held /\ browse'.ready = browse.ready
    BY <1>0, <1>10 DEF TesterReports, Browses
  <2>3. QED BY <1>0, <2>1, <2>2 DEF Places
<1>11. CASE CallClose \/ CloseAnswered
  <2>1. /\ phase = "close" /\ UNCHANGED <<verdict, result>>
    BY <1>11 DEF CallClose, CloseAnswered, verifyVars
  <2>2. CASE Call("command") /\ UNCHANGED <<phase, stop, browse>>
    BY <1>0, <2>1, <2>2, CallIs DEF Places, Owners
  <2>3. ASSUME NEW ok, AfterClose(ok), command' = NoCommand \/ (command' = command /\ command.step = "idle")
        PROVE  Places'
    <3>1. browse'.held = browse.held /\ browse'.ready = browse.ready /\ browse'.primary = browse.primary
      BY <1>0, <2>3 DEF AfterClose, Browses
    <3>2. CASE browse.held
      BY <1>0, <2>1, <2>3, <3>1, <3>2, NoCommandIs DEF AfterClose, StopFor, Places
    <3>3. CASE ~browse.held
      BY <1>0, <2>1, <2>3, <3>1, <3>3, NoCommandIs DEF AfterClose, Places
    <3>4. QED BY <3>2, <3>3
  <2>4. QED BY <1>11, <2>2, <2>3 DEF CallClose, CloseAnswered, AtRest, Free
<1>12. CASE Terminate \/ Grace \/ Kill \/ Last
  <2>1. /\ UNCHANGED <<phase, browse, command, verdict, result>>
        /\ stop.step # "idle"
    BY <1>12 DEF Terminate, Grace, Kill, Last, Stay, verifyVars
  <2>2. PICK step \in {"grace", "kill", "last", "settle"} : stop' = [stop EXCEPT !.step = step]
    BY <1>12 DEF Terminate, Grace, Kill, Last, To
  <2>3. stop'.by = stop.by /\ stop'.step # "idle"
    BY <1>0, <2>2 DEF Stops
  <2>4. QED BY <1>0, <2>1, <2>3 DEF Places
<1>13. CASE Settle
  <2>1. /\ stop' = [by |-> "nobody", step |-> "idle"] /\ command' = NoCommand
        /\ UNCHANGED <<verdict, result>> /\ stop.step = "settle"
    BY <1>13 DEF Settle, Stopped, verifyVars
  <2>2. phase = "stop"
    BY <1>0, <2>1 DEF Places
  <2>3. phase' \in {"bind", "close"}
    BY <1>13 DEF Settle, Stopped, CleanedUp, GivenUp, StartFails
  <2>4. /\ browse'.held = browse.held /\ browse'.ready = browse.ready
        /\ browse'.primary \in {browse.primary, "orchestration"}
    BY <1>0, <1>13, <2>2, BrowseIs DEF TesterReports, ProbeAnswered
  <2>5. QED BY <1>0, <2>1, <2>2, <2>3, <2>4, NoCommandIs DEF Places
<1>14. CASE Bind
  BY <1>0, <1>14 DEF Bind, commandVars, verifyVars, appVars, Places
<1>15. CASE CommandGoesOn
  <2>1. UNCHANGED <<phase, verdict, stop, browse, result>>
    BY <1>15 DEF CommandGoesOn, appVars
  <2>2. /\ command.step \notin {"idle", "done"}
        /\ command'.owner = command.owner
        /\ (command'.step \notin {"record", "close", "done"} => command'.stored = 0)
        /\ (command'.step = "record" => command'.stored \in 0..1)
    <3>1. CASE OpenRoot
      BY <1>0, <3>1, OpenRootIs DEF OpenRoot, Places
    <3>2. CASE RootsOpen
      BY <1>0, <3>2, RootsOpenIs DEF RootsOpen, Places
    <3>3. CASE VerifyExecutable
      BY <1>0, <3>3, VerifyExecutableIs DEF VerifyExecutable, Places
    <3>4. CASE Record
      BY <1>0, <3>4, RecordIs DEF Record, Places
    <3>5. CASE Close
      BY <1>0, <3>5, CloseIs DEF Close
    <3>6. CASE Execute(Answers)
      BY <1>0, <3>6, ExecuteIs DEF Places
    <3>7. QED BY <1>15, <3>1, <3>2, <3>3, <3>4, <3>5, <3>6 DEF CommandGoesOn, CommandStep
  <2>3. QED BY <1>0, <2>1, <2>2 DEF Places
<1>16. QED
  BY <1>1, <1>2, <1>3, <1>4, <1>5, <1>6, <1>7, <1>8, <1>9, <1>10, <1>11, <1>12, <1>13, <1>14, <1>15
  DEF ChecksNext, Program, commandVars, verifyVars, appVars, AppServes, AppExits, DeadlinePasses,
      WorldChanges, Replace

(* An application that start did not take over, and one that is cleaned up *)
(* after the Tester, is stopped before the run goes on, by a kill if need  *)
(* be; once it was waited for no step signals it, waits again or brings it *)
(* back.                                                                   *)
LEMMA TakenDownStep ==
  ASSUME ChecksInv, ChecksNext
  PROVE  TakenDown'
<1>0. /\ app \in Apps /\ handle \in Handles /\ browse \in Browses /\ stop \in Stops /\ signals \in Signals
      /\ Places /\ TakenDown
  BY DEF ChecksInv, ResourcesAreOwned, ChecksType, Apps, Handles, Browses, Stops, Signals
<1>1. handle' = handle \/ stop.step \in {"grace", "last"}
  BY <1>0, HandleIs
<1>2. (handle.waited => app' = app) /\ (app.state # "running" /\ app'.state = "running" => StartApplication)
  <2>1. handle.waited => phase # "start" /\ app.state = "exited"
    BY <1>0 DEF TakenDown
  <2>2. QED BY <1>0, <2>1, AppIs DEF StartApplication, AppServes
<1>3. /\ handle'.waited => app'.state = "exited" /\ (handle'.reaped \/ handle'.error)
      /\ handle'.reaped => handle'.waited
  <2>1. CASE handle' = handle
    BY <1>0, <1>2, <2>1 DEF TakenDown
  <2>2. CASE handle' # handle
    <3>1. app' = app
      BY <1>0, <2>2, HandleIs DEF ChecksNext, Program, appVars, BeginVerification, CallCheck, CheckAnswered,
         Verified, Request, StartApplication, StartAnswered, CallProbe, ProbeAnswered, CallTool, ToolAnswered,
         TesterReports, CallClose, CloseAnswered, Terminate, Kill, Grace, Last, Settle,
         Bind, CommandGoesOn, AppServes, AppExits, DeadlinePasses, WorldChanges
    <3>2. QED BY <1>0, <2>2, <3>1, HandleIs DEF TakenDown
  <2>3. QED BY <2>1, <2>2
<1>4. signals.refused => signals'.refused
  BY <1>0, SignalsAre
<1>5. CASE UNCHANGED <<phase, stop, browse, handle>>
  <2>1. app.state # "running" => app'.state # "running"
    <3>1. CASE StartApplication
      <4>1. app' = app
        BY <1>0, <1>5, <3>1 DEF StartApplication, Places
      <4>2. QED BY <4>1
    <3>2. CASE ~StartApplication
      BY <1>2, <3>2
    <3>3. QED BY <3>1, <3>2
  <2>2. app.state = "none" => app'.state = "none"
    <3>1. CASE StartApplication
      <4>1. app' = app
        BY <1>0, <1>5, <3>1 DEF StartApplication, Places
      <4>2. QED BY <4>1
    <3>2. CASE ~StartApplication
      BY <1>0, <3>2, AppIs DEF AppServes
    <3>3. QED BY <3>1, <3>2
  <2>3. QED BY <1>0, <1>3, <1>4, <1>5, <2>1, <2>2 DEF TakenDown
<1>6. CASE BeginVerification \/ CheckAnswered \/ Verified \/ Request
  <2>1. /\ UNCHANGED <<app, handle, stop, signals>> /\ stop.step = "idle" /\ ~browse.held /\ ~browse'.held
        /\ phase \in {"idle", "verify", "request"} /\ phase' \in {"verify", "request", "start", "ended"}
    BY <1>0, <1>6, BrowseIs DEF BeginVerification, CheckAnswered, Verified, Request, Skipped, appVars, Places,
       ProbeAnswered, TesterReports
  <2>2. QED BY <1>0, <1>3, <2>1 DEF TakenDown
<1>7. CASE StartApplication
  <2>1. /\ phase = "start" /\ stop.step = "idle" /\ UNCHANGED <<handle, browse, signals>> /\ ~handle.waited
        /\ ~browse.held
    BY <1>0, <1>7 DEF StartApplication, Places, TakenDown
  <2>2. CASE phase' = "probe" /\ stop' = stop
    BY <1>3, <2>1, <2>2 DEF TakenDown
  <2>3. CASE phase' = "stop" /\ StopFor("start")
    BY <1>3, <2>1, <2>3 DEF TakenDown, StopFor
  <2>4. CASE UNCHANGED <<phase, stop>>
    BY <1>5, <2>1, <2>4
  <2>5. QED BY <1>7, <2>2, <2>3, <2>4 DEF StartApplication
<1>8. CASE StartAnswered
  <2>1. /\ phase = "start" /\ phase' = "close" /\ UNCHANGED <<app, handle, stop, signals>> /\ stop.step = "idle"
        /\ ~browse'.held
    BY <1>0, <1>8, BrowseIs DEF StartAnswered, StartFails, appVars, Places, ProbeAnswered, TesterReports
  <2>2. QED BY <1>0, <1>3, <2>1 DEF TakenDown
<1>9. CASE CallProbe \/ ProbeAnswered
  <2>1. /\ phase = "probe" /\ UNCHANGED <<app, handle, signals>> /\ stop.step = "idle"
        /\ ~handle.waited
    BY <1>0, <1>9 DEF CallProbe, ProbeAnswered, Places, TakenDown
  <2>2. \/ phase' = "stop" /\ StopFor("ready")
        \/ phase' \in {"probe", "tester"} /\ stop' = stop
    BY <1>9 DEF CallProbe, ProbeAnswered
  <2>3. QED BY <1>0, <1>3, <2>1, <2>2 DEF TakenDown, StopFor
<1>10. CASE CallTool \/ ToolAnswered \/ TesterReports
  <2>1. /\ phase = "tester" /\ phase' \in {"tester", "close"} /\ UNCHANGED <<app, handle, stop, signals>>
        /\ stop.step = "idle" /\ ~handle.waited /\ browse.held
    BY <1>0, <1>10 DEF CallTool, ToolAnswered, TesterReports, appVars, Places, TakenDown
  <2>2. browse'.held
    BY <1>0, <1>10, <2>1, BrowseIs
  <2>3. QED BY <1>0, <1>3, <2>1, <2>2 DEF TakenDown
<1>11. CASE CallClose \/ CloseAnswered
  <2>1. /\ phase = "close" /\ UNCHANGED <<app, handle, signals>> /\ stop.step = "idle"
    BY <1>0, <1>11 DEF CallClose, CloseAnswered, Places
  <2>2. CASE UNCHANGED <<phase, stop, browse>>
    BY <1>5, <2>1, <2>2
  <2>3. ASSUME NEW ok, AfterClose(ok)
        PROVE  TakenDown'
    <3>1. browse'.held = browse.held
      BY <1>0, <2>3 DEF AfterClose, Browses
    <3>2. CASE browse.held
      BY <1>0, <1>3, <2>1, <2>3, <3>1, <3>2 DEF AfterClose, StopFor, TakenDown
    <3>3. CASE ~browse.held
      BY <1>0, <1>3, <2>1, <2>3, <3>1, <3>3 DEF AfterClose, TakenDown
    <3>4. QED BY <3>2, <3>3
  <2>4. QED BY <1>11, <2>2, <2>3 DEF CallClose, CloseAnswered
<1>12. CASE Terminate
  <2>1. /\ phase = "stop" /\ UNCHANGED <<phase, browse, handle>> /\ ~handle.waited
        /\ stop' = [stop EXCEPT !.step = "grace"]
    BY <1>0, <1>12 DEF Terminate, Stay, To, Places, TakenDown
  <2>2. stop'.step = "grace"
    BY <1>0, <2>1 DEF Stops
  <2>3. QED BY <1>0, <1>3, <2>1, <2>2 DEF TakenDown
<1>13. CASE Grace
  <2>1. phase = "stop" /\ UNCHANGED <<phase, browse>> /\ stop' = [stop EXCEPT !.step = "kill"]
    BY <1>0, <1>13 DEF Grace, Stay, To, Places
  <2>2. stop'.step = "kill"
    BY <1>0, <2>1 DEF Stops
  <2>3. QED BY <1>0, <1>3, <2>1, <2>2 DEF TakenDown
<1>14. CASE Kill
  <2>1. phase = "stop" /\ UNCHANGED <<phase, browse, handle>> /\ \E step \in {"last", "settle"} : To(step)
    BY <1>0, <1>14 DEF Kill, Stay, Places
  <2>2. stop'.step \in {"last", "settle"}
    BY <1>0, <2>1 DEF Stops, To
  <2>3. signals'.refused \/ app'.state # "running"
    <3>1. CASE handle.waited
      BY <1>0, <1>2, <3>1 DEF TakenDown
    <3>2. CASE ~handle.waited /\ app' = IF app.state = "running" THEN [app EXCEPT !.state = "exited", !.status = "signal"] ELSE app
      BY <1>0, <3>2 DEF Apps
    <3>3. CASE signals' = [signals EXCEPT !.refused = TRUE]
      BY <1>0, <3>3 DEF Signals
    <3>4. QED BY <1>14, <3>1, <3>2, <3>3 DEF Kill
  <2>4. QED BY <1>0, <1>3, <2>1, <2>2, <2>3 DEF TakenDown
<1>15. CASE Last
  <2>1. /\ phase = "stop" /\ UNCHANGED <<phase, browse, app, signals>> /\ stop.step = "last"
        /\ stop' = [stop EXCEPT !.step = "settle"]
    BY <1>0, <1>15 DEF Last, Stay, To, Places
  <2>2. stop'.step = "settle"
    BY <1>0, <2>1 DEF Stops
  <2>3. QED BY <1>0, <1>3, <2>1, <2>2 DEF TakenDown
<1>16. CASE Settle
  <2>1. /\ stop.step = "settle" /\ phase = "stop" /\ UNCHANGED <<app, handle, signals>>
        /\ stop'.step = "idle" /\ phase' \in {"bind", "close"}
    BY <1>0, <1>16 DEF Settle, Stopped, CleanedUp, GivenUp, StartFails, Places
  <2>2. browse'.held = browse.held
    BY <1>0, <1>16, <2>1, BrowseIs DEF TesterReports, ProbeAnswered
  <2>3. signals.refused \/ app.state # "running"
    BY <1>0, <2>1 DEF TakenDown
  <2>4. CASE stop.by = "cleanup"
    <3>1. PICK returned \in BOOLEAN : returned = (handle.waited /\ ~handle.error)
      OBVIOUS
    <3>2. Stopped(returned)
      BY <1>16, <3>1 DEF Settle
    <3>3. /\ phase' = "bind"
          /\ browse' = [browse EXCEPT !.broken = @ \/ ~returned, !.evidence = @ \/ returned]
      BY <2>4, <3>2 DEF Stopped, CleanedUp
    <3>4. PICK b \in BOOLEAN, e \in BOOLEAN : b = (browse.broken \/ ~returned) /\ e = (browse.evidence \/ returned)
      BY <1>0 DEF Browses
    <3>5. browse' = [browse EXCEPT !.broken = b, !.evidence = e]
      BY <3>3, <3>4
    <3>6. browse'.broken = b
      BY <1>0, <3>5 DEF Browses
    <3>7. browse'.broken \/ returned
      BY <3>4, <3>6
    <3>8. QED BY <1>0, <1>3, <2>1, <2>2, <2>3, <3>1, <3>3, <3>7 DEF TakenDown
  <2>5. CASE stop.by # "cleanup"
    <3>1. phase' = "close" /\ ~browse.held
      BY <1>0, <1>16, <2>1, <2>5 DEF Settle, Stopped, GivenUp, StartFails, Places
    <3>2. QED BY <1>0, <1>3, <2>1, <2>2, <2>3, <3>1 DEF TakenDown
  <2>6. QED BY <2>4, <2>5
<1>17. CASE Bind
  <2>1. phase = "bind" /\ phase' = "ended" /\ UNCHANGED <<app, handle, stop, signals, browse>> /\ stop.step = "idle"
    BY <1>0, <1>17 DEF Bind, appVars, Places
  <2>2. QED BY <1>0, <1>3, <2>1 DEF TakenDown
<1>18. QED
  BY <1>5, <1>6, <1>7, <1>8, <1>9, <1>10, <1>11, <1>12, <1>13, <1>14, <1>15, <1>16, <1>17
  DEF ChecksNext, Program, appVars, CallCheck, CommandGoesOn, AppServes, AppExits, DeadlinePasses, WorldChanges

(* The two parts about descriptors leave none open. *)
LEMMA NothingLeftOpenFollows ==
  ASSUME CommandType, CommandsDescriptors, AppsDescriptorsHeld, Places
  PROVE  NothingLeftOpen
<1>1. \A d \in open : d[1] \in {"command", "app"}
  BY DEF CommandType, Descriptors, Owners
<1>2. ~Running => \A d \in open : d[1] = "app"
  BY <1>1 DEF Running, CommandsDescriptors
<1>3. phase \notin {"start", "probe", "stop"} => AppsDescriptors = {}
  BY DEF AppsDescriptors, AppsDescriptorsHeld
<1>4. QED BY <1>2, <1>3 DEF NothingLeftOpen

(* No application is left running, and no stray signal is sent. *)
LEMMA AppIsOwnedStep ==
  ASSUME ChecksInv, ChecksNext
  PROVE  AppIsOwned'
<1>1. /\ signals \in Signals /\ handle \in Handles /\ ~signals.stray
  BY DEF ChecksInv, ResourcesAreOwned, ChecksType, AppIsOwned, Signals, Handles
<1>2. ~signals'.stray
  BY <1>1, SignalsAre DEF ChecksInv, TakenDown, Terminate
<1>3. QED BY <1>2, TakenDownStep DEF TakenDown, AppIsOwned

(* The verdict is given once, when every command has run and every check    *)
(* succeeded, and nothing runs for the Verifier afterwards.                 *)
LEMMA VerdictIsEarnedStep ==
  ASSUME ChecksInv, ChecksNext
  PROVE  VerdictIsEarned'
<1>0. /\ CommandType /\ Places /\ RecordedIsRun /\ VerdictIsEarned
      /\ checks \in Seq(Kinds) /\ ran \in Seq(Kinds)
  BY DEF ChecksInv, ResourcesAreOwned, PassesAreEarned, ChecksType
<1>1. CASE UNCHANGED <<verdict, ran>>
  BY <1>0, <1>1 DEF VerdictIsEarned
<1>2. CASE Verified /\ Passed
  <2>1. /\ phase = "verify" /\ command.step = "idle" /\ Len(checks) = Checks /\ ran' = ran
    BY <1>2 DEF Verified, AtRest
  <2>2. ran = checks
    BY <1>0, <1>2, <2>1 DEF RecordedIsRun
  <2>3. \A i \in 1..Checks : checks[i] = "none"
    BY <1>0, <1>2, <2>1 DEF Passed, Succeeded
  <2>4. ran = [i \in 1..Checks |-> "none"]
    BY <1>0, <2>1, <2>2, <2>3
  <2>5. QED BY <2>1, <2>4 DEF VerdictIsEarned
<1>3. CASE verdict' \in {"failed", "raised"}
  BY <1>3 DEF VerdictIsEarned
<1>4. CASE phase = "verify" /\ verdict' = verdict
  BY <1>0, <1>4 DEF Places, VerdictIsEarned
<1>5. QED
  BY <1>1, <1>2, <1>3, <1>4
  DEF ChecksNext, Program, verifyVars, BeginVerification, CallCheck, CheckAnswered, Verified, Request,
      StartApplication, StartAnswered, CallProbe, ProbeAnswered, CallTool, ToolAnswered,
      TesterReports, CallClose, CloseAnswered, Terminate, Grace, Kill, Last, Settle,
      Bind, CommandGoesOn, AppServes, AppExits, DeadlinePasses, WorldChanges

(* Only Bind gives a result, and a passed one is what TakenDown says of a   *)
(* run whose clean-up did not fail.                                         *)
LEMMA PassedIsEarnedStep ==
  ASSUME ChecksInv, ChecksNext
  PROVE  PassedIsEarned'
<1>0. /\ app \in Apps /\ handle \in Handles /\ browse \in Browses
      /\ Places /\ TakenDown /\ PassedIsEarned
  BY DEF ChecksInv, ResourcesAreOwned, PassesAreEarned, ChecksType, Apps, Handles, Browses
<1>1. CASE result' # "passed"
  BY <1>1 DEF PassedIsEarned
<1>2. CASE Bind /\ result' = "passed"
  <2>1. /\ phase = "bind" /\ browse.primary = "passed" /\ ~browse.broken
        /\ UNCHANGED <<verdict, browse, handle, app>>
    BY <1>2 DEF Bind, verifyVars, appVars
  <2>2. browse.held /\ browse.ready /\ verdict = "passed"
    BY <1>0, <2>1 DEF Places
  <2>3. handle.reaped /\ app.state = "exited"
    BY <1>0, <2>1, <2>2 DEF TakenDown
  <2>4. QED BY <2>1, <2>2, <2>3 DEF PassedIsEarned
<1>3. CASE result' = result /\ result = "passed"
  <2>1. phase = "ended" /\ stop.step = "idle" /\ command.step = "idle"
    BY <1>0, <1>3 DEF Places
  <2>2. app.state = "exited"
    BY <1>0, <1>3 DEF PassedIsEarned
  <2>3. UNCHANGED <<verdict, browse, handle, app>>
    BY <1>3, <2>1, <2>2
    DEF ChecksNext, Program, verifyVars, appVars, BeginVerification, CallCheck, CheckAnswered, Verified, Request,
      StartApplication, StartAnswered, CallProbe, ProbeAnswered, CallTool, ToolAnswered,
      TesterReports, CallClose, CloseAnswered, Terminate, Grace, Kill, Last, Settle,
      Bind, CommandGoesOn, AppServes, AppExits, DeadlinePasses, WorldChanges
  <2>4. QED BY <1>0, <1>3, <2>3 DEF PassedIsEarned
<1>4. QED
  BY <1>0, <1>1, <1>2, <1>3
  DEF ChecksNext, Program, Places, BeginVerification, CallCheck, CheckAnswered, Verified, Request, Skipped,
      StartApplication, StartAnswered, CallProbe, ProbeAnswered, CallTool, ToolAnswered,
      TesterReports, CallClose, CloseAnswered, Terminate, Grace, Kill, Last, Settle,
      Bind, CommandGoesOn, AppServes, AppExits, DeadlinePasses, WorldChanges

(* The invariant holds before the first stage. *)
LEMMA ChecksInvInit == ChecksInit => ChecksInv
<1> SUFFICES ASSUME ChecksInit
             PROVE  ChecksInv
  OBVIOUS
<1>1. /\ command \in Commands /\ command.owner = "command" /\ command.step = "idle"
      /\ command.root = 1 /\ command.stored = 0 /\ open = {} /\ 0 \in 0..MaxDisturbances
      /\ 0 \in 0..MaxCalls /\ 0 <= Checks
  BY NoCommandIs, CommandAssumption, ChecksAssumption DEF ChecksInit, CommandInit
<1>2. CommandType
  BY <1>1 DEF CommandType, Commands, ChecksInit, CommandInit
<1>3. ChecksType
  <2>1. /\ app \in Apps /\ handle \in Handles /\ stop \in Stops /\ expired \in BOOLEAN /\ signals \in Signals
    BY DEF ChecksInit, Apps, Handles, Stops, Signals, Statuses
  <2>2. browse \in Browses
    BY <1>1 DEF ChecksInit, Browses
  <2>3. checks \in Seq(Kinds) /\ Len(checks) <= Checks /\ ran \in Seq(Kinds) /\ Len(ran) <= Checks
    BY <1>1 DEF ChecksInit
  <2>4. QED
    BY <1>2, <2>1, <2>2, <2>3 DEF ChecksType, ChecksInit, Phases, Apps, Handles, Stops, Signals, Browses
<1>4. CommandsDescriptors /\ AppsDescriptorsHeld
  BY <1>1 DEF CommandsDescriptors, AppsDescriptorsHeld
<1>5. Places
  BY <1>1 DEF Places, ChecksInit
<1>6. RecordedIsRun /\ TakenDown
  BY DEF RecordedIsRun, TakenDown, ChecksInit
<1>7. AppIsOwned /\ PassesAreEarned
  BY DEF ChecksInit, AppIsOwned, PassesAreEarned, VerdictIsEarned, PassedIsEarned
<1>8. QED
  BY <1>2, <1>3, <1>4, <1>5, <1>6, <1>7, NothingLeftOpenFollows DEF ChecksInv, ResourcesAreOwned

(* Every step keeps the invariant. *)
LEMMA ChecksInvStep == ChecksInv /\ [ChecksNext]_checksVars => ChecksInv'
<1>1. ASSUME ChecksInv, ChecksNext
      PROVE  ChecksInv'
  <2>1. ChecksType' /\ CommandsDescriptors' /\ AppsDescriptorsHeld' /\ Places' /\ RecordedIsRun' /\ TakenDown'
    BY <1>1, ChecksTypeStep, CommandsDescriptorsStep, AppsDescriptorsStep, PlacesStep, RecordedIsRunStep,
       TakenDownStep
  <2>2. CommandType'
    BY <2>1 DEF ChecksType
  <2>3. (CommandType /\ CommandsDescriptors /\ AppsDescriptorsHeld /\ Places => NothingLeftOpen)'
    BY NothingLeftOpenFollows, PTL
  <2>4. QED
    BY <1>1, <2>1, <2>2, <2>3, AppIsOwnedStep, VerdictIsEarnedStep, PassedIsEarnedStep
    DEF ChecksInv, ResourcesAreOwned, PassesAreEarned
<1>2. ASSUME ChecksInv, UNCHANGED checksVars
      PROVE  ChecksInv'
  BY <1>2
  DEF ChecksInv, ResourcesAreOwned, PassesAreEarned, ChecksType, CommandType, CommandsDescriptors,
      AppsDescriptorsHeld, Places, RecordedIsRun, TakenDown, NothingLeftOpen, AppIsOwned, VerdictIsEarned,
      PassedIsEarned, Passed, Succeeded, Running, AppsDescriptors, checksVars, commandVars, verifyVars, appVars
<1>3. QED BY <1>1, <1>2

(* What the Verifier and the Tester open and start they close and stop,     *)
(* whatever fails and in whatever order: no descriptor outlives its command *)
(* or the application's start, a finished run leaves no application running *)
(* unless its kill was refused, and no group is signalled whose leader was  *)
(* waited for (process.py, ProcessRunner and ManagedProcess.stop_and_reap). *)
THEOREM StagesCleanUp == ChecksSpec => []ResourcesAreOwned
<1>1. ChecksInv => ResourcesAreOwned
  BY DEF ChecksInv
<1>2. QED BY <1>1, ChecksInvInit, ChecksInvStep, PTL DEF ChecksSpec

(* A passed verdict means that every command of the policy ran and exited   *)
(* with 0, and a passed result that such a product answered in a browser    *)
(* run whose application was waited for (verification.py, run_all;          *)
(* browser.py, _bind_run_evidence).                                         *)
THEOREM PassesStandUp == ChecksSpec => []PassesAreEarned
<1>1. ChecksInv => PassesAreEarned
  BY DEF ChecksInv
<1>2. QED BY <1>1, ChecksInvInit, ChecksInvStep, PTL DEF ChecksSpec
=============================================================================
