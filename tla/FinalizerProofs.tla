--------------------------- MODULE FinalizerProofs ---------------------------
(* What TLAPS proves of Finalizer, for every number of launchers, retries,     *)
(* waits, disturbances and resumes: the effect ledger is the truth about the   *)
(* outside and bounded, a Git effect is looked for again before it is retried, *)
(* a Retry-After time binds every process, and the effects happen once and in  *)
(* order (Delivery).                                                           *)
EXTENDS Finalizer, FiniteSetTheorems, TLAPS

Entry == [op : Ops, of : Nat, outcome : Outcomes]
Run == [disposition : {"ACTIVE", "WAITING_MCP", "HUMAN_REVIEW", "DONE", "ABANDONED"},
        projected : BOOLEAN, recorded : SUBSET Effects, pending : Nat,
        waited : 0 .. MaxWait, ledger : Seq(Entry)]
Proc == [pc : Pcs, fresh : BOOLEAN, effect : Nat,
         result : {"none", "SUCCESS", "FAILURE", "UNKNOWN", "RETRY_AFTER", "OTHER_STATE"}]

GitOps == {"commit", "push"}

\* What an entry of the ledger says.  Only a reconciled attempt is looked at
\* again, and a success of either is recorded with it; a ticket is completed
\* after the push.
EntryHolds(k) ==
    LET e == run.ledger[k]
    IN  /\ e.of < k /\ (e.of # 0 <=> e.op = "reconcile")
        /\ e.of # 0 => run.ledger[e.of].op \in GitOps /\ Reconciled(e.of)
        /\ e.op \in GitOps \cup {"reconcile"} /\ e.outcome = "SUCCESS" => Operation(k) \in run.recorded
        /\ e.op = "reconcile" => e.outcome # "FAILURE"
        /\ e.op = "complete" => GitOps \subseteq run.recorded

\* The pending request is open; while a Retry-After time runs there is none.
PendingHolds ==
    /\ run.pending \in 0 .. Len(run.ledger)
    /\ run.pending # 0 <=> run.disposition = "WAITING_MCP"
    /\ run.pending # 0 => ~Reconciled(run.pending) /\ run.ledger[run.pending].op \in {"projection", "complete"}
    /\ backoff => run.pending = 0

RunHolds ==
    /\ run \in Run /\ backoff \in BOOLEAN
    /\ \A k \in 1 .. Len(run.ledger) : EntryHolds(k)
    /\ PendingHolds
    /\ AttemptsBounded
    /\ ObservedBeforeRetry

\* What was applied shows, until others move it; nothing ever comes back.
WorldHolds ==
    /\ world \in [head : {"baseline", "commit", "other"}, remote : {"none", "commit", "other"},
                  base : {"baseline", "other"}, ticket : {"started", "completed", "other"}]
    /\ applied \in [Effects -> {0, 1}]
    /\ world.head = "baseline" => applied["commit"] = 0
    /\ world.head = "commit" => applied["commit"] = 1
    /\ world.remote = "none" => applied["push"] = 0
    /\ world.remote = "commit" => applied["push"] = 1
    /\ world.ticket = "started" => applied["complete"] = 0
    /\ world.ticket = "completed" => applied["complete"] = 1
    /\ applied["push"] = 1 => applied["commit"] = 1
    /\ applied["complete"] = 1 => applied["push"] = 1

Truth == RecordedIsReal /\ EffectsAreIntended

\* A process works on an entry of its kind.  One whose generation is current
\* acts on an active run that need not wait, and what it found still holds.
ProcHolds(f) ==
    LET p == proc[f]
        e == run.ledger[p.effect]
    IN  /\ p.pc \notin {"idle", "invoke", "call"} => p.fresh
        /\ p.fresh /\ p.pc \in {"act", "invoke", "observe", "record", "finish", "escalate"} =>
              run.disposition = "ACTIVE" /\ ~backoff
        /\ p.pc \in {"invoke", "observe", "record", "call", "accept"} =>
              p.effect \in 1 .. Len(run.ledger) /\ (p.fresh => ~Reconciled(p.effect))
        /\ p.pc \in {"call", "accept"} =>
              e.op \in {"projection", "complete"} /\ (p.fresh => p.effect = run.pending)
        /\ p.pc = "invoke" => e.op \in GitOps
        /\ p.pc = "observe" => e.op \in GitOps \cup {"reconcile"}
        /\ p.pc = "record" =>
              /\ e.op \in GitOps \cup {"reconcile"} /\ p.result \in {"SUCCESS", "FAILURE", "UNKNOWN"}
              /\ e.op = "reconcile" => p.result # "FAILURE"
              /\ p.result = "SUCCESS" => applied[Operation(p.effect)] = 1
        /\ p.pc = "accept" =>
              p.result # "none" /\ (e.op = "complete" /\ p.result = "SUCCESS" => applied["complete"] = 1)
        /\ p.pc = "finish" => run.recorded = Effects

IInv ==
    /\ RunHolds /\ WorldHolds /\ Truth
    /\ proc \in [Launchers -> Proc]
    /\ \A f \in Launchers : ProcHolds(f)

-----------------------------------------------------------------------------
(* The ledger *)

Entries == \A k \in 1 .. Len(run.ledger) : EntryHolds(k)

\* What a save keeps: entries stay what they are, and what is reconciled or
\* recorded stays so.
Kept ==
    /\ Len(run.ledger) <= Len(run'.ledger)
    /\ \A k \in 1 .. Len(run.ledger) :
          /\ run'.ledger[k].op = run.ledger[k].op
          /\ run'.ledger[k].of = run.ledger[k].of
          /\ Reconciled(k) => run'.ledger[k].outcome = run.ledger[k].outcome
    /\ run.recorded \subseteq run'.recorded

LEMMA LedgerType ==
    ASSUME run \in Run
    PROVE  /\ run.ledger \in Seq(Entry) /\ Len(run.ledger) \in Nat
           /\ DOMAIN run.ledger = 1 .. Len(run.ledger)
           /\ \A k \in 1 .. Len(run.ledger) : run.ledger[k] \in Entry
           /\ run.recorded \subseteq Effects
  BY DEF Run

\* Attempts are entries, so there are finitely many.
LEMMA AttemptsFinite ==
    ASSUME run \in Run, NEW op
    PROVE  /\ Attempts(op) \subseteq 1 .. Len(run.ledger) /\ IsFiniteSet(Attempts(op))
           /\ Cardinality(Attempts(op)) \in Nat
  <1>1. Attempts(op) \in SUBSET (1 .. Len(run.ledger)) /\ Len(run.ledger) \in Int
    BY LedgerType DEF Attempts
  <1>2. IsFiniteSet(1 .. Len(run.ledger))
    BY <1>1, FS_Interval
  <1> QED
    BY <1>1, <1>2, FS_Subset, FS_CardinalityType

\* A save that leaves the ledger alone.
LEMMA SameLedger ==
    ASSUME RunHolds, run' \in Run, run'.ledger = run.ledger, run.recorded \subseteq run'.recorded
    PROVE  Kept /\ Entries' /\ AttemptsBounded' /\ ObservedBeforeRetry'
           /\ \A op \in Effects : Attempts(op)' = Attempts(op)
  <1>1. run \in Run /\ Entries
    BY DEF RunHolds, Entries
  <1>2. Kept
    BY <1>1, LedgerType DEF Kept
  <1>3. Entries'
    BY <1>1, LedgerType DEF Entries, EntryHolds, Reconciled, Operation
  <1>4. \A op \in Effects : Attempts(op)' = Attempts(op)
    BY DEF Attempts
  <1>5. AttemptsBounded'
    BY <1>4 DEF RunHolds, AttemptsBounded
  <1>6. ObservedBeforeRetry'
    BY DEF RunHolds, ObservedBeforeRetry, Attempts, Reconciled
  <1> QED
    BY <1>2, <1>3, <1>4, <1>5, <1>6

\* A new entry: an attempt that may be made, or a second look at one.
LEMMA AppendLedger ==
    ASSUME RunHolds, NEW op \in Ops, NEW of \in Nat, run' \in Run,
           run'.ledger = Append(run.ledger, Intention(op, of)), run'.recorded = run.recorded,
           of # 0 <=> op = "reconcile",
           of # 0 => of \in 1 .. Len(run.ledger) /\ run.ledger[of].op \in GitOps /\ Reconciled(of),
           op = "complete" => GitOps \subseteq run.recorded,
           op \in Effects => ~Exhausted(op),
           op \in GitOps => MayRetry(op) /\ op \notin run.recorded
    PROVE  /\ Kept /\ Entries' /\ AttemptsBounded' /\ ObservedBeforeRetry'
           /\ \A o \in Effects : Attempts(o) \subseteq Attempts(o)'
           /\ Len(run'.ledger) = Len(run.ledger) + 1
           /\ run'.ledger[Len(run.ledger) + 1] = Intention(op, of)
  <1> PICK n : n = Len(run.ledger)
    OBVIOUS
  <1>1. run \in Run /\ Entries /\ n \in Nat /\ run.ledger \in Seq(Entry)
    BY LedgerType DEF RunHolds, Entries
  <1>2. /\ Len(run'.ledger) = n + 1 /\ run'.ledger[n + 1] = Intention(op, of)
        /\ \A k \in 1 .. n : run'.ledger[k] = run.ledger[k]
    BY <1>1
  <1>3. /\ Intention(op, of).op = op /\ Intention(op, of).of = of /\ Intention(op, of).outcome = "none"
    BY DEF Intention
  <1>4. Kept
    BY <1>1, <1>2 DEF Kept
  <1>5. ASSUME NEW k \in 1 .. n PROVE EntryHolds(k)'
    <2>1. EntryHolds(k) /\ run.ledger[k] \in Entry /\ run'.ledger[k] = run.ledger[k]
      BY <1>1, <1>2, LedgerType DEF Entries
    <2>2. run.ledger[k].of # 0 => run'.ledger[run.ledger[k].of] = run.ledger[run.ledger[k].of]
      BY <1>1, <1>2, <2>1 DEF EntryHolds, Entry
    <2> QED
      BY <2>1, <2>2 DEF EntryHolds, Reconciled, Operation
  <1>6. EntryHolds(n + 1)'
    <2>1. run'.ledger[n + 1].op = op /\ run'.ledger[n + 1].of = of /\ run'.ledger[n + 1].outcome = "none"
      BY <1>2, <1>3
    <2>2. of < n + 1 /\ (of # 0 => run'.ledger[of] = run.ledger[of])
      BY <1>1, <1>2
    <2> QED
      BY <1>1, <2>1, <2>2 DEF EntryHolds, Reconciled
  <1>7. Entries'
    <2> SUFFICES ASSUME NEW k \in 1 .. n + 1 PROVE EntryHolds(k)'
      BY <1>2 DEF Entries
    <2>1. k \in 1 .. n \/ k = n + 1
      BY <1>1
    <2> QED
      BY <1>5, <1>6, <2>1
  <1>8. \A o \in Effects : Attempts(o)' = IF o = op THEN Attempts(o) \cup {n + 1} ELSE Attempts(o)
    BY <1>1, <1>2, <1>3, LedgerType DEF Attempts
  <1>9. AttemptsBounded'
    <2> SUFFICES ASSUME NEW o \in Effects PROVE Cardinality(Attempts(o)') <= MaxInvocations
      BY DEF AttemptsBounded
    <2>1. CASE o = op
      <3>1. Cardinality(Attempts(o)) < MaxInvocations
        BY <1>1, <2>1, AttemptsFinite, FinalizerAssumption DEF Exhausted
      <3>2. PICK A : A = Attempts(o)
        OBVIOUS
      <3>3. IsFiniteSet(A) /\ Cardinality(A) \in Nat /\ Cardinality(A) < MaxInvocations
        BY <1>1, <3>1, <3>2, AttemptsFinite
      <3>4. PICK x : x = n + 1
        OBVIOUS
      <3>5. Cardinality(A \cup {x}) = Cardinality(A) \/ Cardinality(A \cup {x}) = Cardinality(A) + 1
        BY <3>3, FS_AddElement
      <3>6. Cardinality(A \cup {n + 1}) <= Cardinality(A) + 1
        BY <3>3, <3>4, <3>5
      <3>7. Cardinality(A \cup {n + 1}) \in Nat
        BY <3>3, <3>4, <3>5
      <3>8. Cardinality(A \cup {n + 1}) <= MaxInvocations
        BY <3>3, <3>6, <3>7, FinalizerAssumption
      <3>9. Attempts(o)' = A \cup {n + 1}
        BY <1>8, <2>1, <3>2
      <3> QED
        BY <3>8, <3>9
    <2>2. CASE o # op
      BY <1>8, <2>2 DEF RunHolds, AttemptsBounded
    <2> QED
      BY <2>1, <2>2
  <1>10. ObservedBeforeRetry'
    <2> SUFFICES ASSUME NEW o \in GitOps, NEW i \in Attempts(o)', NEW j \in Attempts(o)', i < j
                 PROVE  /\ run'.ledger[i].outcome # "none"
                        /\ \E k \in i + 1 .. j - 1 : run'.ledger[k].of = i /\ run'.ledger[k].outcome = "UNKNOWN"
      BY DEF ObservedBeforeRetry, Reconciled, GitOps
    <2>1. o \in Effects /\ i \in Attempts(o) /\ i \in 1 .. n /\ run'.ledger[i] = run.ledger[i]
      BY <1>1, <1>2, <1>8, AttemptsFinite DEF GitOps, Effects
    <2>2. ASSUME NEW m \in Attempts(o), i < m, m <= j
          PROVE  /\ run'.ledger[i].outcome # "none"
                 /\ \E k \in i + 1 .. j - 1 : run'.ledger[k].of = i /\ run'.ledger[k].outcome = "UNKNOWN"
      <3>1. m \in 1 .. n
        BY <1>1, AttemptsFinite
      <3>2. Reconciled(i) /\ \E k \in i + 1 .. m - 1 : run.ledger[k].of = i /\ run.ledger[k].outcome = "UNKNOWN"
        BY <2>1, <2>2 DEF RunHolds, ObservedBeforeRetry, GitOps
      <3>3. PICK k \in i + 1 .. m - 1 : run.ledger[k].of = i /\ run.ledger[k].outcome = "UNKNOWN"
        BY <3>2
      <3>4. k \in 1 .. n /\ j \in Int
        BY <1>1, <1>8, <2>1, <3>1, AttemptsFinite
      <3>5. k \in i + 1 .. j - 1 /\ run'.ledger[k] = run.ledger[k]
        BY <1>2, <2>1, <2>2, <3>1, <3>4
      <3> QED
        BY <2>1, <3>2, <3>3, <3>5 DEF Reconciled
    <2>3. CASE j \in Attempts(o)
      <3>1. j \in Int
        BY <1>1, <2>3, AttemptsFinite
      <3>2. PICK m \in Attempts(o) : m = j
        BY <2>3
      <3>3. i < m /\ m <= j
        BY <3>1, <3>2
      <3> QED
        BY <2>2, <3>3
    <2>4. CASE j \notin Attempts(o)
      <3>1. j = n + 1 /\ o = op
        BY <1>8, <2>1, <2>4
      <3>2. CASE \E m \in Attempts(o) : i < m
        <4>1. PICK m \in Attempts(o) : i < m
          BY <3>2
        <4>2. m <= j
          BY <1>1, <3>1, <4>1, AttemptsFinite
        <4> QED
          BY <2>2, <4>1, <4>2
      <3>3. CASE \A m \in Attempts(o) : ~(i < m)
        <4>1. i \in Latest(o)
          BY <1>1, <2>1, <3>3, AttemptsFinite DEF Latest
        <4>2. PICK k \in DOMAIN run.ledger : run.ledger[k].of = i /\ Reconciled(k)
          BY <3>1, <4>1 DEF MayRetry, Observed
        <4>3. k \in 1 .. n /\ EntryHolds(k) /\ run.ledger[k] \in Entry /\ run'.ledger[k] = run.ledger[k]
          BY <1>1, <1>2, <4>2, LedgerType DEF Entries
        <4>4. run.ledger[i].op = o
          BY <2>1 DEF Attempts
        <4>5. i < k /\ Reconciled(i) /\ run.ledger[k].op = "reconcile" /\ Operation(k) = o
          BY <2>1, <4>2, <4>3, <4>4 DEF EntryHolds, Operation
        <4>6. run.ledger[k].outcome = "UNKNOWN"
          BY <3>1, <4>2, <4>3, <4>5 DEF EntryHolds, Reconciled, Entry, Outcomes
        <4>7. k \in i + 1 .. j - 1
          BY <1>1, <2>1, <3>1, <4>3, <4>5
        <4> QED
          BY <2>1, <4>2, <4>3, <4>5, <4>6, <4>7 DEF Reconciled
      <3> QED
        BY <3>2, <3>3
    <2> QED
      BY <2>3, <2>4
  <1> QED
    BY <1>2, <1>4, <1>7, <1>8, <1>9, <1>10

\* An open entry is reconciled; a success is recorded with it.
LEMMA CloseEntry ==
    ASSUME RunHolds, NEW i \in 1 .. Len(run.ledger), ~Reconciled(i),
           NEW out \in Outcomes \ {"none"}, run' \in Run,
           run'.ledger = [run.ledger EXCEPT ![i].outcome = out], run.recorded \subseteq run'.recorded,
           run.ledger[i].op \in GitOps \cup {"reconcile"} /\ out = "SUCCESS" => Operation(i) \in run'.recorded,
           run.ledger[i].op = "reconcile" => out # "FAILURE"
    PROVE  /\ Kept /\ Entries' /\ AttemptsBounded' /\ ObservedBeforeRetry'
           /\ \A op \in Effects : Attempts(op)' = Attempts(op)
           /\ Len(run'.ledger) = Len(run.ledger)
  <1> DEFINE n == Len(run.ledger)
  <1>1. run \in Run /\ Entries /\ n \in Nat /\ run.ledger \in Seq(Entry)
    BY LedgerType DEF RunHolds, Entries
  <1>2. /\ Len(run'.ledger) = n
        /\ \A k \in 1 .. n : k # i => run'.ledger[k] = run.ledger[k]
        /\ run'.ledger[i] = [run.ledger[i] EXCEPT !.outcome = out]
    BY <1>1
  <1>3. run.ledger[i] \in Entry
    BY <1>1, LedgerType
  <1>4. /\ run'.ledger[i].op = run.ledger[i].op /\ run'.ledger[i].of = run.ledger[i].of
        /\ run'.ledger[i].outcome = out
    BY <1>2, <1>3 DEF Entry
  <1>5. \A k \in 1 .. n : /\ run'.ledger[k].op = run.ledger[k].op
                          /\ run'.ledger[k].of = run.ledger[k].of
                          /\ Reconciled(k) => run'.ledger[k].outcome = run.ledger[k].outcome
    BY <1>2, <1>4
  <1>6. Kept
    BY <1>1, <1>2, <1>5 DEF Kept
  <1>7. ASSUME NEW k \in 1 .. n PROVE EntryHolds(k)'
    <2>1. EntryHolds(k) /\ run.ledger[k] \in Entry
      BY <1>1, LedgerType DEF Entries
    <2>2. /\ run'.ledger[k].op = run.ledger[k].op
          /\ run'.ledger[k].of = run.ledger[k].of
          /\ k # i => run'.ledger[k].outcome = run.ledger[k].outcome
      BY <1>2, <1>5
    <2>3. run.ledger[k].of # 0 => /\ run.ledger[k].of \in 1 .. n
                                  /\ run'.ledger[run.ledger[k].of].op = run.ledger[run.ledger[k].of].op
                                  /\ run'.ledger[run.ledger[k].of].outcome # "none"
      BY <1>1, <1>5, <2>1 DEF EntryHolds, Entry, Reconciled
    <2>4. Operation(k)' = Operation(k)
      BY <2>2, <2>3 DEF Operation
    <2>5. CASE k = i
      BY <1>4, <2>1, <2>2, <2>3, <2>4, <2>5 DEF EntryHolds, Reconciled
    <2>6. CASE k # i
      BY <2>1, <2>2, <2>3, <2>4, <2>6 DEF EntryHolds, Reconciled
    <2> QED
      BY <2>5, <2>6
  <1>8. Entries'
    BY <1>2, <1>7 DEF Entries
  <1>9. \A op \in Effects : Attempts(op)' = Attempts(op)
    BY <1>1, <1>2, <1>5, LedgerType DEF Attempts
  <1>10. AttemptsBounded'
    BY <1>9 DEF RunHolds, AttemptsBounded
  <1>11. ObservedBeforeRetry'
    <2> SUFFICES ASSUME NEW o \in GitOps, NEW a \in Attempts(o), NEW b \in Attempts(o), a < b
                 PROVE  /\ run'.ledger[a].outcome # "none"
                        /\ \E k \in a + 1 .. b - 1 : run'.ledger[k].of = a /\ run'.ledger[k].outcome = "UNKNOWN"
      BY <1>9 DEF ObservedBeforeRetry, Reconciled, GitOps, Effects
    <2>1. a \in 1 .. n /\ b \in 1 .. n
      BY <1>1, AttemptsFinite
    <2>2. Reconciled(a) /\ \E k \in a + 1 .. b - 1 : run.ledger[k].of = a /\ run.ledger[k].outcome = "UNKNOWN"
      BY DEF RunHolds, ObservedBeforeRetry, GitOps
    <2>3. PICK k \in a + 1 .. b - 1 : run.ledger[k].of = a /\ run.ledger[k].outcome = "UNKNOWN"
      BY <2>2
    <2>4. k \in 1 .. n /\ Reconciled(k)
      BY <1>1, <2>1, <2>3 DEF Reconciled
    <2> QED
      BY <1>5, <2>1, <2>2, <2>3, <2>4 DEF Reconciled
  <1> QED
    BY <1>2, <1>6, <1>8, <1>9, <1>10, <1>11

-----------------------------------------------------------------------------
(* Frames *)

LEMMA IdleProc == Idle \in Proc /\ Idle.pc = "idle" /\ Idle.fresh = FALSE
  BY DEF Idle, Proc, Pcs

\* A process whose generation became stale only has a call left to make.
LEMMA OthersStale ==
    ASSUME IInv, Kept, run' \in Run, NEW g \in Launchers, proc'[g] = Stale(proc[g])
    PROVE  ProcHolds(g)' /\ proc'[g] \in Proc
  <1>1. proc[g] \in Proc /\ ProcHolds(g) /\ run \in Run
    BY DEF IInv, RunHolds
  <1>2. CASE proc[g].pc \in {"invoke", "call"}
    <2>1. proc'[g] = [proc[g] EXCEPT !.fresh = FALSE]
      BY <1>2 DEF Stale
    <2>2. /\ proc'[g] \in Proc /\ proc'[g].fresh = FALSE /\ proc'[g].pc = proc[g].pc
          /\ proc'[g].effect = proc[g].effect
      BY <1>1, <2>1 DEF Proc
    <2>3. proc[g].effect \in 1 .. Len(run.ledger)
      BY <1>1, <1>2 DEF ProcHolds
    <2>4. proc[g].effect \in 1 .. Len(run'.ledger) /\ run'.ledger[proc[g].effect].op = run.ledger[proc[g].effect].op
      BY <1>1, <2>3, LedgerType DEF Kept, Run
    <2> QED
      BY <1>1, <1>2, <2>2, <2>4 DEF ProcHolds
  <1>3. CASE proc[g].pc \notin {"invoke", "call"}
    <2>1. proc'[g] = Idle
      BY <1>3 DEF Stale
    <2> QED
      BY <2>1, IdleProc DEF ProcHolds
  <1> QED
    BY <1>2, <1>3

\* Process f has saved and goes on with p.
SavedBy(f, p) == proc' = [g \in Launchers |-> IF g # f THEN Stale(proc[g]) ELSE p]

\* A save: what its process goes on with holds, everybody else became stale.
LEMMA SaveStep ==
    ASSUME IInv, NEW f \in Launchers, NEW p \in Proc,
           SavedBy(f, p),
           UNCHANGED outside, RunHolds', Kept,
           \A op \in Effects : Attempts(op) \subseteq Attempts(op)',
           \A op \in run'.recorded : applied[op] = 1,
           ProcHolds(f)'
    PROVE  IInv'
  <1>1. proc'[f] = p /\ \A g \in Launchers \ {f} : proc'[g] = Stale(proc[g])
    BY DEF SavedBy
  <1>2. \A g \in Launchers \ {f} : ProcHolds(g)' /\ proc'[g] \in Proc
    BY <1>1, OthersStale DEF RunHolds
  <1>3. proc' \in [Launchers -> Proc]
    BY <1>1, <1>2 DEF SavedBy
  <1>4. WorldHolds'
    BY DEF IInv, WorldHolds, outside
  <1>5. Truth'
    BY DEF IInv, Truth, RecordedIsReal, EffectsAreIntended, outside
  <1> QED
    BY <1>2, <1>3, <1>4, <1>5 DEF IInv

\* A step of one process that saves nothing; what is applied stays applied.
LEMMA LocalStep ==
    ASSUME IInv, NEW f \in Launchers, NEW p \in Proc, proc' = [proc EXCEPT ![f] = p],
           UNCHANGED <<run, backoff>>, WorldHolds',
           \A op \in Effects : applied[op] = 1 => applied'[op] = 1,
           \A op \in Effects : applied'[op] > 0 => Attempts(op) # {},
           ProcHolds(f)'
    PROVE  IInv'
  <1>1. /\ proc' \in [Launchers -> Proc] /\ proc'[f] = p
        /\ \A g \in Launchers \ {f} : proc'[g] = proc[g]
    BY DEF IInv
  <1>2. RunHolds'
    BY DEF IInv, RunHolds, EntryHolds, Reconciled, Operation, PendingHolds, AttemptsBounded, Attempts,
           ObservedBeforeRetry
  <1>3. run.recorded \subseteq Effects
    BY LedgerType DEF IInv, RunHolds
  <1>4. Truth'
    BY <1>3 DEF IInv, Truth, RecordedIsReal, EffectsAreIntended, Attempts
  <1>5. ASSUME NEW g \in Launchers, g # f PROVE ProcHolds(g)'
    <2>1. ProcHolds(g) /\ proc'[g] = proc[g]
      BY <1>1, <1>5 DEF IInv
    <2>2. proc[g].pc = "record" => Operation(proc[g].effect) \in Effects
      <3> SUFFICES ASSUME proc[g].pc = "record" PROVE Operation(proc[g].effect) \in Effects
        OBVIOUS
      <3>1. /\ proc[g].effect \in 1 .. Len(run.ledger)
            /\ run.ledger[proc[g].effect].op \in GitOps \cup {"reconcile"}
        BY <2>1 DEF ProcHolds
      <3>2. EntryHolds(proc[g].effect)
        BY <3>1 DEF IInv, RunHolds
      <3> QED
        BY <3>1, <3>2 DEF EntryHolds, Operation, GitOps, Effects
    <2>3. Operation(proc[g].effect)' = Operation(proc[g].effect)
      BY <2>1 DEF Operation
    <2> QED
      BY <2>1, <2>2, <2>3 DEF ProcHolds, Reconciled, Effects
  <1> QED
    BY <1>1, <1>2, <1>4, <1>5 DEF IInv

\* The same, outside left alone.
LEMMA QuietStep ==
    ASSUME IInv, NEW f \in Launchers, NEW p \in Proc, proc' = [proc EXCEPT ![f] = p],
           UNCHANGED <<run, backoff, outside>>, ProcHolds(f)'
    PROVE  IInv'
  <1>1. WorldHolds'
    BY DEF IInv, WorldHolds, outside
  <1> QED
    BY <1>1, LocalStep DEF outside, IInv, Truth, EffectsAreIntended

LEMMA GoneIdle ==
    ASSUME IInv, NEW f \in Launchers, proc' = [proc EXCEPT ![f] = Idle],
           UNCHANGED <<run, backoff, outside>>
    PROVE  IInv'
  <1>1. proc'[f] = Idle
    BY DEF IInv
  <1>2. ProcHolds(f)'
    BY <1>1, IdleProc DEF ProcHolds
  <1> QED
    BY <1>2, IdleProc, QuietStep

\* A process goes on to think of something else.
LEMMA GotoStep ==
    ASSUME IInv, NEW f \in Launchers, NEW pc \in {"idle", "act", "finish", "escalate"}, Goto(f, pc),
           UNCHANGED <<run, backoff, outside>>, proc[f].fresh,
           pc # "idle" => run.disposition = "ACTIVE" /\ ~backoff,
           pc = "finish" => run.recorded = Effects
    PROVE  IInv'
  <1>1. proc \in [Launchers -> Proc] /\ proc[f] \in Proc
    BY DEF IInv
  <1>2. CASE pc = "idle"
    BY <1>2, GoneIdle DEF Goto
  <1>3. CASE pc # "idle"
    <2>1. PICK p : p = [proc[f] EXCEPT !.pc = pc]
      OBVIOUS
    <2>2. p \in Proc /\ p.pc = pc /\ p.fresh /\ proc' = [proc EXCEPT ![f] = p]
      BY <1>1, <1>3, <2>1 DEF Proc, Pcs, Goto
    <2>3. proc'[f] = p
      BY <1>1, <2>2
    <2>4. ProcHolds(f)'
      BY <1>3, <2>2, <2>3 DEF ProcHolds
    <2> QED
      BY <2>2, <2>4, QuietStep
  <1> QED
    BY <1>2, <1>3

-----------------------------------------------------------------------------
(* Commands, and steps that save nothing *)

LEMMA CommandInv == ASSUME IInv, NEW f \in Launchers, Command(f) PROVE IInv'
  <1>1. UNCHANGED <<run, backoff, outside>>
    BY DEF Command, Finalize, Receipt, Start
  <1>2. proc \in [Launchers -> Proc] /\ RunHolds /\ PendingHolds
    BY DEF IInv, RunHolds
  <1>3. CASE Finalize(f)
    <2>1. PICK p : p = [Idle EXCEPT !.pc = "check", !.fresh = TRUE]
      OBVIOUS
    <2>2. p \in Proc /\ p.pc = "check" /\ p.fresh
      BY <2>1 DEF Idle, Proc, Pcs
    <2>3. proc' = [proc EXCEPT ![f] = p]
      BY <1>3, <2>1 DEF Finalize
    <2>4. proc'[f] = p
      BY <1>2, <2>3
    <2>5. ProcHolds(f)'
      BY <2>2, <2>4 DEF ProcHolds
    <2> QED
      BY <1>1, <2>2, <2>3, <2>5, QuietStep
  <1>4. CASE Receipt(f)
    <2>1. PICK p : p = [Idle EXCEPT !.pc = "call", !.fresh = TRUE, !.effect = run.pending]
      OBVIOUS
    <2>2. run.pending # 0 /\ run.pending \in 1 .. Len(run.ledger) /\ run.pending \in Nat
      BY <1>2, <1>4, LedgerType DEF Receipt, PendingHolds, RunHolds
    <2>3. p \in Proc /\ p.pc = "call" /\ p.fresh /\ p.effect = run.pending
      BY <2>1, <2>2 DEF Idle, Proc, Pcs
    <2>4. proc' = [proc EXCEPT ![f] = p]
      BY <1>4, <2>1 DEF Receipt
    <2>5. proc'[f] = p
      BY <1>2, <2>4
    <2>6. ProcHolds(f)'
      BY <1>1, <1>2, <2>2, <2>3, <2>5 DEF ProcHolds, PendingHolds, Reconciled
    <2> QED
      BY <1>1, <2>3, <2>4, <2>6, QuietStep
  <1> QED
    BY <1>3, <1>4 DEF Command

LEMMA ChecksInv ==
    ASSUME IInv, NEW f \in Launchers,
           NotReady(f) \/ VerifyPosition(f) \/ GiveUp(f) \/ Confirm(f)
    PROVE  IInv'
  <1>1. UNCHANGED <<run, backoff, outside>> /\ proc \in [Launchers -> Proc] /\ ProcHolds(f)
    BY DEF IInv, NotReady, VerifyPosition, GiveUp, Confirm
  <1>2. CASE NotReady(f)
    BY <1>1, <1>2, GoneIdle DEF NotReady, Goto
  <1>3. CASE VerifyPosition(f)
    <2>1. Goto(f, "act") \/ Goto(f, "escalate")
      BY <1>3 DEF VerifyPosition
    <2>2. proc[f].fresh /\ run.disposition = "ACTIVE" /\ ~backoff
      BY <1>1, <1>3 DEF VerifyPosition, Ready, At, ProcHolds
    <2> QED
      BY <1>1, <2>1, <2>2, GotoStep
  <1>4. CASE GiveUp(f) \/ Confirm(f)
    <2>1. Goto(f, "escalate") \/ (Goto(f, "finish") /\ run.recorded = Effects)
      BY <1>4 DEF GiveUp, Confirm
    <2>2. proc[f].fresh /\ run.disposition = "ACTIVE" /\ ~backoff
      BY <1>1, <1>4 DEF GiveUp, Confirm, At, ProcHolds
    <2> QED
      BY <1>1, <2>1, <2>2, GotoStep
  <1> QED
    BY <1>2, <1>3, <1>4

\* The unreconciled attempt of a process that died is looked at as it is.
LEMMA ObserveOpenInv == ASSUME IInv, NEW f \in Launchers, ObserveOpen(f) PROVE IInv'
  <1>0. PICK op \in GitOps : \E i \in Latest(op) :
            /\ At(f, "act") /\ ~Reconciled(i)
            /\ proc' = [proc EXCEPT ![f].pc = "observe", ![f].effect = i]
            /\ UNCHANGED <<run, backoff, outside, bounds>>
    BY DEF ObserveOpen, GitOps
  <1>1. PICK i \in Latest(op) :
            /\ At(f, "act") /\ ~Reconciled(i)
            /\ proc' = [proc EXCEPT ![f].pc = "observe", ![f].effect = i]
            /\ UNCHANGED <<run, backoff, outside>>
    BY <1>0
  <1>2. proc \in [Launchers -> Proc] /\ proc[f] \in Proc /\ ProcHolds(f) /\ run \in Run
    BY DEF IInv, RunHolds
  <1>3. i \in 1 .. Len(run.ledger) /\ run.ledger[i].op = op /\ i \in Nat
    BY <1>1, <1>2, AttemptsFinite, LedgerType DEF Latest, Attempts
  <1>4. PICK p : p = [proc[f] EXCEPT !.pc = "observe", !.effect = i]
    OBVIOUS
  <1>5. /\ p \in Proc /\ p.pc = "observe" /\ p.effect = i /\ p.fresh = proc[f].fresh
        /\ proc' = [proc EXCEPT ![f] = p]
    BY <1>1, <1>2, <1>3, <1>4 DEF Proc, Pcs
  <1>6. proc'[f] = p /\ proc[f].fresh /\ run.disposition = "ACTIVE" /\ ~backoff
    BY <1>1, <1>2, <1>5 DEF ProcHolds, At
  <1>7. ProcHolds(f)'
    BY <1>1, <1>3, <1>5, <1>6 DEF ProcHolds, Reconciled
  <1> QED
    BY <1>1, <1>5, <1>7, QuietStep

\* A call or a look has come back.
LEMMA ReturnedJob ==
    ASSUME IInv, NEW f \in Launchers, NEW pc \in Pcs,
           NEW result \in {"SUCCESS", "FAILURE", "UNKNOWN", "RETRY_AFTER", "OTHER_STATE"},
           Returned(f, pc, result)
    PROVE  \E p \in Proc :
              /\ proc' = [proc EXCEPT ![f] = p]
              /\ \/ p = Idle
                 \/ /\ proc[f].fresh /\ p.fresh /\ p.pc = pc /\ p.result = result
                    /\ p.effect = proc[f].effect
  <1>1. proc \in [Launchers -> Proc] /\ proc[f] \in Proc
    BY DEF IInv
  <1>2. CASE proc[f].fresh
    <2>1. PICK p : p = [proc[f] EXCEPT !.pc = pc, !.result = result]
      OBVIOUS
    <2>2. /\ p \in Proc /\ p.fresh /\ p.pc = pc /\ p.result = result /\ p.effect = proc[f].effect
          /\ proc' = [proc EXCEPT ![f] = p]
      BY <1>1, <1>2, <2>1 DEF Proc, Returned
    <2> QED
      BY <1>2, <2>2
  <1>3. CASE ~proc[f].fresh
    BY <1>1, <1>3, IdleProc DEF Returned
  <1> QED
    BY <1>2, <1>3

\* The effect that a process looks at or makes is one of Git's.
LEMMA GitEffect ==
    ASSUME IInv, NEW f \in Launchers, proc[f].pc \in {"invoke", "observe", "record"}
    PROVE  /\ Operation(proc[f].effect) \in GitOps
           /\ proc[f].pc = "invoke" => proc[f].effect \in Attempts(Operation(proc[f].effect))
  <1>1. /\ proc[f].effect \in 1 .. Len(run.ledger)
        /\ run.ledger[proc[f].effect].op \in GitOps \cup {"reconcile"}
        /\ proc[f].pc = "invoke" => run.ledger[proc[f].effect].op \in GitOps
    BY DEF IInv, ProcHolds
  <1>2. EntryHolds(proc[f].effect) /\ run \in Run
    BY <1>1 DEF IInv, RunHolds
  <1> QED
    BY <1>1, <1>2, LedgerType DEF EntryHolds, Operation, GitOps, Attempts

LEMMA ObserveInv == ASSUME IInv, NEW f \in Launchers, Observe(f) PROVE IInv'
  <1>1. UNCHANGED <<run, backoff, outside>> /\ proc[f].pc = "observe"
        /\ proc \in [Launchers -> Proc] /\ ProcHolds(f) /\ WorldHolds
    BY DEF IInv, Observe, At
  <1>2. PICK result \in {"SUCCESS", "UNKNOWN"} :
            Returned(f, "record", result) /\ (result = "SUCCESS" => Done(Operation(proc[f].effect)))
    BY DEF Observe, Seen
  <1>3. PICK p \in Proc :
              /\ proc' = [proc EXCEPT ![f] = p]
              /\ \/ p = Idle
                 \/ /\ proc[f].fresh /\ p.fresh /\ p.pc = "record" /\ p.result = result
                    /\ p.effect = proc[f].effect
    BY <1>2, ReturnedJob DEF Pcs
  <1>4. proc'[f] = p
    BY <1>1, <1>3
  <1>5. result = "SUCCESS" => applied[Operation(proc[f].effect)] = 1
    BY <1>1, <1>2, GitEffect DEF Done, GitOps, WorldHolds
  <1>6. CASE p = Idle
    BY <1>1, <1>3, <1>6, GoneIdle
  <1>7. CASE p # Idle
    <2>1. Operation(p.effect)' = Operation(proc[f].effect)
      BY <1>1, <1>3, <1>7 DEF Operation
    <2>2. ProcHolds(f)'
      BY <1>1, <1>2, <1>3, <1>4, <1>5, <1>7, <2>1 DEF ProcHolds, Reconciled, outside
    <2> QED
      BY <1>1, <1>3, <2>2, QuietStep
  <1> QED
    BY <1>6, <1>7

LEMMA QueryInv == ASSUME IInv, NEW f \in Launchers, QueryProjection(f) PROVE IInv'
  <1>1. UNCHANGED <<run, backoff, outside>> /\ proc[f].pc = "call" /\ run.ledger[proc[f].effect].op = "projection"
        /\ proc \in [Launchers -> Proc] /\ ProcHolds(f)
    BY DEF IInv, QueryProjection, At
  <1>2. PICK result \in {"SUCCESS", "FAILURE", "OTHER_STATE"} : Returned(f, "accept", result)
    BY DEF QueryProjection
  <1>3. PICK p \in Proc :
              /\ proc' = [proc EXCEPT ![f] = p]
              /\ \/ p = Idle
                 \/ /\ proc[f].fresh /\ p.fresh /\ p.pc = "accept" /\ p.result = result
                    /\ p.effect = proc[f].effect
    BY <1>2, ReturnedJob DEF Pcs
  <1>4. proc'[f] = p
    BY <1>1, <1>3
  <1>5. CASE p = Idle
    BY <1>1, <1>3, <1>5, GoneIdle
  <1>6. CASE p # Idle
    <2>1. ProcHolds(f)'
      BY <1>1, <1>2, <1>3, <1>4, <1>6 DEF ProcHolds, Reconciled
    <2> QED
      BY <1>1, <1>3, <2>1, QuietStep
  <1> QED
    BY <1>5, <1>6

-----------------------------------------------------------------------------
(* The outside *)

LEMMA PerformHolds ==
    ASSUME WorldHolds, NEW op \in Effects, Perform(op),
           op \in GitOps => Possible(op),
           op = "complete" => world.ticket = "started" /\ applied["push"] = 1
    PROVE  /\ WorldHolds' /\ applied'[op] = 1
           /\ \A o \in Effects : applied[o] = 1 => applied'[o] = 1
           /\ \A o \in Effects : o # op => applied'[o] = applied[o]
  <1>1. /\ applied \in [Effects -> {0, 1}]
        /\ world \in [head : {"baseline", "commit", "other"}, remote : {"none", "commit", "other"},
                      base : {"baseline", "other"}, ticket : {"started", "completed", "other"}]
    BY DEF WorldHolds
  <1>2. CASE op = "commit"
    <2>1. world.head = "baseline" /\ applied["commit"] = 0
      BY <1>2 DEF Possible, GitOps, WorldHolds
    <2>2. world' = [world EXCEPT !.head = "commit"] /\ applied' = [applied EXCEPT !["commit"] = 1]
      BY <1>1, <1>2, <2>1 DEF Perform, Done, Effects
    <2>3. /\ applied' \in [Effects -> {0, 1}] /\ applied'["commit"] = 1
          /\ applied'["push"] = applied["push"] /\ applied'["complete"] = applied["complete"]
      BY <1>1, <2>2 DEF Effects
    <2> QED
      BY <1>1, <1>2, <2>2, <2>3 DEF WorldHolds, Effects
  <1>3. CASE op = "push"
    <2>1. world.head = "commit" /\ applied["commit"] = 1 /\ world.remote # "other"
      BY <1>3 DEF Possible, GitOps, WorldHolds
    <2>2. applied["push"] = IF Done("push") THEN 1 ELSE 0
      BY <1>1, <2>1 DEF WorldHolds, Done
    <2>3. world' = [world EXCEPT !.remote = "commit"] /\ applied' = [applied EXCEPT !["push"] = 1]
      BY <1>1, <1>3, <2>2 DEF Perform, Effects
    <2>4. /\ applied' \in [Effects -> {0, 1}] /\ applied'["push"] = 1
          /\ applied'["commit"] = applied["commit"] /\ applied'["complete"] = applied["complete"]
      BY <1>1, <2>3 DEF Effects
    <2> QED
      BY <1>1, <1>3, <2>1, <2>3, <2>4 DEF WorldHolds, Effects
  <1>4. CASE op = "complete"
    <2>1. world.ticket = "started" /\ applied["complete"] = 0 /\ applied["push"] = 1
      BY <1>4 DEF WorldHolds
    <2>2. world' = [world EXCEPT !.ticket = "completed"] /\ applied' = [applied EXCEPT !["complete"] = 1]
      BY <1>1, <1>4, <2>1 DEF Perform, Done, Effects
    <2>3. /\ applied' \in [Effects -> {0, 1}] /\ applied'["complete"] = 1
          /\ applied'["push"] = applied["push"] /\ applied'["commit"] = applied["commit"]
      BY <1>1, <2>2 DEF Effects
    <2> QED
      BY <1>1, <1>4, <2>1, <2>2, <2>3 DEF WorldHolds, Effects
  <1> QED
    BY <1>2, <1>3, <1>4 DEF Effects

\* What an invocation does to the outside, if anything.
LEMMA InvokeEffect ==
    ASSUME IInv, NEW f \in Launchers, Invoke(f)
    PROVE  LET op == Operation(proc[f].effect)
           IN  /\ op \in GitOps /\ Attempts(op) # {}
               /\ \/ UNCHANGED outside /\ Returned(f, "record", "FAILURE")
                  \/ /\ Perform(op) /\ Possible(op) /\ WorldHolds' /\ applied'[op] = 1
                     /\ \A o \in Effects : applied[o] = 1 => applied'[o] = 1
                     /\ \A o \in Effects : o # op => applied'[o] = applied[o]
                     /\ Returned(f, "record", "SUCCESS") \/ Returned(f, "record", "FAILURE")
  <1>1. proc[f].pc = "invoke" /\ WorldHolds
    BY DEF Invoke, At, IInv
  <1>2. PICK op : op = Operation(proc[f].effect)
    OBVIOUS
  <1>3. op \in GitOps /\ op \in Effects /\ Attempts(op) # {} /\ op # "complete"
    BY <1>1, <1>2, GitEffect DEF GitOps, Effects
  <1>4. \/ UNCHANGED outside /\ Returned(f, "record", "FAILURE")
        \/ /\ Perform(op) /\ Possible(op)
           /\ Returned(f, "record", "SUCCESS") \/ Returned(f, "record", "FAILURE")
    BY <1>2 DEF Invoke
  <1>5. Perform(op) /\ Possible(op) =>
           /\ WorldHolds' /\ applied'[op] = 1
           /\ \A o \in Effects : applied[o] = 1 => applied'[o] = 1
           /\ \A o \in Effects : o # op => applied'[o] = applied[o]
    BY <1>1, <1>3, PerformHolds
  <1> QED
    BY <1>2, <1>3, <1>4, <1>5

LEMMA InvokeInv == ASSUME IInv, NEW f \in Launchers, Invoke(f) PROVE IInv'
  <1>1. PICK op : op = Operation(proc[f].effect)
    OBVIOUS
  <1>2. /\ UNCHANGED <<run, backoff>> /\ proc[f].pc = "invoke"
        /\ proc \in [Launchers -> Proc] /\ ProcHolds(f) /\ WorldHolds /\ EffectsAreIntended
    BY DEF IInv, Truth, Invoke, At
  <1>3. op \in GitOps /\ Attempts(op) # {} /\ op \in Effects
    BY <1>1, InvokeEffect DEF GitOps, Effects
  <1>4. PICK result \in {"SUCCESS", "FAILURE"} :
            /\ Returned(f, "record", result)
            /\ \/ UNCHANGED outside /\ result = "FAILURE"
               \/ /\ WorldHolds' /\ applied'[op] = 1
                  /\ \A o \in Effects : applied[o] = 1 => applied'[o] = 1
                  /\ \A o \in Effects : o # op => applied'[o] = applied[o]
    BY <1>1, InvokeEffect
  <1>5. /\ WorldHolds' /\ (result = "SUCCESS" => applied'[op] = 1)
        /\ \A o \in Effects : applied[o] = 1 => applied'[o] = 1
        /\ \A o \in Effects : applied'[o] > 0 => Attempts(o) # {}
    <2>1. CASE UNCHANGED outside /\ result = "FAILURE"
      BY <1>2, <2>1 DEF outside, WorldHolds, EffectsAreIntended
    <2>2. CASE ~(UNCHANGED outside /\ result = "FAILURE")
      BY <1>2, <1>3, <1>4, <2>2 DEF EffectsAreIntended
    <2> QED
      BY <2>1, <2>2
  <1>6. PICK p \in Proc :
              /\ proc' = [proc EXCEPT ![f] = p]
              /\ \/ p = Idle
                 \/ /\ proc[f].fresh /\ p.fresh /\ p.pc = "record" /\ p.result = result
                    /\ p.effect = proc[f].effect
    BY <1>4, ReturnedJob DEF Pcs
  <1>7. proc'[f] = p
    BY <1>2, <1>6
  <1>8. ProcHolds(f)'
    <2>1. CASE p = Idle
      BY <1>7, <2>1, IdleProc DEF ProcHolds
    <2>2. CASE p # Idle
      <3>1. Operation(p.effect)' = op
        BY <1>1, <1>2, <1>6, <2>2 DEF Operation
      <3> QED
        BY <1>2, <1>5, <1>6, <1>7, <2>2, <3>1 DEF ProcHolds, Reconciled, GitOps
    <2> QED
      BY <2>1, <2>2
  <1> QED
    BY <1>2, <1>5, <1>6, <1>8, LocalStep

\* What a bridge call does to the outside, if anything.
LEMMA CompleteEffect ==
    ASSUME IInv, NEW f \in Launchers, CompleteTicket(f)
    PROVE  /\ Attempts("complete") # {} /\ proc[f].pc = "call"
           /\ \/ /\ UNCHANGED outside
                 /\ \E result \in {"FAILURE", "RETRY_AFTER", "OTHER_STATE"} : Returned(f, "accept", result)
              \/ /\ Perform("complete") /\ applied["push"] = 1 /\ applied["complete"] = 0
                 /\ WorldHolds' /\ applied'["complete"] = 1
                 /\ \A o \in Effects : applied[o] = 1 => applied'[o] = 1
                 /\ \A o \in Effects : o # "complete" => applied'[o] = applied[o]
                 /\ \E result \in {"SUCCESS", "UNKNOWN"} : Returned(f, "accept", result)
  <1>1. proc[f].pc = "call" /\ run.ledger[proc[f].effect].op = "complete" /\ WorldHolds
    BY DEF CompleteTicket, At, IInv
  <1>2. proc[f].effect \in 1 .. Len(run.ledger) /\ run \in Run
    BY <1>1 DEF IInv, ProcHolds, RunHolds
  <1>3. EntryHolds(proc[f].effect) /\ proc[f].effect \in Attempts("complete")
    BY <1>1, <1>2, LedgerType DEF IInv, RunHolds, Attempts
  <1>4. applied["push"] = 1
    BY <1>1, <1>3 DEF EntryHolds, GitOps, IInv, Truth, RecordedIsReal
  <1>5. world.ticket = OriginalState => world.ticket = "started"
    BY <1>1, FinalizerAssumption DEF WorldHolds
  <1>6. Perform("complete") /\ world.ticket = OriginalState =>
           /\ WorldHolds' /\ applied'["complete"] = 1 /\ applied["complete"] = 0
           /\ \A o \in Effects : applied[o] = 1 => applied'[o] = 1
           /\ \A o \in Effects : o # "complete" => applied'[o] = applied[o]
    BY <1>1, <1>4, <1>5, PerformHolds DEF Effects, GitOps, WorldHolds
  <1> QED
    BY <1>1, <1>3, <1>4, <1>6 DEF CompleteTicket

LEMMA CompleteInv == ASSUME IInv, NEW f \in Launchers, CompleteTicket(f) PROVE IInv'
  <1>1. /\ UNCHANGED <<run, backoff>> /\ proc[f].pc = "call"
        /\ proc \in [Launchers -> Proc] /\ ProcHolds(f) /\ WorldHolds /\ EffectsAreIntended
    BY DEF IInv, Truth, CompleteTicket, At
  <1>2. PICK result \in {"SUCCESS", "FAILURE", "UNKNOWN", "RETRY_AFTER", "OTHER_STATE"} :
            /\ Returned(f, "accept", result)
            /\ \/ UNCHANGED outside /\ result # "SUCCESS"
               \/ /\ WorldHolds' /\ applied'["complete"] = 1
                  /\ \A o \in Effects : applied[o] = 1 => applied'[o] = 1
                  /\ \A o \in Effects : o # "complete" => applied'[o] = applied[o]
    BY CompleteEffect
  <1>3. /\ WorldHolds' /\ (result = "SUCCESS" => applied'["complete"] = 1)
        /\ \A o \in Effects : applied[o] = 1 => applied'[o] = 1
        /\ \A o \in Effects : applied'[o] > 0 => Attempts(o) # {}
    <2>1. CASE UNCHANGED outside /\ result # "SUCCESS"
      BY <1>1, <2>1 DEF outside, WorldHolds, EffectsAreIntended
    <2>2. CASE ~(UNCHANGED outside /\ result # "SUCCESS")
      BY <1>1, <1>2, <2>2, CompleteEffect DEF EffectsAreIntended
    <2> QED
      BY <2>1, <2>2
  <1>4. PICK p \in Proc :
              /\ proc' = [proc EXCEPT ![f] = p]
              /\ \/ p = Idle
                 \/ /\ proc[f].fresh /\ p.fresh /\ p.pc = "accept" /\ p.result = result
                    /\ p.effect = proc[f].effect
    BY <1>2, ReturnedJob DEF Pcs
  <1>5. proc'[f] = p
    BY <1>1, <1>4
  <1>6. ProcHolds(f)'
    <2>1. CASE p = Idle
      BY <1>5, <2>1, IdleProc DEF ProcHolds
    <2>2. CASE p # Idle
      BY <1>1, <1>3, <1>4, <1>5, <2>2 DEF ProcHolds, Reconciled
    <2> QED
      BY <2>1, <2>2
  <1> QED
    BY <1>1, <1>3, <1>4, <1>6, LocalStep

\* Others move the outside, time passes, processes die.
LEMMA OutsideInv == ASSUME IInv, Drift \/ Elapse PROVE IInv'
  <1>1. UNCHANGED <<run, applied, proc>>
    BY DEF Drift, Elapse, outside
  <1>2. WorldHolds'
    <2>1. CASE Elapse
      BY <2>1 DEF Elapse, outside, IInv, WorldHolds
    <2>2. CASE Drift
      <3>1. world \in [head : {"baseline", "commit", "other"}, remote : {"none", "commit", "other"},
                      base : {"baseline", "other"}, ticket : {"started", "completed", "other"}]
        BY DEF IInv, WorldHolds
      <3>2. PICK part \in {"head", "remote", "base", "ticket"} : world' = [world EXCEPT ![part] = "other"]
        BY <2>2 DEF Drift
      <3>3. /\ world' \in [head : {"baseline", "commit", "other"}, remote : {"none", "commit", "other"},
                          base : {"baseline", "other"}, ticket : {"started", "completed", "other"}]
            /\ world'.head \in {world.head, "other"} /\ world'.remote \in {world.remote, "other"}
            /\ world'.ticket \in {world.ticket, "other"}
        BY <3>1, <3>2
      <3> QED
        BY <1>1, <3>3 DEF IInv, WorldHolds
    <2> QED
      BY <2>1, <2>2
  <1>3. (backoff' => backoff) /\ backoff' \in BOOLEAN
    <2>1. CASE Elapse
      BY <2>1 DEF Elapse
    <2>2. CASE Drift
      BY <2>2 DEF Drift, IInv, RunHolds
    <2> QED
      BY <2>1, <2>2
  <1>4. RunHolds'
    BY <1>1, <1>3 DEF IInv, RunHolds, EntryHolds, Reconciled, Operation, PendingHolds, AttemptsBounded,
           Attempts, ObservedBeforeRetry
  <1>5. Truth'
    BY <1>1 DEF IInv, Truth, RecordedIsReal, EffectsAreIntended, Attempts
  <1>6. \A f \in Launchers : ProcHolds(f)'
    BY <1>1, <1>3 DEF IInv, ProcHolds, Reconciled, Operation
  <1> QED
    BY <1>1, <1>2, <1>4, <1>5, <1>6 DEF IInv

LEMMA CrashInv == ASSUME IInv, NEW f \in Launchers, Crash(f) PROVE IInv'
  BY GoneIdle DEF Crash, Goto

-----------------------------------------------------------------------------
(* Saves *)

\* What the saving process goes on with.
LEMMA SavedJob ==
    ASSUME NEW f \in Launchers, NEW new, NEW pc \in Pcs, NEW effect \in Nat, Save(f, new, pc, effect)
    PROVE  /\ run' = new
           /\ \E p \in Proc :
                 /\ SavedBy(f, p) /\ proc'[f] = p
                 /\ IF pc = "idle" THEN p = Idle ELSE p.pc = pc /\ p.fresh /\ p.effect = effect
  <1>1. CASE pc = "idle"
    <2>1. run' = new /\ SavedBy(f, Idle)
      BY <1>1 DEF Save, SavedBy
    <2>2. proc'[f] = Idle
      BY <2>1 DEF SavedBy
    <2> QED
      BY <1>1, <2>1, <2>2, IdleProc
  <1>2. CASE pc # "idle"
    <2>1. PICK p : p = [pc |-> pc, fresh |-> TRUE, effect |-> effect, result |-> "none"]
      OBVIOUS
    <2>2. p \in Proc /\ p.pc = pc /\ p.fresh /\ p.effect = effect
      BY <2>1 DEF Proc
    <2>3. run' = new /\ SavedBy(f, p)
      BY <1>2, <2>1 DEF Save, SavedBy
    <2>4. proc'[f] = p
      BY <2>3 DEF SavedBy
    <2> QED
      BY <1>2, <2>2, <2>3, <2>4
  <1> QED
    BY <1>1, <1>2

LEMMA RequestInv ==
    ASSUME IInv, NEW f \in Launchers, NEW op \in {"projection", "complete"},
           Save(f, WithPending(op), "idle", 0), UNCHANGED <<backoff, outside>>, ~backoff,
           op = "complete" => GitOps \subseteq run.recorded /\ ~Exhausted("complete")
    PROVE  IInv'
  <1>1. RunHolds /\ run \in Run /\ Truth /\ Len(run.ledger) \in Nat
    BY LedgerType DEF IInv, RunHolds
  <1>2. PICK p \in Proc :
            /\ SavedBy(f, p) /\ proc'[f] = p
            /\ p = Idle
    <2>1. SavedBy(f, Idle)
      BY DEF Save, SavedBy
    <2>2. proc'[f] = Idle
      BY <2>1 DEF SavedBy
    <2> QED
      BY <2>1, <2>2, IdleProc
  <1>3. run' = WithPending(op)
    BY DEF Save
  <1>4. /\ run'.ledger = Append(run.ledger, Intention(op, 0)) /\ run'.recorded = run.recorded
        /\ run'.pending = Len(run.ledger) + 1 /\ run'.disposition = "WAITING_MCP"
    BY <1>1, <1>3 DEF WithPending, WithIntention, Run
  <1>5. Intention(op, 0) \in Entry
    BY DEF Intention, Entry, Ops, Outcomes, Effects
  <1>6. run' \in Run
    <2>0. Append(run.ledger, Intention(op, 0)) \in Seq(Entry)
      BY <1>1, <1>5, LedgerType
    <2>1. PICK ledger \in Seq(Entry) : ledger = Append(run.ledger, Intention(op, 0))
      BY <2>0
    <2>2. PICK n \in Nat : n = Len(run.ledger) + 1
      BY <1>1
    <2>3. run' = [run EXCEPT !.ledger = ledger, !.pending = n, !.disposition = "WAITING_MCP"]
      BY <1>1, <1>3, <2>1, <2>2 DEF WithPending, WithIntention, Run
    <2> QED
      BY <1>1, <2>3 DEF Run
  <1>7. /\ Kept /\ Entries' /\ AttemptsBounded' /\ ObservedBeforeRetry'
        /\ \A o \in Effects : Attempts(o) \subseteq Attempts(o)'
        /\ Len(run'.ledger) = Len(run.ledger) + 1
        /\ run'.ledger[Len(run.ledger) + 1] = Intention(op, 0)
    <2>1. op \in Ops /\ op # "reconcile" /\ op \notin GitOps /\ (op \in Effects => op = "complete")
      BY DEF Ops, Effects, GitOps
    <2> QED
      BY <1>1, <1>4, <1>6, <2>1, AppendLedger
  <1>8. PendingHolds'
    BY <1>1, <1>4, <1>7 DEF PendingHolds, Reconciled, Intention
  <1>9. RunHolds'
    BY <1>1, <1>6, <1>7, <1>8 DEF RunHolds, Entries
  <1>10. ProcHolds(f)'
    BY <1>2, IdleProc DEF ProcHolds
  <1>11. \A o \in run'.recorded : applied[o] = 1
    BY <1>1, <1>4 DEF Truth, RecordedIsReal
  <1> QED
    BY <1>2, <1>7, <1>9, <1>10, <1>11, SaveStep

\* A Git effect is intended, or is to be looked at again.
LEMMA IntendInv ==
    ASSUME IInv, NEW f \in Launchers, NEW op \in GitOps \cup {"reconcile"}, NEW of \in Nat,
           NEW pc \in {"invoke", "observe"},
           Save(f, WithIntention(op, of), pc, Len(run.ledger) + 1), UNCHANGED <<backoff, outside>>,
           At(f, "act"), of # 0 <=> op = "reconcile", pc = "invoke" => op \in GitOps,
           of # 0 => of \in 1 .. Len(run.ledger) /\ run.ledger[of].op \in GitOps /\ Reconciled(of),
           op \in GitOps => MayRetry(op) /\ op \notin run.recorded /\ ~Exhausted(op)
    PROVE  IInv'
  <1>1. RunHolds /\ run \in Run /\ Truth /\ Len(run.ledger) \in Nat /\ Len(run.ledger) + 1 \in Nat
    BY LedgerType DEF IInv, RunHolds
  <1>2. proc[f].pc = "act" /\ run.disposition = "ACTIVE" /\ ~backoff
    BY DEF IInv, ProcHolds, At
  <1>3. PICK p \in Proc :
            /\ SavedBy(f, p) /\ proc'[f] = p
            /\ p.pc = pc /\ p.fresh /\ p.effect = Len(run.ledger) + 1
    <2>1. PICK n \in Nat : n = Len(run.ledger) + 1
      BY <1>1
    <2>2. Save(f, WithIntention(op, of), pc, n) /\ pc \in Pcs /\ pc # "idle"
      BY <2>1 DEF Pcs
    <2> QED
      BY <2>1, <2>2, SavedJob
  <1>4. run' = WithIntention(op, of)
    BY DEF Save
  <1>5. /\ run'.ledger = Append(run.ledger, Intention(op, of)) /\ run'.recorded = run.recorded
        /\ run'.pending = run.pending /\ run'.disposition = "ACTIVE"
    BY <1>1, <1>2, <1>4 DEF WithIntention, Run
  <1>6. Intention(op, of) \in Entry
    BY DEF Intention, Entry, Ops, Outcomes, Effects, GitOps
  <1>7. run' \in Run
    <2>1. Append(run.ledger, Intention(op, of)) \in Seq(Entry)
      BY <1>1, <1>6, LedgerType
    <2> QED
      BY <1>1, <1>4, <2>1 DEF WithIntention, Run
  <1>8. /\ Kept /\ Entries' /\ AttemptsBounded' /\ ObservedBeforeRetry'
        /\ \A o \in Effects : Attempts(o) \subseteq Attempts(o)'
        /\ Len(run'.ledger) = Len(run.ledger) + 1
        /\ run'.ledger[Len(run.ledger) + 1] = Intention(op, of)
    <2>1. op \in Ops /\ op # "complete" /\ (op \in Effects => op \in GitOps)
      BY DEF Ops, Effects, GitOps
    <2> QED
      BY <1>1, <1>5, <1>7, <2>1, AppendLedger
  <1>9. PendingHolds'
    BY <1>1, <1>2, <1>5, <1>8 DEF RunHolds, PendingHolds
  <1>10. RunHolds'
    BY <1>1, <1>7, <1>8, <1>9 DEF RunHolds, Entries
  <1>11. /\ Intention(op, of).op = op /\ Intention(op, of).outcome = "none"
    BY DEF Intention
  <1>12. ProcHolds(f)'
    BY <1>1, <1>2, <1>3, <1>5, <1>8, <1>11 DEF ProcHolds, Reconciled
  <1>13. \A o \in run'.recorded : applied[o] = 1
    BY <1>1, <1>5 DEF Truth, RecordedIsReal
  <1> QED
    BY <1>3, <1>8, <1>10, <1>12, <1>13, SaveStep

\* The run is over, or a human is to look at it.
LEMMA EndInv ==
    ASSUME IInv, NEW f \in Launchers, NEW end \in {"DONE", "HUMAN_REVIEW"},
           Save(f, [run EXCEPT !.disposition = end], "idle", 0), UNCHANGED <<backoff, outside>>,
           proc[f].pc \in {"finish", "escalate"}
    PROVE  IInv'
  <1>1. RunHolds /\ run \in Run /\ Truth /\ run.disposition = "ACTIVE" /\ ~backoff
    BY DEF IInv, RunHolds, ProcHolds
  <1>2. PICK p \in Proc :
            /\ SavedBy(f, p) /\ proc'[f] = p
            /\ p = Idle
    <2>1. PICK new : new = [run EXCEPT !.disposition = end]
      OBVIOUS
    <2>2. Save(f, new, "idle", 0) /\ "idle" \in Pcs
      BY <2>1 DEF Pcs
    <2> QED
      BY <2>2, SavedJob
  <1>3. run' = [run EXCEPT !.disposition = end]
    BY DEF Save
  <1>4. /\ run' \in Run /\ run'.ledger = run.ledger /\ run'.recorded = run.recorded
        /\ run'.pending = run.pending /\ run'.disposition = end
    BY <1>1, <1>3 DEF Run
  <1>5. Kept /\ Entries' /\ AttemptsBounded' /\ ObservedBeforeRetry'
        /\ \A op \in Effects : Attempts(op)' = Attempts(op)
    BY <1>1, <1>4, SameLedger
  <1>6. PendingHolds'
    BY <1>1, <1>4 DEF RunHolds, PendingHolds
  <1>7. RunHolds'
    BY <1>1, <1>4, <1>5, <1>6 DEF RunHolds, Entries
  <1>8. ProcHolds(f)'
    BY <1>2, IdleProc DEF ProcHolds
  <1>9. \A o \in run'.recorded : applied[o] = 1
    BY <1>1, <1>4 DEF Truth, RecordedIsReal
  <1> QED
    BY <1>2, <1>5, <1>7, <1>8, <1>9, SaveStep

LEMMA AuthorizeInv == ASSUME IInv, Authorize PROVE IInv'
  <1>1. RunHolds /\ run \in Run /\ Truth /\ run.disposition = "HUMAN_REVIEW"
        /\ UNCHANGED <<backoff, outside>> /\ proc' = [f \in Launchers |-> Stale(proc[f])]
    BY DEF IInv, RunHolds, Authorize
  <1>2. PICK next \in {"ACTIVE", "ABANDONED"} : run' = [run EXCEPT !.disposition = next]
    BY DEF Authorize
  <1>3. /\ run' \in Run /\ run'.ledger = run.ledger /\ run'.recorded = run.recorded
        /\ run'.pending = run.pending /\ run'.disposition = next
    BY <1>1, <1>2 DEF Run
  <1>4. Kept /\ Entries' /\ AttemptsBounded' /\ ObservedBeforeRetry'
        /\ \A op \in Effects : Attempts(op)' = Attempts(op)
    BY <1>1, <1>3, SameLedger
  <1>5. PendingHolds'
    BY <1>1, <1>3 DEF RunHolds, PendingHolds
  <1>6. RunHolds'
    BY <1>1, <1>3, <1>4, <1>5 DEF RunHolds, Entries
  <1>7. \A g \in Launchers : ProcHolds(g)' /\ proc'[g] \in Proc
    BY <1>1, <1>3, <1>4, OthersStale
  <1>8. proc' \in [Launchers -> Proc]
    BY <1>1, <1>7
  <1>9. WorldHolds' /\ Truth'
    BY <1>1, <1>3, <1>4 DEF IInv, WorldHolds, Truth, RecordedIsReal, EffectsAreIntended, outside
  <1> QED
    BY <1>6, <1>7, <1>8, <1>9 DEF IInv

\* An open entry is reconciled by the process that works on it.
LEMMA CloseInv ==
    ASSUME IInv, NEW f \in Launchers, NEW p \in Proc, p.pc \in {"idle", "check"}, p.fresh \/ p.pc = "idle",
           SavedBy(f, p),
           NEW i \in 1 .. Len(run.ledger), ~Reconciled(i),
           NEW out \in Outcomes \ {"none"}, run' \in Run, backoff' \in BOOLEAN, UNCHANGED outside,
           run'.ledger = [run.ledger EXCEPT ![i].outcome = out], run.recorded \subseteq run'.recorded,
           run.ledger[i].op \in GitOps \cup {"reconcile"} /\ out = "SUCCESS" => Operation(i) \in run'.recorded,
           run.ledger[i].op = "reconcile" => out # "FAILURE",
           PendingHolds', \A op \in run'.recorded : applied[op] = 1
    PROVE  IInv'
  <1>1. RunHolds
    BY DEF IInv
  <1>2. /\ Kept /\ Entries' /\ AttemptsBounded' /\ ObservedBeforeRetry'
        /\ \A op \in Effects : Attempts(op)' = Attempts(op)
    BY <1>1, CloseEntry
  <1>3. RunHolds'
    BY <1>2 DEF RunHolds, Entries
  <1>4. ProcHolds(f)'
    BY DEF ProcHolds, SavedBy
  <1> QED
    BY <1>2, <1>3, <1>4, SaveStep

LEMMA RecordInv == ASSUME IInv, NEW f \in Launchers, Record(f) PROVE IInv'
  <1>1. PICK i, result : i = proc[f].effect /\ result = proc[f].result
    OBVIOUS
  <1>2. /\ RunHolds /\ run \in Run /\ Truth /\ ProcHolds(f) /\ proc[f].pc = "record"
        /\ UNCHANGED <<backoff, outside>> /\ run.recorded \subseteq Effects
    BY LedgerType DEF IInv, RunHolds, Record, At
  <1>3. /\ i \in 1 .. Len(run.ledger) /\ ~Reconciled(i) /\ run.disposition = "ACTIVE" /\ ~backoff
        /\ result \in {"SUCCESS", "FAILURE", "UNKNOWN"} /\ result \in Outcomes \ {"none"}
        /\ run.ledger[i].op = "reconcile" => result # "FAILURE"
        /\ result = "SUCCESS" => applied[Operation(i)] = 1
    BY <1>1, <1>2 DEF ProcHolds, Outcomes
  <1>4. Operation(i) \in Effects
    BY <1>1, <1>2, GitEffect DEF GitOps, Effects
  <1>5. PICK recorded : recorded = IF result = "SUCCESS" THEN {Operation(i)} ELSE {}
    OBVIOUS
  <1>6. PICK p \in Proc :
            /\ SavedBy(f, p)
            /\ p.pc \in {"idle", "check"} /\ (p.fresh \/ p.pc = "idle")
    <2>1. \/ Save(f, [run EXCEPT !.ledger[i].outcome = result, !.recorded = @ \cup recorded], "idle", 0)
          \/ Save(f, [run EXCEPT !.ledger[i].outcome = result, !.recorded = @ \cup recorded], "check", 0)
      BY <1>1, <1>5 DEF Record
    <2> QED
      BY <2>1, SavedJob, IdleProc DEF Pcs
  <1>7. run' = [run EXCEPT !.ledger[i].outcome = result, !.recorded = @ \cup recorded]
    BY <1>1, <1>5 DEF Record, Save
  <1>8. [run.ledger EXCEPT ![i].outcome = result] \in Seq(Entry)
    <2>1. run.ledger \in Seq(Entry) /\ run.ledger[i] \in Entry
      BY <1>2, <1>3, LedgerType
    <2>2. [run.ledger[i] EXCEPT !.outcome = result] \in Entry
      BY <1>3, <2>1 DEF Entry
    <2> QED
      BY <1>3, <2>1, <2>2
  <1>9. /\ run'.ledger = [run.ledger EXCEPT ![i].outcome = result]
        /\ run'.recorded = run.recorded \cup recorded
        /\ run'.pending = run.pending /\ run'.disposition = run.disposition
    BY <1>2, <1>7 DEF Run
  <1>10. run' \in Run
    BY <1>2, <1>4, <1>5, <1>7, <1>8 DEF Run
  <1>11. PendingHolds'
    <2>1. run.pending = 0 /\ Len(run'.ledger) \in Nat
      BY <1>2, <1>3, <1>10 DEF RunHolds, PendingHolds, Run
    <2> QED
      BY <1>2, <1>3, <1>9, <2>1 DEF PendingHolds
  <1>12. \A op \in run'.recorded : applied[op] = 1
    BY <1>2, <1>3, <1>5, <1>9 DEF Truth, RecordedIsReal
  <1> QED
    BY <1>2, <1>3, <1>5, <1>6, <1>9, <1>10, <1>11, <1>12, CloseInv DEF RunHolds

\* The run c once the receipt of request i is consumed.
IsConsumed(i, r, out, c) ==
    /\ c = Consumed(i, r) /\ c.ledger = [run.ledger EXCEPT ![i].outcome = out]
    /\ c.pending = 0 /\ c.disposition = "ACTIVE"
    /\ c.recorded = run.recorded /\ c.waited = run.waited

LEMMA ConsumedRun ==
    ASSUME run \in Run, NEW i \in 1 .. Len(run.ledger),
           NEW r \in {"SUCCESS", "FAILURE", "UNKNOWN", "RETRY_AFTER", "OTHER_STATE"}
    PROVE  \E out \in Outcomes \ {"none"}, c \in Run : IsConsumed(i, r, out, c)
  <1>1. PICK out \in Outcomes \ {"none"} :
            out = CASE r = "RETRY_AFTER" -> "FAILURE" [] r = "OTHER_STATE" -> "SUCCESS" [] OTHER -> r
    BY DEF Outcomes
  <1>2. PICK ledger : ledger = [run.ledger EXCEPT ![i].outcome = out]
    OBVIOUS
  <1>3. ledger \in Seq(Entry)
    <2>1. run.ledger \in Seq(Entry) /\ run.ledger[i] \in Entry
      BY LedgerType
    <2>2. [run.ledger[i] EXCEPT !.outcome = out] \in Entry
      BY <2>1 DEF Entry
    <2> QED
      BY <1>2, <2>1, <2>2
  <1>4. Consumed(i, r) = [run EXCEPT !.ledger = ledger, !.pending = 0, !.disposition = "ACTIVE"]
    BY <1>1, <1>2 DEF Consumed, Run
  <1>5. PICK c : c = [run EXCEPT !.ledger = ledger, !.pending = 0, !.disposition = "ACTIVE"]
    OBVIOUS
  <1>6. /\ c \in Run /\ c.ledger = ledger /\ c.pending = 0 /\ c.disposition = "ACTIVE"
        /\ c.recorded = run.recorded /\ c.waited = run.waited
    BY <1>3, <1>5 DEF Run
  <1> QED
    BY <1>2, <1>4, <1>5, <1>6 DEF IsConsumed

\* A receipt closes the pending request.
LEMMA AcceptInv ==
    ASSUME IInv, NEW f \in Launchers, AcceptProjection(f) \/ BackOff(f) \/ AcceptCompletion(f)
    PROVE  IInv'
  <1>1. PICK i, result : i = proc[f].effect /\ result = proc[f].result
    OBVIOUS
  <1>2. /\ RunHolds /\ run \in Run /\ Truth /\ ProcHolds(f) /\ proc[f].pc = "accept"
        /\ proc[f] \in Proc /\ UNCHANGED outside /\ run.recorded \subseteq Effects
        /\ backoff' \in BOOLEAN
    BY LedgerType DEF IInv, RunHolds, AcceptProjection, BackOff, AcceptCompletion, At
  <1>3. /\ i \in 1 .. Len(run.ledger) /\ ~Reconciled(i)
        /\ run.ledger[i].op \in {"projection", "complete"}
        /\ run.ledger[i].op = "complete" /\ result = "SUCCESS" => applied["complete"] = 1
        /\ result \in {"SUCCESS", "FAILURE", "UNKNOWN", "RETRY_AFTER", "OTHER_STATE"}
    BY <1>1, <1>2 DEF ProcHolds, Proc
  <1>4. PICK out \in Outcomes \ {"none"}, new \in Run :
            /\ Save(f, new, "check", 0)
            /\ new.ledger = [run.ledger EXCEPT ![i].outcome = out]
            /\ new.pending = 0 /\ new.disposition \in {"ACTIVE", "HUMAN_REVIEW"}
            /\ run.recorded \subseteq new.recorded /\ \A op \in new.recorded : applied[op] = 1
    <2>0. /\ run.waited \in 0 .. MaxWait /\ MaxWait \in Nat
          /\ \A op \in run.recorded : applied[op] = 1
      BY <1>2, FinalizerAssumption DEF Run, Truth, RecordedIsReal
    <2>1. CASE AcceptProjection(f)
      <3>1. PICK r \in {"SUCCESS", "FAILURE"} :
                \/ Save(f, [Consumed(i, r) EXCEPT !.projected = TRUE], "check", 0)
                \/ Save(f, [Consumed(i, r) EXCEPT !.disposition = "HUMAN_REVIEW"], "check", 0)
        BY <1>1, <2>1 DEF AcceptProjection
      <3>2. PICK out \in Outcomes \ {"none"}, c \in Run : IsConsumed(i, r, out, c)
        BY <1>2, <1>3, ConsumedRun
      <3>3. PICK new : /\ new = [c EXCEPT !.projected = TRUE] \/ new = [c EXCEPT !.disposition = "HUMAN_REVIEW"]
                       /\ Save(f, new, "check", 0)
        BY <3>1, <3>2 DEF IsConsumed
      <3>4. /\ new \in Run /\ new.ledger = c.ledger /\ new.pending = c.pending /\ new.recorded = c.recorded
            /\ new.disposition \in {c.disposition, "HUMAN_REVIEW"}
        BY <3>3 DEF Run
      <3> QED
        BY <2>0, <3>2, <3>3, <3>4 DEF IsConsumed
    <2>2. CASE BackOff(f)
      <3>1. /\ Save(f, [Consumed(i, "RETRY_AFTER") EXCEPT !.waited = @ + 1], "check", 0)
            /\ run.waited + 1 \in 0 .. MaxWait
        BY <1>1, <2>0, <2>2 DEF BackOff
      <3>2. PICK out \in Outcomes \ {"none"}, c \in Run : IsConsumed(i, "RETRY_AFTER", out, c)
        BY <1>2, <1>3, ConsumedRun
      <3>3. PICK waited \in 0 .. MaxWait : waited = c.waited + 1
        BY <3>1, <3>2 DEF IsConsumed
      <3>4. PICK new : new = [c EXCEPT !.waited = waited] /\ Save(f, new, "check", 0)
        BY <3>1, <3>2, <3>3 DEF IsConsumed
      <3>5. /\ new \in Run /\ new.ledger = c.ledger /\ new.pending = c.pending /\ new.recorded = c.recorded
            /\ new.disposition = c.disposition
        BY <3>3, <3>4 DEF Run
      <3>6. \A op \in new.recorded : applied[op] = 1
        BY <2>0, <3>2, <3>5 DEF IsConsumed
      <3>7. /\ new.ledger = [run.ledger EXCEPT ![i].outcome = out]
            /\ new.pending = 0 /\ new.disposition = "ACTIVE" /\ new.recorded = run.recorded
        BY <3>2, <3>5 DEF IsConsumed
      <3>8. Save(f, new, "check", 0)
        BY <3>4
      <3> QED
        BY <3>5, <3>6, <3>7, <3>8
    <2>3. CASE AcceptCompletion(f)
      <3>1. /\ run.ledger[i].op = "complete"
            /\ \/ result = "SUCCESS" /\ Save(f, [Consumed(i, result) EXCEPT !.recorded = @ \cup {"complete"}], "check", 0)
               \/ Save(f, Consumed(i, result), "check", 0)
               \/ Save(f, [Consumed(i, result) EXCEPT !.disposition = "HUMAN_REVIEW"], "check", 0)
        BY <1>1, <2>3 DEF AcceptCompletion
      <3>2. PICK out \in Outcomes \ {"none"}, c \in Run : IsConsumed(i, result, out, c)
        BY <1>2, <1>3, ConsumedRun
      <3>3. PICK new : /\ \/ result = "SUCCESS" /\ new = [c EXCEPT !.recorded = @ \cup {"complete"}]
                          \/ new = c
                          \/ new = [c EXCEPT !.disposition = "HUMAN_REVIEW"]
                       /\ Save(f, new, "check", 0)
        BY <3>1, <3>2 DEF IsConsumed
      <3>4. /\ new \in Run /\ new.ledger = c.ledger /\ new.pending = c.pending
            /\ new.disposition \in {c.disposition, "HUMAN_REVIEW"}
            /\ new.recorded = c.recorded \/ (result = "SUCCESS" /\ new.recorded = c.recorded \cup {"complete"})
        BY <3>3 DEF Run, Effects
      <3>5. \A op \in new.recorded : applied[op] = 1
        BY <1>3, <2>0, <3>1, <3>2, <3>4 DEF IsConsumed
      <3> QED
        BY <3>2, <3>3, <3>4, <3>5 DEF IsConsumed
    <2> QED
      BY <2>1, <2>2, <2>3
  <1>5. PICK p \in Proc : SavedBy(f, p) /\ p.pc = "check" /\ p.fresh
    <2>1. "check" \in Pcs /\ "check" # "idle" /\ Save(f, new, "check", 0)
      BY <1>4 DEF Pcs
    <2> QED
      BY <2>1, SavedJob
  <1>6. run' = new
    BY <1>4 DEF Save
  <1>7. PendingHolds'
    BY <1>4, <1>6 DEF PendingHolds, Run
  <1>8. run.ledger[i].op \notin GitOps \cup {"reconcile"}
    BY <1>3 DEF GitOps
  <1> QED
    BY <1>2, <1>3, <1>4, <1>5, <1>6, <1>7, <1>8, CloseInv

\* Every save of a Git attempt or a request follows its guards.
LEMMA SavesInv ==
    ASSUME IInv, NEW f \in Launchers,
           \/ RequestProjection(f) \/ RequestCompletion(f) \/ IntendReconcile(f) \/ Intend(f)
           \/ Finish(f) \/ Escalate(f)
    PROVE  IInv'
  <1>1. UNCHANGED <<backoff, outside>> /\ ProcHolds(f) /\ run \in Run
    BY DEF IInv, RunHolds, RequestProjection, RequestCompletion, IntendReconcile, Intend, Finish, Escalate
  <1>2. CASE RequestProjection(f)
    <2>1. Save(f, WithPending("projection"), "idle", 0) /\ ~backoff
      BY <1>2 DEF RequestProjection, Ready
    <2> QED
      BY <1>1, <2>1, RequestInv
  <1>3. CASE RequestCompletion(f)
    <2>1. /\ Save(f, WithPending("complete"), "idle", 0) /\ ~backoff
          /\ GitOps \subseteq run.recorded /\ ~Exhausted("complete")
      BY <1>1, <1>3 DEF RequestCompletion, ProcHolds, At, Due, Before, GitOps
    <2> QED
      BY <1>1, <2>1, RequestInv
  <1>4. CASE IntendReconcile(f)
    <2>0. PICK op \in GitOps : \E i \in Latest(op) :
              /\ At(f, "act") /\ Reconciled(i)
              /\ Save(f, WithIntention("reconcile", i), "observe", Len(run.ledger) + 1)
      BY <1>4 DEF IntendReconcile, GitOps
    <2>1. PICK i \in Latest(op) :
              /\ At(f, "act") /\ Reconciled(i)
              /\ Save(f, WithIntention("reconcile", i), "observe", Len(run.ledger) + 1)
      BY <2>0
    <2>2. i \in 1 .. Len(run.ledger) /\ run.ledger[i].op = op /\ i \in Nat /\ i # 0
      BY <1>1, <2>1, AttemptsFinite, LedgerType DEF Latest, Attempts
    <2> QED
      BY <1>1, <2>1, <2>2, IntendInv DEF GitOps
  <1>5. CASE Intend(f)
    <2>1. PICK op \in GitOps :
              /\ At(f, "act") /\ Due(op) /\ MayRetry(op) /\ ~Exhausted(op)
              /\ Save(f, WithIntention(op, 0), "invoke", Len(run.ledger) + 1)
      BY <1>5 DEF Intend, GitOps
    <2>2. op # "reconcile" /\ op \notin run.recorded
      BY <2>1 DEF GitOps, Due
    <2> QED
      BY <1>1, <2>1, <2>2, IntendInv
  <1>6. CASE Finish(f)
    BY <1>1, <1>6, EndInv DEF Finish, At
  <1>7. CASE Escalate(f)
    BY <1>1, <1>7, EndInv DEF Escalate, At
  <1> QED
    BY <1>2, <1>3, <1>4, <1>5, <1>6, <1>7

-----------------------------------------------------------------------------

LEMMA InitInv == Init => IInv
  <1> SUFFICES ASSUME Init PROVE IInv
    OBVIOUS
  <1>1. /\ run.disposition = "ACTIVE" /\ run.recorded = {} /\ run.pending = 0 /\ run.ledger = <<>>
        /\ run.waited = 0 /\ run.projected = FALSE /\ backoff = FALSE
    BY DEF Init
  <1>2. run \in Run
    <2>1. 0 \in 0 .. MaxWait
      BY FinalizerAssumption
    <2>2. <<>> \in Seq(Entry)
      OBVIOUS
    <2> QED
      BY <2>1, <2>2 DEF Init, Run
  <1>3. Entries /\ PendingHolds
    BY <1>1 DEF Entries, PendingHolds
  <1>4. \A op : Attempts(op) = {}
    BY <1>1 DEF Attempts
  <1>5. AttemptsBounded /\ ObservedBeforeRetry
    BY <1>4, FS_EmptySet, FinalizerAssumption DEF AttemptsBounded, ObservedBeforeRetry
  <1>6. RunHolds
    BY <1>1, <1>2, <1>3, <1>5 DEF RunHolds, Entries
  <1>7. WorldHolds
    BY DEF Init, WorldHolds, Effects
  <1>8. Truth
    BY <1>1 DEF Init, Truth, RecordedIsReal, EffectsAreIntended
  <1>9. proc \in [Launchers -> Proc] /\ \A f \in Launchers : ProcHolds(f)
    BY IdleProc DEF Init, ProcHolds
  <1> QED
    BY <1>6, <1>7, <1>8, <1>9 DEF IInv

LEMMA StepInv == IInv /\ [Next]_vars => IInv'
  <1> SUFFICES ASSUME IInv, [Next]_vars PROVE IInv'
    OBVIOUS
  <1>1. ASSUME NEW f \in Launchers, Command(f) \/ Step(f) \/ Crash(f) PROVE IInv'
    BY <1>1, CommandInv, ChecksInv, ObserveOpenInv, SavesInv, InvokeInv, ObserveInv, RecordInv, QueryInv,
       CompleteInv, AcceptInv, CrashInv DEF Step
  <1>2. CASE UNCHANGED vars
    <2>1. UNCHANGED <<run, backoff, world, applied, proc>>
      BY <1>2 DEF vars
    <2> QED
      BY <2>1 DEF IInv, RunHolds, EntryHolds, Reconciled, Operation, PendingHolds, AttemptsBounded, Attempts,
                  ObservedBeforeRetry, WorldHolds, Truth, RecordedIsReal, EffectsAreIntended, ProcHolds
  <1> QED
    BY <1>1, <1>2, OutsideInv, AuthorizeInv DEF Next

LEMMA Inductive == Spec => []IInv
  BY InitInv, StepInv, PTL DEF Spec

-----------------------------------------------------------------------------
(* The abstract specification *)

\* An effect happens only after those before it, and once.
LEMMA PerformDelivers ==
    ASSUME WorldHolds, NEW op \in Effects, Perform(op), applied'[op] = 1,
           op = "push" => applied["commit"] = 1,
           op = "complete" => applied["commit"] = 1 /\ applied["push"] = 1,
           UNCHANGED run
    PROVE  [D!Next]_(D!vars)
  <1>1. applied \in [Effects -> {0, 1}] /\ D!Effects = Effects
    BY DEF WorldHolds, D!Effects, Effects
  <1>2. applied' = [applied EXCEPT ![op] = 1]
    BY <1>1 DEF Perform
  <1>3. CASE applied[op] = 1
    BY <1>1, <1>2, <1>3 DEF D!vars
  <1>4. CASE applied[op] = 0
    <2>1. \A e \in D!Before[op] : applied[e] = 1
      BY <1>1 DEF D!Before, Effects
    <2>2. D!Deliver(op)
      BY <1>1, <1>2, <1>4, <2>1 DEF D!Deliver
    <2> QED
      BY <1>1, <2>2 DEF D!Next
  <1> QED
    BY <1>1, <1>3, <1>4

LEMMA StepDelivers == IInv /\ [Next]_vars => [D!Next]_(D!vars)
  <1> SUFFICES ASSUME IInv, [Next]_vars PROVE [D!Next]_(D!vars)
    OBVIOUS
  <1>1. WorldHolds /\ RunHolds /\ Truth /\ run \in Run
    BY DEF IInv, RunHolds
  <1>2. ASSUME UNCHANGED applied, (run.disposition = "DONE") <=> (run'.disposition = "DONE")
        PROVE  [D!Next]_(D!vars)
    BY <1>2 DEF D!vars
  <1>3. ASSUME NEW f \in Launchers, Finish(f) PROVE [D!Next]_(D!vars)
    <2>1. UNCHANGED applied /\ run' = [run EXCEPT !.disposition = "DONE"] /\ proc[f].pc = "finish"
      BY <1>3 DEF Finish, Save, outside, At
    <2>2. \A op \in Effects : applied[op] = 1
      BY <1>1, <2>1 DEF IInv, ProcHolds, Truth, RecordedIsReal
    <2>3. run'.disposition = "DONE"
      BY <1>1, <2>1 DEF Run
    <2> QED
      BY <2>1, <2>2, <2>3 DEF D!Next, D!Finish, D!Effects, Effects
  <1>4. ASSUME NEW f \in Launchers, Invoke(f) PROVE [D!Next]_(D!vars)
    <2>1. PICK op : op = Operation(proc[f].effect)
      OBVIOUS
    <2>2. op \in GitOps /\ UNCHANGED run
      BY <1>4, <2>1, InvokeEffect DEF Invoke
    <2>3. CASE UNCHANGED outside
      BY <1>2, <2>2, <2>3 DEF outside
    <2>4. CASE Perform(op) /\ Possible(op) /\ applied'[op] = 1
      <3>1. op = "push" => applied["commit"] = 1
        BY <1>1, <2>4 DEF Possible, WorldHolds
      <3> QED
        BY <1>1, <2>2, <2>4, <3>1, PerformDelivers DEF GitOps, Effects
    <2> QED
      BY <1>4, <2>1, <2>3, <2>4, InvokeEffect
  <1>5. ASSUME NEW f \in Launchers, CompleteTicket(f) PROVE [D!Next]_(D!vars)
    <2>1. UNCHANGED run
      BY <1>5 DEF CompleteTicket
    <2>2. CASE UNCHANGED outside
      BY <1>2, <2>1, <2>2 DEF outside
    <2>3. CASE Perform("complete") /\ applied["push"] = 1 /\ applied'["complete"] = 1
      BY <1>1, <2>1, <2>3, PerformDelivers DEF WorldHolds, Effects
    <2> QED
      BY <1>5, <2>2, <2>3, CompleteEffect
  <1>6. ASSUME NEW f \in Launchers, UNCHANGED applied, run'.disposition # "DONE", run.disposition # "DONE"
        PROVE  [D!Next]_(D!vars)
    BY <1>2, <1>6
  <1>7. ASSUME NEW f \in Launchers,
               RequestProjection(f) \/ RequestCompletion(f) \/ IntendReconcile(f) \/ Intend(f) \/ Escalate(f)
        PROVE  [D!Next]_(D!vars)
    <2>1. UNCHANGED applied /\ run.disposition = "ACTIVE"
      BY <1>7 DEF RequestProjection, RequestCompletion, IntendReconcile, Intend, Escalate, outside, Ready, At,
                  IInv, ProcHolds
    <2>2. \/ run' = WithPending("projection") \/ run' = WithPending("complete")
          \/ \E op, of : run' = WithIntention(op, of)
          \/ run' = [run EXCEPT !.disposition = "HUMAN_REVIEW"]
      BY <1>7 DEF RequestProjection, RequestCompletion, IntendReconcile, Intend, Escalate, Save
    <2>3. run'.disposition # "DONE"
      BY <1>1, <2>1, <2>2 DEF WithPending, WithIntention, Run
    <2> QED
      BY <1>2, <2>1, <2>3
  <1>8. ASSUME NEW f \in Launchers, Record(f) \/ AcceptProjection(f) \/ BackOff(f) \/ AcceptCompletion(f)
        PROVE  [D!Next]_(D!vars)
    <2>1. UNCHANGED applied
      BY <1>8 DEF Record, AcceptProjection, BackOff, AcceptCompletion, outside
    <2>2. ProcHolds(f)
      BY DEF IInv
    <2>3. run.disposition # "DONE"
      <3>1. CASE Record(f)
        BY <2>2, <3>1 DEF Record, At, ProcHolds
      <3>2. CASE proc[f].pc = "accept"
        BY <1>1, <2>2, <3>2 DEF ProcHolds, RunHolds, PendingHolds
      <3> QED
        BY <1>8, <3>1, <3>2 DEF AcceptProjection, BackOff, AcceptCompletion, At
    <2>4. run'.disposition # "DONE"
      <3>1. CASE Record(f)
        <4>1. run'.disposition = run.disposition
          BY <1>1, <3>1 DEF Record, Save, Run
        <4> QED
          BY <2>3, <4>1
      <3>2. CASE AcceptProjection(f) \/ BackOff(f) \/ AcceptCompletion(f)
        <4>1. \A i, r : Consumed(i, r).disposition = "ACTIVE" /\ DOMAIN Consumed(i, r) = DOMAIN run
          BY <1>1 DEF Consumed, Run
        <4>2. DOMAIN run = {"disposition", "projected", "recorded", "pending", "waited", "ledger"}
          BY <1>1 DEF Run
        <4>3. \E i, r :
                \/ run' = [Consumed(i, r) EXCEPT !.projected = TRUE]
                \/ run' = [Consumed(i, r) EXCEPT !.disposition = "HUMAN_REVIEW"]
                \/ run' = [Consumed(i, r) EXCEPT !.waited = @ + 1]
                \/ run' = [Consumed(i, r) EXCEPT !.recorded = @ \cup {"complete"}]
                \/ run' = Consumed(i, r)
          BY <3>2 DEF AcceptProjection, BackOff, AcceptCompletion, Save
        <4> QED
          BY <4>1, <4>2, <4>3
      <3> QED
        BY <1>8, <3>1, <3>2
    <2> QED
      BY <1>2, <2>1, <2>3, <2>4
  <1>9. ASSUME NEW f \in Launchers,
               \/ Command(f) \/ Crash(f) \/ NotReady(f) \/ VerifyPosition(f) \/ ObserveOpen(f) \/ GiveUp(f)
               \/ Confirm(f) \/ Observe(f) \/ QueryProjection(f)
        PROVE  [D!Next]_(D!vars)
    <2>1. UNCHANGED <<run, applied>>
      BY <1>9 DEF Command, Finalize, Receipt, Start, Crash, NotReady, VerifyPosition, ObserveOpen, GiveUp,
                  Confirm, Observe, QueryProjection, outside
    <2> QED
      BY <1>2, <2>1
  <1>10. CASE Elapse \/ Drift \/ UNCHANGED vars
    <2>1. UNCHANGED <<run, applied>>
      BY <1>10 DEF Elapse, Drift, vars, outside
    <2> QED
      BY <1>2, <2>1
  <1>11. CASE Authorize
    <2>1. UNCHANGED applied /\ run.disposition = "HUMAN_REVIEW"
      BY <1>11 DEF Authorize, outside
    <2>2. run' = [run EXCEPT !.disposition = "ACTIVE"] \/ run' = [run EXCEPT !.disposition = "ABANDONED"]
      BY <1>11 DEF Authorize
    <2>3. run'.disposition # "DONE"
      BY <1>1, <2>2 DEF Run
    <2> QED
      BY <1>2, <2>1, <2>3
  <1> QED
    BY <1>3, <1>4, <1>5, <1>7, <1>8, <1>9, <1>10, <1>11 DEF Next, Step

\* While a Retry-After time runs nobody is in a position to write an entry.
LEMMA StepWaits == IInv /\ [Next]_vars => (backoff => run'.ledger = run.ledger)
  <1> SUFFICES ASSUME IInv, [Next]_vars, backoff PROVE run'.ledger = run.ledger
    OBVIOUS
  <1>1. /\ run \in Run /\ run.pending = 0
        /\ \A f \in Launchers : ProcHolds(f)
    BY DEF IInv, RunHolds, PendingHolds
  <1>2. \A f \in Launchers : proc[f].pc \notin {"act", "observe", "record", "finish", "escalate", "accept"}
    BY <1>1 DEF ProcHolds
  <1>3. ASSUME NEW f \in Launchers, Command(f) \/ Step(f) \/ Crash(f) PROVE UNCHANGED run
    BY <1>2, <1>3 DEF Command, Finalize, Receipt, Start, Step, Crash, At, Ready, NotReady, RequestProjection,
        VerifyPosition, ObserveOpen, IntendReconcile, Intend, RequestCompletion, GiveUp, Confirm, Finish,
        Escalate, Invoke, Observe, Record, QueryProjection, CompleteTicket, AcceptProjection, BackOff,
        AcceptCompletion
  <1>4. CASE Elapse \/ Drift \/ UNCHANGED vars
    BY <1>4 DEF Elapse, Drift, vars
  <1>5. CASE Authorize
    BY <1>1, <1>5 DEF Authorize, Run
  <1> QED
    BY <1>3, <1>4, <1>5 DEF Next

-----------------------------------------------------------------------------
(* Theorems *)

\* The effect ledger says what happened outside: an effect is recorded only
\* after it was made, is never made without an intention saved before it, and is
\* attempted no more often than the configuration allows, whoever runs, dies or
\* resumes (finalizer.py, _record_local_result, _intend, _attempts).
THEOREM LedgerIsTrue == Spec => []LedgerHolds
  <1>1. ASSUME IInv PROVE TypeOK
    <2>1. /\ run \in Run /\ PendingHolds /\ proc \in [Launchers -> Proc]
          /\ \A f \in Launchers : ProcHolds(f)
      BY <1>1 DEF IInv, RunHolds
    <2>2. /\ run.disposition \in {"ACTIVE", "WAITING_MCP", "HUMAN_REVIEW", "DONE", "ABANDONED"}
          /\ run.recorded \subseteq Effects /\ run.waited \in 0 .. MaxWait
          /\ run.ledger \in Seq([op : Ops, of : Nat, outcome : Outcomes])
      BY <2>1 DEF Run, Entry
    <2>3. DOMAIN run.ledger = 1 .. Len(run.ledger)
      BY <2>1, LedgerType
    <2>4. \A f \in Launchers : proc[f] \in Proc /\ ProcHolds(f)
      BY <2>1
    <2>5. \A f \in Launchers : /\ proc[f].pc \in Pcs
                               /\ ~proc[f].fresh => proc[f].pc \in {"idle", "invoke", "call"}
      BY <2>4 DEF Proc, ProcHolds
    <2>6. \A f \in Launchers :
             /\ proc[f].pc \in {"invoke", "observe", "record", "call", "accept"} =>
                   /\ proc[f].effect \in DOMAIN run.ledger
                   /\ proc[f].fresh => ~Reconciled(proc[f].effect)
             /\ proc[f].pc \in {"call", "accept"} /\ proc[f].fresh => proc[f].effect = run.pending
      BY <2>3, <2>4 DEF ProcHolds
    <2> QED
      BY <2>1, <2>2, <2>5, <2>6 DEF TypeOK, PendingHolds
  <1>2. IInv => LedgerHolds
    BY <1>1 DEF IInv, RunHolds, Truth, LedgerHolds
  <1> QED
    BY <1>2, Inductive, PTL

\* Between two attempts at a commit or a push the first one was reconciled and
\* then looked for in vain, by whichever process (finalizer.py, advance,
\* _reconcile_local_effect).
THEOREM RetriesAreObserved == Spec => []ObservedBeforeRetry
  <1>1. IInv => ObservedBeforeRetry
    BY DEF IInv, RunHolds
  <1> QED
    BY <1>1, Inductive, PTL

\* A recorded Retry-After time holds for every process, those already started
\* included (advance, finalization_next_eligible_at).
THEOREM BackoffBinds == Spec => BackoffHonoured
  <1>1. IInv /\ [Next]_vars => [backoff => run'.ledger = run.ledger]_vars
    BY StepWaits
  <1> QED
    BY <1>1, Inductive, PTL DEF Spec, BackoffHonoured

\* Seen from outside the finalizer implements Delivery: commit, push and
\* completion happen in this order and once each, and the run is DONE after all
\* of them, whatever is retried, repeated by a process whose generation is
\* stale, or interrupted.
THEOREM FinalizerDelivers == Spec => ImplementsDelivery
  <1>1. Init => D!Init
    BY DEF Init, D!Init, D!Effects, Effects
  <1> QED
    BY <1>1, StepDelivers, Inductive, PTL DEF Spec, ImplementsDelivery, D!Spec
=============================================================================
