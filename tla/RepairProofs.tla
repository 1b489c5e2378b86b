------------------------------ MODULE RepairProofs ------------------------------
(***************************************************************************)
(* What TLAPS proves of Repair, for any requests, descriptors and contents *)
(* and any number of disturbances: effects are run once, the registry      *)
(* follows the run, ticket commands run on a tested release, what a        *)
(* completed descriptor answers can still be derived, and the whole is a   *)
(* replacement of the runner in one step (RunnerSwap).                     *)
(***************************************************************************)
EXTENDS Repair, FiniteSetTheorems, TLAPS

Command == [pc : Places \cup Versions, version : Versions \cup {None}, rev : Nat]

(* Types, without the bound on revisions. *)
Types ==
    /\ run \in RunState
    /\ handle \in [Requests -> Handle]
    /\ request \in [Requests -> Request]
    /\ source \in [Requests -> Versions]
    /\ journal \in [Requests -> Journal]
    /\ effect \in [Requests \X Effects -> EffectEntry]
    /\ pending \in [Requests -> Pending]
    /\ activations \in Activations /\ pointer \in activations \cup {None}
    /\ nonce \in [Descriptors -> Nonce]
    /\ proc \in [Descriptors -> Command]
    /\ lock \in Descriptors \cup {None}
    /\ outside \in 0..MaxOutside

(* Each request is committed at most once: the generation it is bound to   *)
(* is gone after that.                                                     *)
Passed == {r \in Requests : request[r].rev # 0 /\ request[r].rev < run.rev}
Counted == run.rev <= 1 + outside + Cardinality(Passed)

(* A receipt is there exactly when the effect was run, and only an effect  *)
(* that went well is closed.                                               *)
EffectHolds(k) ==
    /\ effect[k].runs = IF effect[k].receipt = "none" THEN 0 ELSE 1
    /\ effect[k].closed => effect[k].receipt = "ok"

(* What is built is what was tested. *)
EvidenceHolds(r) ==
    /\ journal[r].snapshot # None => journal[r].snapshot = journal[r].source
    /\ pending[r] # None => pending[r] = journal[r].source /\ effect[<<r, "build">>].receipt = "ok"
    /\ r \in activations => request[r].rev # 0

(* The run became ACTIVE by request r, and is as that left it unless it    *)
(* moved on.                                                               *)
Committed(r) ==
    /\ r \in Requests /\ request[r].rev # 0 /\ run.rev > request[r].rev
    /\ run.rev = request[r].rev + 1 => ActiveBy(r)
    /\ Tested(r) /\ Closed(r, Lifecycle) /\ journal[r].activation

Reported(r, rev) == Committed(r) /\ rev # 0 /\ journal[r].activated = rev

(* What a command has established before it came to where it is. *)
CommandHolds(d) ==
    LET r == For(d)
        pc == proc[d].pc
    IN  /\ pc # "idle" => r \in Requests /\ request[r].rev # 0 /\ nonce[d].status = "pending"
        /\ pc = "build" => proc[d].version # None /\ proc[d].version = journal[r].source
        /\ pc \in Lifecycle \cup {"publish", "commit", "report"} => lock = d
        /\ pc \in Lifecycle \cup {"publish", "commit"} => Tested(r)
        /\ pc \in {"start", "attest", "publish", "commit"} => effect[<<r, "terminate">>].closed
        /\ pc \in {"attest", "publish", "commit"} => effect[<<r, "start">>].closed
        /\ pc \in {"publish", "commit"} => effect[<<r, "attest">>].closed
        /\ pc = "commit" => pointer = r
        /\ pc = "report" => Committed(r) /\ proc[d].rev # 0
        /\ pc = "complete" => Reported(r, proc[d].rev)
        /\ nonce[d].status = "completed" => Reported(r, nonce[d].result)

RunHolds ==
    /\ IF pointer = None THEN run.runner = Original ELSE run.runner \in {Old(pointer), pointer}
    /\ run.receipt # None => Committed(run.receipt)

IInv ==
    /\ Types /\ Counted
    /\ \A k \in Requests \X Effects : EffectHolds(k)
    /\ \A r \in Requests : EvidenceHolds(r)
    /\ \A d \in Descriptors : CommandHolds(d)
    /\ RunHolds

-----------------------------------------------------------------------------
(* What is stored is never taken back. *)
Grows ==
    /\ \A r \in Requests :
          /\ request[r].rev # 0 => request'[r] = request[r]
          /\ journal[r].source # None => journal'[r].source = journal[r].source
          /\ journal[r].activation => journal'[r].activation
          /\ journal[r].activated # 0 => journal'[r].activated = journal[r].activated
          /\ pending[r] # None => pending'[r] = pending[r]
    /\ \A k \in Requests \X Effects :
          /\ effect[k].closed => effect'[k].closed
          /\ effect[k].receipt = "ok" => effect'[k].receipt = "ok"

LEMMA InitInv == Init => IInv
  <1> SUFFICES ASSUME Init PROVE IInv
    OBVIOUS
  <1>1. Types
    <2>1. (CHOOSE v \in Versions : TRUE) \in Versions
      BY RepairAssumption
    <2>2. 0 \in 0..MaxOutside
      BY RepairAssumption
    <2>3. run \in RunState /\ handle \in [Requests -> Handle] /\ request \in [Requests -> Request]
      BY DEF Init, RunState, Handle, Request, Ids
    <2>4. /\ journal \in [Requests -> Journal] /\ effect \in [Requests \X Effects -> EffectEntry]
          /\ pending \in [Requests -> Pending] /\ nonce \in [Descriptors -> Nonce]
      BY DEF Init, Journal, EffectEntry, Pending, Nonce
    <2>5. proc \in [Descriptors -> Command]
      BY DEF Init, Idle, Command, Places
    <2> QED
      BY <2>1, <2>2, <2>3, <2>4, <2>5 DEF Init, Types, Activations
  <1>2. Counted
    <2>1. Passed = {}
      BY DEF Init, Passed
    <2> QED
      BY <2>1, FS_EmptySet DEF Init, Counted
  <1>3. \A k \in Requests \X Effects : EffectHolds(k)
    BY DEF Init, EffectHolds
  <1>4. \A r \in Requests : EvidenceHolds(r)
    BY DEF Init, EvidenceHolds
  <1>5. \A d \in Descriptors : CommandHolds(d)
    BY DEF Init, CommandHolds, Idle, Lifecycle
  <1>6. RunHolds
    BY DEF Init, RunHolds
  <1> QED
    BY <1>1, <1>2, <1>3, <1>4, <1>5, <1>6 DEF IInv

-----------------------------------------------------------------------------
(* What a step leaves true *)

LEMMA TestedStays ==
    ASSUME Types, Grows, NEW r \in Requests, Tested(r)
    PROVE  Tested(r)'
  <1>1. journal[r].source \in Versions /\ journal'[r].source = journal[r].source /\ pending'[r] = pending[r]
    BY DEF Tested, Grows, Types, Journal
  <1> QED
    BY <1>1 DEF Tested, Closed, Grows, Effects

(* A run that became ACTIVE changes with a new revision, and no pointer     *)
(* moves meanwhile.                                                         *)
LEMMA CommittedStays ==
    ASSUME Types, Grows, NEW r, Committed(r),
           \/ run' = run /\ (pointer' = pointer \/ run.disposition # "ACTIVE")
           \/ run'.rev = run.rev + 1
    PROVE  Committed(r)'
  <1>1. r \in Requests /\ Tested(r)' /\ request'[r] = request[r] /\ journal'[r].activation
    BY TestedStays DEF Committed, Grows
  <1>2. Closed(r, Lifecycle)'
    BY <1>1 DEF Committed, Closed, Grows, Effects, Lifecycle
  <1>3. run.rev \in Nat /\ request[r].rev \in Nat
    BY <1>1 DEF Types, RunState, Request
  <1>4. CASE run' = run /\ (pointer' = pointer \/ run.disposition # "ACTIVE")
    BY <1>1, <1>2, <1>3, <1>4 DEF Committed, ActiveBy
  <1>5. CASE run'.rev = run.rev + 1
    BY <1>1, <1>2, <1>3, <1>5 DEF Committed
  <1> QED
    BY <1>4, <1>5

LEMMA ReportedStays ==
    ASSUME Types, Grows, NEW r, NEW rev, Reported(r, rev),
           \/ run' = run /\ (pointer' = pointer \/ run.disposition # "ACTIVE")
           \/ run'.rev = run.rev + 1
    PROVE  Reported(r, rev)'
  <1>1. Committed(r)' /\ r \in Requests
    BY CommittedStays DEF Reported, Committed
  <1> QED
    BY <1>1 DEF Reported, Grows

(* No other command loses what it has established. *)
LEMMA OthersKeep ==
    ASSUME IInv, Grows, NEW d, NEW o \in Descriptors \ {d},
           \/ run' = run /\ (pointer' = pointer \/ run.disposition # "ACTIVE")
           \/ run'.rev = run.rev + 1,
           pointer' = pointer \/ lock = d,
           proc'[o] = proc[o] /\ For(o)' = For(o),
           nonce'[o].status = nonce[o].status, nonce'[o].result = nonce[o].result,
           lock = o => lock' = o
    PROVE  CommandHolds(o)'
  <1>a. PICK r : r = For(o) /\ r = For(o)'
    OBVIOUS
  <1>b. PICK pc : pc = proc[o].pc /\ pc = proc'[o].pc
    OBVIOUS
  <1>c. PICK rev : rev = proc[o].rev /\ rev = proc'[o].rev
    OBVIOUS
  <1>0. /\ Types /\ pc \in Places \cup Versions
        /\ pc # "idle" => r \in Requests /\ request[r].rev # 0 /\ nonce[o].status = "pending"
        /\ pc = "build" => proc[o].version # None /\ proc[o].version = journal[r].source
        /\ pc \in Lifecycle \cup {"publish", "commit", "report"} => lock = o
        /\ pc \in Lifecycle \cup {"publish", "commit"} => Tested(r)
        /\ pc \in {"start", "attest", "publish", "commit"} => effect[<<r, "terminate">>].closed
        /\ pc \in {"attest", "publish", "commit"} => effect[<<r, "start">>].closed
        /\ pc \in {"publish", "commit"} => effect[<<r, "attest">>].closed
        /\ pc = "commit" => pointer = r
        /\ pc = "report" => Committed(r) /\ rev # 0
        /\ pc = "complete" => Reported(r, rev)
        /\ nonce[o].status = "completed" => Reported(r, nonce[o].result)
    BY <1>a, <1>b, <1>c DEF IInv, Types, Command, CommandHolds
  <1>1. pc # "idle" => r \in Requests /\ request'[r].rev # 0
    BY <1>0 DEF Grows
  <1>2. pc = "build" => proc'[o].version # None /\ proc'[o].version = journal'[r].source
    BY <1>0, <1>1 DEF Grows
  <1>3. pc \in Lifecycle \cup {"publish", "commit"} => Tested(r)'
    BY <1>0, <1>1, TestedStays DEF Lifecycle
  <1>4. /\ pc \in {"start", "attest", "publish", "commit"} => effect'[<<r, "terminate">>].closed
        /\ pc \in {"attest", "publish", "commit"} => effect'[<<r, "start">>].closed
        /\ pc \in {"publish", "commit"} => effect'[<<r, "attest">>].closed
    BY <1>0, <1>1 DEF Grows, Effects, Lifecycle
  <1>5. pc = "commit" => pointer' = r
    BY <1>0
  <1>6. pc = "report" => Committed(r)'
    BY <1>0, CommittedStays
  <1>7. pc = "complete" => Reported(r, rev)'
    BY <1>0, ReportedStays
  <1>8. ASSUME nonce'[o].status = "completed" PROVE Reported(r, nonce[o].result)'
    <2>1. PICK v : v = nonce[o].result /\ v = nonce'[o].result
      OBVIOUS
    <2>2. Reported(r, v)'
      BY <1>0, <1>8, <2>1, ReportedStays
    <2> QED
      BY <2>1, <2>2 DEF Reported
  <1>9. /\ pc # "idle" => nonce'[o].status = "pending"
        /\ pc \in Lifecycle \cup {"publish", "commit", "report"} => lock' = o
    BY <1>0
  <1> QED
    BY <1>a, <1>b, <1>c, <1>0, <1>1, <1>2, <1>3, <1>4, <1>5, <1>6, <1>7, <1>8, <1>9 DEF CommandHolds

LEMMA EvidenceStays ==
    ASSUME IInv, Grows, NEW r \in Requests, pending'[r] = pending[r], activations' = activations,
           journal'[r].snapshot = journal[r].snapshot
    PROVE  EvidenceHolds(r)'
  <1>1. EvidenceHolds(r) /\ <<r, "build">> \in Requests \X Effects
    BY DEF IInv, Effects
  <1> QED
    BY <1>1 DEF EvidenceHolds, Grows

(* Requests whose generation is gone stay so. *)
LEMMA CountedStays ==
    ASSUME IInv, Grows, Types', outside' \in {outside, outside + 1}, run' = run
    PROVE  Counted'
  <1>1. \A r \in Passed : r \in Passed'
    BY DEF Passed, Grows
  <1>2. Passed \subseteq Passed' /\ Passed' \subseteq Requests /\ IsFiniteSet(Requests)
    BY <1>1, RepairAssumption DEF Passed
  <1>3. IsFiniteSet(Passed')
    BY <1>2, FS_Subset
  <1>4. Cardinality(Passed) <= Cardinality(Passed') /\ Cardinality(Passed) \in Nat /\ Cardinality(Passed') \in Nat
    BY <1>2, <1>3, FS_Subset, FS_CardinalityType
  <1>5. run.rev \in Nat /\ outside \in Nat
    BY RepairAssumption DEF IInv, Types, RunState
  <1> QED
    BY <1>4, <1>5 DEF IInv, Counted

(* A step of command d that does not change the run. *)
LEMMA CommandStep ==
    ASSUME IInv, NEW d, Types', Grows, run' = run, outside' \in {outside, outside + 1},
           \/ pointer' = pointer
           \/ lock = d /\ run.disposition # "ACTIVE" /\ pointer' \in Requests /\ run.runner = Old(pointer)',
           \A o \in Descriptors \ {d} :
               /\ proc'[o] = proc[o] /\ For(o)' = For(o)
               /\ nonce'[o].status = nonce[o].status /\ nonce'[o].result = nonce[o].result
               /\ lock = o => lock' = o,
           \A k \in Requests \X Effects : effect'[k] = effect[k] \/ EffectHolds(k)',
           \A r \in Requests : EvidenceHolds(r)',
           d \in Descriptors => CommandHolds(d)'
    PROVE  IInv'
  <1>1. Counted'
    BY CountedStays
  <1>2. \A k \in Requests \X Effects : EffectHolds(k)'
    BY DEF IInv, EffectHolds
  <1>3. ASSUME NEW o \in Descriptors PROVE CommandHolds(o)'
    BY OthersKeep
  <1>4. RunHolds'
    <2>1. run.receipt # None => Committed(run.receipt)'
      BY CommittedStays DEF IInv, RunHolds
    <2>2. CASE pointer' = pointer
      <3>1. pointer # None => Old(pointer)' = Old(pointer)
        BY <2>2 DEF IInv, Types, EvidenceHolds, Grows, Activations, Old
      <3> QED
        BY <2>1, <2>2, <3>1 DEF IInv, RunHolds, Committed
    <2>3. CASE lock = d /\ run.disposition # "ACTIVE" /\ pointer' \in Requests /\ run.runner = Old(pointer)'
      <3>1. pointer' # None
        BY <2>3, RepairAssumption
      <3> QED
        BY <2>1, <2>3, <3>1 DEF RunHolds
    <2> QED
      BY <2>2, <2>3
  <1> QED
    BY <1>1, <1>2, <1>3, <1>4 DEF IInv

(* A step outside the commands, which they do not notice. *)
LEMMA OutsideStep ==
    ASSUME IInv, Types', Grows,
           UNCHANGED <<run, journal, effect, registry, proc, lock>>, outside' \in {outside, outside + 1},
           \A o \in Descriptors : /\ For(o)' = For(o)
                                  /\ nonce'[o].status = nonce[o].status /\ nonce'[o].result = nonce[o].result
    PROVE  IInv'
  <1> DEFINE d == CHOOSE d : d \notin Descriptors
  <1>1. d \notin Descriptors
    BY NoSetContainsEverything
  <1> HIDE DEF d
  <1>2. UNCHANGED <<pending, activations, pointer>>
    BY DEF registry
  <1>3. \A r \in Requests : EvidenceHolds(r)'
    BY <1>2, EvidenceStays
  <1> QED
    BY <1>1, <1>2, <1>3, CommandStep

LEMMA PrepareInv == ASSUME IInv, NEW r \in Requests, Prepare(r) PROVE IInv'
  <1>1. ASSUME NEW stage \in {"intended", "issued"}, NEW rev \in Nat, SetHandle(r, stage, rev), outside' = outside
        PROVE  IInv'
    <2>1. UNCHANGED <<run, request, source, journal, effect, pending, activations, pointer, nonce, proc, lock, outside>>
      BY <1>1 DEF SetHandle, registry
    <2>2. handle' \in [Requests -> Handle]
      BY <1>1 DEF SetHandle, Handle, IInv, Types
    <2>3. Types'
      BY <2>1, <2>2 DEF IInv, Types
    <2>4. Grows
      BY <2>1 DEF Grows
    <2> QED
      BY <2>1, <2>3, <2>4, OutsideStep DEF registry, For
  <1>2. run.rev \in Nat /\ handle[r].rev \in Nat /\ run.runner \in Ids
    BY DEF IInv, Types, RunState, Handle
  <1>3. CASE IntendWorkspace(r) \/ IssueHandle(r)
    BY <1>1, <1>2, <1>3 DEF IntendWorkspace, IssueHandle, bounds
  <1>4. CASE CreateRequest(r)
    <2>1. /\ request' = [request EXCEPT ![r] = [rev |-> run.rev, old |-> run.runner]] /\ request[r].rev = 0
          /\ UNCHANGED <<run, handle, source, journal, effect, pending, activations, pointer, nonce, proc, lock, outside>>
      BY <1>4 DEF CreateRequest, registry, bounds
    <2>2. request' \in [Requests -> Request] /\ \A q \in Requests : request[q].rev # 0 => request'[q] = request[q]
      BY <1>2, <2>1 DEF IInv, Types, Request
    <2>3. Types'
      BY <2>1, <2>2 DEF IInv, Types
    <2>4. Grows
      BY <2>1, <2>2 DEF Grows
    <2> QED
      BY <2>1, <2>3, <2>4, OutsideStep DEF registry, For
  <1> QED
    BY <1>3, <1>4 DEF Prepare

LEMMA EditInv == ASSUME IInv, NEW r \in Requests, Edit(r) PROVE IInv'
  <1>1. UNCHANGED <<run, handle, request, journal, effect, pending, activations, pointer, nonce, proc, lock, outside>>
    BY DEF Edit, Disturb, registry
  <1>2. Types'
    <2>1. source' \in [Requests -> Versions]
      BY DEF Edit, IInv, Types
    <2> QED
      BY <1>1, <2>1 DEF IInv, Types
  <1>3. Grows
    BY <1>1 DEF Grows
  <1> QED
    BY <1>1, <1>2, <1>3, OutsideStep DEF registry, For

LEMMA InvalidateInv == ASSUME IInv, NEW r \in Requests, InvalidateHandle(r) PROVE IInv'
  <1>1. UNCHANGED <<run, request, source, journal, effect, pending, activations, pointer, nonce, proc, lock>>
    BY DEF InvalidateHandle, registry
  <1>2. outside' = outside + 1 /\ outside' \in 0..MaxOutside
    BY RepairAssumption DEF InvalidateHandle, IInv, Types
  <1>3. Types'
    <2>1. handle' \in [Requests -> Handle]
      BY DEF InvalidateHandle, Handle, IInv, Types
    <2> QED
      BY <1>1, <1>2, <2>1 DEF IInv, Types
  <1>4. Grows
    BY <1>1 DEF Grows
  <1> QED
    BY <1>1, <1>2, <1>3, <1>4, OutsideStep DEF registry, For

LEMMA ExpireInv == ASSUME IInv, NEW d \in Descriptors, Expire(d) PROVE IInv'
  <1>1. /\ nonce' = [nonce EXCEPT ![d].expired = TRUE]
        /\ UNCHANGED <<run, handle, request, source, journal, effect, pending, activations, pointer, proc, lock, outside>>
    BY DEF Expire, Disturb, registry, workspaces
  <1>2. Types'
    <2>1. nonce' \in [Descriptors -> Nonce]
      BY <1>1 DEF IInv, Types, Nonce
    <2> QED
      BY <1>1, <2>1 DEF IInv, Types
  <1>3. Grows
    BY <1>1 DEF Grows
  <1>4. \A o \in Descriptors : /\ For(o)' = For(o)
                               /\ nonce'[o].status = nonce[o].status /\ nonce'[o].result = nonce[o].result
    BY <1>1 DEF For, IInv, Types, Nonce
  <1> QED
    BY <1>1, <1>2, <1>3, <1>4, OutsideStep DEF registry

-----------------------------------------------------------------------------
(* Steps of commands *)

(* Going on from one place to another. *)
LEMMA GotoFacts ==
    ASSUME IInv, NEW d \in Descriptors, NEW pc \in Places \cup Versions, Goto(d, pc)
    PROVE  /\ proc' \in [Descriptors -> Command]
           /\ proc'[d].pc = pc /\ proc'[d].version = proc[d].version /\ proc'[d].rev = proc[d].rev
           /\ \A o \in Descriptors \ {d} : proc'[o] = proc[o]
  BY DEF IInv, Types, Goto, Command

LEMMA EndFacts ==
    ASSUME IInv, NEW d \in Descriptors, End(d)
    PROVE  /\ proc' \in [Descriptors -> Command] /\ proc'[d].pc = "idle"
           /\ lock' \in Descriptors \cup {None}
           /\ \A o \in Descriptors \ {d} : proc'[o] = proc[o] /\ (lock = o => lock' = o)
  <1>1. Idle \in Command /\ Idle.pc = "idle"
    BY DEF Idle, Command, Places
  <1> QED
    BY <1>1 DEF IInv, Types, End

(* A command that stands still or ended keeps its word. *)
LEMMA SelfKeeps ==
    ASSUME IInv, Grows, NEW d \in Descriptors, run' = run, pointer' = pointer, nonce' = nonce,
           \/ proc'[d] = proc[d] /\ lock' = lock
           \/ proc'[d].pc = "idle"
    PROVE  CommandHolds(d)'
  <1>1. ASSUME nonce[d].status = "completed" PROVE Reported(For(d), nonce[d].result)'
    <2>1. PICK r : r = For(d) /\ r = For(d)'
      BY DEF For
    <2>2. PICK rev : rev = nonce[d].result /\ rev = nonce'[d].result
      OBVIOUS
    <2>3. Reported(r, rev) /\ Types
      BY <1>1, <2>1, <2>2 DEF IInv, CommandHolds
    <2>4. Reported(r, rev)'
      BY <2>3, ReportedStays
    <2> QED
      BY <2>1, <2>2, <2>4 DEF Reported, Committed
  <1>2. For(d)' = For(d)
    BY DEF For
  <1>3. CASE proc'[d] = proc[d] /\ lock' = lock
    BY <1>2, <1>3, OthersKeep, NoSetContainsEverything
  <1>4. CASE proc'[d].pc = "idle"
    BY <1>1, <1>2, <1>4 DEF CommandHolds, Lifecycle, Reported, Committed
  <1> QED
    BY <1>3, <1>4

(* Refusals, deaths and expiries end a command and change nothing else. *)
LEMMA EndInv ==
    ASSUME IInv, NEW d \in Descriptors, End(d),
           UNCHANGED <<run, workspaces, journal, effect, registry, nonce, outside>>
    PROVE  IInv'
  <1>1. UNCHANGED <<run, handle, request, source, journal, effect, pending, activations, pointer, nonce, outside>>
    BY DEF workspaces, registry
  <1>2. Types'
    BY <1>1, EndFacts DEF IInv, Types
  <1>3. Grows
    BY <1>1 DEF Grows
  <1>4. CommandHolds(d)'
    BY <1>1, <1>3, EndFacts, SelfKeeps
  <1>5. \A r \in Requests : EvidenceHolds(r)'
    BY <1>1, <1>3, EvidenceStays
  <1>6. \A o \in Descriptors : For(o)' = For(o)
    BY <1>1 DEF For
  <1> QED
    BY <1>1, <1>2, <1>3, <1>4, <1>5, <1>6, EndFacts, CommandStep

(* Going on to a place whose claims hold. *)
LEMMA GotoInv ==
    ASSUME IInv, NEW d \in Descriptors, NEW pc \in Places \cup Versions,
           Goto(d, pc), CommandHolds(d)', lock' \in {lock, d}, lock' = d => lock \in {d, None},
           UNCHANGED <<run, workspaces, journal, effect, registry, nonce, outside>>
    PROVE  IInv'
  <1>1. UNCHANGED <<run, handle, request, source, journal, effect, pending, activations, pointer, nonce, outside>>
    BY DEF workspaces, registry
  <1>2. Types'
    BY <1>1, GotoFacts DEF IInv, Types
  <1>3. Grows
    BY <1>1 DEF Grows
  <1>4. \A r \in Requests : EvidenceHolds(r)'
    BY <1>1, <1>3, EvidenceStays
  <1>5. \A o \in Descriptors \ {d} : For(o)' = For(o) /\ (lock = o => lock' = o)
    BY <1>1, RepairAssumption DEF For
  <1> QED
    BY <1>1, <1>2, <1>3, <1>4, <1>5, GotoFacts, CommandStep

LEMMA StartInv == ASSUME IInv, NEW d \in Descriptors, Start(d) PROVE IInv'
  <1>1. PICK r \in Requests :
          /\ request[r].rev # 0
          /\ nonce[d].status = "unused" \/ nonce[d].status = "pending"
          /\ nonce' = [nonce EXCEPT ![d].request = r, ![d].status = "pending"]
          /\ Goto(d, "source") \/ Goto(d, "activate")
    BY DEF Start, Active
  <1>2. UNCHANGED <<run, handle, request, source, journal, effect, pending, activations, pointer, lock, outside>>
    BY DEF Start, workspaces, registry, bounds
  <1>3. /\ nonce' \in [Descriptors -> Nonce] /\ nonce'[d].status = "pending" /\ For(d)' = r
        /\ \A o \in Descriptors \ {d} : nonce'[o] = nonce[o]
    BY <1>1 DEF IInv, Types, Nonce, For
  <1>4. /\ proc' \in [Descriptors -> Command] /\ proc'[d].pc \in {"source", "activate"}
        /\ \A o \in Descriptors \ {d} : proc'[o] = proc[o]
    BY <1>1, GotoFacts DEF Places
  <1>5. Types'
    BY <1>2, <1>3, <1>4 DEF IInv, Types
  <1>6. Grows
    BY <1>2 DEF Grows
  <1>7. CommandHolds(d)'
    BY <1>1, <1>2, <1>3, <1>4 DEF CommandHolds, Lifecycle
  <1>8. \A q \in Requests : EvidenceHolds(q)'
    BY <1>2, <1>6, EvidenceStays
  <1>9. \A o \in Descriptors \ {d} : For(o)' = For(o)
    BY <1>3 DEF For
  <1> QED
    BY <1>2, <1>3, <1>4, <1>5, <1>6, <1>7, <1>8, <1>9, CommandStep

(* A content is none of the places that carry claims of their own. *)
LEMMA VersionHolds ==
    ASSUME IInv, NEW d \in Descriptors, NEW v \in Versions, Grows, proc'[d].pc = v,
           proc[d].pc # "idle", run' = run, pointer' = pointer, nonce' = nonce
    PROVE  CommandHolds(d)'
  <1>1. v \notin Places
    BY RepairAssumption
  <1>2. /\ For(d) \in Requests /\ request[For(d)].rev # 0 /\ nonce[d].status = "pending"
        /\ For(d)' = For(d) /\ request'[For(d)] = request[For(d)]
    BY DEF IInv, CommandHolds, For, Grows
  <1> QED
    BY <1>1, <1>2 DEF CommandHolds, Places, Lifecycle

(* Going on to the regression of what the workspace contains. *)
LEMMA TestInv ==
    ASSUME IInv, NEW d \in Descriptors, Test(d), proc[d].pc # "idle", lock' = lock,
           UNCHANGED <<run, workspaces, journal, effect, registry, nonce, outside>>
    PROVE  IInv'
  <1> PICK r : r = For(d)
    OBVIOUS
  <1>1. UNCHANGED <<run, handle, request, source, journal, effect, pending, activations, pointer, nonce, outside>>
    BY DEF workspaces, registry
  <1>2. source[r] \in Versions
    BY DEF IInv, CommandHolds, Types
  <1>3. /\ proc' \in [Descriptors -> Command] /\ proc'[d].pc = source[r]
        /\ \A o \in Descriptors \ {d} : proc'[o] = proc[o]
    BY <1>2 DEF Test, IInv, Types, Command
  <1>4. Types'
    BY <1>1, <1>3 DEF IInv, Types
  <1>5. Grows
    BY <1>1 DEF Grows
  <1>6. CommandHolds(d)'
    BY <1>1, <1>2, <1>3, <1>5, VersionHolds
  <1>7. \A q \in Requests : EvidenceHolds(q)'
    BY <1>1, <1>5, EvidenceStays
  <1> QED
    BY <1>1, <1>3, <1>4, <1>5, <1>6, <1>7, CommandStep DEF For

LEMMA ReadSourceInv == ASSUME IInv, NEW d \in Descriptors, ReadSource(d) PROVE IInv'
  <1> PICK r : r = For(d)
    OBVIOUS
  <1>1. /\ UNCHANGED <<run, handle, request, source, journal, pending, activations, pointer, nonce, outside>>
        /\ proc[d].pc = "source"
    BY DEF ReadSource, workspaces, registry, bounds, At
  <1>2. CommandHolds(d) /\ r \in Requests /\ request[r].rev # 0 /\ nonce[d].status = "pending" /\ For(d)' = r
    BY <1>1 DEF IInv, CommandHolds, For
  <1>3. CASE End(d) /\ UNCHANGED effect
    BY <1>1, <1>3, EndInv DEF workspaces, registry
  <1>4. CASE /\ pending[r] # None /\ Goto(d, "activate") /\ UNCHANGED lock
             /\ effect' = [effect EXCEPT ![<<r, "build">>].closed = TRUE]
    <2> PICK k : k = <<r, "build">>
      OBVIOUS
    <2>1. k \in Requests \X Effects /\ effect[k].receipt = "ok" /\ effect[k].runs = 1
      BY <1>2, <1>4 DEF IInv, EvidenceHolds, EffectHolds, Effects
    <2>2. /\ effect' \in [Requests \X Effects -> EffectEntry] /\ effect'[k].receipt = "ok" /\ effect'[k].runs = 1
          /\ \A j \in Requests \X Effects : j # k => effect'[j] = effect[j]
          /\ effect'[k].closed
      BY <1>4, <2>1 DEF IInv, Types, EffectEntry
    <2>3. EffectHolds(k)'
      BY <2>2 DEF EffectHolds
    <2>4. /\ proc' \in [Descriptors -> Command] /\ proc'[d].pc = "activate"
          /\ \A o \in Descriptors \ {d} : proc'[o] = proc[o]
      BY <1>4, GotoFacts DEF Places
    <2>5. Types'
      BY <1>1, <1>4, <2>2, <2>4 DEF IInv, Types
    <2>6. Grows
      BY <1>1, <2>2 DEF Grows
    <2>7. CommandHolds(d)'
      BY <1>1, <1>2, <2>4 DEF CommandHolds, Lifecycle
    <2>8. \A q \in Requests : EvidenceHolds(q)'
      BY <1>1, <2>6, EvidenceStays
    <2> QED
      BY <1>1, <1>4, <2>2, <2>3, <2>4, <2>5, <2>6, <2>7, <2>8, CommandStep DEF For
  <1>5. CASE Test(d) /\ UNCHANGED <<effect, lock>>
    BY <1>1, <1>5, TestInv DEF workspaces, registry
  <1> QED
    BY <1>3, <1>4, <1>5 DEF ReadSource

LEMMA RereadInv == ASSUME IInv, NEW d \in Descriptors, Reread(d) PROVE IInv'
  <1>1. UNCHANGED <<run, workspaces, journal, effect, registry, nonce, outside>> /\ proc[d].pc # "idle"
    BY DEF Reread, bounds, At
  <1>2. (Test(d) /\ UNCHANGED lock) \/ End(d)
    BY DEF Reread
  <1> QED
    BY <1>1, <1>2, TestInv, EndInv

LEMMA RecheckInv == ASSUME IInv, NEW d \in Descriptors, Recheck(d) PROVE IInv'
  <1> PICK r : r = For(d)
    OBVIOUS
  <1>1. /\ UNCHANGED <<run, handle, request, source, effect, pending, activations, pointer, nonce, outside>>
        /\ proc[d].pc = "tested"
    BY DEF Recheck, workspaces, registry, bounds, At
  <1>2. /\ CommandHolds(d) /\ r \in Requests /\ request[r].rev # 0 /\ nonce[d].status = "pending" /\ For(d)' = r
        /\ EvidenceHolds(r)
    BY <1>1 DEF IInv, CommandHolds, For
  <1>3. CASE End(d) /\ UNCHANGED journal
    BY <1>1, <1>3, EndInv DEF workspaces, registry
  <1>4. CASE Goto(d, "again") /\ UNCHANGED <<lock, journal>>
    <2>1. CommandHolds(d)'
      BY <1>1, <1>2, <1>4, GotoFacts DEF CommandHolds, Places, Lifecycle
    <2> QED
      BY <1>1, <1>4, <2>1, GotoInv DEF workspaces, registry, Places
  <1>5. CASE /\ source[r] = proc[d].version /\ journal[r].source \in {None, proc[d].version}
             /\ journal' = [journal EXCEPT ![r].source = proc[d].version]
             /\ (Goto(d, "build") /\ UNCHANGED lock) \/ End(d)
    <2>1. proc[d].version \in Versions /\ proc[d].version # None
      BY <1>2, <1>5, RepairAssumption DEF IInv, Types
    <2>2. /\ journal' \in [Requests -> Journal] /\ journal'[r].source = proc[d].version
          /\ \A q \in Requests : /\ journal'[q].snapshot = journal[q].snapshot
                                 /\ journal'[q].activation = journal[q].activation
                                 /\ journal'[q].activated = journal[q].activated
                                 /\ q # r => journal'[q].source = journal[q].source
      BY <1>2, <1>5, <2>1 DEF IInv, Types, Journal
    <2>3. /\ proc' \in [Descriptors -> Command] /\ lock' \in Descriptors \cup {None}
          /\ \/ proc'[d].pc = "build" /\ proc'[d].version = proc[d].version
             \/ proc'[d].pc = "idle"
          /\ \A o \in Descriptors \ {d} : proc'[o] = proc[o] /\ (lock = o => lock' = o)
      <3>1. CASE Goto(d, "build") /\ UNCHANGED lock
        BY <3>1, GotoFacts DEF Places, IInv, Types
      <3>2. CASE End(d)
        BY <3>2, EndFacts
      <3> QED
        BY <1>5, <3>1, <3>2
    <2>4. Types'
      BY <1>1, <2>2, <2>3 DEF IInv, Types
    <2>5. Grows
      BY <1>1, <1>5, <2>2 DEF Grows
    <2>6. CommandHolds(d)'
      <3>1. CASE proc'[d].pc = "build" /\ proc'[d].version = proc[d].version
        BY <1>1, <1>2, <2>1, <2>2, <3>1 DEF CommandHolds, Lifecycle
      <3>2. CASE proc'[d].pc = "idle"
        BY <1>1, <2>5, <3>2, SelfKeeps
      <3> QED
        BY <2>3, <3>1, <3>2
    <2>7. ASSUME NEW q \in Requests PROVE EvidenceHolds(q)'
      <3>1. pending'[q] = pending[q] /\ journal'[q].snapshot = journal[q].snapshot
        BY <1>1, <2>2
      <3> QED
        BY <1>1, <2>5, <3>1, EvidenceStays
    <2> QED
      BY <1>1, <2>3, <2>4, <2>5, <2>6, <2>7, CommandStep DEF For
  <1> QED
    BY <1>3, <1>4, <1>5 DEF Recheck

(* What goes into the build is the source that passed its regression. *)
LEMMA SnapshotInv == ASSUME IInv, NEW d \in Descriptors, TakeSnapshot(d) PROVE IInv'
  <1> PICK r : r = For(d)
    OBVIOUS
  <1>1. /\ UNCHANGED <<run, handle, request, source, effect, pending, activations, pointer, nonce, outside>>
        /\ proc[d].pc = "build"
    BY DEF TakeSnapshot, workspaces, registry, bounds, At
  <1>2. /\ CommandHolds(d) /\ r \in Requests /\ For(d)' = r /\ EvidenceHolds(r)
        /\ proc[d].version = journal[r].source
    BY <1>1 DEF IInv, CommandHolds, For
  <1>3. CASE End(d) /\ UNCHANGED journal
    BY <1>1, <1>3, EndInv DEF workspaces, registry
  <1>4. CASE /\ Copies(d) /\ UNCHANGED <<proc, lock>>
             /\ journal' = [journal EXCEPT ![r].snapshot = source[r]]
    <2>1. source[r] \in Versions /\ source[r] = journal[r].source
      BY <1>2, <1>4 DEF IInv, Types, Copies
    <2>2. /\ journal' \in [Requests -> Journal] /\ journal'[r].snapshot = source[r]
          /\ \A q \in Requests : /\ journal'[q].source = journal[q].source
                                 /\ journal'[q].activation = journal[q].activation
                                 /\ journal'[q].activated = journal[q].activated
                                 /\ q # r => journal'[q].snapshot = journal[q].snapshot
      BY <1>2, <1>4, <2>1 DEF IInv, Types, Journal
    <2>3. Types'
      BY <1>1, <1>4, <2>2 DEF IInv, Types
    <2>4. Grows
      BY <1>1, <1>4, <2>2 DEF Grows
    <2>5. CommandHolds(d)'
      BY <1>1, <1>4, <2>4, SelfKeeps
    <2>6. EvidenceHolds(r)'
      <3>1. journal'[r].source = source[r] /\ journal'[r].snapshot = source[r]
        BY <1>2, <2>1, <2>2
      <3> QED
        BY <1>1, <1>2, <2>1, <3>1 DEF EvidenceHolds
    <2>7. ASSUME NEW q \in Requests PROVE EvidenceHolds(q)'
      <3>1. q # r => pending'[q] = pending[q] /\ journal'[q].snapshot = journal[q].snapshot
        BY <1>1, <2>2
      <3> QED
        BY <1>1, <2>4, <2>6, <3>1, EvidenceStays
    <2> QED
      BY <1>1, <1>4, <2>3, <2>4, <2>5, <2>7, CommandStep DEF For
  <1> QED
    BY <1>3, <1>4 DEF TakeSnapshot

(* An effect is run when there is no receipt of it, and leaves one.        *)
LEMMA ExecuteInv == ASSUME IInv, NEW d \in Descriptors, Execute(d) PROVE IInv'
  <1> PICK k : k = <<For(d), proc[d].pc>>
    OBVIOUS
  <1>1. /\ UNCHANGED <<run, handle, request, source, journal, pending, activations, pointer, nonce, outside>>
        /\ proc[d].pc \in Effects /\ effect[k].receipt = "none"
    BY DEF Execute, workspaces, registry, bounds, Disturb, Unseen, Phase
  <1>2. For(d) \in Requests /\ k \in Requests \X Effects
    <2>1. proc[d].pc # "idle"
      BY <1>1, RepairAssumption DEF Effects, Lifecycle, Places
    <2> QED
      BY <1>1, <2>1 DEF IInv, CommandHolds
  <1>3. PICK receipt \in {"ok", "failed"} : Ran(d, receipt)
    BY DEF Execute
  <1>4. effect[k].runs = 0 /\ effect[k].closed = FALSE
    BY <1>1, <1>2 DEF IInv, EffectHolds, Types, EffectEntry
  <1>5. /\ effect' \in [Requests \X Effects -> EffectEntry]
        /\ effect'[k].receipt = receipt /\ effect'[k].runs = 1 /\ effect'[k].closed = FALSE
        /\ \A j \in Requests \X Effects : j # k => effect'[j] = effect[j]
    <2>1. effect' = [effect EXCEPT ![k].receipt = receipt, ![k].runs = @ + 1]
      BY <1>3 DEF Ran
    <2> QED
      BY <1>2, <1>4, <2>1 DEF IInv, Types, EffectEntry
  <1>6. EffectHolds(k)'
    BY <1>5 DEF EffectHolds
  <1>7. Grows
    BY <1>1, <1>2, <1>4, <1>5 DEF Grows
  <1>8. \A q \in Requests : EvidenceHolds(q)'
    BY <1>1, <1>7, EvidenceStays
  <1>9. /\ proc' \in [Descriptors -> Command] /\ lock' \in Descriptors \cup {None}
        /\ \A o \in Descriptors \ {d} : proc'[o] = proc[o] /\ (lock = o => lock' = o)
        /\ (proc' = proc /\ lock' = lock) \/ proc'[d].pc = "idle"
    <2>1. UNCHANGED <<proc, lock>> \/ End(d)
      BY DEF Execute
    <2> QED
      BY <2>1, EndFacts DEF IInv, Types
  <1>10. Types'
    BY <1>1, <1>5, <1>9 DEF IInv, Types
  <1>11. CommandHolds(d)'
    BY <1>1, <1>7, <1>9, SelfKeeps
  <1> QED
    BY <1>1, <1>5, <1>6, <1>7, <1>8, <1>9, <1>10, <1>11, CommandStep DEF For

LEMMA RecordPendingInv == ASSUME IInv, NEW d \in Descriptors, RecordPending(d) PROVE IInv'
  <1> PICK r : r = For(d)
    OBVIOUS
  <1>1. /\ UNCHANGED <<run, handle, request, source, journal, effect, activations, pointer, nonce, proc, lock, outside>>
        /\ proc[d].pc = "build" /\ pending[r] = None /\ effect[<<r, "build">>].receipt = "ok"
        /\ pending' = [pending EXCEPT ![r] = journal[r].snapshot]
    BY DEF RecordPending, workspaces, bounds, At, Phase
  <1>2. r \in Requests /\ EvidenceHolds(r) /\ journal[r].snapshot \in Versions \cup {None}
    BY <1>1 DEF IInv, CommandHolds, Types, Journal
  <1>3. /\ pending' \in [Requests -> Pending] /\ pending'[r] = journal[r].snapshot
        /\ \A q \in Requests : q # r => pending'[q] = pending[q]
    BY <1>1, <1>2 DEF IInv, Types, Pending
  <1>4. Types'
    BY <1>1, <1>3 DEF IInv, Types
  <1>5. Grows
    BY <1>1, <1>3 DEF Grows
  <1>6. EvidenceHolds(r)'
    BY <1>1, <1>2, <1>3 DEF EvidenceHolds
  <1>7. \A q \in Requests : EvidenceHolds(q)'
    BY <1>1, <1>3, <1>5, <1>6, EvidenceStays
  <1>8. CommandHolds(d)'
    BY <1>1, <1>5, SelfKeeps
  <1> QED
    BY <1>1, <1>4, <1>5, <1>7, <1>8, CommandStep DEF For

(* Closing an effect is what the next place asks for. *)
LEMMA CloseEffectInv == ASSUME IInv, NEW d \in Descriptors, CloseEffect(d) PROVE IInv'
  <1> PICK r : r = For(d)
    OBVIOUS
  <1> PICK pc : pc = proc[d].pc
    OBVIOUS
  <1> PICK k : k = <<r, pc>>
    OBVIOUS
  <1>1. /\ UNCHANGED <<run, handle, request, source, journal, pending, activations, pointer, nonce, lock, outside>>
        /\ pc \in Effects /\ effect[k].receipt = "ok"
        /\ effect' = [effect EXCEPT ![k].closed = TRUE] /\ Goto(d, After(pc))
    BY DEF CloseEffect, workspaces, registry, bounds, Phase
  <1>2. /\ CommandHolds(d) /\ r \in Requests /\ request[r].rev # 0 /\ nonce[d].status = "pending" /\ For(d)' = r
        /\ k \in Requests \X Effects /\ EffectHolds(k)
    <2>1. pc # "idle"
      BY <1>1, RepairAssumption DEF Effects, Lifecycle, Places
    <2> QED
      BY <1>1, <2>1 DEF IInv, CommandHolds, For
  <1>3. /\ effect' \in [Requests \X Effects -> EffectEntry]
        /\ effect'[k].receipt = "ok" /\ effect'[k].runs = effect[k].runs /\ effect'[k].closed
        /\ \A j \in Requests \X Effects : j # k => effect'[j] = effect[j]
    <2> QED
      BY <1>1, <1>2 DEF IInv, Types, EffectEntry
  <1>4. EffectHolds(k)'
    <2> QED
      BY <1>1, <1>2, <1>3 DEF EffectHolds
  <1>5. Grows
    BY <1>1, <1>3 DEF Grows
  <1>6. \/ pc \in Versions /\ After(pc) = "tested"
        \/ pc = "build" /\ After(pc) = "activate"
        \/ pc = "terminate" /\ After(pc) = "start"
        \/ pc = "start" /\ After(pc) = "attest"
        \/ pc = "attest" /\ After(pc) = "publish"
    BY <1>1, RepairAssumption DEF After, Effects, Lifecycle, Places
  <1>7. /\ proc' \in [Descriptors -> Command] /\ proc'[d].pc = After(pc)
        /\ \A o \in Descriptors \ {d} : proc'[o] = proc[o]
    BY <1>1, <1>6, GotoFacts DEF Places
  <1>8. Types'
    BY <1>1, <1>3, <1>7 DEF IInv, Types
  <1>9. CommandHolds(d)'
    <2>1. pc \in Lifecycle => Tested(r)' /\ lock' = d
      BY <1>1, <1>2, <1>5, TestedStays DEF CommandHolds, IInv
    <2>2. /\ pc = "terminate" => effect'[<<r, "terminate">>].closed
          /\ pc = "start" => effect'[<<r, "terminate">>].closed /\ effect'[<<r, "start">>].closed
          /\ pc = "attest" => /\ effect'[<<r, "terminate">>].closed /\ effect'[<<r, "start">>].closed
                              /\ effect'[<<r, "attest">>].closed
      BY <1>2, <1>3, <1>5 DEF CommandHolds, Grows, Effects, Lifecycle
    <2>3. r \in Requests /\ request'[r].rev # 0 /\ nonce'[d].status = "pending" /\ For(d)' = r
      BY <1>1, <1>2
    <2>4. proc'[d].pc = "tested" \/ proc'[d].pc = "activate" => CommandHolds(d)'
      BY <2>3 DEF CommandHolds, Lifecycle
    <2>5. pc = "terminate" => CommandHolds(d)'
      BY <1>6, <1>7, <2>1, <2>2, <2>3, RepairAssumption DEF CommandHolds, Lifecycle, Places
    <2>6. pc = "start" => CommandHolds(d)'
      BY <1>6, <1>7, <2>1, <2>2, <2>3, RepairAssumption DEF CommandHolds, Lifecycle, Places
    <2>7. pc = "attest" => CommandHolds(d)'
      BY <1>6, <1>7, <2>1, <2>2, <2>3, RepairAssumption DEF CommandHolds, Lifecycle, Places
    <2> QED
      BY <1>6, <1>7, <2>4, <2>5, <2>6, <2>7
  <1>10. \A q \in Requests : EvidenceHolds(q)'
    BY <1>1, <1>5, EvidenceStays
  <1>11. \A o \in Descriptors : For(o)' = For(o)
    BY <1>1 DEF For
  <1> QED
    BY <1>1, <1>3, <1>4, <1>5, <1>7, <1>8, <1>9, <1>10, <1>11, CommandStep

(* Under the lock the run is either ACTIVE by this request already, or     *)
(* bound to a request with a tested build.                                 *)
LEMMA LockInv == ASSUME IInv, NEW d \in Descriptors, Lock(d) PROVE IInv'
  <1> PICK r : r = For(d)
    OBVIOUS
  <1>1. /\ UNCHANGED <<run, handle, request, source, journal, effect, pending, activations, pointer, nonce, outside>>
        /\ proc[d].pc = "activate" /\ lock = None
    BY DEF Lock, workspaces, registry, bounds, At, LockFree
  <1>2. CommandHolds(d) /\ r \in Requests /\ request[r].rev # 0 /\ nonce[d].status = "pending" /\ For(d)' = r
    BY <1>1 DEF IInv, CommandHolds, For
  <1>3. Grows
    BY <1>1 DEF Grows
  <1>4. CASE End(d)
    BY <1>1, <1>4, EndInv DEF workspaces, registry
  <1>5. CASE Tested(r) /\ Goto(d, "terminate") /\ lock' = d
    <2>1. proc'[d].pc = "terminate" /\ Tested(r)'
      BY <1>2, <1>3, <1>5, GotoFacts, TestedStays DEF Places, IInv
    <2>2. CommandHolds(d)'
      BY <1>1, <1>2, <1>5, <2>1 DEF CommandHolds, Lifecycle
    <2> QED
      BY <1>1, <1>5, <2>2, GotoInv DEF workspaces, registry, Places
  <1>6. CASE ActiveBy(r) /\ proc' = [proc EXCEPT ![d].pc = "report", ![d].rev = run.rev] /\ lock' = d
    <2>1. Committed(r) /\ run.rev \in Nat /\ run.rev # 0
      <3>1. run.receipt = r /\ r # None
        BY <1>2, <1>6, RepairAssumption DEF ActiveBy
      <3> QED
        BY <3>1 DEF IInv, RunHolds, Committed, Types, RunState, Request
    <2>2. /\ proc' \in [Descriptors -> Command] /\ proc'[d].pc = "report" /\ proc'[d].rev = run.rev
          /\ \A o \in Descriptors \ {d} : proc'[o] = proc[o]
      BY <1>6, <2>1 DEF IInv, Types, Command, Places
    <2>3. Types'
      BY <1>1, <1>6, <2>2 DEF IInv, Types
    <2>4. Committed(r)'
      BY <1>1, <1>3, <2>1, CommittedStays DEF IInv
    <2>5. CommandHolds(d)'
      BY <1>1, <1>2, <1>6, <2>1, <2>2, <2>4 DEF CommandHolds, Lifecycle, Committed
    <2>6. \A q \in Requests : EvidenceHolds(q)'
      BY <1>1, <1>3, EvidenceStays
    <2>7. \A o \in Descriptors \ {d} : lock # o
      BY <1>1, RepairAssumption
    <2> QED
      BY <1>1, <1>3, <2>2, <2>3, <2>5, <2>6, <2>7, CommandStep DEF For
  <1> QED
    BY <1>4, <1>5, <1>6 DEF Lock

(* The pointer moves from the runner of the run to the new one.            *)
LEMMA PublishInv == ASSUME IInv, NEW d \in Descriptors, Publish(d) PROVE IInv'
  <1> PICK r : r = For(d)
    OBVIOUS
  <1>1. /\ UNCHANGED <<run, handle, request, source, journal, effect, nonce, outside>>
        /\ proc[d].pc = "publish"
    BY DEF Publish, workspaces, bounds, At
  <1>2. /\ CommandHolds(d) /\ r \in Requests /\ request[r].rev # 0 /\ nonce[d].status = "pending" /\ For(d)' = r
        /\ lock = d
    BY <1>1 DEF IInv, CommandHolds, For
  <1>3. CASE End(d) /\ UNCHANGED registry
    BY <1>1, <1>3, EndInv DEF workspaces
  <1>4. CASE /\ activations' = activations \cup {r}
             /\ UNCHANGED <<pending, pointer, proc, lock>>
    <2>1. Types'
      BY <1>1, <1>2, <1>4 DEF IInv, Types, Activations
    <2>2. Grows
      BY <1>1, <1>4 DEF Grows
    <2>3. CommandHolds(d)'
      BY <1>1, <1>4, <2>2, SelfKeeps
    <2>4. \A q \in Requests : EvidenceHolds(q)'
      BY <1>1, <1>2, <1>4 DEF IInv, EvidenceHolds
    <2> QED
      BY <1>1, <1>4, <2>1, <2>2, <2>3, <2>4, CommandStep DEF For
  <1>5. CASE /\ Bound(r) /\ r \in activations /\ pointer' = r
             /\ Goto(d, After("publish")) /\ UNCHANGED <<pending, activations, lock>>
    <2>1. After("publish") = "commit"
      BY RepairAssumption DEF After, Places
    <2>2. /\ proc' \in [Descriptors -> Command] /\ proc'[d].pc = "commit"
          /\ \A o \in Descriptors \ {d} : proc'[o] = proc[o]
      BY <1>5, <2>1, GotoFacts DEF Places
    <2>3. Types'
      BY <1>1, <1>5, <2>2 DEF IInv, Types
    <2>4. Grows
      BY <1>1, <1>5 DEF Grows
    <2>5. run.disposition # "ACTIVE" /\ run.runner = Old(r) /\ Old(pointer)' = Old(r)
      BY <1>1, <1>5 DEF Bound, Repairable, Old
    <2>6. CommandHolds(d)'
      <3>1. Tested(r)'
        BY <1>1, <1>2, <2>4, TestedStays DEF IInv, CommandHolds
      <3> QED
        BY <1>1, <1>2, <1>5, <2>2, <3>1 DEF CommandHolds, Lifecycle
    <2>7. \A q \in Requests : EvidenceHolds(q)'
      BY <1>1, <1>5, <2>4, EvidenceStays
    <2> QED
      BY <1>1, <1>2, <1>5, <2>2, <2>3, <2>4, <2>5, <2>6, <2>7, CommandStep DEF For
  <1> QED
    BY <1>3, <1>4, <1>5 DEF Publish

LEMMA RecordActivationInv == ASSUME IInv, NEW d \in Descriptors, RecordActivation(d) PROVE IInv'
  <1> PICK r : r = For(d)
    OBVIOUS
  <1>1. /\ UNCHANGED <<run, handle, request, source, effect, pending, activations, pointer, nonce, proc, lock, outside>>
        /\ proc[d].pc = "commit" /\ journal' = [journal EXCEPT ![r].activation = TRUE]
    BY DEF RecordActivation, workspaces, registry, bounds, At
  <1>2. journal' \in [Requests -> Journal]
    BY <1>1 DEF IInv, Types, Journal
  <1>3. \A q \in Requests : /\ journal'[q].source = journal[q].source /\ journal'[q].snapshot = journal[q].snapshot
                          /\ journal'[q].activated = journal[q].activated
                          /\ journal[q].activation => journal'[q].activation
    BY <1>1 DEF IInv, Types, Journal
  <1>4. Types'
    BY <1>1, <1>2 DEF IInv, Types
  <1>5. Grows
    BY <1>1, <1>3 DEF Grows
  <1>6. CommandHolds(d)' /\ \A q \in Requests : EvidenceHolds(q)'
    BY <1>1, <1>3, <1>5, SelfKeeps, EvidenceStays
  <1> QED
    BY <1>1, <1>4, <1>5, <1>6, CommandStep DEF For

(* The revision that became ACTIVE is recorded; whoever recorded one       *)
(* before finds the same.                                                  *)
LEMMA ReportInv == ASSUME IInv, NEW d \in Descriptors, Report(d) PROVE IInv'
  <1> PICK r : r = For(d)
    OBVIOUS
  <1>1. /\ UNCHANGED <<run, handle, request, source, effect, pending, activations, pointer, nonce, outside>>
        /\ proc[d].pc = "report"
    BY DEF Report, workspaces, registry, bounds, At
  <1>2. /\ CommandHolds(d) /\ r \in Requests /\ request[r].rev # 0 /\ nonce[d].status = "pending" /\ For(d)' = r
        /\ lock = d /\ Committed(r) /\ proc[d].rev # 0 /\ proc[d].rev \in Nat
    BY <1>1 DEF IInv, CommandHolds, For, Lifecycle, Types, Command
  <1>3. CASE End(d) /\ UNCHANGED journal
    BY <1>1, <1>3, EndInv DEF workspaces, registry
  <1>4. CASE /\ journal[r].activated \in {0, proc[d].rev}
             /\ journal' = [journal EXCEPT ![r].activated = proc[d].rev]
             /\ Goto(d, "complete") /\ lock' = None
    <2>1. /\ journal' \in [Requests -> Journal] /\ journal'[r].activated = proc[d].rev
          /\ \A q \in Requests : /\ journal'[q].snapshot = journal[q].snapshot
                                 /\ journal'[q].activation = journal[q].activation
                                 /\ journal'[q].source = journal[q].source
                                 /\ q # r => journal'[q].activated = journal[q].activated
      BY <1>2, <1>4 DEF IInv, Types, Journal
    <2>2. /\ proc' \in [Descriptors -> Command] /\ proc'[d].pc = "complete" /\ proc'[d].rev = proc[d].rev
          /\ \A o \in Descriptors \ {d} : proc'[o] = proc[o]
      BY <1>4, GotoFacts DEF Places
    <2>3. Types'
      BY <1>1, <1>4, <2>1, <2>2 DEF IInv, Types
    <2>4. Grows
      BY <1>1, <1>4, <2>1 DEF Grows
    <2>5. Reported(r, proc[d].rev)'
      BY <1>1, <1>2, <2>1, <2>2, <2>4, CommittedStays DEF IInv, Reported
    <2>6. CommandHolds(d)'
      <3>1. Committed(r)' /\ proc[d].rev # 0 /\ journal'[r].activated = proc[d].rev
        BY <1>2, <2>1, <1>1, <2>4, CommittedStays DEF IInv
      <3> QED
        BY <1>1, <1>2, <2>2, <3>1 DEF CommandHolds, Lifecycle, Reported, Committed
    <2>7. ASSUME NEW q \in Requests PROVE EvidenceHolds(q)'
      <3>1. pending'[q] = pending[q] /\ journal'[q].snapshot = journal[q].snapshot
        BY <1>1, <2>1
      <3> QED
        BY <1>1, <2>4, <3>1, EvidenceStays
    <2> QED
      BY <1>1, <1>2, <1>4, <2>2, <2>3, <2>4, <2>6, <2>7, CommandStep DEF For
  <1> QED
    BY <1>3, <1>4 DEF Report

LEMMA CompleteInv == ASSUME IInv, NEW d \in Descriptors, Complete(d) PROVE IInv'
  <1>1. /\ nonce' = [nonce EXCEPT ![d].status = "completed", ![d].result = proc[d].rev] /\ End(d)
        /\ UNCHANGED <<run, handle, request, source, journal, effect, pending, activations, pointer, outside>>
        /\ proc[d].pc = "complete"
    BY DEF Complete, At, workspaces, registry, bounds
  <1>2. proc[d].rev \in Nat /\ Reported(For(d), proc[d].rev)
    BY <1>1 DEF IInv, Types, Command, CommandHolds
  <1>3. /\ nonce' \in [Descriptors -> Nonce] /\ nonce'[d].status = "completed" /\ nonce'[d].result = proc[d].rev
        /\ For(d)' = For(d) /\ \A o \in Descriptors \ {d} : nonce'[o] = nonce[o]
    BY <1>1, <1>2 DEF IInv, Types, Nonce, For
  <1>4. Types'
    BY <1>1, <1>3, EndFacts DEF IInv, Types
  <1>5. Grows
    BY <1>1 DEF Grows
  <1>6. CommandHolds(d)'
    <2>1. PICK r, rev : r = For(d) /\ r = For(d)' /\ rev = proc[d].rev /\ rev = nonce'[d].result
      BY <1>3
    <2>2. proc'[d].pc = "idle"
      BY <1>1, EndFacts
    <2>3. Reported(For(d), nonce[d].result)'
      <3>1. Reported(r, rev)'
        BY <1>1, <1>2, <1>5, <2>1, ReportedStays DEF IInv
      <3> QED
        BY <2>1, <3>1 DEF Reported, Committed
    <2> QED
      BY <1>3, <2>2, <2>3 DEF CommandHolds, Lifecycle
  <1>7. \A q \in Requests : EvidenceHolds(q)'
    BY <1>1, <1>5, EvidenceStays
  <1>8. \A o \in Descriptors \ {d} : For(o)' = For(o)
    BY <1>3 DEF For
  <1> QED
    BY <1>1, <1>3, <1>4, <1>5, <1>6, <1>7, <1>8, EndFacts, CommandStep

-----------------------------------------------------------------------------
(* Commits *)

(* Requests whose generation is gone, after a commit. *)
LEMMA PassedGrows ==
    ASSUME IInv, Types', request' = request, run'.rev = run.rev + 1
    PROVE  /\ IsFiniteSet(Passed') /\ Passed \subseteq Passed' /\ IsFiniteSet(Passed)
           /\ \A r \in Requests : request[r].rev = run.rev /\ run.rev # 0 => r \in Passed' \ Passed
  <1>1. run.rev \in Nat /\ \A r \in Requests : request[r].rev \in Nat
    BY DEF IInv, Types, RunState, Request
  <1>2. Passed \subseteq Passed' /\ Passed \subseteq Requests /\ Passed' \subseteq Requests
    BY <1>1 DEF Passed
  <1> QED
    BY <1>1, <1>2, RepairAssumption, FS_Subset DEF Passed

LEMMA CommitInv == ASSUME IInv, NEW d \in Descriptors, Commit(d) PROVE IInv'
  <1> PICK r : r = For(d)
    OBVIOUS
  <1>1. /\ UNCHANGED <<handle, request, source, journal, effect, pending, activations, pointer, nonce, outside>>
        /\ proc[d].pc = "commit" /\ journal[r].activation
    BY DEF Commit, workspaces, registry, bounds, At
  <1>2. /\ CommandHolds(d) /\ r \in Requests /\ request[r].rev # 0 /\ nonce[d].status = "pending" /\ For(d)' = r
        /\ lock = d /\ pointer = r /\ Tested(r) /\ Closed(r, Lifecycle) /\ r # None
    BY <1>1, RepairAssumption DEF IInv, CommandHolds, For, Lifecycle, Closed
  <1>3. CASE End(d) /\ UNCHANGED run
    BY <1>1, <1>3, EndInv DEF workspaces, registry
  <1>4. CASE /\ Bound(r)
             /\ run' = [rev |-> run.rev + 1, disposition |-> "ACTIVE", runner |-> r, receipt |-> r]
             /\ proc' = [proc EXCEPT ![d].pc = After("commit"), ![d].rev = run.rev + 1]
             /\ UNCHANGED lock
    <2>1. /\ run.rev \in Nat /\ request[r].rev = run.rev /\ run' \in RunState
          /\ run'.rev = run.rev + 1 /\ run'.runner = r /\ run'.receipt = r /\ run'.disposition = "ACTIVE"
      BY <1>2, <1>4 DEF Bound, Repairable, IInv, Types, RunState, Ids
    <2>2. After("commit") = "report"
      BY RepairAssumption DEF After, Places
    <2>3. /\ proc' \in [Descriptors -> Command] /\ proc'[d].pc = "report" /\ proc'[d].rev = run.rev + 1
          /\ \A o \in Descriptors \ {d} : proc'[o] = proc[o]
      <3>1. proc' = [proc EXCEPT ![d].pc = "report", ![d].rev = run.rev + 1]
        BY <1>4, <2>2
      <3>2. proc[d] \in Command /\ "report" \in Places
        BY DEF IInv, Types, Places
      <3>3. PICK next \in Nat : next = run.rev + 1
        BY <2>1
      <3>4. PICK c : c = [proc[d] EXCEPT !.pc = "report", !.rev = next]
        OBVIOUS
      <3>5. c \in Command /\ c.pc = "report" /\ c.rev = next
        BY <3>2, <3>4 DEF Command
      <3>6. proc' = [proc EXCEPT ![d] = c]
        BY <3>1, <3>3, <3>4
      <3> QED
        BY <3>3, <3>5, <3>6 DEF IInv, Types
    <2>4. Types'
      BY <1>1, <1>4, <2>1, <2>3 DEF IInv, Types
    <2>5. Grows
      BY <1>1 DEF Grows
    <2>6. Committed(r)'
      BY <1>1, <1>2, <2>1 DEF Committed, ActiveBy, Tested, Closed
    <2>7. Counted'
      <3>1. /\ IsFiniteSet(Passed') /\ Passed \cup {r} \subseteq Passed' /\ IsFiniteSet(Passed) /\ r \notin Passed
        BY <1>1, <1>2, <2>1, <2>4, PassedGrows
      <3>2. Cardinality(Passed \cup {r}) = Cardinality(Passed) + 1 /\ IsFiniteSet(Passed \cup {r})
        BY <3>1, FS_AddElement
      <3>3. Cardinality(Passed \cup {r}) <= Cardinality(Passed')
        BY <3>1, FS_Subset
      <3>4. Cardinality(Passed) \in Nat /\ Cardinality(Passed') \in Nat /\ outside \in Nat
        BY <3>1, FS_CardinalityType, RepairAssumption DEF IInv, Types
      <3> QED
        BY <1>1, <2>1, <3>2, <3>3, <3>4 DEF IInv, Counted
    <2>8. CommandHolds(d)'
      BY <1>1, <1>2, <1>4, <2>1, <2>3, <2>6 DEF CommandHolds, Lifecycle, Committed
    <2>9. ASSUME NEW o \in Descriptors PROVE CommandHolds(o)'
      BY <1>1, <1>4, <2>1, <2>3, <2>5, <2>8, OthersKeep DEF For
    <2>10. RunHolds'
      BY <1>1, <1>2, <2>1, <2>6 DEF RunHolds, Committed
    <2>11. /\ \A k \in Requests \X Effects : EffectHolds(k)'
           /\ \A q \in Requests : EvidenceHolds(q)'
      BY <1>1, <2>5, EvidenceStays DEF IInv, EffectHolds
    <2> QED
      BY <2>4, <2>7, <2>9, <2>10, <2>11 DEF IInv
  <1> QED
    BY <1>3, <1>4 DEF Commit

LEMMA OtherCommitInv == ASSUME IInv, OtherCommit PROVE IInv'
  <1>1. /\ UNCHANGED <<handle, request, source, journal, effect, pending, activations, pointer, nonce, proc, lock>>
        /\ outside < MaxOutside /\ outside' = outside + 1
    BY DEF OtherCommit, workspaces, registry
  <1>2. PICK move \in Moves : run' = [run EXCEPT !.rev = @ + 1, !.disposition = move[2]]
    BY DEF OtherCommit
  <1>3. /\ run' \in RunState /\ run'.rev = run.rev + 1 /\ run'.runner = run.runner /\ run'.receipt = run.receipt
        /\ run.rev \in Nat
    <2>1. PICK disposition \in {"ACTIVE", "REPAIR_REQUIRED", "HUMAN_REVIEW"} : disposition = move[2]
      BY DEF Moves
    <2>2. run.rev \in Nat /\ run \in RunState
      BY DEF IInv, Types, RunState
    <2>3. PICK next \in Nat : next = run.rev + 1
      BY <2>2
    <2>4. run' = [run EXCEPT !.rev = next, !.disposition = disposition]
      BY <1>2, <2>1, <2>3
    <2> QED
      BY <2>2, <2>3, <2>4 DEF RunState
  <1>4. Types'
    <2>1. outside' \in 0..MaxOutside
      BY <1>1, RepairAssumption DEF IInv, Types
    <2> QED
      BY <1>1, <1>3, <2>1 DEF IInv, Types
  <1>5. Grows
    BY <1>1 DEF Grows
  <1>6. Counted'
    <2>1. IsFiniteSet(Passed') /\ Passed \subseteq Passed' /\ IsFiniteSet(Passed)
      BY <1>1, <1>3, <1>4, PassedGrows
    <2>2. Cardinality(Passed) <= Cardinality(Passed') /\ Cardinality(Passed) \in Nat /\ Cardinality(Passed') \in Nat
      BY <2>1, FS_Subset, FS_CardinalityType
    <2>3. outside \in Nat
      BY RepairAssumption DEF IInv, Types
    <2> QED
      BY <1>1, <1>3, <2>2, <2>3 DEF IInv, Counted
  <1>7. ASSUME NEW o \in Descriptors PROVE CommandHolds(o)'
    BY <1>1, <1>3, <1>5, OthersKeep, NoSetContainsEverything DEF For
  <1>8. RunHolds'
    <2>1. run.receipt # None => Committed(run.receipt)'
      BY <1>3, <1>5, CommittedStays DEF IInv, RunHolds
    <2> QED
      BY <1>1, <1>3, <2>1 DEF IInv, RunHolds, Old, Committed
  <1>9. /\ \A k \in Requests \X Effects : EffectHolds(k)'
        /\ \A q \in Requests : EvidenceHolds(q)'
    BY <1>1, <1>5, EvidenceStays DEF IInv, EffectHolds
  <1> QED
    BY <1>4, <1>6, <1>7, <1>8, <1>9 DEF IInv

-----------------------------------------------------------------------------
(* Theorems *)

LEMMA StepInv == IInv /\ [Next]_vars => IInv'
  <1> SUFFICES ASSUME IInv, [Next]_vars PROVE IInv'
    OBVIOUS
  <1>1. ASSUME NEW d \in Descriptors, RefuseFailed(d) \/ Abort(d) \/ Crash(d) PROVE IInv'
    BY <1>1, EndInv DEF RefuseFailed, Abort, Crash, bounds, Disturb
  <1>2. ASSUME NEW d \in Descriptors, Continue(d) PROVE IInv'
    BY <1>1, <1>2, ReadSourceInv, RereadInv, RecheckInv, SnapshotInv, ExecuteInv, RecordPendingInv, CloseEffectInv, LockInv,
       PublishInv, RecordActivationInv, CommitInv, ReportInv, CompleteInv DEF Continue
  <1>3. CASE UNCHANGED vars
    <2>1. UNCHANGED <<run, handle, request, source, journal, effect, pending, activations, pointer, nonce, proc, lock, outside>>
      BY <1>3 DEF vars, workspaces, registry, bounds
    <2>2. Types' /\ Grows
      BY <2>1 DEF IInv, Types, Grows
    <2> QED
      BY <2>1, <2>2, OutsideStep DEF registry, For
  <1> QED
    BY <1>1, <1>2, <1>3, PrepareInv, EditInv, InvalidateInv, StartInv, ExpireInv, OtherCommitInv DEF Next

LEMMA Inductive == Spec => []IInv
  BY InitInv, StepInv, PTL DEF Spec

(* However often commands die and are issued again, the daemon runs no     *)
(* effect twice (runner.py, reconcile_effect).                             *)
THEOREM EffectsRunOnce == Spec => []EffectsOnce
  <1>1. ASSUME IInv PROVE EffectsOnce
    BY <1>1 DEF IInv, EffectHolds, EffectsOnce
  <1> QED
    BY <1>1, Inductive, PTL

(* The pointer of the registry names the runner of the run, or the one     *)
(* about to replace it; revisions are bounded by the activations and the   *)
(* commits of others (repair_entrypoint.py, publish_activation).           *)
THEOREM PointerFollowsRun == Spec => []PointerTracksRun
  <1>1. ASSUME IInv PROVE PointerTracksRun
    <2>1. run.rev <= 1 + MaxOutside + Cardinality(Requests)
      <3>1. Passed \subseteq Requests /\ IsFiniteSet(Requests)
        BY RepairAssumption DEF Passed
      <3>2. Cardinality(Passed) <= Cardinality(Requests) /\ Cardinality(Passed) \in Nat /\ Cardinality(Requests) \in Nat
        BY <3>1, FS_Subset, FS_CardinalityType
      <3>3. run.rev \in Nat /\ outside \in 0..MaxOutside /\ run.rev <= 1 + outside + Cardinality(Passed)
        BY <1>1 DEF IInv, Types, RunState, Counted
      <3> QED
        BY <3>2, <3>3, RepairAssumption
    <2>2. TypeOK
      BY <1>1, <2>1 DEF IInv, Types, CommandHolds, TypeOK, Activations, Pointer
    <2> QED
      BY <1>1, <2>2 DEF IInv, RunHolds, PointerTracksRun
  <1> QED
    BY <1>1, Inductive, PTL

(* A ticket command runs on a runner that was built from a tested source,  *)
(* started and attested after the one before it ended, each once           *)
(* (runner.py, TrustedLauncher.invoke).                                    *)
THEOREM ReleaseIsTested == Spec => []ReleaseHolds
  <1>1. ASSUME IInv PROVE CommandsRunTestedRelease
    <2> SUFFICES ASSUME Invokable, NEW e \in {pending[pointer], "build"} \cup Lifecycle
                 PROVE  effect[<<pointer, e>>] = [receipt |-> "ok", closed |-> TRUE, runs |-> 1]
      BY DEF CommandsRunTestedRelease
    <2>1. pointer \in Requests /\ Tested(pointer) /\ Closed(pointer, Lifecycle)
      BY <1>1 DEF Invokable, IInv, RunHolds, Committed
    <2>2. pending[pointer] = journal[pointer].source /\ pending[pointer] \in Versions
      BY <1>1, <2>1 DEF IInv, EvidenceHolds, Tested, Types, Pending
    <2>3. e \in Effects /\ effect[<<pointer, e>>].closed
      BY <2>1, <2>2 DEF Tested, Closed, Effects
    <2> DEFINE k == <<pointer, e>>
    <2>4. k \in Requests \X Effects
      BY <2>1, <2>3
    <2>5. effect[k] \in EffectEntry /\ EffectHolds(k) /\ effect[k].closed
      BY <1>1, <2>3, <2>4 DEF IInv, Types
    <2>6. effect[k] = [receipt |-> "ok", closed |-> TRUE, runs |-> 1]
      BY <2>5 DEF EffectHolds, EffectEntry
    <2> QED
      BY <2>6
  <1>2. EffectsOnce /\ CommandsRunTestedRelease => ReleaseHolds
    BY DEF ReleaseHolds
  <1> QED
    BY <1>1, <1>2, EffectsRunOnce, Inductive, PTL

(* A completed descriptor is answered the same as long as the run stands   *)
(* where the activation left it (repair_entrypoint.py,                     *)
(* _recover_applied_generation).                                           *)
THEOREM CompletedStaysRecoverable == Spec => []CompletedIsRecoverable
  <1>1. ASSUME IInv PROVE CompletedIsRecoverable
    BY <1>1 DEF IInv, CommandHolds, Reported, Committed, ActiveBy, CompletedIsRecoverable, Recoverable
  <1> QED
    BY <1>1, Inductive, PTL

-----------------------------------------------------------------------------
(***************************************************************************)
(* The refinement of RunnerSwap.  That the runner which was ended is the   *)
(* one that is replaced, and that the new one never ran before, follows    *)
(* from what IInv does not say: where the runner of the run comes from.    *)
(***************************************************************************)

(* Places between the decision to replace the runner and its commit *)
Held == Lifecycle \cup {"publish", "commit"}

(* x is or was the runner of the run, as far as requests know. *)
Was(x) == run.runner = x \/ \E q \in Requests : request[q].rev # 0 /\ Old(q) = x

(* The generation r is bound to is gone. *)
Spent(r) == request[r].rev # 0 /\ request[r].rev < run.rev

SwapHolds ==
    /\ \A r \in Requests : request[r].rev = 0 => \A e \in Lifecycle : effect[<<r, e>>].receipt = "none"
    /\ \A r \in Requests : Was(r) => Spent(r)
    /\ \A d \in Descriptors : proc[d].pc \in Held => run.runner = Old(For(d)) /\ ~Was(For(d))

SwapStep == [Swap!Next]_(Swap!vars)

LEMMA SwapInit == Init => SwapHolds /\ Swap!Init
  <1> SUFFICES ASSUME Init PROVE SwapHolds /\ Swap!Init
    OBVIOUS
  <1>1. \A r \in Requests : request[r].rev = 0 /\ \A e \in Effects : effect[<<r, e>>].receipt = "none"
    BY DEF Init
  <1>2. run.runner = Original /\ run.disposition = "REPAIR_REQUIRED" /\ Original \notin Requests
    BY RepairAssumption DEF Init
  <1>3. \A r \in Requests : ~Was(r)
    BY <1>1, <1>2 DEF Was
  <1>4. \A d \in Descriptors : proc[d].pc \notin Held
    BY DEF Init, Idle, Held, Lifecycle
  <1>5. SwapHolds
    BY <1>1, <1>3, <1>4 DEF SwapHolds, Effects
  <1>6. \A e \in Lifecycle : Received(e) = {}
    BY <1>1 DEF Received, Effects
  <1>7. Built = {}
    BY DEF Init, Built, Tested
  <1>8. Ended = {} /\ Replacing("start") = {} /\ Replacing("attest") = {}
    BY <1>6 DEF Ended, Replacing, Lifecycle
  <1> QED
    BY <1>2, <1>5, <1>7, <1>8 DEF Swap!Init

(* Whoever comes to a place between decision and commit does so under the  *)
(* generation of the run, and for the request it has been working for.     *)
Enters(d) ==
    proc'[d].pc \in Held =>
        /\ For(d)' = For(d)
        /\ proc[d].pc \in Held \/ (For(d) \in Requests /\ Bound(For(d)))

LEMMA PlacesStay ==
    ASSUME IInv, SwapHolds, run' = run, request' = request, \A d \in Descriptors : Enters(d),
           \A r \in Requests : request[r].rev = 0 =>
               \A e \in Lifecycle : effect'[<<r, e>>].receipt = effect[<<r, e>>].receipt
    PROVE  SwapHolds'
  <1>1. \A x : Was(x)' <=> Was(x)
    BY DEF Was, Old
  <1>2. \A r : Spent(r)' <=> Spent(r)
    BY DEF Spent
  <1>3. run.rev \in Nat /\ \A r \in Requests : request[r].rev \in Nat
    BY DEF IInv, Types, RunState, Request
  <1>4. ASSUME NEW d \in Descriptors, proc'[d].pc \in Held
        PROVE  (run.runner = Old(For(d)) /\ ~Was(For(d)))'
    <2> PICK r : r = For(d) /\ r = For(d)'
      BY <1>4 DEF Enters
    <2>1. CASE proc[d].pc \in Held
      <3>1. run.runner = Old(r) /\ ~Was(r)
        BY <2>1 DEF SwapHolds
      <3> QED
        BY <1>1, <3>1 DEF Old
    <2>2. CASE r \in Requests /\ Bound(r)
      <3>1. run.runner = Old(r) /\ request[r].rev = run.rev
        BY <2>2 DEF Bound, Repairable
      <3>2. ~Spent(r)
        BY <1>3, <2>2, <3>1 DEF Spent
      <3> QED
        BY <1>1, <2>2, <3>1, <3>2 DEF SwapHolds, Old
    <2> QED
      BY <1>4, <2>1, <2>2 DEF Enters
  <1>5. \A r \in Requests : Was(r)' => Spent(r)'
    BY <1>1, <1>2 DEF SwapHolds
  <1>6. \A r \in Requests : request'[r].rev = 0 => \A e \in Lifecycle : effect'[<<r, e>>].receipt = "none"
    BY DEF SwapHolds
  <1> QED
    BY <1>4, <1>5, <1>6 DEF SwapHolds

LEMMA PairsStay ==
    ASSUME request' = request,
           \A r \in Requests, e \in Lifecycle : effect'[<<r, e>>].receipt = effect[<<r, e>>].receipt
    PROVE  Ended' = Ended /\ Replacing("start")' = Replacing("start") /\ Replacing("attest")' = Replacing("attest")
  <1>1. \A e \in Lifecycle : Received(e)' = Received(e)
    BY DEF Received
  <1> QED
    BY <1>1 DEF Ended, Replacing, Old, Lifecycle

(* A step that neither moves the run nor executes an effect of the         *)
(* lifecycle completes at most one build.                                  *)
LEMMA QuietSwap ==
    ASSUME IInv, SwapHolds, run' = run, request' = request, \A d \in Descriptors : Enters(d),
           \A r \in Requests, e \in Lifecycle : effect'[<<r, e>>].receipt = effect[<<r, e>>].receipt,
           NEW r, \A q \in Requests : Tested(q) => Tested(q)',
           \A q \in Requests : q # r /\ Tested(q)' => Tested(q)
    PROVE  SwapHolds' /\ SwapStep
  <1>1. SwapHolds'
    BY PlacesStay
  <1>2. UNCHANGED <<Ended, Replacing("start"), Replacing("attest")>>
    BY PairsStay
  <1>3. Built' = Built \/ (r \in Requests /\ Built' = Built \cup {r})
    BY DEF Built
  <1>4. CASE Built' = Built
    BY <1>1, <1>2, <1>4 DEF SwapStep, Swap!vars
  <1>5. CASE r \in Requests /\ Built' = Built \cup {r}
    <2>1. Swap!Build(r)
      BY <1>2, <1>5 DEF Swap!Build
    <2> QED
      BY <1>1, <2>1, <1>5 DEF SwapStep, Swap!Next
  <1> QED
    BY <1>1, <1>3, <1>4, <1>5

LEMMA TestedSame ==
    ASSUME NEW r, pending'[r] = pending[r], journal'[r].source = journal[r].source,
           \A e \in Versions \cup {"build"} : effect'[<<r, e>>].closed = effect[<<r, e>>].closed,
           journal[r].source \in Versions \cup {None}
    PROVE  Tested(r)' <=> Tested(r)
  BY DEF Tested, Closed

(* What neither journal, receipts nor pending activations notice *)
LEMMA OutsideSwap ==
    ASSUME IInv, SwapHolds, UNCHANGED <<run, request, journal, effect, pending>>,
           \A d \in Descriptors : Enters(d)
    PROVE  SwapHolds' /\ SwapStep
  <1>1. \A q \in Requests : Tested(q)' <=> Tested(q)
    BY DEF Tested, Closed
  <1> QED
    BY <1>1, QuietSwap

(* A command that ends, or goes on outside the lock, enters nothing.       *)
LEMMA EndSwap ==
    ASSUME IInv, SwapHolds, NEW d \in Descriptors, End(d), UNCHANGED <<run, request, journal, effect, pending, nonce>>
    PROVE  SwapHolds' /\ SwapStep
  <1>1. \A o \in Descriptors : For(o)' = For(o)
    BY DEF For
  <1>2. \A o \in Descriptors : proc'[o] = proc[o] \/ proc'[o].pc = "idle"
    BY EndFacts
  <1>3. "idle" \notin Held
    BY DEF Held, Lifecycle
  <1> QED
    BY <1>1, <1>2, <1>3, OutsideSwap DEF Enters

LEMMA PrepareSwap ==
    ASSUME IInv, SwapHolds, NEW r \in Requests, Prepare(r) \/ Edit(r) \/ InvalidateHandle(r)
    PROVE  SwapHolds' /\ SwapStep
  <1>1. UNCHANGED <<run, journal, effect, pending, nonce, proc>>
    BY DEF Prepare, Edit, InvalidateHandle, IntendWorkspace, IssueHandle, CreateRequest, SetHandle, registry
  <1>2. \A d \in Descriptors : For(d)' = For(d) /\ Enters(d)
    BY <1>1 DEF For, Enters
  <1>3. CASE UNCHANGED request
    BY <1>1, <1>2, <1>3, OutsideSwap
  <1>4. CASE CreateRequest(r)
    <2>1. /\ request' = [request EXCEPT ![r] = [rev |-> run.rev, old |-> run.runner]]
          /\ request[r].rev = 0 /\ run.rev \in Nat /\ request \in [Requests -> Request]
      BY <1>4 DEF CreateRequest, IInv, Types, RunState
    <2>2. /\ request'[r].rev = run.rev /\ Old(r)' = run.runner
          /\ \A q : q \in Requests /\ q # r => request'[q] = request[q] /\ Old(q)' = Old(q)
      BY <2>1 DEF Old
    <2>3. \A x : Was(x)' => Was(x)
      BY <1>1, <2>2 DEF Was
    <2>4. ~Was(r)
      BY <2>1 DEF SwapHolds, Spent
    <2>5. \A q \in Requests : Was(q)' => Spent(q)'
      BY <1>1, <2>2, <2>3, <2>4 DEF SwapHolds, Spent
    <2>6. ASSUME NEW d \in Descriptors, proc'[d].pc \in Held
          PROVE  (run.runner = Old(For(d)) /\ ~Was(For(d)))'
      <3> PICK q : q = For(d) /\ q = For(d)'
        BY <1>2
      <3>1. proc[d].pc \in Held /\ proc[d].pc # "idle"
        BY <1>1, <2>6 DEF Held, Lifecycle
      <3>2. q \in Requests /\ request[q].rev # 0 /\ run.runner = Old(q) /\ ~Was(q)
        BY <3>1 DEF SwapHolds, IInv, CommandHolds
      <3>3. q # r
        BY <2>1, <3>2
      <3>4. Old(q)' = Old(q) /\ ~Was(q)'
        BY <2>2, <2>3, <3>2, <3>3
      <3> QED
        BY <1>1, <3>2, <3>4 DEF Old, Was
    <2>7. \A q \in Requests : request'[q].rev = 0 => \A e \in Lifecycle : effect'[<<q, e>>].receipt = "none"
      BY <1>1, <2>1, <2>2 DEF SwapHolds
    <2>8. SwapHolds'
      BY <2>5, <2>6, <2>7 DEF SwapHolds
    <2>9. \A e \in Lifecycle : Received(e)' = Received(e) /\ r \notin Received(e)
      BY <1>1, <2>1 DEF Received, SwapHolds
    <2>10. \A e \in Lifecycle : \A q \in Received(e) : Old(q)' = Old(q)
      BY <2>2, <2>9 DEF Received
    <2>11. Ended' = Ended /\ Replacing("start")' = Replacing("start") /\ Replacing("attest")' = Replacing("attest")
      BY <2>9, <2>10 DEF Ended, Replacing, Lifecycle
    <2>12. Built' = Built
      BY <1>1 DEF Built, Tested, Closed
    <2> QED
      BY <1>1, <2>8, <2>11, <2>12 DEF SwapStep, Swap!vars
  <1> QED
    BY <1>3, <1>4 DEF Prepare, Edit, InvalidateHandle, IntendWorkspace, IssueHandle, SetHandle

LEMMA ExpireSwap ==
    ASSUME IInv, SwapHolds, NEW d \in Descriptors, Expire(d)
    PROVE  SwapHolds' /\ SwapStep
  <1>1. UNCHANGED <<run, request, journal, effect, pending, proc>>
        /\ nonce' = [nonce EXCEPT ![d].expired = TRUE]
    BY DEF Expire, registry, workspaces
  <1>2. \A o \in Descriptors : For(o)' = For(o)
    BY <1>1 DEF For, IInv, Types, Nonce
  <1> QED
    BY <1>1, <1>2, OutsideSwap DEF Enters

LEMMA StartSwap ==
    ASSUME IInv, SwapHolds, NEW d \in Descriptors, Start(d)
    PROVE  SwapHolds' /\ SwapStep
  <1>1. /\ UNCHANGED <<run, request, journal, effect, pending>>
        /\ Goto(d, "source") \/ Goto(d, "activate")
    BY DEF Start, workspaces, registry
  <1>2. proc'[d].pc \in {"source", "activate"} /\ \A o \in Descriptors \ {d} : proc'[o] = proc[o]
    BY <1>1, GotoFacts DEF Places
  <1>3. \A o \in Descriptors \ {d} : nonce'[o] = nonce[o]
    BY DEF Start, IInv, Types
  <1>4. \A o \in Descriptors : Enters(o)
    BY <1>2, <1>3 DEF Enters, Held, Lifecycle, For
  <1> QED
    BY <1>1, <1>4, OutsideSwap

LEMMA TestSwap ==
    ASSUME IInv, SwapHolds, NEW d \in Descriptors, Test(d), proc[d].pc # "idle",
           UNCHANGED <<run, request, journal, effect, pending, nonce>>
    PROVE  SwapHolds' /\ SwapStep
  <1> PICK r : r = For(d)
    OBVIOUS
  <1>1. r \in Requests /\ (\A o \in Descriptors : For(o)' = For(o)) /\ source[r] \in Versions
    BY DEF IInv, CommandHolds, Types, For
  <1>2. proc'[d].pc = source[r] /\ \A o \in Descriptors \ {d} : proc'[o] = proc[o]
    BY <1>1 DEF Test, IInv, Types, Command
  <1>3. source[r] \notin Held
    BY <1>1, RepairAssumption DEF Held, Lifecycle, Places
  <1>4. \A o \in Descriptors : Enters(o)
    BY <1>1, <1>2, <1>3 DEF Enters
  <1> QED
    BY <1>4, OutsideSwap

LEMMA ReadSourceSwap ==
    ASSUME IInv, SwapHolds, NEW d \in Descriptors, ReadSource(d)
    PROVE  SwapHolds' /\ SwapStep
  <1> PICK r : r = For(d)
    OBVIOUS
  <1>1. /\ UNCHANGED <<run, request, journal, pending, nonce>> /\ proc[d].pc = "source"
    BY DEF ReadSource, workspaces, registry, At
  <1>2. r \in Requests /\ (\A o \in Descriptors : For(o)' = For(o)) /\ source[r] \in Versions
    BY <1>1 DEF IInv, CommandHolds, Types, For
  <1>3. CASE End(d) /\ UNCHANGED effect
    BY <1>1, <1>3, EndSwap
  <1>4. CASE Goto(d, "activate") /\ effect' = [effect EXCEPT ![<<r, "build">>].closed = TRUE]
    <2> PICK k : k = <<r, "build">>
      OBVIOUS
    <2>1. k \in Requests \X Effects
      BY <1>2 DEF Effects
    <2>2. /\ \A j \in Requests \X Effects : /\ effect'[j].receipt = effect[j].receipt
                                            /\ effect[j].closed => effect'[j].closed
                                            /\ j # k => effect'[j] = effect[j]
      BY <1>4, <2>1 DEF IInv, Types, EffectEntry
    <2>3. proc'[d].pc = "activate" /\ \A o \in Descriptors \ {d} : proc'[o] = proc[o]
      BY <1>4, GotoFacts DEF Places
    <2>4. \A o \in Descriptors : Enters(o)
      BY <1>2, <2>3 DEF Enters, Held, Lifecycle
    <2>5. \A q \in Requests : journal[q].source \in Versions \cup {None}
      BY DEF IInv, Types, Journal
    <2>6. \A q \in Requests : Tested(q) => Tested(q)'
      BY <1>1, <2>2, <2>5 DEF Tested, Closed, Effects
    <2>7. \A q \in Requests : q # r /\ Tested(q)' => Tested(q)
      BY <1>1, <2>2, <2>5 DEF Tested, Closed, Effects
    <2>8. \A q \in Requests, e \in Lifecycle : effect'[<<q, e>>].receipt = effect[<<q, e>>].receipt
      BY <2>2 DEF Effects
    <2> QED
      BY <1>1, <2>4, <2>6, <2>7, <2>8, QuietSwap
  <1>5. CASE Test(d) /\ UNCHANGED effect
    BY <1>1, <1>5, TestSwap
  <1> QED
    BY <1>3, <1>4, <1>5 DEF ReadSource

LEMMA RereadSwap ==
    ASSUME IInv, SwapHolds, NEW d \in Descriptors, Reread(d)
    PROVE  SwapHolds' /\ SwapStep
  <1>1. /\ UNCHANGED <<run, request, journal, effect, pending, nonce>> /\ proc[d].pc # "idle"
        /\ Test(d) \/ End(d)
    BY DEF Reread, workspaces, registry, At
  <1> QED
    BY <1>1, TestSwap, EndSwap

(* Evidence of a build that is not complete, or does not change what is.   *)
LEMMA JournalSwap ==
    ASSUME IInv, SwapHolds, UNCHANGED <<run, request, effect, pending>>,
           \A d \in Descriptors : Enters(d),
           \A q \in Requests : journal'[q].source = journal[q].source \/ pending[q] = None
    PROVE  SwapHolds' /\ SwapStep
  <1>1. \A q \in Requests : Tested(q)' <=> Tested(q)
    BY DEF Tested, Closed
  <1> QED
    BY <1>1, QuietSwap

LEMMA EvidenceSwap ==
    ASSUME IInv, SwapHolds, NEW d \in Descriptors, Recheck(d) \/ TakeSnapshot(d) \/ RecordActivation(d) \/ Report(d)
    PROVE  SwapHolds' /\ SwapStep
  <1> PICK r : r = For(d)
    OBVIOUS
  <1>1. /\ UNCHANGED <<run, request, effect, pending, nonce>>
        /\ proc[d].pc \in {"tested", "build", "commit", "report"}
    BY DEF Recheck, TakeSnapshot, RecordActivation, Report, workspaces, registry, At
  <1>2. r \in Requests /\ (\A o \in Descriptors : For(o)' = For(o)) /\ EvidenceHolds(r) /\ journal[r] \in Journal
        /\ journal \in [Requests -> Journal]
    BY <1>1 DEF IInv, CommandHolds, For, Types
  <1>3. CASE End(d) /\ UNCHANGED journal
    BY <1>1, <1>3, EndSwap
  <1>4. ASSUME NEW pc \in {"again", "build", "complete"}, Goto(d, pc) PROVE \A o \in Descriptors : Enters(o)
    <2>1. proc'[d].pc = pc /\ \A o \in Descriptors \ {d} : proc'[o] = proc[o]
      BY <1>4, GotoFacts DEF Places
    <2> QED
      BY <1>2, <2>1 DEF Enters, Held, Lifecycle
  <1>5. ASSUME UNCHANGED proc PROVE \A o \in Descriptors : Enters(o)
    BY <1>2, <1>5 DEF Enters
  <1>6. CASE Goto(d, "again") /\ UNCHANGED journal
    BY <1>1, <1>4, <1>6, JournalSwap
  <1>7. CASE /\ journal[r].source \in {None, proc[d].version} /\ (Goto(d, "build") \/ End(d))
             /\ journal' = [journal EXCEPT ![r].source = proc[d].version]
    <2>1. journal'[r].source = proc[d].version /\ \A q \in Requests : q # r => journal'[q] = journal[q]
      BY <1>2, <1>7 DEF Journal
    <2>2. pending[r] # None => pending[r] = journal[r].source /\ pending[r] # None
      BY <1>2 DEF EvidenceHolds
    <2>3. journal'[r].source = journal[r].source \/ pending[r] = None
      BY <1>7, <2>1, <2>2
    <2>4. \A o \in Descriptors : Enters(o)
      <3>1. CASE Goto(d, "build")
        BY <1>4, <3>1
      <3>2. CASE End(d)
        BY <1>2, <3>2, EndFacts DEF Enters, Held, Lifecycle
      <3> QED
        BY <1>7, <3>1, <3>2
    <2> QED
      BY <1>1, <2>1, <2>3, <2>4, JournalSwap
  <1>8. CASE journal' = [journal EXCEPT ![r].snapshot = source[r]] /\ UNCHANGED proc
    <2>1. \A q \in Requests : journal'[q].source = journal[q].source
      BY <1>2, <1>8 DEF Journal
    <2> QED
      BY <1>1, <1>5, <1>8, <2>1, JournalSwap
  <1>9. CASE journal' = [journal EXCEPT ![r].activation = TRUE] /\ UNCHANGED proc
    <2>1. \A q \in Requests : journal'[q].source = journal[q].source
      BY <1>2, <1>9 DEF Journal
    <2> QED
      BY <1>1, <1>5, <1>9, <2>1, JournalSwap
  <1>10. CASE journal' = [journal EXCEPT ![r].activated = proc[d].rev] /\ Goto(d, "complete")
    <2>1. \A q \in Requests : journal'[q].source = journal[q].source
      BY <1>2, <1>10 DEF Journal
    <2> QED
      BY <1>1, <1>4, <1>10, <2>1, JournalSwap
  <1> QED
    BY <1>3, <1>6, <1>7, <1>8, <1>9, <1>10 DEF Recheck, TakeSnapshot, RecordActivation, Report

LEMMA RecordPendingSwap ==
    ASSUME IInv, SwapHolds, NEW d \in Descriptors, RecordPending(d)
    PROVE  SwapHolds' /\ SwapStep
  <1> PICK r : r = For(d)
    OBVIOUS
  <1>1. /\ UNCHANGED <<run, request, journal, effect, nonce, proc>> /\ proc[d].pc = "build"
        /\ pending[r] = None /\ pending' = [pending EXCEPT ![r] = journal[r].snapshot]
    BY DEF RecordPending, workspaces, At
  <1>2. /\ \A q \in Requests : q # r => pending'[q] = pending[q]
        /\ \A o \in Descriptors : Enters(o)
    BY <1>1 DEF IInv, Types, Enters, For
  <1>3. /\ \A q \in Requests : Tested(q) => Tested(q)'
        /\ \A q \in Requests : q # r /\ Tested(q)' => Tested(q)
    BY <1>1, <1>2 DEF Tested, Closed
  <1> QED
    BY <1>1, <1>2, <1>3, QuietSwap

LEMMA CloseEffectSwap ==
    ASSUME IInv, SwapHolds, NEW d \in Descriptors, CloseEffect(d)
    PROVE  SwapHolds' /\ SwapStep
  <1> PICK r : r = For(d)
    OBVIOUS
  <1> PICK pc : pc = proc[d].pc
    OBVIOUS
  <1> PICK k : k = <<r, pc>>
    OBVIOUS
  <1>1. /\ UNCHANGED <<run, request, journal, pending, nonce>> /\ pc \in Effects
        /\ effect' = [effect EXCEPT ![k].closed = TRUE] /\ Goto(d, After(pc))
    BY DEF CloseEffect, workspaces, registry
  <1>2. r \in Requests /\ (\A o \in Descriptors : For(o)' = For(o)) /\ k \in Requests \X Effects
    <2>1. pc # "idle"
      BY <1>1, RepairAssumption DEF Effects, Lifecycle, Places
    <2> QED
      BY <1>1, <2>1 DEF IInv, CommandHolds, For
  <1>3. \A j \in Requests \X Effects : /\ effect'[j].receipt = effect[j].receipt
                                       /\ effect[j].closed => effect'[j].closed
                                       /\ j # k => effect'[j] = effect[j]
    BY <1>1, <1>2 DEF IInv, Types, EffectEntry
  <1>4. \/ pc \in Versions /\ After(pc) = "tested"
        \/ pc = "build" /\ After(pc) = "activate"
        \/ pc \in Lifecycle /\ After(pc) \in Places
    BY <1>1, RepairAssumption DEF After, Effects, Lifecycle, Places
  <1>5. proc'[d].pc = After(pc) /\ \A o \in Descriptors \ {d} : proc'[o] = proc[o]
    BY <1>1, <1>4, GotoFacts DEF Places
  <1>6. \A o \in Descriptors : Enters(o)
    BY <1>2, <1>4, <1>5 DEF Enters, Held, Lifecycle
  <1>7. \A q \in Requests : journal[q].source \in Versions \cup {None}
    BY DEF IInv, Types, Journal
  <1>8. \A q \in Requests : Tested(q) => Tested(q)'
    BY <1>1, <1>3, <1>7 DEF Tested, Closed, Effects
  <1>9. \A q \in Requests : q # r /\ Tested(q)' => Tested(q)
    BY <1>1, <1>3, <1>7 DEF Tested, Closed, Effects
  <1>10. \A q \in Requests, e \in Lifecycle : effect'[<<q, e>>].receipt = effect[<<q, e>>].receipt
    BY <1>3 DEF Effects
  <1> QED
    BY <1>1, <1>6, <1>8, <1>9, <1>10, QuietSwap

LEMMA LockSwap ==
    ASSUME IInv, SwapHolds, NEW d \in Descriptors, Lock(d)
    PROVE  SwapHolds' /\ SwapStep
  <1> PICK r : r = For(d)
    OBVIOUS
  <1>1. UNCHANGED <<run, request, journal, effect, pending, nonce>> /\ proc[d].pc = "activate"
    BY DEF Lock, workspaces, registry, At
  <1>2. r \in Requests /\ (\A o \in Descriptors : For(o)' = For(o))
    BY <1>1 DEF IInv, CommandHolds, For
  <1>3. CASE End(d)
    BY <1>1, <1>3, EndSwap
  <1>4. CASE Bound(r) /\ Goto(d, "terminate")
    <2>1. \A o \in Descriptors \ {d} : proc'[o] = proc[o]
      BY <1>4, GotoFacts DEF Places
    <2>2. \A o \in Descriptors : Enters(o)
      BY <1>2, <1>4, <2>1 DEF Enters
    <2> QED
      BY <1>1, <2>2, OutsideSwap
  <1>5. CASE proc' = [proc EXCEPT ![d].pc = "report", ![d].rev = run.rev]
    <2>1. proc'[d].pc = "report" /\ \A o \in Descriptors \ {d} : proc'[o] = proc[o]
      BY <1>5 DEF IInv, Types, Command
    <2>2. \A o \in Descriptors : Enters(o)
      BY <1>2, <2>1 DEF Enters, Held, Lifecycle
    <2> QED
      BY <1>1, <2>2, OutsideSwap
  <1> QED
    BY <1>3, <1>4, <1>5 DEF Lock

LEMMA PublishSwap ==
    ASSUME IInv, SwapHolds, NEW d \in Descriptors, Publish(d)
    PROVE  SwapHolds' /\ SwapStep
  <1>1. UNCHANGED <<run, request, journal, effect, pending, nonce>> /\ proc[d].pc = "publish"
    BY DEF Publish, workspaces, registry, At
  <1>2. \A o \in Descriptors : For(o)' = For(o)
    BY <1>1 DEF For
  <1>3. CASE End(d)
    BY <1>1, <1>3, EndSwap
  <1>4. CASE UNCHANGED proc
    BY <1>1, <1>2, <1>4, OutsideSwap DEF Enters
  <1>5. CASE Goto(d, After("publish"))
    <2>1. After("publish") = "commit"
      BY RepairAssumption DEF After, Places
    <2>2. \A o \in Descriptors \ {d} : proc'[o] = proc[o]
      BY <1>5, <2>1, GotoFacts DEF Places
    <2>3. \A o \in Descriptors : Enters(o)
      BY <1>1, <1>2, <2>2 DEF Enters, Held
    <2> QED
      BY <1>1, <2>3, OutsideSwap
  <1> QED
    BY <1>3, <1>4, <1>5 DEF Publish

(* What was ended was a runner of the run once. *)
LEMMA EndedWas ==
    ASSUME SwapHolds, NEW x \in Ended
    PROVE  Was(x)
  <1>1. PICK q \in Requests : effect[<<q, "terminate">>].receipt = "ok" /\ x = Old(q)
    BY DEF Ended, Received
  <1>2. request[q].rev # 0
    BY <1>1 DEF SwapHolds, Lifecycle
  <1> QED
    BY <1>1, <1>2 DEF Was

LEMMA ReceivedGrows ==
    ASSUME NEW r \in Requests, NEW pc \in Lifecycle, request' = request,
           effect'[<<r, pc>>].receipt = "ok",
           \A q \in Requests, e \in Lifecycle : <<q, e>> # <<r, pc>> => effect'[<<q, e>>] = effect[<<q, e>>]
    PROVE  /\ pc = "terminate" => Ended' = Ended \cup {Old(r)}
           /\ pc # "terminate" => Ended' = Ended
           /\ pc \in {"start", "attest"} => Replacing(pc)' = Replacing(pc) \cup {<<Old(r), r>>}
           /\ \A e \in {"start", "attest"} : e # pc => Replacing(e)' = Replacing(e)
  <1>1. Received(pc)' = Received(pc) \cup {r}
    BY DEF Received
  <1>2. \A e \in Lifecycle : e # pc => Received(e)' = Received(e)
    BY DEF Received
  <1>3. \A q : Old(q)' = Old(q)
    BY DEF Old
  <1>4. "terminate" \in Lifecycle /\ "start" \in Lifecycle /\ "attest" \in Lifecycle
    BY DEF Lifecycle
  <1>5. pc = "terminate" => Ended' = Ended \cup {Old(r)}
    BY <1>1, <1>3 DEF Ended
  <1>6. pc # "terminate" => Ended' = Ended
    BY <1>2, <1>3, <1>4 DEF Ended
  <1>7. pc \in {"start", "attest"} => Replacing(pc)' = Replacing(pc) \cup {<<Old(r), r>>}
    BY <1>1, <1>3 DEF Replacing
  <1>8. \A e \in {"start", "attest"} : e # pc => Replacing(e)' = Replacing(e)
    BY <1>2, <1>3, <1>4 DEF Replacing
  <1> QED
    BY <1>5, <1>6, <1>7, <1>8

(* Ending the old runner, starting the new one and attesting it are steps  *)
(* of the swap; every other effect is of no concern to it.                 *)
LEMMA ExecuteSwap ==
    ASSUME IInv, SwapHolds, NEW d \in Descriptors, Execute(d)
    PROVE  SwapHolds' /\ SwapStep
  <1> PICK r : r = For(d)
    OBVIOUS
  <1> PICK pc : pc = proc[d].pc
    OBVIOUS
  <1> PICK k : k = <<r, pc>>
    OBVIOUS
  <1>1. /\ UNCHANGED <<run, request, journal, pending, nonce>> /\ pc \in Effects
        /\ effect[k].receipt = "none"
    BY DEF Execute, workspaces, registry, Unseen, Phase
  <1>2. /\ r \in Requests /\ (\A o \in Descriptors : For(o)' = For(o)) /\ k \in Requests \X Effects
        /\ request[r].rev # 0 /\ CommandHolds(d) /\ EffectHolds(k)
    <2>1. pc # "idle"
      BY <1>1, RepairAssumption DEF Effects, Lifecycle, Places
    <2> QED
      BY <1>1, <2>1 DEF IInv, CommandHolds, For
  <1>3. PICK receipt \in {"ok", "failed"} : Ran(d, receipt)
    BY DEF Execute
  <1>4. /\ effect'[k].receipt = receipt /\ effect'[k].closed = effect[k].closed
        /\ \A j \in Requests \X Effects : j # k => effect'[j] = effect[j]
    <2>1. effect' = [effect EXCEPT ![k].receipt = receipt, ![k].runs = @ + 1]
      BY <1>3 DEF Ran
    <2> QED
      BY <1>2, <2>1 DEF IInv, Types, EffectEntry
  <1>5. \A o \in Descriptors : proc'[o] = proc[o] \/ proc'[o].pc = "idle"
    <2>1. UNCHANGED proc \/ End(d)
      BY DEF Execute
    <2> QED
      BY <2>1, EndFacts
  <1>6. \A o \in Descriptors : Enters(o)
    BY <1>2, <1>5 DEF Enters, Held, Lifecycle
  <1>7. \A q \in Requests : journal[q].source \in Versions \cup {None}
    BY DEF IInv, Types, Journal
  <1>8. \A q \in Requests : Tested(q)' <=> Tested(q)
    BY <1>1, <1>2, <1>4, <1>7 DEF Tested, Closed, Effects
  <1>9. \A q \in Requests, e \in Lifecycle : <<q, e>> # k => effect'[<<q, e>>] = effect[<<q, e>>]
    BY <1>4 DEF Effects
  <1>10. CASE pc \notin Lifecycle
    <2>1. \A q \in Requests, e \in Lifecycle : effect'[<<q, e>>].receipt = effect[<<q, e>>].receipt
      BY <1>9, <1>10
    <2> QED
      BY <1>1, <1>6, <1>8, <2>1, QuietSwap
  <1>11. CASE pc \in Lifecycle
    <2>1. \A q \in Requests : request[q].rev = 0 =>
              \A e \in Lifecycle : effect'[<<q, e>>].receipt = effect[<<q, e>>].receipt
      BY <1>2, <1>9
    <2>2. SwapHolds'
      BY <1>1, <1>6, <2>1, PlacesStay
    <2>3. Built' = Built
      BY <1>8 DEF Built
    <2>4. run.runner = Old(r) /\ ~Was(r) /\ r \notin Ended
      <3>1. run.runner = Old(r) /\ ~Was(r)
        BY <1>11 DEF SwapHolds, Held
      <3> QED
        BY <3>1, EndedWas
    <2>5. r \in Built \ (Ended \cup {run.runner})
      BY <1>2, <1>11, <2>4 DEF CommandHolds, Built, Was
    <2>6. CASE receipt = "failed"
      <3>1. \A e \in Lifecycle : Received(e)' = Received(e)
        BY <1>1, <1>4, <1>9, <2>6 DEF Received
      <3>2. \A q : Old(q)' = Old(q)
        BY <1>1 DEF Old
      <3>3. Ended' = Ended /\ Replacing("start")' = Replacing("start") /\ Replacing("attest")' = Replacing("attest")
        BY <3>1, <3>2 DEF Ended, Replacing, Lifecycle
      <3> QED
        BY <1>1, <2>2, <2>3, <3>3 DEF SwapStep, Swap!vars
    <2>7. CASE receipt = "ok"
      <3>1. /\ pc = "terminate" => Ended' = Ended \cup {Old(r)}
            /\ pc # "terminate" => Ended' = Ended
            /\ pc \in {"start", "attest"} => Replacing(pc)' = Replacing(pc) \cup {<<Old(r), r>>}
            /\ \A e \in {"start", "attest"} : e # pc => Replacing(e)' = Replacing(e)
        <4>1. effect'[<<r, pc>>].receipt = "ok"
          BY <1>4, <2>7
        <4>2. \A q \in Requests, e \in Lifecycle : <<q, e>> # <<r, pc>> => effect'[<<q, e>>] = effect[<<q, e>>]
          BY <1>9
        <4>3. request' = request
          BY <1>1
        <4> QED
          BY <1>2, <1>11, <4>1, <4>2, <4>3, ReceivedGrows, Zenon
      <3>2. CASE pc = "terminate"
        <4>1. Swap!Terminate(r)
          BY <1>1, <2>3, <2>4, <2>5, <3>1, <3>2 DEF Swap!Terminate
        <4> QED
          BY <1>2, <2>2, <4>1 DEF SwapStep, Swap!Next
      <3>3. CASE pc = "start"
        <4>1. run.runner \in Ended
          <5>1. effect[<<r, "terminate">>].closed
            BY <1>2, <3>3 DEF CommandHolds
          <5>2. effect[<<r, "terminate">>].receipt = "ok"
            BY <1>2, <5>1 DEF IInv, EffectHolds, Effects, Lifecycle
          <5> QED
            BY <1>2, <2>4, <5>2 DEF Ended, Received
        <4>2. Swap!Start(r)
          BY <1>1, <2>3, <2>4, <2>5, <3>1, <3>3, <4>1 DEF Swap!Start
        <4> QED
          BY <1>2, <2>2, <4>2 DEF SwapStep, Swap!Next
      <3>4. CASE pc = "attest"
        <4>1. <<run.runner, r>> \in Replacing("start")
          <5>1. effect[<<r, "start">>].closed
            BY <1>2, <3>4 DEF CommandHolds
          <5>2. effect[<<r, "start">>].receipt = "ok"
            BY <1>2, <5>1 DEF IInv, EffectHolds, Effects, Lifecycle
          <5> QED
            BY <1>2, <2>4, <5>2 DEF Replacing, Received
        <4>2. Swap!Attest(r)
          BY <1>1, <2>3, <2>4, <2>5, <3>1, <3>4, <4>1 DEF Swap!Attest
        <4> QED
          BY <1>2, <2>2, <4>2 DEF SwapStep, Swap!Next
      <3> QED
        BY <1>11, <3>2, <3>3, <3>4 DEF Lifecycle
    <2> QED
      BY <2>6, <2>7
  <1> QED
    BY <1>10, <1>11

(* A commit moves the run to the next revision; nothing else changes. *)
LEMMA CommitKeeps ==
    ASSUME IInv, SwapHolds, UNCHANGED <<request, journal, effect, pending, nonce>>,
           run'.rev = run.rev + 1,
           NEW r, run'.runner = run.runner \/ (run'.runner = r /\ r \in Requests /\ Spent(r)'),
           \A d \in Descriptors : proc'[d].pc \in Held => proc[d].pc \in Held /\ run'.runner = run.runner
    PROVE  SwapHolds' /\ UNCHANGED <<Built, Ended, Replacing("start"), Replacing("attest")>>
  <1>1. run.rev \in Nat /\ \A q \in Requests : request[q].rev \in Nat
    BY DEF IInv, Types, RunState, Request
  <1>2. \A x : Was(x)' => Was(x) \/ x = run'.runner
    BY DEF Was, Old
  <1>3. \A q \in Requests : Spent(q) => Spent(q)'
    BY <1>1 DEF Spent
  <1>4. ASSUME NEW q \in Requests, Was(q)' PROVE Spent(q)'
    <2>1. CASE Was(q)
      BY <1>3, <2>1 DEF SwapHolds
    <2>2. CASE q = run'.runner
      <3>1. run'.runner = run.runner => Was(q)
        BY <2>2 DEF Was
      <3> QED
        BY <2>1, <2>2, <3>1
    <2> QED
      BY <1>2, <1>4, <2>1, <2>2
  <1>5. ASSUME NEW d \in Descriptors, proc'[d].pc \in Held
        PROVE  (run.runner = Old(For(d)) /\ ~Was(For(d)))'
    <2> PICK q : q = For(d) /\ q = For(d)'
      BY DEF For
    <2>1. run'.runner = run.runner /\ run.runner = Old(q) /\ ~Was(q)
      BY <1>5 DEF SwapHolds
    <2>2. Old(q)' = Old(q) /\ ~Was(q)'
      BY <2>1 DEF Old, Was
    <2> QED
      BY <2>1, <2>2
  <1>6. SwapHolds'
    BY <1>4, <1>5 DEF SwapHolds
  <1>7. Built' = Built
    BY DEF Built, Tested, Closed
  <1> QED
    BY <1>6, <1>7, PairsStay

(* The commit of an activation replaces the runner; nobody else is between *)
(* its decision and its commit, because the lock is held.                  *)
LEMMA CommitSwap ==
    ASSUME IInv, SwapHolds, NEW d \in Descriptors, Commit(d)
    PROVE  SwapHolds' /\ SwapStep
  <1> PICK r : r = For(d)
    OBVIOUS
  <1>1. UNCHANGED <<request, journal, effect, pending, nonce>> /\ proc[d].pc = "commit"
    BY DEF Commit, workspaces, registry, At
  <1>2. /\ r \in Requests /\ CommandHolds(d) /\ request[r].rev # 0 /\ lock = d
        /\ effect[<<r, "attest">>].closed
    BY <1>1 DEF IInv, CommandHolds
  <1>3. CASE End(d) /\ UNCHANGED run
    BY <1>1, <1>3, EndSwap
  <1>4. CASE /\ Bound(r)
             /\ run' = [rev |-> run.rev + 1, disposition |-> "ACTIVE", runner |-> r, receipt |-> r]
             /\ proc' = [proc EXCEPT ![d].pc = After("commit"), ![d].rev = run.rev + 1]
    <2>1. /\ run.rev \in Nat /\ request[r].rev = run.rev /\ run.disposition = "REPAIR_REQUIRED"
          /\ run'.rev = run.rev + 1 /\ run'.runner = r /\ run'.disposition = "ACTIVE" /\ run.runner = Old(r)
      BY <1>2, <1>4 DEF Bound, Repairable, IInv, Types, RunState
    <2>2. After("commit") = "report"
      BY RepairAssumption DEF After, Places
    <2>3. proc'[d].pc = "report" /\ \A o \in Descriptors \ {d} : proc'[o] = proc[o]
      <3>1. PICK next \in Nat : next = run.rev + 1
        BY <2>1
      <3>2. PICK c : c = [proc[d] EXCEPT !.pc = "report", !.rev = next]
        OBVIOUS
      <3>3. c.pc = "report" /\ proc' = [proc EXCEPT ![d] = c]
        BY <1>4, <2>2, <3>1, <3>2 DEF IInv, Types, Command
      <3> QED
        BY <3>3 DEF IInv, Types
    <2>4. \A o \in Descriptors : proc'[o].pc \notin Held
      <3>1. \A o \in Descriptors \ {d} : proc[o].pc \notin Held
        BY <1>2 DEF IInv, CommandHolds, Held
      <3> QED
        BY <2>3, <3>1 DEF Held, Lifecycle
    <2>5. Spent(r)'
      BY <1>1, <1>2, <2>1 DEF Spent
    <2>6. SwapHolds' /\ UNCHANGED <<Built, Ended, Replacing("start"), Replacing("attest")>>
      BY <1>1, <1>2, <2>1, <2>4, <2>5, CommitKeeps
    <2>7. <<run.runner, r>> \in Replacing("attest")
      <3>1. effect[<<r, "attest">>].receipt = "ok"
        BY <1>2 DEF IInv, EffectHolds, Effects, Lifecycle
      <3> QED
        BY <1>2, <2>1, <3>1 DEF Replacing, Received
    <2>8. r \notin Ended
      <3>1. ~Was(r)
        BY <1>1 DEF SwapHolds, Held
      <3> QED
        BY <3>1, EndedWas
    <2>9. Swap!Activate(r)
      BY <2>1, <2>6, <2>7, <2>8 DEF Swap!Activate
    <2> QED
      BY <1>2, <2>6, <2>9 DEF SwapStep, Swap!Next
  <1> QED
    BY <1>3, <1>4 DEF Commit

LEMMA OtherCommitSwap ==
    ASSUME IInv, SwapHolds, OtherCommit
    PROVE  SwapHolds' /\ SwapStep
  <1>1. UNCHANGED <<request, journal, effect, pending, nonce, proc>>
    BY DEF OtherCommit, workspaces, registry
  <1>2. PICK move \in Moves : /\ run.disposition = move[1]
                              /\ run' = [run EXCEPT !.rev = @ + 1, !.disposition = move[2]]
    BY DEF OtherCommit
  <1>3. run'.rev = run.rev + 1 /\ run'.runner = run.runner /\ run'.disposition = move[2]
    <2>1. PICK to : to = move[2]
      OBVIOUS
    <2>2. PICK next : next = run.rev + 1
      OBVIOUS
    <2>3. run \in RunState /\ run' = [run EXCEPT !.rev = next, !.disposition = to]
      BY <1>2, <2>1, <2>2 DEF IInv, Types
    <2> QED
      BY <2>1, <2>2, <2>3 DEF RunState
  <1>4. SwapHolds' /\ UNCHANGED <<Built, Ended, Replacing("start"), Replacing("attest")>>
    BY <1>1, <1>3, CommitKeeps
  <1>5. run'.disposition = run.disposition \/ <<run.disposition, run'.disposition>> \in Swap!Moves
    BY <1>2, <1>3 DEF Moves, Swap!Moves
  <1> QED
    BY <1>3, <1>4, <1>5 DEF SwapStep, Swap!Next, Swap!Move, Swap!vars

LEMMA StepSwap == IInv /\ SwapHolds /\ [Next]_vars => SwapHolds' /\ SwapStep
  <1> SUFFICES ASSUME IInv, SwapHolds, [Next]_vars PROVE SwapHolds' /\ SwapStep
    OBVIOUS
  <1>1. ASSUME NEW d \in Descriptors, RefuseFailed(d) \/ Abort(d) \/ Crash(d) PROVE SwapHolds' /\ SwapStep
    BY <1>1, EndSwap DEF RefuseFailed, Abort, Crash, workspaces, registry
  <1>2. ASSUME NEW d \in Descriptors, Complete(d) PROVE SwapHolds' /\ SwapStep
    <2>1. UNCHANGED <<run, request, journal, effect, pending>> /\ End(d)
      BY <1>2 DEF Complete, workspaces, registry
    <2>2. \A o \in Descriptors \ {d} : nonce'[o] = nonce[o]
      BY <1>2 DEF Complete, IInv, Types
    <2>3. \A o \in Descriptors : Enters(o)
      BY <2>1, <2>2, EndFacts DEF Enters, For, Held, Lifecycle
    <2> QED
      BY <2>1, <2>3, OutsideSwap
  <1>3. ASSUME NEW d \in Descriptors, Continue(d) PROVE SwapHolds' /\ SwapStep
    BY <1>1, <1>2, <1>3, ReadSourceSwap, RereadSwap, EvidenceSwap, ExecuteSwap, RecordPendingSwap, CloseEffectSwap, LockSwap,
       PublishSwap, CommitSwap DEF Continue
  <1>4. CASE UNCHANGED vars
    <2>1. UNCHANGED <<run, request, journal, effect, pending, nonce, proc>>
      BY <1>4 DEF vars, workspaces, registry
    <2> QED
      BY <2>1, OutsideSwap DEF Enters, For
  <1> QED
    BY <1>1, <1>3, <1>4, PrepareSwap, StartSwap, ExpireSwap, OtherCommitSwap DEF Next

(* The dozen writes of an activation, whoever makes them and however often *)
(* they die, amount to one replacement of a runner that ended by one that  *)
(* was tested, started and attested after it (runner.py,                   *)
(* reconcile_activation).                                                  *)
THEOREM RepairSwaps == Spec => ImplementsSwap
  <1>1. Init => SwapHolds /\ Swap!Init
    BY SwapInit
  <1>2. IInv /\ SwapHolds /\ [Next]_vars => SwapHolds' /\ [Swap!Next]_(Swap!vars)
    BY StepSwap DEF SwapStep
  <1> QED
    BY <1>1, <1>2, Inductive, PTL DEF Spec, ImplementsSwap, Swap!Spec
=============================================================================
