----------------------- MODULE FinalizationServiceProofs -----------------------
(***************************************************************************)
(* What TLAPS proves of FinalizationService, for every set of launchers,   *)
(* restarted services and keys, any revisions and any number of deaths:    *)
(* what the service answers is the truth, once, and no child whose         *)
(* identifier arrived is left behind in silence.                           *)
(***************************************************************************)
EXTENDS FinalizationService, FiniteSetTheorems, TLAPS

(* A response is one of the two kinds, and a revision it names was reached *)
(* by the one call of the handler, not before the generation asked for.    *)
Honest(n, response) ==
  \A r \in response :
    r # Rejected => handled[n] = 1 /\ args[n].rev <= r /\ r <= run.rev

(* The record of a nonce agrees with the command line that had it issued   *)
(* and with the calls that were made for it.                               *)
RecordHolds(n) ==
  /\ n \notin DOMAIN rec => handled[n] = 0
  /\ n \in DOMAIN rec =>
       /\ stage[n] \notin {"start", "ready", "prepared"}
       /\ rec[n].descriptor.request.rev = args[n].rev
       /\ rec[n].status = "issued" => handled[n] = 0
       /\ rec[n].status = "completed" =>
            /\ \E r \in Responses : rec[n].response = {r}
            /\ Honest(n, rec[n].response)

(* A server in dispatch holds one nonce, which it alone has consumed.      *)
ServerHolds(s) ==
  /\ gen[s].rev <= run.rev
  /\ phase[s] \in {"handling", "storing", "replying"} =>
       \E n \in DOMAIN rec :
         /\ asked[s] = {n}
         /\ phase[s] = "handling" =>
              rec[n].status = "consumed" /\ handled[n] = 0
         /\ phase[s] = "storing" =>
              /\ rec[n].status = "consumed" /\ Honest(n, made[s])
              /\ \E r \in Responses : made[s] = {r}
         /\ phase[s] = "replying" =>
              rec[n].status = "completed" /\ rec[n].response = made[s]
  /\ answer[s] # {} =>
       /\ phase[s] \in {"stopped", "dead"}
       /\ \E n \in DOMAIN rec :
            asked[s] = {n} /\ rec[n].status = "completed" /\ rec[n].response = answer[s]

Consumers == {s \in Servers : phase[s] \in {"handling", "storing"}}
Exclusive == \A s, t \in Consumers : s # t => asked[s] \cap asked[t] = {}

(* What a child asks is its own capability, and it only succeeds on an     *)
(* answer that is no refusal.                                              *)
ChildHolds(l) ==
  /\ asked[l] \subseteq {l}
  /\ l \in DOMAIN cap => cap[l].descriptor.request.nonce = l
  /\ child[l] = "asking" => l \in DOMAIN cap
  /\ child[l] = "succeeded" => answer[l] \notin {{}, {Rejected}}
  /\ verdict[l] = "ok" => stage[l] = "ended"
  /\ l \in known => stage[l] \notin {"start", "ready"}
  /\ phase[l] \in {"handling", "storing", "replying"} => stage[l] = "dispatching"

(* The two promises, one launcher at a time. *)
Real(l) ==
  verdict[l] = "ok" =>
    /\ handled[l] = 1
    /\ \E r \in rec[l].response : r # Rejected /\ args[l].rev <= r /\ r <= run.rev
Tidy(l) ==
  l \in known /\ stage[l] = "ended" => child[l] = "reaped" \/ verdict[l] = "cleanup_failed"

IInv ==
  /\ TypeOK
  /\ \A n \in Launchers : RecordHolds(n) /\ ChildHolds(n) /\ Real(n) /\ Tidy(n)
  /\ \A s \in Servers : ServerHolds(s)
  /\ Exclusive
  /\ HandledOnce

-----------------------------------------------------------------------------
(* Data. *)

(* Adding an entry for a new name leaves every other entry alone. *)
LEMMA AddEntry ==
    ASSUME NEW f, NEW x, NEW y
    PROVE  /\ DOMAIN With(f, x, y) = DOMAIN f \cup {x}
           /\ \A z \in DOMAIN f : With(f, x, y)[z] = f[z]
           /\ x \notin DOMAIN f => With(f, x, y)[x] = y
  BY DEF With

(* A sealed capability names the generation and the nonce of its launcher. *)
LEMMA SealedType ==
    ASSUME TypeOK, NEW l \in Launchers
    PROVE  /\ Sealed(l) \in Capability
           /\ Sealed(l).descriptor.request.nonce = l
           /\ Sealed(l).descriptor.request.rev = args[l].rev
  BY DEF TypeOK, Sealed, Capability, Descriptor, Trust, Binding, Request, RequestOf

(* The three kinds of record. *)
LEMMA RecordType ==
    ASSUME NEW r \in Record, ServiceAssumption
    PROVE  /\ r.status # "completed" => [r EXCEPT !.status = "consumed"] \in Record
           /\ \A v \in Responses : Completed(r, {v}) \in Record
  <1>1. /\ r \in [status : {"issued", "consumed", "completed"},
                   descriptor : Descriptor, response : SUBSET Responses]
        /\ Cardinality(r.response) = IF r.status = "completed" THEN 1 ELSE 0
    BY DEF Record
  <1>2. ASSUME r.status # "completed" PROVE [r EXCEPT !.status = "consumed"] \in Record
    <2> DEFINE q == [r EXCEPT !.status = "consumed"]
    <2>1. /\ q \in [status : {"issued", "consumed", "completed"},
                     descriptor : Descriptor, response : SUBSET Responses]
          /\ q.response = r.response /\ q.status = "consumed"
      BY <1>1
    <2> QED
      BY <1>1, <1>2, <2>1 DEF Record
  <1>3. ASSUME NEW v \in Responses PROVE Completed(r, {v}) \in Record
    <2>1. /\ Completed(r, {v}) \in [status : {"issued", "consumed", "completed"},
                     descriptor : Descriptor, response : SUBSET Responses]
          /\ Completed(r, {v}).response = {v} /\ Completed(r, {v}).status = "completed"
      BY <1>1 DEF Completed
    <2>2. Cardinality({v}) = 1
      BY FS_Singleton
    <2> QED
      BY <2>1, <2>2 DEF Record
  <1> QED
    BY <1>2, <1>3

LEMMA InitInv == Init => IInv
  <1> SUFFICES ASSUME Init PROVE IInv
    OBVIOUS
  <1>1. run \in Run
    <2>1. run \in [rev : {1}, mode : {"active", "waiting", "review"}, live : {TRUE}]
      BY DEF Init
    <2>2. run \in [rev : 1..MaxRev, mode : Modes, live : BOOLEAN]
      <3>1. 1 \in 1..MaxRev
        BY ServiceAssumption
      <3> QED
        BY <2>1, <3>1 DEF Modes
    <2>3. run.live = TRUE
      BY <2>1
    <2> QED
      BY <2>2, <2>3 DEF Run
  <1>2. DOMAIN cap = {} /\ DOMAIN rec = {} /\ 1 \in 1..MaxRev /\ 0 \in 0..MaxCrashes
    BY ServiceAssumption DEF Init
  <1>3. TypeOK
    BY <1>1, <1>2, ServiceAssumption DEF Init, TypeOK, Ops, ChildStates
  <1>4. ASSUME NEW n \in Launchers PROVE RecordHolds(n) /\ ChildHolds(n) /\ Real(n) /\ Tidy(n)
    BY <1>2 DEF Init, RecordHolds, ChildHolds, Real, Tidy, Servers
  <1>5. ASSUME NEW s \in Servers PROVE ServerHolds(s)
    BY <1>1 DEF Init, ServerHolds, Run
  <1>6. Exclusive /\ HandledOnce
    BY DEF Init, Exclusive, Consumers, HandledOnce
  <1> QED
    BY <1>3, <1>4, <1>5, <1>6 DEF IInv

-----------------------------------------------------------------------------
(* Steps of a launcher and its child *)

(* A step of launcher l, or of its child, that neither serves nor issues. *)
LEMMA LauncherStep ==
    ASSUME IInv, NEW l \in Launchers, TypeOK', UNCHANGED <<run, rec, service, answer>>,
           \A n \in DOMAIN rec : args'[n] = args[n],
           \A m \in Launchers \ {l} :
             /\ args'[m] = args[m] /\ stage'[m] = stage[m] /\ child'[m] = child[m]
             /\ verdict'[m] = verdict[m] /\ (m \in known' <=> m \in known)
             /\ (m \in DOMAIN cap' <=> m \in DOMAIN cap)
             /\ m \in DOMAIN cap => cap'[m] = cap[m],
           RecordHolds(l)', ChildHolds(l)', Real(l)', Tidy(l)'
    PROVE  IInv'
  <1>1. ASSUME NEW m \in Launchers PROVE RecordHolds(m)' /\ ChildHolds(m)' /\ Real(m)' /\ Tidy(m)'
    <2>1. CASE m = l
      BY <2>1
    <2>2. CASE m # l
      <3>1. RecordHolds(m) /\ ChildHolds(m) /\ Real(m) /\ Tidy(m) /\ m \in Servers
        BY DEF IInv, Servers
      <3>2. RecordHolds(m)'
        BY <2>2, <3>1 DEF service, RecordHolds, Honest
      <3>3. ChildHolds(m)'
        BY <2>2, <3>1 DEF service, ChildHolds
      <3>4. Real(m)' /\ Tidy(m)'
        BY <2>2, <3>1 DEF service, Real, Tidy
      <3> QED
        BY <3>2, <3>3, <3>4
    <2> QED
      BY <2>1, <2>2
  <1>2. ASSUME NEW s \in Servers PROVE ServerHolds(s)'
    BY DEF IInv, service, ServerHolds, Honest
  <1>3. Exclusive' /\ HandledOnce'
    BY DEF IInv, service, Exclusive, Consumers, HandledOnce
  <1> QED
    BY <1>1, <1>2, <1>3 DEF IInv

(* The parts of the type a launcher's steps touch. *)
LEMMA LauncherType ==
    ASSUME TypeOK, NEW l \in Launchers,
           UNCHANGED <<run, key, args, records, service, answer, crashes>>,
           \/ UNCHANGED stage
           \/ \E g \in {"prepared", "serving", "waiting", "aborting", "ended"} : stage' = [stage EXCEPT ![l] = g],
           UNCHANGED child \/ \E c \in ChildStates : child' = [child EXCEPT ![l] = c],
           known' = known \/ known' = known \cup {l},
           cap' = cap \/ cap' = With(cap, l, Sealed(l)),
           \/ UNCHANGED verdict
           \/ \E v \in {"ok", "refused", "failed", "cleanup_failed"} : verdict' = [verdict EXCEPT ![l] = v]
    PROVE  TypeOK'
  <1>1. /\ run' \in Run
        /\ key' \in [Launchers -> Keys]
        /\ args' \in [Launchers -> [op : Ops, rev : 1..MaxRev]]
        /\ DOMAIN rec' \subseteq Launchers /\ \A n \in DOMAIN rec' : rec'[n] \in Record
        /\ expired' \subseteq DOMAIN rec'
    BY DEF TypeOK, records
  <1>2. /\ phase' \in [Servers -> {"idle", "handling", "storing", "replying", "stopped", "dead"}]
        /\ asked' \in [Servers -> SUBSET Launchers]
        /\ gen' \in [Servers -> Run]
        /\ made' \in [Servers -> SUBSET Responses]
        /\ late' \subseteq Servers
        /\ answer' \in [Servers -> SUBSET Responses]
        /\ handled' \in [Launchers -> Nat]
        /\ crashes' \in 0..MaxCrashes
    BY DEF TypeOK, service
  <1>3. stage' \in [Launchers -> {"start", "ready", "prepared", "issued", "serving",
                              "dispatching", "waiting", "aborting", "ended", "dead"}]
    BY DEF TypeOK
  <1>4. child' \in [Launchers -> ChildStates]
    BY DEF TypeOK
  <1>5. DOMAIN cap' \subseteq Launchers /\ \A m \in DOMAIN cap' : cap'[m] \in Capability
    <2>1. DOMAIN cap \subseteq Launchers /\ (\A m \in DOMAIN cap : cap[m] \in Capability) /\ Sealed(l) \in Capability
      BY SealedType DEF TypeOK
    <2>2. CASE cap' = With(cap, l, Sealed(l))
      BY <2>1, <2>2 DEF With
    <2> QED
      BY <2>1, <2>2
  <1>6. verdict' \in [Launchers -> {"none", "ok", "refused", "failed", "cleanup_failed"}] /\ known' \subseteq Launchers
    BY DEF TypeOK
  <1> QED
    BY <1>1, <1>2, <1>3, <1>4, <1>5, <1>6 DEF TypeOK

(* After the bootstrap the command line of a launcher is fixed. *)
LEMMA BootstrapInv == ASSUME IInv, NEW l \in Launchers, Bootstrap(l) PROVE IInv'
  <1>1. l \notin DOMAIN rec /\ l \notin known /\ verdict[l] # "ok" /\ l \in Servers
    BY DEF Bootstrap, IInv, RecordHolds, ChildHolds, Servers
  <1>2. PICK e \in Envelope, op \in Ops, rev \in 1..run.rev :
          IF Admitted(e)
          THEN /\ stage' = [stage EXCEPT ![l] = "ready"]
               /\ key' = [key EXCEPT ![l] = e.key]
               /\ args' = [args EXCEPT ![l] = [op |-> op, rev |-> rev]]
               /\ UNCHANGED verdict
          ELSE /\ stage' = [stage EXCEPT ![l] = "ended"]
               /\ verdict' = [verdict EXCEPT ![l] = "failed"]
               /\ UNCHANGED <<key, args>>
    BY DEF Bootstrap
  <1>3. UNCHANGED <<run, child, known, cap, rec, expired, service, answer, crashes>>
    BY DEF Bootstrap, ticket, records
  <1>4. e.key \in Keys /\ rev \in 1..MaxRev
    <2>1. run.rev \in 1..MaxRev /\ MaxRev \in Nat
      BY ServiceAssumption DEF IInv, TypeOK, Run
    <2> QED
      BY <2>1 DEF Envelope
  <1>5. TypeOK'
    <2>1. /\ key' \in [Launchers -> Keys]
          /\ args' \in [Launchers -> [op : Ops, rev : 1..MaxRev]]
          /\ stage' \in [Launchers -> {"start", "ready", "prepared", "issued", "serving",
                              "dispatching", "waiting", "aborting", "ended", "dead"}]
          /\ verdict' \in [Launchers -> {"none", "ok", "refused", "failed", "cleanup_failed"}]
      <3>1. CASE Admitted(e)
        <4>1. /\ stage' = [stage EXCEPT ![l] = "ready"] /\ key' = [key EXCEPT ![l] = e.key]
              /\ args' = [args EXCEPT ![l] = [op |-> op, rev |-> rev]] /\ verdict' = verdict
          BY <1>2, <3>1
        <4>2. [op |-> op, rev |-> rev] \in [op : Ops, rev : 1..MaxRev]
          BY <1>4
        <4> QED
          BY <1>4, <4>1, <4>2 DEF IInv, TypeOK
      <3>2. CASE ~Admitted(e)
        BY <1>2, <3>2 DEF IInv, TypeOK
      <3> QED
        BY <3>1, <3>2
    <2> QED
      BY <1>3, <2>1 DEF IInv, TypeOK, service
  <1>6. RecordHolds(l)' /\ ChildHolds(l)' /\ Real(l)' /\ Tidy(l)'
    <2>1. /\ RecordHolds(l) /\ ChildHolds(l) /\ stage[l] = "start"
          /\ verdict'[l] # "ok" /\ stage'[l] \in {"ready", "ended"}
      BY <1>1, <1>2 DEF IInv, TypeOK, Bootstrap
    <2> QED
      BY <1>1, <1>3, <2>1 DEF RecordHolds, ChildHolds, Real, Tidy, service
  <1>7. /\ \A n \in DOMAIN rec : args'[n] = args[n]
        /\ \A m \in Launchers \ {l} : args'[m] = args[m] /\ stage'[m] = stage[m] /\ verdict'[m] = verdict[m]
    BY <1>1, <1>2 DEF IInv, TypeOK
  <1> QED
    BY <1>3, <1>5, <1>6, <1>7, LauncherStep

(* The other steps of a launcher and its child move its stage on, replace   *)
(* the state of the child, hand out the capability or set the verdict.      *)
LEMMA MoveInv ==
    ASSUME IInv, NEW l \in Launchers,
           UNCHANGED <<run, key, args, records, service, answer, crashes>>,
           \/ UNCHANGED stage
           \/ /\ stage[l] \notin {"start", "dispatching"}
              /\ \E g \in {"prepared", "serving", "waiting", "aborting", "ended"} : stage' = [stage EXCEPT ![l] = g],
           stage'[l] = "prepared" => stage[l] = "ready" \/ UNCHANGED stage,
           UNCHANGED child \/ \E c \in ChildStates : child' = [child EXCEPT ![l] = c],
           child'[l] = "asking" => child[l] = "asking" \/ l \in DOMAIN cap,
           child'[l] = "succeeded" => child[l] = "succeeded" \/ answer[l] \notin {{}, {Rejected}},
           known' = known \/ (known' = known \cup {l} /\ stage'[l] \notin {"start", "ready"}),
           cap' = cap \/ cap' = With(cap, l, Sealed(l)),
           \/ UNCHANGED verdict /\ (verdict[l] = "ok" => UNCHANGED stage)
           \/ \E v \in {"ok", "refused", "failed", "cleanup_failed"} :
                /\ verdict' = [verdict EXCEPT ![l] = v]
                /\ v = "ok" => Real(l)' /\ stage'[l] = "ended",
           Tidy(l)'
    PROVE  IInv'
  <1>1. TypeOK'
    BY LauncherType DEF IInv
  <1>2. RecordHolds(l) /\ ChildHolds(l) /\ Real(l) /\ TypeOK /\ l \in Servers
    BY DEF IInv, Servers
  <1>3. RecordHolds(l)'
    BY <1>2 DEF RecordHolds, Honest, records, service, TypeOK
  <1>0. /\ DOMAIN With(cap, l, Sealed(l)) = DOMAIN cap \cup {l}
        /\ \A z \in DOMAIN cap : With(cap, l, Sealed(l))[z] = cap[z]
        /\ l \notin DOMAIN cap => With(cap, l, Sealed(l))[l] = Sealed(l)
    BY DEF With
  <1>4. cap'[l].descriptor.request.nonce = l \/ l \notin DOMAIN cap'
    <2>1. l \in DOMAIN cap => cap'[l] = cap[l]
      BY <1>0
    <2>2. l \in DOMAIN cap' /\ l \notin DOMAIN cap => cap'[l] = Sealed(l)
      BY <1>0
    <2>3. Sealed(l).descriptor.request.nonce = l
      BY <1>2, SealedType
    <2>4. l \in DOMAIN cap => cap[l].descriptor.request.nonce = l
      BY <1>2 DEF ChildHolds
    <2> QED
      BY <2>1, <2>2, <2>3, <2>4
  <1>5. l \in DOMAIN cap => l \in DOMAIN cap'
    BY <1>0
  <1>6. /\ verdict'[l] = "ok" => stage'[l] = "ended"
        /\ l \in known' => stage'[l] \notin {"start", "ready"}
    BY <1>2 DEF ChildHolds, TypeOK
  <1>7. ChildHolds(l)'
    BY <1>2, <1>4, <1>5, <1>6 DEF ChildHolds, service
  <1>8. Real(l)'
    BY <1>2 DEF Real, TypeOK, records, service
  <1>9. \A m \in Launchers \ {l} :
             /\ args'[m] = args[m] /\ stage'[m] = stage[m] /\ child'[m] = child[m]
             /\ verdict'[m] = verdict[m] /\ (m \in known' <=> m \in known)
             /\ (m \in DOMAIN cap' <=> m \in DOMAIN cap)
             /\ m \in DOMAIN cap => cap'[m] = cap[m]
    <2>1. ASSUME NEW m \in Launchers \ {l}
          PROVE  args'[m] = args[m] /\ stage'[m] = stage[m] /\ child'[m] = child[m]
      BY <1>2 DEF TypeOK
    <2>2. ASSUME NEW m \in Launchers \ {l}
          PROVE  verdict'[m] = verdict[m] /\ (m \in known' <=> m \in known)
      BY <1>2 DEF TypeOK
    <2>3. ASSUME NEW m \in Launchers \ {l}
          PROVE  /\ m \in DOMAIN cap' <=> m \in DOMAIN cap
                 /\ m \in DOMAIN cap => cap'[m] = cap[m]
      BY <1>0
    <2> QED
      BY <2>1, <2>2, <2>3
  <1> QED
    BY <1>1, <1>3, <1>7, <1>8, <1>9, LauncherStep DEF records

LEMMA PrepareInv == ASSUME IInv, NEW l \in Launchers, Prepare(l) PROVE IInv'
  <1>1. Tidy(l)'
    BY DEF Prepare, Tidy, IInv, TypeOK
  <1>2. stage'[l] = "prepared" /\ child'[l] = "prepared" /\ verdict[l] # "ok"
    BY DEF Prepare, IInv, TypeOK, ChildHolds
  <1> QED
    BY <1>1, <1>2, MoveInv DEF Prepare, ChildStates

LEMMA PrepareUnreadInv == ASSUME IInv, NEW l \in Launchers, PrepareUnread(l) PROVE IInv'
  <1>1. l \notin known' /\ Tidy(l)'
    BY DEF PrepareUnread, Tidy, IInv, TypeOK, ChildHolds
  <1>2. stage'[l] = "ended" /\ child'[l] \in {"none", "prepared"}
    BY DEF PrepareUnread, IInv, TypeOK
  <1> QED
    BY <1>1, <1>2, MoveInv DEF PrepareUnread, ChildStates

(* A kill and a wait that both succeeded leave the child reaped. *)
LEMMA CleanedType ==
    ASSUME NEW c, NEW x \in Cleaned(c)
    PROVE  /\ x.failed \in BOOLEAN /\ x.child \in {c, "reaped", "killed"}
           /\ x.failed = FALSE => x.child = "reaped"
  <1>1. CASE x = [child |-> "reaped", failed |-> FALSE]
    BY <1>1
  <1>2. CASE x \in [child : {c, "reaped"} \cup (IF c \in Alive THEN {"killed"} ELSE {}), failed : {TRUE}]
    BY <1>2
  <1> QED
    BY <1>1, <1>2 DEF Cleaned

(* The end of a launcher that kills and waits: the child is reaped, or the *)
(* verdict tells that the cleanup failed.                                  *)
LEMMA CleanupInv ==
    ASSUME IInv, NEW l \in Launchers, NEW c \in ChildStates, NEW x \in Cleaned(c),
           c = child[l] \/ c \notin {"asking", "succeeded"}, stage[l] \notin {"start", "dispatching"},
           child' = [child EXCEPT ![l] = x.child],
           verdict' = [verdict EXCEPT ![l] = Refusal(x.failed)],
           stage' = [stage EXCEPT ![l] = "ended"],
           known' = known \/ known' = known \cup {l},
           UNCHANGED <<run, key, args, cap, records, service, answer, crashes>>
    PROVE  IInv'
  <1>1. x.failed = FALSE => x.child = "reaped"
    BY CleanedType
  <1>2. x.failed \in BOOLEAN /\ x.child \in {c, "reaped", "killed"}
    BY CleanedType
  <1>3. child'[l] = x.child /\ verdict'[l] = Refusal(x.failed) /\ stage'[l] = "ended"
    BY DEF IInv, TypeOK
  <1>4. Tidy(l)'
    BY <1>1, <1>2, <1>3 DEF Tidy, Refusal
  <1>5. x.child \in ChildStates
    BY <1>2 DEF ChildStates
  <1>6. Refusal(x.failed) \in {"failed", "cleanup_failed"}
    BY DEF Refusal
  <1>7. /\ child'[l] = "asking" => child[l] = "asking" \/ l \in DOMAIN cap
        /\ child'[l] = "succeeded" => child[l] = "succeeded" \/ answer[l] \notin {{}, {Rejected}}
    BY <1>2, <1>3
  <1> QED
    BY <1>3, <1>4, <1>5, <1>6, <1>7, MoveInv

LEMMA PrepareRefusedInv == ASSUME IInv, NEW l \in Launchers, PrepareRefused(l) PROVE IInv'
  BY CleanupInv DEF PrepareRefused, ChildStates

LEMMA AbortInv == ASSUME IInv, NEW l \in Launchers, Abort(l) PROVE IInv'
  <1>1. child[l] \in ChildStates
    BY DEF IInv, TypeOK
  <1> QED
    BY <1>1, CleanupInv DEF Abort

LEMMA IssueRefusedInv == ASSUME IInv, NEW l \in Launchers, IssueRefused(l) PROVE IInv'
  <1>1. stage'[l] = "aborting" /\ Tidy(l)' /\ verdict[l] # "ok"
    BY DEF IssueRefused, Tidy, IInv, TypeOK, ChildHolds
  <1> QED
    BY <1>1, MoveInv DEF IssueRefused, ticket

LEMMA TransferInv == ASSUME IInv, NEW l \in Launchers, Transfer(l) PROVE IInv'
  <1>1. stage'[l] = "serving" /\ Tidy(l)' /\ verdict[l] # "ok" /\ child'[l] = "running"
    BY DEF Transfer, Tidy, IInv, TypeOK, ChildHolds
  <1> QED
    BY <1>1, MoveInv DEF Transfer, ChildStates

LEMMA TransferRefusedInv == ASSUME IInv, NEW l \in Launchers, TransferRefused(l) PROVE IInv'
  <1>1. PICK c \in {"prepared", "running"} :
       /\ \E x \in Cleaned(c) : child' = [child EXCEPT ![l] = x.child]
       /\ cap' = IF c = "running" THEN With(cap, l, Sealed(l)) ELSE cap
    BY DEF TransferRefused
  <1>2. PICK x \in Cleaned(c) : child' = [child EXCEPT ![l] = x.child]
    BY <1>1
  <1>3. x.child \in {"prepared", "running", "reaped", "killed"}
    <2>1. PICK y \in Cleaned(c) : x = y
      BY <1>2
    <2> QED
      BY <2>1, CleanedType
  <1>4. stage'[l] = "aborting" /\ Tidy(l)' /\ verdict[l] # "ok" /\ child'[l] = x.child
    BY <1>2 DEF TransferRefused, Tidy, IInv, TypeOK, ChildHolds
  <1> QED
    BY <1>1, <1>2, <1>3, <1>4, MoveInv DEF TransferRefused, ChildStates

(* The verdict is the exit status of the child: a child that succeeded was *)
(* answered, and the response on record is the one it believed.            *)
LEMMA ReapedInv == ASSUME IInv, NEW l \in Launchers, Reaped(l) PROVE IInv'
  <1>0. TypeOK /\ ChildHolds(l) /\ RecordHolds(l) /\ l \in Servers /\ ServerHolds(l)
    BY DEF IInv, Servers
  <1>1. stage'[l] = "ended" /\ child'[l] = "reaped" /\ Tidy(l)'
    BY <1>0 DEF Reaped, Tidy, TypeOK
  <1>2. ASSUME child[l] = "succeeded" PROVE Real(l)'
    <2>1. answer[l] \notin {{}, {Rejected}}
      BY <1>0, <1>2 DEF ChildHolds
    <2>2. PICK n \in DOMAIN rec : asked[l] = {n} /\ rec[n].status = "completed" /\ rec[n].response = answer[l]
      BY <1>0, <2>1 DEF ServerHolds
    <2>3. n = l
      BY <1>0, <2>2 DEF ChildHolds
    <2>4. PICK r \in Responses : rec[l].response = {r}
      BY <1>0, <2>2, <2>3 DEF RecordHolds
    <2>5. r # Rejected
      BY <2>1, <2>2, <2>3, <2>4
    <2>6. handled[l] = 1 /\ args[l].rev <= r /\ r <= run.rev
      BY <1>0, <2>2, <2>3, <2>4, <2>5 DEF RecordHolds, Honest
    <2>7. UNCHANGED <<handled, rec, args, run>>
      BY DEF Reaped, service, records
    <2> QED
      BY <2>4, <2>5, <2>6, <2>7 DEF Real
  <1>3. CASE child[l] = "succeeded"
    BY <1>1, <1>2, <1>3, MoveInv DEF Reaped, ChildStates
  <1>4. CASE child[l] # "succeeded"
    BY <1>1, <1>4, MoveInv DEF Reaped, ChildStates
  <1> QED
    BY <1>3, <1>4

LEMMA WaitFailsInv == ASSUME IInv, NEW l \in Launchers, WaitFails(l) PROVE IInv'
  <1>1. PICK c \in {child[l]} \cup IF child[l] \in Exited THEN {"reaped"} ELSE {} :
          child' = [child EXCEPT ![l] = c]
    BY DEF WaitFails
  <1>2. c \in ChildStates /\ c \in {child[l], "reaped"}
    BY <1>1 DEF IInv, TypeOK, ChildStates
  <1>3. stage'[l] = "aborting" /\ Tidy(l)' /\ verdict[l] # "ok" /\ child'[l] = c
    BY <1>1 DEF WaitFails, Tidy, IInv, TypeOK, ChildHolds
  <1> QED
    BY <1>1, <1>2, <1>3, MoveInv DEF WaitFails

LEMMA TicketInv == ASSUME IInv, NEW l \in Launchers, Ticket(l) PROVE IInv'
  <1>0. TypeOK /\ ChildHolds(l) /\ Tidy(l)
    BY DEF IInv
  <1>1. UNCHANGED <<run, key, args, stage, known, verdict, cap, records, service, answer, crashes>>
    BY DEF Ticket, Ask, Believe, GiveUp, launcher
  <1>2. child[l] \in {"running", "asking"}
    BY DEF Ticket, Ask, Believe, GiveUp
  <1>3. PICK c \in {"asking", "failed", "succeeded"} : child' = [child EXCEPT ![l] = c]
    BY DEF Ticket, Ask, Believe, GiveUp
  <1>4. /\ c = "asking" => l \in DOMAIN cap
        /\ c = "succeeded" => answer[l] \notin {{}, {Rejected}}
    <2>1. child'[l] = c
      BY <1>0, <1>3 DEF TypeOK
    <2> QED
      BY <1>0, <1>3, <2>1 DEF Ticket, Ask, Believe, GiveUp, TypeOK
  <1>5. Tidy(l)' /\ child'[l] = c
    BY <1>0, <1>1, <1>2, <1>3 DEF Tidy, TypeOK
  <1> QED
    BY <1>1, <1>2, <1>3, <1>4, <1>5, MoveInv DEF ChildStates

-----------------------------------------------------------------------------
(* Steps of a server *)

(* Before its completion a record stores no response. *)
LEMMA NotAnswered ==
    ASSUME TypeOK, NEW n \in DOMAIN rec, rec[n].status # "completed"
    PROVE  rec[n].response = {}
  <1>1. rec[n].response \subseteq Responses /\ Cardinality(rec[n].response) = 0
    BY DEF TypeOK, Record
  <1>2. IsFiniteSet(Responses)
    BY FS_Interval, ServiceAssumption DEF Responses
  <1> QED
    BY <1>1, <1>2, FS_Subset, FS_EmptySet

(* The types of what a server's steps touch. *)
LEMMA ServeType ==
    ASSUME TypeOK, NEW s \in Servers, run' \in Run, UNCHANGED <<key, args, child, known, cap, verdict>>,
           \/ UNCHANGED stage
           \/ \E g \in {"dispatching", "waiting", "aborting", "dead"} : stage' = [stage EXCEPT ![s] = g],
           DOMAIN rec' = DOMAIN rec, \A n \in DOMAIN rec : rec'[n] \in Record,
           UNCHANGED expired,
           \/ UNCHANGED phase
           \/ \E p \in {"handling", "storing", "replying", "stopped", "dead"} : phase' = [phase EXCEPT ![s] = p],
           UNCHANGED asked \/ \E n \in Launchers : asked' = [asked EXCEPT ![s] = {n}],
           UNCHANGED gen \/ gen' = [gen EXCEPT ![s] = run],
           UNCHANGED made \/ \E m \in SUBSET Responses : made' = [made EXCEPT ![s] = m],
           late' \in {late, late \cup {s}},
           UNCHANGED answer \/ answer' = [answer EXCEPT ![s] = made[s]],
           handled' \in [Launchers -> Nat], crashes' \in 0..MaxCrashes
    PROVE  TypeOK'
  <1>1. stage' \in [Launchers -> {"start", "ready", "prepared", "issued", "serving",
                              "dispatching", "waiting", "aborting", "ended", "dead"}]
    BY DEF TypeOK
  <1>2. phase' \in [Servers -> {"idle", "handling", "storing", "replying", "stopped", "dead"}]
    BY DEF TypeOK
  <1>3. asked' \in [Servers -> SUBSET Launchers] /\ gen' \in [Servers -> Run]
    <2>1. asked \in [Servers -> SUBSET Launchers] /\ gen \in [Servers -> Run] /\ run \in Run
      BY DEF TypeOK
    <2>2. asked' \in [Servers -> SUBSET Launchers]
      <3>1. CASE \E n \in Launchers : asked' = [asked EXCEPT ![s] = {n}]
        <4>1. PICK n \in Launchers : asked' = [asked EXCEPT ![s] = {n}]
          BY <3>1
        <4>2. {n} \in SUBSET Launchers
          OBVIOUS
        <4> QED
          BY <2>1, <4>1, <4>2
      <3> QED
        BY <2>1, <3>1
    <2>3. gen' \in [Servers -> Run]
      BY <2>1
    <2> QED
      BY <2>2, <2>3
  <1>4. made' \in [Servers -> SUBSET Responses] /\ answer' \in [Servers -> SUBSET Responses]
    BY DEF TypeOK
  <1>5. DOMAIN rec' \subseteq Launchers /\ (\A n \in DOMAIN rec' : rec'[n] \in Record) /\ expired' \subseteq DOMAIN rec'
    BY DEF TypeOK
  <1>6. late' \subseteq Servers
    BY DEF TypeOK
  <1> QED
    BY <1>1, <1>2, <1>3, <1>4, <1>5, <1>6 DEF TypeOK

(* A step that touches the entries of s only, and of the records only one   *)
(* that was just issued, or that s alone has consumed.                      *)
LEMMA ServeStep ==
    ASSUME IInv, NEW s, TypeOK', run.rev <= run'.rev, UNCHANGED <<args, child, verdict, known, cap>>,
           DOMAIN rec' = DOMAIN rec,
           \A n \in Launchers :
             \/ (n \in DOMAIN rec => rec'[n] = rec[n]) /\ handled'[n] = handled[n]
             \/ /\ n \in DOMAIN rec
                /\ rec[n].status = "issued" \/ (s \in Consumers /\ asked[s] = {n})
                /\ RecordHolds(n)' /\ handled'[n] <= 1,
           \A t \in Servers \ {s} :
             /\ phase'[t] = phase[t] /\ asked'[t] = asked[t] /\ gen'[t] = gen[t]
             /\ made'[t] = made[t] /\ answer'[t] = answer[t],
           \A m \in Launchers \ {s} : stage'[m] = stage[m],
           s \in Servers =>
             /\ ServerHolds(s)'
             /\ s \in Consumers' =>
                  \/ s \in Consumers /\ asked'[s] = asked[s]
                  \/ \E n \in DOMAIN rec : asked'[s] = {n} /\ rec[n].status = "issued",
           s \in Launchers =>
             /\ ChildHolds(s)' /\ Tidy(s)'
             /\ UNCHANGED stage \/ stage'[s] \notin {"start", "ready", "prepared"}
    PROVE  IInv'
  <1> DEFINE Untouched(n) == (n \in DOMAIN rec => rec'[n] = rec[n]) /\ handled'[n] = handled[n]
  <1>0. /\ TypeOK /\ HandledOnce /\ Exclusive /\ run.rev \in Int /\ run'.rev \in Int
        /\ \A n \in Launchers : args[n].rev \in Int
    BY DEF IInv, TypeOK, Run
  <1>1. ASSUME NEW t \in Consumers
        PROVE  \E n \in DOMAIN rec : asked[t] = {n} /\ rec[n].status = "consumed" /\ n \in Launchers
    BY DEF Consumers, IInv, ServerHolds, TypeOK
  <1>2. ASSUME NEW n \in Launchers, ~Untouched(n)
        PROVE  /\ n \in DOMAIN rec /\ rec[n].status # "completed"
               /\ \A t \in Consumers : t # s => asked[t] # {n}
    <2>1. CASE rec[n].status = "issued"
      BY <1>1, <1>2, <2>1
    <2>2. CASE s \in Consumers /\ asked[s] = {n}
      BY <1>0, <1>1, <1>2, <2>2 DEF Exclusive
    <2> QED
      BY <1>2, <2>1, <2>2
  <1>3. ASSUME NEW n \in Launchers PROVE RecordHolds(n)' /\ Real(n)'
    <2>0. RecordHolds(n) /\ Real(n)
      BY DEF IInv
    <2>1. CASE Untouched(n)
      <3>1. ASSUME n \in DOMAIN rec PROVE rec[n].response \subseteq Int
        BY <1>0, <3>1, ServiceAssumption DEF TypeOK, Record, Responses
      <3>2. RecordHolds(n)'
        <4>1. n \in DOMAIN rec /\ rec[n].status = "completed" => Honest(n, rec[n].response)'
          BY <1>0, <2>0, <2>1, <3>1 DEF RecordHolds, Honest
        <4> QED
          BY <2>0, <2>1, <4>1 DEF RecordHolds
      <3>3. ASSUME verdict[n] = "ok" PROVE Real(n)'
        <4>1. n \in DOMAIN rec
          BY <2>0, <3>3 DEF Real, RecordHolds
        <4> QED
          BY <1>0, <2>0, <2>1, <3>1, <3>3, <4>1 DEF Real
      <3> QED
        BY <3>2, <3>3 DEF Real
    <2>2. CASE ~Untouched(n)
      <3>1. RecordHolds(n)' /\ rec[n].response = {}
        BY <1>0, <1>2, <2>2, NotAnswered
      <3> QED
        BY <2>0, <3>1 DEF Real
    <2> QED
      BY <2>1, <2>2
  <1>4. ASSUME NEW m \in Launchers, m # s PROVE ChildHolds(m)' /\ Tidy(m)'
    BY <1>4 DEF IInv, ChildHolds, Tidy, Servers
  <1>5. ASSUME NEW t \in Servers, t # s PROVE ServerHolds(t)'
    <2>0. ServerHolds(t) /\ gen[t].rev \in Int
      BY <1>0 DEF IInv, TypeOK, Run
    <2>1. gen'[t].rev <= run'.rev
      BY <1>0, <1>5, <2>0 DEF ServerHolds
    <2>2. ASSUME phase[t] \in {"handling", "storing"}
          PROVE  \E n \in DOMAIN rec' :
                   /\ asked'[t] = {n} /\ rec'[n].status = "consumed"
                   /\ phase[t] = "handling" => handled'[n] = 0
                   /\ phase[t] = "storing" => Honest(n, made[t])' /\ \E r \in Responses : made[t] = {r}
      <3>1. PICK n \in DOMAIN rec :
                   /\ asked[t] = {n} /\ rec[n].status = "consumed"
                   /\ phase[t] = "handling" => handled[n] = 0
                   /\ phase[t] = "storing" => Honest(n, made[t]) /\ \E r \in Responses : made[t] = {r}
        BY <2>0, <2>2 DEF ServerHolds
      <3>2. rec'[n] = rec[n] /\ handled'[n] = handled[n] /\ n \in Launchers
        BY <1>0, <1>2, <1>5, <2>2, <3>1 DEF Consumers, TypeOK
      <3>3. made[t] \subseteq Int
        BY <1>0, ServiceAssumption DEF TypeOK, Responses
      <3>4. Honest(n, made[t]) => Honest(n, made[t])'
        BY <1>0, <1>5, <3>2, <3>3 DEF Honest
      <3> QED
        BY <1>5, <3>1, <3>2, <3>4
    <2>3. ASSUME NEW n \in DOMAIN rec, rec[n].status = "completed" PROVE rec'[n] = rec[n]
      BY <1>0, <1>2, <2>3 DEF TypeOK
    <2> QED
      BY <1>5, <2>0, <2>1, <2>2, <2>3 DEF ServerHolds
  <1>6. Exclusive'
    <2> SUFFICES ASSUME NEW t \in Consumers', NEW u \in Consumers', t # u
                 PROVE  asked'[t] \cap asked'[u] = {}
      BY DEF Exclusive
    <2>1. ASSUME NEW w \in Consumers', w # s PROVE w \in Consumers /\ asked'[w] = asked[w]
      BY <2>1 DEF Consumers
    <2>2. ASSUME NEW w \in Consumers', w # s, s \in Consumers' PROVE asked'[w] \cap asked'[s] = {}
      <3>1. w \in Consumers /\ asked'[w] = asked[w] /\ s \in Servers
        BY <2>1, <2>2 DEF Consumers
      <3>2. CASE s \in Consumers /\ asked'[s] = asked[s]
        BY <1>0, <2>2, <3>1, <3>2 DEF Exclusive
      <3>3. CASE \E n \in DOMAIN rec : asked'[s] = {n} /\ rec[n].status = "issued"
        BY <1>1, <3>1, <3>3
      <3> QED
        BY <2>2, <3>1, <3>2, <3>3
    <2>3. CASE t = s
      BY <2>2, <2>3
    <2>4. CASE u = s
      BY <2>2, <2>4
    <2>5. CASE t # s /\ u # s
      BY <1>0, <2>1, <2>5 DEF Exclusive
    <2> QED
      BY <2>3, <2>4, <2>5
  <1>7. HandledOnce'
    BY <1>0 DEF HandledOnce
  <1> QED
    BY <1>3, <1>4, <1>5, <1>6, <1>7 DEF IInv

(* A request is for the nonce of the child's own capability, or any nonce. *)
LEMMA AskedOwn ==
    ASSUME IInv, NEW s \in Servers, NEW q \in Request, Presented(s, q)
    PROVE  /\ q.nonce \in Launchers
           /\ s \in Launchers => q.nonce = s /\ stage[s] = "serving" /\ answer[s] = {}
           /\ answer[s] = {} /\ s \notin Consumers
  <1>1. phase[s] = "idle" /\ ServerHolds(s)
    BY DEF Presented, IInv
  <1>2. s \in Launchers => ChildHolds(s)
    BY DEF IInv
  <1> QED
    BY <1>1, <1>2 DEF Presented, ServerHolds, ChildHolds, Consumers, Request

LEMMA ConsumeInv ==
    ASSUME IInv, NEW s \in Servers, NEW q \in Request, Consume(s, q)
    PROVE  IInv'
  <1> DEFINE n == q.nonce
  <1>0. /\ TypeOK /\ n \in DOMAIN rec /\ n \in Launchers /\ rec[n].status = "issued"
        /\ Presented(s, q) /\ RecordHolds(n) /\ ServerHolds(s) /\ rec[n] \in Record
    BY AskedOwn DEF Consume, Honoured, Fresh, IInv, TypeOK
  <1>1. /\ rec' = [rec EXCEPT ![n] = [@ EXCEPT !.status = "consumed"]]
        /\ gen' = gen \/ gen' = [gen EXCEPT ![s] = run]
        /\ asked' = [asked EXCEPT ![s] = {n}] /\ phase' = [phase EXCEPT ![s] = "handling"]
        /\ stage' = IF s \in Launchers THEN [stage EXCEPT ![s] = "dispatching"] ELSE stage
        /\ UNCHANGED <<run, key, args, known, verdict, child, cap, expired, made, late, handled, answer, crashes>>
    BY DEF Consume, Enter, ticket
  <1>2. [rec[n] EXCEPT !.status = "consumed"] \in Record
    BY <1>0, RecordType, ServiceAssumption
  <1>3. /\ DOMAIN rec' = DOMAIN rec /\ rec'[n] = [rec[n] EXCEPT !.status = "consumed"]
        /\ \A m \in DOMAIN rec \ {n} : rec'[m] = rec[m]
    BY <1>0, <1>1
  <1>4. rec'[n].status = "consumed" /\ rec'[n].descriptor = rec[n].descriptor
    BY <1>0, <1>3 DEF Record
  <1>5. TypeOK'
    BY <1>0, <1>1, <1>2, <1>3, ServeType DEF TypeOK
  <1>6. RecordHolds(n)'
    BY <1>0, <1>1, <1>3, <1>4 DEF RecordHolds, TypeOK
  <1>7. ServerHolds(s)'
    <2>1. answer'[s] = {} /\ phase'[s] = "handling" /\ asked'[s] = {n} /\ handled'[n] = 0
      BY <1>0, <1>1, AskedOwn DEF TypeOK, RecordHolds
    <2>2. gen'[s].rev <= run'.rev
      BY <1>0, <1>1 DEF ServerHolds, TypeOK, Run
    <2> QED
      BY <1>0, <1>3, <1>4, <2>1, <2>2 DEF ServerHolds
  <1>8. ASSUME s \in Launchers PROVE ChildHolds(s)' /\ Tidy(s)' /\ stage'[s] = "dispatching"
    <2>1. n = s /\ stage'[s] = "dispatching" /\ ChildHolds(s) /\ verdict[s] # "ok"
      BY <1>0, <1>1, <1>8, AskedOwn DEF TypeOK, ChildHolds, IInv
    <2> QED
      BY <1>0, <1>1, <2>1 DEF ChildHolds, Tidy, TypeOK
  <1>9. /\ \A t \in Servers \ {s} : phase'[t] = phase[t] /\ asked'[t] = asked[t] /\ gen'[t] = gen[t]
                                    /\ made'[t] = made[t] /\ answer'[t] = answer[t]
        /\ \A m \in Launchers \ {s} : stage'[m] = stage[m]
        /\ asked'[s] = {n} /\ run.rev <= run'.rev
        /\ handled'[n] <= 1
    BY <1>0, <1>1 DEF TypeOK, Run, RecordHolds
  <1> QED
    BY <1>0, <1>1, <1>3, <1>5, <1>6, <1>7, <1>8, <1>9, ServeStep

LEMMA ReplayInv ==
    ASSUME IInv, NEW s \in Servers, NEW q \in Request, Replay(s, q)
    PROVE  IInv'
  <1> DEFINE n == q.nonce
  <1>0. /\ TypeOK /\ n \in DOMAIN rec /\ n \in Launchers /\ rec[n].status = "completed"
        /\ Presented(s, q) /\ ServerHolds(s) /\ rec[n] \in Record
    BY AskedOwn DEF Replay, Honoured, IInv, TypeOK
  <1>1. /\ made' = [made EXCEPT ![s] = rec[n].response]
        /\ asked' = [asked EXCEPT ![s] = {n}] /\ phase' = [phase EXCEPT ![s] = "replying"]
        /\ stage' = IF s \in Launchers THEN [stage EXCEPT ![s] = "dispatching"] ELSE stage
        /\ UNCHANGED <<run, key, args, known, verdict, child, cap, rec, expired, gen, late, handled, answer, crashes>>
    BY DEF Replay, Replayed, Enter, ticket, records
  <1>2. rec[n].response \in SUBSET Responses
    BY <1>0 DEF Record
  <1>3. TypeOK'
    BY <1>0, <1>1, <1>2, ServeType DEF TypeOK
  <1>4. ServerHolds(s)'
    <2>1. /\ answer'[s] = {} /\ phase'[s] = "replying" /\ asked'[s] = {n}
          /\ made'[s] = rec[n].response /\ gen'[s].rev <= run'.rev
      BY <1>0, <1>1, AskedOwn DEF TypeOK, ServerHolds
    <2> QED
      BY <1>0, <1>1, <2>1 DEF ServerHolds
  <1>5. ASSUME s \in Launchers PROVE ChildHolds(s)' /\ Tidy(s)' /\ stage'[s] = "dispatching"
    <2>1. n = s /\ stage'[s] = "dispatching" /\ ChildHolds(s) /\ verdict[s] # "ok"
      BY <1>0, <1>1, <1>5, AskedOwn DEF TypeOK, ChildHolds, IInv
    <2> QED
      BY <1>0, <1>1, <2>1 DEF ChildHolds, Tidy, TypeOK
  <1>6. /\ \A t \in Servers \ {s} : phase'[t] = phase[t] /\ asked'[t] = asked[t] /\ gen'[t] = gen[t]
                                    /\ made'[t] = made[t] /\ answer'[t] = answer[t]
        /\ \A m \in Launchers \ {s} : stage'[m] = stage[m]
        /\ s \notin Consumers' /\ run.rev <= run'.rev
    BY <1>0, <1>1 DEF TypeOK, Run, Consumers
  <1> QED
    BY <1>1, <1>3, <1>4, <1>5, <1>6, ServeStep

(* Stopping, or dying, leaves records and answers as they are. *)
LEMMA StopInv ==
    ASSUME IInv, NEW s \in Servers, NEW p \in {"stopped", "dead"},
           phase' = [phase EXCEPT ![s] = p],
           \/ UNCHANGED asked
           \/ /\ answer[s] = {}
              /\ \E n \in Launchers : (s \in Launchers => n = s) /\ asked' = [asked EXCEPT ![s] = {n}],
           \/ s \notin Launchers /\ UNCHANGED stage
           \/ s \in Launchers /\ \E g \in {"waiting", "dead"} : stage' = [stage EXCEPT ![s] = g] /\ stage[s] # "ended",
           crashes' \in 0..MaxCrashes,
           UNCHANGED <<run, key, args, known, verdict, child, cap, rec, expired, gen, made, late, handled, answer>>
    PROVE  IInv'
  <1>0. TypeOK /\ ServerHolds(s)
    BY DEF IInv
  <1>1. TypeOK'
    BY <1>0, ServeType DEF TypeOK
  <1>2. phase'[s] = p
    BY <1>0 DEF TypeOK
  <1>3. ServerHolds(s)'
    BY <1>0, <1>2 DEF ServerHolds, TypeOK
  <1>4. ASSUME s \in Launchers PROVE ChildHolds(s)' /\ Tidy(s)' /\ stage'[s] \in {"waiting", "dead"}
    <2>1. stage'[s] \in {"waiting", "dead"} /\ ChildHolds(s) /\ verdict[s] # "ok"
      BY <1>0, <1>4 DEF TypeOK, ChildHolds, IInv
    <2>2. asked'[s] \subseteq {s}
      BY <1>0, <1>4, <2>1 DEF TypeOK, ChildHolds
    <2> QED
      BY <1>2, <2>1, <2>2 DEF ChildHolds, Tidy
  <1>5. /\ \A t \in Servers \ {s} : phase'[t] = phase[t] /\ asked'[t] = asked[t] /\ gen'[t] = gen[t]
                                    /\ made'[t] = made[t] /\ answer'[t] = answer[t]
        /\ \A m \in Launchers \ {s} : stage'[m] = stage[m]
        /\ s \notin Consumers' /\ run.rev <= run'.rev
    BY <1>0, <1>2 DEF TypeOK, Run, Consumers
  <1> QED
    BY <1>1, <1>3, <1>4, <1>5, ServeStep

LEMMA RefuseInv ==
    ASSUME IInv, NEW s \in Servers, NEW q \in Request, Refuse(s, q)
    PROVE  IInv'
  <1>1. Presented(s, q)
    BY DEF Refuse
  <1>2. crashes' \in 0..MaxCrashes
    BY DEF Refuse, IInv, TypeOK
  <1> QED
    BY <1>1, <1>2, AskedOwn, StopInv DEF Refuse, Enter, ticket, records

LEMMA UnservedInv == ASSUME IInv, NEW l \in Launchers, Unserved(l) PROVE IInv'
  <1>1. crashes' \in 0..MaxCrashes /\ l \in Servers
    BY DEF Unserved, IInv, TypeOK, Servers
  <1> QED
    BY <1>1, StopInv DEF Unserved, ticket, records

LEMMA CrashInv == ASSUME IInv, NEW s \in Servers, Crash(s) PROVE IInv'
  <1>1. crashes' \in 0..MaxCrashes
    BY ServiceAssumption DEF Crash, IInv, TypeOK
  <1> QED
    BY <1>1, StopInv DEF Crash, ticket, records

(* Where a handler leaves the run, and what it answers: a refusal, or a     *)
(* revision between the one it was asked for and the current one.           *)
LEMMA OutcomeHolds ==
    ASSUME TypeOK, NEW s \in Servers, gen[s].rev <= run.rev, NEW q \in Request, NEW o \in Outcomes(s, q)
    PROVE  /\ o.run \in Run /\ run.rev <= o.run.rev
           /\ o.response \in Responses
           /\ o.response # Rejected => q.rev <= o.response /\ o.response <= o.run.rev
  <1>1. /\ run \in Run /\ run.rev \in 1..MaxRev /\ gen[s].rev \in 1..MaxRev /\ MaxRev \in Nat
        /\ q.rev \in Int /\ Rejected \in Responses
    BY ServiceAssumption DEF TypeOK, Run, Request, Rejected, Responses
  <1>2. ASSUME NEW r \in {run} \cup After(run), NEW x \in Returned(r), gen[s].rev = q.rev
        PROVE  /\ x.run \in Run /\ run.rev <= x.run.rev /\ x.response \in Responses
               /\ x.response # Rejected => q.rev <= x.response /\ x.response <= x.run.rev
    <2>1. r \in Run /\ r.rev \in 1..MaxRev /\ run.rev <= r.rev
      BY <1>1 DEF After, Run
    <2>2. x.run = r /\ x.response \in {r.rev, Rejected}
      BY DEF Returned
    <2> QED
      BY <1>1, <1>2, <2>1, <2>2 DEF Responses
  <1>3. ASSUME o \in Raises PROVE o.run = run /\ o.response = Rejected
    BY <1>3 DEF Raises
  <1>4. CASE q.rev # gen[s].rev
    BY <1>1, <1>3, <1>4 DEF Outcomes
  <1>5. CASE q.rev = gen[s].rev /\ o \in Finalize(gen[s])
    <2>1. CASE gen[s].mode = "review"
      <3>1. o.run = run /\ o.response = gen[s].rev
        BY <1>5, <2>1 DEF Finalize
      <3> QED
        BY <1>1, <1>5, <3>1 DEF Responses
    <2>2. CASE gen[s].mode # "review"
      <3>1. o \in Raises \/ \E r \in {run} \cup After(run) : o \in Returned(r)
        BY <1>5, <2>2 DEF Finalize
      <3> QED
        BY <1>1, <1>2, <1>3, <1>5, <3>1
    <2> QED
      BY <2>1, <2>2
  <1>6. CASE q.rev = gen[s].rev /\ o \in Receipt(gen[s])
    <2>1. o \in Raises \/ \E r \in {run} \cup After(run) : o \in Returned(r)
      BY <1>6 DEF Receipt
    <2> QED
      BY <1>1, <1>2, <1>3, <1>6, <2>1
  <1> QED
    BY <1>4, <1>5, <1>6 DEF Outcomes

LEMMA HandleInv == ASSUME IInv, NEW s \in Servers, Handle(s) PROVE IInv'
  <1>0. TypeOK /\ ServerHolds(s) /\ phase[s] = "handling"
    BY DEF IInv, Handle
  <1>1. PICK n \in DOMAIN rec : asked[s] = {n} /\ rec[n].status = "consumed" /\ handled[n] = 0
    BY <1>0 DEF ServerHolds
  <1>2. n \in Launchers /\ RecordHolds(n) /\ rec[n] \in Record
    BY <1>0 DEF TypeOK, IInv
  <1>3. rec[n].descriptor.request \in Request /\ rec[n].descriptor.request.rev = args[n].rev
    BY <1>2 DEF Record, Descriptor, RecordHolds
  <1>4. /\ phase' = [phase EXCEPT ![s] = "storing"]
        /\ UNCHANGED <<key, args, stage, known, verdict, child, cap, rec, expired, asked, gen, answer, crashes>>
    BY DEF Handle, Caught, launcher, ticket, records
  <1>5. \E m \in Responses :
          /\ made' = [made EXCEPT ![s] = {m}]
          /\ run' \in Run /\ run.rev <= run'.rev
          /\ late' \in {late, late \cup {s}}
          /\ handled' \in [Launchers -> Nat]
          /\ \A k \in Launchers \ {n} : handled'[k] = handled[k]
          /\ handled'[n] \in {0, 1}
          /\ m # Rejected => handled'[n] = 1 /\ args[n].rev <= m /\ m <= run'.rev
    <2>0. Rejected \in Responses /\ run \in Run /\ run.rev <= run.rev
      BY <1>0, ServiceAssumption DEF Rejected, Responses, TypeOK, Run
    <2>1. CASE s \in late
      <3>1. made' = [made EXCEPT ![s] = {Rejected}] /\ UNCHANGED <<run, late, handled>>
        BY <1>1, <2>1 DEF Handle
      <3> QED
        BY <1>0, <1>1, <2>0, <3>1 DEF TypeOK
    <2>2. CASE s \notin late
      <3>1. handled' = [handled EXCEPT ![n] = @ + 1]
        BY <1>1, <2>2 DEF Handle
      <3>2. PICK o \in Outcomes(s, rec[n].descriptor.request), intime \in BOOLEAN :
                 /\ run' = o.run
                 /\ made' = [made EXCEPT ![s] = {IF intime THEN o.response ELSE Rejected}]
                 /\ late' = IF intime THEN late ELSE late \cup {s}
        BY <1>1, <2>2 DEF Handle
      <3>3. /\ o.run \in Run /\ run.rev <= o.run.rev
            /\ o.response \in Responses
            /\ o.response # Rejected => args[n].rev <= o.response /\ o.response <= o.run.rev
        BY <1>0, <1>3, OutcomeHolds DEF ServerHolds
      <3>4. /\ handled' \in [Launchers -> Nat] /\ handled'[n] = 1
            /\ \A k \in Launchers \ {n} : handled'[k] = handled[k]
        BY <1>0, <1>1, <1>2, <3>1 DEF TypeOK
      <3>5. CASE intime
        BY <3>2, <3>3, <3>4, <3>5
      <3>6. CASE ~intime
        BY <2>0, <3>2, <3>3, <3>4, <3>6
      <3> QED
        BY <3>5, <3>6
    <2> QED
      BY <2>1, <2>2
  <1>6. PICK m \in Responses :
          /\ made' = [made EXCEPT ![s] = {m}]
          /\ run' \in Run /\ run.rev <= run'.rev
          /\ late' \in {late, late \cup {s}}
          /\ handled' \in [Launchers -> Nat]
          /\ \A k \in Launchers \ {n} : handled'[k] = handled[k]
          /\ handled'[n] \in {0, 1}
          /\ m # Rejected => handled'[n] = 1 /\ args[n].rev <= m /\ m <= run'.rev
    BY <1>5
  <1>7. TypeOK'
    <2>1. crashes' \in 0..MaxCrashes /\ {m} \in SUBSET Responses
      BY <1>0, <1>4 DEF TypeOK
    <2>2. \A k \in DOMAIN rec : rec'[k] \in Record
      BY <1>0, <1>4 DEF TypeOK
    <2> QED
      BY <1>0, <1>4, <1>6, <2>1, <2>2, ServeType
  <1>8. ServerHolds(s)'
    <2>1. phase'[s] = "storing" /\ made'[s] = {m} /\ answer[s] = {}
      BY <1>0, <1>4, <1>6 DEF TypeOK, ServerHolds
    <2>2. Honest(n, made[s])'
      BY <1>4, <1>6, <2>1 DEF Honest
    <2>3. gen[s].rev <= run'.rev
      BY <1>0, <1>6 DEF ServerHolds, TypeOK, Run
    <2> QED
      BY <1>1, <1>4, <2>1, <2>2, <2>3 DEF ServerHolds
  <1>9. RecordHolds(n)'
    BY <1>1, <1>2, <1>4 DEF RecordHolds
  <1>10. ASSUME s \in Launchers PROVE ChildHolds(s)' /\ Tidy(s)'
    <2>1. ChildHolds(s) /\ Tidy(s) /\ stage[s] = "dispatching"
      BY <1>0, <1>10 DEF IInv, ChildHolds
    <2> QED
      BY <1>4, <2>1 DEF ChildHolds, Tidy
  <1>11. /\ \A t \in Servers \ {s} : phase'[t] = phase[t] /\ made'[t] = made[t]
         /\ s \in Consumers /\ handled'[n] <= 1
    BY <1>0, <1>4, <1>6 DEF TypeOK, Consumers
  <1> QED
    BY <1>1, <1>4, <1>6, <1>7, <1>8, <1>9, <1>10, <1>11, ServeStep

LEMMA SettleInv == ASSUME IInv, NEW s \in Servers, Settle(s) PROVE IInv'
  <1>0. TypeOK /\ ServerHolds(s) /\ phase[s] = "storing"
    BY DEF IInv, Settle
  <1>1. PICK n \in DOMAIN rec :
          /\ asked[s] = {n} /\ rec[n].status = "consumed" /\ Honest(n, made[s])
          /\ \E r \in Responses : made[s] = {r}
    BY <1>0 DEF ServerHolds
  <1>2. n \in Launchers /\ RecordHolds(n) /\ rec[n] \in Record
    BY <1>0 DEF TypeOK, IInv
  <1>3. /\ DOMAIN rec' = DOMAIN rec /\ rec'[n] = Completed(rec[n], made[s])
        /\ \A k \in DOMAIN rec \ {n} : rec'[k] = rec[k]
    BY <1>1 DEF Settle
  <1>4. /\ rec'[n].status = "completed" /\ rec'[n].response = made[s]
        /\ rec'[n].descriptor = rec[n].descriptor
    BY <1>2, <1>3 DEF Completed, Record
  <1>5. /\ phase' = [phase EXCEPT ![s] = "replying"]
        /\ UNCHANGED <<run, key, args, stage, known, verdict, child, cap, expired, asked, gen, made, late, handled,
                       answer, crashes>>
    BY DEF Settle, launcher, ticket
  <1>6. \A k \in DOMAIN rec : rec'[k] \in Record
    <2>1. Completed(rec[n], made[s]) \in Record
      BY <1>1, <1>2, RecordType, ServiceAssumption
    <2> QED
      BY <1>0, <1>3, <2>1 DEF TypeOK
  <1>7. TypeOK'
    BY <1>0, <1>3, <1>5, <1>6, ServeType DEF TypeOK
  <1>8. ServerHolds(s)'
    <2>1. phase'[s] = "replying" /\ answer[s] = {}
      BY <1>0, <1>5 DEF TypeOK, ServerHolds
    <2> QED
      BY <1>0, <1>1, <1>3, <1>4, <1>5, <2>1 DEF ServerHolds
  <1>9. RecordHolds(n)' /\ handled'[n] <= 1
    BY <1>1, <1>2, <1>3, <1>4, <1>5 DEF RecordHolds, Honest, IInv, HandledOnce
  <1>10. ASSUME s \in Launchers PROVE ChildHolds(s)' /\ Tidy(s)'
    <2>1. ChildHolds(s) /\ Tidy(s) /\ stage[s] = "dispatching"
      BY <1>0, <1>10 DEF IInv, ChildHolds
    <2> QED
      BY <1>5, <2>1 DEF ChildHolds, Tidy
  <1>11. /\ \A t \in Servers \ {s} : phase'[t] = phase[t]
         /\ s \in Consumers /\ s \notin Consumers'
         /\ run.rev <= run'.rev
    BY <1>0, <1>5 DEF TypeOK, Consumers, Run
  <1> QED
    BY <1>1, <1>3, <1>5, <1>7, <1>8, <1>9, <1>10, <1>11, ServeStep

LEMMA ReplyInv == ASSUME IInv, NEW s \in Servers, Reply(s) PROVE IInv'
  <1>0. TypeOK /\ ServerHolds(s) /\ phase[s] = "replying"
    BY DEF IInv, Reply
  <1>1. PICK n \in DOMAIN rec :
          asked[s] = {n} /\ rec[n].status = "completed" /\ rec[n].response = made[s]
    BY <1>0 DEF ServerHolds
  <1>2. /\ phase' = [phase EXCEPT ![s] = "stopped"]
        /\ answer' = IF Heard(s) THEN [answer EXCEPT ![s] = made[s]] ELSE answer
        /\ stage' = IF s \in Launchers
                    THEN [stage EXCEPT ![s] = IF Heard(s) THEN "waiting" ELSE "aborting"] ELSE stage
        /\ UNCHANGED <<run, key, args, known, verdict, child, cap, rec, expired, asked, gen, made, late, handled,
                       crashes>>
    BY DEF Reply, ticket, records
  <1>3. TypeOK'
    <2>1. \/ UNCHANGED stage
          \/ \E g \in {"dispatching", "waiting", "aborting", "dead"} : stage' = [stage EXCEPT ![s] = g]
      BY <1>2
    <2>2. UNCHANGED answer \/ answer' = [answer EXCEPT ![s] = made[s]]
      BY <1>2
    <2> QED
      BY <1>0, <1>2, <2>1, <2>2, ServeType DEF TypeOK
  <1>4. phase'[s] = "stopped" /\ answer'[s] \in {answer[s], made[s]}
    BY <1>0, <1>2 DEF TypeOK
  <1>5. ServerHolds(s)'
    BY <1>0, <1>1, <1>2, <1>4 DEF ServerHolds
  <1>6. ASSUME s \in Launchers PROVE ChildHolds(s)' /\ Tidy(s)' /\ stage'[s] \in {"waiting", "aborting"}
    <2>1. /\ stage'[s] \in {"waiting", "aborting"} /\ ChildHolds(s)
          /\ stage[s] # "ended"
      BY <1>0, <1>2, <1>6 DEF TypeOK, IInv, ChildHolds
    <2>2. child[s] = "succeeded" => answer'[s] = answer[s]
      BY <1>2, <1>6 DEF Heard
    <2> QED
      BY <1>2, <1>4, <2>1, <2>2 DEF ChildHolds, Tidy
  <1>7. /\ \A t \in Servers \ {s} : phase'[t] = phase[t] /\ answer'[t] = answer[t]
        /\ \A m \in Launchers \ {s} : stage'[m] = stage[m]
        /\ s \notin Consumers' /\ run.rev <= run'.rev
    BY <1>0, <1>2 DEF TypeOK, Run, Consumers
  <1> QED
    BY <1>2, <1>3, <1>5, <1>6, <1>7, ServeStep

(* The deadline, the expiry of a descriptor and commits of others.         *)
LEMMA TimeInv ==
    ASSUME IInv, TypeOK', run.rev <= run'.rev,
           UNCHANGED <<launcher, ticket, rec, phase, asked, gen, made, handled, answer>>
    PROVE  IInv'
  <1> DEFINE s == CHOOSE s : s \notin Servers
  <1>0. UNCHANGED <<args, stage, known, verdict, child, cap>>
    BY DEF launcher, ticket
  <1>1. s \notin Servers
    BY NoSetContainsEverything
  <1>2. s \notin Launchers
    BY <1>1 DEF Servers
  <1> HIDE DEF s
  <1> QED
    BY <1>0, <1>1, <1>2, ServeStep

LEMMA ElapseInv == ASSUME IInv, NEW s \in Servers, Elapse(s) PROVE IInv'
  <1>0. UNCHANGED <<run, launcher, ticket, records, phase, asked, gen, made, handled, answer, crashes>>
    BY DEF Elapse
  <1>1. TypeOK'
    BY <1>0 DEF Elapse, IInv, TypeOK, launcher, ticket, records
  <1> QED
    BY <1>0, <1>1, TimeInv DEF IInv, TypeOK, Run, records

LEMMA ExpireInv == ASSUME IInv, NEW n \in Launchers, Expire(n) PROVE IInv'
  <1>0. UNCHANGED <<run, launcher, ticket, rec, service, answer, crashes>>
    BY DEF Expire
  <1>1. TypeOK'
    BY <1>0 DEF Expire, IInv, TypeOK, launcher, ticket, service
  <1> QED
    BY <1>0, <1>1, TimeInv DEF IInv, TypeOK, Run, service

LEMMA ElsewhereInv == ASSUME IInv, Elsewhere PROVE IInv'
  <1>0. UNCHANGED <<launcher, ticket, records, service, answer, crashes>> /\ run' \in Run /\ run'.rev > run.rev
    BY DEF Elsewhere, After
  <1>1. TypeOK'
    BY <1>0 DEF IInv, TypeOK, launcher, ticket, records, service
  <1> QED
    BY <1>0, <1>1, TimeInv DEF IInv, TypeOK, Run, records, service

(* A new record is for a nonce no server has been asked for with success.  *)
LEMMA IssueInv == ASSUME IInv, NEW l \in Launchers, Issue(l) PROVE IInv'
  <1> DEFINE new == [status |-> "issued", descriptor |-> Sealed(l).descriptor, response |-> {}]
  <1>0. /\ TypeOK /\ RecordHolds(l) /\ ChildHolds(l) /\ l \notin DOMAIN rec /\ l \in Servers
        /\ Exclusive /\ HandledOnce /\ stage[l] = "prepared" /\ Real(l)
    BY DEF IInv, Issue, RecordHolds, Servers
  <1>1. /\ rec' = With(rec, l, new) /\ gen' = [gen EXCEPT ![l] = run]
        /\ stage' = [stage EXCEPT ![l] = "issued"]
        /\ UNCHANGED <<run, key, args, known, verdict, child, cap, expired, phase, asked, made,
                 late, handled, answer, crashes>>
    BY DEF Issue, ticket
  <1>2. /\ DOMAIN rec' = DOMAIN rec \cup {l} /\ rec'[l] = new
        /\ \A n \in DOMAIN rec : rec'[n] = rec[n]
    <2>1. /\ DOMAIN With(rec, l, new) = DOMAIN rec \cup {l}
          /\ \A z \in DOMAIN rec : With(rec, l, new)[z] = rec[z]
          /\ l \notin DOMAIN rec => With(rec, l, new)[l] = new
      <3> HIDE DEF new
      <3> QED
        BY AddEntry
    <2> QED
      BY <1>0, <1>1, <2>1
  <1>3. new \in Record /\ new.descriptor.request.rev = args[l].rev /\ new.status = "issued"
    <2>1. new.descriptor \in Descriptor /\ new.descriptor.request.rev = args[l].rev
      BY <1>0, SealedType DEF Capability
    <2>2. Cardinality({}) = 0
      BY FS_EmptySet
    <2>3. new \in [status : {"issued", "consumed", "completed"},
                   descriptor : Descriptor, response : SUBSET Responses]
      BY <2>1
    <2> QED
      BY <2>1, <2>2, <2>3 DEF Record
  <1> HIDE DEF new
  <1>4. TypeOK'
    <2>1. DOMAIN rec' \subseteq Launchers /\ (\A n \in DOMAIN rec' : rec'[n] \in Record) /\ expired' \subseteq DOMAIN rec'
      BY <1>0, <1>1, <1>2, <1>3 DEF TypeOK
    <2>2. /\ gen' \in [Servers -> Run]
          /\ stage' \in [Launchers -> {"start", "ready", "prepared", "issued", "serving",
                              "dispatching", "waiting", "aborting", "ended", "dead"}]
      BY <1>0, <1>1 DEF TypeOK
    <2> QED
      BY <1>0, <1>1, <2>1, <2>2 DEF TypeOK
  <1>5. stage'[l] = "issued" /\ gen'[l] = run /\ \A t \in Servers \ {l} : gen'[t] = gen[t]
    BY <1>0, <1>1 DEF TypeOK
  <1>6. ASSUME NEW n \in Launchers PROVE RecordHolds(n)' /\ ChildHolds(n)' /\ Real(n)' /\ Tidy(n)'
    <2>0. RecordHolds(n) /\ ChildHolds(n) /\ Real(n) /\ Tidy(n)
      BY DEF IInv
    <2>1. CASE n = l
      <3>1. RecordHolds(l)'
        BY <1>0, <1>1, <1>2, <1>3, <1>5 DEF RecordHolds
      <3>2. ChildHolds(l)' /\ Tidy(l)' /\ Real(l)'
        BY <1>0, <1>1, <1>5 DEF ChildHolds, Tidy, Real
      <3> QED
        BY <2>1, <3>1, <3>2
    <2>2. CASE n # l
      <3>0. stage'[n] = stage[n] /\ (n \in DOMAIN rec' <=> n \in DOMAIN rec)
        BY <1>0, <1>1, <1>2, <2>2 DEF TypeOK
      <3>1. RecordHolds(n)'
        BY <1>1, <1>2, <2>0, <3>0 DEF RecordHolds, Honest
      <3>2. ChildHolds(n)' /\ Tidy(n)'
        BY <1>1, <2>0, <3>0 DEF ChildHolds, Tidy
      <3>3. Real(n)'
        BY <1>1, <1>2, <2>0, <3>0 DEF Real, RecordHolds
      <3> QED
        BY <3>1, <3>2, <3>3
    <2> QED
      BY <2>1, <2>2
  <1>7. ASSUME NEW s \in Servers PROVE ServerHolds(s)'
    <2>1. gen'[s].rev <= run'.rev
      BY <1>0, <1>1, <1>5 DEF IInv, ServerHolds, TypeOK, Run
    <2> QED
      BY <1>1, <1>2, <2>1 DEF IInv, ServerHolds, Honest
  <1>8. Exclusive' /\ HandledOnce'
    BY <1>0, <1>1 DEF Exclusive, Consumers, HandledOnce
  <1> QED
    BY <1>4, <1>6, <1>7, <1>8 DEF IInv

-----------------------------------------------------------------------------
(* Theorems *)

LEMMA StepInv == IInv /\ [Next]_vars => IInv'
  <1> SUFFICES ASSUME IInv, [Next]_vars PROVE IInv'
    OBVIOUS
  <1>1. ASSUME NEW l \in Launchers, Launch(l) PROVE IInv'
    BY <1>1, BootstrapInv, PrepareInv, PrepareUnreadInv, PrepareRefusedInv, IssueInv, IssueRefusedInv,
       TransferInv, TransferRefusedInv, UnservedInv, ReapedInv, WaitFailsInv, AbortInv DEF Launch
  <1>2. ASSUME NEW l \in Launchers, Ticket(l) \/ Expire(l) PROVE IInv'
    BY <1>2, TicketInv, ExpireInv
  <1>3. ASSUME NEW s \in Servers, Take(s) PROVE IInv'
    BY <1>3, ConsumeInv, ReplayInv, RefuseInv DEF Take
  <1>4. ASSUME NEW s \in Servers, Serve(s) \/ Elapse(s) \/ Crash(s) PROVE IInv'
    BY <1>4, HandleInv, SettleInv, ReplyInv, ElapseInv, CrashInv DEF Serve
  <1>5. CASE UNCHANGED vars
    <2>1. run.rev <= run'.rev /\ TypeOK'
      BY <1>5 DEF vars, launcher, ticket, records, service, IInv, TypeOK, Run
    <2> QED
      BY <1>5, <2>1, TimeInv DEF vars, records, service
  <1> QED
    BY <1>1, <1>2, <1>3, <1>4, <1>5, ElsewhereInv DEF Next

LEMMA Inductive == Spec => []IInv
  BY InitInv, StepInv, PTL DEF Spec

(* What the service answers is the truth, once: the handler behind a nonce *)
(* is called at most once, whoever is answered hears the one response on   *)
(* record, and exit status 0 means that its revision was committed         *)
(* (finalization_service.py, dispatch; launcher_finalization.py).          *)
THEOREM AnswersAreTrue == Spec => []AnswersHold
  <1>1. ASSUME IInv PROVE AnswersHold
    <2>1. ASSUME NEW s \in Servers, NEW n \in asked[s], answer[s] # {}
          PROVE  rec[n].status = "completed" /\ rec[n].response = answer[s]
      BY <1>1, <2>1 DEF IInv, ServerHolds
    <2> QED
      BY <1>1, <2>1 DEF IInv, Real, AnswersHold, AnswersAgree, SuccessIsReal
  <1> QED
    BY <1>1, Inductive, PTL

(* A launcher that learnt its child's identifier and lived ends with the   *)
(* child reaped, or reports that the cleanup failed                        *)
(* (launcher_finalization.py, serve_ticket_process).                       *)
THEOREM NoChildIsLeft == Spec => []NoChildLeft
  <1>1. ASSUME IInv PROVE NoChildLeft
    BY <1>1 DEF IInv, Tidy, NoChildLeft, TypeOK
  <1> QED
    BY <1>1, Inductive, PTL
=============================================================================
