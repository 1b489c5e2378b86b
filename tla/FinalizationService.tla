------------------------ MODULE FinalizationService ------------------------
(***************************************************************************)
(* Finalization by one-use capabilities.  `auto-code-launcher finalize` or *)
(* `receipt` has the sandbox daemon prepare a child, issues a capability   *)
(* for one generation of the run under a fresh nonce, hands the child its  *)
(* descriptors, serves one request over a socket, and reports the child's  *)
(* exit status.  The child is the ticket command: it sends the request and *)
(* believes the signed response.                                           *)
(*                                                                         *)
(* A nonce is named by the launcher that issued it.  The finalizer behind  *)
(* the handlers is the module Finalizer; here a handler moves the run, or  *)
(* not, and returns or raises.  The sandbox daemon is outside src: any     *)
(* exchange with it may be lost before or after it took effect, and its    *)
(* evidence may be refused.                                                *)
(***************************************************************************)
EXTENDS Naturals, FiniteSets

CONSTANTS
  Launchers,   \* runs of the launcher command, all for one run
  Restarted,   \* services of later launchers over the same records
  Keys,        \* finalization signing keys
  RunKey,      \* the key the run was provisioned with
  MaxRev,      \* bound: the last revision of the run
  MaxCrashes   \* bound: launcher processes that die

ASSUME ServiceAssumption ==
  /\ Launchers \cap Restarted = {}
  /\ RunKey \in Keys
  /\ MaxRev \in Nat \ {0}
  /\ MaxCrashes \in Nat

VARIABLES
  run,      \* the current generation of the run
  key,      \* key[l]: the signing key the bootstrap gave launcher l
  args,     \* args[l]: operation and expected revision on the command line
  stage,    \* stage[l]: how far serve_ticket_process has come
  child,    \* child[l]: the ticket process, as the sandbox daemon sees it
  known,    \* launchers that learnt their child's identifier
  cap,      \* cap[l]: the capability handed to the child of l
  verdict,  \* verdict[l]: what serve_ticket_process returned or raised
  rec,      \* rec[n]: the durable record of an issued nonce n
  expired,  \* nonces whose descriptor has expired
  phase,    \* phase[s]: where server s is in dispatch
  asked,    \* asked[s]: the nonce server s dispatches or dispatched
  gen,      \* gen[s]: the generation the handlers of s are bound to
  made,     \* made[s]: the response s has built
  late,     \* servers whose IPC deadline has elapsed
  answer,   \* answer[s]: what the client of s received
  handled,  \* handled[n]: handler calls made for nonce n (history)
  crashes   \* launcher processes that died (history)

launcher == <<key, args, stage, known, verdict>>
ticket   == <<child, cap>>
records  == <<rec, expired>>
service  == <<phase, asked, gen, made, late, handled>>
vars == <<run, launcher, ticket, records, service, answer, crashes>>

Servers == Launchers \cup Restarted
Ops == {"finalize", "receipt"}

(* Generations; `live` says that the Active Run Index still names the run. *)
Modes == {"active", "waiting", "review", "done"}
Run == {r \in [rev : 1..MaxRev, mode : Modes, live : BOOLEAN] :
          r.live \/ r.mode = "done"}

(* A response is the revision of its step result, or the signed error. *)
Rejected  == 0
Responses == 0..MaxRev

(* A request names its generation and nonce; the descriptor signs it. *)
Request    == [op : Ops, rev : 1..MaxRev, nonce : Launchers]
Descriptor == [request : Request, key : Keys]

(* The three sealed descriptors: capability, trust material and binding. *)
Trust      == [key : Keys, descriptor : Descriptor]
Binding    == [rev : 1..MaxRev, key : Keys, descriptor : Descriptor, trust : Trust]
Capability == [descriptor : Descriptor, trust : Trust, binding : Binding]

(* A response is stored exactly when the nonce is completed. *)
Record ==
  {r \in [status : {"issued", "consumed", "completed"},
          descriptor : Descriptor, response : SUBSET Responses] :
     Cardinality(r.response) = IF r.status = "completed" THEN 1 ELSE 0}

(* The bootstrap envelope signs the keys and the hashes of the payloads.   *)
Envelope == [signed : BOOLEAN, payloads : BOOLEAN, transport : BOOLEAN,
             key : Keys, parent : Keys]

ChildStates == {"none", "prepared", "running", "asking", "succeeded", "failed",
                "killed", "reaped"}
Alive  == {"prepared", "running", "asking"}
Exited == {"succeeded", "failed", "killed"}

TypeOK ==
  /\ run \in Run
  /\ key \in [Launchers -> Keys]
  /\ args \in [Launchers -> [op : Ops, rev : 1..MaxRev]]
  /\ stage \in [Launchers -> {"start", "ready", "prepared", "issued", "serving",
                              "dispatching", "waiting", "aborting", "ended", "dead"}]
  /\ child \in [Launchers -> ChildStates]
  /\ known \subseteq Launchers
  /\ DOMAIN cap \subseteq Launchers /\ \A l \in DOMAIN cap : cap[l] \in Capability
  /\ verdict \in [Launchers -> {"none", "ok", "refused", "failed", "cleanup_failed"}]
  /\ DOMAIN rec \subseteq Launchers /\ \A n \in DOMAIN rec : rec[n] \in Record
  /\ expired \subseteq DOMAIN rec
  /\ phase \in [Servers -> {"idle", "handling", "storing", "replying", "stopped", "dead"}]
  /\ asked \in [Servers -> SUBSET Launchers]
  /\ gen \in [Servers -> Run]
  /\ made \in [Servers -> SUBSET Responses]
  /\ late \subseteq Servers
  /\ answer \in [Servers -> SUBSET Responses]
  /\ handled \in [Launchers -> Nat]
  /\ crashes \in 0..MaxCrashes

-----------------------------------------------------------------------------
(* Data. *)

(* The finalizer, a receipt or an operator appends generations to the run. *)
After(r) ==
  {q \in Run : /\ q.rev > r.rev
               /\ r.mode = "done" => q.mode = "done"
               /\ q.live => r.live}

(* The protected descriptors must be bound to the signed envelope, and the *)
(* signing key to the parent capability that vouches for it.               *)
Admitted(e) == e.signed /\ e.payloads /\ e.transport /\ e.key = e.parent

RequestOf(l) == [op |-> args[l].op, rev |-> args[l].rev, nonce |-> l]
Sealed(l) ==
  LET descriptor == [request |-> RequestOf(l), key |-> key[l]]
      trust == [key |-> key[l], descriptor |-> descriptor]
  IN [descriptor |-> descriptor, trust |-> trust,
      binding |-> [rev |-> args[l].rev, key |-> key[l],
                   descriptor |-> descriptor, trust |-> trust]]

(* What the ticket command checks before it trusts its three descriptors.  *)
Bound(c) ==
  /\ c.binding.descriptor = c.descriptor /\ c.binding.trust = c.trust
  /\ c.binding.rev = c.descriptor.request.rev
  /\ c.binding.key = c.trust.key /\ c.trust.key = c.descriptor.key
  /\ c.trust.descriptor = c.descriptor

(* A function with one more entry; an entry that is there stays. *)
With(f, x, y) == [z \in DOMAIN f \cup {x} |-> IF z \in DOMAIN f THEN f[z] ELSE y]

ServerKey(s) == IF s \in Launchers THEN key[s] ELSE RunKey

(* Kill, then wait: both are tried, and either reply may fail to arrive.   *)
KilledOnly(c) ==
  {[child |-> IF c \in Alive THEN "killed" ELSE c, failed |-> FALSE]}
Cleaned(c) ==
  {[child |-> "reaped", failed |-> FALSE]} \cup
  [child : {c, "reaped"} \cup IF c \in Alive THEN {"killed"} ELSE {}, failed : {TRUE}]

Refusal(failed) == IF failed THEN "cleanup_failed" ELSE "failed"
-----------------------------------------------------------------------------
(* serve_ticket_process up to the transfer. *)

Bootstrap(l) ==
  /\ stage[l] = "start"
  /\ \E e \in Envelope, op \in Ops, rev \in 1..run.rev :
       IF Admitted(e)
       THEN /\ stage' = [stage EXCEPT ![l] = "ready"]
            /\ key' = [key EXCEPT ![l] = e.key]
            /\ args' = [args EXCEPT ![l] = [op |-> op, rev |-> rev]]
            /\ UNCHANGED verdict
       ELSE /\ stage' = [stage EXCEPT ![l] = "ended"]
            /\ verdict' = [verdict EXCEPT ![l] = "failed"]
            /\ UNCHANGED <<key, args>>
  /\ UNCHANGED <<run, known, ticket, records, service, answer, crashes>>

(* The daemon forks a child without descriptors and proves it. *)
Prepare(l) ==
  /\ stage[l] = "ready"
  /\ child' = [child EXCEPT ![l] = "prepared"]
  /\ known' = known \cup {l}
  /\ stage' = [stage EXCEPT ![l] = "prepared"]
  /\ UNCHANGED <<run, key, args, verdict, cap, records, service, answer, crashes>>

(* No child, or one whose identifier never reached the launcher. *)
PrepareUnread(l) ==
  /\ stage[l] = "ready"
  /\ \E c \in {"none", "prepared"} : child' = [child EXCEPT ![l] = c]
  /\ stage' = [stage EXCEPT ![l] = "ended"]
  /\ verdict' = [verdict EXCEPT ![l] = "failed"]
  /\ UNCHANGED <<run, key, args, known, cap, records, service, answer, crashes>>

(* Evidence that names the child and proves nothing. *)
PrepareRefused(l) ==
  /\ stage[l] = "ready"
  /\ \E x \in Cleaned("prepared") :
       /\ child' = [child EXCEPT ![l] = x.child]
       /\ verdict' = [verdict EXCEPT ![l] = Refusal(x.failed)]
  /\ known' = known \cup {l}
  /\ stage' = [stage EXCEPT ![l] = "ended"]
  /\ UNCHANGED <<run, key, args, cap, records, service, answer, crashes>>

(* The capability is issued for exactly the generation the command named. *)
Current(l) == run.rev = args[l].rev /\ run.live /\ key[l] = RunKey

Issue(l) ==
  /\ stage[l] = "prepared"
  /\ Current(l)
  /\ rec' = With(rec, l, [status |-> "issued", descriptor |-> Sealed(l).descriptor,
                          response |-> {}])
  /\ gen' = [gen EXCEPT ![l] = run]
  /\ stage' = [stage EXCEPT ![l] = "issued"]
  /\ UNCHANGED <<run, key, args, known, verdict, ticket, expired, phase, asked, made,
                 late, handled, answer, crashes>>

IssueRefused(l) ==
  /\ stage[l] = "prepared"
  /\ ~Current(l)
  /\ stage' = [stage EXCEPT ![l] = "aborting"]
  /\ UNCHANGED <<run, key, args, known, verdict, ticket, records, service, answer, crashes>>

(* The descriptors go out with the request for the second evidence. *)
Transfer(l) ==
  /\ stage[l] = "issued"
  /\ child' = [child EXCEPT ![l] = "running"]
  /\ cap' = With(cap, l, Sealed(l))
  /\ stage' = [stage EXCEPT ![l] = "serving"]
  /\ UNCHANGED <<run, key, args, known, verdict, records, service, answer, crashes>>

TransferRefused(l) ==
  /\ stage[l] = "issued"
  /\ \E c \in {"prepared", "running"} :
       /\ \E x \in Cleaned(c) : child' = [child EXCEPT ![l] = x.child]
       /\ cap' = IF c = "running" THEN With(cap, l, Sealed(l)) ELSE cap
  /\ stage' = [stage EXCEPT ![l] = "aborting"]
  /\ UNCHANGED <<run, key, args, known, verdict, records, service, answer, crashes>>
-----------------------------------------------------------------------------
(* The ticket command. *)

Ask(l) ==
  /\ child[l] = "running" /\ l \in DOMAIN cap
  /\ Bound(cap[l]) /\ l \notin expired
  /\ stage[l] \notin {"ended", "dead"}
  /\ child' = [child EXCEPT ![l] = "asking"]
  /\ UNCHANGED <<run, launcher, cap, records, service, answer, crashes>>

(* It exits 0 exactly when the signed response carries a result. *)
Believe(l) ==
  /\ child[l] = "asking" /\ answer[l] # {}
  /\ child' = [child EXCEPT ![l] = IF answer[l] = {Rejected} THEN "failed" ELSE "succeeded"]
  /\ UNCHANGED <<run, launcher, cap, records, service, answer, crashes>>

(* A capability it refuses, its own deadline, a closed connection, a crash. *)
GiveUp(l) ==
  /\ child[l] \in {"running", "asking"}
  /\ child' = [child EXCEPT ![l] = "failed"]
  /\ UNCHANGED <<run, launcher, cap, records, service, answer, crashes>>
-----------------------------------------------------------------------------
(* serve_once and dispatch. *)

(* Server s has request q before it: from its child, or handed to it again. *)
Presented(s, q) ==
  /\ phase[s] = "idle"
  /\ IF s \in Launchers
     THEN stage[s] = "serving" /\ child[s] = "asking" /\ q = cap[s].descriptor.request
     ELSE q \in Request

Honoured(s, q) ==
  /\ q.nonce \in DOMAIN rec \ expired
  /\ rec[q.nonce].descriptor = [request |-> q, key |-> ServerKey(s)]

NotCompleted(n) == rec[n].status # "completed"
Fresh(n) == rec[n].status = "issued"

Enter(s, n, p, st) ==
  /\ asked' = [asked EXCEPT ![s] = {n}]
  /\ phase' = [phase EXCEPT ![s] = p]
  /\ stage' = IF s \in Launchers THEN [stage EXCEPT ![s] = st] ELSE stage

(* Under the record lock: a fresh nonce is consumed before its handler runs; *)
(* a restarted service binds its handlers to the generation it finds.        *)
Consume(s, q) ==
  /\ Presented(s, q) /\ Honoured(s, q)
  /\ Fresh(q.nonce)
  /\ rec' = [rec EXCEPT ![q.nonce] = [@ EXCEPT !.status = "consumed"]]
  /\ gen' = IF s \in Launchers THEN gen ELSE [gen EXCEPT ![s] = run]
  /\ Enter(s, q.nonce, "handling", "dispatching")
  /\ UNCHANGED <<run, key, args, known, verdict, ticket, expired, made, late, handled,
                 answer, crashes>>

(* A completed nonce answers with the response it stored. *)
AlwaysRejected(n) == {Rejected}
Replayed(n) == rec[n].response
Replay(s, q) ==
  /\ Presented(s, q) /\ Honoured(s, q)
  /\ rec[q.nonce].status = "completed"
  /\ made' = [made EXCEPT ![s] = Replayed(q.nonce)]
  /\ Enter(s, q.nonce, "replying", "dispatching")
  /\ UNCHANGED <<run, key, args, known, verdict, ticket, records, gen, late, handled,
                 answer, crashes>>

(* Everything else closes the connection without a word: a wrong binding, *)
(* an expired descriptor, a nonce consumed and not completed.             *)
Refuse(s, q) ==
  /\ Presented(s, q)
  /\ \/ ~Honoured(s, q)
     \/ Honoured(s, q) /\ NotCompleted(q.nonce) /\ ~Fresh(q.nonce)
  /\ Enter(s, q.nonce, "stopped", "waiting")
  /\ UNCHANGED <<run, key, args, known, verdict, ticket, records, gen, made, late, handled,
                 answer, crashes>>

(* No connection in time, a stranger's, or a broken frame. *)
Unserved(l) ==
  /\ stage[l] = "serving"
  /\ stage' = [stage EXCEPT ![l] = "waiting"]
  /\ phase' = [phase EXCEPT ![l] = "stopped"]
  /\ UNCHANGED <<run, key, args, known, verdict, ticket, records, asked, gen, made, late,
                 handled, answer, crashes>>

(* Handlers: where they leave the run, and what they return or raise. *)
Raises == {[run |-> run, response |-> Rejected]}
Returned(q) == {[run |-> q, response |-> r] : r \in {q.rev, Rejected}}
Finalize(g) ==
  IF g.mode = "review" THEN {[run |-> run, response |-> g.rev]}
  ELSE IF run.rev # g.rev THEN Raises
  ELSE UNION {Returned(q) : q \in {run} \cup After(run)}
Receipt(g) ==
  IF run.rev # g.rev \/ g.mode # "waiting" THEN Raises
  ELSE Raises \cup UNION {Returned(q) : q \in After(run)}

RepliedBeforeCommit(s, q) ==
  {[run |-> run, response |-> r.rev] : r \in After(run)}
Outcomes(s, q) ==
  IF q.rev # gen[s].rev THEN Raises
  ELSE IF q.op = "finalize" THEN Finalize(gen[s]) ELSE Receipt(gen[s])

(* Whatever is raised, the deadline's own error too, becomes a response. *)
CaughtInTime(s) == IF s \in late' THEN "stopped" ELSE "storing"
Caught(s) == "storing"

Handle(s) ==
  /\ phase[s] = "handling"
  /\ \E n \in asked[s] :
       IF s \in late
       THEN /\ made' = [made EXCEPT ![s] = {Rejected}]
            /\ UNCHANGED <<run, late, handled>>
       ELSE /\ handled' = [handled EXCEPT ![n] = @ + 1]
            /\ \E o \in Outcomes(s, rec[n].descriptor.request), intime \in BOOLEAN :
                 /\ run' = o.run
                 /\ made' = [made EXCEPT ![s] = {IF intime THEN o.response ELSE Rejected}]
                 /\ late' = IF intime THEN late ELSE late \cup {s}
  /\ phase' = [phase EXCEPT ![s] = Caught(s)]
  /\ UNCHANGED <<launcher, ticket, records, asked, gen, answer, crashes>>

(* The response is durable before anyone hears of it. *)
ResponseOnly(r, m) == [r EXCEPT !.response = m]
Completed(r, m) == [r EXCEPT !.status = "completed", !.response = m]
Settle(s) ==
  /\ phase[s] = "storing"
  /\ rec' = [n \in DOMAIN rec |->
               IF n \in asked[s] THEN Completed(rec[n], made[s]) ELSE rec[n]]
  /\ phase' = [phase EXCEPT ![s] = "replying"]
  /\ UNCHANGED <<run, launcher, ticket, expired, asked, gen, made, late, handled, answer,
                 crashes>>

(* A launcher sends it only in time and to a child that still listens. *)
Heard(s) == s \in Launchers => s \notin late /\ child[s] = "asking"
Reply(s) ==
  /\ phase[s] = "replying"
  /\ answer' = IF Heard(s) THEN [answer EXCEPT ![s] = made[s]] ELSE answer
  /\ phase' = [phase EXCEPT ![s] = "stopped"]
  /\ stage' = IF s \in Launchers
              THEN [stage EXCEPT ![s] = IF Heard(s) THEN "waiting" ELSE "aborting"] ELSE stage
  /\ UNCHANGED <<run, key, args, known, verdict, ticket, records, asked, gen, made, late,
                 handled, crashes>>
-----------------------------------------------------------------------------
(* The end of the child, and everything around. *)

Reaped(l) ==
  /\ stage[l] = "waiting" /\ child[l] \in Exited
  /\ verdict' = [verdict EXCEPT ![l] = IF child[l] = "succeeded" THEN "ok" ELSE "refused"]
  /\ child' = [child EXCEPT ![l] = "reaped"]
  /\ stage' = [stage EXCEPT ![l] = "ended"]
  /\ UNCHANGED <<run, key, args, known, cap, records, service, answer, crashes>>

(* The child outlives the timeout, or the daemon's answer is lost. *)
NeverTimesOut(l) == child[l] \in Exited
TimesOut(l) == TRUE
WaitFails(l) ==
  /\ stage[l] = "waiting" /\ TimesOut(l)
  /\ \E c \in {child[l]} \cup IF child[l] \in Exited THEN {"reaped"} ELSE {} :
       child' = [child EXCEPT ![l] = c]
  /\ stage' = [stage EXCEPT ![l] = "aborting"]
  /\ UNCHANGED <<run, key, args, known, verdict, cap, records, service, answer, crashes>>

Abort(l) ==
  /\ stage[l] = "aborting"
  /\ \E x \in Cleaned(child[l]) :
       /\ child' = [child EXCEPT ![l] = x.child]
       /\ verdict' = [verdict EXCEPT ![l] = Refusal(x.failed)]
  /\ stage' = [stage EXCEPT ![l] = "ended"]
  /\ UNCHANGED <<run, key, args, known, cap, records, service, answer, crashes>>

Elapse(s) ==
  /\ phase[s] \in {"handling", "storing", "replying"} /\ s \notin late
  /\ late' = late \cup {s}
  /\ UNCHANGED <<run, launcher, ticket, records, phase, asked, gen, made, handled, answer,
                 crashes>>

Expire(n) ==
  /\ n \in DOMAIN rec \ expired
  /\ expired' = expired \cup {n}
  /\ UNCHANGED <<run, launcher, ticket, rec, service, answer, crashes>>

(* The process of a launcher, or of a restarted service, dies. *)
Crash(s) ==
  /\ crashes < MaxCrashes
  /\ IF s \in Launchers
     THEN /\ stage[s] \notin {"start", "ended", "dead"}
          /\ stage' = [stage EXCEPT ![s] = "dead"]
     ELSE phase[s] \notin {"idle", "stopped", "dead"} /\ UNCHANGED stage
  /\ phase' = [phase EXCEPT ![s] = "dead"]
  /\ crashes' = crashes + 1
  /\ UNCHANGED <<run, key, args, known, verdict, ticket, records, asked, gen, made, late,
                 handled, answer>>

(* Another command commits to the run. *)
Elsewhere ==
  /\ run' \in After(run)
  /\ UNCHANGED <<launcher, ticket, records, service, answer, crashes>>
-----------------------------------------------------------------------------
Init ==
  /\ run \in [rev : {1}, mode : {"active", "waiting", "review"}, live : {TRUE}]
  /\ key = [l \in Launchers |-> RunKey]
  /\ args = [l \in Launchers |-> [op |-> "finalize", rev |-> 1]]
  /\ stage = [l \in Launchers |-> "start"]
  /\ child = [l \in Launchers |-> "none"]
  /\ known = {}
  /\ cap = <<>>
  /\ verdict = [l \in Launchers |-> "none"]
  /\ rec = <<>>
  /\ expired = {}
  /\ phase = [s \in Servers |-> "idle"]
  /\ asked = [s \in Servers |-> {}]
  /\ gen = [s \in Servers |-> run]
  /\ made = [s \in Servers |-> {}]
  /\ late = {}
  /\ answer = [s \in Servers |-> {}]
  /\ handled = [n \in Launchers |-> 0]
  /\ crashes = 0

Launch(l) ==
  \/ Bootstrap(l)
  \/ Prepare(l) \/ PrepareUnread(l) \/ PrepareRefused(l)
  \/ Issue(l) \/ IssueRefused(l)
  \/ Transfer(l) \/ TransferRefused(l)
  \/ Unserved(l)
  \/ Reaped(l) \/ WaitFails(l) \/ Abort(l)
Take(s)   == \E q \in Request : Consume(s, q) \/ Replay(s, q) \/ Refuse(s, q)
Serve(s)  == Handle(s) \/ Settle(s) \/ Reply(s)
Ticket(l) == Ask(l) \/ Believe(l) \/ GiveUp(l)

Next ==
  \/ \E l \in Launchers : Launch(l) \/ Ticket(l) \/ Expire(l)
  \/ \E s \in Servers : Take(s) \/ Serve(s) \/ Elapse(s) \/ Crash(s)
  \/ Elsewhere

Spec == Init /\ [][Next]_vars

(* Launcher processes are scheduled and every wait of theirs has a timeout; *)
(* handlers return.  Nothing is assumed of the child or the daemon.         *)
Fair ==
  /\ Spec
  /\ \A l \in Launchers : WF_vars(Launch(l))
  /\ \A s \in Servers : WF_vars(Serve(s))
-----------------------------------------------------------------------------
(* The handler behind a nonce is called at most once, whatever is replayed, *)
(* however late the answer and wherever a launcher dies between the         *)
(* "consumed" and the "completed" record.                                   *)
HandledOnce == \A n \in Launchers : handled[n] <= 1

(* Whoever is answered for a nonce, its own child or a client that asks     *)
(* again after a restart, hears the one response on record.                 *)
AnswersAgree ==
  \A s \in Servers : \A n \in asked[s] :
    answer[s] # {} => rec[n].status = "completed" /\ rec[n].response = answer[s]

(* Exit status 0 of the launcher means that the handler of its own nonce    *)
(* returned, and that the revision it reported was committed by then; the   *)
(* converse fails (a late or refused answer can follow a commit).           *)
SuccessIsReal ==
  \A l \in Launchers :
    verdict[l] = "ok" =>
      /\ handled[l] = 1
      /\ \E r \in rec[l].response : r # Rejected /\ args[l].rev <= r /\ r <= run.rev

(* What the service answers is the truth, once (finalization_service.py,    *)
(* dispatch; launcher_finalization.py, serve_ticket_process).               *)
AnswersHold == TypeOK /\ HandledOnce /\ AnswersAgree /\ SuccessIsReal

(* A launcher that learnt its child's identifier and lived ends with the    *)
(* child reaped, or reports that the cleanup failed.                        *)
NoChildLeft ==
  \A l \in known :
    stage[l] = "ended" => child[l] = "reaped" \/ verdict[l] = "cleanup_failed"

(* A hung child, a lost reply or an elapsed deadline never hangs the launcher. *)
LauncherEnds ==
  \A l \in Launchers : stage[l] # "start" ~> stage[l] \in {"ended", "dead"}

(* A consumed nonce is completed, with a result or the signed error, unless *)
(* the process that consumed it dies first.                                 *)
ConsumedIsSettled ==
  \A n \in Launchers :
    (n \in DOMAIN rec /\ rec[n].status = "consumed") ~>
      \/ n \in DOMAIN rec /\ rec[n].status = "completed"
      \/ \E s \in Servers : n \in asked[s] /\ phase[s] = "dead"

(* The documented cleanup: evidence that is missing or malformed too has    *)
(* the prepared child killed and reaped before the launcher reports failure. *)
PreparedChildReaped ==
  \A l \in Launchers :
    verdict[l] = "failed" => child[l] \in {"none", "reaped"}
=============================================================================
