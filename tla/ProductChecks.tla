---------------------------- MODULE ProductChecks ----------------------------
(* The two stages that run the product: the Verifier, which runs the policy's *)
(* commands (VerificationRunner.run_all), and the Tester, which starts the    *)
(* application, waits until it answers, lets the model drive a browser and    *)
(* takes everything down again (BrowserRunner.run, ManagedProcess,            *)
(* LocalPlaywrightTools).  Every command goes through CommandRun.             *)
EXTENDS CommandRun

CONSTANTS
    Checks,      \* verification commands of the Project Policy
    MaxCalls     \* MAX_NATIVE_TOOL_CALLS, the Tester's browser operations

ASSUME ChecksAssumption == Checks \in Nat /\ MaxCalls \in Nat

VARIABLES
    phase,     \* where the stages are
    checks,    \* kinds of the VerificationChecks recorded so far
    ran,       \* what the sandbox did for each verification command (history)
    verdict,   \* the VerificationResult
    app,       \* the application: its process and whether its port answers
    handle,    \* the ManagedProcess
    stop,      \* stop_and_reap: who called it and how far it is
    expired,   \* ready_timeout_seconds have passed
    browse,    \* locals of BrowserRunner.run
    result,    \* what BrowserRunner.run returned
    signals    \* what became of the signals: a refused kill, a stray one (history)

verifyVars == <<checks, ran, verdict>>
appVars == <<app, handle, stop, expired, signals>>
checksVars == <<commandVars, phase, verifyVars, appVars, browse, result>>

Statuses == {"none", "exit", "signal"}
Phases == {"idle", "verify", "request", "start", "probe", "tester", "close", "stop", "bind", "ended"}

\* Types of the variables (BrowserRunner.run's locals and the ManagedProcess).
ChecksType ==
    /\ CommandType
    /\ phase \in Phases
    /\ checks \in Seq(Kinds) /\ Len(checks) <= Checks
    /\ ran \in Seq(Kinds) /\ Len(ran) <= Checks
    /\ verdict \in {"none", "passed", "failed", "raised"}
    /\ app \in [state: {"none", "running", "exited"}, status: Statuses, serving: BOOLEAN]
    /\ handle \in [waited: BOOLEAN, reaped: BOOLEAN, error: BOOLEAN]
    /\ stop \in [by: {"nobody", "start", "ready", "cleanup"},
                 step: {"idle", "terminate", "grace", "kill", "last", "settle"}]
    /\ expired \in BOOLEAN
    /\ browse \in [held: BOOLEAN, ready: BOOLEAN, evidence: BOOLEAN, broken: BOOLEAN,
                   calls: 0..MaxCalls, allowed: SUBSET {"goto", "close"},
                   primary: {"none", "passed", "product", "orchestration"}]
    /\ result \in {"none", "skipped", "ambiguity", "passed", "product", "orchestration"}
    /\ signals \in [refused: BOOLEAN, stray: BOOLEAN]

ChecksInit ==
    /\ CommandInit
    /\ phase = "idle"
    /\ checks = <<>> /\ ran = <<>> /\ verdict = "none"
    /\ app = [state |-> "none", status |-> "none", serving |-> FALSE]
    /\ handle = [waited |-> FALSE, reaped |-> FALSE, error |-> FALSE]
    /\ stop = [by |-> "nobody", step |-> "idle"]
    /\ expired = FALSE
    /\ browse = [held |-> FALSE, ready |-> FALSE, evidence |-> FALSE, broken |-> FALSE,
                 calls |-> 0, allowed |-> {}, primary |-> "none"]
    /\ result = "none"
    /\ signals = [refused |-> FALSE, stray |-> FALSE]

AtRest == command.step = "idle"
Free == command' = NoCommand
Success == Result /\ Succeeded(command.kind)
AppsDescriptors == {d \in open : d[1] = "app"}

-----------------------------------------------------------------------------
(* The Verifier.                                                              *)

\* run_all refuses a Build Identity of another policy or of other commands.
BeginVerification ==
    /\ phase = "idle"
    /\ \/ phase' = "verify" /\ verdict' = verdict
       \/ phase' = "ended" /\ verdict' = "raised"
    /\ UNCHANGED <<commandVars, checks, ran, appVars, browse, result>>

CallCheck ==
    /\ phase = "verify" /\ AtRest /\ Len(checks) < Checks
    /\ Call("command")
    /\ UNCHANGED <<open, World, disturbances, phase, verifyVars, appVars, browse, result>>

\* A command without durable evidence ends the verification with an error; a
\* command that failed, was not started or ran out of time is a check of its own.
CheckAnswered ==
    /\ phase = "verify" /\ Answered
    /\ IF Result
       THEN checks' = Append(checks, command.kind) /\ UNCHANGED <<phase, verdict>>
       ELSE checks' = checks /\ phase' = "ended" /\ verdict' = "raised"
    /\ Free
    /\ UNCHANGED <<open, World, disturbances, ran, appVars, browse, result>>

\* Mutant: only a command that exited by itself can fail the verification.
NoneExited == \A i \in DOMAIN checks : checks[i] # "exit"

Passed == \A i \in DOMAIN checks : Succeeded(checks[i])

\* Only a verified product is handed to the Tester.
Verified ==
    /\ phase = "verify" /\ AtRest /\ Len(checks) = Checks
    /\ verdict' = IF Passed THEN "passed" ELSE "failed"
    /\ phase' = IF Passed THEN "request" ELSE "ended"
    /\ UNCHANGED <<commandVars, checks, ran, appVars, browse, result>>

-----------------------------------------------------------------------------
(* BrowserRunner.run up to the application's start.                           *)

\* A skipped result carries evidence that its minter verifies, or it is none.
Skipped ==
    /\ \/ result' = "skipped" /\ Undisturbed
       \/ result' = "orchestration" /\ Disturbed
    /\ phase' = "ended"

\* The policy may allow any of the operations, and goto and close among them.
Policies == SUBSET {"goto", "close"}

\* A decision that needs no browser is skipped, a policy without a start
\* command is an ambiguity, anything else is started.
Request ==
    /\ phase = "request"
    /\ \/ Skipped /\ UNCHANGED <<command, browse>>
       \/ /\ result' = "ambiguity" /\ phase' = "ended"
          /\ UNCHANGED <<command, browse, disturbances>>
       \/ /\ \E operations \in Policies :
                browse' = [browse EXCEPT !.allowed = operations]
          /\ Call("app") /\ phase' = "start"
          /\ UNCHANGED <<result, disturbances>>
    /\ UNCHANGED <<open, World, verifyVars, appVars>>

\* The evidence of a run is what its commands stored, those that failed included.
Captured == browse.evidence \/ (Answered /\ Result)

StopFor(caller) == stop' = [by |-> caller, step |-> "terminate"]

\* The sandbox starts the process group, fails and leaves one behind (the
\* error carries its handle), or fails without one.
StartApplication ==
    /\ phase = "start" /\ command.step = "execute"
    /\ \/ /\ app' = [app EXCEPT !.state = "running"]
          /\ phase' = "probe" /\ Free /\ Undisturbed
          /\ stop' = stop
       \/ /\ \E state \in {"running", "exited"} : app' = [app EXCEPT !.state = state]
          /\ phase' = "stop" /\ Free /\ Disturbed
          /\ StopFor("start")
       \/ /\ \E kind \in Failures : command' = Fails(kind)
          /\ Disturbed
          /\ UNCHANGED <<app, phase, stop>>
    /\ UNCHANGED <<open, World, verifyVars, handle, expired, signals, browse, result>>

\* Leaving start with an error: run has no process and a failure to report.
StartFails(shown) ==
    /\ browse' = [browse EXCEPT !.primary = "orchestration", !.evidence = @ \/ shown]
    /\ phase' = "close"

StartAnswered ==
    /\ phase = "start" /\ Answered
    /\ StartFails(Result)
    /\ Free
    /\ UNCHANGED <<open, World, disturbances, verifyVars, appVars, result>>

\* The readiness check is a goto of the base URL, if the policy allows goto.
CallProbe ==
    /\ phase = "probe" /\ AtRest
    /\ IF "goto" \in browse.allowed
       THEN Call("command") /\ UNCHANGED <<phase, stop>>
       ELSE phase' = "stop" /\ StopFor("ready") /\ command' = command
    /\ UNCHANGED <<open, World, disturbances, verifyVars, app, handle, expired, signals,
                   browse, result>>

\* A goto that succeeds ends start; any other outcome is an exception, on which
\* wait_until_ready stops the application without another look at the deadline.
ProbeAnswered ==
    /\ phase = "probe" /\ Answered
    /\ IF Success
       THEN /\ phase' = "tester"
            /\ browse' = [browse EXCEPT !.evidence = TRUE, !.ready = TRUE, !.held = TRUE]
            /\ open' = open \ AppsDescriptors
            /\ Free /\ stop' = stop
       ELSE /\ phase' = "stop" /\ StopFor("ready")
            /\ browse' = [browse EXCEPT !.evidence = Captured]
            /\ UNCHANGED <<command, open>>
    /\ UNCHANGED <<World, disturbances, verifyVars, app, handle, expired, signals, result>>

-----------------------------------------------------------------------------
(* The Tester and the clean-up.                                               *)

CallTool ==
    /\ phase = "tester" /\ AtRest /\ browse.calls < MaxCalls
    /\ Call("command")
    /\ browse' = [browse EXCEPT !.calls = @ + 1]
    /\ UNCHANGED <<open, World, disturbances, phase, verifyVars, appVars, result>>

\* A tool that fails ends the Tester (ToolFailurePolicy.RAISE).
ToolAnswered ==
    /\ phase = "tester" /\ Answered
    /\ browse' = [browse EXCEPT !.evidence = Captured,
                                !.primary = IF Success THEN @ ELSE "orchestration"]
    /\ phase' = IF Success THEN phase ELSE "close"
    /\ Free
    /\ UNCHANGED <<open, World, disturbances, verifyVars, appVars, result>>

\* The model's report: every scenario passed, one failed, or not a valid report.
Reports == {"passed", "product", "orchestration"}

TesterReports ==
    /\ phase = "tester" /\ AtRest
    /\ \E report \in Reports :
          browse' = [browse EXCEPT !.primary = report]
    /\ phase' = "close"
    /\ UNCHANGED <<commandVars, verifyVars, appVars, result>>

AfterClose(ok) ==
    /\ browse' = [browse EXCEPT !.broken = ~ok, !.evidence = Captured]
    /\ IF browse.held THEN phase' = "stop" /\ StopFor("cleanup")
                      ELSE phase' = "bind" /\ stop' = stop

CallClose ==
    /\ phase = "close" /\ AtRest
    /\ IF "close" \in browse.allowed
       THEN Call("command") /\ UNCHANGED <<phase, stop, browse>>
       ELSE AfterClose(FALSE) /\ command' = command
    /\ UNCHANGED <<open, World, disturbances, verifyVars, app, handle, expired, signals, result>>

CloseAnswered ==
    /\ phase = "close" /\ Answered
    /\ AfterClose(Success)
    /\ Free
    /\ UNCHANGED <<open, World, disturbances, verifyVars, app, handle, expired, signals, result>>

-----------------------------------------------------------------------------
(* ManagedProcess.stop_and_reap.                                              *)

\* What the caller of stop_and_reap makes of its result or of its error.
CleanedUp(returned) ==
    /\ phase' = "bind"
    /\ browse' = [browse EXCEPT !.broken = @ \/ ~returned, !.evidence = @ \/ returned]
    /\ open' = open /\ Undisturbed

GivenUp(shown) ==
    /\ StartFails(shown)
    /\ open' = open \ AppsDescriptors

\* wait_until_ready passes the application's failure on.  An application that
\* stopped with status 0 leaves the readiness error, which start records anew.
Stopped(returned) ==
    /\ stop' = [by |-> "nobody", step |-> "idle"]
    /\ command' = NoCommand
    /\ \/ stop.by = "cleanup" /\ CleanedUp(returned)
       \/ stop.by = "start" /\ GivenUp(returned) /\ Undisturbed
       \/ /\ stop.by = "ready"
          /\ \/ GivenUp(TRUE) /\ Undisturbed
             \/ GivenUp(FALSE) /\ Disturbed /\ (~returned \/ app.status = "none")

To(step) == stop' = [stop EXCEPT !.step = step]
Stay == UNCHANGED <<phase, browse, open, command>>

\* A signal to the group; stray if its leader was waited for already.
Signal == signals' = [signals EXCEPT !.stray = @ \/ handle.waited]

\* terminate does nothing once the leader was waited for; stop_and_reap is not
\* called then, or the signal would be a stray one.
Terminate ==
    /\ stop.step = "terminate"
    /\ Signal
    /\ \/ app' = app
       \/ \E status \in Statuses : /\ app.state = "running"
                                   /\ app' = [app EXCEPT !.state = "exited", !.status = status]
    /\ To("grace") /\ Stay
    /\ UNCHANGED <<World, disturbances, verifyVars, handle, expired, result>>

\* reap: the wait returns once the application has ended, and what it returned
\* is recorded; when that fails the wait is not repeated.
WaitReturns ==
    /\ app.state = "exited"
    /\ \/ handle' = [handle EXCEPT !.waited = TRUE, !.reaped = TRUE] /\ Undisturbed
       \/ handle' = [handle EXCEPT !.waited = TRUE, !.error = TRUE] /\ Disturbed

\* A wait that times out is recorded as well, and that may fail too.
WaitTimesOut ==
    /\ app.state = "running"
    /\ \/ handle' = handle /\ Undisturbed
       \/ handle' = [handle EXCEPT !.error = TRUE] /\ Disturbed

\* A wait that fails is recorded as a spawn failure, and that may fail too.
WaitFails == handle' \in {handle, [handle EXCEPT !.error = TRUE]} /\ Disturbed

\* Mutant: the first wait has no timeout either.
GraceForEver ==
    /\ stop.step = "grace"
    /\ WaitReturns \/ WaitFails
    /\ To("kill") /\ Stay
    /\ UNCHANGED <<World, verifyVars, app, expired, signals, result>>

\* The wait for the grace period.
Grace ==
    /\ stop.step = "grace"
    /\ WaitReturns \/ WaitTimesOut \/ WaitFails
    /\ To("kill") /\ Stay
    /\ UNCHANGED <<World, verifyVars, app, expired, signals, result>>

\* Mutant: the group is killed even when its leader was waited for.
KillAnyway ==
    /\ stop.step = "kill"
    /\ To(IF handle.waited THEN "settle" ELSE "last")
    /\ Signal /\ Undisturbed
    /\ app' = IF app.state = "running" THEN [app EXCEPT !.state = "exited", !.status = "signal"]
                                        ELSE app
    /\ Stay
    /\ UNCHANGED <<World, verifyVars, handle, expired, result>>

\* The forced signal, if the wait has not returned.  It may be refused.
Kill ==
    /\ stop.step = "kill"
    /\ IF handle.waited
       THEN To("settle") /\ UNCHANGED <<app, signals>> /\ Undisturbed
       ELSE /\ To("last")
            /\ \/ /\ app' = IF app.state = "running" THEN [app EXCEPT !.state = "exited", !.status = "signal"]
                                                     ELSE app
                  /\ Signal /\ Undisturbed
               \/ /\ app' = app /\ Disturbed
                  /\ signals' = [signals EXCEPT !.refused = TRUE]
    /\ Stay
    /\ UNCHANGED <<World, verifyVars, handle, expired, result>>

\* The last wait has no timeout.
Last ==
    /\ stop.step = "last"
    /\ WaitReturns \/ WaitFails
    /\ To("settle") /\ Stay
    /\ UNCHANGED <<World, verifyVars, app, expired, signals, result>>

\* stop_and_reap returns what it recorded, or raises when the application was
\* not waited for or a record failed on the way.
Settle ==
    /\ stop.step = "settle"
    /\ Stopped(handle.waited /\ ~handle.error)
    /\ UNCHANGED <<World, verifyVars, app, handle, expired, signals, result>>

\* Mutant: the outcome of the clean-up does not change the result.
BindPrimary ==
    /\ phase = "bind"
    /\ result' = IF ~browse.evidence THEN "orchestration" ELSE browse.primary
    /\ phase' = "ended"
    /\ UNCHANGED <<commandVars, verifyVars, appVars, browse>>

\* _bind_run_evidence, and a failed clean-up before it.
Bind ==
    /\ phase = "bind"
    /\ result' = IF browse.broken \/ ~browse.evidence THEN "orchestration" ELSE browse.primary
    /\ phase' = "ended"
    /\ UNCHANGED <<commandVars, verifyVars, appVars, browse>>

-----------------------------------------------------------------------------
(* A step of the command in progress, and the world.                          *)

\* What the sandboxed commands exit with: a verification command and a browser
\* operation anything, a goto success only while the application answers.
Answers ==
    IF phase = "verify" THEN Statuses
    ELSE IF phase = "probe" /\ ~(app.state = "running" /\ app.serving) THEN {"exit"}
    ELSE {"none", "exit"}

CommandGoesOn ==
    /\ \/ CommandStep /\ ran' = ran
       \/ /\ Execute(Answers)
          /\ ran' = IF phase = "verify" THEN Append(ran, command'.kind) ELSE ran
    /\ UNCHANGED <<phase, checks, verdict, appVars, browse, result>>

AppServes ==
    /\ app.state = "running" /\ ~app.serving
    /\ app' = [app EXCEPT !.serving = TRUE]
    /\ UNCHANGED <<commandVars, phase, verifyVars, handle, stop, expired, signals, browse, result>>

AppExits ==
    /\ app.state = "running"
    /\ \E status \in Statuses : app' = [app EXCEPT !.state = "exited", !.status = status]
    /\ UNCHANGED <<commandVars, phase, verifyVars, handle, stop, expired, signals, browse, result>>

DeadlinePasses ==
    /\ phase = "probe" /\ ~expired
    /\ expired' = TRUE
    /\ UNCHANGED <<commandVars, phase, verifyVars, app, handle, stop, signals, browse, result>>

WorldChanges ==
    /\ phase \notin {"idle", "ended"}
    /\ Replace
    /\ UNCHANGED <<phase, verifyVars, appVars, browse, result>>

Program ==
    \/ BeginVerification \/ CallCheck \/ CheckAnswered \/ Verified
    \/ Request \/ StartApplication \/ StartAnswered \/ CallProbe \/ ProbeAnswered
    \/ CallTool \/ ToolAnswered \/ TesterReports \/ CallClose \/ CloseAnswered
    \/ Terminate \/ Grace \/ Kill \/ Last \/ Settle \/ Bind
    \/ CommandGoesOn

ChecksNext == Program \/ AppServes \/ AppExits \/ DeadlinePasses \/ WorldChanges

ChecksSpec == ChecksInit /\ [][ChecksNext]_checksVars

\* The code is sequential and every command it runs has a timeout.  Neither the
\* application nor the world is under any obligation.
Fair == ChecksSpec /\ WF_checksVars(Program)

-----------------------------------------------------------------------------
(* Properties.                                                                *)

\* Descriptors of pinned directories and executables do not pile up: once a
\* command is answered none of its own is open, and the application's are open
\* only inside start, whichever root or file was replaced half-way.
NothingLeftOpen ==
    /\ ~Running => \A d \in open : d[1] = "app"
    /\ phase \notin {"start", "probe", "stop"} => AppsDescriptors = {}

\* Whatever failed, and in whatever order, a finished run leaves no application
\* running unless the kill itself was refused; and no signal is sent to a group
\* whose leader was waited for, because its number may be another's by then.
AppIsOwned ==
    /\ phase = "ended" /\ ~signals.refused => app.state # "running"
    /\ ~signals.stray

\* What the stages open and start, they close and stop.
ResourcesAreOwned == ChecksType /\ NothingLeftOpen /\ AppIsOwned

\* A passed Browser Result is earned: the product was verified, the application
\* answered a goto, its process was waited for and its output is stored.
PassedIsEarned ==
    result = "passed" => /\ verdict = "passed" /\ browse.ready
                         /\ handle.reaped /\ app.state = "exited"

\* A passed Verification Result means that the sandbox ran every command of the
\* policy, once and in order, and each exited with 0: a timeout, a command that
\* was refused or whose output was lost does not count.
VerdictIsEarned == verdict = "passed" => ran = [i \in 1..Checks |-> "none"]

\* Neither stage passes a product that its commands did not pass
\* (verification.py, run_all; browser.py, _bind_run_evidence).
PassesAreEarned == VerdictIsEarned /\ PassedIsEarned

\* Every run ends.  The last wait of stop_and_reap has no timeout, so a kill
\* that is refused may leave it waiting.
RunEnds == <>(phase = "ended" \/ signals.refused)

\* "waits for readiness at the policy's local HTTP URL": after an answered goto
\* the application is given up only when ready_timeout_seconds have passed or
\* it has exited.
ReadyWithinTimeout ==
    stop = [by |-> "ready", step |-> "terminate"] /\ Answered /\ command.kind = "exit" =>
        expired \/ app.state = "exited"
=============================================================================
