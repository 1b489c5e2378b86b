------------------------------ MODULE CommandRun ------------------------------
(* The boundary every command of a run goes through: ProcessRunner.run (one   *)
(* finite command) and ManagedProcessRunner._prepare (the application), with  *)
(* the sandbox policy that opens the pinned directories, the verifier of the  *)
(* executable and the sink that makes the evidence durable.  The code that    *)
(* calls it is sequential, so one command is in progress at a time, but the   *)
(* application's own descriptors stay open while other commands run.          *)
EXTENDS Integers, Sequences

CONSTANTS
    Roots,            \* pinned directories of the policy, opened in this order: 1..Roots
    MaxDisturbances   \* how often the world misbehaves

ASSUME CommandAssumption == Roots \in Nat \ {0} /\ MaxDisturbances \in Nat

VARIABLES
    command,      \* the command in progress, or the answer of the last one
    open,         \* descriptors held: <<owner, root>> or <<owner, Executable>>
    replaced,     \* pinned roots that are no longer the directory validated
    tampered,     \* TRUE when an executable differs from its launcher pin
    disturbances

commandVars == <<command, open, replaced, tampered, disturbances>>

Owners == {"command", "app"}
Executable == 0
Descriptors == Owners \X (Executable..Roots)

\* How a command ended.  The return codes are 0, an exit status, the negative
\* of a signal, 124 (timeout) and 127 (it could not start, or it may not).
Kinds == {"none", "exit", "signal", "timeout", "spawn", "configuration"}
Succeeded(kind) == kind = "none"

\* step: idle, roots, executable, execute, record, close, done.
\* answer: recorded (the caller gets a result) or raised (it gets an error).
NoCommand == [owner |-> "command", step |-> "idle", root |-> 1, kind |-> "none",
              answer |-> "none", stored |-> 0]

CommandType ==
    /\ command \in [owner: Owners, root: 1..(Roots + 1), kind: Kinds,
                    step: {"idle", "roots", "executable", "execute", "record", "close", "done"},
                    answer: {"none", "recorded", "raised"}, stored: 0..2]
    /\ open \subseteq Descriptors
    /\ replaced \subseteq 1..Roots
    /\ tampered \in BOOLEAN
    /\ disturbances \in 0..MaxDisturbances

CommandInit ==
    /\ command = NoCommand
    /\ open = {}
    /\ replaced = {}
    /\ tampered = FALSE
    /\ disturbances = 0

Disturbed == disturbances < MaxDisturbances /\ disturbances' = disturbances + 1
Undisturbed == UNCHANGED disturbances
World == <<replaced, tampered>>

\* A finite command opens the roots and then the executable, the application
\* the other way round.
Call(owner) ==
    command' = [NoCommand EXCEPT !.owner = owner,
                                 !.step = IF owner = "app" THEN "executable" ELSE "roots"]

Fails(kind) == [command EXCEPT !.kind = kind, !.step = "record"]
Owned == {d \in open : d[1] = command.owner}
OpenRoots == {d \in Owned : d[2] # Executable}

-----------------------------------------------------------------------------
\* Mutant: the roots opened before the one that failed stay open.
LeftOpen(refused) ==
    /\ command' = refused
    /\ open' = open

\* prepare_handoff has opened what it could and closes it before it raises.
OnFailedRoot(refused) ==
    /\ command' = refused
    /\ open' = open \ OpenRoots

\* _prepare closes the executable as well, and raises.
OnFailedPrepare(refused) ==
    /\ command' = refused
    /\ open' = open \ Owned

\* prepare_handoff: each root must still be the directory that was validated.
OpenRoot ==
    /\ command.step = "roots" /\ command.root <= Roots
    /\ IF command.root \notin replaced
       THEN /\ open' = open \cup {<<command.owner, command.root>>}
            /\ command' = [command EXCEPT !.root = @ + 1]
       ELSE IF command.owner = "command"
            THEN OnFailedRoot(Fails("configuration"))
            ELSE OnFailedPrepare(Fails("configuration"))
    /\ UNCHANGED <<replaced, tampered, disturbances>>

\* Every root is open.  The environment may name a variable that the policy
\* does not allow; an admissible command goes on.
RootsOpen ==
    /\ command.step = "roots" /\ command.root > Roots
    /\ \/ /\ command' = [command EXCEPT !.step = IF command.owner = "app" THEN "execute"
                                                                           ELSE "executable"]
          /\ open' = open
          /\ Undisturbed
       \/ /\ IF command.owner = "command"
             THEN command' = Fails("configuration") /\ open' = open
             ELSE OnFailedPrepare(Fails("configuration"))
          /\ Disturbed
    /\ UNCHANGED World

\* require_absolute_verified hashes the open file against the pin and closes it
\* when they differ.
VerifyExecutable ==
    /\ command.step = "executable"
    /\ IF tampered
       THEN command' = Fails("configuration") /\ open' = open
       ELSE /\ command' = [command EXCEPT !.step = IF command.owner = "app" THEN "roots"
                                                                            ELSE "execute"]
            /\ open' = open \cup {<<command.owner, Executable>>}
    /\ UNCHANGED <<replaced, tampered, disturbances>>

\* An exchange with the sandbox that fails: no answer in time, no connection, or
\* an answer out of contract.
Failures == {"timeout", "spawn", "configuration"}

\* The sandbox ran the command.  A status is the command's own.
SandboxRuns(statuses) ==
    \/ \E kind \in statuses : command' = Fails(kind) /\ Undisturbed
    \/ \E kind \in Failures : command' = Fails(kind) /\ Disturbed

Execute(statuses) ==
    /\ command.step = "execute" /\ command.owner = "command"
    /\ SandboxRuns(statuses)
    /\ UNCHANGED <<open, replaced, tampered>>

\* The sink makes stdout and then stderr durable, each in a file of its own;
\* with the second one the result is complete.
StoreFile ==
    command' = [command EXCEPT !.stored = @ + 1,
                               !.answer = IF command.stored = 1 THEN "recorded" ELSE @,
                               !.step = IF command.stored = 1 THEN "close" ELSE @]

\* _record hands the sanitized result to the sink.  A file that cannot be
\* written turns the result into EvidenceSinkError, whatever the command did.
Record ==
    /\ command.step = "record"
    /\ \/ StoreFile /\ Undisturbed
       \/ command' = [command EXCEPT !.answer = "raised", !.step = "close"] /\ Disturbed
    /\ UNCHANGED <<open, replaced, tampered>>

\* The finally blocks of run and of start close what their caller was handed:
\* the policy once all of it is open, the executable once it is verified; of
\* _prepare, everything or nothing.
Handed ==
    {d \in Owned : command.root > Roots \/ (command.owner = "command" /\ d[2] = Executable)}

Close ==
    /\ command.step = "close"
    /\ open' = open \ Handed
    /\ command' = [command EXCEPT !.step = "done"]
    /\ UNCHANGED <<replaced, tampered, disturbances>>

\* A directory or an executable is replaced behind the policy's back.
Replace ==
    /\ \/ \E r \in 1..Roots \ replaced : replaced' = replaced \cup {r} /\ tampered' = tampered
       \/ ~tampered /\ tampered' = TRUE /\ replaced' = replaced
    /\ Disturbed
    /\ UNCHANGED <<command, open>>

\* The steps of a command other than its execution, whose status is its own.
CommandStep == OpenRoot \/ RootsOpen \/ VerifyExecutable \/ Record \/ Close

Running == command.step \notin {"idle", "done"}
Answered == command.step = "done"
Result == command.answer = "recorded"
=============================================================================
