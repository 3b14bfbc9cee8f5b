---------------------------- MODULE Pass2Workers ----------------------------
(***************************************************************************)
(* The worker goroutines of pass 2 (applyConcurrent, pass2File and pass2   *)
(* of cmd/spoc2).                                                          *)
(*                                                                         *)
(* Pass 1 writes the names of devices into a pipe.  The main goroutine of  *)
(* pass 2 starts one goroutine per name, at most ConcurrencyPass2 at the   *)
(* same time, and finally removes the directory .prev, from which workers  *)
(* take unchanged files.  What a worker does to files is the subject of    *)
(* module CodeDir; here only its result counts.                            *)
(***************************************************************************)
EXTENDS Integers, Sequences, FiniteSets, Functions

CONSTANTS
  Devices,     \* names that pass 1 may send
  Concurrency, \* values of option concurrency_pass2 to look at
  None         \* no device

ASSUME WorkersAssumption ==
  /\ IsFiniteSet(Devices)
  /\ Concurrency \subseteq Nat
  /\ None \notin Devices

VARIABLES
  concurrent,  \* ConcurrencyPass2, fixed at start
  announced,   \* devices written by pass 1
  pipe,        \* names that have not yet been read
  eof,         \* pass 1 has closed its end of the pipe
  pc,          \* main: "scan", "full", "inline", "inlineWait", "drain", "remove", or
               \* "broken", which is "drain" after an error of the scanner
  cur,         \* main: name just read
  started,     \* main: number of jobs to wait for
  workersLeft,
  generated, reused, errors,
  running,     \* devices a worker is busy with
  c,           \* results in the channel
  handled,     \* devices whose worker has sent its result
  panicking,   \* some worker has panicked
  prevRemoved,
  exit         \* "run", "ok", "failed", "crash"

pass1Vars == <<concurrent, announced, eof>>
countVars == <<generated, reused, errors>>
vars == <<concurrent, announced, pipe, eof, pc, cur, started, workersLeft,
          generated, reused, errors, running, c, handled, panicking, prevRemoved,
          exit>>

Result == {"fail", "ok", "reuse"}

Init ==
  /\ concurrent \in Concurrency
  /\ announced = {}
  /\ pipe = <<>>
  /\ eof = FALSE
  /\ pc = "scan"
  /\ cur = None
  /\ started = 0
  /\ workersLeft = concurrent
  /\ generated = 0 /\ reused = 0 /\ errors = 0
  /\ running = {}
  /\ c = <<>>
  /\ handled = {}
  /\ panicking = FALSE
  /\ prevRemoved = FALSE
  /\ exit = "run"

-----------------------------------------------------------------------------
(***************************************************************************)
(* Pass 1, as far as seen from here: it sends each name once and closes    *)
(* the pipe when it ends, for whatever reason.                             *)
(***************************************************************************)
Announce(d) ==
  /\ ~eof
  /\ d \notin announced
  /\ announced' = announced \cup {d}
  /\ pipe' = Append(pipe, d)
  /\ UNCHANGED <<concurrent, eof, pc, cur, started, workersLeft, countVars, running, c,
                 handled, panicking, prevRemoved, exit>>

ClosePipe ==
  /\ ~eof
  /\ eof' = TRUE
  /\ UNCHANGED <<concurrent, announced, pipe, pc, cur, started, workersLeft,
                 countVars, running, c, handled, panicking, prevRemoved, exit>>

-----------------------------------------------------------------------------
(***************************************************************************)
(* The loop of applyConcurrent over the lines of the pipe.                 *)
(***************************************************************************)
ReadLine ==
  /\ exit = "run"
  /\ pc = "scan"
  /\ pipe # <<>>
  /\ pipe' = Tail(pipe)

\* Process sequentially.
ReadInline ==
  /\ ReadLine
  /\ 1 >= concurrent
  /\ running' = running \cup {Head(pipe)}
  /\ pc' = "inline"
  /\ UNCHANGED <<pass1Vars, cur, started, workersLeft, countVars, c, handled,
                 panicking, prevRemoved, exit>>

\* Mutant of ReadAndStart: the job is not subtracted from workersLeft.
StartUnlimited ==
  /\ ReadLine
  /\ concurrent > 1
  /\ running' = running \cup {Head(pipe)}
  /\ started' = started + 1
  /\ UNCHANGED <<pass1Vars, pc, cur, workersLeft, countVars, c, handled,
                 panicking, prevRemoved, exit>>

\* Mutant of ReadAndStart: off by one in the test of workersLeft.
StartOneMore ==
  /\ ReadLine
  /\ concurrent > 1
  /\ workersLeft >= 0
  /\ running' = running \cup {Head(pipe)}
  /\ workersLeft' = workersLeft - 1
  /\ started' = started + 1
  /\ UNCHANGED <<pass1Vars, pc, cur, countVars, c, handled, panicking,
                 prevRemoved, exit>>

\* Start concurrent jobs at beginning.
ReadAndStart ==
  /\ ReadLine
  /\ concurrent > 1
  /\ workersLeft > 0
  /\ running' = running \cup {Head(pipe)}
  /\ workersLeft' = workersLeft - 1
  /\ started' = started + 1
  /\ UNCHANGED <<pass1Vars, pc, cur, countVars, c, handled, panicking,
                 prevRemoved, exit>>

\* Start next job, after some job has finished.
ReadFull ==
  /\ ReadLine
  /\ concurrent > 1
  /\ workersLeft = 0
  /\ cur' = Head(pipe)
  /\ pc' = "full"
  /\ UNCHANGED <<pass1Vars, started, workersLeft, countVars, running, c, handled,
                 panicking, prevRemoved, exit>>

\* waitAndCheck: take one result from the channel.
Count(r) ==
  /\ generated' = generated + (IF r = "ok" THEN 1 ELSE 0)
  /\ reused' = reused + (IF r = "reuse" THEN 1 ELSE 0)
  /\ errors' = errors + (IF r = "fail" THEN 1 ELSE 0)

WaitAndCheck ==
  /\ exit = "run"
  /\ c # <<>>
  /\ c' = Tail(c)
  /\ Count(Head(c))

InlineDone ==
  /\ pc = "inlineWait"
  /\ ~panicking
  /\ WaitAndCheck
  /\ started' = started - 1
  /\ pc' = "scan"
  /\ UNCHANGED <<pass1Vars, pipe, cur, workersLeft, running, handled, panicking,
                 prevRemoved, exit>>

\* Mutant of StartNext: the finished job is not subtracted.
StartNextUncounted ==
  /\ pc = "full"
  /\ WaitAndCheck
  /\ started' = started + 1
  /\ running' = running \cup {cur}
  /\ cur' = None
  /\ pc' = "scan"
  /\ UNCHANGED <<pass1Vars, pipe, workersLeft, handled, panicking, prevRemoved,
                 exit>>

\* Mutant of StartNext: main waits for a job but forgets the name it has read.
StartNextForgotten ==
  /\ pc = "full"
  /\ WaitAndCheck
  /\ started' = started - 1
  /\ cur' = None
  /\ pc' = "scan"
  /\ UNCHANGED <<pass1Vars, pipe, workersLeft, running, handled, panicking,
                 prevRemoved, exit>>

StartNext ==
  /\ pc = "full"
  /\ WaitAndCheck
  /\ started' = started - 1 + 1
  /\ running' = running \cup {cur}
  /\ cur' = None
  /\ pc' = "scan"
  /\ UNCHANGED <<pass1Vars, pipe, workersLeft, handled, panicking, prevRemoved,
                 exit>>

EndOfInput ==
  /\ exit = "run"
  /\ pc = "scan"
  /\ pipe = <<>> /\ eof
  /\ pc' = "drain"
  /\ UNCHANGED <<pass1Vars, pipe, cur, started, workersLeft, countVars, running,
                 c, handled, panicking, prevRemoved, exit>>

\* The scanner stops at an error; scanner.Err() is looked at after all jobs.
ReadError ==
  /\ exit = "run"
  /\ pc = "scan"
  /\ pc' = "broken"
  /\ UNCHANGED <<pass1Vars, pipe, cur, started, workersLeft, countVars, running,
                 c, handled, panicking, prevRemoved, exit>>

\* Wait for all jobs to be finished.
WaitForJob ==
  /\ pc \in {"drain", "broken"}
  /\ started > 0
  /\ WaitAndCheck
  /\ started' = started - 1
  /\ UNCHANGED <<pass1Vars, pipe, pc, cur, workersLeft, running, handled,
                 panicking, prevRemoved, exit>>

\* Mutant of AllDone: main does not wait for the last jobs.
AllDoneNoWait ==
  /\ exit = "run"
  /\ pc \in {"drain", "broken"}
  /\ IF pc = "broken" \/ errors > 0
       THEN exit' = "failed" /\ UNCHANGED pc
       ELSE pc' = "remove" /\ UNCHANGED exit
  /\ UNCHANGED <<pass1Vars, pipe, cur, started, workersLeft, countVars, running,
                 c, handled, panicking, prevRemoved>>

AllDone ==
  /\ exit = "run"
  /\ pc \in {"drain", "broken"}
  /\ started <= 0
  /\ IF pc = "broken" \/ errors > 0
       THEN exit' = "failed" /\ UNCHANGED pc
       ELSE pc' = "remove" /\ UNCHANGED exit
  /\ UNCHANGED <<pass1Vars, pipe, cur, started, workersLeft, countVars, running,
                 c, handled, panicking, prevRemoved>>

\* pass2 removes .prev and main ends the process, or os.RemoveAll fails.
RemovePrev ==
  /\ exit = "run"
  /\ pc = "remove"
  /\ \/ prevRemoved' = TRUE /\ exit' = "ok"
     \/ UNCHANGED prevRemoved /\ exit' = "failed"
  /\ UNCHANGED <<pass1Vars, pipe, pc, cur, started, workersLeft, countVars,
                 running, c, handled, panicking>>

-----------------------------------------------------------------------------
(***************************************************************************)
(* A worker: pass2File.  Its deferred function sends the result, "fail"    *)
(* only if the worker panics.  A panic ends the process, but main may be   *)
(* faster and see the result.  The Go runtime also ends the process if no  *)
(* goroutine can ever go on.                                               *)
(***************************************************************************)
Finish(d, r) ==
  /\ exit = "run"
  /\ d \in running
  /\ Len(c) < concurrent
  /\ c' = Append(c, r)
  /\ running' = running \ {d}
  /\ handled' = handled \cup {d}
  /\ panicking' = (panicking \/ r = "fail")
  /\ pc' = IF pc = "inline" THEN "inlineWait" ELSE pc
  /\ UNCHANGED <<pass1Vars, pipe, cur, started, workersLeft, countVars,
                 prevRemoved, exit>>

\* The channel has no buffer, and main, which is to receive, is itself the worker.
Asleep == concurrent = 0 /\ pc = "inline"

Crash ==
  /\ exit = "run"
  /\ panicking \/ Asleep
  /\ exit' = "crash"
  /\ UNCHANGED <<pass1Vars, pipe, pc, cur, started, workersLeft, countVars,
                 running, c, handled, panicking, prevRemoved>>

\* abort.Msg in a worker, for a missing or unreadable file.
Abort(d) ==
  /\ exit = "run"
  /\ d \in running
  /\ exit' = "failed"
  /\ UNCHANGED <<pass1Vars, pipe, pc, cur, started, workersLeft, countVars,
                 running, c, handled, panicking, prevRemoved>>

Pass1Step == (\E d \in Devices : Announce(d)) \/ ClosePipe

MainStep ==
  \/ ReadInline
  \/ ReadAndStart
  \/ ReadFull
  \/ InlineDone
  \/ StartNext
  \/ EndOfInput
  \/ WaitForJob
  \/ AllDone
  \/ RemovePrev

WorkerStep(d) == (\E r \in Result : Finish(d, r)) \/ Abort(d)

Next ==
  \/ Pass1Step
  \/ MainStep
  \/ \E d \in Devices : WorkerStep(d)
  \/ ReadError
  \/ Crash

(***************************************************************************)
(* Pass 1 ends eventually, every goroutine that can run is run eventually  *)
(* by the Go scheduler, and a panic ends the process.  Nothing forces the  *)
(* scanner to fail.                                                        *)
(***************************************************************************)
Fairness ==
  /\ WF_vars(ClosePipe)
  /\ WF_vars(MainStep)
  /\ WF_vars(Crash)
  /\ \A d \in Devices : WF_vars(\E r \in Result : Finish(d, r))

Spec == Init /\ [][Next]_vars
FairSpec == Spec /\ Fairness

-----------------------------------------------------------------------------
(***************************************************************************)
(* Properties.                                                             *)
(***************************************************************************)
\* Types of the variables.  The sequential mode counts started below zero,
\* because it calls waitAndCheck for jobs that have not been counted.
TypeOK ==
  /\ concurrent \in Concurrency
  /\ announced \in SUBSET Devices
  /\ pipe \in Seq(Devices)
  /\ eof \in BOOLEAN
  /\ pc \in {"scan", "full", "inline", "inlineWait", "drain", "broken", "remove"}
  /\ cur \in Devices \cup {None}
  /\ started \in Int
  /\ workersLeft \in Nat
  /\ generated \in Nat /\ reused \in Nat /\ errors \in Nat
  /\ running \in SUBSET Devices
  /\ c \in Seq(Result)
  /\ handled \in SUBSET Devices
  /\ panicking \in BOOLEAN
  /\ prevRemoved \in BOOLEAN
  /\ exit \in {"run", "ok", "failed", "crash"}

\* Never more than the configured number of devices are worked on, and a worker
\* never waits for space in the channel, not even when main has stopped taking
\* results, because it waits for the next name.
WorkersBounded ==
  concurrent > 0 /\ running # {} => Cardinality(running) + Len(c) <= concurrent

\* A name that was read from the pipe is worked on by exactly one worker.
EachDeviceOnce ==
  /\ announced = Range(pipe) \cup running \cup handled \cup ({cur} \ {None})
  /\ Cardinality(announced) = Len(pipe) + Cardinality(running)
                                + Cardinality(handled) + Cardinality({cur} \ {None})

\* Directory .prev is removed and the program ends with success only after
\* the last worker has ended, all of pass 1's devices were read and processed, each
\* is counted once, and none has failed.
SuccessMeansAll ==
  pc = "remove" \/ prevRemoved \/ exit = "ok" =>
    /\ running = {} /\ c = <<>> /\ ~panicking /\ errors = 0
    /\ eof /\ handled = announced
    /\ generated + reused = Cardinality(handled)

\* The program ends once pass 1 has ended.
Termination == <>(exit # "run")
=============================================================================
