------------------------- MODULE Pass2WorkersProofs -------------------------
(***************************************************************************)
(* Proofs about module Pass2Workers, for any number of devices and any     *)
(* value of concurrency_pass2.                                             *)
(*                                                                         *)
(* What main knows are counters only.  The inductive invariant relates     *)
(* them to the workers: started is the number of workers that run or whose *)
(* result is still in the channel, and it stays within the tickets of      *)
(* workersLeft that have been given away.                                  *)
(***************************************************************************)
EXTENDS Pass2Workers, DataLemmas, FiniteSetTheorems, TLAPS

\* Concurrent mode.
Tickets ==
  concurrent > 1 =>
    /\ pc \in {"scan", "full", "drain", "broken", "remove"}
    /\ started = Cardinality(running) + Len(c)
    /\ started <= concurrent - workersLeft
    /\ pc = "full" => workersLeft = 0

\* Sequential mode: main does the work itself.
Sequential ==
  concurrent <= 1 =>
    /\ pc # "full"
    /\ started <= 0
    /\ pc = "inline" => Cardinality(running) = 1 /\ c = <<>>
    /\ pc = "inlineWait" => running = {} /\ Len(c) = 1
    /\ pc \notin {"inline", "inlineWait"} => running = {} /\ c = <<>>

\* Each device is at one place.
Places ==
  /\ announced = Range(pipe) \cup running \cup handled \cup ({cur} \ {None})
  /\ running \cap handled = {}
  /\ \A d \in Range(pipe) : d \notin running \cup handled \cup {cur}
  /\ IsInjective(pipe)
  /\ cur \notin running \cup handled
  /\ cur # None <=> pc = "full"

\* Each result is counted once.
Counted ==
  /\ Cardinality(handled) = generated + reused + errors + Len(c)
  /\ panicking => errors > 0 \/ "fail" \in Range(c)

\* The last phases of main.
Ending ==
  /\ pc \in {"drain", "remove"} => eof /\ pipe = <<>>
  /\ pc = "remove" => started <= 0 /\ errors = 0
  /\ prevRemoved \/ exit = "ok" => pc = "remove"

Inv == TypeOK /\ Tickets /\ Sequential /\ Places /\ Counted /\ Ending

-----------------------------------------------------------------------------
(***************************************************************************)
(* Sets of devices and the channel.                                        *)
(***************************************************************************)
\* Sets of devices are finite.
LEMMA FiniteDevices ==
  ASSUME NEW S \in SUBSET Devices
  PROVE  IsFiniteSet(S) /\ Cardinality(S) \in Nat /\ (Cardinality(S) = 0 <=> S = {})
BY WorkersAssumption, FS_Subset, FS_CardinalityType, FS_EmptySet

\* A job is started for one more device.
LEMMA AddDevice ==
  ASSUME NEW S \in SUBSET Devices, NEW d \in Devices \ S
  PROVE  Cardinality(S \cup {d}) = Cardinality(S) + 1
BY FiniteDevices, FS_AddElement

\* A worker ends.
LEMMA RemoveDevice ==
  ASSUME NEW S \in SUBSET Devices, NEW d \in S
  PROVE  Cardinality(S \ {d}) = Cardinality(S) - 1
BY FiniteDevices, FS_RemoveElement

\* In sequential mode nothing is left when the only worker ends.
LEMMA OneDevice ==
  ASSUME NEW S \in SUBSET Devices, NEW d \in S, Cardinality(S) = 1
  PROVE  S \ {d} = {}
<1>1. S \ {d} \in SUBSET Devices /\ Cardinality(S \ {d}) = 0
  BY RemoveDevice
<1> QED  BY <1>1, FiniteDevices

-----------------------------------------------------------------------------
(***************************************************************************)
(* Types.                                                                  *)
(***************************************************************************)
\* A line of the pipe is the name of a device.
LEMMA ReadLineType ==
  ASSUME TypeOK, ReadLine
  PROVE  pipe' \in Seq(Devices) /\ Head(pipe) \in Devices
BY RangeTail DEF TypeOK, ReadLine

\* waitAndCheck takes one result and counts it once.
LEMMA WaitAndCheckType ==
  ASSUME TypeOK, WaitAndCheck
  PROVE  /\ c' \in Seq(Result) /\ Head(c) \in Result /\ Len(c') = Len(c) - 1 /\ Len(c) > 0
         /\ generated' \in Nat /\ reused' \in Nat /\ errors' \in Nat
         /\ generated + reused + errors + Len(c) = generated' + reused' + errors' + Len(c')
         /\ errors' >= errors
         /\ Head(c) = "fail" => errors' > 0
<1>1. c \in Seq(Result) /\ c # <<>> /\ c' = Tail(c) /\ Count(Head(c))
  BY DEF TypeOK, WaitAndCheck
<1>2. Head(c) \in Result /\ c' \in Seq(Result) /\ Len(c') = Len(c) - 1 /\ Len(c) > 0
  BY <1>1
<1>3. generated \in Nat /\ reused \in Nat /\ errors \in Nat
  BY DEF TypeOK
<1> QED  BY <1>1, <1>2, <1>3 DEF Count, Result

\* Types at start.
LEMMA TypeInit == Init => TypeOK
<1> SUFFICES ASSUME Init  PROVE TypeOK
  OBVIOUS
<1>1. concurrent \in Nat /\ concurrent \in Concurrency /\ workersLeft = concurrent
  BY WorkersAssumption DEF Init
<1>2. pipe \in Seq(Devices) /\ c \in Seq(Result)
  BY DEF Init
<1>3. announced \in SUBSET Devices /\ running \in SUBSET Devices /\ handled \in SUBSET Devices
  BY DEF Init
<1>4. started \in Int /\ generated \in Nat /\ reused \in Nat /\ errors \in Nat
  BY DEF Init
<1>5. eof \in BOOLEAN /\ panicking \in BOOLEAN /\ prevRemoved \in BOOLEAN
  BY DEF Init
<1>6. /\ pc \in {"scan", "full", "inline", "inlineWait", "drain", "broken", "remove"}
      /\ cur \in Devices \cup {None}
      /\ exit \in {"run", "ok", "failed", "crash"}
  BY DEF Init
<1> QED  BY <1>1, <1>2, <1>3, <1>4, <1>5, <1>6 DEF TypeOK

\* Every step keeps the types of the variables.
LEMMA TypeStep == TypeOK /\ Places /\ [Next]_vars => TypeOK'
<1> SUFFICES ASSUME TypeOK, Places, [Next]_vars  PROVE TypeOK'
  OBVIOUS
<1> USE DEF TypeOK
<1>1. ASSUME NEW d \in Devices, Announce(d)  PROVE TypeOK'
  BY <1>1 DEF Announce, countVars
<1>2. CASE ClosePipe
  BY <1>2 DEF ClosePipe, countVars
<1>3. CASE ReadInline
  BY <1>3, ReadLineType DEF ReadInline, ReadLine, countVars, pass1Vars
<1>4. CASE ReadAndStart
  BY <1>4, ReadLineType DEF ReadAndStart, ReadLine, countVars, pass1Vars
<1>5. CASE ReadFull
  BY <1>5, ReadLineType DEF ReadFull, ReadLine, countVars, pass1Vars
<1>6. CASE InlineDone
  BY <1>6, WaitAndCheckType DEF InlineDone, pass1Vars
<1>7. CASE StartNext
  <2>1. WaitAndCheck
    BY <1>7 DEF StartNext
  <2>2. running' \in SUBSET Devices
    BY <1>7 DEF StartNext, Places
  <2> QED  BY <1>7, <2>1, <2>2, WaitAndCheckType DEF StartNext, pass1Vars
<1>8. CASE EndOfInput \/ ReadError
  BY <1>8 DEF EndOfInput, ReadError, countVars, pass1Vars
<1>9. CASE WaitForJob
  BY <1>9, WaitAndCheckType DEF WaitForJob, pass1Vars
<1>10. CASE AllDone
  BY <1>10 DEF AllDone, countVars, pass1Vars
<1>11. CASE RemovePrev
  BY <1>11 DEF RemovePrev, countVars, pass1Vars
<1>12. ASSUME NEW d \in Devices, NEW r \in Result, Finish(d, r)  PROVE TypeOK'
  BY <1>12 DEF Finish, countVars, pass1Vars
<1>13. ASSUME NEW d \in Devices, Abort(d)  PROVE TypeOK'
  BY <1>13 DEF Abort, countVars, pass1Vars
<1>14. CASE Crash
  BY <1>14 DEF Crash, countVars, pass1Vars
<1>15. CASE UNCHANGED vars
  BY <1>15 DEF vars, countVars, pass1Vars
<1> HIDE DEF TypeOK
<1> QED
  BY <1>1, <1>2, <1>3, <1>4, <1>5, <1>6, <1>7, <1>8, <1>9, <1>10, <1>11, <1>12,
     <1>13, <1>14, <1>15 DEF Next, Pass1Step, MainStep, WorkerStep

-----------------------------------------------------------------------------
(***************************************************************************)
(* Each device is at one place.                                            *)
(***************************************************************************)
\* The name read from the pipe is new.
LEMMA NextName ==
  ASSUME TypeOK, Places, ReadLine
  PROVE  /\ Head(pipe) \in Devices
         /\ Range(pipe) = Range(pipe') \cup {Head(pipe)}
         /\ Head(pipe) \notin Range(pipe')
         /\ Head(pipe) \notin running \cup handled \cup {cur}
         /\ IsInjective(pipe')
         /\ cur = None /\ pc = "scan"
<1>1. pipe \in Seq(Devices) /\ pipe # <<>> /\ pipe' = Tail(pipe) /\ pc = "scan"
  BY DEF TypeOK, ReadLine
<1>2. IsInjective(pipe) /\ (cur # None <=> pc = "full")
  BY DEF Places
<1>3. /\ Head(pipe) \in Devices
      /\ Range(pipe) = Range(pipe') \cup {Head(pipe)}
      /\ Head(pipe) \notin Range(pipe')
      /\ IsInjective(pipe')
  BY <1>1, <1>2, RangeTail, HeadNotInTail
<1>4. Head(pipe) \notin running \cup handled \cup {cur}
  BY <1>3 DEF Places
<1> QED  BY <1>1, <1>2, <1>3, <1>4

\* Every step keeps each device at one place.
LEMMA PlacesStep == TypeOK /\ Places /\ [Next]_vars => Places'
<1> SUFFICES ASSUME TypeOK, Places, [Next]_vars  PROVE Places'
  OBVIOUS
<1>1. ASSUME NEW d \in Devices, Announce(d)  PROVE Places'
  <2>1. /\ announced' = announced \cup {d} /\ pipe' = Append(pipe, d) /\ d \notin announced
        /\ UNCHANGED <<pc, cur, running, handled>>
    BY <1>1 DEF Announce
  <2>2. Range(pipe') = Range(pipe) \cup {d}
    BY <2>1, RangeAppend DEF TypeOK
  <2>3. d \notin Range(pipe) \cup running \cup handled \cup {cur}
    BY <2>1, WorkersAssumption DEF Places
  <2>4. IsInjective(pipe')
    BY <2>1, <2>3, AppendNew DEF TypeOK, Places
  <2> QED  BY <2>1, <2>2, <2>3, <2>4 DEF Places
<1>2. CASE ClosePipe
  BY <1>2 DEF ClosePipe, Places
<1>3. CASE ReadInline
  <2>1. /\ running' = running \cup {Head(pipe)} /\ pc' = "inline"
        /\ UNCHANGED <<announced, cur, handled>>
    BY <1>3 DEF ReadInline, pass1Vars
  <2> QED  BY <1>3, <2>1, NextName DEF ReadInline, Places
<1>4. CASE ReadAndStart
  <2>1. running' = running \cup {Head(pipe)} /\ UNCHANGED <<announced, pc, cur, handled>>
    BY <1>4 DEF ReadAndStart, pass1Vars
  <2> QED  BY <1>4, <2>1, NextName DEF ReadAndStart, Places
<1>5. CASE ReadFull
  <2>1. cur' = Head(pipe) /\ pc' = "full" /\ UNCHANGED <<announced, running, handled>>
    BY <1>5 DEF ReadFull, pass1Vars
  <2> QED  BY <1>5, <2>1, NextName, WorkersAssumption DEF ReadFull, Places
<1>6. CASE InlineDone
  <2>1. /\ pc = "inlineWait" /\ pc' = "scan"
        /\ UNCHANGED <<announced, pipe, cur, running, handled>>
    BY <1>6 DEF InlineDone, pass1Vars
  <2> QED  BY <2>1 DEF Places
<1>7. CASE StartNext
  <2>1. /\ pc = "full" /\ pc' = "scan" /\ running' = running \cup {cur} /\ cur' = None
        /\ UNCHANGED <<announced, pipe, handled>>
    BY <1>7 DEF StartNext, pass1Vars
  <2>2. cur \in Devices /\ cur # None
    BY <2>1 DEF Places, TypeOK
  <2>3. None \notin running' \cup handled'
    BY <2>1, <2>2, WorkersAssumption DEF TypeOK
  <2>4. \A d \in Range(pipe) : d # None
    BY <2>2, WorkersAssumption DEF TypeOK, Range
  <2> QED  BY <2>1, <2>2, <2>3, <2>4 DEF Places
<1>8. CASE EndOfInput \/ ReadError
  <2>1. /\ pc = "scan" /\ pc' \in {"drain", "broken"}
        /\ UNCHANGED <<announced, pipe, cur, running, handled>>
    BY <1>8 DEF EndOfInput, ReadError, pass1Vars
  <2> QED  BY <2>1 DEF Places
<1>9. CASE WaitForJob
  <2>1. UNCHANGED <<announced, pipe, pc, cur, running, handled>>
    BY <1>9 DEF WaitForJob, pass1Vars
  <2> QED  BY <2>1 DEF Places
<1>10. CASE AllDone
  <2>1. /\ pc \in {"drain", "broken"} /\ pc' \in {"drain", "broken", "remove"}
        /\ UNCHANGED <<announced, pipe, cur, running, handled>>
    BY <1>10 DEF AllDone, pass1Vars
  <2> QED  BY <2>1 DEF Places
<1>11. CASE RemovePrev
  BY <1>11 DEF RemovePrev, pass1Vars, Places
<1>12. ASSUME NEW d \in Devices, NEW r \in Result, Finish(d, r)  PROVE Places'
  <2>1. /\ d \in running /\ running' = running \ {d} /\ handled' = handled \cup {d}
        /\ pc' = IF pc = "inline" THEN "inlineWait" ELSE pc
        /\ UNCHANGED <<announced, pipe, cur>>
    BY <1>12 DEF Finish, pass1Vars
  <2> QED  BY <2>1 DEF Places
<1>13. ASSUME NEW d \in Devices, Abort(d)  PROVE Places'
  BY <1>13 DEF Abort, pass1Vars, Places
<1>14. CASE Crash
  BY <1>14 DEF Crash, pass1Vars, Places
<1>15. CASE UNCHANGED vars
  BY <1>15 DEF vars, pass1Vars, Places
<1> QED
  BY <1>1, <1>2, <1>3, <1>4, <1>5, <1>6, <1>7, <1>8, <1>9, <1>10, <1>11, <1>12,
     <1>13, <1>14, <1>15 DEF Next, Pass1Step, MainStep, WorkerStep

-----------------------------------------------------------------------------
(***************************************************************************)
(* Each result is counted once.                                            *)
(***************************************************************************)
\* waitAndCheck moves a result from the channel to the counters.
LEMMA CountedWait ==
  ASSUME TypeOK, Counted, WaitAndCheck, UNCHANGED <<handled, panicking>>
  PROVE  Counted'
<1>0. handled' = handled /\ Cardinality(handled) = generated + reused + errors + Len(c)
  BY DEF Counted
<1>1. /\ Len(c') = Len(c) - 1 /\ Len(c) \in Nat /\ Len(c') \in Nat
      /\ generated + reused + errors + Len(c) = generated' + reused' + errors' + Len(c')
      /\ generated' \in Nat /\ reused' \in Nat /\ errors' \in Nat
      /\ generated \in Nat /\ reused \in Nat /\ errors \in Nat
  BY WaitAndCheckType DEF TypeOK, Counted
<1>2. Cardinality(handled') = generated' + reused' + errors' + Len(c')
  BY <1>0, <1>1
<1>3. Range(c) = Range(c') \cup {Head(c)}
  BY RangeTail DEF TypeOK, WaitAndCheck
<1>4. ASSUME panicking'  PROVE errors' > 0 \/ "fail" \in Range(c')
  <2>1. errors > 0 \/ "fail" \in Range(c)
    BY <1>4 DEF Counted
  <2>2. CASE errors > 0
    BY <2>2, <1>1, WaitAndCheckType
  <2>3. CASE "fail" \in Range(c')
    BY <2>3
  <2>4. CASE "fail" = Head(c)
    BY <2>4, WaitAndCheckType
  <2> QED  BY <2>1, <2>2, <2>3, <2>4, <1>3
<1> QED  BY <1>2, <1>4 DEF Counted

\* Every step keeps the counters.
LEMMA CountedStep == TypeOK /\ Places /\ Counted /\ [Next]_vars => Counted'
<1> SUFFICES ASSUME TypeOK, Places, Counted, [Next]_vars  PROVE Counted'
  OBVIOUS
<1>1. CASE UNCHANGED <<countVars, c, handled, panicking>>
  BY <1>1 DEF Counted, countVars
<1>2. CASE InlineDone \/ StartNext \/ WaitForJob
  BY <1>2, CountedWait DEF InlineDone, StartNext, WaitForJob
<1>3. ASSUME NEW d \in Devices, NEW r \in Result, Finish(d, r)  PROVE Counted'
  <2>1. /\ d \in running /\ c' = Append(c, r) /\ handled' = handled \cup {d}
        /\ panicking' = (panicking \/ r = "fail")
        /\ generated' = generated /\ reused' = reused /\ errors' = errors
    BY <1>3 DEF Finish, countVars
  <2>2. d \notin handled
    BY <2>1 DEF Places
  <2>3. Cardinality(handled') = Cardinality(handled) + 1
    BY <2>1, <2>2, AddDevice DEF TypeOK
  <2>4. Len(c') = Len(c) + 1 /\ Len(c) \in Nat
    BY <2>1 DEF TypeOK
  <2>5. Cardinality(handled') = generated' + reused' + errors' + Len(c')
    BY <2>1, <2>3, <2>4 DEF Counted, TypeOK
  <2>6. Range(c') = Range(c) \cup {r}
    BY <2>1, RangeAppend DEF TypeOK
  <2>7. panicking' => errors' > 0 \/ "fail" \in Range(c')
    BY <2>1, <2>6 DEF Counted
  <2> QED  BY <2>5, <2>7 DEF Counted
<1>4. UNCHANGED <<countVars, c, handled, panicking>> \/ InlineDone \/ StartNext
        \/ WaitForJob \/ \E d \in Devices, r \in Result : Finish(d, r)
  <2>1. ASSUME NEW d \in Devices, Announce(d) \/ Abort(d)
        PROVE  UNCHANGED <<countVars, c, handled, panicking>>
    BY <2>1 DEF Announce, Abort
  <2>2. CASE ClosePipe \/ ReadInline \/ ReadAndStart \/ ReadFull
    BY <2>2 DEF ClosePipe, ReadInline, ReadAndStart, ReadFull
  <2>3. CASE EndOfInput \/ ReadError \/ AllDone \/ RemovePrev \/ Crash
    BY <2>3 DEF EndOfInput, ReadError, AllDone, RemovePrev, Crash
  <2>4. CASE UNCHANGED vars
    BY <2>4 DEF vars, countVars
  <2> QED  BY <2>1, <2>2, <2>3, <2>4 DEF Next, Pass1Step, MainStep, WorkerStep
<1> QED  BY <1>1, <1>2, <1>3, <1>4

-----------------------------------------------------------------------------
(***************************************************************************)
(* The last phases of main.                                                *)
(***************************************************************************)
\* main leaves its loop at end of file, and goes on to remove .prev only then.
LEMMA EndingStep == TypeOK /\ Ending /\ [Next]_vars => Ending'
<1> SUFFICES ASSUME TypeOK, Ending, [Next]_vars  PROVE Ending'
  OBVIOUS
<1>1. ASSUME NEW d \in Devices, Announce(d)  PROVE Ending'
  BY <1>1 DEF Announce, Ending, countVars
<1>2. CASE ClosePipe
  BY <1>2 DEF ClosePipe, Ending, countVars
<1>3. CASE ReadInline \/ ReadAndStart \/ ReadFull
  <2>1. exit = "run" /\ pc = "scan" /\ exit' = exit /\ prevRemoved' = prevRemoved
        /\ pc' \in {"inline", "scan", "full"}
    BY <1>3 DEF ReadInline, ReadAndStart, ReadFull, ReadLine
  <2> QED  BY <2>1 DEF Ending
<1>4. CASE InlineDone \/ StartNext
  <2>1. exit = "run" /\ pc \in {"inlineWait", "full"} /\ exit' = exit
        /\ prevRemoved' = prevRemoved /\ pc' = "scan"
    BY <1>4 DEF InlineDone, StartNext, WaitAndCheck
  <2> QED  BY <2>1 DEF Ending
<1>5. CASE EndOfInput \/ ReadError
  BY <1>5 DEF EndOfInput, ReadError, Ending, pass1Vars
<1>6. CASE WaitForJob
  BY <1>6 DEF WaitForJob, WaitAndCheck, Ending, pass1Vars
<1>7. CASE AllDone
  BY <1>7 DEF AllDone, Ending, pass1Vars, countVars, TypeOK
<1>8. CASE RemovePrev
  BY <1>8 DEF RemovePrev, Ending, pass1Vars, countVars
<1>9. ASSUME NEW d \in Devices, NEW r \in Result, Finish(d, r)  PROVE Ending'
  BY <1>9 DEF Finish, Ending, pass1Vars, countVars
<1>10. ASSUME NEW d \in Devices, Abort(d)  PROVE Ending'
  BY <1>10 DEF Abort, Ending, pass1Vars, countVars
<1>11. CASE Crash
  BY <1>11 DEF Crash, Ending, pass1Vars, countVars
<1>12. CASE UNCHANGED vars
  BY <1>12 DEF vars, Ending, pass1Vars, countVars
<1> QED
  BY <1>1, <1>2, <1>3, <1>4, <1>5, <1>6, <1>7, <1>8, <1>9, <1>10, <1>11, <1>12
     DEF Next, Pass1Step, MainStep, WorkerStep

-----------------------------------------------------------------------------
(***************************************************************************)
(* What main's counters say about the workers.                             *)
(***************************************************************************)
Mode == Tickets /\ Sequential

\* A step that leaves alone all that Mode is about.
LEMMA ModeUnchanged ==
  ASSUME Mode, UNCHANGED <<concurrent, pc, started, workersLeft, running, c>>
  PROVE  Mode'
BY DEF Mode, Tickets, Sequential

\* Every step keeps the relation between started and the workers.
LEMMA ModeStep == TypeOK /\ Places /\ Mode /\ [Next]_vars => Mode'
<1> SUFFICES ASSUME TypeOK, Places, Mode, [Next]_vars  PROVE Mode'
  OBVIOUS
<1> DEFINE n == Cardinality(running)
<1>0. /\ concurrent \in Nat /\ started \in Int /\ workersLeft \in Nat /\ Len(c) \in Nat
      /\ n \in Nat /\ (n = 0 <=> running = {})
  BY WorkersAssumption, FiniteDevices DEF TypeOK
<1>1. ASSUME NEW d \in Devices, Announce(d)  PROVE Mode'
  BY <1>1, ModeUnchanged DEF Announce
<1>2. CASE ClosePipe
  BY <1>2, ModeUnchanged DEF ClosePipe
<1>3. CASE ReadInline
  <2>1. /\ concurrent <= 1 /\ concurrent' = concurrent /\ pc = "scan" /\ pc' = "inline"
        /\ running' = running \cup {Head(pipe)}
        /\ UNCHANGED <<started, workersLeft, c>>
    BY <1>3, <1>0 DEF ReadInline, ReadLine, pass1Vars
  <2>2. running = {} /\ c = <<>> /\ started <= 0
    BY <2>1 DEF Mode, Sequential
  <2>3. Cardinality(running') = 1
    <3>1. Head(pipe) \in Devices \ running
      BY <1>3, NextName DEF ReadInline
    <3>2. Cardinality(running') = n + 1 /\ n = 0
      BY <2>1, <2>2, <3>1, <1>0, AddDevice DEF TypeOK
    <3> QED  BY <3>2
  <2> QED  BY <2>1, <2>2, <2>3, <1>0 DEF Mode, Tickets, Sequential
<1>4. CASE ReadAndStart
  <2>1. /\ concurrent > 1 /\ concurrent' = concurrent /\ pc = "scan" /\ pc' = pc
        /\ running' = running \cup {Head(pipe)} /\ c' = c
        /\ workersLeft > 0 /\ workersLeft' = workersLeft - 1 /\ started' = started + 1
    BY <1>4 DEF ReadAndStart, ReadLine, pass1Vars
  <2>2. Cardinality(running') = n + 1
    BY <2>1, <1>4, NextName, AddDevice DEF ReadAndStart, TypeOK
  <2>3. started = n + Len(c) /\ started <= concurrent - workersLeft
    BY <2>1 DEF Mode, Tickets
  <2>4. started' = n + 1 + Len(c') /\ started' <= concurrent' - workersLeft'
    BY <2>1, <2>3, <1>0
  <2> QED  BY <2>1, <2>2, <2>4, <1>0 DEF Mode, Tickets, Sequential
<1>5. CASE ReadFull
  <2>1. /\ concurrent > 1 /\ pc' = "full" /\ workersLeft = 0
        /\ UNCHANGED <<concurrent, started, workersLeft, running, c>>
    BY <1>5 DEF ReadFull, pass1Vars
  <2> QED  BY <2>1, <1>0 DEF Mode, Tickets, Sequential
<1>6. CASE InlineDone
  <2>1. /\ pc = "inlineWait" /\ pc' = "scan" /\ WaitAndCheck /\ started' = started - 1
        /\ UNCHANGED <<concurrent, workersLeft, running>>
    BY <1>6 DEF InlineDone, pass1Vars
  <2>2. concurrent <= 1
    BY <2>1, <1>0 DEF Mode, Tickets
  <2>3. running = {} /\ Len(c) = 1 /\ started <= 0
    BY <2>1, <2>2 DEF Mode, Sequential
  <2>4. c' \in Seq(Result) /\ Len(c') = 0
    BY <2>1, <2>3, WaitAndCheckType
  <2>5. c' = <<>>
    BY <2>4
  <2> QED  BY <2>1, <2>2, <2>3, <2>5, <1>0 DEF Mode, Tickets, Sequential
<1>7. CASE StartNext
  <2>1. /\ pc = "full" /\ pc' = "scan" /\ WaitAndCheck /\ started' = started - 1 + 1
        /\ running' = running \cup {cur}
        /\ UNCHANGED <<concurrent, workersLeft>>
    BY <1>7 DEF StartNext, pass1Vars
  <2>2. concurrent > 1
    BY <2>1, <1>0 DEF Mode, Sequential
  <2>3. cur \in Devices \ running
    BY <2>1 DEF Places, TypeOK
  <2>4. Cardinality(running') = n + 1 /\ Len(c') = Len(c) - 1
    BY <2>1, <2>3, AddDevice, WaitAndCheckType DEF TypeOK
  <2>5. started = n + Len(c) /\ started <= concurrent - workersLeft
    BY <2>2 DEF Mode, Tickets
  <2>6. started' = n + 1 + Len(c') /\ started' <= concurrent' - workersLeft'
    BY <2>1, <2>4, <2>5, <1>0
  <2> QED  BY <2>1, <2>2, <2>4, <2>6, <1>0 DEF Mode, Tickets, Sequential
<1>8. CASE EndOfInput \/ ReadError
  <2>1. /\ pc = "scan" /\ pc' \in {"drain", "broken"}
        /\ UNCHANGED <<concurrent, started, workersLeft, running, c>>
    BY <1>8 DEF EndOfInput, ReadError, pass1Vars, countVars
  <2> QED  BY <2>1, <1>0 DEF Mode, Tickets, Sequential
<1>9. CASE WaitForJob
  <2>1. /\ pc \in {"drain", "broken"} /\ started > 0 /\ WaitAndCheck /\ started' = started - 1
        /\ UNCHANGED <<concurrent, pc, workersLeft, running>>
    BY <1>9 DEF WaitForJob, pass1Vars
  <2>2. concurrent > 1
    BY <2>1, <1>0 DEF Mode, Sequential
  <2>3. Len(c') = Len(c) - 1
    BY <2>1, WaitAndCheckType
  <2>4. started = n + Len(c) /\ started <= concurrent - workersLeft
    BY <2>2 DEF Mode, Tickets
  <2>5. started' = n + Len(c') /\ started' <= concurrent' - workersLeft'
    BY <2>1, <2>3, <2>4, <1>0
  <2> QED  BY <2>1, <2>2, <2>5, <1>0 DEF Mode, Tickets, Sequential
<1>10. CASE AllDone
  <2>1. /\ pc \in {"drain", "broken"} /\ pc' \in {"drain", "broken", "remove"}
        /\ UNCHANGED <<concurrent, started, workersLeft, running, c>>
    BY <1>10 DEF AllDone, pass1Vars, countVars
  <2> QED  BY <2>1, <1>0 DEF Mode, Tickets, Sequential
<1>11. CASE RemovePrev
  BY <1>11, ModeUnchanged DEF RemovePrev, pass1Vars
<1>12. ASSUME NEW d \in Devices, NEW r \in Result, Finish(d, r)  PROVE Mode'
  <2>1. /\ d \in running /\ running' = running \ {d} /\ c' = Append(c, r)
        /\ pc' = IF pc = "inline" THEN "inlineWait" ELSE pc
        /\ UNCHANGED <<concurrent, started, workersLeft>>
    BY <1>12 DEF Finish, pass1Vars
  <2>2. Cardinality(running') = n - 1 /\ Len(c') = Len(c) + 1
    BY <2>1, RemoveDevice DEF TypeOK
  <2>3. CASE concurrent > 1
    <3>1. started = n + Len(c) /\ started <= concurrent - workersLeft
      BY <2>3 DEF Mode, Tickets
    <3>2. started' = Cardinality(running') + Len(c') /\ started' <= concurrent' - workersLeft'
      BY <2>1, <2>2, <3>1, <1>0
    <3> QED  BY <2>1, <2>3, <3>2, <1>0 DEF Mode, Tickets, Sequential
  <2>4. CASE concurrent <= 1
    <3>1. pc = "inline" /\ n = 1 /\ c = <<>> /\ started <= 0
      BY <2>1, <2>4 DEF Mode, Sequential
    <3>2. running' = {} /\ Len(c') = 1
      BY <2>1, <2>2, <3>1, OneDevice DEF TypeOK
    <3> QED  BY <2>1, <2>4, <3>1, <3>2, <1>0 DEF Mode, Tickets, Sequential
  <2> QED  BY <2>3, <2>4, <1>0
<1>13. ASSUME NEW d \in Devices, Abort(d)  PROVE Mode'
  BY <1>13, ModeUnchanged DEF Abort, pass1Vars
<1>14. CASE Crash
  BY <1>14, ModeUnchanged DEF Crash, pass1Vars
<1>15. CASE UNCHANGED vars
  BY <1>15, ModeUnchanged DEF vars
<1> QED
  BY <1>1, <1>2, <1>3, <1>4, <1>5, <1>6, <1>7, <1>8, <1>9, <1>10, <1>11, <1>12,
     <1>13, <1>14, <1>15 DEF Next, Pass1Step, MainStep, WorkerStep

-----------------------------------------------------------------------------
(***************************************************************************)
(* The invariant and what follows from it.                                 *)
(***************************************************************************)
\* The invariant holds at start.
LEMMA InvInit == Init => Inv
<1> SUFFICES ASSUME Init  PROVE Inv
  OBVIOUS
<1>1. Places
  BY RangeEmpty DEF Init, Places, IsInjective
<1>2. Cardinality({}) = 0 /\ concurrent \in Nat
  BY FS_EmptySet, WorkersAssumption DEF Init
<1>3. Tickets
  BY <1>2 DEF Init, Tickets
<1>4. Sequential
  BY <1>2 DEF Init, Sequential
<1>5. Counted
  BY <1>2 DEF Init, Counted
<1>6. Ending
  BY DEF Init, Ending
<1> QED  BY <1>1, <1>3, <1>4, <1>5, <1>6, TypeInit DEF Inv

\* The state of the workers and what main counts agree in every state, for any
\* number of devices and every value of concurrency_pass2, 0 included.
THEOREM WorkersInvariance == Spec => []Inv
<1>1. Init => Inv
  BY InvInit
<1>2. Inv /\ [Next]_vars => Inv'
  BY TypeStep, PlacesStep, CountedStep, EndingStep, ModeStep DEF Inv, Mode
<1> QED  BY <1>1, <1>2, PTL DEF Spec

\* Type correctness of the model of pass 2.
THEOREM WorkersTypeCorrect == Spec => []TypeOK
<1>1. Inv => TypeOK
  BY DEF Inv
<1> QED  BY <1>1, WorkersInvariance, PTL

\* applyConcurrent never has more workers than concurrency_pass2 says, and none
\* of them ever waits for space in the channel of results.
THEOREM WorkersStayBounded == Spec => []WorkersBounded
<1>1. ASSUME Inv  PROVE WorkersBounded
  <2>1. /\ concurrent \in Nat /\ workersLeft \in Nat /\ Len(c) \in Nat
        /\ Cardinality(running) \in Nat
    BY <1>1, WorkersAssumption, FiniteDevices DEF Inv, TypeOK
  <2>2. CASE concurrent > 1
    BY <1>1, <2>1, <2>2 DEF Inv, Tickets, WorkersBounded
  <2>3. CASE concurrent = 1
    BY <1>1, <2>1, <2>3 DEF Inv, Sequential, WorkersBounded
  <2>4. CASE concurrent = 0
    BY <2>4 DEF WorkersBounded
  <2> QED  BY <2>1, <2>2, <2>3, <2>4
<1> QED  BY <1>1, WorkersInvariance, PTL

\* pass2 removes .prev, and ends with success, only if no worker is left and
\* the work on all devices that pass 1 has announced was successful.
THEOREM SuccessIsForAll == Spec => []SuccessMeansAll
<1>1. ASSUME Inv, pc = "remove"
      PROVE  /\ running = {} /\ c = <<>> /\ ~panicking /\ errors = 0
             /\ eof /\ handled = announced
             /\ generated + reused = Cardinality(handled)
  <2>1. /\ started <= 0 /\ started \in Int /\ errors = 0 /\ eof /\ pipe = <<>>
        /\ c \in Seq(Result) /\ Len(c) \in Nat /\ concurrent \in Nat
        /\ Cardinality(running) \in Nat /\ (Cardinality(running) = 0 <=> running = {})
        /\ generated \in Nat /\ reused \in Nat
    BY <1>1, WorkersAssumption, FiniteDevices DEF Inv, TypeOK, Ending
  <2>3. running = {} /\ c = <<>>
    <3>1. CASE concurrent > 1
      <4>1. Cardinality(running) = 0 /\ Len(c) = 0
        BY <1>1, <2>1, <3>1 DEF Inv, Tickets
      <4> QED  BY <2>1, <4>1
    <3>2. CASE concurrent <= 1
      BY <1>1, <3>2 DEF Inv, Sequential
    <3> QED  BY <3>1, <3>2, <2>1
  <2>4. handled = announced
    <3>1. cur = None
      BY <1>1 DEF Inv, Places
    <3> QED  BY <1>1, <2>1, <2>3, <3>1, RangeEmpty DEF Inv, Places
  <2>5. ~panicking
    BY <1>1, <2>1, <2>3, RangeEmpty DEF Inv, Counted
  <2>6. generated + reused = Cardinality(handled)
    BY <1>1, <2>1, <2>3 DEF Inv, Counted
  <2> QED  BY <2>1, <2>3, <2>4, <2>5, <2>6
<1>2. Inv => SuccessMeansAll
  BY <1>1 DEF SuccessMeansAll, Inv, Ending
<1> QED  BY <1>2, WorkersInvariance, PTL

\* The pipe holds as many devices as lines.
LEMMA PipeCardinality ==
  ASSUME TypeOK, IsInjective(pipe)
  PROVE  Cardinality(Range(pipe)) = Len(pipe)
<1>1. pipe \in [1 .. Len(pipe) -> Range(pipe)] /\ Len(pipe) \in Nat
  BY DEF TypeOK, Range
<1>2. pipe \in Injection(1 .. Len(pipe), Range(pipe))
  BY <1>1 DEF Injection, IsInjective
<1>3. pipe \in Surjection(1 .. Len(pipe), Range(pipe))
  BY <1>1 DEF Surjection, Range
<1>4. ExistsBijection(1 .. Len(pipe), Range(pipe))
  BY <1>2, <1>3 DEF ExistsBijection, Bijection
<1> QED  BY <1>1, <1>4, FS_CountingElements

\* Counting two disjoint sets of devices.
LEMMA DisjointUnion ==
  ASSUME NEW S \in SUBSET Devices, NEW T \in SUBSET Devices, S \cap T = {}
  PROVE  Cardinality(S \cup T) = Cardinality(S) + Cardinality(T)
<1>1. IsFiniteSet(S) /\ IsFiniteSet(T) /\ Cardinality(S) \in Nat /\ Cardinality(T) \in Nat
  BY FiniteDevices
<1>2. Cardinality(S \cup T) = Cardinality(S) + Cardinality(T) - Cardinality(S \cap T)
  BY <1>1, FS_Union
<1>3. Cardinality(S \cap T) = 0
  BY FS_EmptySet
<1> QED  BY <1>1, <1>2, <1>3

\* Every device that pass 1 has announced waits in the pipe, is held by main, is
\* worked on or has been handled, and never two of these.
THEOREM DevicesHandledOnce == Spec => []EachDeviceOnce
<1>1. ASSUME Inv  PROVE EachDeviceOnce
  <2> DEFINE P == Range(pipe)
             H == {cur} \ {None}
  <2>1. TypeOK /\ Places
    BY <1>1 DEF Inv
  <2>2. /\ P \in SUBSET Devices /\ H \in SUBSET Devices
        /\ running \in SUBSET Devices /\ handled \in SUBSET Devices
    BY <2>1 DEF TypeOK, Range
  <2>3. Cardinality(P) = Len(pipe)
    BY <2>1, PipeCardinality DEF Places
  <2>4. /\ P \cap running = {}
        /\ (P \cup running) \cap handled = {}
        /\ (P \cup running \cup handled) \cap H = {}
    BY <2>1 DEF Places
  <2>5. Cardinality(P \cup running) = Len(pipe) + Cardinality(running)
    BY <2>2, <2>3, <2>4, DisjointUnion
  <2>6. Cardinality(P \cup running \cup handled)
          = Cardinality(P \cup running) + Cardinality(handled)
    BY <2>2, <2>4, DisjointUnion
  <2>7. Cardinality(P \cup running \cup handled \cup H)
          = Cardinality(P \cup running \cup handled) + Cardinality(H)
    BY <2>2, <2>4, DisjointUnion
  <2>8. announced = P \cup running \cup handled \cup H
    BY <2>1 DEF Places
  <2> QED  BY <2>5, <2>6, <2>7, <2>8 DEF EachDeviceOnce
<1> QED  BY <1>1, WorkersInvariance, PTL
=============================================================================
