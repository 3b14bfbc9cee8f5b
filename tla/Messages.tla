------------------------------ MODULE Messages ------------------------------
(***************************************************************************)
(* The goroutines of pass 1 and the channels between them (spoc.go,        *)
(* background.go).                                                         *)
(*                                                                         *)
(* The job "main" runs the compiler phases of SpocMain.  It never prints:  *)
(* every message goes through the unbuffered channel c.msgChan to          *)
(* printMessages, which alone counts errors and whose return value is the  *)
(* exit status of the program.  checkRedundantRules runs as job "bg" on a  *)
(* copy of the spoc object if ConcurrencyPass1 >= 2.  That copy has a      *)
(* buffered channel of its own but SHARES the channel c.ready, on which    *)
(* both stopOnErr and finish of a sorting section wait.                    *)
(*                                                                         *)
(* A send on an unbuffered channel and its receive are one step.  Messages *)
(* of type info, progress and diag behave like warnings (they are printed  *)
(* and change nothing) and are not told apart from them.                   *)
(***************************************************************************)
EXTENDS Naturals, Sequences, FiniteSets, Functions

CONSTANTS
  BgCap,      \* capacity of the channel of the background job (code: 1000)
  MaxErrors,  \* option max_errors
  Levels,     \* values of option concurrency_pass1 to look at
  Types,      \* types of messages to look at, a subset of {"err", "warn"}
  Texts,      \* texts of messages, ordered as sort.Slice orders them
  Emitters,   \* bound: stages in which a job sends messages
  MaxSent     \* bound: number of messages sent by each job

ASSUME ConstAssumption ==
  /\ BgCap \in Nat \ {0}
  /\ MaxErrors \in Nat
  /\ Levels \subseteq Nat
  /\ Types \subseteq {"err", "warn"}
  /\ Texts \subseteq Nat
  /\ MaxSent \in [{"main", "bg"} -> Nat]

Job == {"main", "bg"}

(***************************************************************************)
(* Stages of the jobs.  A stage is a run of calls between two operations   *)
(* on channels other than sending a message.                               *)
(***************************************************************************)
Plain    == {"read", "setup", "rules", "nat", "supernet", "optimize", "print",
             "overlap"}
Sorted   == {"owner", "unused", "redundant"}    \* between sortingSpoc and finish
Finish   == {"ownerFin", "unusedFin", "redundantFin"}    \* <-c.ready in finish
Stop     == {"readStop", "setupStop", "lastStop"}        \* stopOnErr called
Wait     == {"readWait", "setupWait", "lastWait"}        \* <-c.ready in stopOnErr
Label    == Plain \cup Sorted \cup Finish \cup Stop \cup Wait
              \cup {"fork", "collect", "close", "done", "idle", "closeBg", "gone"}

Message == [typ : Types, text : Texts, job : Job, stage : Label, nr : Nat]

VARIABLES
  level,      \* ConcurrencyPass1, fixed at start
  pc,         \* where each job is
  list,       \* messages held by the goroutine of sortingSpoc of each job
  flushing,   \* jobs whose sorter knows that its list is complete
  chan,       \* content of channel of background job
  closed,     \* that channel has been closed
  printer,    \* "recv": waits for a message, "ready": blocked in c.ready <- true
  errCounter,
  exit,       \* "run", "returned" from printMessages, "exited" by abort.Msg, "panic"
  sent,       \* number of messages sent by each job
  out,        \* messages printed, in this order
  emitted     \* history: every message some job has sent

vars == <<level, pc, list, flushing, chan, closed, printer, errCounter, exit, sent, out,
          emitted>>

Init ==
  /\ level \in Levels
  /\ pc = [j \in Job |-> IF j = "main" THEN "read" ELSE "idle"]
  /\ list = [j \in Job |-> {}]
  /\ flushing = {}
  /\ chan = <<>>
  /\ closed = FALSE
  /\ printer = "recv"
  /\ errCounter = 0
  /\ exit = "run"
  /\ sent = [j \in Job |-> 0]
  /\ out = <<>>
  /\ emitted = {}

-----------------------------------------------------------------------------
(***************************************************************************)
(* printMessages: the body of the loop for an error or a warning.          *)
(***************************************************************************)
Receive(m) ==
  /\ printer = "recv"
  /\ out' = Append(out, m)
  /\ IF m.typ = "err"
       THEN /\ errCounter' = errCounter + 1
            /\ exit' = IF errCounter + 1 >= MaxErrors THEN "returned" ELSE exit
       ELSE UNCHANGED <<errCounter, exit>>
  /\ UNCHANGED printer

(***************************************************************************)
(* A send of job j, or of its sorter, on msgChan of that job: to           *)
(* printMessages or into the buffer of the background job.                 *)
(***************************************************************************)
\* Mutant of Put: the sender does not wait while the buffer is full.
PutUnbounded(j, m) ==
  \/ j = "main" /\ Receive(m) /\ UNCHANGED chan
  \/ /\ j = "bg"
     /\ ~closed
     /\ chan' = Append(chan, m)
     /\ UNCHANGED <<out, errCounter, exit, printer>>

Put(j, m) ==
  \/ /\ j = "main"
     /\ Receive(m)
     /\ UNCHANGED chan
  \/ /\ j = "bg"
     /\ ~closed
     /\ Len(chan) < BgCap
     /\ chan' = Append(chan, m)
     /\ UNCHANGED <<out, errCounter, exit, printer>>

MessageOf(j, typ, text) ==
  [typ |-> typ, text |-> text, job |-> j, stage |-> pc[j], nr |-> sent[j] + 1]

Count(j, m) ==
  /\ sent[j] < MaxSent[j]
  /\ pc[j] \in Emitters
  /\ sent' = [sent EXCEPT ![j] = @ + 1]
  /\ emitted' = emitted \cup {m}

\* c.err or c.warn outside of a sorting section.
Emit(j, m) ==
  /\ exit = "run"
  /\ pc[j] \in Plain
  /\ Count(j, m)
  /\ Put(j, m)
  /\ UNCHANGED <<level, pc, list, flushing, closed>>

\* c.err or c.warn inside of a sorting section: the sorter only collects.
EmitSorted(j, m) ==
  /\ exit = "run"
  /\ pc[j] \in Sorted
  /\ Count(j, m)
  /\ list' = [list EXCEPT ![j] = @ \cup {m}]
  /\ UNCHANGED <<level, pc, flushing, chan, closed, printer, errCounter, exit, out>>

\* abort.Msg in package filetree, or a syntax error: exit without printMessages.
ParseAbort ==
  /\ exit = "run"
  /\ pc["main"] = "read"
  /\ exit' = "exited"
  /\ UNCHANGED <<level, pc, list, flushing, chan, closed, printer, errCounter, sent, out,
                 emitted>>

\* c.abort is called by setPath, printCode and copyRaw only.
Abort ==
  /\ exit = "run"
  /\ pc["main"] \in {"setup", "print"}
  /\ printer = "recv"
  /\ errCounter' = errCounter + 1
  /\ exit' = "returned"
  /\ UNCHANGED <<level, pc, list, flushing, chan, closed, printer, sent, out, emitted>>

-----------------------------------------------------------------------------
(***************************************************************************)
(* Control flow of the jobs: SpocMain, checkRedundantRules and the         *)
(* function literal of startInBackground.                                  *)
(***************************************************************************)
After(j, s) ==
  CASE s = "read"         -> {"readStop"}
    [] s = "readStop"     -> {"readWait"}
    [] s = "readWait"     -> {"setup"}
    [] s = "setup"        -> {"setupStop"}
    [] s = "setupStop"    -> {"setupWait"}
    [] s = "setupWait"    -> {"owner"}
    [] s = "owner"        -> {"ownerFin"}
    [] s = "ownerFin"     -> {"rules"}
    [] s = "rules"        -> {"fork"}
    [] s = "redundant"    -> {"redundantFin"}
    [] s = "redundantFin" -> {"overlap"}
    [] s = "overlap"      -> {IF j = "bg" THEN "closeBg" ELSE "nat"}
    [] s = "nat"          -> {"unused"}
    [] s = "unused"       -> {"unusedFin"}
    [] s = "unusedFin"    -> {"supernet"}
    [] s = "supernet"     -> {"collect"}
    [] s = "optimize"     -> {"print", "lastStop"}   \* no code without CODE-DIR
    [] s = "print"        -> {"lastStop"}
    [] s = "lastStop"     -> {"lastWait"}
    [] s = "lastWait"     -> {"close"}
    [] OTHER              -> {}

GoOn(j) == \E s \in After(j, pc[j]) : pc' = [pc EXCEPT ![j] = s]

\* The job reaches the end of a stage.  Leaving a sorting section is the
\* close(c.msgChan) of finish.
Advance(j) ==
  /\ exit = "run"
  /\ pc[j] \in Plain \cup Sorted
  /\ GoOn(j)
  /\ flushing' = IF pc[j] \in Sorted THEN flushing \cup {j} ELSE flushing
  /\ UNCHANGED <<level, list, chan, closed, printer, errCounter, exit, sent, out,
                 emitted>>

\* Mutant of CheckErr: the answer does not depend on errCounter.
CheckErrAlwaysReady ==
  /\ exit = "run"
  /\ pc["main"] \in Stop
  /\ printer = "recv"
  /\ GoOn("main")
  /\ printer' = "ready"
  /\ UNCHANGED <<level, list, flushing, chan, closed, errCounter, exit, sent, out,
                 emitted>>

\* stopOnErr sends checkErrM; printMessages returns or answers on c.ready.
CheckErr ==
  /\ exit = "run"
  /\ pc["main"] \in Stop
  /\ printer = "recv"
  /\ GoOn("main")
  /\ IF errCounter > 0
       THEN exit' = "returned" /\ UNCHANGED printer
       ELSE printer' = "ready" /\ UNCHANGED exit
  /\ UNCHANGED <<level, list, flushing, chan, closed, errCounter, sent, out, emitted>>

(***************************************************************************)
(* The goroutine of sortingSpoc.  sort.Slice puts errors before warnings   *)
(* and texts in order; then the list is sent to the channel of the job.    *)
(***************************************************************************)
\* Mutant of Before: only the texts are compared.
BeforeText(a, b) == a.text < b.text

Before(a, b) ==
  \/ a.typ = "err" /\ b.typ = "warn"
  \/ a.typ = b.typ /\ a.text < b.text

IsLeast(m, l) == m \in l /\ \A o \in l : ~Before(o, m)

\* Mutant of Flush: only the first message of the list is sent.
FlushFirst(j, m) ==
  /\ exit = "run"
  /\ j \in flushing
  /\ IsLeast(m, list[j])
  /\ list' = [list EXCEPT ![j] = {}]
  /\ Put(j, m)
  /\ UNCHANGED <<level, pc, flushing, closed, sent, emitted>>

Flush(j, m) ==
  /\ exit = "run"
  /\ j \in flushing
  /\ IsLeast(m, list[j])
  /\ list' = [list EXCEPT ![j] = @ \ {m}]
  /\ Put(j, m)
  /\ UNCHANGED <<level, pc, flushing, closed, sent, emitted>>

\* Go: a send on a closed channel panics, also one that was blocked before.
Panic ==
  /\ exit = "run"
  /\ closed
  /\ "bg" \in flushing
  /\ list["bg"] # {}
  /\ exit' = "panic"
  /\ UNCHANGED <<level, pc, list, flushing, chan, closed, printer, errCounter, sent, out,
                 emitted>>

(***************************************************************************)
(* A rendezvous on c.ready.  Senders are printMessages and every sorter    *)
(* that has sent its list, receivers are stopOnErr and every finish.  The  *)
(* code does not say which sender meets which receiver.                    *)
(***************************************************************************)
FromPrinter(j) ==
  /\ exit = "run"
  /\ pc[j] \in Wait \cup Finish
  /\ printer = "ready"
  /\ printer' = "recv"
  /\ GoOn(j)
  /\ UNCHANGED <<level, list, flushing, chan, closed, errCounter, exit, sent, out,
                 emitted>>

Flushed(k) == k \in flushing /\ list[k] = {}

FromSorter(j, k) ==
  /\ exit = "run"
  /\ pc[j] \in Wait \cup Finish
  /\ Flushed(k)
  /\ flushing' = flushing \ {k}
  /\ GoOn(j)
  /\ UNCHANGED <<level, list, chan, closed, printer, errCounter, exit, sent, out,
                 emitted>>

-----------------------------------------------------------------------------
(***************************************************************************)
(* The background job: startInBackground and collectMessages.              *)
(***************************************************************************)
StartInBackground ==
  /\ exit = "run"
  /\ pc["main"] = "fork"
  /\ pc' = IF level <= 1 THEN [pc EXCEPT !["main"] = "redundant"]
                         ELSE [main |-> "nat", bg |-> "redundant"]
  /\ UNCHANGED <<level, list, flushing, chan, closed, printer, errCounter, exit, sent,
                 out, emitted>>

\* Mutant of CloseBackground: the channel is never closed.
CloseForgotten ==
  /\ exit = "run"
  /\ pc["bg"] = "closeBg"
  /\ pc' = [pc EXCEPT !["bg"] = "gone"]
  /\ UNCHANGED <<level, list, flushing, chan, closed, printer, errCounter, exit, sent,
                 out, emitted>>

CloseBackground ==
  /\ exit = "run"
  /\ pc["bg"] = "closeBg"
  /\ pc' = [pc EXCEPT !["bg"] = "gone"]
  /\ closed' = TRUE
  /\ UNCHANGED <<level, list, flushing, chan, printer, errCounter, exit, sent, out,
                 emitted>>

CollectMessage ==
  /\ exit = "run"
  /\ pc["main"] = "collect"
  /\ chan # <<>>
  /\ chan' = Tail(chan)
  /\ Receive(Head(chan))
  /\ UNCHANGED <<level, pc, list, flushing, closed, sent, emitted>>

\* Mutant of Collected: the loop ends as soon as nothing is buffered.
CollectedNow == chan = <<>>

\* The loop ends when the channel is empty and closed.
Collected == chan = <<>> /\ closed

CollectDone ==
  /\ exit = "run"
  /\ pc["main"] = "collect"
  /\ level <= 1 \/ Collected
  /\ pc' = [pc EXCEPT !["main"] = "optimize"]
  /\ UNCHANGED <<level, list, flushing, chan, closed, printer, errCounter, exit, sent,
                 out, emitted>>

\* close(c.msgChan) at the end of SpocMain: the loop of printMessages ends.
CloseMain ==
  /\ exit = "run"
  /\ pc["main"] = "close"
  /\ printer = "recv"
  /\ pc' = [pc EXCEPT !["main"] = "done"]
  /\ exit' = "returned"
  /\ UNCHANGED <<level, list, flushing, chan, closed, printer, errCounter, sent, out,
                 emitted>>

JobStep(j) ==
  \/ \E typ \in Types, text \in Texts :
       \/ Emit(j, MessageOf(j, typ, text))
       \/ EmitSorted(j, MessageOf(j, typ, text))
  \/ Advance(j)

MainStep ==
  \/ JobStep("main")
  \/ ParseAbort
  \/ Abort
  \/ CheckErr
  \/ StartInBackground
  \/ CollectMessage
  \/ CollectDone
  \/ CloseMain

BgStep == JobStep("bg") \/ CloseBackground

SorterStep(j) == (\E m \in list[j] : Flush(j, m)) \/ (j = "bg" /\ Panic)

ReadyStep(j) == FromPrinter(j) \/ \E k \in Job : FromSorter(j, k)

Next ==
  \/ MainStep
  \/ BgStep
  \/ \E j \in Job : SorterStep(j)
  \/ \E j \in Job : ReadyStep(j)

(***************************************************************************)
(* Every goroutine that can run is run eventually by the Go scheduler.     *)
(***************************************************************************)
Fairness ==
  /\ WF_vars(MainStep)
  /\ WF_vars(BgStep)
  /\ \A j \in Job : WF_vars(SorterStep(j)) /\ WF_vars(ReadyStep(j))

Spec == Init /\ [][Next]_vars
FairSpec == Spec /\ Fairness

-----------------------------------------------------------------------------
(***************************************************************************)
(* Properties.                                                             *)
(***************************************************************************)

\* Types of the variables.  The buffer never holds more than its capacity.
TypeOK ==
  /\ level \in Levels
  /\ pc \in [Job -> Label]
  /\ list \in [Job -> SUBSET Message]
  /\ flushing \in SUBSET Job
  /\ chan \in Seq(Message)
  /\ Len(chan) <= BgCap
  /\ closed \in BOOLEAN
  /\ printer \in {"recv", "ready"}
  /\ errCounter \in Nat
  /\ exit \in {"run", "returned", "exited", "panic"}
  /\ sent \in [Job -> Nat]
  /\ out \in Seq(Message)
  /\ emitted \in SUBSET Message

\* No message is lost: whatever a job has sent is printed, or waits in the
\* buffer of the background job or in a sorter.
NothingLost ==
  emitted = Range(out) \cup Range(chan)
              \cup list["main"] \cup list["bg"]

\* And none is printed twice: it is at exactly one of these places.
Conservation ==
  /\ NothingLost
  /\ Cardinality(emitted) = Len(out) + Len(chan) + Cardinality(list["main"])
                              + Cardinality(list["bg"])

\* If spoc1 reports success, every job has run to its end, no error was ever
\* sent and every warning has been printed, those of the background job and
\* those collected for sorting included.
ExitOK ==
  exit = "returned" /\ errCounter = 0 =>
    /\ pc["main"] = "done"
    /\ pc["bg"] \in {"idle", "gone"}
    /\ \A m \in emitted : m.typ # "err" /\ m \in Range(out)

\* Each stopOnErr separates the phases: while a phase after it is active, no phase
\* before it has sent an error, be it the background job or a sorting section.
\* Only the first two come before printCode.  Errors of the phases from "owner" to
\* "optimize" do not keep code from being printed; they end the program at the
\* last stopOnErr, see LateError of module CodeDir.
UntilReadStop  == {"read", "readStop", "readWait"}
UntilSetupStop == UntilReadStop \cup {"setup", "setupStop", "setupWait"}

CleanChecks ==
  \A m \in emitted : m.typ = "err" =>
    /\ m.stage = "read"  => pc["main"] \in UntilReadStop
    /\ m.stage = "setup" => pc["main"] \in UntilSetupStop
    /\ pc["main"] \notin {"close", "done"}

\* Output does not depend on the schedule as far as the code promises it.
\* Messages appear in the order of the phases, those of a sorting section
\* sorted, those of the background job where collectMessages is called.  The
\* shared channel c.ready weakens this: if a finish has been woken by the other
\* job, messages of a sorting section may come late.
Phases ==
  IF level <= 1
    THEN <<"read", "setup", "owner", "rules", "redundant", "overlap", "nat",
           "unused", "supernet", "optimize", "print">>
    ELSE <<"read", "setup", "owner", "rules", "nat", "unused", "supernet",
           "redundant", "overlap", "optimize", "print">>

Position(m) == CHOOSE i \in DOMAIN Phases : Phases[i] = m.stage

ErrorsFirst(a, b) ==
  /\ b.typ = "err" => a.typ = "err"
  /\ a.typ = b.typ => a.text <= b.text

MayFollow(a, b) ==
  IF a.stage = b.stage
    THEN IF a.stage \in Sorted THEN ErrorsFirst(a, b) ELSE a.nr < b.nr
    ELSE \/ Position(a) < Position(b)
         \/ level >= 2 /\ b.stage \in {"unused", "redundant"}

OutputOrder ==
  \A i, k \in DOMAIN out : i < k => MayFollow(out[i], out[k])

\* Every wait on c.ready of a finish is for the sorter of the same job.
ReadyOwn == \A j \in Job : pc[j] \in Finish <=> j \in flushing

\* The program ends, also if the buffer of the background job gets full,
\* provided that no finish is woken by the sorter of the other job.
Termination == []ReadyOwn => <>(exit # "run")

\* background.go:27-28 says of collectMessages: "wait until background job has
\* finished, i.e. channel is closed".  The code violates this: finish of the
\* background job can be woken by the sorter of checkUnusedGroups.  Then the
\* channel is closed while the sorter of the background job still holds messages
\* for it, and the next send panics.
ClosedMeansFinished == closed => list["bg"] = {}
=============================================================================
