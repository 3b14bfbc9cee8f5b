--------------------------- MODULE MessagesProofs ---------------------------
(***************************************************************************)
(* Proofs about module Messages.                                           *)
(*                                                                         *)
(* The channel c.ready is shared, so a finish may be woken by the sorter   *)
(* of the other job.  The inductive invariant says how far this can go: at *)
(* any time either every finish waits for its own sorter, or one job waits *)
(* for the sorter of the job that took its answer.  In both cases no       *)
(* sorter is left when main has passed collectMessages.                    *)
(***************************************************************************)
EXTENDS Messages, DataLemmas, FiniteSetTheorems, TLAPS

PreFork == {"read", "readStop", "readWait", "setup", "setupStop", "setupWait",
            "owner", "ownerFin", "rules", "fork"}
Inline == {"redundant", "redundantFin", "overlap"}
PastCollect == {"optimize", "print", "lastStop", "lastWait", "close", "done"}
MainLabel == PreFork \cup Inline \cup PastCollect
               \cup {"nat", "unused", "unusedFin", "supernet", "collect"}
BgLabel == Inline \cup {"idle", "closeBg", "gone"}

\* Where the jobs are, relative to each other.
Places ==
  /\ pc["main"] \in MainLabel
  /\ pc["bg"] \in BgLabel
  /\ level <= 1 \/ pc["main"] \in PreFork => pc["bg"] = "idle"
  /\ level > 1 /\ pc["main"] \notin PreFork =>
       pc["bg"] # "idle" /\ pc["main"] \notin Inline
  /\ closed <=> pc["bg"] = "gone"
  /\ pc["bg"] = "idle" => "bg" \notin flushing /\ chan = <<>>

\* A sorter holds messages only inside of its section or while it sends them.
SorterLists ==
  \A j \in Job :
    /\ j \notin flushing /\ pc[j] \notin Sorted => list[j] = {}
    /\ pc[j] \in Sorted => j \notin flushing

MainWaits ==
  /\ pc["main"] = "unusedFin"
  /\ "main" \notin flushing
  /\ pc["bg"] \in {"overlap", "closeBg", "gone"}
  /\ "bg" \in flushing

BgWaits ==
  /\ pc["bg"] = "redundantFin"
  /\ "bg" \notin flushing
  /\ pc["main"] \in {"supernet", "collect"}
  /\ "main" \in flushing

\* The answers on c.ready that are still to come.
Tokens == ReadyOwn \/ MainWaits \/ BgWaits

PrinterReady == printer = "ready" => pc["main"] \in Wait /\ errCounter = 0

\* After collectMessages nothing of the background job is left.
AllEnded ==
  pc["main"] \in PastCollect =>
    /\ pc["bg"] \in {"idle", "gone"}
    /\ chan = <<>>
    /\ "main" \notin flushing /\ "bg" \notin flushing

Control == TypeOK /\ Places /\ SorterLists /\ Tokens /\ PrinterReady /\ AllEnded

\* Errors that have been printed have been counted, and reading and setup
\* print their errors at once.
ErrCounted ==
  /\ \A m \in Range(out) : m.typ = "err" => errCounter > 0
  /\ \A m \in emitted : m.typ = "err" /\ m.stage \in {"read", "setup"} => errCounter > 0

Returned == exit = "returned" /\ errCounter = 0 => pc["main"] = "done"

\* What CleanChecks says of the first two calls of stopOnErr, whose phases print
\* their errors at once, and what the last call makes sure.
EarlyChecks ==
  \A m \in emitted : m.typ = "err" =>
    /\ m.stage = "read"  => pc["main"] \in UntilReadStop
    /\ m.stage = "setup" => pc["main"] \in UntilSetupStop

LastCheck == pc["main"] \in {"close", "done"} => errCounter = 0

Inv == Control /\ NothingLost /\ ErrCounted /\ Returned /\ EarlyChecks /\ LastCheck

-----------------------------------------------------------------------------
(***************************************************************************)
(* Types.                                                                  *)
(***************************************************************************)
\* What a job sends is a message.
LEMMA MessageType ==
  ASSUME TypeOK, NEW j \in Job, NEW typ \in Types, NEW text \in Texts
  PROVE  MessageOf(j, typ, text) \in Message
BY DEF TypeOK, MessageOf, Message

\* A send keeps the types; the buffer is never filled beyond its capacity.
LEMMA PutType ==
  ASSUME TypeOK, NEW j \in Job, NEW m \in Message, Put(j, m)
  PROVE  /\ chan' \in Seq(Message) /\ Len(chan') <= BgCap
         /\ out' \in Seq(Message)
         /\ errCounter' \in Nat
         /\ exit' \in {"run", "returned", "exited", "panic"}
         /\ printer' \in {"recv", "ready"}
<1>1. CASE j = "main"
  <2>1. Receive(m) /\ chan' = chan
    BY <1>1 DEF Put
  <2>2. out' \in Seq(Message)
    BY <2>1 DEF Receive, TypeOK
  <2>3. exit' \in {"run", "returned", "exited", "panic"} /\ printer' \in {"recv", "ready"}
    BY <2>1 DEF Receive, TypeOK
  <2>4. errCounter' \in Nat
    BY <2>1 DEF Receive, TypeOK
  <2> QED  BY <2>1, <2>2, <2>3, <2>4 DEF TypeOK
<1>2. CASE j = "bg"
  <2>1. chan' = Append(chan, m) /\ Len(chan) < BgCap
    BY <1>2 DEF Put
  <2>2. UNCHANGED <<out, errCounter, exit, printer>>
    BY <1>2 DEF Put
  <2>3. chan' \in Seq(Message) /\ Len(chan') <= BgCap
    BY <2>1, ConstAssumption DEF TypeOK
  <2> QED  BY <2>2, <2>3 DEF TypeOK
<1> QED  BY <1>1, <1>2 DEF Job

\* Each stage is followed by a stage.
LEMMA AfterType ==
  ASSUME NEW j, NEW s, NEW t \in After(j, s)
  PROVE  t \in Label
BY DEF After, Label, Plain, Sorted, Finish, Stop, Wait

\* Going on to the next stage keeps the type of pc.
LEMMA GoOnType ==
  ASSUME TypeOK, NEW j \in Job, GoOn(j)
  PROVE  pc' \in [Job -> Label]
BY AfterType DEF TypeOK, GoOn

\* Every step keeps the types of the variables.
LEMMA TypeStep == TypeOK /\ [Next]_vars => TypeOK'
<1> SUFFICES ASSUME TypeOK, [Next]_vars PROVE TypeOK'
  OBVIOUS
<1>1. ASSUME NEW j \in Job, NEW m \in Message, Emit(j, m)  PROVE TypeOK'
  BY <1>1, PutType DEF Emit, Count, TypeOK
<1>2. ASSUME NEW j \in Job, NEW m \in Message, EmitSorted(j, m)  PROVE TypeOK'
  BY <1>2 DEF EmitSorted, Count, TypeOK
<1>3. ASSUME NEW j \in Job, Advance(j)  PROVE TypeOK'
  BY <1>3, GoOnType DEF Advance, TypeOK
<1>4. CASE ParseAbort
  BY <1>4 DEF ParseAbort, TypeOK
<1>5. CASE Abort
  BY <1>5 DEF Abort, TypeOK
<1>6. CASE CheckErr
  BY <1>6, GoOnType DEF CheckErr, TypeOK, Job
<1>7. CASE StartInBackground
  BY <1>7 DEF StartInBackground, TypeOK, Job, Label, Plain, Sorted
<1>8. CASE CollectMessage
  <2>1. Tail(chan) \in Seq(Message) /\ Head(chan) \in Message
        /\ Len(Tail(chan)) <= BgCap
    BY <1>8, RangeTail, ConstAssumption DEF CollectMessage, TypeOK
  <2> QED  BY <1>8, <2>1 DEF CollectMessage, Receive, TypeOK
<1>9. CASE CollectDone
  BY <1>9 DEF CollectDone, TypeOK, Job, Label, Plain
<1>10. CASE CloseMain
  BY <1>10 DEF CloseMain, TypeOK, Job, Label
<1>11. CASE CloseBackground
  BY <1>11 DEF CloseBackground, TypeOK, Job, Label
<1>12. ASSUME NEW j \in Job, NEW m \in list[j], Flush(j, m)  PROVE TypeOK'
  <2>1. m \in Message
    BY DEF TypeOK
  <2> QED  BY <1>12, <2>1, PutType DEF Flush, TypeOK
<1>13. CASE Panic
  BY <1>13 DEF Panic, TypeOK
<1>14. ASSUME NEW j \in Job, FromPrinter(j)  PROVE TypeOK'
  BY <1>14, GoOnType DEF FromPrinter, TypeOK
<1>15. ASSUME NEW j \in Job, NEW k \in Job, FromSorter(j, k)  PROVE TypeOK'
  BY <1>15, GoOnType DEF FromSorter, TypeOK
<1>16. CASE UNCHANGED vars
  BY <1>16 DEF vars, TypeOK
<1> QED
  BY <1>1, <1>2, <1>3, <1>4, <1>5, <1>6, <1>7, <1>8, <1>9, <1>10, <1>11, <1>12,
     <1>13, <1>14, <1>15, <1>16, MessageType
     DEF Next, MainStep, BgStep, JobStep, SorterStep, ReadyStep, Job

-----------------------------------------------------------------------------
(***************************************************************************)
(* Control flow.                                                           *)
(***************************************************************************)
\* A send does not answer stopOnErr, and only a send of main counts errors.
LEMMA PutControl ==
  ASSUME NEW j \in Job, NEW m, Put(j, m)
  PROVE  /\ printer' = printer
         /\ printer = "ready" => j = "bg" /\ errCounter' = errCounter
         /\ j = "main" => chan' = chan
BY DEF Put, Receive

\* Every step keeps the answers on c.ready in one of the three situations, and
\* main gets past collectMessages only if nothing is left.
LEMMA ControlStep == Control /\ [Next]_vars => Control'
<1> SUFFICES ASSUME Control, [Next]_vars PROVE Control'
  OBVIOUS
<1>0. TypeOK'
  BY TypeStep DEF Control
<1> USE DEF Control
<1>1. ASSUME NEW j \in Job, NEW m \in Message, Emit(j, m)  PROVE Control'
  <2>1. UNCHANGED <<level, pc, list, flushing, closed, printer>>
    BY <1>1, PutControl DEF Emit
  <2>2. pc[j] \in Plain /\ Put(j, m)
    BY <1>1 DEF Emit
  <2>3. printer = "ready" => errCounter' = errCounter
    BY <2>2, PutControl
  <2>4. pc["bg"] \in {"idle", "gone"} => j = "main"
    BY <2>2 DEF Job, Plain
  <2>5. Places'
    BY <2>1, <2>2, <2>4, PutControl DEF Places
  <2>6. AllEnded'
    BY <2>1, <2>2, <2>4, PutControl DEF AllEnded
  <2> QED
    BY <1>0, <2>1, <2>3, <2>5, <2>6
       DEF SorterLists, Tokens, ReadyOwn, MainWaits, BgWaits, PrinterReady
<1>2. ASSUME NEW j \in Job, NEW m \in Message, EmitSorted(j, m)  PROVE Control'
  BY <1>0, <1>2
     DEF EmitSorted, TypeOK, Places, SorterLists, Tokens, ReadyOwn, MainWaits, BgWaits,
         PrinterReady, AllEnded
<1>3. ASSUME NEW j \in Job, Advance(j)  PROVE Control'
  <2>1. UNCHANGED <<level, list, chan, closed, printer, errCounter>>
    BY <1>3 DEF Advance
  <2>2. pc[j] \in Plain \cup Sorted /\ GoOn(j)
    BY <1>3 DEF Advance
  <2>3. flushing' = IF pc[j] \in Sorted THEN flushing \cup {j} ELSE flushing
    BY <1>3 DEF Advance
  <2>4. CASE j = "main"
    <3>1. pc' = [pc EXCEPT !["main"] = pc'["main"]] /\ pc'["main"] \in After("main", pc["main"])
      BY <2>2, <2>4 DEF GoOn, TypeOK, Job
    <3>2. /\ pc'["bg"] = pc["bg"]
          /\ pc["main"] \in {"read", "setup", "owner", "rules", "nat", "unused",
                             "supernet", "optimize", "print"} \cup Inline
      BY <2>2, <2>4, <3>1 DEF Places, Plain, Sorted, TypeOK, Job, Inline
    <3>3. Places'
      <4>1. level \in Nat
        BY ConstAssumption DEF TypeOK
      <4>2. pc'["main"] \in PreFork <=> pc["main"] \in PreFork
        BY <3>1, <3>2 DEF After, PreFork, Inline
      <4>3. pc'["main"] \in Inline => pc["main"] \in Inline
        BY <3>1, <3>2 DEF After, Inline
      <4>4. pc'["main"] \in MainLabel
        BY <3>1, <3>2 DEF After, MainLabel, PreFork, Inline, PastCollect
      <4>5. level' <= 1 \/ pc'["main"] \in PreFork => pc'["bg"] = "idle"
        BY <2>1, <3>2, <4>2 DEF Places
      <4>6. level' > 1 /\ pc'["main"] \notin PreFork =>
              pc'["bg"] # "idle" /\ pc'["main"] \notin Inline
        BY <2>1, <3>2, <4>2, <4>3 DEF Places
      <4>7. /\ closed' <=> pc'["bg"] = "gone"
            /\ pc'["bg"] = "idle" => "bg" \notin flushing' /\ chan' = <<>>
            /\ pc'["bg"] \in BgLabel
        BY <2>1, <2>3, <2>4, <3>2 DEF Places
      <4> QED  BY <4>4, <4>5, <4>6, <4>7 DEF Places
    <3>4. SorterLists'
      <4>1. pc'["main"] \in Sorted => "main" \notin flushing'
        BY <2>3, <2>4, <3>1, <3>2
           DEF Tokens, ReadyOwn, MainWaits, BgWaits, After, Sorted, Finish, Inline, Job
      <4>2. "main" \notin flushing' /\ pc'["main"] \notin Sorted => list["main"] = {}
        BY <2>3, <2>4, <3>1, <3>2 DEF SorterLists, Job
      <4>3. pc'["bg"] = pc["bg"] /\ ("bg" \in flushing' <=> "bg" \in flushing)
        BY <2>3, <2>4, <3>2
      <4> QED  BY <2>1, <4>1, <4>2, <4>3 DEF SorterLists, Job
    <3>5. Tokens'
      <4>1. ~MainWaits
        BY <3>2 DEF MainWaits, Inline
      <4>2. pc["main"] \notin Finish
        BY <2>2, <2>4 DEF Plain, Sorted, Finish
      <4>3. CASE BgWaits
        <5>1. pc'["main"] = "collect" /\ flushing' = flushing
          BY <2>3, <2>4, <3>1, <3>2, <4>3 DEF BgWaits, After, Sorted, Inline
        <5> QED  BY <3>2, <4>3, <5>1 DEF Tokens, BgWaits
      <4>4. CASE ReadyOwn
        <5>1. pc'["main"] \in Finish <=> pc["main"] \in Sorted
          BY <3>1, <3>2 DEF After, Finish, Sorted, Inline
        <5> QED  BY <2>3, <2>4, <3>2, <4>2, <4>4, <5>1 DEF Tokens, ReadyOwn, Job
      <4> QED  BY <4>1, <4>3, <4>4 DEF Tokens
    <3>6. PrinterReady'
      BY <2>1, <3>1, <3>2 DEF PrinterReady, Wait, Inline
    <3>7. AllEnded'
      BY <2>1, <2>3, <2>4, <3>1, <3>2
         DEF AllEnded, After, Sorted, Inline, PastCollect
    <3> QED  BY <1>0, <3>3, <3>4, <3>5, <3>6, <3>7
  <2>5. CASE j = "bg"
    <3>1. pc' = [pc EXCEPT !["bg"] = pc'["bg"]] /\ pc'["bg"] \in After("bg", pc["bg"])
      BY <2>2, <2>5 DEF GoOn, TypeOK, Job
    <3>2. /\ pc'["main"] = pc["main"]
          /\ pc["bg"] \in {"redundant", "overlap"}
      BY <2>2, <2>5, <3>1 DEF Places, Plain, Sorted, TypeOK, Job, Inline, BgLabel
    <3>3. Places'
      BY <2>1, <3>1, <3>2 DEF Places, After, BgLabel, Inline
    <3>4. SorterLists'
      BY <2>1, <2>3, <2>5, <3>1, <3>2 DEF SorterLists, After, Sorted, Job
    <3>5. Tokens'
      BY <2>1, <2>3, <2>5, <3>1, <3>2
         DEF Tokens, ReadyOwn, MainWaits, BgWaits, After, Sorted, Finish, Job
    <3>6. PrinterReady' /\ AllEnded'
      BY <2>1, <2>3, <3>1, <3>2 DEF PrinterReady, AllEnded, After
    <3> QED  BY <1>0, <3>3, <3>4, <3>5, <3>6
  <2> QED  BY <2>4, <2>5 DEF Job
<1>4. CASE ParseAbort
  BY <1>0, <1>4
     DEF ParseAbort, Places, SorterLists, Tokens, ReadyOwn, MainWaits, BgWaits,
         PrinterReady, AllEnded
<1>5. CASE Abort
  BY <1>0, <1>5
     DEF Abort, Places, SorterLists, Tokens, ReadyOwn, MainWaits, BgWaits, PrinterReady,
         AllEnded
<1>6. CASE CheckErr
  <2>1. UNCHANGED <<level, list, flushing, chan, closed, errCounter>>
    BY <1>6 DEF CheckErr
  <2>2. /\ pc["main"] \in Stop /\ GoOn("main")
        /\ printer = "recv"
        /\ printer' = "recv" \/ errCounter = 0
    BY <1>6 DEF CheckErr, TypeOK
  <2>3. /\ pc' = [pc EXCEPT !["main"] = pc'["main"]]
        /\ pc'["main"] \in After("main", pc["main"])
    BY <2>2 DEF GoOn, TypeOK, Job
  <2>4. pc'["bg"] = pc["bg"]
    BY <2>3 DEF TypeOK, Job
  <2>5. Places'
    BY <2>1, <2>2, <2>3, <2>4
       DEF Places, After, Stop, MainLabel, PreFork, Inline, PastCollect
  <2>6. SorterLists'
    BY <2>1, <2>2, <2>3, <2>4 DEF SorterLists, After, Stop, Sorted, Job
  <2>7. Tokens'
    BY <2>1, <2>2, <2>3, <2>4
       DEF Tokens, ReadyOwn, MainWaits, BgWaits, After, Stop, Finish, Job
  <2>8. PrinterReady'
    BY <2>1, <2>2, <2>3 DEF PrinterReady, After, Stop, Wait
  <2>9. AllEnded'
    BY <2>1, <2>2, <2>3, <2>4 DEF AllEnded, After, Stop, PastCollect
  <2> QED  BY <1>0, <2>5, <2>6, <2>7, <2>8, <2>9
<1>7. CASE StartInBackground
  <2>1. /\ pc["main"] = "fork"
        /\ pc' = IF level <= 1 THEN [pc EXCEPT !["main"] = "redundant"]
                               ELSE [main |-> "nat", bg |-> "redundant"]
        /\ UNCHANGED <<level, list, flushing, chan, closed, printer, errCounter>>
    BY <1>7 DEF StartInBackground
  <2>2. /\ pc["bg"] = "idle" /\ level \in Nat
        /\ "main" \notin flushing /\ "bg" \notin flushing
    BY <2>1, ConstAssumption
       DEF TypeOK, Places, PreFork, Tokens, ReadyOwn, MainWaits, BgWaits, Finish, Job
  <2>3. CASE level <= 1
    <3>1. pc'["main"] = "redundant" /\ pc'["bg"] = "idle"
      BY <2>1, <2>2, <2>3 DEF TypeOK, Job
    <3> QED
      BY <1>0, <2>1, <2>2, <2>3, <3>1
         DEF Places, PreFork, Inline, MainLabel, BgLabel, PastCollect, SorterLists, Sorted,
             Tokens, ReadyOwn, Finish, Job, PrinterReady, Wait, AllEnded
  <2>4. CASE level > 1
    <3>1. pc'["main"] = "nat" /\ pc'["bg"] = "redundant"
      BY <2>1, <2>2, <2>4
    <3> QED
      BY <1>0, <2>1, <2>2, <2>4, <3>1
         DEF Places, PreFork, Inline, MainLabel, BgLabel, PastCollect, SorterLists, Sorted,
             Tokens, ReadyOwn, Finish, Job, PrinterReady, Wait, AllEnded
  <2> QED  BY <2>2, <2>3, <2>4
<1>8. CASE CollectMessage
  <2>1. /\ pc["main"] = "collect" /\ chan # <<>>
        /\ UNCHANGED <<level, pc, list, flushing, closed, printer>>
        /\ printer = "recv"
    BY <1>8 DEF CollectMessage, Receive
  <2> QED
    BY <1>0, <2>1
       DEF Places, SorterLists, Tokens, ReadyOwn, MainWaits, BgWaits, PrinterReady,
           AllEnded, PastCollect
<1>9. CASE CollectDone
  <2>1. /\ pc["main"] = "collect"
        /\ level <= 1 \/ Collected
        /\ pc' = [pc EXCEPT !["main"] = "optimize"]
        /\ UNCHANGED <<level, list, flushing, chan, closed, printer, errCounter>>
    BY <1>9 DEF CollectDone
  <2>2. pc'["main"] = "optimize" /\ pc'["bg"] = pc["bg"]
    BY <2>1 DEF TypeOK, Job
  <2>3. pc["bg"] \in {"idle", "gone"} /\ chan = <<>>
    BY <2>1 DEF Places, Collected
  <2>4. "main" \notin flushing /\ "bg" \notin flushing
    BY <2>1, <2>3 DEF Tokens, ReadyOwn, MainWaits, BgWaits, Finish, Job
  <2> QED
    BY <1>0, <2>1, <2>2, <2>3, <2>4
       DEF Places, PreFork, Inline, MainLabel, PastCollect, SorterLists, Sorted, Tokens,
           ReadyOwn, Finish, Job, PrinterReady, Wait, AllEnded
<1>10. CASE CloseMain
  <2>1. /\ pc["main"] = "close"
        /\ pc' = [pc EXCEPT !["main"] = "done"]
        /\ printer = "recv"
        /\ UNCHANGED <<level, list, flushing, chan, closed, printer, errCounter>>
    BY <1>10 DEF CloseMain
  <2>2. pc'["main"] = "done" /\ pc'["bg"] = pc["bg"]
    BY <2>1 DEF TypeOK, Job
  <2> QED
    BY <1>0, <2>1, <2>2
       DEF Places, PreFork, Inline, MainLabel, PastCollect, SorterLists, Sorted, Tokens,
           ReadyOwn, MainWaits, BgWaits, Finish, Job, PrinterReady, AllEnded
<1>11. CASE CloseBackground
  <2>1. /\ pc["bg"] = "closeBg"
        /\ pc' = [pc EXCEPT !["bg"] = "gone"]
        /\ closed' = TRUE
        /\ UNCHANGED <<level, list, flushing, chan, printer, errCounter>>
    BY <1>11 DEF CloseBackground
  <2>2. pc'["bg"] = "gone" /\ pc'["main"] = pc["main"]
    BY <2>1 DEF TypeOK, Job
  <2> QED
    BY <1>0, <2>1, <2>2
       DEF Places, BgLabel, SorterLists, Sorted, Tokens, ReadyOwn, MainWaits, BgWaits,
           Finish, Job, PrinterReady, AllEnded
<1>12. ASSUME NEW j \in Job, NEW m \in list[j], Flush(j, m)  PROVE Control'
  <2>1. /\ j \in flushing
        /\ list' = [list EXCEPT ![j] = @ \ {m}]
        /\ Put(j, m)
        /\ UNCHANGED <<level, pc, flushing, closed>>
    BY <1>12 DEF Flush
  <2>2. UNCHANGED printer /\ (printer = "ready" => errCounter' = errCounter)
    BY <2>1, PutControl
  <2>3. pc["bg"] = "idle" => chan' = chan
    BY <2>1, PutControl DEF Places, Job
  <2>4. Places'
    BY <2>1, <2>3 DEF Places
  <2>5. SorterLists'
    BY <2>1 DEF SorterLists, TypeOK, Job
  <2>6. Tokens' /\ PrinterReady' /\ AllEnded'
    BY <2>1, <2>2
       DEF Tokens, ReadyOwn, MainWaits, BgWaits, PrinterReady, AllEnded, Job
  <2> QED  BY <1>0, <2>4, <2>5, <2>6
<1>13. CASE Panic
  BY <1>0, <1>13
     DEF Panic, Places, SorterLists, Tokens, ReadyOwn, MainWaits, BgWaits,
         PrinterReady, AllEnded
<1>14. ASSUME NEW j \in Job, FromPrinter(j)  PROVE Control'
  <2>1. /\ pc[j] \in Wait \cup Finish /\ GoOn(j)
        /\ printer = "ready" /\ printer' = "recv"
        /\ UNCHANGED <<level, list, flushing, chan, closed, errCounter>>
    BY <1>14 DEF FromPrinter
  <2>2. pc["main"] \in Wait
    BY <2>1 DEF PrinterReady
  <2>3. j = "main"
    BY <2>1, <2>2
       DEF Places, AllEnded, BgLabel, Inline, Wait, Finish, PreFork, PastCollect, Job
  <2>4. /\ pc' = [pc EXCEPT !["main"] = pc'["main"]]
        /\ pc'["main"] \in After("main", pc["main"])
    BY <2>1, <2>3 DEF GoOn, TypeOK, Job
  <2>5. pc'["bg"] = pc["bg"]
    BY <2>4 DEF TypeOK, Job
  <2>6. Places'
    BY <2>1, <2>2, <2>4, <2>5
       DEF Places, After, Wait, MainLabel, PreFork, Inline, PastCollect
  <2>7. SorterLists'
    BY <2>1, <2>2, <2>4, <2>5
       DEF SorterLists, Tokens, ReadyOwn, MainWaits, BgWaits, After, Wait, Sorted, Finish, Job
  <2>8. Tokens'
    BY <2>1, <2>2, <2>4, <2>5
       DEF Tokens, ReadyOwn, MainWaits, BgWaits, After, Wait, Finish, Job
  <2>9. PrinterReady' /\ AllEnded'
    BY <2>1, <2>2, <2>4, <2>5 DEF PrinterReady, AllEnded, After, Wait, PastCollect
  <2> QED  BY <1>0, <2>6, <2>7, <2>8, <2>9
<1>15. ASSUME NEW j \in Job, NEW k \in Job, FromSorter(j, k)  PROVE Control'
  <2>1. /\ pc[j] \in Wait \cup Finish /\ GoOn(j)
        /\ k \in flushing /\ list[k] = {}
        /\ flushing' = flushing \ {k}
        /\ UNCHANGED <<level, list, chan, closed, printer, errCounter>>
    BY <1>15 DEF FromSorter, Flushed
  <2>2. /\ pc' = [pc EXCEPT ![j] = pc'[j]]
        /\ pc'[j] \in After(j, pc[j])
    BY <2>1 DEF GoOn, TypeOK
  <2>3. CASE j = "main" /\ k = "main"
    <3>1. pc'["bg"] = pc["bg"]
      BY <2>2, <2>3 DEF TypeOK, Job
    <3>2. ReadyOwn /\ pc["main"] \in Finish
      BY <2>1, <2>3
         DEF Tokens, ReadyOwn, MainWaits, BgWaits, Wait, Finish, Job
    <3>3. pc["main"] \notin PastCollect
      BY <2>1, <2>3 DEF AllEnded
    <3>4. Places'
      BY <2>1, <2>2, <2>3, <3>1, <3>2
         DEF Places, After, Finish, MainLabel, PreFork, Inline, PastCollect
    <3>5. SorterLists'
      BY <2>1, <2>2, <2>3, <3>1, <3>2
         DEF SorterLists, After, Finish, Sorted, Job
    <3>6. ReadyOwn'
      BY <2>1, <2>2, <2>3, <3>1, <3>2 DEF ReadyOwn, After, Finish, Job
    <3>7. PrinterReady' /\ AllEnded'
      BY <2>1, <2>2, <2>3, <3>1, <3>2
         DEF PrinterReady, AllEnded, After, Wait, Finish, PastCollect
    <3> QED  BY <1>0, <3>4, <3>5, <3>6, <3>7 DEF Tokens
  <2>4. CASE j = "bg" /\ k = "bg"
    <3>1. pc'["main"] = pc["main"]
      BY <2>2, <2>4 DEF TypeOK, Job
    <3>2. pc["bg"] = "redundantFin" /\ ReadyOwn
      BY <2>1, <2>4
         DEF Places, BgLabel, Inline, Tokens, ReadyOwn, MainWaits, BgWaits, Wait, Finish, Job
    <3>3. Places'
      BY <2>1, <2>2, <2>4, <3>1, <3>2 DEF Places, After, BgLabel, Inline
    <3>4. SorterLists'
      BY <2>1, <2>2, <2>4, <3>1, <3>2 DEF SorterLists, After, Sorted, Job
    <3>5. ReadyOwn'
      BY <2>1, <2>2, <2>4, <3>1, <3>2 DEF ReadyOwn, After, Finish, Job
    <3>6. PrinterReady' /\ AllEnded'
      BY <2>1, <2>2, <2>4, <3>1, <3>2 DEF PrinterReady, AllEnded, After
    <3> QED  BY <1>0, <3>3, <3>4, <3>5, <3>6 DEF Tokens
  <2>5. CASE j = "main" /\ k = "bg"
    <3>1. pc'["bg"] = pc["bg"]
      BY <2>2, <2>5 DEF TypeOK, Job
    <3>2. /\ pc["main"] = "unusedFin"
          /\ \/ ReadyOwn /\ pc["bg"] = "redundantFin"
             \/ MainWaits
      <4>1. pc["bg"] \in {"redundantFin", "overlap", "closeBg", "gone"}
        BY <2>1, <2>5
           DEF Places, BgLabel, Inline, Tokens, ReadyOwn, MainWaits, BgWaits, Finish, Job
      <4>2. pc["main"] \notin PastCollect
        BY <2>5, <2>1 DEF AllEnded
      <4>3. pc["main"] \notin PreFork \cup Inline
        BY <4>1, ConstAssumption DEF Places, TypeOK
      <4>4. pc["main"] = "unusedFin"
        BY <2>1, <2>5, <4>2, <4>3 DEF Wait, Finish, PreFork, Inline, PastCollect
      <4> QED
        BY <2>1, <2>5, <4>1, <4>4 DEF Tokens, ReadyOwn, BgWaits, Finish, Job
    <3>3. pc'["main"] = "supernet"
      BY <2>2, <2>5, <3>2 DEF After
    <3>4. Places'
      BY <2>1, <2>5, <3>1, <3>2, <3>3
         DEF Places, MainLabel, PreFork, Inline, PastCollect
    <3>5. SorterLists'
      BY <2>1, <2>5, <3>1, <3>2, <3>3
         DEF SorterLists, ReadyOwn, MainWaits, Sorted, Finish, Job
    <3>6. ASSUME ReadyOwn, pc["bg"] = "redundantFin"  PROVE Tokens'
      <4>1. BgWaits'
        <5>1. pc["main"] \in Finish /\ "main" \in flushing
          BY <3>2, <3>6 DEF ReadyOwn, Finish, Job
        <5> QED  BY <2>1, <2>5, <3>1, <3>3, <3>6, <5>1 DEF BgWaits
      <4> QED  BY <4>1 DEF Tokens
    <3>7. ASSUME MainWaits  PROVE Tokens'
      <4>1. ReadyOwn'
        <5>1. "main" \notin flushing' /\ "bg" \notin flushing'
          BY <2>1, <2>5, <3>7 DEF MainWaits
        <5>2. pc'["main"] \notin Finish /\ pc'["bg"] \notin Finish
          BY <3>1, <3>3, <3>7 DEF MainWaits, Finish
        <5> QED  BY <5>1, <5>2 DEF ReadyOwn, Job
      <4> QED  BY <4>1 DEF Tokens
    <3>8. PrinterReady' /\ AllEnded'
      BY <2>1, <3>2, <3>3 DEF PrinterReady, AllEnded, Wait, PastCollect
    <3> QED  BY <1>0, <3>2, <3>4, <3>5, <3>6, <3>7, <3>8
  <2>6. CASE j = "bg" /\ k = "main"
    <3>1. pc'["main"] = pc["main"]
      BY <2>2, <2>6 DEF TypeOK, Job
    <3>2. /\ pc["bg"] = "redundantFin"
          /\ \/ ReadyOwn /\ pc["main"] = "unusedFin"
             \/ BgWaits
      <4>1. pc["bg"] = "redundantFin"
        BY <2>1, <2>6 DEF Places, BgLabel, Inline, Wait, Finish
      <4>2. pc["main"] \notin PreFork \cup Inline
        BY <4>1, ConstAssumption DEF Places, TypeOK
      <4> QED
        BY <2>1, <2>6, <4>1, <4>2
           DEF Tokens, ReadyOwn, MainWaits, Finish, PreFork, Inline, Job
    <3>3. pc'["bg"] = "overlap"
      BY <2>2, <2>6, <3>2 DEF After
    <3>4. Places'
      BY <2>1, <2>6, <3>1, <3>2, <3>3 DEF Places, BgLabel, Inline
    <3>5. SorterLists'
      BY <2>1, <2>6, <3>1, <3>2, <3>3
         DEF SorterLists, ReadyOwn, BgWaits, Sorted, Finish, Job
    <3>6. ASSUME ReadyOwn, pc["main"] = "unusedFin"  PROVE Tokens'
      <4>1. MainWaits'
        <5>1. pc["bg"] \in Finish /\ "bg" \in flushing
          BY <3>2, <3>6 DEF ReadyOwn, Finish, Job
        <5> QED  BY <2>1, <2>6, <3>1, <3>3, <3>6, <5>1 DEF MainWaits
      <4> QED  BY <4>1 DEF Tokens
    <3>7. ASSUME BgWaits  PROVE Tokens'
      <4>1. ReadyOwn'
        <5>1. "main" \notin flushing' /\ "bg" \notin flushing'
          BY <2>1, <2>6, <3>7 DEF BgWaits
        <5>2. pc'["main"] \notin Finish /\ pc'["bg"] \notin Finish
          BY <3>1, <3>3, <3>7 DEF BgWaits, Finish
        <5> QED  BY <5>1, <5>2 DEF ReadyOwn, Job
      <4> QED  BY <4>1 DEF Tokens
    <3>8. PrinterReady' /\ AllEnded'
      BY <2>1, <3>1, <3>2, <3>3 DEF PrinterReady, AllEnded, Wait, PastCollect
    <3> QED  BY <1>0, <3>2, <3>4, <3>5, <3>6, <3>7, <3>8
  <2> QED  BY <2>3, <2>4, <2>5, <2>6 DEF Job
<1>16. CASE UNCHANGED vars
  BY <1>0, <1>16
     DEF vars, Places, SorterLists, Tokens, ReadyOwn, MainWaits, BgWaits, PrinterReady,
         AllEnded
<1> QED
  BY <1>1, <1>2, <1>3, <1>4, <1>5, <1>6, <1>7, <1>8, <1>9, <1>10, <1>11, <1>12,
     <1>13, <1>14, <1>15, <1>16, MessageType
     DEF Next, MainStep, BgStep, JobStep, SorterStep, ReadyStep, Job

-----------------------------------------------------------------------------
(***************************************************************************)
(* Messages.                                                               *)
(***************************************************************************)
\* After a send the message is printed or in the buffer, and an error printed is
\* counted.
LEMMA PutMessage ==
  ASSUME TypeOK, NEW j \in Job, NEW m \in Message, Put(j, m)
  PROVE  /\ Range(out') \cup Range(chan') = Range(out) \cup Range(chan) \cup {m}
         /\ Range(out') \subseteq Range(out) \cup {m}
         /\ j = "bg" => out' = out
         /\ j = "main" /\ m.typ = "err" => errCounter' > 0
         /\ errCounter' = errCounter \/ errCounter' = errCounter + 1
         /\ exit' # exit => errCounter' > 0
<1>1. CASE j = "main"
  <2>1. Receive(m) /\ chan' = chan
    BY <1>1 DEF Put
  <2>2. Range(out') = Range(out) \cup {m}
    BY <2>1, RangeAppend DEF Receive, TypeOK
  <2>3. /\ m.typ = "err" => errCounter' > 0
        /\ errCounter' = errCounter \/ errCounter' = errCounter + 1
        /\ exit' # exit => errCounter' > 0
    BY <2>1 DEF Receive, TypeOK
  <2> QED  BY <1>1, <2>1, <2>2, <2>3
<1>2. CASE j = "bg"
  <2>1. chan' = Append(chan, m) /\ UNCHANGED <<out, errCounter, exit>>
    BY <1>2 DEF Put
  <2>2. Range(chan') = Range(chan) \cup {m}
    BY <2>1, RangeAppend DEF TypeOK
  <2> QED  BY <1>2, <2>1, <2>2
<1> QED  BY <1>1, <1>2 DEF Job

Data == NothingLost /\ ErrCounted /\ Returned /\ EarlyChecks

\* An action that sends and moves no message.
LEMMA DataQuiet ==
  ASSUME TypeOK, Data, UNCHANGED <<chan, out, emitted, list>>,
         errCounter' \in Nat, errCounter' >= errCounter, Returned', EarlyChecks'
  PROVE  Data'
<1>1. NothingLost'
  BY DEF Data, NothingLost
<1>2. ErrCounted'
  BY DEF Data, ErrCounted, TypeOK
<1> QED  BY <1>1, <1>2 DEF Data

\* An action that moves main: not past a stopOnErr, unless no error was seen.
LEMMA DataMove ==
  ASSUME TypeOK, Data, UNCHANGED <<chan, out, emitted, list, errCounter>>, Returned',
         \/ errCounter = 0
         \/ /\ pc["main"] \in UntilReadStop => pc'["main"] \in UntilReadStop
            /\ pc["main"] \in UntilSetupStop => pc'["main"] \in UntilSetupStop
  PROVE  Data'
<1>1. EarlyChecks'
  BY DEF Data, ErrCounted, EarlyChecks
<1>2. errCounter' \in Nat /\ errCounter' >= errCounter
  BY DEF TypeOK
<1> QED  BY <1>1, <1>2, DataQuiet

\* Messages are never lost, errors are counted, and no phase behind a
\* stopOnErr starts after an error.
LEMMA DataStep == Control /\ Data /\ [Next]_vars => Data'
<1> SUFFICES ASSUME Control, Data, [Next]_vars PROVE Data'
  OBVIOUS
<1>0. TypeOK
  BY DEF Control
<1>1. ASSUME NEW j \in Job, NEW m \in Message, Emit(j, m), m.stage = pc[j]  PROVE Data'
  <2>1. /\ exit = "run" /\ pc[j] \in Plain
        /\ emitted' = emitted \cup {m}
        /\ Put(j, m)
        /\ UNCHANGED <<pc, list>>
    BY <1>1 DEF Emit, Count
  <2>2. NothingLost'
    BY <1>0, <2>1, PutMessage DEF Data, NothingLost
  <2>3. m.stage \in {"read", "setup"} => j = "main" /\ pc["main"] = m.stage
    BY <1>1 DEF Control, Places, BgLabel, Inline, Job
  <2>4. ErrCounted'
    BY <1>0, <2>1, <2>3, PutMessage DEF Data, ErrCounted, TypeOK, Job
  <2>5. Returned'
    BY <1>0, <2>1, PutMessage DEF Returned, TypeOK
  <2>6. EarlyChecks'
    BY <2>1, <2>3 DEF Data, EarlyChecks, UntilReadStop, UntilSetupStop
  <2> QED  BY <2>2, <2>4, <2>5, <2>6 DEF Data
<1>2. ASSUME NEW j \in Job, NEW m \in Message, EmitSorted(j, m), m.stage = pc[j]
      PROVE  Data'
  <2>1. /\ exit = "run" /\ pc[j] \in Sorted
        /\ emitted' = emitted \cup {m}
        /\ list' = [list EXCEPT ![j] = @ \cup {m}]
        /\ UNCHANGED <<pc, chan, out, errCounter, exit>>
    BY <1>2 DEF EmitSorted, Count
  <2>2. list'["main"] \cup list'["bg"] = list["main"] \cup list["bg"] \cup {m}
    BY <1>0, <2>1 DEF TypeOK, Job
  <2>3. NothingLost'
    BY <2>1, <2>2 DEF Data, NothingLost
  <2>4. m.stage \notin {"read", "setup"}
    BY <1>2, <2>1 DEF Sorted
  <2>5. ErrCounted' /\ EarlyChecks'
    BY <2>1, <2>4 DEF Data, ErrCounted, EarlyChecks
  <2> QED  BY <2>1, <2>3, <2>5 DEF Data, Returned
<1>3. ASSUME NEW j \in Job, Advance(j)  PROVE Data'
  <2>1. /\ exit = "run" /\ pc[j] \in Plain \cup Sorted /\ GoOn(j)
        /\ UNCHANGED <<chan, out, emitted, list, errCounter, exit>>
    BY <1>3 DEF Advance
  <2>2. j = "main" => pc'["main"] \in After("main", pc["main"])
    BY <1>0, <2>1 DEF GoOn, TypeOK, Job
  <2>3. j = "bg" => pc'["main"] = pc["main"]
    BY <1>0, <2>1 DEF GoOn, TypeOK, Job
  <2>4. /\ pc["main"] \in UntilReadStop => pc'["main"] \in UntilReadStop
        /\ pc["main"] \in UntilSetupStop => pc'["main"] \in UntilSetupStop
    BY <2>1, <2>2, <2>3 DEF After, Plain, Sorted, UntilReadStop, UntilSetupStop, Job
  <2> QED  BY <1>0, <2>1, <2>4, DataMove DEF Returned
<1>4. CASE ParseAbort
  BY <1>0, <1>4, DataMove DEF ParseAbort, Returned
<1>5. CASE Abort
  <2>1. /\ errCounter' = errCounter + 1
        /\ UNCHANGED <<chan, out, emitted, list, pc>>
    BY <1>5 DEF Abort
  <2>2. errCounter' \in Nat /\ errCounter' >= errCounter /\ errCounter' # 0
    BY <1>0, <2>1 DEF TypeOK
  <2>3. Returned' /\ EarlyChecks'
    BY <2>1, <2>2 DEF Data, Returned, EarlyChecks
  <2> QED  BY <1>0, <2>1, <2>2, <2>3, DataQuiet
<1>6. CASE CheckErr
  <2>1. /\ pc["main"] \in Stop /\ GoOn("main")
        /\ UNCHANGED <<chan, out, emitted, list, errCounter>>
    BY <1>6 DEF CheckErr
  <2>2. errCounter = 0 => exit' = "run"
    BY <1>0, <1>6 DEF CheckErr, TypeOK
  <2>3. pc'["main"] \in After("main", pc["main"])
    BY <1>0, <2>1 DEF GoOn, TypeOK, Job
  <2>4. /\ pc["main"] \in UntilReadStop => pc'["main"] \in UntilReadStop
        /\ pc["main"] \in UntilSetupStop => pc'["main"] \in UntilSetupStop
    BY <2>1, <2>3 DEF After, Stop, UntilReadStop, UntilSetupStop
  <2> QED  BY <1>0, <2>1, <2>2, <2>4, DataMove DEF Returned
<1>7. CASE StartInBackground
  <2>1. /\ exit = "run" /\ pc["main"] = "fork"
        /\ UNCHANGED <<chan, out, emitted, list, errCounter, exit>>
    BY <1>7 DEF StartInBackground
  <2> QED  BY <1>0, <2>1, DataMove DEF Returned, UntilReadStop, UntilSetupStop
<1>8. CASE CollectMessage
  <2> DEFINE m == Head(chan)
  <2>1. /\ exit = "run" /\ chan # <<>> /\ chan' = Tail(chan)
        /\ Receive(m)
        /\ UNCHANGED <<pc, list, emitted>>
    BY <1>8 DEF CollectMessage
  <2>2. m \in Message /\ Range(chan) = Range(chan') \cup {m}
    BY <1>0, <2>1, RangeTail DEF TypeOK
  <2>3. Range(out') = Range(out) \cup {m}
    BY <1>0, <2>1, <2>2, RangeAppend DEF Receive, TypeOK
  <2>4. /\ m.typ = "err" => errCounter' > 0
        /\ errCounter' = errCounter \/ errCounter' = errCounter + 1
        /\ exit' # exit => errCounter' > 0
    BY <1>0, <2>1 DEF Receive, TypeOK
  <2> HIDE DEF m
  <2>5. NothingLost'
    BY <2>1, <2>2, <2>3 DEF Data, NothingLost
  <2>6. ErrCounted'
    BY <1>0, <2>1, <2>3, <2>4 DEF Data, ErrCounted, TypeOK
  <2>7. Returned' /\ EarlyChecks'
    BY <1>0, <2>1, <2>4 DEF Data, Returned, EarlyChecks, TypeOK
  <2> QED  BY <2>5, <2>6, <2>7 DEF Data
<1>9. CASE CollectDone
  <2>1. /\ exit = "run" /\ pc["main"] = "collect"
        /\ UNCHANGED <<chan, out, emitted, list, errCounter, exit>>
    BY <1>9 DEF CollectDone
  <2> QED  BY <1>0, <2>1, DataMove DEF Returned, UntilReadStop, UntilSetupStop
<1>10. CASE CloseMain
  <2>1. /\ pc["main"] = "close"
        /\ pc' = [pc EXCEPT !["main"] = "done"]
        /\ UNCHANGED <<chan, out, emitted, list, errCounter>>
    BY <1>10 DEF CloseMain
  <2>2. pc'["main"] = "done"
    BY <1>0, <2>1 DEF TypeOK, Job
  <2> QED  BY <1>0, <2>1, <2>2, DataMove DEF Returned, UntilReadStop, UntilSetupStop
<1>11. CASE CloseBackground
  <2>1. /\ exit = "run" /\ pc' = [pc EXCEPT !["bg"] = "gone"]
        /\ UNCHANGED <<chan, out, emitted, list, errCounter, exit>>
    BY <1>11 DEF CloseBackground
  <2>2. pc'["main"] = pc["main"]
    BY <1>0, <2>1 DEF TypeOK, Job
  <2> QED  BY <1>0, <2>1, <2>2, DataMove DEF Returned
<1>12. ASSUME NEW j \in Job, NEW m \in list[j], Flush(j, m)  PROVE Data'
  <2>1. /\ exit = "run"
        /\ list' = [list EXCEPT ![j] = @ \ {m}]
        /\ Put(j, m)
        /\ UNCHANGED <<pc, emitted>>
    BY <1>12 DEF Flush
  <2>2. m \in Message
    BY <1>0 DEF TypeOK
  <2>3. list["main"] \cup list["bg"] \cup {m} = list'["main"] \cup list'["bg"] \cup {m}
    BY <1>0, <2>1 DEF TypeOK, Job
  <2>4. /\ Range(out') \cup Range(chan') = Range(out) \cup Range(chan) \cup {m}
        /\ Range(out') \subseteq Range(out) \cup {m}
        /\ j = "bg" => out' = out
        /\ j = "main" /\ m.typ = "err" => errCounter' > 0
        /\ errCounter' = errCounter \/ errCounter' = errCounter + 1
        /\ exit' # exit => errCounter' > 0
    BY <1>0, <2>1, <2>2, PutMessage
  <2>5. m \in list["main"] \cup list["bg"]
    BY DEF Job
  <2>6. NothingLost'
    BY <2>1, <2>3, <2>4, <2>5 DEF Data, NothingLost
  <2>7. ErrCounted'
    BY <1>0, <2>1, <2>4 DEF Data, ErrCounted, TypeOK, Job
  <2>8. Returned' /\ EarlyChecks'
    BY <1>0, <2>1, <2>4 DEF Data, Returned, EarlyChecks, TypeOK
  <2> QED  BY <2>6, <2>7, <2>8 DEF Data
<1>13. CASE Panic
  BY <1>0, <1>13, DataMove DEF Panic, Returned
<1>14. ASSUME NEW j \in Job, FromPrinter(j)  PROVE Data'
  <2>1. /\ exit = "run" /\ printer = "ready"
        /\ UNCHANGED <<chan, out, emitted, list, errCounter, exit>>
    BY <1>14 DEF FromPrinter
  <2>2. errCounter = 0
    BY <2>1 DEF Control, PrinterReady
  <2> QED  BY <1>0, <2>1, <2>2, DataMove DEF Returned
<1>15. ASSUME NEW j \in Job, NEW k \in Job, FromSorter(j, k)  PROVE Data'
  <2>1. /\ exit = "run" /\ pc[j] \in Wait \cup Finish /\ GoOn(j) /\ k \in flushing
        /\ UNCHANGED <<chan, out, emitted, list, errCounter, exit>>
    BY <1>15 DEF FromSorter, Flushed
  <2>2. CASE pc["main"] \in UntilSetupStop
    <3>1. /\ pc["bg"] = "idle" /\ "bg" \notin flushing
          /\ pc["main"] \in PreFork \ Finish
      BY <2>2 DEF Control, Places, PreFork, UntilSetupStop, UntilReadStop, Finish
    <3>2. "main" \notin flushing
      BY <3>1 DEF Control, Tokens, ReadyOwn, MainWaits, BgWaits, PreFork, Job
    <3> QED  BY <2>1, <3>1, <3>2 DEF Job
  <2>3. CASE pc["main"] \notin UntilSetupStop
    BY <1>0, <2>1, <2>3, DataMove DEF Returned, UntilSetupStop
  <2> QED  BY <2>2, <2>3
<1>16. CASE UNCHANGED vars
  <2>1. UNCHANGED <<chan, out, emitted, list, errCounter, exit, pc>>
    BY <1>16 DEF vars
  <2> QED  BY <1>0, <2>1, DataMove DEF Data, Returned
<1>17. ASSUME NEW j \in Job, NEW typ \in Types, NEW text \in Texts
       PROVE  /\ MessageOf(j, typ, text) \in Message
              /\ MessageOf(j, typ, text).stage = pc[j]
  BY <1>0, MessageType DEF MessageOf
<1> QED
  BY <1>1, <1>2, <1>3, <1>4, <1>5, <1>6, <1>7, <1>8, <1>9, <1>10, <1>11, <1>12,
     <1>13, <1>14, <1>15, <1>16, <1>17
     DEF Next, MainStep, BgStep, JobStep, SorterStep, ReadyStep, Job

\* printMessages lets main pass the last stopOnErr only if no error was counted,
\* and after that nobody sends a message.
LEMMA LastStep == Control /\ LastCheck /\ [Next]_vars => LastCheck'
<1> SUFFICES ASSUME Control, LastCheck, [Next]_vars  PROVE LastCheck'
  OBVIOUS
<1> DEFINE Behind(s) == s \in {"close", "done"}
<1>0. TypeOK
  BY DEF Control
<1>1. pc["main"] \in PastCollect =>
        pc["bg"] \notin Plain \cup Sorted /\ "main" \notin flushing /\ "bg" \notin flushing
  BY DEF Control, AllEnded, Plain, Sorted
<1>2. ASSUME UNCHANGED errCounter, Behind(pc'["main"]) => Behind(pc["main"]) \/ errCounter = 0
      PROVE  LastCheck'
  BY <1>2 DEF LastCheck
<1>3. ASSUME UNCHANGED pc, ~Behind(pc["main"])  PROVE LastCheck'
  BY <1>3 DEF LastCheck
<1> HIDE DEF Behind
<1>4. ASSUME NEW j \in Job, GoOn(j)
      PROVE  Behind(pc'["main"]) => Behind(pc["main"]) \/ (j = "main" /\ pc["main"] = "lastWait")
  <2>1. \/ j = "main" /\ pc'["main"] \in After("main", pc["main"])
        \/ pc'["main"] = pc["main"]
    BY <1>0, <1>4 DEF GoOn, TypeOK, Job
  <2>2. Behind(pc'["main"]) /\ pc'["main"] \in After("main", pc["main"]) =>
          pc["main"] = "lastWait"
    BY DEF After, Behind
  <2> QED  BY <2>1, <2>2
<1>5. ASSUME NEW j \in Job, NEW m, Emit(j, m)  PROVE LastCheck'
  <2>1. UNCHANGED pc /\ pc[j] \in Plain
    BY <1>5 DEF Emit
  <2>2. ~Behind(pc["main"])
    BY <1>1, <2>1 DEF Behind, PastCollect, Plain, Job
  <2> QED  BY <1>3, <2>1, <2>2
<1>6. ASSUME NEW j \in Job, NEW m, EmitSorted(j, m)  PROVE LastCheck'
  BY <1>2, <1>6 DEF EmitSorted
<1>7. ASSUME NEW j \in Job, Advance(j)  PROVE LastCheck'
  <2>1. pc[j] # "lastWait" /\ GoOn(j) /\ UNCHANGED errCounter
    BY <1>7 DEF Advance, Plain, Sorted
  <2> QED  BY <1>2, <1>4, <2>1
<1>8. CASE ParseAbort
  BY <1>2, <1>8 DEF ParseAbort
<1>9. CASE Abort
  BY <1>3, <1>9 DEF Abort, Behind
<1>10. CASE CheckErr
  <2>1. pc["main"] # "lastWait" /\ GoOn("main") /\ UNCHANGED errCounter
    BY <1>10 DEF CheckErr, Stop
  <2> QED  BY <1>2, <1>4, <2>1 DEF Job
<1>11. CASE StartInBackground
  <2>1. ~Behind(pc'["main"]) /\ UNCHANGED errCounter
    BY <1>0, <1>11 DEF StartInBackground, TypeOK, Job, Behind
  <2> QED  BY <1>2, <2>1
<1>12. CASE CollectMessage
  BY <1>3, <1>12 DEF CollectMessage, Behind
<1>13. CASE CollectDone
  <2>1. ~Behind(pc'["main"]) /\ UNCHANGED errCounter
    BY <1>0, <1>13 DEF CollectDone, TypeOK, Job, Behind
  <2> QED  BY <1>2, <2>1
<1>14. CASE CloseMain
  BY <1>2, <1>14 DEF CloseMain, Behind
<1>15. CASE CloseBackground
  <2>1. pc'["main"] = pc["main"] /\ UNCHANGED errCounter
    BY <1>0, <1>15 DEF CloseBackground, TypeOK, Job
  <2> QED  BY <1>2, <2>1
<1>16. ASSUME NEW j \in Job, NEW m \in list[j], Flush(j, m)  PROVE LastCheck'
  <2>1. UNCHANGED pc /\ ~Behind(pc["main"])
    BY <1>1, <1>16 DEF Flush, Behind, PastCollect, Job
  <2> QED  BY <1>3, <2>1
<1>17. CASE Panic
  BY <1>2, <1>17 DEF Panic
<1>18. ASSUME NEW j \in Job, FromPrinter(j)  PROVE LastCheck'
  BY <1>2, <1>18 DEF FromPrinter, Control, PrinterReady
<1>19. ASSUME NEW j \in Job, NEW k \in Job, FromSorter(j, k)  PROVE LastCheck'
  <2>1. pc["main"] # "lastWait" /\ GoOn(j) /\ UNCHANGED errCounter
    BY <1>1, <1>19 DEF FromSorter, Flushed, PastCollect, Job
  <2> QED  BY <1>2, <1>4, <2>1
<1>20. CASE UNCHANGED vars
  BY <1>2, <1>20 DEF vars
<1> QED
  BY <1>5, <1>6, <1>7, <1>8, <1>9, <1>10, <1>11, <1>12, <1>13, <1>14, <1>15, <1>16,
     <1>17, <1>18, <1>19, <1>20
     DEF Next, MainStep, BgStep, JobStep, SorterStep, ReadyStep, Job

-----------------------------------------------------------------------------
(***************************************************************************)
(* Theorems.                                                               *)
(***************************************************************************)
\* The invariant holds at start.
LEMMA InvInit == Init => Inv
<1> SUFFICES ASSUME Init PROVE Inv
  OBVIOUS
<1>1. TypeOK
  <2>1. pc \in [Job -> Label]
    BY DEF Init, Job, Label, Plain
  <2>2. Len(chan) <= BgCap /\ chan \in Seq(Message) /\ out \in Seq(Message)
    BY ConstAssumption DEF Init
  <2>3. /\ list \in [Job -> SUBSET Message] /\ flushing \in SUBSET Job
        /\ sent \in [Job -> Nat]
        /\ emitted \in SUBSET Message
    BY DEF Init
  <2>4. level \in Levels /\ closed \in BOOLEAN /\ printer \in {"recv", "ready"}
        /\ errCounter \in Nat /\ exit \in {"run", "returned", "exited", "panic"}
    BY DEF Init
  <2> QED  BY <2>1, <2>2, <2>3, <2>4 DEF TypeOK
<1>2. pc["main"] = "read" /\ pc["bg"] = "idle" /\ list["main"] = {} /\ list["bg"] = {}
  BY DEF Init, Job
<1>3. Control
  BY <1>1, <1>2
     DEF Init, Control, Places, MainLabel, PreFork, BgLabel, SorterLists, Tokens, ReadyOwn,
         Finish, Sorted, PrinterReady, AllEnded, PastCollect, Job
<1>4. Range(out) = {} /\ Range(chan) = {}
  BY RangeEmpty DEF Init
<1>5. NothingLost /\ ErrCounted /\ Returned /\ EarlyChecks /\ LastCheck
  BY <1>2, <1>4 DEF Init, NothingLost, ErrCounted, Returned, EarlyChecks, LastCheck
<1> QED  BY <1>3, <1>5 DEF Inv

\* Inv is an inductive invariant.
THEOREM Invariance == Spec => []Inv
<1>1. Inv /\ [Next]_vars => Inv'
  BY ControlStep, DataStep, LastStep DEF Inv, Data
<1> QED  BY <1>1, InvInit, PTL DEF Spec

\* All variables keep their types, in particular the buffer of the background
\* job is never filled beyond its capacity.
THEOREM TypeCorrect == Spec => []TypeOK
<1>1. Inv => TypeOK
  BY DEF Inv, Control
<1> QED  BY <1>1, Invariance, PTL

\* No message is ever lost, whichever job or sorter is scheduled.
THEOREM MessagesNotLost == Spec => []NothingLost
<1>1. Inv => NothingLost
  BY DEF Inv
<1> QED  BY <1>1, Invariance, PTL

\* When all jobs have ended and their sorters are done, everything is printed.
LEMMA AllPrinted ==
  ASSUME Inv, pc["main"] \in {"close", "done"}
  PROVE  /\ pc["bg"] \in {"idle", "gone"}
         /\ emitted = Range(out)
<1>1. /\ pc["bg"] \in {"idle", "gone"} /\ chan = <<>>
      /\ "main" \notin flushing /\ "bg" \notin flushing
  BY DEF Inv, Control, AllEnded, PastCollect
<1>2. list["main"] = {} /\ list["bg"] = {}
  BY <1>1 DEF Inv, Control, SorterLists, Sorted, Job
<1>3. emitted = Range(out)
  BY <1>1, <1>2, RangeEmpty DEF Inv, NothingLost
<1> QED  BY <1>1, <1>3

\* stopOnErr separates the phases, the last one also those whose errors have
\* been sorted or come from the background job.
THEOREM PhasesSeparated == Spec => []CleanChecks
<1>1. Inv => CleanChecks
  <2> SUFFICES ASSUME Inv  PROVE CleanChecks
    OBVIOUS
  <2>1. ASSUME NEW m \in emitted, m.typ = "err", pc["main"] \in {"close", "done"}
        PROVE  FALSE
    BY <2>1, AllPrinted DEF Inv, ErrCounted, LastCheck
  <2> QED  BY <2>1 DEF Inv, EarlyChecks, CleanChecks
<1> QED  BY <1>1, Invariance, PTL

\* If spoc1 reports success, then all jobs have ended, no error has occurred
\* and every warning has been printed.
THEOREM SuccessIsComplete == Spec => []ExitOK
<1>1. Inv => ExitOK
  <2> SUFFICES ASSUME Inv, exit = "returned", errCounter = 0
               PROVE  /\ pc["main"] = "done"
                      /\ pc["bg"] \in {"idle", "gone"}
                      /\ \A m \in emitted : m.typ # "err" /\ m \in Range(out)
    BY DEF ExitOK
  <2>1. pc["main"] = "done"
    BY DEF Inv, Returned
  <2>2. pc["bg"] \in {"idle", "gone"} /\ emitted = Range(out)
    BY <2>1, AllPrinted
  <2>3. \A m \in emitted : m.typ # "err"
    BY <2>2 DEF Inv, ErrCounted
  <2> QED  BY <2>1, <2>2, <2>3
<1> QED  BY <1>1, Invariance, PTL

-----------------------------------------------------------------------------
(***************************************************************************)
(* More proofs about module Messages: no message is printed twice, and the *)
(* order of the output is that of the phases.                              *)
(*                                                                         *)
(* Every message has a number that is new for its job, so it is never      *)
(* taken for one sent before.  The order follows from where messages of a  *)
(* stage can be while main is at some stage: printed messages are not of a *)
(* later phase, the background job holds only messages of its own two      *)
(* stages, and what is still held of a stage belongs behind what of the    *)
(* same stage has already gone on.                                         *)
(***************************************************************************)
Stages == Plain \cup Sorted
BgStages == {"redundant", "overlap"}

\* The place of stage s in Phases, for level l.
Place(l, s) ==
  IF s = "read" THEN 1
  ELSE IF s = "setup" THEN 2
  ELSE IF s = "owner" THEN 3
  ELSE IF s = "rules" THEN 4
  ELSE IF s = "redundant" THEN (IF l <= 1 THEN 5 ELSE 8)
  ELSE IF s = "overlap" THEN (IF l <= 1 THEN 6 ELSE 9)
  ELSE IF s = "nat" THEN (IF l <= 1 THEN 7 ELSE 5)
  ELSE IF s = "unused" THEN (IF l <= 1 THEN 8 ELSE 6)
  ELSE IF s = "supernet" THEN (IF l <= 1 THEN 9 ELSE 7)
  ELSE IF s = "optimize" THEN 10
  ELSE 11

\* The last place that a message printed while main is at s can have.  Inside
\* of a sorting section nothing of that section has been printed.
Printed(l, s) ==
  IF s \in Plain THEN Place(l, s)
  ELSE IF s \in Sorted THEN Place(l, s) - 1
  ELSE IF s \in {"readStop", "readWait"} THEN 1
  ELSE IF s \in {"setupStop", "setupWait"} THEN 2
  ELSE IF s = "ownerFin" THEN 3
  ELSE IF s = "fork" THEN 4
  ELSE IF s = "redundantFin" THEN Place(l, "redundant")
  ELSE IF s = "unusedFin" THEN Place(l, "unused")
  ELSE IF s = "collect" THEN 9
  ELSE 11

\* The job that sends the messages of a stage.
Sender(l, s) == IF l > 1 /\ s \in BgStages THEN "bg" ELSE "main"

\* The section whose messages main may still hold at stage s.
Section(s) ==
  IF s \in {"owner", "ownerFin"} THEN "owner"
  ELSE IF s \in {"redundant", "redundantFin"} THEN "redundant" ELSE "unused"

\* The numbers of the messages of a job are not larger than their count.
Numbered ==
  \A m \in emitted : /\ m.nr <= sent[m.job]
                     /\ m.job = Sender(level, m.stage)
                     /\ m.stage \in Stages

\* What can be held and printed when.
Held ==
  /\ \A m \in list["main"] : m.stage = Section(pc["main"])
  /\ \A m \in list["bg"] : m.stage = "redundant"
  /\ \A m \in Range(chan) : m.stage \in BgStages
  /\ pc["bg"] = "redundant" =>
       chan = <<>> /\ \A m \in Range(out) : m.stage \notin BgStages
  /\ \A m \in Range(out) : Place(level, m.stage) <= Printed(level, pc["main"])

\* Two messages of the same stage.
InStage(a, b) ==
  a.stage = b.stage => IF a.stage \in Sorted THEN ErrorsFirst(a, b) ELSE a.nr < b.nr

\* Messages of the same stage are on their way in the right order.
OnTheirWay ==
  /\ \A a \in Range(out), b \in Range(chan) : InStage(a, b)
  /\ \A i, k \in DOMAIN chan : i < k => InStage(chan[i], chan[k])
  /\ \A a \in Range(out), j \in Job : \A b \in list[j] : InStage(a, b)
  /\ \A a \in Range(chan), b \in list["bg"] : InStage(a, b)

\* MayFollow, said with Place.
Follows(l, a, b) ==
  /\ InStage(a, b)
  /\ a.stage # b.stage =>
       \/ Place(l, a.stage) < Place(l, b.stage)
       \/ l >= 2 /\ b.stage \in {"unused", "redundant"}

InOrder == \A i, k \in DOMAIN out : i < k => Follows(level, out[i], out[k])

\* Each message is at one place only.
Counted ==
  /\ IsFiniteSet(emitted) /\ IsFiniteSet(list["main"]) /\ IsFiniteSet(list["bg"])
  /\ Cardinality(emitted) = Len(out) + Len(chan) + Cardinality(list["main"])
                              + Cardinality(list["bg"])

-----------------------------------------------------------------------------
(***************************************************************************)
(* Lemmas on stages.                                                       *)
(***************************************************************************)
\* Place is a numbering of the stages.
LEMMA PlaceType ==
  ASSUME NEW l \in Nat
  PROVE  /\ \A s \in Stages : Place(l, s) \in 1 .. 11
         /\ \A s, t \in Stages : Place(l, s) = Place(l, t) => s = t
BY DEF Stages, Plain, Sorted, Place

\* Printed is a place or 0.
LEMMA PrintedType ==
  ASSUME NEW l \in Nat, NEW s \in MainLabel
  PROVE  Printed(l, s) \in Nat
BY DEF MainLabel, PreFork, Inline, PastCollect, Plain, Sorted, Place, Printed

\* Position of the specification is Place.
LEMMA PositionIsPlace ==
  ASSUME level \in Nat, NEW m, m.stage \in Stages
  PROVE  Position(m) = Place(level, m.stage)
<1> DEFINE s == m.stage
<1>1. DOMAIN Phases = 1 .. 11
  BY DEF Phases
<1>2. \A k \in 1 .. 11 : Place(level, Phases[k]) = k
  <2>1. CASE level <= 1
    BY <2>1 DEF Phases, Place
  <2>2. CASE ~(level <= 1)
    BY <2>2 DEF Phases, Place
  <2> QED  BY <2>1, <2>2
<1>3. Phases[Place(level, s)] = s /\ Place(level, s) \in 1 .. 11
  <2> HIDE DEF s
  <2>0. s \in Stages
    BY DEF s
  <2>1. CASE level <= 1
    BY <2>0, <2>1 DEF Phases, Place, Stages, Plain, Sorted
  <2>2. CASE ~(level <= 1)
    BY <2>0, <2>2 DEF Phases, Place, Stages, Plain, Sorted
  <2> QED  BY <2>1, <2>2
<1>4. \A i \in DOMAIN Phases : Phases[i] = s <=> i = Place(level, s)
  BY <1>1, <1>2, <1>3
<1> QED  BY <1>1, <1>3, <1>4 DEF Position

\* So Follows implies MayFollow.
LEMMA FollowsMayFollow ==
  ASSUME level \in Nat, NEW a, NEW b, a.stage \in Stages, b.stage \in Stages,
         Follows(level, a, b)
  PROVE  MayFollow(a, b)
<1>1. Position(a) = Place(level, a.stage) /\ Position(b) = Place(level, b.stage)
  BY PositionIsPlace
<1> QED  BY <1>1 DEF Follows, InStage, MayFollow

\* The stage of main decides what can have been printed; it never gets less.
LEMMA PrintedGrows ==
  ASSUME NEW l \in Nat, NEW s \in MainLabel, l > 1 => s \notin Inline,
         NEW t \in After("main", s)
  PROVE  Printed(l, s) <= Printed(l, t)
<1>1. CASE s \in PreFork
  BY <1>1 DEF PreFork, Plain, Sorted, Place, Printed, After
<1>2. CASE s \in Inline
  BY <1>2 DEF Inline, Plain, Sorted, Place, Printed, After
<1>3. CASE s \in PastCollect
  BY <1>3 DEF PastCollect, Plain, Sorted, Place, Printed, After
<1>4. CASE s \in {"nat", "unused", "unusedFin", "supernet", "collect"}
  BY <1>4 DEF Plain, Sorted, Place, Printed, After
<1> QED  BY <1>1, <1>2, <1>3, <1>4 DEF MainLabel

-----------------------------------------------------------------------------
(***************************************************************************)
(* Lemmas on sequences of messages.                                        *)
(***************************************************************************)
\* A message is printed that may follow all others.
LEMMA PrintOne ==
  ASSUME TypeOK, InOrder, NEW m \in Message, out' = Append(out, m), level' = level,
         \A a \in Range(out) : Follows(level, a, m)
  PROVE  InOrder' /\ Range(out') = Range(out) \cup {m} /\ Len(out') = Len(out) + 1
<1>1. Range(out') = Range(out) \cup {m}
  BY RangeAppend DEF TypeOK
<1>2. Len(out') = Len(out) + 1 /\ Len(out) \in Nat
  BY DEF TypeOK
<1>3. /\ DOMAIN out' = 1 .. Len(out) + 1 /\ DOMAIN out = 1 .. Len(out)
      /\ out'[Len(out) + 1] = m /\ \A i \in 1 .. Len(out) : out'[i] = out[i]
  BY DEF TypeOK
<1>4. ASSUME NEW i \in DOMAIN out', NEW k \in DOMAIN out', i < k
      PROVE  Follows(level, out'[i], out'[k])
  <2>1. i \in DOMAIN out /\ out'[i] = out[i]
    BY <1>2, <1>3, <1>4
  <2>2. CASE k = Len(out) + 1
    BY <1>3, <2>1, <2>2 DEF Range
  <2>3. CASE k # Len(out) + 1
    <3>1. k \in DOMAIN out /\ out'[k] = out[k]
      BY <1>2, <1>3, <2>3
    <3> QED  BY <1>4, <2>1, <3>1 DEF InOrder
  <2> QED  BY <2>2, <2>3
<1>5. InOrder'
  BY <1>4 DEF InOrder
<1> QED  BY <1>1, <1>2, <1>5

\* A message is put behind those in the channel.
LEMMA BufferOne ==
  ASSUME TypeOK, NEW m \in Message, chan' = Append(chan, m),
         \A i, k \in DOMAIN chan : i < k => InStage(chan[i], chan[k]),
         \A a \in Range(chan) : InStage(a, m)
  PROVE  /\ \A i, k \in DOMAIN chan' : i < k => InStage(chan'[i], chan'[k])
         /\ Range(chan') = Range(chan) \cup {m} /\ Len(chan') = Len(chan) + 1
<1>1. Range(chan') = Range(chan) \cup {m}
  BY RangeAppend DEF TypeOK
<1>2. Len(chan') = Len(chan) + 1 /\ Len(chan) \in Nat
  BY DEF TypeOK
<1>3. /\ DOMAIN chan' = 1 .. Len(chan) + 1 /\ DOMAIN chan = 1 .. Len(chan)
      /\ chan'[Len(chan) + 1] = m /\ \A i \in 1 .. Len(chan) : chan'[i] = chan[i]
  BY DEF TypeOK
<1>4. ASSUME NEW i \in DOMAIN chan', NEW k \in DOMAIN chan', i < k
      PROVE  InStage(chan'[i], chan'[k])
  <2>1. i \in DOMAIN chan /\ chan'[i] = chan[i]
    BY <1>2, <1>3, <1>4
  <2>2. CASE k = Len(chan) + 1
    BY <1>3, <2>1, <2>2 DEF Range
  <2>3. CASE k # Len(chan) + 1
    <3>1. k \in DOMAIN chan /\ chan'[k] = chan[k]
      BY <1>2, <1>3, <2>3
    <3> QED  BY <1>4, <2>1, <3>1
  <2> QED  BY <2>2, <2>3
<1> QED  BY <1>1, <1>2, <1>4

\* The first message of the channel is taken out.
LEMMA TakeOne ==
  ASSUME TypeOK, chan # <<>>, chan' = Tail(chan),
         \A i, k \in DOMAIN chan : i < k => InStage(chan[i], chan[k])
  PROVE  /\ \A i, k \in DOMAIN chan' : i < k => InStage(chan'[i], chan'[k])
         /\ \A b \in Range(chan') : InStage(Head(chan), b)
         /\ Head(chan) \in Message /\ Range(chan) = Range(chan') \cup {Head(chan)}
         /\ Len(chan) = Len(chan') + 1
<1>1. /\ Head(chan) \in Message /\ Range(chan) = Range(chan') \cup {Head(chan)}
  BY RangeTail DEF TypeOK
<1>2. /\ Len(chan) \in Nat \ {0} /\ DOMAIN chan = 1 .. Len(chan)
      /\ DOMAIN chan' = 1 .. Len(chan) - 1
      /\ \A i \in DOMAIN chan' : chan'[i] = chan[i + 1]
      /\ Head(chan) = chan[1]
      /\ Len(chan') = Len(chan) - 1
  BY DEF TypeOK
<1>3. \A i \in DOMAIN chan' : i + 1 \in DOMAIN chan /\ 1 < i + 1
  BY <1>2
<1>4. ASSUME NEW i \in DOMAIN chan', NEW k \in DOMAIN chan', i < k
      PROVE  InStage(chan'[i], chan'[k])
  <2>1. i + 1 < k + 1
    BY <1>2, <1>4
  <2> QED  BY <1>2, <1>3, <2>1
<1>5. ASSUME NEW b \in Range(chan')  PROVE InStage(Head(chan), b)
  <2>1. PICK i \in DOMAIN chan' : b = chan'[i]
    BY DEF Range
  <2>2. 1 \in DOMAIN chan
    BY <1>2
  <2> QED  BY <1>2, <1>3, <2>1, <2>2
<1>6. Len(chan) = Len(chan') + 1
  BY <1>2
<1> QED  BY <1>1, <1>4, <1>5, <1>6

\* The first message in order is sent before the others of the list.
LEMMA LeastFirst ==
  ASSUME NEW l \in SUBSET Message, NEW m, IsLeast(m, l), NEW b \in l
  PROVE  ErrorsFirst(m, b)
<1>1. /\ m.typ \in {"err", "warn"} /\ b.typ \in {"err", "warn"}
      /\ m.text \in Nat /\ b.text \in Nat
  BY ConstAssumption DEF IsLeast, Message
<1> QED  BY <1>1 DEF IsLeast, Before, ErrorsFirst

-----------------------------------------------------------------------------
(***************************************************************************)
(* Each step keeps numbers, places and order.                              *)
(***************************************************************************)
OrderInv == Numbered /\ Held /\ OnTheirWay /\ InOrder /\ Counted

\* A job sends only messages of its stages.
LEMMA SenderOfStage ==
  ASSUME Control, NEW j \in Job, pc[j] \in Stages
  PROVE  j = Sender(level, pc[j])
<1>1. level \in Nat
  BY ConstAssumption DEF Control, TypeOK
<1>2. CASE j = "main"
  BY <1>1, <1>2 DEF Control, Places, Sender, BgStages, PreFork, Inline
<1>3. CASE j = "bg"
  BY <1>1, <1>3 DEF Control, Places, Sender, BgStages, BgLabel, Inline, Stages, Plain, Sorted
<1> QED  BY <1>2, <1>3 DEF Job

\* A new message has a number of its own.
LEMMA NewMessage ==
  ASSUME Control, OrderInv, NEW j \in Job, NEW m \in Message, Count(j, m),
         m.job = j, m.stage = pc[j], m.nr = sent[j] + 1, pc[j] \in Stages, level' = level
  PROVE  /\ Numbered' /\ m \notin emitted
         /\ \A a \in emitted : a.stage = m.stage => a.nr < m.nr
         /\ IsFiniteSet(emitted') /\ Cardinality(emitted') = Cardinality(emitted) + 1
<1>1. /\ sent' = [sent EXCEPT ![j] = @ + 1] /\ emitted' = emitted \cup {m}
      /\ sent \in [Job -> Nat] /\ emitted \subseteq Message
  BY DEF Count, Control, TypeOK
<1>2. \A a \in emitted : a.job \in Job /\ a.nr \in Nat /\ a.nr <= sent[a.job]
  BY <1>1 DEF OrderInv, Numbered, Message
<1>3. m \notin emitted
  BY <1>1, <1>2
<1>4. m.job = Sender(level, m.stage)
  BY SenderOfStage
<1>5. Numbered'
  BY <1>1, <1>2, <1>4 DEF OrderInv, Numbered
<1>6. ASSUME NEW a \in emitted, a.stage = m.stage  PROVE a.nr < m.nr
  BY <1>1, <1>2, <1>4, <1>6 DEF OrderInv, Numbered
<1>7. IsFiniteSet(emitted') /\ Cardinality(emitted') = Cardinality(emitted) + 1
  BY <1>1, <1>3, FS_AddElement DEF OrderInv, Counted
<1> QED  BY <1>3, <1>5, <1>6, <1>7

\* An action that sends and moves no message.
LEMMA QuietStep ==
  ASSUME OrderInv, UNCHANGED <<level, list, chan, out, sent, emitted>>, Held'
  PROVE  OrderInv'
<1>1. Numbered'
  BY DEF OrderInv, Numbered
<1>2. OnTheirWay'
  BY DEF OrderInv, OnTheirWay
<1>3. InOrder'
  BY DEF OrderInv, InOrder
<1>4. Counted'
  BY DEF OrderInv, Counted
<1> QED  BY <1>1, <1>2, <1>3, <1>4 DEF OrderInv

\* An action that moves main forward, or only the background job.
LEMMA MoveStep ==
  ASSUME Control, OrderInv, UNCHANGED <<level, list, chan, out, sent, emitted>>,
         pc'["bg"] = "redundant" => pc["bg"] = "redundant",
         \/ pc'["main"] = pc["main"]
         \/ /\ pc'["main"] \in After("main", pc["main"])
            /\ list["main"] = {} \/ Section(pc'["main"]) = Section(pc["main"])
  PROVE  OrderInv'
<1>1. /\ level \in Nat /\ pc["main"] \in MainLabel
      /\ level > 1 => pc["main"] \notin Inline
  BY ConstAssumption DEF Control, TypeOK, Places, PreFork, Inline
<1>2. Printed(level, pc["main"]) \in Nat
  BY <1>1, PrintedType
<1>3. Printed(level, pc["main"]) <= Printed(level, pc'["main"])
  BY <1>1, <1>2, PrintedGrows
<1>4. pc'["main"] # pc["main"] => pc'["main"] \in MainLabel
  BY <1>1 DEF MainLabel, PreFork, Inline, PastCollect, After
<1>5. Printed(level, pc'["main"]) \in Nat
  BY <1>1, <1>4, PrintedType
<1>6. ASSUME NEW m \in Range(out)
      PROVE  Place(level, m.stage) <= Printed(level, pc'["main"])
  <2>1. Place(level, m.stage) \in Nat
    BY <1>1 DEF Place
  <2>2. Place(level, m.stage) <= Printed(level, pc["main"])
    BY DEF OrderInv, Held
  <2> QED  BY <1>2, <1>3, <1>5, <2>1, <2>2
<1>7. Held'
  BY <1>6 DEF OrderInv, Held
<1> QED  BY <1>7, QuietStep

\* Types that the proofs of the single actions need.
LEMMA Typed ==
  ASSUME Control, OrderInv
  PROVE  /\ TypeOK /\ level \in Nat
         /\ emitted \subseteq Message
         /\ NothingLost =>
              /\ \A m \in Range(out) \cup Range(chan) \cup list["main"] \cup list["bg"] :
                   m \in emitted /\ m.stage \in Stages
         /\ chan # <<>> => level > 1
         /\ \A a \in Range(chan) : a \in Message
         /\ Len(out) \in Nat /\ Len(chan) \in Nat
         /\ Cardinality(list["main"]) \in Nat /\ Cardinality(list["bg"]) \in Nat
<1>1. TypeOK /\ level \in Nat /\ emitted \subseteq Message
  BY ConstAssumption DEF Control, TypeOK
<1>2. chan # <<>> => level > 1
  BY <1>1 DEF Control, Places
<1>3. /\ Len(out) \in Nat /\ Len(chan) \in Nat
      /\ Cardinality(list["main"]) \in Nat /\ Cardinality(list["bg"]) \in Nat
  BY <1>1, FS_CardinalityType DEF TypeOK, OrderInv, Counted
<1>4. \A a \in Range(chan) : a \in Message
  BY <1>1 DEF TypeOK, Range
<1> QED  BY <1>1, <1>2, <1>3, <1>4 DEF NothingLost, OrderInv, Numbered

\* main prints a message while it is in a phase without sorting.
LEMMA EmitMain ==
  ASSUME Control, NothingLost, OrderInv, NEW m \in Message, Emit("main", m),
         m.job = "main", m.stage = pc["main"], m.nr = sent["main"] + 1
  PROVE  OrderInv'
<1>1. /\ pc["main"] \in Plain /\ Count("main", m) /\ Receive(m) /\ chan' = chan
      /\ UNCHANGED <<level, pc, list>>
  BY DEF Emit, Put
<1>2. out' = Append(out, m) /\ emitted' = emitted \cup {m}
  BY <1>1 DEF Receive, Count
<1>3. /\ Numbered' /\ m \notin emitted
      /\ \A a \in emitted : a.stage = m.stage => a.nr < m.nr
      /\ IsFiniteSet(emitted') /\ Cardinality(emitted') = Cardinality(emitted) + 1
  BY <1>1, NewMessage DEF Stages, Job
<1>4. /\ TypeOK /\ level \in Nat
      /\ chan # <<>> => level > 1
      /\ \A a \in Range(out) \cup Range(chan) \cup list["main"] \cup list["bg"] :
           a \in emitted /\ a.stage \in Stages
  BY Typed
<1>5. m.stage \in Stages /\ m.stage \notin Sorted /\ m.stage \in Plain
  BY <1>1 DEF Stages, Plain, Sorted
<1>6. level > 1 => m.stage \notin BgStages
  BY <1>1 DEF Control, Places, PreFork, Inline, BgStages, Plain
<1>7. ASSUME NEW a \in Range(out)  PROVE Follows(level, a, m)
  <2>1. Place(level, a.stage) <= Place(level, m.stage)
    BY <1>1 DEF OrderInv, Held, Printed
  <2>2. a \in emitted /\ a.stage \in Stages
    BY <1>4
  <2>3. a.stage # m.stage => Place(level, a.stage) < Place(level, m.stage)
    BY <1>4, <1>5, <2>1, <2>2, PlaceType
  <2> QED  BY <1>3, <1>5, <2>2, <2>3 DEF Follows, InStage
<1>8. InOrder' /\ Range(out') = Range(out) \cup {m} /\ Len(out') = Len(out) + 1
  BY <1>1, <1>2, <1>4, <1>7, PrintOne DEF OrderInv
<1>9. Held'
  <2>1. Place(level, m.stage) <= Printed(level, pc["main"])
    BY <1>1, <1>4, <1>5, PlaceType DEF Printed
  <2>2. pc["bg"] = "redundant" => level > 1
    BY <1>4 DEF Control, Places
  <2> QED  BY <1>1, <1>6, <1>8, <2>1, <2>2 DEF OrderInv, Held
<1>10. OnTheirWay'
  <2>1. \A b \in Range(chan) : m.stage # b.stage
    <3>1. chan = <<>> => Range(chan) = {}
      BY RangeEmpty
    <3> QED  BY <1>4, <1>6, <3>1 DEF OrderInv, Held
  <2>2. ASSUME NEW j \in Job, NEW b \in list[j]  PROVE m.stage # b.stage
    BY <1>5 DEF OrderInv, Held, Section, Sorted, Job
  <2> QED  BY <1>1, <1>8, <2>1, <2>2 DEF OrderInv, OnTheirWay, InStage
<1>11. Counted'
  BY <1>1, <1>3, <1>8, Typed DEF OrderInv, Counted
<1> QED  BY <1>3, <1>8, <1>9, <1>10, <1>11 DEF OrderInv

\* The background job puts a message of stage "overlap" into its channel.
LEMMA EmitBg ==
  ASSUME Control, NothingLost, OrderInv, NEW m \in Message, Emit("bg", m),
         m.job = "bg", m.stage = pc["bg"], m.nr = sent["bg"] + 1
  PROVE  OrderInv'
<1>1. /\ pc["bg"] \in Plain /\ Count("bg", m) /\ chan' = Append(chan, m) /\ out' = out
      /\ UNCHANGED <<level, pc, list>>
  BY DEF Emit, Put
<1>2. m.stage = "overlap" /\ emitted' = emitted \cup {m}
  BY <1>1 DEF Control, Places, BgLabel, Inline, Plain, Count
<1>3. /\ Numbered' /\ m \notin emitted
      /\ \A a \in emitted : a.stage = m.stage => a.nr < m.nr
      /\ IsFiniteSet(emitted') /\ Cardinality(emitted') = Cardinality(emitted) + 1
  BY <1>1, NewMessage DEF Stages, Job
<1>4. /\ TypeOK
      /\ \A a \in Range(out) \cup Range(chan) \cup list["main"] \cup list["bg"] :
           a \in emitted /\ a.stage \in Stages
  BY Typed
<1>5. ASSUME NEW a \in Range(out) \cup Range(chan)  PROVE InStage(a, m)
  BY <1>2, <1>3, <1>4 DEF InStage, Sorted
<1>6. /\ \A i, k \in DOMAIN chan' : i < k => InStage(chan'[i], chan'[k])
      /\ Range(chan') = Range(chan) \cup {m} /\ Len(chan') = Len(chan) + 1
  BY <1>1, <1>4, <1>5, BufferOne DEF OrderInv, OnTheirWay
<1>7. Held'
  BY <1>1, <1>2, <1>6 DEF OrderInv, Held, BgStages
<1>8. OnTheirWay'
  <2>1. \A b \in list["bg"] : m.stage # b.stage
    BY <1>2 DEF OrderInv, Held
  <2> QED  BY <1>1, <1>5, <1>6, <2>1 DEF OrderInv, OnTheirWay, InStage
<1>9. InOrder'
  BY <1>1 DEF OrderInv, InOrder
<1>10. Counted'
  BY <1>1, <1>3, <1>6, Typed DEF OrderInv, Counted
<1> QED  BY <1>3, <1>7, <1>8, <1>9, <1>10 DEF OrderInv

\* A sorter takes a message.  Nothing of its section has been sent on.
LEMMA CollectOne ==
  ASSUME Control, NothingLost, OrderInv, NEW j \in Job, NEW m \in Message, EmitSorted(j, m),
         m.job = j, m.stage = pc[j], m.nr = sent[j] + 1
  PROVE  OrderInv'
<1>1. /\ pc[j] \in Sorted /\ Count(j, m) /\ list' = [list EXCEPT ![j] = @ \cup {m}]
      /\ UNCHANGED <<level, pc, chan, out>>
  BY DEF EmitSorted
<1>2. emitted' = emitted \cup {m}
  BY <1>1 DEF Count
<1>3. /\ Numbered' /\ m \notin emitted
      /\ IsFiniteSet(emitted') /\ Cardinality(emitted') = Cardinality(emitted) + 1
  BY <1>1, NewMessage DEF Stages
<1>4. /\ TypeOK /\ level \in Nat
      /\ \A a \in Range(out) \cup Range(chan) \cup list["main"] \cup list["bg"] :
           a \in emitted /\ a.stage \in Stages
  BY Typed
<1>5. /\ list'[j] = list[j] \cup {m} /\ \A o \in Job \ {j} : list'[o] = list[o]
      /\ m \notin list[j]
  BY <1>1, <1>3, <1>4 DEF TypeOK, Job
<1>6. j = "bg" => m.stage = "redundant"
  BY <1>1 DEF Control, Places, BgLabel, Inline, Sorted
<1>7. Held'
  <2>1. j = "main" => m.stage = Section(pc["main"])
    BY <1>1 DEF Sorted, Section
  <2>2. \A a \in list'["main"] : a.stage = Section(pc["main"])
    BY <1>5, <2>1 DEF OrderInv, Held, Job
  <2>3. \A a \in list'["bg"] : a.stage = "redundant"
    BY <1>5, <1>6 DEF OrderInv, Held, Job
  <2> QED  BY <1>1, <2>2, <2>3 DEF OrderInv, Held
<1>8. ASSUME NEW a \in Range(out)  PROVE a.stage # m.stage
  <2>1. CASE j = "main"
    <3>1. Place(level, a.stage) <= Place(level, m.stage) - 1
      BY <1>1, <2>1 DEF OrderInv, Held, Printed, Sorted, Plain
    <3>2. Place(level, m.stage) \in Nat
      BY <1>4 DEF Place
    <3> QED  BY <3>1, <3>2
  <2>2. CASE j = "bg"
    BY <1>6, <2>2 DEF OrderInv, Held, BgStages
  <2> QED  BY <2>1, <2>2 DEF Job
<1>9. j = "bg" => Range(chan) = {}
  BY <1>6, RangeEmpty DEF OrderInv, Held
<1>10. OnTheirWay'
  <2>1. ASSUME NEW a \in Range(out), NEW o \in Job, NEW b \in list'[o]  PROVE InStage(a, b)
    BY <1>5, <1>8 DEF OrderInv, OnTheirWay, InStage
  <2>2. ASSUME NEW a \in Range(chan), NEW b \in list'["bg"]  PROVE InStage(a, b)
    BY <1>5, <1>9 DEF OrderInv, OnTheirWay, Job
  <2> QED  BY <1>1, <2>1, <2>2 DEF OrderInv, OnTheirWay
<1>11. InOrder'
  BY <1>1 DEF OrderInv, InOrder
<1>12. Counted'
  <2>0. IsFiniteSet(list[j])
    BY DEF OrderInv, Counted, Job
  <2>1. IsFiniteSet(list'[j]) /\ Cardinality(list'[j]) = Cardinality(list[j]) + 1
    <3> DEFINE S == list[j]
    <3>1. IsFiniteSet(S) /\ m \notin S
      BY <1>5, <2>0
    <3> HIDE DEF S
    <3>2. IsFiniteSet(S \cup {m}) /\ Cardinality(S \cup {m}) = Cardinality(S) + 1
      BY <3>1, FS_AddElement
    <3> QED  BY <1>5, <3>2 DEF S
  <2>2. CASE j = "main"
    BY <1>1, <1>3, <1>5, <2>1, <2>2, Typed DEF OrderInv, Counted, Job
  <2>3. CASE j = "bg"
    BY <1>1, <1>3, <1>5, <2>1, <2>3, Typed DEF OrderInv, Counted, Job
  <2> QED  BY <2>2, <2>3 DEF Job
<1> QED  BY <1>3, <1>7, <1>10, <1>11, <1>12 DEF OrderInv

\* The list of a sorter without the message that is sent.
LEMMA ListSent ==
  ASSUME Control, OrderInv, NEW j \in Job, NEW m \in list[j],
         list' = [list EXCEPT ![j] = @ \ {m}]
  PROVE  /\ list'[j] = list[j] \ {m} /\ \A o \in Job \ {j} : list'[o] = list[o]
         /\ IsFiniteSet(list'[j]) /\ Cardinality(list'[j]) = Cardinality(list[j]) - 1
<1>1. list'[j] = list[j] \ {m} /\ \A o \in Job \ {j} : list'[o] = list[o]
  BY DEF Control, TypeOK, Job
<1>2. IsFiniteSet(list'[j]) /\ Cardinality(list'[j]) = Cardinality(list[j]) - 1
  <2> DEFINE S == list[j]
  <2>1. IsFiniteSet(S) /\ m \in S
    BY DEF OrderInv, Counted, Job
  <2> HIDE DEF S
  <2>2. IsFiniteSet(S \ {m}) /\ Cardinality(S \ {m}) = Cardinality(S) - 1
    BY <2>1, FS_RemoveElement
  <2> QED  BY <1>1, <2>2 DEF S
<1> QED  BY <1>1, <1>2

\* The sorter of main has a message printed.
LEMMA FlushMain ==
  ASSUME Control, NothingLost, OrderInv, NEW m \in list["main"], Flush("main", m)
  PROVE  OrderInv'
<1>1. /\ "main" \in flushing /\ IsLeast(m, list["main"])
      /\ list' = [list EXCEPT !["main"] = @ \ {m}]
      /\ Receive(m) /\ chan' = chan
      /\ UNCHANGED <<level, pc, sent, emitted>>
  BY DEF Flush, Put
<1>2. out' = Append(out, m)
  BY <1>1 DEF Receive
<1>3. /\ TypeOK /\ level \in Nat
      /\ chan # <<>> => level > 1
      /\ \A a \in Range(out) \cup Range(chan) \cup list["main"] \cup list["bg"] :
           a \in emitted /\ a.stage \in Stages
      /\ m \in Message
  BY Typed DEF TypeOK, Job
<1>4. /\ m.stage = Section(pc["main"])
      /\ \/ pc["main"] \in Finish
         \/ pc["main"] \in {"supernet", "collect"} /\ level > 1
      /\ level > 1 => m.stage # "redundant"
  <2>1. m.stage = Section(pc["main"])
    BY DEF OrderInv, Held
  <2>2. pc["main"] \in Finish \/ (pc["main"] \in {"supernet", "collect"} /\ level > 1)
    <3>1. ReadyOwn \/ BgWaits
      BY <1>1 DEF Control, Tokens, MainWaits
    <3>2. CASE ReadyOwn
      BY <1>1, <3>2 DEF ReadyOwn, Job
    <3>3. CASE BgWaits
      BY <1>3, <3>3 DEF BgWaits, Control, Places
    <3> QED  BY <3>1, <3>2, <3>3
  <2>3. level > 1 => pc["main"] \notin Inline
    BY DEF Control, Places, PreFork, Inline
  <2> QED  BY <2>1, <2>2, <2>3 DEF Section, Inline, Finish
<1>5. m.stage \in Sorted /\ m.stage \in Stages
  BY <1>4 DEF Section, Sorted, Stages
<1>6. /\ \/ level <= 1
         \/ m.stage \in {"unused", "redundant"}
         \/ pc["main"] \in Finish
      /\ pc["main"] \in Finish => Printed(level, pc["main"]) = Place(level, m.stage)
      /\ Place(level, m.stage) <= Printed(level, pc["main"])
  <2>1. CASE pc["main"] \in Finish
    BY <1>3, <1>4, <2>1 DEF Finish, Section, Printed, Place, Plain, Sorted
  <2>2. CASE pc["main"] \in {"supernet", "collect"} /\ level > 1
    BY <1>3, <1>4, <2>2 DEF Section, Printed, Place, Plain, Sorted, Finish
  <2> QED  BY <1>4, <2>1, <2>2
<1>7. ASSUME NEW a \in Range(out)  PROVE Follows(level, a, m)
  <2>1. InStage(a, m)
    BY DEF OrderInv, OnTheirWay, Job
  <2>2. a.stage \in Stages /\ Place(level, a.stage) <= Printed(level, pc["main"])
    BY <1>3 DEF OrderInv, Held
  <2>3. CASE level > 1 /\ m.stage \in {"unused", "redundant"}
    BY <1>3, <2>1, <2>3 DEF Follows
  <2>4. CASE pc["main"] \in Finish
    <3>1. Place(level, a.stage) <= Place(level, m.stage)
      BY <1>6, <2>2, <2>4
    <3>2. a.stage # m.stage => Place(level, a.stage) < Place(level, m.stage)
      BY <1>3, <1>5, <2>2, <3>1, PlaceType
    <3> QED  BY <2>1, <3>2 DEF Follows
  <2>5. pc["main"] \in Finish \/ (level > 1 /\ m.stage \in {"unused", "redundant"})
    BY <1>4 DEF Section
  <2> QED  BY <2>3, <2>4, <2>5
<1>8. InOrder' /\ Range(out') = Range(out) \cup {m} /\ Len(out') = Len(out) + 1
  BY <1>1, <1>2, <1>3, <1>7, PrintOne DEF OrderInv
<1>9. /\ list'["main"] = list["main"] \ {m} /\ list'["bg"] = list["bg"]
      /\ IsFiniteSet(list'["main"])
      /\ Cardinality(list'["main"]) = Cardinality(list["main"]) - 1
  BY <1>1, ListSent DEF Job
<1>10. pc["bg"] # "idle" => level > 1
  BY <1>3 DEF Control, Places
<1>11. Held'
  <2>1. pc["bg"] = "redundant" => m.stage \notin BgStages
    BY <1>4, <1>5, <1>10 DEF BgStages, Sorted
  <2> QED  BY <1>1, <1>6, <1>8, <1>9, <2>1 DEF OrderInv, Held
<1>12. OnTheirWay'
  <2>1. ASSUME NEW b \in Range(chan)  PROVE InStage(m, b)
    <3>1. level > 1
      BY <1>3, RangeEmpty
    <3> QED  BY <1>4, <1>5, <3>1 DEF OrderInv, Held, BgStages, Sorted, InStage
  <2>2. ASSUME NEW b \in list'["main"]  PROVE InStage(m, b)
    <3>1. ErrorsFirst(m, b)
      BY <1>1, <1>3, <1>9, LeastFirst DEF TypeOK, Job
    <3> QED  BY <1>5, <3>1 DEF InStage
  <2>3. ASSUME NEW b \in list'["bg"]  PROVE InStage(m, b)
    <3>1. pc["bg"] # "idle"
      BY <1>9 DEF Control, Places, SorterLists, Sorted, Job
    <3> QED  BY <1>4, <1>9, <1>10, <3>1 DEF OrderInv, Held, InStage
  <2>4. ASSUME NEW a \in Range(out'), NEW o \in Job, NEW b \in list'[o]  PROVE InStage(a, b)
    BY <1>8, <1>9, <2>2, <2>3 DEF OrderInv, OnTheirWay, Job
  <2> QED  BY <1>1, <1>8, <1>9, <2>1, <2>4 DEF OrderInv, OnTheirWay
<1>13. Numbered'
  BY <1>1 DEF OrderInv, Numbered
<1>14. Counted'
  BY <1>1, <1>8, <1>9, Typed DEF OrderInv, Counted
<1> QED  BY <1>8, <1>11, <1>12, <1>13, <1>14 DEF OrderInv

\* The sorter of the background job puts a message into the channel.
LEMMA FlushBg ==
  ASSUME Control, NothingLost, OrderInv, NEW m \in list["bg"], Flush("bg", m)
  PROVE  OrderInv'
<1>1. /\ "bg" \in flushing /\ IsLeast(m, list["bg"])
      /\ list' = [list EXCEPT !["bg"] = @ \ {m}]
      /\ chan' = Append(chan, m) /\ out' = out
      /\ UNCHANGED <<level, pc, sent, emitted>>
  BY DEF Flush, Put
<1>2. TypeOK /\ m \in Message /\ m.stage = "redundant"
  BY Typed DEF TypeOK, Job, OrderInv, Held
<1>3. pc["bg"] # "redundant"
  BY <1>1 DEF Control, SorterLists, Sorted, Job
<1>4. \A a \in Range(chan) \cup Range(out) : InStage(a, m)
  BY DEF OrderInv, OnTheirWay, Job
<1>5. /\ \A i, k \in DOMAIN chan' : i < k => InStage(chan'[i], chan'[k])
      /\ Range(chan') = Range(chan) \cup {m} /\ Len(chan') = Len(chan) + 1
  BY <1>1, <1>2, <1>4, BufferOne DEF OrderInv, OnTheirWay
<1>6. /\ list'["bg"] = list["bg"] \ {m} /\ list'["main"] = list["main"]
      /\ IsFiniteSet(list'["bg"])
      /\ Cardinality(list'["bg"]) = Cardinality(list["bg"]) - 1
  BY <1>1, ListSent DEF Job
<1>7. Held'
  BY <1>1, <1>2, <1>3, <1>5, <1>6 DEF OrderInv, Held, BgStages
<1>8. OnTheirWay'
  <2>1. ASSUME NEW b \in list'["bg"]  PROVE InStage(m, b)
    <3>1. ErrorsFirst(m, b)
      BY <1>1, <1>2, <1>6, LeastFirst DEF TypeOK, Job
    <3> QED  BY <1>2, <3>1 DEF InStage, Sorted
  <2>2. ASSUME NEW a \in Range(out), NEW o \in Job, NEW b \in list'[o]  PROVE InStage(a, b)
    BY <1>6 DEF OrderInv, OnTheirWay, Job
  <2> QED  BY <1>1, <1>4, <1>5, <1>6, <2>1, <2>2 DEF OrderInv, OnTheirWay
<1>9. Numbered' /\ InOrder'
  BY <1>1 DEF OrderInv, Numbered, InOrder
<1>10. Counted'
  BY <1>1, <1>5, <1>6, Typed DEF OrderInv, Counted
<1> QED  BY <1>7, <1>8, <1>9, <1>10 DEF OrderInv

\* collectMessages prints a message of the background job.
LEMMA CollectStep ==
  ASSUME Control, NothingLost, OrderInv, CollectMessage
  PROVE  OrderInv'
<1> DEFINE m == Head(chan)
<1>1. /\ pc["main"] = "collect" /\ chan # <<>> /\ chan' = Tail(chan)
      /\ out' = Append(out, m)
      /\ UNCHANGED <<level, pc, list, sent, emitted>>
  BY DEF CollectMessage, Receive
<1>2. /\ TypeOK /\ level \in Nat /\ level > 1
      /\ \A a \in Range(out) \cup Range(chan) \cup list["main"] \cup list["bg"] :
           a \in emitted /\ a.stage \in Stages
  BY <1>1, Typed
<1>3. /\ \A i, k \in DOMAIN chan' : i < k => InStage(chan'[i], chan'[k])
      /\ \A b \in Range(chan') : InStage(m, b)
      /\ m \in Message /\ Range(chan) = Range(chan') \cup {m}
      /\ Len(chan) = Len(chan') + 1
  BY <1>1, <1>2, TakeOne DEF OrderInv, OnTheirWay
<1> HIDE DEF m
<1>4. m \in Range(chan) /\ m.stage \in BgStages
  BY <1>3 DEF OrderInv, Held
<1>5. /\ Place(level, m.stage) <= 9 /\ Printed(level, pc["main"]) = 9
      /\ m.stage = "overlap" => Place(level, m.stage) = 9
  BY <1>1, <1>2, <1>4 DEF BgStages, Place, Printed, Plain, Sorted
<1>6. ASSUME NEW a \in Range(out)  PROVE Follows(level, a, m)
  <2>1. InStage(a, m)
    BY <1>4 DEF OrderInv, OnTheirWay
  <2>2. a.stage \in Stages /\ Place(level, a.stage) <= 9
    BY <1>2, <1>5 DEF OrderInv, Held
  <2>3. CASE m.stage = "overlap"
    <3>1. a.stage # m.stage => Place(level, a.stage) < Place(level, m.stage)
      BY <1>2, <1>4, <1>5, <2>2, <2>3, PlaceType
    <3> QED  BY <2>1, <3>1 DEF Follows
  <2>4. CASE m.stage = "redundant"
    BY <1>2, <2>1, <2>4 DEF Follows
  <2> QED  BY <1>4, <2>3, <2>4 DEF BgStages
<1>7. InOrder' /\ Range(out') = Range(out) \cup {m} /\ Len(out') = Len(out) + 1
  BY <1>1, <1>2, <1>3, <1>6, PrintOne DEF OrderInv
<1>8. Held'
  BY <1>1, <1>3, <1>4, <1>5, <1>7 DEF OrderInv, Held
<1>9. OnTheirWay'
  <2>1. ASSUME NEW b \in list["main"]  PROVE InStage(m, b)
    BY <1>1, <1>4 DEF OrderInv, Held, Section, BgStages, InStage
  <2>2. ASSUME NEW a \in Range(out'), NEW o \in Job, NEW b \in list[o]  PROVE InStage(a, b)
    BY <1>4, <1>7, <2>1 DEF OrderInv, OnTheirWay, Job
  <2> QED  BY <1>1, <1>3, <1>7, <2>2 DEF OrderInv, OnTheirWay
<1>10. Numbered'
  BY <1>1 DEF OrderInv, Numbered
<1>11. Counted'
  BY <1>1, <1>2, <1>3, <1>7, Typed DEF OrderInv, Counted, TypeOK
<1> QED  BY <1>7, <1>8, <1>9, <1>10, <1>11 DEF OrderInv

\* At start nothing has been sent.
LEMMA OrderInit == Init => OrderInv
<1> SUFFICES ASSUME Init  PROVE OrderInv
  OBVIOUS
<1>1. /\ emitted = {} /\ list["main"] = {} /\ list["bg"] = {} /\ chan = <<>> /\ out = <<>>
      /\ pc["bg"] = "idle"
  BY DEF Init, Job
<1>2. Range(out) = {} /\ Range(chan) = {} /\ DOMAIN out = {} /\ DOMAIN chan = {}
  BY <1>1, RangeEmpty
<1>3. Numbered /\ Held /\ InOrder
  BY <1>1, <1>2 DEF Numbered, Held, InOrder
<1>4. OnTheirWay
  BY <1>1, <1>2 DEF OnTheirWay, Job
<1>5. Counted
  BY <1>1, FS_EmptySet DEF Counted
<1> QED  BY <1>3, <1>4, <1>5 DEF OrderInv

\* Where nothing is collected, nothing is held: main leaves a stage outside of
\* a section with an empty list, or with that of "unused".
LEMMA MainListOnMove ==
  ASSUME Control,
         \/ pc["main"] \in Plain \cup Stop \cup Wait \cup Sorted
         \/ pc["main"] \in Finish /\ \E k \in Job : Flushed(k),
         pc'["main"] \in After("main", pc["main"])
  PROVE  list["main"] = {} \/ Section(pc'["main"]) = Section(pc["main"])
<1>1. /\ ReadyOwn \/ MainWaits \/ BgWaits
      /\ pc["main"] \in MainLabel
      /\ "main" \notin flushing /\ pc["main"] \notin Sorted => list["main"] = {}
  BY DEF Control, Tokens, Places, SorterLists, Job
<1>2. CASE pc["main"] \in Sorted
  BY <1>2 DEF Sorted, After, Section
<1>3. CASE pc["main"] \in Plain \cup Stop \cup Wait
  <2>1. pc["main"] \notin Sorted \cup Finish
    BY <1>3 DEF Plain, Stop, Wait, Sorted, Finish
  <2>2. CASE ReadyOwn \/ MainWaits
    BY <1>1, <2>1, <2>2 DEF ReadyOwn, MainWaits, Finish, Job
  <2>3. CASE BgWaits
    BY <1>3, <2>3 DEF BgWaits, After, Section, Plain, Stop, Wait
  <2> QED  BY <1>1, <2>2, <2>3
<1>4. CASE pc["main"] \in Finish /\ \E k \in Job : Flushed(k)
  <2>1. CASE ReadyOwn
    <3>1. CASE pc["main"] = "unusedFin"
      BY <3>1 DEF After, Section
    <3>2. CASE pc["main"] # "unusedFin"
      <4>1. pc["bg"] = "idle"
        <5>1. level \in Nat
          BY ConstAssumption DEF Control, TypeOK
        <5> QED  BY <1>1, <1>4, <3>2, <5>1 DEF Control, Places, Finish, PreFork, Inline
      <4>2. Flushed("main")
        BY <1>4, <4>1 DEF Control, Places, Flushed, Job
      <4> QED  BY <4>2 DEF Flushed
    <3> QED  BY <3>1, <3>2
  <2>2. CASE MainWaits \/ BgWaits
    BY <1>4, <2>2 DEF MainWaits, BgWaits, After, Section, Finish
  <2> QED  BY <1>1, <2>1, <2>2
<1> QED  BY <1>2, <1>3, <1>4

\* Every step keeps the order.
LEMMA OrderStep == Control /\ NothingLost /\ OrderInv /\ [Next]_vars => OrderInv'
<1> SUFFICES ASSUME Control, NothingLost, OrderInv, [Next]_vars  PROVE OrderInv'
  OBVIOUS
<1>0. TypeOK /\ Places
  BY DEF Control
<1>1. ASSUME NEW j \in Job, NEW m \in Message, Emit(j, m),
             m.job = j, m.stage = pc[j], m.nr = sent[j] + 1
      PROVE  OrderInv'
  BY <1>1, EmitMain, EmitBg DEF Job
<1>2. ASSUME NEW j \in Job, NEW m \in Message, EmitSorted(j, m),
             m.job = j, m.stage = pc[j], m.nr = sent[j] + 1
      PROVE  OrderInv'
  BY <1>2, CollectOne
<1>3. ASSUME NEW j \in Job, Advance(j)  PROVE OrderInv'
  <2>1. /\ pc[j] \in Plain \cup Sorted /\ GoOn(j)
        /\ UNCHANGED <<level, list, chan, out, sent, emitted>>
    BY <1>3 DEF Advance
  <2>2. CASE j = "main"
    <3>1. pc'["bg"] = pc["bg"] /\ pc'["main"] \in After("main", pc["main"])
      BY <1>0, <2>1, <2>2 DEF GoOn, TypeOK, Job
    <3>2. list["main"] = {} \/ Section(pc'["main"]) = Section(pc["main"])
      BY <2>1, <2>2, <3>1, MainListOnMove
    <3> QED  BY <2>1, <3>1, <3>2, MoveStep
  <2>3. CASE j = "bg"
    <3>1. pc'["main"] = pc["main"] /\ pc'["bg"] \in After("bg", pc["bg"])
      BY <1>0, <2>1, <2>3 DEF GoOn, TypeOK, Job
    <3>2. pc'["bg"] # "redundant"
      BY <3>1 DEF After
    <3> QED  BY <2>1, <3>1, <3>2, MoveStep
  <2> QED  BY <2>2, <2>3 DEF Job
<1>4. CASE ParseAbort \/ Abort \/ Panic
  BY <1>4, MoveStep DEF ParseAbort, Abort, Panic
<1>5. CASE CheckErr
  <2>1. /\ pc["main"] \in Stop /\ GoOn("main")
        /\ UNCHANGED <<level, list, chan, out, sent, emitted>>
    BY <1>5 DEF CheckErr
  <2>2. pc'["bg"] = pc["bg"] /\ pc'["main"] \in After("main", pc["main"])
    BY <1>0, <2>1 DEF GoOn, TypeOK, Job
  <2>3. list["main"] = {} \/ Section(pc'["main"]) = Section(pc["main"])
    BY <2>1, <2>2, MainListOnMove
  <2> QED  BY <2>1, <2>2, <2>3, MoveStep
<1>6. CASE StartInBackground
  <2>1. /\ pc["main"] = "fork"
        /\ pc' = IF level <= 1 THEN [pc EXCEPT !["main"] = "redundant"]
                               ELSE [main |-> "nat", bg |-> "redundant"]
        /\ UNCHANGED <<level, list, chan, out, sent, emitted>>
    BY <1>6 DEF StartInBackground
  <2>2. /\ pc["bg"] = "idle" /\ chan = <<>> /\ list["bg"] = {} /\ list["main"] = {}
    BY <2>1 DEF Control, Places, SorterLists, Tokens, ReadyOwn, MainWaits, BgWaits, PreFork,
                Finish, Sorted, Job
  <2>3. level \in Nat /\ \A m \in Range(out) : Place(level, m.stage) <= 4
    BY <2>1, Typed DEF OrderInv, Held, Printed, Plain, Sorted
  <2>4. CASE level <= 1
    <3>1. pc'["main"] = "redundant" /\ pc'["bg"] = "idle"
      BY <1>0, <2>1, <2>2, <2>4 DEF TypeOK, Job
    <3>2. Printed(level, pc'["main"]) = 4
      BY <2>4, <3>1 DEF Printed, Place, Plain, Sorted
    <3>3. Held'
      BY <2>1, <2>2, <2>3, <3>1, <3>2 DEF OrderInv, Held
    <3> QED  BY <2>1, <3>3, QuietStep
  <2>5. CASE ~(level <= 1)
    <3>1. pc'["main"] = "nat" /\ pc'["bg"] = "redundant"
      BY <2>1, <2>5
    <3>2. Printed(level, pc'["main"]) = 5
      BY <2>5, <3>1 DEF Printed, Place, Plain, Sorted
    <3>3. \A m \in Range(out) : Place(level, m.stage) <= 5
      BY <2>3 DEF Place
    <3>4. \A m \in Range(out) : m.stage \notin BgStages
      BY <2>3, <2>5 DEF BgStages, Place
    <3>5. Held'
      BY <2>1, <2>2, <3>1, <3>2, <3>3, <3>4 DEF OrderInv, Held
    <3> QED  BY <2>1, <3>5, QuietStep
  <2> QED  BY <2>4, <2>5
<1>7. CASE CollectMessage
  BY <1>7, CollectStep
<1>8. CASE CollectDone \/ CloseMain
  <2>1. /\ UNCHANGED <<level, list, chan, out, sent, emitted>>
        /\ \/ pc["main"] = "collect" /\ pc' = [pc EXCEPT !["main"] = "optimize"]
           \/ pc["main"] = "close" /\ pc' = [pc EXCEPT !["main"] = "done"]
    BY <1>8 DEF CollectDone, CloseMain
  <2>2. /\ pc'["bg"] = pc["bg"]
        /\ \/ pc["main"] = "collect" /\ pc'["main"] = "optimize"
           \/ pc["main"] = "close" /\ pc'["main"] = "done"
    BY <1>0, <2>1 DEF TypeOK, Job
  <2>3. /\ \A m \in list["main"] : m.stage = Section(pc'["main"])
        /\ Printed(level, pc["main"]) \in Nat /\ Printed(level, pc'["main"]) \in Nat
        /\ Printed(level, pc["main"]) <= Printed(level, pc'["main"])
    BY <2>2 DEF OrderInv, Held, Section, Printed, Place, Plain, Sorted
  <2>4. \A m \in Range(out) : Place(level, m.stage) <= Printed(level, pc'["main"])
    <3>1. \A m \in Range(out) : Place(level, m.stage) \in Nat
      BY DEF Place
    <3> QED  BY <2>3, <3>1 DEF OrderInv, Held
  <2>5. Held'
    BY <2>1, <2>2, <2>3, <2>4 DEF OrderInv, Held
  <2> QED  BY <2>1, <2>5, QuietStep
<1>9. CASE CloseBackground
  <2>1. /\ UNCHANGED <<level, list, chan, out, sent, emitted>>
        /\ pc' = [pc EXCEPT !["bg"] = "gone"]
    BY <1>9 DEF CloseBackground
  <2>2. pc'["main"] = pc["main"] /\ pc'["bg"] = "gone"
    BY <1>0, <2>1 DEF TypeOK, Job
  <2> QED  BY <2>1, <2>2, MoveStep
<1>10. ASSUME NEW j \in Job, NEW m \in list[j], Flush(j, m)  PROVE OrderInv'
  BY <1>10, FlushMain, FlushBg DEF Job
<1>11. ASSUME NEW j \in Job, FromPrinter(j)  PROVE OrderInv'
  <2>1. /\ pc[j] \in Wait \cup Finish /\ GoOn(j) /\ printer = "ready"
        /\ UNCHANGED <<level, list, chan, out, sent, emitted>>
    BY <1>11 DEF FromPrinter
  <2>2. pc["main"] \in Wait
    BY <2>1 DEF Control, PrinterReady
  <2>3. j = "main"
    <3>1. pc["bg"] \in {"idle", "gone"}
      BY <1>0, <2>2 DEF Control, Places, AllEnded, PreFork, PastCollect, Wait
    <3> QED  BY <2>1, <3>1 DEF Wait, Finish, Job
  <2>4. pc'["bg"] = pc["bg"] /\ pc'["main"] \in After("main", pc["main"])
    BY <1>0, <2>1, <2>3 DEF GoOn, TypeOK, Job
  <2>5. list["main"] = {} \/ Section(pc'["main"]) = Section(pc["main"])
    BY <2>2, <2>4, MainListOnMove
  <2> QED  BY <2>1, <2>4, <2>5, MoveStep
<1>12. ASSUME NEW j \in Job, NEW k \in Job, FromSorter(j, k)  PROVE OrderInv'
  <2>1. /\ pc[j] \in Wait \cup Finish /\ GoOn(j) /\ Flushed(k)
        /\ UNCHANGED <<level, list, chan, out, sent, emitted>>
    BY <1>12 DEF FromSorter
  <2>2. CASE j = "main"
    <3>1. pc'["bg"] = pc["bg"] /\ pc'["main"] \in After("main", pc["main"])
      BY <1>0, <2>1, <2>2 DEF GoOn, TypeOK, Job
    <3>2. list["main"] = {} \/ Section(pc'["main"]) = Section(pc["main"])
      BY <2>1, <2>2, <3>1, MainListOnMove
    <3> QED  BY <2>1, <3>1, <3>2, MoveStep
  <2>3. CASE j = "bg"
    <3>1. pc'["main"] = pc["main"] /\ pc'["bg"] \in After("bg", pc["bg"])
      BY <1>0, <2>1, <2>3 DEF GoOn, TypeOK, Job
    <3>2. pc'["bg"] # "redundant"
      BY <3>1 DEF After
    <3> QED  BY <2>1, <3>1, <3>2, MoveStep
  <2> QED  BY <2>2, <2>3 DEF Job
<1>13. CASE UNCHANGED vars
  BY <1>13, MoveStep DEF vars
<1>14. ASSUME NEW j \in Job, NEW typ \in Types, NEW text \in Texts
       PROVE  /\ MessageOf(j, typ, text) \in Message
              /\ MessageOf(j, typ, text).job = j
              /\ MessageOf(j, typ, text).stage = pc[j]
              /\ MessageOf(j, typ, text).nr = sent[j] + 1
  BY <1>0, MessageType DEF MessageOf
<1> QED
  BY <1>1, <1>2, <1>3, <1>4, <1>5, <1>6, <1>7, <1>8, <1>9, <1>10, <1>11, <1>12,
     <1>13, <1>14
     DEF Next, MainStep, BgStep, JobStep, SorterStep, ReadyStep, Job

-----------------------------------------------------------------------------
(***************************************************************************)
(* Theorems.                                                               *)
(***************************************************************************)
\* Both invariants together are inductive.
THEOREM OrderInvariance == Spec => [](Inv /\ OrderInv)
<1>1. Inv /\ OrderInv /\ [Next]_vars => (Inv /\ OrderInv)'
  <2>1. Inv => Control /\ NothingLost
    BY DEF Inv
  <2>2. Inv /\ [Next]_vars => Inv'
    BY ControlStep, DataStep, LastStep DEF Inv, Data
  <2> QED  BY <2>1, <2>2, OrderStep
<1> QED  BY <1>1, InvInit, OrderInit, PTL DEF Spec

\* No message is lost and none is printed twice, whatever the capacity of the
\* buffer and whichever goroutine runs.
THEOREM MessagesConserved == Spec => []Conservation
<1>1. Inv /\ OrderInv => Conservation
  BY DEF Inv, OrderInv, Counted, Conservation
<1> QED  BY <1>1, OrderInvariance, PTL

\* Messages are printed in the order of the phases, those of a sorting section
\* sorted; only those of a section that runs beside the background job, or in
\* it, may come later.
THEOREM OutputIsOrdered == Spec => []OutputOrder
<1>1. Inv /\ OrderInv => OutputOrder
  <2> SUFFICES ASSUME Inv, OrderInv, NEW i \in DOMAIN out, NEW k \in DOMAIN out, i < k
               PROVE  MayFollow(out[i], out[k])
    BY DEF OutputOrder
  <2>1. Follows(level, out[i], out[k])
    BY DEF OrderInv, InOrder
  <2>2. level \in Nat /\ \A m \in Range(out) : m.stage \in Stages
    BY Typed DEF Inv
  <2>3. out[i] \in Range(out) /\ out[k] \in Range(out)
    BY DEF Range
  <2> QED  BY <2>1, <2>2, <2>3, FollowsMayFollow
<1> QED  BY <1>1, OrderInvariance, PTL
=============================================================================
