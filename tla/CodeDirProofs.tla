--------------------------- MODULE CodeDirProofs ---------------------------
(***************************************************************************)
(* Proofs about module CodeDir, for any number of devices, runs and        *)
(* faults.                                                                 *)
(***************************************************************************)
EXTENDS CodeDir, TLAPS

\* The files of pass 1 for device d, as far as they must be complete.
ConfigDone(d) == dir[<<d, "config">>] = policy[d][1]
RulesDone(d) == dir[<<d, "rules">>] = policy[d][2]

\* Where pass 1 is in printCode1.
Printing ==
  /\ pass1 = "print" => todo \cap announced = {} /\ todo \subseteq Managed(policy)
  /\ pass1 \in {"compile", "move"} => announced = {} /\ stage = "next"
  /\ pass1 = "move" => todo = Managed(policy)
  /\ pass1 = "print" /\ stage # "next" =>
       /\ device \in todo
       /\ stage \in {"configDone", "rules", "rulesDone"} => ConfigDone(device)
       /\ stage = "rulesDone" => RulesDone(device)

\* Pass 2 works only on announced devices.
Working == pipe \cup generating \subseteq announced

Inv == TypeOK /\ Printing /\ Working /\ AnnouncedComplete

-----------------------------------------------------------------------------
\* A managed device has contents for both files of pass 1.
LEMMA ManagedContent ==
  ASSUME TypeOK, NEW d \in Managed(policy)
  PROVE  d \in Devices /\ policy[d] \in Configs \X Rules
BY CodeDirAssumption DEF TypeOK, Managed

\* Writing one file keeps the type of a directory.
LEMMA FileType ==
  ASSUME TypeOK, NEW d \in Devices, NEW e \in {"config", "rules", "code"}, NEW x \in Content
  PROVE  /\ [dir EXCEPT ![<<d, e>>] = x] \in [File -> Content]
         /\ [prev EXCEPT ![<<d, e>>] = x] \in [File -> Content]
BY DEF TypeOK

\* The empty directory is a directory.
LEMMA NoFilesType == NoFiles \in [File -> Content]
BY DEF NoFiles, Content

\* mv keeps the types of both directories.
LEMMA MovedType ==
  ASSUME TypeOK, NEW M, Moved(M)
  PROVE  dir' \in [File -> Content] /\ prev' \in [File -> Content]
BY DEF TypeOK, Moved, Content

\* RemoveAll of .prev: an incomplete one leaves the directory, a complete one
\* leaves nothing.
LEMMA RemovedType ==
  ASSUME TypeOK, NEW K, NEW b \in BOOLEAN, b \/ K = {}, Removed(K, b)
  PROVE  /\ prev' \in [File -> Content] /\ prevDir' \in BOOLEAN /\ linked' \in SUBSET Devices
         /\ ~prevDir' => prev' = NoFiles /\ linked' = {}
BY DEF TypeOK, Removed, Content, NoFiles

\* What pass 2 writes is a code file, and never to a .prev that does not exist.
LEMMA WriteType ==
  ASSUME TypeOK, NEW d \in Devices, NEW x \in Content, Write(d, x)
  PROVE  /\ dir' \in [File -> Content] /\ prev' \in [File -> Content]
         /\ ~prevDir => prev' = NoFiles
<1>1. dir' \in [File -> Content]
  BY FileType DEF Write
<1>2. prev' \in [File -> Content]
  BY FileType DEF Write, TypeOK
<1>3. ~prevDir => prev' = NoFiles
  BY DEF Write, TypeOK
<1> QED  BY <1>1, <1>2, <1>3

\* The first run starts in an empty directory.
LEMMA InvInit == Init => Inv
<1> SUFFICES ASSUME Init  PROVE Inv
  OBVIOUS
<1>1. TypeOK
  BY NoFilesType DEF Init, TypeOK
<1>2. Printing /\ Working /\ AnnouncedComplete
  BY DEF Init, Printing, Working, AnnouncedComplete
<1> QED  BY <1>1, <1>2 DEF Inv

\* A step of pass 1.
LEMMA TypeStep1 == Inv /\ Pass1Step => TypeOK'
<1> SUFFICES ASSUME Inv, Pass1Step  PROVE TypeOK'
  OBVIOUS
<1> USE DEF runVars, dirVars, p1Vars, p2Vars
<1>0. TypeOK /\ Printing
  BY DEF Inv
<1>1. CASE CompileError
  BY <1>0, <1>1 DEF TypeOK, CompileError
<1>2. CASE CheckOutputDir
  BY <1>0, <1>2 DEF TypeOK, CheckOutputDir, Managed
<1>3. CASE MoveOldFiles
  <2>1. dir' \in [File -> Content] /\ prev' \in [File -> Content]
    BY <1>0, <1>3, MovedType DEF MoveOldFiles
  <2> QED  BY <1>0, <1>3, <2>1 DEF TypeOK, MoveOldFiles
<1>4. ASSUME NEW d \in Devices, PrintDevice(d)  PROVE TypeOK'
  <2>1. device' = d /\ stage' \in {"next", "config", "configDone", "rules", "rulesDone"}
    BY <1>4 DEF PrintDevice, PrintFile
  <2>2. policy[d] \in Configs \X Rules \/ stage = "next"
    BY <1>0, <1>4, ManagedContent DEF PrintDevice, Printing
  <2>3. \E e \in {"config", "rules"}, x \in Content : dir' = [dir EXCEPT ![<<d, e>>] = x]
    BY <1>4, <2>2 DEF PrintDevice, PrintFile, Content
  <2>4. dir' \in [File -> Content]
    <3> PICK e \in {"config", "rules"}, x \in Content : dir' = [dir EXCEPT ![<<d, e>>] = x]
      BY <2>3
    <3> QED  BY <1>0, FileType
  <2> QED  BY <1>0, <1>4, <2>1, <2>4 DEF TypeOK, PrintDevice
<1>5. ASSUME NEW d \in Devices, Announce(d)  PROVE TypeOK'
  BY <1>0, <1>5 DEF TypeOK, Announce
<1>6. CASE EndOfPass1 \/ LateError
  BY <1>0, <1>6 DEF TypeOK, EndOfPass1, LateError
<1> QED  BY <1>1, <1>2, <1>3, <1>4, <1>5, <1>6 DEF Pass1Step

\* A step of pass 2.
LEMMA TypeStep2 == Inv /\ Pass2Step => TypeOK'
<1> SUFFICES ASSUME Inv, Pass2Step  PROVE TypeOK'
  OBVIOUS
<1> USE DEF runVars, dirVars, p1Vars, p2Vars
<1>0. TypeOK /\ AnnouncedComplete /\ Working
  BY DEF Inv
<1>1. ASSUME NEW d \in Devices, Reuse(d)  PROVE TypeOK'
  <2>1. prev[<<d, "code">>] \in Content
    BY <1>0 DEF TypeOK, File
  <2>2. dir' \in [File -> Content]
    BY <1>0, <1>1, <2>1, FileType DEF Reuse
  <2> QED  BY <1>0, <1>1, <2>2 DEF TypeOK, Reuse, Reusable
<1>2. ASSUME NEW d \in Devices, Generate(d)  PROVE TypeOK'
  <2>1. /\ dir' \in [File -> Content] /\ prev' \in [File -> Content]
        /\ ~prevDir => prev' = NoFiles
    BY <1>0, <1>2, WriteType DEF Generate, Content
  <2> QED  BY <1>0, <1>2, <2>1 DEF TypeOK, Generate
<1>3. ASSUME NEW d \in Devices, Generated(d)  PROVE TypeOK'
  <2>1. d \in announced
    BY <1>0, <1>3 DEF Generated, Working
  <2>2. dir[<<d, "config">>] \in Configs /\ dir[<<d, "rules">>] \in Rules
    BY <1>0, <2>1, ManagedContent DEF AnnouncedComplete
  <2>3. /\ dir' \in [File -> Content] /\ prev' \in [File -> Content]
        /\ ~prevDir => prev' = NoFiles
    BY <1>0, <1>3, <2>2, WriteType DEF Generated, Content
  <2> QED  BY <1>0, <1>3, <2>3 DEF TypeOK, Generated
<1>4. CASE RemovePrev
  BY <1>0, <1>4 DEF TypeOK, RemovePrev
<1>5. CASE EndOfPass2
  <2>1. /\ prev' \in [File -> Content] /\ prevDir' \in BOOLEAN /\ linked' \in SUBSET Devices
        /\ ~prevDir' => prev' = NoFiles /\ linked' = {}
    BY <1>0, <1>5, RemovedType DEF EndOfPass2
  <2> QED  BY <1>0, <1>5, <2>1 DEF TypeOK, EndOfPass2
<1> QED  BY <1>1, <1>2, <1>3, <1>4, <1>5 DEF Pass2Step

\* A fault while mv is active: .prev exists if it got files.
LEMMA InterruptedType ==
  ASSUME TypeOK, Interrupted, UNCHANGED linked
  PROVE  /\ dir' \in [File -> Content] /\ prev' \in [File -> Content]
         /\ prevDir' \in BOOLEAN
         /\ ~prevDir' => prev' = NoFiles /\ linked' = {}
<1>1. CASE UNCHANGED <<dir, prev, prevDir>>
  BY <1>1 DEF TypeOK
<1>2. ASSUME prevDir' = TRUE, NEW M, Moved(M)
      PROVE  dir' \in [File -> Content] /\ prev' \in [File -> Content]
  BY <1>2, MovedType
<1> QED  BY <1>1, <1>2 DEF Interrupted

\* A fault, or the start of the next run.
LEMMA TypeStep3 == Inv /\ (Kill1 \/ Kill2 \/ KillBoth \/ NextRun) => TypeOK'
<1> SUFFICES ASSUME Inv, Kill1 \/ Kill2 \/ KillBoth \/ NextRun  PROVE TypeOK'
  OBVIOUS
<1> USE DEF runVars, dirVars, p1Vars, p2Vars
<1>0. TypeOK
  BY DEF Inv
<1>1. CASE Kill1 \/ KillBoth
  <2>1. /\ dir' \in [File -> Content] /\ prev' \in [File -> Content]
        /\ prevDir' \in BOOLEAN
        /\ ~prevDir' => prev' = NoFiles /\ linked' = {}
    BY <1>0, <1>1, InterruptedType DEF Kill1, KillBoth
  <2> QED  BY <1>0, <1>1, <2>1 DEF TypeOK, Kill1, KillBoth
<1>2. CASE Kill2
  <2>1. /\ prev' \in [File -> Content] /\ prevDir' \in BOOLEAN /\ linked' \in SUBSET Devices
        /\ ~prevDir' => prev' = NoFiles /\ linked' = {}
    <3>1. CASE pass2 = "remove" /\ prevDir
      BY <1>0, <1>2, <3>1, RemovedType DEF Kill2
    <3>2. CASE ~(pass2 = "remove" /\ prevDir)
      BY <1>0, <1>2, <3>2 DEF Kill2, TypeOK
    <3> QED  BY <3>1, <3>2
  <2> QED  BY <1>0, <1>2, <2>1 DEF TypeOK, Kill2
<1>3. CASE NextRun
  <2>1. last' \in Policies \cup {Nothing}
    BY <1>0, <1>3 DEF TypeOK, NextRun
  <2> QED  BY <1>0, <1>3, <2>1 DEF TypeOK, NextRun
<1> QED  BY <1>1, <1>2, <1>3

-----------------------------------------------------------------------------
(***************************************************************************)
(* An announced device stays complete.                                     *)
(***************************************************************************)
Complete == Printing /\ Working /\ AnnouncedComplete

\* The intermediate files are left alone.
SameFiles ==
  \A d \in Devices : /\ dir'[<<d, "config">>] = dir[<<d, "config">>]
                     /\ dir'[<<d, "rules">>] = dir[<<d, "rules">>]

\* Writing a code file changes no file of pass 1.
LEMMA CodeWritten ==
  ASSUME TypeOK, NEW d \in Devices, NEW x, dir' = [dir EXCEPT ![<<d, "code">>] = x]
  PROVE  SameFiles
BY DEF TypeOK, SameFiles, File

\* A step of pass 2 that changes no file of pass 1 keeps what is said of them.
LEMMA Kept ==
  ASSUME TypeOK, Complete, SameFiles, UNCHANGED <<policy, pass1, todo, device, stage, announced>>,
         pipe' \cup generating' \subseteq announced
  PROVE  Complete'
<1>1. Managed(policy') = Managed(policy) /\ Managed(policy) \subseteq Devices
  BY DEF Managed
<1>2. AnnouncedComplete'
  BY <1>1 DEF Complete, AnnouncedComplete, SameFiles
<1>3. Printing'
  BY <1>1 DEF Complete, Printing, SameFiles, ConfigDone, RulesDone
<1>4. Working'
  BY DEF Working
<1> QED  BY <1>2, <1>3, <1>4 DEF Complete

\* Pass 2 never touches a file of pass 1 in CODE-DIR.
LEMMA Complete2 == TypeOK /\ Complete /\ Pass2Step => Complete'
<1> SUFFICES ASSUME TypeOK, Complete, Pass2Step  PROVE Complete'
  OBVIOUS
<1> USE DEF runVars, dirVars, p1Vars, p2Vars
<1>1. /\ SameFiles
      /\ UNCHANGED <<policy, pass1, todo, device, stage, announced>>
      /\ pipe' \cup generating' \subseteq announced
  <2>1. pipe \cup generating \subseteq announced
    BY DEF Complete, Working
  <2>2. ASSUME NEW d \in Devices, Reuse(d) \/ Generate(d) \/ Generated(d)
        PROVE  /\ UNCHANGED <<policy, pass1, todo, device, stage, announced>>
               /\ pipe' \cup generating' \subseteq announced
    BY <2>1, <2>2 DEF Reuse, Generate, Generated
  <2>3. ASSUME NEW d \in Devices, Reuse(d) \/ Generate(d) \/ Generated(d)  PROVE SameFiles
    <3>1. \E x : dir' = [dir EXCEPT ![<<d, "code">>] = x]
      BY <2>3 DEF Reuse, Generate, Generated, Write
    <3> QED  BY <3>1, CodeWritten
  <2>4. CASE RemovePrev
    BY <2>1, <2>4 DEF RemovePrev, SameFiles
  <2>5. CASE EndOfPass2
    BY <2>1, <2>5 DEF EndOfPass2, SameFiles
  <2> QED  BY <2>2, <2>3, <2>4, <2>5 DEF Pass2Step
<1> QED  BY <1>1, Kept

\* Pass 1 writes files only of devices that it has not yet announced.
LEMMA Complete1 == TypeOK /\ Complete /\ Pass1Step => Complete'
<1> SUFFICES ASSUME TypeOK, Complete, Pass1Step  PROVE Complete'
  OBVIOUS
<1> USE DEF runVars, dirVars, p1Vars, p2Vars
<1>0. Printing /\ Working /\ AnnouncedComplete
  BY DEF Complete
<1>1. CASE CompileError
  BY <1>0, <1>1 DEF CompileError, Complete, Printing, Working, AnnouncedComplete, Managed
<1>2. CASE CheckOutputDir
  <2>1. announced = {} /\ announced' = {} /\ stage' = "next" /\ todo' = Managed(policy)
        /\ policy' = policy /\ pass1' \in {"print", "move"} /\ pipe' \cup generating' = {}
    BY <1>0, <1>2 DEF CheckOutputDir, Printing, Working
  <2> QED  BY <2>1 DEF Complete, Printing, Working, AnnouncedComplete, Managed
<1>3. CASE MoveOldFiles
  <2>1. announced = {} /\ announced' = {} /\ stage' = "next" /\ todo' = Managed(policy)
        /\ policy' = policy /\ pass1' = "print" /\ pipe' \cup generating' = {}
    BY <1>0, <1>3 DEF MoveOldFiles, Printing, Working
  <2> QED  BY <2>1 DEF Complete, Printing, Working, AnnouncedComplete, Managed
<1>4. ASSUME NEW d \in Devices, PrintDevice(d)  PROVE Complete'
  <2>1. /\ pass1 = "print" /\ device' = d
        /\ UNCHANGED <<policy, pass1, todo, pipe, generating, announced>>
    BY <1>4 DEF PrintDevice, PrintFile
  <2>2. d \in todo /\ todo \subseteq Managed(policy) /\ d \notin announced
    BY <1>0, <1>4, <2>1 DEF PrintDevice, Printing
  <2>3. /\ d \in Devices /\ dir \in [File -> Content]
        /\ Managed(policy') = Managed(policy) /\ Managed(policy) \subseteq Devices
    BY <2>1 DEF TypeOK, Managed
  <2>4. \E e \in {"config", "rules"} : \E x : dir' = [dir EXCEPT ![<<d, e>>] = x]
    BY <1>4 DEF PrintDevice, PrintFile
  <2>5. \A o \in Devices \ {d}, e \in {"config", "rules"} : dir'[<<o, e>>] = dir[<<o, e>>]
    BY <2>3, <2>4 DEF File
  <2>6. AnnouncedComplete'
    BY <1>0, <2>1, <2>2, <2>3, <2>5 DEF AnnouncedComplete
  <2>7. /\ stage' \in {"config", "configDone", "rules", "rulesDone"}
        /\ stage' \in {"configDone", "rules", "rulesDone"} => ConfigDone(d)'
        /\ stage' = "rulesDone" => RulesDone(d)'
    <3>1. CASE stage = "next"
      BY <1>4, <3>1 DEF PrintDevice, PrintFile
    <3>2. CASE stage = "config"
      BY <1>4, <3>2, <2>3 DEF PrintDevice, PrintFile, ConfigDone, File
    <3>3. CASE stage = "configDone"
      <4>1. ConfigDone(d) /\ dir' = [dir EXCEPT ![<<d, "rules">>] = Torn] /\ stage' = "rules"
        BY <1>0, <1>4, <2>1, <3>3 DEF PrintDevice, PrintFile, Printing
      <4> QED  BY <2>1, <2>3, <4>1 DEF ConfigDone, File
    <3>4. CASE stage = "rules"
      <4>1. ConfigDone(d) /\ dir' = [dir EXCEPT ![<<d, "rules">>] = policy[d][2]]
            /\ stage' = "rulesDone"
        BY <1>0, <1>4, <2>1, <3>4 DEF PrintDevice, PrintFile, Printing
      <4> QED  BY <2>1, <2>3, <4>1 DEF ConfigDone, RulesDone, File
    <3> QED  BY <1>4, <3>1, <3>2, <3>3, <3>4 DEF PrintDevice
  <2>8. Printing'
    BY <1>0, <2>1, <2>2, <2>3, <2>7 DEF Printing, ConfigDone, RulesDone
  <2>9. Working'
    BY <1>0, <2>1 DEF Working
  <2> QED  BY <2>6, <2>8, <2>9 DEF Complete
<1>5. ASSUME NEW d \in Devices, Announce(d)  PROVE Complete'
  <2>1. /\ pass1 = "print" /\ d = device /\ stage = "rulesDone" /\ stage' = "next"
        /\ UNCHANGED <<policy, dir, device, generating>>
    BY <1>5 DEF Announce, Printed
  <2>2. ConfigDone(d) /\ RulesDone(d) /\ d \in todo /\ todo \subseteq Managed(policy)
        /\ todo \cap announced = {}
    BY <1>0, <2>1 DEF Printing
  <2>3. \/ pass1' = "killed" /\ UNCHANGED <<todo, pipe, announced>>
        \/ /\ todo' = todo \ {d} /\ pipe' = pipe \cup {d} /\ announced' = announced \cup {d}
           /\ pass1' = pass1
    BY <1>5 DEF Announce
  <2>4. Managed(policy') = Managed(policy)
    BY <2>1 DEF Managed
  <2>5. AnnouncedComplete'
    BY <1>0, <2>1, <2>2, <2>3, <2>4 DEF AnnouncedComplete, ConfigDone, RulesDone
  <2>6. Printing'
    BY <2>1, <2>2, <2>3, <2>4 DEF Printing
  <2>7. Working'
    BY <1>0, <2>1, <2>3 DEF Working
  <2> QED  BY <2>5, <2>6, <2>7 DEF Complete
<1>6. CASE EndOfPass1 \/ LateError
  BY <1>0, <1>6 DEF EndOfPass1, LateError, Complete, Printing, Working, AnnouncedComplete,
                    Managed
<1> QED  BY <1>1, <1>2, <1>3, <1>4, <1>5, <1>6 DEF Pass1Step

\* A fault changes files of pass 1 only before it has announced a device.
LEMMA Complete3 ==
  TypeOK /\ Complete /\ (Kill1 \/ Kill2 \/ KillBoth \/ NextRun) => Complete'
<1> SUFFICES ASSUME TypeOK, Complete, Kill1 \/ Kill2 \/ KillBoth \/ NextRun  PROVE Complete'
  OBVIOUS
<1> USE DEF runVars, dirVars, p1Vars, p2Vars
<1>0. Printing /\ Working /\ AnnouncedComplete
  BY DEF Complete
<1>1. CASE Kill1 \/ KillBoth
  <2>1. /\ pass1' = "killed" /\ UNCHANGED <<policy, announced>>
        /\ pipe' \cup generating' \subseteq announced
    BY <1>0, <1>1 DEF Kill1, KillBoth, Working
  <2>2. announced = {} \/ dir' = dir
    BY <1>0, <1>1 DEF Kill1, KillBoth, Interrupted, Printing
  <2> QED  BY <1>0, <2>1, <2>2 DEF Complete, Printing, Working, AnnouncedComplete, Managed
<1>2. CASE Kill2
  <2>1. /\ SameFiles /\ UNCHANGED <<policy, pass1, todo, device, stage, announced>>
        /\ pipe' \cup generating' \subseteq announced
    BY <1>2 DEF Kill2, SameFiles
  <2> QED  BY <2>1, Kept
<1>3. CASE NextRun
  BY <1>3 DEF NextRun, Complete, Printing, Working, AnnouncedComplete
<1> QED  BY <1>1, <1>2, <1>3

\* Every step keeps the invariant.
LEMMA InvStep == Inv /\ [Next]_vars => Inv'
<1> SUFFICES ASSUME Inv, [Next]_vars  PROVE Inv'
  OBVIOUS
<1>1. TypeOK /\ Complete
  BY DEF Inv, Complete
<1>2. CASE Next
  BY <1>1, <1>2, TypeStep1, TypeStep2, TypeStep3, Complete1, Complete2, Complete3
     DEF Next, Inv, Complete
<1>3. CASE UNCHANGED vars
  BY <1>3 DEF vars, Inv, TypeOK, Printing, Working, AnnouncedComplete, Managed, ConfigDone,
              RulesDone
<1> QED  BY <1>2, <1>3

\* Inv is an inductive invariant.
THEOREM CodeDirInvariance == Spec => []Inv
BY InvInit, InvStep, PTL DEF Spec

\* Types of the directory model, for any number of runs and faults.
THEOREM CodeDirTypeCorrect == Spec => []TypeOK
<1>1. Inv => TypeOK
  BY DEF Inv
<1> QED  BY <1>1, CodeDirInvariance, PTL

\* Whatever is killed and however often: if pass 2 reads the name of a device,
\* then .config and .rules of that device are complete and of this policy.
THEOREM AnnouncedIsComplete == Spec => []AnnouncedComplete
<1>1. Inv => AnnouncedComplete
  BY DEF Inv
<1> QED  BY <1>1, CodeDirInvariance, PTL

-----------------------------------------------------------------------------
(***************************************************************************)
(* Without faults.  The files of CODE-DIR are those of the last finished   *)
(* run until pass 1 prints; then these are in .prev, and a code file is    *)
(* complete exactly if its device has been handled by pass 2.              *)
(***************************************************************************)
Part(x, e) ==
  IF x = Nothing THEN Nothing
  ELSE IF e = "config" THEN x[1] ELSE IF e = "rules" THEN x[2] ELSE x

OldFiles == [f \in File |-> IF last = Nothing THEN Nothing ELSE Part(last[f[1]], f[2])]

Alive ==
  /\ pass1 # "killed" /\ pass2 # "killed"
  /\ pass2 \in {"remove", "ok"} => Ended1 /\ pipe = {} /\ generating = {}
  /\ pass2 = "ok" => ~prevDir

Untouched ==
  pass1 \in {"compile", "move", "failed"} => dir = OldFiles /\ ~prevDir /\ announced = {}

Saved == pass1 \in {"print", "ok", "late"} /\ pass2 # "ok" => prev = OldFiles

CodeState(d) ==
  IF d \in generating THEN Torn
  ELSE IF d \in announced \ pipe THEN policy[d] ELSE Nothing

Codes ==
  pass1 \in {"print", "ok", "late"} =>
    \A d \in Devices :
      /\ dir[<<d, "code">>] = CodeState(d)
      /\ d \notin Managed(policy) =>
           dir[<<d, "config">>] = Nothing /\ dir[<<d, "rules">>] = Nothing

Sorting ==
  /\ pipe \cap generating = {}
  /\ linked \subseteq announced \ (pipe \cup generating)
  /\ pass1 = "print" => todo \cup announced = Managed(policy)
  /\ pass1 \in {"ok", "late"} => announced = Managed(policy)

Changed == last # Nothing => \A d \in regenerated : policy[d] # last[d]

Clean == Alive /\ Untouched /\ Saved /\ Codes /\ Sorting /\ Changed

-----------------------------------------------------------------------------
\* What is in CODE-DIR after a finished run, file by file.
LEMMA Elements ==
  ASSUME NEW d \in Devices, NEW e \in {"config", "rules", "code"}
  PROVE  /\ <<d, e>> \in File
         /\ OldFiles[<<d, e>>] = IF last = Nothing THEN Nothing ELSE Part(last[d], e)
BY DEF File, OldFiles

\* Nothing has been compiled yet.
LEMMA CleanInit == Init => Clean
<1> SUFFICES ASSUME Init  PROVE Clean
  OBVIOUS
<1>1. dir = OldFiles
  BY DEF Init, NoFiles, OldFiles
<1> QED
  BY <1>1 DEF Init, Clean, Alive, Untouched, Saved, Codes, Sorting, Changed

\* Steps of pass 1 before it prints.
LEMMA CleanBefore ==
  ASSUME Inv, Clean, CompileError \/ CheckOutputDir \/ MoveOldFiles
  PROVE  Clean'
<1> USE DEF runVars, dirVars, p1Vars, p2Vars
<1>0. TypeOK /\ Printing /\ Working
  BY DEF Inv
<1>1. Alive /\ Untouched /\ Saved /\ Codes /\ Sorting /\ Changed
  BY DEF Clean
<1>2. /\ pass1 \in {"compile", "move"} /\ announced = {} /\ pipe = {} /\ generating = {}
      /\ dir = OldFiles /\ ~prevDir /\ prev = NoFiles /\ linked = {}
  BY <1>0, <1>1 DEF CompileError, CheckOutputDir, MoveOldFiles, Untouched, Working, TypeOK
<1>3. /\ UNCHANGED <<policy, last, pipe, generating, pass2, regenerated, announced, linked>>
      /\ OldFiles' = OldFiles
  BY DEF CompileError, CheckOutputDir, MoveOldFiles, OldFiles
<1>4. pass2 = "run" /\ pass1' # "killed" /\ Managed(policy') = Managed(policy)
  <2>1. pass2 = "run"
    BY <1>0, <1>1, <1>2 DEF Alive, Ended1, TypeOK
  <2>2. pass1' # "killed"
    BY DEF CompileError, CheckOutputDir, MoveOldFiles
  <2>3. Managed(policy') = Managed(policy)
    BY <1>3 DEF Managed
  <2> QED  BY <2>1, <2>2, <2>3
<1>5. Changed' /\ Alive'
  BY <1>0, <1>1, <1>3, <1>4 DEF Changed, Alive, TypeOK
<1>6. CASE pass1' = "print"
  <2>1. todo' = Managed(policy)
    BY <1>0, <1>2, <1>6 DEF CompileError, CheckOutputDir, MoveOldFiles, Printing
  <2>2. dir' = NoFiles /\ prev' = OldFiles
    <3>1. CASE CheckOutputDir
      BY <1>2, <1>6, <3>1 DEF CheckOutputDir
    <3>2. CASE MoveOldFiles
      <4>1. prev' = [f \in File |-> dir[f]] /\ dir' = [f \in File |-> Nothing]
        BY <3>2 DEF MoveOldFiles, Moved
      <4>2. dir = [f \in File |-> dir[f]]
        BY <1>0 DEF TypeOK
      <4> QED  BY <1>2, <4>1, <4>2 DEF NoFiles
    <3>3. CASE CompileError
      BY <1>6, <3>3 DEF CompileError
    <3> QED  BY <3>1, <3>2, <3>3
  <2>3. \A d \in Devices, e \in {"config", "rules", "code"} : dir'[<<d, e>>] = Nothing
    BY <2>2, Elements DEF NoFiles
  <2>4. Codes'
    BY <1>2, <1>3, <2>3 DEF Codes, CodeState
  <2>5. Untouched' /\ Saved' /\ Sorting'
    BY <1>2, <1>3, <1>4, <1>6, <2>1, <2>2 DEF Untouched, Saved, Sorting
  <2> QED  BY <1>5, <2>4, <2>5 DEF Clean
<1>7. CASE pass1' \in {"move", "failed"}
  <2>1. dir' = dir /\ prevDir' = prevDir
    BY <1>7 DEF CompileError, CheckOutputDir, MoveOldFiles
  <2>2. Untouched' /\ Saved' /\ Codes' /\ Sorting'
    BY <1>2, <1>3, <1>7, <2>1 DEF Untouched, Saved, Codes, Sorting
  <2> QED  BY <1>5, <2>2 DEF Clean
<1> QED  BY <1>6, <1>7 DEF CompileError, CheckOutputDir, MoveOldFiles

\* Steps of pass 1 that print.
LEMMA CleanPrint ==
  ASSUME Inv, Clean, NEW d,
         (d \in Devices /\ (PrintDevice(d) \/ Announce(d))) \/ EndOfPass1 \/ LateError
  PROVE  Clean'
<1> USE DEF runVars, dirVars, p1Vars, p2Vars
<1>0. TypeOK /\ Printing /\ Working
  BY DEF Inv
<1>1. Alive /\ Untouched /\ Saved /\ Codes /\ Sorting /\ Changed
  BY DEF Clean
<1>2. /\ pass1 = "print"
      /\ UNCHANGED <<policy, last, generating, pass2, regenerated, prev, prevDir, linked>>
      /\ OldFiles' = OldFiles /\ Managed(policy') = Managed(policy)
  BY DEF PrintDevice, Announce, EndOfPass1, LateError, OldFiles, Managed
<1>3. pass2 = "run"
  BY <1>0, <1>1, <1>2 DEF Alive, Ended1, TypeOK
<1>4. /\ pass1' \in {"print", "ok", "late"}
      /\ pass1' \in {"ok", "late"} => todo = {} /\ todo' = {}
  BY <1>2, <1>3 DEF PrintDevice, Announce, EndOfPass1, LateError, Ended2
<1>5. Changed' /\ Alive' /\ Untouched' /\ Saved'
  BY <1>1, <1>2, <1>3, <1>4 DEF Changed, Alive, Untouched, Saved
<1>6. CASE d \in Devices /\ PrintDevice(d)
  <2>1. UNCHANGED <<pass1, todo, pipe, announced>>
    BY <1>6 DEF PrintDevice
  <2>2. \E e \in {"config", "rules"} : \E x : dir' = [dir EXCEPT ![<<d, e>>] = x]
    BY <1>6 DEF PrintDevice, PrintFile
  <2>3. d \in Managed(policy)
    BY <1>0, <1>2, <1>6 DEF PrintDevice, Printing
  <2>4. \A o \in Devices : dir'[<<o, "code">>] = dir[<<o, "code">>]
    BY <1>0, <2>2 DEF TypeOK, File
  <2>5. \A o \in Devices \ {d} : /\ dir'[<<o, "config">>] = dir[<<o, "config">>]
                                /\ dir'[<<o, "rules">>] = dir[<<o, "rules">>]
    BY <1>0, <2>2 DEF TypeOK, File
  <2>6. Codes'
    BY <1>1, <1>2, <2>1, <2>3, <2>4, <2>5 DEF Codes, CodeState
  <2>7. Sorting'
    BY <1>1, <1>2, <2>1 DEF Sorting
  <2> QED  BY <1>5, <2>6, <2>7 DEF Clean
<1>7. CASE d \in Devices /\ Announce(d)
  <2>1. /\ todo' = todo \ {d} /\ pipe' = pipe \cup {d} /\ announced' = announced \cup {d}
        /\ pass1' = pass1 /\ dir' = dir
    BY <1>3, <1>7 DEF Announce, Ended2
  <2>2. d \in todo /\ d \notin announced
    BY <1>0, <1>2, <1>7 DEF Announce, Printed, Printing
  <2>3. d \notin pipe /\ d \notin generating /\ d \notin linked
    BY <1>0, <1>1, <2>2 DEF Working, Sorting
  <2>4. \A o \in Devices : CodeState(o)' = CodeState(o)
    BY <1>2, <2>1, <2>2, <2>3 DEF CodeState
  <2>5. Codes'
    BY <1>1, <1>2, <2>1, <2>4 DEF Codes
  <2>6. Sorting'
    BY <1>1, <1>2, <2>1, <2>2, <2>3 DEF Sorting
  <2> QED  BY <1>5, <2>5, <2>6 DEF Clean
<1>8. CASE EndOfPass1 \/ LateError
  <2>1. UNCHANGED <<dir, pipe, announced>> /\ pass1' \in {"ok", "late"} /\ todo = {}
    BY <1>8 DEF EndOfPass1, LateError
  <2>2. Codes' /\ Sorting'
    BY <1>1, <1>2, <2>1 DEF Codes, CodeState, Sorting
  <2> QED  BY <1>5, <2>2 DEF Clean
<1> QED  BY <1>6, <1>7, <1>8

\* Equal intermediate files have equal code.
LEMMA SameCode ==
  ASSUME NEW x \in Configs \X Rules, NEW y \in Configs \X Rules, x[1] = y[1], x[2] = y[2]
  PROVE  x = y
OBVIOUS

\* For a device in the pipe: what is found in .prev, and what tryPrev makes of it.
LEMMA Found ==
  ASSUME Inv, Clean, NEW d \in pipe, pass2 = "run"
  PROVE  /\ pass1 \in {"print", "ok", "late"} /\ d \in announced /\ d \in Devices
         /\ dir[<<d, "code">>] = Nothing /\ d \notin linked /\ d \notin generating
         /\ policy[d] \in Configs \X Rules
         /\ Reusable(d) <=> last # Nothing /\ last[d] = policy[d]
         /\ Reusable(d) => prev[<<d, "code">>] = policy[d]
<1>0. TypeOK /\ Printing /\ Working /\ AnnouncedComplete
  BY DEF Inv
<1>1. Alive /\ Untouched /\ Saved /\ Codes /\ Sorting
  BY DEF Clean
<1>2. d \in announced /\ d \in Devices
  BY <1>0 DEF Working, TypeOK
<1>3. pass1 \in {"print", "ok", "late"}
  BY <1>0, <1>1, <1>2 DEF Untouched, Alive, TypeOK
<1>4. d \notin linked /\ d \notin generating
  BY <1>1 DEF Sorting
<1>5. dir[<<d, "code">>] = Nothing
  BY <1>1, <1>2, <1>3, <1>4 DEF Codes, CodeState
<1>6. /\ policy[d] \in Configs \X Rules
      /\ dir[<<d, "config">>] = policy[d][1] /\ dir[<<d, "rules">>] = policy[d][2]
  BY <1>0, <1>2, ManagedContent DEF AnnouncedComplete
<1>7. \A e \in {"config", "rules", "code"} :
        prev[<<d, e>>] = IF last = Nothing THEN Nothing ELSE Part(last[d], e)
  BY <1>1, <1>2, <1>3, Elements DEF Saved
<1>8. /\ Nothing \notin Configs \cup Rules \cup (Configs \X Rules)
      /\ last # Nothing => last[d] \in (Configs \X Rules) \cup {Nothing}
  BY <1>0, <1>2, CodeDirAssumption DEF TypeOK
<1>9. ASSUME Reusable(d)
      PROVE  last # Nothing /\ last[d] = policy[d] /\ prev[<<d, "code">>] = policy[d]
  <2>1. /\ prev[<<d, "code">>] # Nothing
        /\ prev[<<d, "config">>] = policy[d][1] /\ prev[<<d, "rules">>] = policy[d][2]
    BY <1>6, <1>9 DEF Reusable, Unchanged
  <2>2. last # Nothing /\ prev[<<d, "code">>] = last[d] /\ last[d] \in Configs \X Rules
    BY <1>7, <1>8, <2>1 DEF Part
  <2>3. prev[<<d, "config">>] = last[d][1] /\ prev[<<d, "rules">>] = last[d][2]
    BY <1>7, <1>8, <2>2 DEF Part
  <2>4. last[d] = policy[d]
    BY <1>6, <2>1, <2>2, <2>3, SameCode
  <2> QED  BY <2>2, <2>4
<1>10. ASSUME last # Nothing, last[d] = policy[d]  PROVE Reusable(d)
  <2>1. /\ prev[<<d, "code">>] = policy[d]
        /\ prev[<<d, "config">>] = policy[d][1] /\ prev[<<d, "rules">>] = policy[d][2]
    BY <1>6, <1>7, <1>8, <1>10 DEF Part
  <2>2. policy[d] # Nothing /\ policy[d][1] # Nothing /\ policy[d][2] # Nothing
    BY <1>6, <1>8
  <2>3. prevDir
    BY <1>0, <1>2, <2>1, <2>2, Elements DEF TypeOK, NoFiles
  <2> QED  BY <1>5, <1>6, <2>1, <2>2, <2>3 DEF Reusable, Unchanged
<1> QED  BY <1>2, <1>3, <1>4, <1>5, <1>6, <1>9, <1>10

\* Steps of the workers of pass 2.
LEMMA CleanWork ==
  ASSUME Inv, Clean, NEW d \in Devices, Reuse(d) \/ Generate(d) \/ Generated(d)
  PROVE  Clean'
<1> USE DEF runVars, dirVars, p1Vars, p2Vars
<1>0. TypeOK /\ Printing /\ Working /\ AnnouncedComplete
  BY DEF Inv
<1>1. Alive /\ Untouched /\ Saved /\ Codes /\ Sorting /\ Changed
  BY DEF Clean
<1>2. /\ pass2 = "run"
      /\ UNCHANGED <<policy, last, pass1, pass2, todo, announced, prevDir>>
      /\ OldFiles' = OldFiles /\ Managed(policy') = Managed(policy)
  BY DEF Reuse, Generate, Generated, OldFiles, Managed
<1>3. d \in pipe \/ d \in generating
  BY DEF Reuse, Generate, Generated
<1>4. d \in announced /\ pass1 \in {"print", "ok", "late"} /\ d \notin linked
  BY <1>0, <1>1, <1>2, <1>3 DEF Working, Sorting, Untouched, Alive, TypeOK
<1>5. Alive' /\ Untouched'
  BY <1>1, <1>2, <1>4 DEF Alive, Untouched
<1>6. prev' = prev
  BY <1>4 DEF Reuse, Generate, Generated, Write
<1>7. Saved'
  BY <1>1, <1>2, <1>6 DEF Saved
<1>8. ASSUME dir' = [dir EXCEPT ![<<d, "code">>] = CodeState(d)'],
             \A o \in Devices \ {d} : CodeState(o)' = CodeState(o)
      PROVE  Codes'
  <2>1. \A o \in Devices \ {d} : dir'[<<o, "code">>] = dir[<<o, "code">>]
    BY <1>0, <1>8 DEF TypeOK, File
  <2>2. \A o \in Devices : /\ dir'[<<o, "config">>] = dir[<<o, "config">>]
                           /\ dir'[<<o, "rules">>] = dir[<<o, "rules">>]
    BY <1>0, <1>8 DEF TypeOK, File
  <2>3. dir'[<<d, "code">>] = CodeState(d)'
    BY <1>0, <1>8 DEF TypeOK, File
  <2> QED  BY <1>1, <1>2, <1>4, <1>8, <2>1, <2>2, <2>3 DEF Codes
<1>9. CASE Reuse(d)
  <2>1. /\ d \in pipe /\ Reusable(d) /\ pipe' = pipe \ {d} /\ linked' = linked \cup {d}
        /\ dir' = [dir EXCEPT ![<<d, "code">>] = prev[<<d, "code">>]]
        /\ UNCHANGED <<generating, regenerated>>
    BY <1>9 DEF Reuse
  <2>2. prev[<<d, "code">>] = policy[d] /\ d \notin generating
    BY <1>2, <2>1, Found
  <2>3. CodeState(d)' = policy[d] /\ \A o \in Devices \ {d} : CodeState(o)' = CodeState(o)
    BY <1>2, <1>4, <2>1, <2>2 DEF CodeState
  <2>4. Codes'
    BY <1>8, <2>1, <2>2, <2>3
  <2>5. Sorting' /\ Changed'
    BY <1>1, <1>2, <1>4, <2>1, <2>2 DEF Sorting, Changed
  <2> QED  BY <1>5, <1>7, <2>4, <2>5 DEF Clean
<1>10. CASE Generate(d)
  <2>1. /\ d \in pipe /\ ~Reusable(d) /\ pipe' = pipe \ {d} /\ linked' = linked
        /\ generating' = generating \cup {d} /\ regenerated' = regenerated \cup {d}
        /\ dir' = [dir EXCEPT ![<<d, "code">>] = Torn]
    BY <1>10 DEF Generate, Write
  <2>2. CodeState(d)' = Torn /\ \A o \in Devices \ {d} : CodeState(o)' = CodeState(o)
    BY <1>2, <2>1 DEF CodeState
  <2>3. Codes'
    BY <1>8, <2>1, <2>2
  <2>4. Sorting'
    BY <1>1, <1>2, <1>4, <2>1 DEF Sorting
  <2>5. last # Nothing => policy[d] # last[d]
    BY <1>2, <2>1, Found
  <2>6. Changed'
    BY <1>1, <1>2, <2>1, <2>5 DEF Changed
  <2> QED  BY <1>5, <1>7, <2>3, <2>4, <2>6 DEF Clean
<1>11. CASE Generated(d)
  <2>1. /\ d \in generating /\ generating' = generating \ {d}
        /\ dir' = [dir EXCEPT ![<<d, "code">>] = <<dir[<<d, "config">>], dir[<<d, "rules">>]>>]
        /\ UNCHANGED <<pipe, linked, regenerated>>
    BY <1>11 DEF Generated, Write
  <2>2. policy[d] = <<dir[<<d, "config">>], dir[<<d, "rules">>]>>
    <3>1. /\ policy[d] \in Configs \X Rules
          /\ dir[<<d, "config">>] = policy[d][1] /\ dir[<<d, "rules">>] = policy[d][2]
      BY <1>0, <1>4, ManagedContent DEF AnnouncedComplete
    <3> QED  BY <3>1
  <2>3. d \notin pipe
    BY <1>1, <2>1 DEF Sorting
  <2>4. CodeState(d)' = policy[d] /\ \A o \in Devices \ {d} : CodeState(o)' = CodeState(o)
    BY <1>2, <1>4, <2>1, <2>3 DEF CodeState
  <2>5. Codes'
    BY <1>8, <2>1, <2>2, <2>4
  <2>6. Sorting' /\ Changed'
    BY <1>1, <1>2, <2>1 DEF Sorting, Changed
  <2> QED  BY <1>5, <1>7, <2>5, <2>6 DEF Clean
<1> QED  BY <1>9, <1>10, <1>11

\* Pass 2 removes .prev.
LEMMA CleanEnd ==
  ASSUME Inv, Clean, RemovePrev \/ EndOfPass2
  PROVE  Clean'
<1> USE DEF runVars, dirVars, p1Vars, p2Vars
<1>1. Alive /\ Untouched /\ Saved /\ Codes /\ Sorting /\ Changed
  BY DEF Clean
<1>2. /\ UNCHANGED <<policy, last, dir, pass1, todo, announced, pipe, generating, regenerated>>
      /\ OldFiles' = OldFiles /\ Managed(policy') = Managed(policy)
  BY DEF RemovePrev, EndOfPass2, OldFiles, Managed
<1>3. Codes' /\ Changed'
  BY <1>1, <1>2 DEF Codes, CodeState, Changed
<1>4. CASE RemovePrev
  <2>1. Alive' /\ Untouched' /\ Saved' /\ Sorting'
    BY <1>1, <1>2, <1>4 DEF RemovePrev, Alive, Ended1, Untouched, Saved, Sorting
  <2> QED  BY <1>3, <2>1 DEF Clean
<1>5. CASE EndOfPass2
  <2>1. prevDir' = FALSE /\ linked' = {} /\ pass2 = "remove" /\ pass2' = "ok"
    BY <1>5 DEF EndOfPass2, Removed
  <2>2. Alive' /\ Untouched' /\ Saved' /\ Sorting'
    BY <1>1, <1>2, <2>1 DEF Alive, Ended1, Untouched, Saved, Sorting
  <2> QED  BY <1>3, <2>2 DEF Clean
<1> QED  BY <1>4, <1>5

\* The result of a finished run.
LEMMA Final ==
  ASSUME Inv, Clean, Finished, NEW d \in Devices
  PROVE  /\ dir[<<d, "code">>] = policy[d]
         /\ d \in Managed(policy) =>
              dir[<<d, "config">>] = policy[d][1] /\ dir[<<d, "rules">>] = policy[d][2]
         /\ d \notin Managed(policy) =>
              dir[<<d, "config">>] = Nothing /\ dir[<<d, "rules">>] = Nothing
<1>1. Alive /\ Codes /\ Sorting
  BY DEF Clean
<1>2. pipe = {} /\ generating = {} /\ announced = Managed(policy)
  BY <1>1 DEF Alive, Sorting, Finished
<1>3. dir[<<d, "code">>] = policy[d]
  BY <1>1, <1>2 DEF Codes, CodeState, Finished, Managed
<1>4. d \notin Managed(policy) =>
        dir[<<d, "config">>] = Nothing /\ dir[<<d, "rules">>] = Nothing
  BY <1>1 DEF Codes, Finished
<1>5. AnnouncedComplete
  BY DEF Inv
<1> QED  BY <1>2, <1>3, <1>4, <1>5 DEF AnnouncedComplete

\* A run ends and the next one starts with its result.
LEMMA CleanNextRun ==
  ASSUME Inv, Clean, NextRun
  PROVE  Clean'
<1> USE DEF dirVars
<1>0. TypeOK
  BY DEF Inv
<1>1. Alive /\ Untouched
  BY DEF Clean
<1>2. /\ pass1 \in {"ok", "late", "failed"} /\ pass2 = "ok"
      /\ ~prevDir /\ linked = {} /\ UNCHANGED <<dir, prevDir, linked>>
  BY <1>0, <1>1 DEF NextRun, Ended1, Ended2, Alive, TypeOK
<1>3. /\ pass1' = "compile" /\ pass2' = "run" /\ pipe' = {} /\ generating' = {}
      /\ announced' = {} /\ regenerated' = {} /\ last' = IF Finished THEN policy ELSE last
  BY DEF NextRun
<1>4. dir = OldFiles'
  <2>1. CASE Finished
    <3>1. last' = policy /\ last' # Nothing
      BY <1>0, <1>3, <2>1, CodeDirAssumption DEF TypeOK
    <3>2. ASSUME NEW d \in Devices, NEW e \in {"config", "rules", "code"}
          PROVE  dir[<<d, e>>] = Part(policy[d], e)
      BY <2>1, <3>2, Final DEF Part, Managed
    <3>3. OldFiles' = [f \in File |-> Part(policy[f[1]], f[2])]
      BY <3>1 DEF OldFiles
    <3>4. ASSUME NEW f \in File  PROVE dir[f] = Part(policy[f[1]], f[2])
      <4>1. f[1] \in Devices /\ f[2] \in {"config", "rules", "code"} /\ f = <<f[1], f[2]>>
        BY DEF File
      <4> QED  BY <3>2, <4>1
    <3>5. dir = [f \in File |-> dir[f]]
      BY <1>0 DEF TypeOK
    <3> QED  BY <3>3, <3>4, <3>5
  <2>2. CASE ~Finished
    <3>1. pass1 = "failed" /\ last' = last
      BY <1>2, <1>3, <2>2 DEF Finished
    <3> QED  BY <1>1, <3>1 DEF Untouched, OldFiles
  <2> QED  BY <2>1, <2>2
<1>5. Alive' /\ Untouched' /\ Saved' /\ Codes' /\ Sorting' /\ Changed'
  BY <1>2, <1>3, <1>4 DEF Alive, Untouched, Saved, Codes, Sorting, Changed
<1> QED  BY <1>5 DEF Clean

\* Every step except a fault keeps Clean.
LEMMA CleanStep ==
  ASSUME Inv, faults = 0 => Clean, [Next]_vars
  PROVE  faults' = 0 => Clean'
<1> SUFFICES ASSUME faults' = 0  PROVE Clean'
  OBVIOUS
<1>1. faults \in Nat
  BY DEF Inv, TypeOK
<1>2. ~Kill1 /\ ~Kill2 /\ ~KillBoth
  <2>1. faults + 1 # 0
    BY <1>1
  <2>2. Kill1 \/ Kill2 \/ KillBoth => faults' = faults + 1
    BY DEF Kill1, Kill2, KillBoth
  <2> QED  BY <2>1, <2>2
<1>3. CASE Pass1Step
  <2>1. faults' = faults
    BY <1>3 DEF Pass1Step, CompileError, CheckOutputDir, MoveOldFiles, PrintDevice, Announce,
                EndOfPass1, LateError
  <2>2. Clean
    BY <2>1
  <2>3. CASE CompileError \/ CheckOutputDir \/ MoveOldFiles
    BY <2>2, <2>3, CleanBefore
  <2>4. ASSUME NEW d \in Devices, PrintDevice(d) \/ Announce(d)  PROVE Clean'
    BY <2>2, <2>4, CleanPrint
  <2>5. CASE EndOfPass1 \/ LateError
    BY <2>2, <2>5, CleanPrint
  <2> QED  BY <1>3, <2>3, <2>4, <2>5 DEF Pass1Step
<1>4. CASE Pass2Step
  <2>1. faults' = faults
    BY <1>4 DEF Pass2Step, Reuse, Generate, Generated, RemovePrev, EndOfPass2
  <2> QED  BY <1>4, <2>1, CleanWork, CleanEnd DEF Pass2Step
<1>5. CASE NextRun
  BY <1>5, CleanNextRun DEF NextRun
<1>6. CASE UNCHANGED vars
  BY <1>6 DEF vars, Clean, Alive, Ended1, Untouched, OldFiles, Saved, Codes, CodeState, Sorting,
              Changed, Managed
<1> QED  BY <1>2, <1>3, <1>4, <1>5, <1>6 DEF Next

\* Clean is an invariant as long as there is no fault.
LEMMA CleanInvariance == Spec => [](Inv /\ (faults = 0 => Clean))
<1>1. Init => Inv /\ (faults = 0 => Clean)
  BY InvInit, CleanInit
<1>2. Inv /\ (faults = 0 => Clean) /\ [Next]_vars => (Inv /\ (faults = 0 => Clean))'
  BY InvStep, CleanStep
<1> QED  BY <1>1, <1>2, PTL DEF Spec

\* If nothing is killed, then a run that prints leaves the code of its policy and
\* nothing else, although pass 2 reuses files, even if it fails by late errors; and
\* a run that an error stops before it has touched CODE-DIR leaves alone the
\* result of the run before.
THEOREM SuccessIsCurrent == Spec => []SuccessCurrent
<1>1. ASSUME Inv, faults = 0 => Clean  PROVE SuccessCurrent
  <2> SUFFICES ASSUME faults = 0  PROVE SuccessCurrent
    BY DEF SuccessCurrent
  <2>1. Clean /\ Alive /\ Untouched
    BY <1>1 DEF Clean
  <2>2. ASSUME Finished
        PROVE  /\ ~prevDir
               /\ \A d \in Devices : CodeOf(policy, d)
               /\ \A d \in Devices \ Managed(policy), e \in {"config", "rules"} :
                    dir[<<d, e>>] = Nothing
    BY <1>1, <2>1, <2>2, Final DEF Alive, Finished, CodeOf
  <2>3. ASSUME pass1 \in {"compile", "failed"}, last # Nothing, NEW d \in Devices
        PROVE  CodeOf(last, d)
    BY <2>1, <2>3, Elements DEF Untouched, CodeOf, Part
  <2> QED  BY <2>2, <2>3 DEF SuccessCurrent
<1> QED  BY <1>1, CleanInvariance, PTL

\* If nothing is killed, code is generated only for devices that have changed
\* since the last run that replaced the code, with late errors or without.
THEOREM OnlyChangedIsGenerated == Spec => []OnlyChanged
<1>1. ASSUME Inv, faults = 0 => Clean  PROVE OnlyChanged
  BY <1>1 DEF Clean, Changed, OnlyChanged
<1> QED  BY <1>1, CleanInvariance, PTL

-----------------------------------------------------------------------------
(***************************************************************************)
(* Module CodeDir implements module CodeStore.                             *)
(***************************************************************************)
\* Nothing but the policy may change if the modes agree and the files are the same,
\* or if there is no stable code before and after the step.
LEMMA StoreSame ==
  ASSUME StoreMode' = StoreMode, StoreMode = "stable" => dir' = dir
  PROVE  StoreCode' = StoreCode
BY DEF StoreCode

\* Faults: nothing is known of the code any more.
LEMMA StoreLost ==
  ASSUME Inv, [Next]_vars, faults' # 0
  PROVE  [Store!Next]_(Store!vars)
<1> USE DEF runVars
<1>1. faults \in Nat /\ faults' \in Nat
  BY InvStep DEF Inv, TypeOK
<1>2. StoreMode' = "unknown" /\ StoreCode' = Store!NoCode
  BY <1>1 DEF StoreMode, StoreCode, Store!NoCode
<1>3. CASE NextRun
  <2>1. StoreMode = "unknown" /\ policy' \in Policies
    BY <1>1, <1>3 DEF NextRun, StoreMode
  <2>2. StoreCode' = StoreCode
    BY <1>2, <2>1, StoreSame
  <2> QED  BY <1>2, <2>1, <2>2 DEF Store!NextRun, Store!Next
<1>4. CASE ~NextRun
  <2>1. policy' = policy
    BY <1>4 DEF vars, Next, Pass1Step, CompileError, CheckOutputDir, MoveOldFiles, PrintDevice,
                Announce, EndOfPass1, LateError, Pass2Step, Reuse, Generate, Generated,
                RemovePrev, EndOfPass2, Kill1, Kill2, KillBoth
  <2> QED  BY <1>2, <2>1 DEF Store!Lose, Store!Next
<1> QED  BY <1>3, <1>4

\* Steps of pass 1.
LEMMA StorePass1 ==
  ASSUME Inv, Clean, faults = 0, Pass1Step
  PROVE  [Store!Next]_(Store!vars)
<1> USE DEF runVars, dirVars, p1Vars, p2Vars
<1>1. policy' = policy /\ faults' = 0 /\ pass2' = pass2
  BY DEF Pass1Step, CompileError, CheckOutputDir, MoveOldFiles, PrintDevice, Announce,
         EndOfPass1, LateError
<1>2. pass1 \in {"print", "move", "compile"} => pass2 # "ok"
  BY DEF Clean, Alive, Ended1
<1>3. CASE CheckOutputDir
  <2>1. StoreMode = "stable" /\ StoreMode' = "busy"
    BY <1>1, <1>2, <1>3 DEF CheckOutputDir, StoreMode, Finished
  <2>2. StoreCode' = Store!NoCode
    BY <2>1 DEF StoreCode, Store!NoCode
  <2> QED  BY <1>1, <2>1, <2>2 DEF Store!Replace, Store!Next
<1>4. CASE CompileError
  <2>1. StoreMode = "stable" /\ StoreMode' = "stable" /\ dir' = dir
    BY <1>1, <1>4 DEF CompileError, StoreMode
  <2>2. StoreCode' = StoreCode
    BY <2>1, StoreSame
  <2> QED  BY <1>1, <2>1, <2>2 DEF Store!vars
<1>5. CASE ~(CheckOutputDir \/ CompileError)
  <2>1. pass1 \in {"move", "print"} /\ pass1' \in {"print", "ok", "late", "killed"}
    BY <1>5 DEF Pass1Step, MoveOldFiles, PrintDevice, Announce, EndOfPass1, LateError
  <2>2. StoreMode = "busy" /\ StoreMode' = "busy"
    BY <1>1, <1>2, <2>1 DEF StoreMode, Finished
  <2>3. StoreCode' = StoreCode
    BY <2>2, StoreSame
  <2> QED  BY <1>1, <2>2, <2>3 DEF Store!vars
<1> QED  BY <1>3, <1>4, <1>5

\* Steps of pass 2: the last one makes the new code known.
LEMMA StorePass2 ==
  ASSUME Inv, Clean, faults = 0, Pass2Step
  PROVE  [Store!Next]_(Store!vars)
<1> USE DEF runVars, dirVars, p1Vars, p2Vars
<1>1. policy' = policy /\ faults' = 0 /\ pass1' = pass1
  BY DEF Pass2Step, Reuse, Generate, Generated, RemovePrev, EndOfPass2
<1>2. CASE \E d \in Devices : Reuse(d) \/ Generate(d) \/ Generated(d)
  <2>1. pass2 = "run" /\ pass2' = "run" /\ pipe \cup generating # {}
    BY <1>2 DEF Reuse, Generate, Generated
  <2>2. announced # {}
    BY <2>1 DEF Inv, Working
  <2>3. pass1 \notin {"compile", "failed"}
    BY <2>2 DEF Clean, Untouched
  <2>4. StoreMode = "busy" /\ StoreMode' = "busy"
    BY <1>1, <2>1, <2>3 DEF StoreMode, Finished
  <2>5. StoreCode' = StoreCode
    BY <2>4, StoreSame
  <2> QED  BY <1>1, <2>4, <2>5 DEF Store!vars
<1>3. CASE RemovePrev
  <2>1. StoreMode' = StoreMode /\ dir' = dir
    BY <1>1, <1>3 DEF RemovePrev, StoreMode, Finished
  <2>2. StoreCode' = StoreCode
    BY <2>1, StoreSame
  <2> QED  BY <1>1, <2>1, <2>2 DEF Store!vars
<1>4. CASE EndOfPass2 /\ pass1 \notin {"ok", "late"}
  <2>1. StoreMode' = StoreMode /\ dir' = dir
    BY <1>1, <1>4 DEF EndOfPass2, StoreMode, Finished
  <2>2. StoreCode' = StoreCode
    BY <2>1, StoreSame
  <2> QED  BY <1>1, <2>1, <2>2 DEF Store!vars
<1>5. CASE EndOfPass2 /\ pass1 \in {"ok", "late"}
  <2>1. StoreMode = "busy" /\ StoreMode' = "stable" /\ dir' = dir
    BY <1>1, <1>5 DEF EndOfPass2, StoreMode, Finished
  <2>2. pipe = {} /\ generating = {} /\ announced = Managed(policy)
    BY <1>5 DEF EndOfPass2, Clean, Alive, Sorting
  <2>3. ASSUME NEW d \in Devices  PROVE dir[<<d, "code">>] = policy[d]
    BY <1>5, <2>2 DEF Clean, Codes, CodeState, Managed
  <2>4. StoreCode' = [d \in Devices |-> policy[d]]
    BY <2>1, <2>3 DEF StoreCode
  <2>5. policy \in [Devices -> (Configs \X Rules) \cup {Nothing}]
    BY CodeDirAssumption DEF Inv, TypeOK
  <2>6. StoreCode' = policy
    BY <2>4, <2>5
  <2> QED  BY <1>1, <2>1, <2>6 DEF Store!Commit, Store!Next
<1> QED  BY <1>2, <1>3, <1>4, <1>5 DEF Pass2Step

\* Every step is one of the abstract specification or changes nothing there.
LEMMA StoreStep ==
  ASSUME Inv, faults = 0 => Clean, [Next]_vars
  PROVE  [Store!Next]_(Store!vars)
<1>1. faults \in Nat
  BY DEF Inv, TypeOK
<1>2. CASE faults' # 0
  BY <1>2, StoreLost
<1>3. CASE faults' = 0
  <2>1. ~Kill1 /\ ~Kill2 /\ ~KillBoth
    <3>1. faults + 1 # 0
      BY <1>1
    <3>2. Kill1 \/ Kill2 \/ KillBoth => faults' = faults + 1
      BY DEF Kill1, Kill2, KillBoth
    <3> QED  BY <1>3, <3>1, <3>2
  <2>2. Pass1Step \/ Pass2Step \/ NextRun \/ UNCHANGED vars => faults' = faults
    BY DEF vars, Pass1Step, CompileError, CheckOutputDir, MoveOldFiles, PrintDevice, Announce,
           EndOfPass1, LateError, Pass2Step, Reuse, Generate, Generated, RemovePrev, EndOfPass2,
           NextRun
  <2>3. faults = 0 /\ Clean
    BY <1>3, <2>1, <2>2 DEF Next
  <2>4. CASE NextRun
    <3>1. StoreMode = "stable"
      BY <2>3, <2>4 DEF NextRun, Ended1, Ended2, Clean, Alive, StoreMode, Finished
    <3>2. StoreMode' = "stable" /\ dir' = dir /\ policy' \in Policies
      BY <1>3, <2>4 DEF NextRun, dirVars, StoreMode
    <3>3. StoreCode' = StoreCode
      BY <3>1, <3>2, StoreSame
    <3> QED  BY <3>1, <3>2, <3>3 DEF Store!NextRun, Store!Next
  <2>5. CASE UNCHANGED vars
    <3>1. StoreMode' = StoreMode /\ dir' = dir /\ policy' = policy
      BY <2>5 DEF vars, StoreMode, Finished
    <3> QED  BY <3>1, StoreSame DEF Store!vars
  <2> QED  BY <2>1, <2>3, <2>4, <2>5, StorePass1, StorePass2 DEF Next
<1> QED  BY <1>2, <1>3

\* As long as nothing is killed, the two processes together replace the code of
\* all devices at once or leave it alone, for any number of devices and runs.
THEOREM ImplementsCodeStore == Spec => ReplacesAtOnce
<1>1. Init => Store!Init
  <2> SUFFICES ASSUME Init  PROVE Store!Init
    OBVIOUS
  <2>1. StoreMode = "stable"
    BY DEF Init, StoreMode
  <2>2. ASSUME NEW d \in Devices  PROVE dir[<<d, "code">>] = Nothing
    BY DEF Init, NoFiles, File
  <2>3. StoreCode = Store!NoCode
    BY <2>1, <2>2 DEF StoreCode, Store!NoCode
  <2> QED  BY <2>1, <2>3 DEF Init, Store!Init
<1>2. Inv /\ (faults = 0 => Clean) /\ [Next]_vars => [Store!Next]_(Store!vars)
  BY StoreStep
<1> QED  BY <1>1, <1>2, CleanInvariance, PTL DEF Spec, ReplacesAtOnce, Store!Spec

-----------------------------------------------------------------------------
(***************************************************************************)
(* Proof of NoStaleCode of module CodeDir: after at most one fault, a run  *)
(* that finishes never leaves the code of another policy, for any number   *)
(* of devices and runs.                                                    *)
(***************************************************************************)
\* The files of device d in directory x belong together, as far as they are
\* there: complete code has been made from the two files of pass 1 beside it.
Match(x, d) ==
  \/ x[<<d, "code">>] \in {Nothing, Torn}
  \/ x[<<d, "config">>] = Nothing
  \/ x[<<d, "rules">>] = Nothing
  \/ x[<<d, "code">>] = <<x[<<d, "config">>], x[<<d, "rules">>]>>

\* No run before this one had a fault, if there was at most one.
NoEarlierFault == faults = 0 \/ pass1 = "killed" \/ pass2 = "killed"

\* The order of the two passes in one run.
Order ==
  /\ pass1 = "move" => ~prevDir
  /\ pass2 \in {"remove", "ok"} => Ended1 /\ pipe = {} /\ generating = {}
  /\ pass2 = "ok" => ~prevDir
  /\ pipe \cap generating = {}
  /\ pass1 \in {"print", "ok", "late"} => Managed(policy) \subseteq todo \cup announced
  /\ pass1 \in {"ok", "late"} => todo = {}
  /\ pass1 = "killed" \/ pass2 = "killed" => faults > 0

\* What may still be linked from .prev belongs to the files beside it there.
ReusableMatch == \A d \in Devices : dir[<<d, "code">>] # Nothing \/ Match(prev, d)

\* Up to the end of the run with the fault, code in CODE-DIR is never stale.
Before ==
  NoEarlierFault =>
    /\ \A d \in Devices : Match(dir, d)
    /\ pass1 = "compile" => ~prevDir
    /\ pass1 = "print" => \A d \in todo : dir[<<d, "code">>] = Nothing

\* In a run after that, only code of devices which this run prints is stale.
After ==
  ~NoEarlierFault =>
    \A d \in Devices :
      Match(dir, d) \/ (pass1 \in {"print", "ok", "late"} /\ d \in Managed(policy))

\* Pass 2 leaves code of this policy, or a torn file that it has reused.
Handled ==
  pass2 # "killed" =>
    \A d \in announced \ (pipe \cup generating) : dir[<<d, "code">>] \in {policy[d], Torn}

Fresh == ReusableMatch /\ Before /\ After /\ Handled

OneFaultInv == Inv /\ Order /\ (faults <= 1 => Fresh)

-----------------------------------------------------------------------------
\* Removing or moving away files leaves a directory in which files match.
LEMMA MatchSubset ==
  ASSUME NEW x, NEW y, NEW d, Match(x, d),
         \A e \in {"config", "rules", "code"} : y[<<d, e>>] \in {x[<<d, e>>], Nothing}
  PROVE  Match(y, d)
BY DEF Match

\* Directories that agree on the files of a device.
LEMMA MatchSame ==
  ASSUME NEW x, NEW y, NEW d, 
         \A e \in {"config", "rules", "code"} : y[<<d, e>>] = x[<<d, e>>]
  PROVE  Match(y, d) <=> Match(x, d)
BY DEF Match

\* Without any fault the first run starts in an empty directory.
LEMMA OneFaultInit == Init => OneFaultInv
<1> SUFFICES ASSUME Init  PROVE OneFaultInv
  OBVIOUS
<1>1. Inv
  BY InvInit
<1>2. Order
  BY DEF Init, Order
<1>3. ASSUME NEW d \in Devices
      PROVE  dir[<<d, "code">>] = Nothing /\ prev[<<d, "code">>] = Nothing
  BY DEF Init, NoFiles, File
<1>4. Fresh
  BY <1>3 DEF Init, Fresh, ReusableMatch, Before, After, Handled, Match, NoEarlierFault
<1> QED  BY <1>1, <1>2, <1>4 DEF OneFaultInv

\* A step of pass 1 keeps the order.
LEMMA Order1 == Inv /\ Order /\ Pass1Step => Order'
<1> SUFFICES ASSUME Inv, Order, Pass1Step  PROVE Order'
  OBVIOUS
<1> USE DEF runVars, dirVars, p1Vars, p2Vars
<1>1. Printing /\ Working /\ (UNCHANGED policy => Managed(policy') = Managed(policy))
  BY DEF Inv, Managed
<1>2. CASE CompileError
  BY <1>1, <1>2 DEF Order, CompileError, Ended1
<1>3. CASE CheckOutputDir
  BY <1>1, <1>3 DEF Order, CheckOutputDir, Ended1
<1>4. CASE MoveOldFiles
  BY <1>1, <1>4 DEF Order, MoveOldFiles, Ended1, Printing
<1>5. ASSUME NEW d \in Devices, PrintDevice(d)  PROVE Order'
  BY <1>1, <1>5 DEF Order, PrintDevice, PrintFile, Ended1
<1>6. ASSUME NEW d \in Devices, Announce(d)  PROVE Order'
  <2>1. d \in todo /\ d \notin pipe \cup generating
    BY <1>1, <1>6 DEF Announce, Printed, Printing, Working
  <2>2. CASE Ended2
    <3>1. pass2 = "killed"
      BY <1>6, <2>2 DEF Announce, Order, Ended1, Ended2
    <3> QED  BY <1>1, <1>6, <2>2, <3>1 DEF Order, Announce, Ended1
  <2>3. CASE ~Ended2
    BY <1>1, <1>6, <2>1, <2>3 DEF Order, Announce, Ended1, Ended2
  <2> QED  BY <2>2, <2>3
<1>7. CASE EndOfPass1 \/ LateError
  BY <1>1, <1>7 DEF Order, EndOfPass1, LateError, Ended1
<1> QED  BY <1>2, <1>3, <1>4, <1>5, <1>6, <1>7 DEF Pass1Step

\* So does one of pass 2.
LEMMA Order2 == Inv /\ Order /\ Pass2Step => Order'
<1> SUFFICES ASSUME Inv, Order, Pass2Step  PROVE Order'
  OBVIOUS
<1> USE DEF runVars, dirVars, p1Vars, p2Vars
<1>1. UNCHANGED policy => Managed(policy') = Managed(policy)
  BY DEF Managed
<1>2. ASSUME NEW d \in Devices, Reuse(d) \/ Generate(d) \/ Generated(d)  PROVE Order'
  BY <1>1, <1>2 DEF Order, Reuse, Generate, Generated, Ended1
<1>3. CASE RemovePrev
  BY <1>1, <1>3 DEF Order, RemovePrev, Ended1
<1>4. CASE EndOfPass2
  BY <1>1, <1>4 DEF Order, EndOfPass2, Removed, Ended1
<1> QED  BY <1>2, <1>3, <1>4 DEF Pass2Step

\* And a fault, or the start of the next run.
LEMMA Order3 == Inv /\ Order /\ (Kill1 \/ Kill2 \/ KillBoth \/ NextRun) => Order'
<1> SUFFICES ASSUME Inv, Order, Kill1 \/ Kill2 \/ KillBoth \/ NextRun  PROVE Order'
  OBVIOUS
<1> USE DEF runVars, dirVars, p1Vars, p2Vars
<1>1. /\ UNCHANGED policy => Managed(policy') = Managed(policy)
      /\ faults \in Nat
  BY DEF Managed, Inv, TypeOK
<1>2. faults + 1 > 0
  BY <1>1
<1>3. CASE Kill1 \/ KillBoth
  <2>1. ~Ended1 /\ pass1' = "killed" /\ pass2 \notin {"remove", "ok"} /\ faults' > 0
    BY <1>2, <1>3 DEF Kill1, KillBoth, Order
  <2> QED  BY <1>1, <1>3, <2>1 DEF Order, Kill1, KillBoth
<1>4. CASE Kill2
  <2>1. pass1 = "move" => ~prevDir'
    BY <1>4 DEF Kill2, Order, Ended1
  <2> QED  BY <1>1, <1>2, <1>4, <2>1 DEF Order, Kill2
<1>5. CASE NextRun
  BY <1>5 DEF Order, NextRun
<1> QED  BY <1>3, <1>4, <1>5

-----------------------------------------------------------------------------
(***************************************************************************)
(* Fresh is kept by every step.                                            *)
(***************************************************************************)
\* A step of pass 1 that changes no file.
LEMMA FreshSame ==
  ASSUME Inv, Order, Fresh, UNCHANGED <<policy, dir, prev, prevDir, faults, pass2, generating>>,
         \/ CompileError \/ CheckOutputDir \/ EndOfPass1 \/ LateError
         \/ \E d \in Devices : Announce(d)
  PROVE  Fresh'
<1> USE DEF runVars, dirVars, p1Vars, p2Vars
<1>1. /\ Managed(policy') = Managed(policy) /\ Managed(policy) \subseteq Devices
      /\ Printing /\ Working
  BY DEF Managed, Inv
<1>2. ReusableMatch'
  BY DEF Fresh, ReusableMatch, Match
<1>3. CASE CompileError
  <2>1. pass1 = "compile" /\ pass1' = "failed" /\ (NoEarlierFault' <=> NoEarlierFault)
    BY <1>3 DEF CompileError, NoEarlierFault
  <2> QED  BY <1>1, <1>2, <1>3, <2>1 DEF Fresh, Before, After, Handled, Match, CompileError
<1>4. CASE CheckOutputDir
  <2>1. /\ pass1 = "compile" /\ pass1' \in {"print", "move"} /\ todo' \subseteq Devices
        /\ pass1' = "print" => prevDir \/ dir = NoFiles
        /\ NoEarlierFault' <=> NoEarlierFault
        /\ announced' = {}
    BY <1>1, <1>4 DEF CheckOutputDir, NoEarlierFault, Printing
  <2>2. Before'
    <3> SUFFICES ASSUME NoEarlierFault
                 PROVE  /\ \A d \in Devices : Match(dir', d)
                        /\ pass1' = "print" => \A d \in todo' : dir'[<<d, "code">>] = Nothing
      BY <2>1 DEF Before
    <3> QED  BY <2>1 DEF Fresh, Before, NoFiles, File
  <2>3. After'
    BY <1>1, <2>1 DEF Fresh, After, Match
  <2> QED  BY <1>2, <2>1, <2>2, <2>3 DEF Fresh, Handled
<1>5. ASSUME NEW d \in Devices, Announce(d)  PROVE Fresh'
  <2>1. CASE Ended2
    <3>1. pass2 = "killed" /\ pass1 = "print" /\ pass1' = "killed"
      BY <1>5, <2>1 DEF Announce, Order, Ended1, Ended2
    <3>2. NoEarlierFault /\ NoEarlierFault'
      BY <3>1 DEF NoEarlierFault
    <3> QED  BY <1>2, <3>1, <3>2 DEF Fresh, Before, After, Handled, Match
  <2>2. CASE ~Ended2
    <3>1. /\ pass1 = "print" /\ pass1' = pass1 /\ todo' \subseteq todo
          /\ announced' \ (pipe' \cup generating') \subseteq announced \ (pipe \cup generating)
          /\ NoEarlierFault' <=> NoEarlierFault
      BY <1>5, <2>2 DEF Announce, NoEarlierFault
    <3> QED  BY <1>1, <1>2, <3>1 DEF Fresh, Before, After, Handled, Match
  <2> QED  BY <2>1, <2>2
<1>6. CASE EndOfPass1 \/ LateError
  <2>1. pass1 = "print" /\ pass1' \in {"ok", "late"} /\ (NoEarlierFault' <=> NoEarlierFault)
    BY <1>6 DEF EndOfPass1, LateError, NoEarlierFault
  <2> QED  BY <1>1, <1>2, <1>6, <2>1 DEF Fresh, Before, After, Handled, Match, EndOfPass1,
                                        LateError
<1> QED  BY <1>3, <1>4, <1>5, <1>6

\* mv: the old files belong together, and nothing is left in CODE-DIR.
LEMMA FreshMove == Inv /\ Order /\ Fresh /\ MoveOldFiles => Fresh'
<1> SUFFICES ASSUME Inv, Order, Fresh, MoveOldFiles  PROVE Fresh'
  OBVIOUS
<1> USE DEF runVars, dirVars, p1Vars, p2Vars
<1>1. /\ pass1 = "move" /\ pass1' = "print" /\ announced' = {}
      /\ todo' \subseteq Devices
      /\ UNCHANGED <<policy, faults, pass2>>
      /\ Moved(File)
  BY DEF MoveOldFiles, Inv, Printing, TypeOK
<1>2. ASSUME NEW d \in Devices  PROVE Match(dir, d)
  BY <1>1, <1>2 DEF Fresh, Before, After
<1>3. ASSUME NEW d \in Devices, NEW e \in {"config", "rules", "code"}
      PROVE  dir'[<<d, e>>] = Nothing /\ prev'[<<d, e>>] = dir[<<d, e>>]
  BY <1>1, <1>3 DEF Moved, File
<1>4. ASSUME NEW d \in Devices  PROVE Match(dir', d) /\ Match(prev', d)
  BY <1>2, <1>3, <1>4, MatchSame DEF Match
<1> QED  BY <1>1, <1>3, <1>4 DEF Fresh, ReusableMatch, Before, After, Handled

\* printCode1 writes the two files of a device of todo.  If there was no
\* earlier fault, it has no code yet.
LEMMA FreshPrint ==
  ASSUME Inv, Order, Fresh, NEW d \in Devices, PrintDevice(d)
  PROVE  Fresh'
<1> USE DEF runVars, dirVars, p1Vars, p2Vars
<1>1. /\ pass1 = "print"
      /\ UNCHANGED <<policy, prev, prevDir, pass1, pass2, todo, pipe, generating, faults, announced>>
      /\ NoEarlierFault' <=> NoEarlierFault
  BY DEF PrintDevice, PrintFile, NoEarlierFault
<1>2. d \in todo /\ d \in Managed(policy) /\ Managed(policy') = Managed(policy)
  BY <1>1 DEF PrintDevice, Inv, Printing, Managed
<1>3. \E e \in {"config", "rules"} : \E x : dir' = [dir EXCEPT ![<<d, e>>] = x]
  BY DEF PrintDevice, PrintFile
<1>4. /\ \A o \in Devices : dir'[<<o, "code">>] = dir[<<o, "code">>]
      /\ \A o \in Devices \ {d}, e \in {"config", "rules", "code"} :
           dir'[<<o, e>>] = dir[<<o, e>>]
  BY <1>3 DEF File, Inv, TypeOK
<1>5. ASSUME NEW o \in Devices, o # d  PROVE Match(dir', o) <=> Match(dir, o)
  BY <1>4, <1>5 DEF Match
<1>6. ReusableMatch'
  BY <1>1, <1>4 DEF Fresh, ReusableMatch, Match
<1>7. Before'
  <2> SUFFICES ASSUME NoEarlierFault
               PROVE  /\ \A o \in Devices : Match(dir', o)
                      /\ \A o \in todo : dir'[<<o, "code">>] = Nothing
    BY <1>1 DEF Before
  <2>1. todo \subseteq Devices /\ \A o \in todo : dir[<<o, "code">>] = Nothing
    BY <1>1 DEF Fresh, Before, Inv, TypeOK
  <2>2. \A o \in todo : dir'[<<o, "code">>] = Nothing
    BY <1>4, <2>1
  <2>3. ASSUME NEW o \in Devices  PROVE Match(dir', o)
    BY <1>2, <1>5, <2>2 DEF Fresh, Before, Match
  <2> QED  BY <2>2, <2>3
<1>8. After'
  BY <1>1, <1>2, <1>5 DEF Fresh, After
<1>9. Handled'
  BY <1>1, <1>4 DEF Fresh, Handled, Inv, TypeOK
<1> QED  BY <1>6, <1>7, <1>8, <1>9 DEF Fresh

\* What pass 2 puts into the code file of an announced device is code of this
\* policy, or torn.
LEMMA CodeOfPolicy ==
  ASSUME Inv, Order, Fresh, NEW d \in Devices, Reuse(d) \/ Generate(d) \/ Generated(d)
  PROVE  /\ d \in announced /\ policy[d] = <<dir[<<d, "config">>], dir[<<d, "rules">>]>>
         /\ policy[d] # Nothing
         /\ \E x \in {policy[d], Torn} : dir' = [dir EXCEPT ![<<d, "code">>] = x]
<1>1. d \in announced
  BY DEF Reuse, Generate, Generated, Inv, Working
<1>2. /\ d \in Managed(policy) /\ policy[d] # Nothing
      /\ policy[d] = <<dir[<<d, "config">>], dir[<<d, "rules">>]>>
  <2>1. /\ d \in Managed(policy)
        /\ dir[<<d, "config">>] = policy[d][1] /\ dir[<<d, "rules">>] = policy[d][2]
    BY <1>1 DEF Inv, AnnouncedComplete
  <2>2. policy[d] \in Configs \X Rules
    BY <2>1, ManagedContent DEF Inv
  <2> QED  BY <2>1, <2>2 DEF Managed
<1>3. CASE Reuse(d)
  <2>1. /\ dir[<<d, "code">>] = Nothing /\ prev[<<d, "code">>] # Nothing
        /\ \A e \in {"config", "rules"} :
             prev[<<d, e>>] # Nothing /\ prev[<<d, e>>] = dir[<<d, e>>]
    BY <1>3 DEF Reuse, Reusable, Unchanged
  <2>2. Match(prev, d)
    BY <2>1 DEF Fresh, ReusableMatch
  <2>3. prev[<<d, "code">>] \in {policy[d], Torn}
    BY <1>2, <2>1, <2>2 DEF Match
  <2> QED  BY <1>1, <1>2, <1>3, <2>3 DEF Reuse
<1>4. CASE Generate(d) \/ Generated(d)
  BY <1>1, <1>2, <1>4 DEF Generate, Generated, Write
<1> QED  BY <1>3, <1>4

\* A worker of pass 2 writes or links code.  If the file in .prev changes, it is
\* the same file as the one in CODE-DIR and is not reused again.
LEMMA FreshWork ==
  ASSUME Inv, Order, Fresh, NEW d \in Devices, Reuse(d) \/ Generate(d) \/ Generated(d)
  PROVE  Fresh'
<1> USE DEF runVars, dirVars, p1Vars, p2Vars
<1>1. /\ UNCHANGED <<policy, pass1, pass2, todo, announced, prevDir, faults>>
      /\ NoEarlierFault' <=> NoEarlierFault
      /\ announced' \ (pipe' \cup generating') \subseteq
           (announced \ (pipe \cup generating)) \cup {d}
  BY DEF Reuse, Generate, Generated, NoEarlierFault
<1>2. /\ d \in announced /\ policy[d] = <<dir[<<d, "config">>], dir[<<d, "rules">>]>>
      /\ policy[d] # Nothing
  BY CodeOfPolicy
<1>3. PICK x \in {policy[d], Torn} : dir' = [dir EXCEPT ![<<d, "code">>] = x]
  BY CodeOfPolicy
<1>4. /\ dir'[<<d, "code">>] = x /\ x # Nothing
      /\ \A o \in Devices, e \in {"config", "rules", "code"} :
           <<o, e>> # <<d, "code">> => dir'[<<o, e>>] = dir[<<o, e>>]
  BY <1>2, <1>3, CodeDirAssumption DEF Inv, TypeOK, File
<1>5. \A o \in Devices, e \in {"config", "rules", "code"} :
        <<o, e>> # <<d, "code">> => prev'[<<o, e>>] = prev[<<o, e>>]
  BY DEF Reuse, Generate, Generated, Write, Inv, TypeOK, File
<1>6. Match(dir', d) /\ \A o \in Devices \ {d} : Match(dir', o) <=> Match(dir, o)
  BY <1>2, <1>4 DEF Match
<1>7. ReusableMatch'
  <2> SUFFICES ASSUME NEW o \in Devices, o # d
               PROVE  dir'[<<o, "code">>] # Nothing \/ Match(prev', o)
    BY <1>4 DEF ReusableMatch
  <2> QED  BY <1>4, <1>5 DEF Fresh, ReusableMatch, Match
<1>8. Before'
  <2>1. pass1 = "print" => d \notin todo
    BY <1>2 DEF Inv, Printing
  <2> QED  BY <1>1, <1>4, <1>6, <2>1 DEF Fresh, Before, Inv, TypeOK
<1>9. After'
  BY <1>1, <1>6 DEF Fresh, After, Managed
<1>10. Handled'
  BY <1>1, <1>4 DEF Fresh, Handled, Inv, TypeOK
<1> QED  BY <1>7, <1>8, <1>9, <1>10 DEF Fresh

\* All workers are ready, and .prev is removed.
LEMMA FreshEnd == Inv /\ Order /\ Fresh /\ (RemovePrev \/ EndOfPass2) => Fresh'
<1> SUFFICES ASSUME Inv, Order, Fresh, RemovePrev \/ EndOfPass2  PROVE Fresh'
  OBVIOUS
<1> USE DEF runVars, dirVars, p1Vars, p2Vars
<1>1. /\ UNCHANGED <<policy, dir, pass1, todo, announced, pipe, generating, faults>>
      /\ pass2 # "killed" /\ pass2' # "killed" /\ (pass1 = "compile" => prevDir' = prevDir)
      /\ NoEarlierFault' <=> NoEarlierFault
  BY DEF RemovePrev, EndOfPass2, NoEarlierFault, Order, Ended1
<1>2. \A d \in Devices : Match(prev, d) => Match(prev', d)
  BY DEF RemovePrev, EndOfPass2, Removed, Match, File
<1>3. ReusableMatch'
  BY <1>1, <1>2 DEF Fresh, ReusableMatch
<1>4. Before' /\ After'
  BY <1>1 DEF Fresh, Before, After, Match, Managed
<1>5. Handled'
  BY <1>1 DEF Fresh, Handled
<1> QED  BY <1>3, <1>4, <1>5 DEF Fresh

-----------------------------------------------------------------------------
(***************************************************************************)
(* The only fault, and the run after it.                                   *)
(***************************************************************************)
\* A process is killed.  What is left in both directories still matches.
LEMMA FreshKill ==
  ASSUME Inv, Order, Fresh, faults = 0, Kill1 \/ Kill2 \/ KillBoth
  PROVE  Fresh'
<1> USE DEF runVars, dirVars, p1Vars, p2Vars
<1>1. /\ NoEarlierFault /\ NoEarlierFault'
      /\ \A d \in Devices : Match(dir, d)
      /\ UNCHANGED <<policy, announced, todo>>
  BY DEF Kill1, Kill2, KillBoth, NoEarlierFault, Fresh, Before
<1>2. CASE Kill1 \/ KillBoth
  <2>1. Interrupted /\ pass1' = "killed" /\ UNCHANGED linked
    BY <1>2 DEF Kill1, KillBoth
  <2>2. CASE UNCHANGED <<dir, prev, prevDir>>
    <3>1. pass2' # "killed" => UNCHANGED <<pass2, pipe, generating>>
      BY <1>2 DEF Kill1, KillBoth
    <3> QED  BY <1>1, <2>1, <2>2, <3>1 
             DEF Fresh, ReusableMatch, Before, After, Handled, Match
  <2>3. CASE pass1 = "move"
    <3>1. prev = NoFiles /\ announced' = {}
      BY <1>1, <2>3 DEF Order, Inv, TypeOK, Printing
    <3>2. ASSUME NEW d \in Devices, NEW e \in {"config", "rules", "code"}
          PROVE  /\ dir'[<<d, e>>] \in {dir[<<d, e>>], Nothing}
                 /\ prev'[<<d, e>>] \in {dir[<<d, e>>], Nothing}
      BY <2>1, <3>1, <3>2 DEF Interrupted, Moved, NoFiles, File
    <3>3. ASSUME NEW d \in Devices  PROVE Match(dir', d) /\ Match(prev', d)
      BY <1>1, <3>2, <3>3, MatchSubset
    <3> QED  BY <1>1, <2>1, <3>1, <3>3 DEF Fresh, ReusableMatch, Before, After, Handled
  <2> QED  BY <2>1, <2>2, <2>3 DEF Interrupted
<1>3. CASE Kill2
  <2>1. UNCHANGED <<dir, pass1>> /\ pass2' = "killed" /\ (pass1 = "compile" => prevDir' = prevDir)
    BY <1>3 DEF Kill2, Order, Ended1
  <2>2. ASSUME NEW d \in Devices, NEW e \in {"config", "rules", "code"}
        PROVE  prev'[<<d, e>>] \in {prev[<<d, e>>], Nothing}
    BY <1>3, <2>2 DEF Kill2, Removed, File
  <2>3. ASSUME NEW d \in Devices, Match(prev, d)  PROVE Match(prev', d)
    BY <2>2, <2>3, MatchSubset
  <2>4. ReusableMatch'
    BY <2>1, <2>3 DEF Fresh, ReusableMatch
  <2>5. Before' /\ After' /\ Handled'
    BY <1>1, <2>1 DEF Fresh, Before, After, Handled, Match
  <2> QED  BY <2>4, <2>5 DEF Fresh
<1> QED  BY <1>2, <1>3

\* Code of this policy, or torn code, is beside the files it has been made from.
LEMMA HandledMatch ==
  ASSUME Inv, Order, Fresh, pass1 \in {"ok", "late"}, pass2 = "ok", NEW d \in Managed(policy)
  PROVE  dir[<<d, "code">>] \in {policy[d], Torn} /\ Match(dir, d)
<1>1. d \in announced \ (pipe \cup generating)
  BY DEF Order
<1>2. dir[<<d, "code">>] \in {policy[d], Torn}
  BY <1>1 DEF Fresh, Handled
<1>3. policy[d] = <<dir[<<d, "config">>], dir[<<d, "rules">>]>>
  BY <1>1, ManagedContent DEF Inv, AnnouncedComplete
<1> QED  BY <1>2, <1>3 DEF Match

\* After a run, with the fault or without, all files of CODE-DIR match.
LEMMA FreshNextRun == Inv /\ Order /\ Fresh /\ NextRun => Fresh'
<1> SUFFICES ASSUME Inv, Order, Fresh, NextRun  PROVE Fresh'
  OBVIOUS
<1> USE DEF runVars, dirVars, p1Vars, p2Vars
<1>1. /\ pass1' = "compile" /\ pass2' = "run" /\ announced' = {}
      /\ UNCHANGED <<dir, prev, prevDir, faults>> /\ Ended1 /\ Ended2
  BY DEF NextRun
<1>2. ASSUME NEW d \in Devices  PROVE Match(dir, d)
  <2>1. CASE NoEarlierFault
    BY <2>1, <1>2 DEF Fresh, Before
  <2>2. CASE ~NoEarlierFault
    <3>1. pass1 \in {"ok", "late", "failed"} /\ pass2 = "ok"
      BY <1>1, <2>2 DEF NoEarlierFault, Ended1, Ended2
    <3> QED  BY <1>2, <2>2, <3>1, HandledMatch DEF Fresh, After
  <2> QED  BY <2>1, <2>2
<1>3. NoEarlierFault' => ~prevDir
  BY <1>1 DEF NoEarlierFault, Order, Ended1, Ended2, Inv, TypeOK
<1> QED  BY <1>1, <1>2, <1>3 DEF Fresh, ReusableMatch, Before, After, Handled, Match

\* Every step keeps the invariant.
LEMMA OneFaultStep == OneFaultInv /\ [Next]_vars => OneFaultInv'
<1> SUFFICES ASSUME OneFaultInv, [Next]_vars  PROVE OneFaultInv'
  OBVIOUS
<1> USE DEF runVars, dirVars, p1Vars, p2Vars
<1>1. Inv /\ Order /\ faults \in Nat /\ Inv'
  BY InvStep DEF OneFaultInv, Inv, TypeOK
<1>2. CASE UNCHANGED vars
  BY <1>1, <1>2 DEF vars, OneFaultInv, Order, Fresh, ReusableMatch, Before, After, Handled,
                    Match, NoEarlierFault, Managed, Ended1
<1>3. CASE Pass1Step
  <2>1. faults' = faults
    BY <1>3 DEF Pass1Step, CompileError, CheckOutputDir, MoveOldFiles, PrintDevice, Announce,
                EndOfPass1, LateError
  <2>2. Order'
    BY <1>1, <1>3, Order1
  <2>3. Fresh => Fresh'
    <3>1. CASE \/ CompileError \/ CheckOutputDir \/ EndOfPass1 \/ LateError
               \/ \E d \in Devices : Announce(d)
      <4>1. UNCHANGED <<policy, dir, prev, prevDir, faults, pass2, generating>>
        BY <3>1 DEF CompileError, CheckOutputDir, EndOfPass1, LateError, Announce
      <4> QED  BY <1>1, <3>1, <4>1, FreshSame
    <3>2. CASE MoveOldFiles
      BY <1>1, <3>2, FreshMove
    <3>3. ASSUME NEW d \in Devices, PrintDevice(d)  PROVE Fresh => Fresh'
      BY <1>1, <3>3, FreshPrint
    <3> QED  BY <1>3, <3>1, <3>2, <3>3 DEF Pass1Step
  <2> QED  BY <1>1, <2>1, <2>2, <2>3 DEF OneFaultInv
<1>4. CASE Pass2Step
  <2>1. faults' = faults
    BY <1>4 DEF Pass2Step, Reuse, Generate, Generated, RemovePrev, EndOfPass2
  <2>2. Order'
    BY <1>1, <1>4, Order2
  <2>3. Fresh => Fresh'
    BY <1>1, <1>4, FreshWork, FreshEnd DEF Pass2Step
  <2> QED  BY <1>1, <2>1, <2>2, <2>3 DEF OneFaultInv
<1>5. CASE Kill1 \/ Kill2 \/ KillBoth
  <2>1. faults' = faults + 1
    BY <1>5 DEF Kill1, Kill2, KillBoth
  <2>2. faults' <= 1 => faults = 0
    BY <1>1, <2>1
  <2>3. Order'
    BY <1>1, <1>5, Order3
  <2>4. faults' <= 1 => Fresh'
    BY <1>1, <1>5, <2>2, FreshKill DEF OneFaultInv
  <2> QED  BY <1>1, <2>3, <2>4 DEF OneFaultInv
<1>6. CASE NextRun
  <2>1. faults' = faults
    BY <1>6 DEF NextRun
  <2>2. Order'
    BY <1>1, <1>6, Order3
  <2> QED  BY <1>1, <1>6, <2>1, <2>2, FreshNextRun DEF OneFaultInv
<1> QED  BY <1>2, <1>3, <1>4, <1>5, <1>6 DEF Next

\* OneFaultInv is an inductive invariant.
THEOREM OneFaultInvariance == Spec => []OneFaultInv
BY OneFaultInit, OneFaultStep, PTL DEF Spec

\* A run that finishes leaves code of its own policy or a torn file, never that
\* of another policy, if at most one process has been killed up to now, wherever
\* it was; for any number of devices and runs.
THEOREM CodeIsNotStale == Spec => []NoStaleCode
<1>1. OneFaultInv => NoStaleCode
  <2> SUFFICES ASSUME OneFaultInv, Finished, faults <= 1, NEW d \in Managed(policy)
               PROVE  CodeOf(policy, d) \/ dir[<<d, "code">>] = Torn
    BY DEF NoStaleCode
  <2> QED  BY HandledMatch DEF OneFaultInv, Finished, CodeOf
<1> QED  BY <1>1, OneFaultInvariance, PTL
=============================================================================
