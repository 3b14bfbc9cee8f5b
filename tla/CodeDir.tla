------------------------------ MODULE CodeDir ------------------------------
(***************************************************************************)
(* The directory CODE-DIR over several runs of "spoc1 --pipe | spoc2       *)
(* --pipe" (checkOutputDir and printCode1 of pass 1, tryPrev, pass2File    *)
(* and pass2 of pass 2).                                                   *)
(*                                                                         *)
(* Pass 1 moves the files of the previous run to the subdirectory .prev,   *)
(* writes <device>.config and <device>.rules and announces the device.     *)
(* Pass 2 then either links the code file from .prev or generates it, and  *)
(* removes .prev when pass 1 has ended.  Both are processes that write     *)
(* files in place and may be killed at any time; the next run works with   *)
(* what it finds.                                                          *)
(*                                                                         *)
(* Pass 1 looks twice for errors: before the rules of services are         *)
(* expanded, and again when all files have been written.  So a policy with *)
(* errors either leaves CODE-DIR alone or replaces all code before the run *)
(* fails.                                                                  *)
(*                                                                         *)
(* Files that do not take part in reuse (<device>.raw, .devlist) are left  *)
(* out.  Any number of workers may be busy; their number is the subject of *)
(* module Pass2Workers.  A worker that compares and links reads only files *)
(* that nobody writes at that time, so this is one step.                   *)
(***************************************************************************)
EXTENDS Naturals

CONSTANTS
  Devices,
  Configs,     \* versions of the content of a .config file
  Rules,       \* versions of the content of a .rules file
  Policies,    \* policies to compile: [Devices -> Configs \X Rules or Nothing]
  Nothing,     \* no such file, or device not part of policy
  Torn,        \* a file that has been opened but not completely written
  MaxRuns,     \* bound: number of runs
  MaxFaults    \* bound: number of times that a process is killed

ASSUME CodeDirAssumption ==
  /\ Policies \subseteq [Devices -> (Configs \X Rules) \cup {Nothing}]
  /\ Nothing # Torn /\ Nothing \notin Policies
  /\ {Nothing, Torn} \cap (Configs \cup Rules \cup (Configs \X Rules)) = {}
  /\ MaxRuns \in Nat /\ MaxFaults \in Nat

File == Devices \X {"config", "rules", "code"}
Content == Configs \cup Rules \cup (Configs \X Rules) \cup {Nothing, Torn}

VARIABLES
  policy,     \* policy that is compiled
  dir,        \* content of the files of CODE-DIR
  prev,       \* content of the files of CODE-DIR/.prev
  prevDir,    \* directory .prev exists
  linked,     \* devices whose code file is the same file in both directories
  pass1,      \* "compile", "move", "print"; "ok", "late", "failed", "killed"
  todo,       \* devices that printCode1 has still to handle
  device,     \* the device whose files it writes
  stage,      \* how far it is: "next", "config", "configDone", "rules", "rulesDone"
  pipe,       \* devices announced and not yet read by pass 2
  generating, \* devices whose code file pass 2 is writing
  pass2,      \* "run", "remove"; "ok", "killed"
  runs, faults,
  announced, regenerated, \* history of this run
  last        \* history: policy of last finished run, or Nothing

dirVars == <<dir, prev, prevDir, linked>>
p1Vars == <<pass1, todo, device, stage, announced>>
p2Vars == <<generating, pass2, regenerated>>
runVars == <<policy, runs, last>>
vars == <<policy, dir, prev, prevDir, linked, pass1, todo, device, stage, pipe, generating,
          pass2, runs, faults, announced, regenerated, last>>

NoFiles == [f \in File |-> Nothing]
Managed(p) == {d \in Devices : p[d] # Nothing}

Init ==
  /\ policy \in Policies
  /\ dir = NoFiles
  /\ prev = NoFiles
  /\ prevDir = FALSE
  /\ linked = {}
  /\ pass1 = "compile" /\ todo = {} /\ device = Nothing /\ stage = "next"
  /\ pipe = {} /\ generating = {} /\ pass2 = "run"
  /\ runs = 1 /\ faults = 0
  /\ announced = {} /\ regenerated = {}
  /\ last = Nothing

Ended1 == pass1 \in {"ok", "late", "failed", "killed"}
Ended2 == pass2 \in {"ok", "killed"}
Success == pass1 = "ok" /\ pass2 = "ok"
\* Pass 1 has printed all devices, with or without errors, and pass 2 has
\* handled them.
Finished == pass1 \in {"ok", "late"} /\ pass2 = "ok"

-----------------------------------------------------------------------------
(***************************************************************************)
(* Pass 1.                                                                 *)
(***************************************************************************)
\* Errors that are found by a stopOnErr in front of printCode, or that reach
\* max_errors before it: CODE-DIR is not touched.
CompileError ==
  /\ pass1 = "compile"
  /\ pass1' = "failed"
  /\ UNCHANGED <<runVars, dirVars, todo, device, stage, pipe, p2Vars, faults, announced>>

\* Mutant of CheckOutputDir: old files stay where they are.
KeepOldFiles ==
  /\ pass1 = "compile"
  /\ pass1' = "print"
  /\ todo' = Managed(policy)
  /\ UNCHANGED <<runVars, dirVars, device, stage, pipe, p2Vars, faults, announced>>

\* checkOutputDir: old files are moved only if .prev does not exist.
CheckOutputDir ==
  /\ pass1 = "compile"
  /\ pass1' = IF prevDir \/ dir = NoFiles THEN "print" ELSE "move"
  /\ todo' = Managed(policy)
  /\ UNCHANGED <<runVars, dirVars, device, stage, pipe, p2Vars, faults, announced>>

\* Files of set M are renamed into .prev.
Moved(M) ==
  /\ prev' = [f \in File |-> IF f \in M THEN dir[f] ELSE prev[f]]
  /\ dir' = [f \in File |-> IF f \in M THEN Nothing ELSE dir[f]]

\* Mutant of MoveOldFiles: old files are removed, not moved.
RemoveOldFiles ==
  /\ pass1 = "move"
  /\ pass1' = "print"
  /\ prevDir' = TRUE
  /\ dir' = NoFiles
  /\ UNCHANGED <<runVars, prev, linked, todo, device, stage, pipe, p2Vars, faults, announced>>

\* Mutant of MoveOldFiles: mv without mkdir.
MoveWithoutMkdir ==
  /\ pass1 = "move"
  /\ pass1' = "print"
  /\ Moved(File)
  /\ UNCHANGED <<runVars, prevDir, linked, todo, device, stage, pipe, p2Vars, faults, announced>>

\* mkdir .prev and mv.
MoveOldFiles ==
  /\ pass1 = "move"
  /\ pass1' = "print"
  /\ prevDir' = TRUE
  /\ Moved(File)
  /\ UNCHANGED <<runVars, linked, todo, device, stage, pipe, p2Vars, faults, announced>>

\* printCode1: the two files of a device are created, which truncates an
\* existing file, written and closed one after the other.
PrintFile(d, e, content, s) ==
  /\ dir' = [dir EXCEPT ![<<d, e>>] = content]
  /\ device' = d
  /\ stage' = s

PrintDevice(d) ==
  /\ pass1 = "print"
  /\ \/ /\ stage = "next"
        /\ d \in todo
        /\ PrintFile(d, "config", Torn, "config")
     \/ /\ d = device
        /\ \/ stage = "config" /\ PrintFile(d, "config", policy[d][1], "configDone")
           \/ stage = "configDone" /\ PrintFile(d, "rules", Torn, "rules")
           \/ stage = "rules" /\ PrintFile(d, "rules", policy[d][2], "rulesDone")
  /\ UNCHANGED <<runVars, prev, prevDir, linked, pass1, todo, pipe, p2Vars, faults,
                 announced>>

\* Mutant of Printed: .rules need not have been written.
PrintedConfig(d) == d = device /\ stage = "configDone"

\* Both files are complete, the name can be sent to pass 2.
Printed(d) == d = device /\ stage = "rulesDone"

\* A write to a pipe without reader ends the process.
Announce(d) ==
  /\ pass1 = "print"
  /\ Printed(d)
  /\ stage' = "next"
  /\ IF Ended2
       THEN pass1' = "killed" /\ UNCHANGED <<todo, pipe, announced>>
       ELSE /\ todo' = todo \ {d}
            /\ pipe' = pipe \cup {d}
            /\ announced' = announced \cup {d}
            /\ UNCHANGED pass1
  /\ UNCHANGED <<runVars, dirVars, device, p2Vars, faults>>

EndOfPass1 ==
  /\ pass1 = "print"
  /\ stage = "next"
  /\ todo = {}
  /\ pass1' = "ok"
  /\ UNCHANGED <<runVars, dirVars, todo, device, stage, pipe, p2Vars, faults, announced>>

\* Errors after the first stopOnErr, in owners, rules, NAT or routes, end the
\* program only here, when all devices have been printed.
LateError ==
  /\ pass1 = "print"
  /\ stage = "next"
  /\ todo = {}
  /\ pass1' = "late"
  /\ UNCHANGED <<runVars, dirVars, todo, device, stage, pipe, p2Vars, faults, announced>>

Pass1Step ==
  \/ CompileError
  \/ CheckOutputDir
  \/ MoveOldFiles
  \/ \E d \in Devices : PrintDevice(d) \/ Announce(d)
  \/ EndOfPass1
  \/ LateError

-----------------------------------------------------------------------------
(***************************************************************************)
(* Pass 2.                                                                 *)
(***************************************************************************)
\* Mutant of Unchanged: file .rules is not compared.
UnchangedConfig(d) ==
  /\ prev[<<d, "config">>] # Nothing
  /\ dir[<<d, "config">>] = prev[<<d, "config">>]

\* cmp of .config and .rules.
Unchanged(d) ==
  \A e \in {"config", "rules"} :
    /\ prev[<<d, e>>] # Nothing
    /\ dir[<<d, e>>] = prev[<<d, e>>]

\* tryPrev succeeds.  os.Link fails if the code file already exists.
Reusable(d) ==
  /\ prevDir
  /\ prev[<<d, "code">>] # Nothing
  /\ Unchanged(d)
  /\ dir[<<d, "code">>] = Nothing

Reuse(d) ==
  /\ pass2 = "run"
  /\ d \in pipe
  /\ Reusable(d)
  /\ pipe' = pipe \ {d}
  /\ dir' = [dir EXCEPT ![<<d, "code">>] = prev[<<d, "code">>]]
  /\ linked' = linked \cup {d}
  /\ UNCHANGED <<runVars, prev, prevDir, p1Vars, p2Vars, faults>>

\* The content of code file d; a linked file changes in .prev as well.
Write(d, content) ==
  /\ dir' = [dir EXCEPT ![<<d, "code">>] = content]
  /\ prev' = IF d \in linked THEN [prev EXCEPT ![<<d, "code">>] = content] ELSE prev

\* os.Create in printCombined.
Generate(d) ==
  /\ pass2 = "run"
  /\ d \in pipe
  /\ ~Reusable(d)
  /\ pipe' = pipe \ {d}
  /\ generating' = generating \cup {d}
  /\ regenerated' = regenerated \cup {d}
  /\ Write(d, Torn)
  /\ UNCHANGED <<runVars, prevDir, linked, p1Vars, pass2, faults>>

\* The code has been computed from the files of pass 1 and is complete.
Generated(d) ==
  /\ pass2 = "run"
  /\ d \in generating
  /\ generating' = generating \ {d}
  /\ Write(d, <<dir[<<d, "config">>], dir[<<d, "rules">>]>>)
  /\ UNCHANGED <<runVars, prevDir, linked, p1Vars, pipe, pass2, regenerated, faults>>

\* End of file is read, whatever ended pass 1, and all workers are finished.
RemovePrev ==
  /\ pass2 = "run"
  /\ Ended1
  /\ pipe = {} /\ generating = {}
  /\ pass2' = "remove"
  /\ UNCHANGED <<runVars, dirVars, p1Vars, pipe, generating, regenerated, faults>>

\* Entries K of .prev are left.
Removed(K, dirLeft) ==
  /\ prev' = [f \in File |-> IF f \in K THEN prev[f] ELSE Nothing]
  /\ linked' = {d \in linked : <<d, "code">> \in K}
  /\ prevDir' = dirLeft

EndOfPass2 ==
  /\ pass2 = "remove"
  /\ pass2' = "ok"
  /\ Removed({}, FALSE)
  /\ UNCHANGED <<runVars, dir, p1Vars, pipe, generating, regenerated, faults>>

Pass2Step ==
  \/ \E d \in Devices : Reuse(d) \/ Generate(d) \/ Generated(d)
  \/ RemovePrev
  \/ EndOfPass2

-----------------------------------------------------------------------------
(***************************************************************************)
(* Faults.  A process is killed, or fails because the disk is full, or     *)
(* pass 1 reaches max_errors while it already writes files, because the    *)
(* messages are counted by another goroutine.  mv and RemoveAll may have   *)
(* done a part of their work.                                              *)
(***************************************************************************)
\* Files that mv, if it is active, has moved so far.
Interrupted ==
  \/ UNCHANGED <<dir, prev, prevDir>>
  \/ /\ pass1 = "move"
     /\ prevDir' = TRUE
     /\ \E M \in SUBSET {f \in File : dir[f] # Nothing} : Moved(M)

Kill1 ==
  /\ ~Ended1
  /\ pass1' = "killed"
  /\ Interrupted
  /\ faults < MaxFaults
  /\ faults' = faults + 1
  /\ UNCHANGED <<runVars, linked, todo, device, stage, pipe, p2Vars, announced>>

Kill2 ==
  /\ ~Ended2
  /\ pass2' = "killed"
  /\ IF pass2 = "remove" /\ prevDir
       THEN \E K \in SUBSET {f \in File : prev[f] # Nothing} : Removed(K, TRUE)
       ELSE UNCHANGED <<prev, prevDir, linked>>
  /\ pipe' = {}
  /\ generating' = {}
  /\ faults < MaxFaults
  /\ faults' = faults + 1
  /\ UNCHANGED <<runVars, dir, p1Vars, regenerated>>

\* Both at once: the user interrupts the command.
KillBoth ==
  /\ ~Ended1 /\ ~Ended2
  /\ pass1' = "killed"
  /\ pass2' = "killed"
  /\ Interrupted
  /\ pipe' = {}
  /\ generating' = {}
  /\ faults < MaxFaults
  /\ faults' = faults + 1
  /\ UNCHANGED <<runVars, linked, todo, device, stage, regenerated, announced>>

\* The command is started again, with the same policy or another one.
NextRun ==
  /\ Ended1 /\ Ended2
  /\ runs < MaxRuns
  /\ runs' = runs + 1
  /\ policy' \in Policies
  /\ last' = IF Finished THEN policy ELSE last
  /\ pass1' = "compile" /\ todo' = {} /\ device' = Nothing /\ stage' = "next"
  /\ pipe' = {} /\ generating' = {} /\ pass2' = "run"
  /\ announced' = {} /\ regenerated' = {}
  /\ UNCHANGED <<dirVars, faults>>

Next == Pass1Step \/ Pass2Step \/ Kill1 \/ Kill2 \/ KillBoth \/ NextRun

Spec == Init /\ [][Next]_vars

-----------------------------------------------------------------------------
(***************************************************************************)
(* Properties.                                                             *)
(***************************************************************************)
\* Types of the variables; .prev has files only if it exists.
TypeOK ==
  /\ policy \in Policies
  /\ dir \in [File -> Content]
  /\ prev \in [File -> Content]
  /\ prevDir \in BOOLEAN
  /\ ~prevDir => prev = NoFiles /\ linked = {}
  /\ linked \in SUBSET Devices
  /\ pass1 \in {"compile", "move", "print", "ok", "late", "failed", "killed"}
  /\ todo \in SUBSET Devices
  /\ device \in Devices \cup {Nothing}
  /\ stage \in {"next", "config", "configDone", "rules", "rulesDone"}
  /\ pipe \in SUBSET Devices
  /\ generating \in SUBSET Devices
  /\ pass2 \in {"run", "remove", "ok", "killed"}
  /\ runs \in Nat /\ faults \in Nat
  /\ announced \in SUBSET Devices
  /\ regenerated \in SUBSET Devices
  /\ last \in Policies \cup {Nothing}

\* When pass 2 reads the name of a device, both intermediate files are there,
\* complete and those of the policy compiled now, and stay so, whatever has been
\* killed before.
AnnouncedComplete ==
  \A d \in announced :
    /\ d \in Managed(policy)
    /\ dir[<<d, "config">>] = policy[d][1]
    /\ dir[<<d, "rules">>] = policy[d][2]

\* The code files of CODE-DIR are those of the policy.
CodeOf(p, d) == dir[<<d, "code">>] = p[d]

\* Without faults a run that finishes leaves exactly the files of its policy, even
\* if it reports errors; a run that is stopped by an error before it touches
\* CODE-DIR leaves the code of the last finished run.
SuccessCurrent ==
  faults = 0 =>
    /\ Finished => /\ ~prevDir
                   /\ \A d \in Devices : CodeOf(policy, d)
                   /\ \A d \in Devices \ Managed(policy), e \in {"config", "rules"} :
                        dir[<<d, e>>] = Nothing
    /\ pass1 \in {"compile", "failed"} /\ last # Nothing =>
         \A d \in Devices : CodeOf(last, d)

\* Code is generated only for devices that differ from the last finished run.
\* A run with late errors counts: it has replaced the code, and a device which
\* only that run has changed is generated again by the next one.
OnlyChanged ==
  faults = 0 /\ last # Nothing =>
    \A d \in regenerated : policy[d] # last[d]

\* After one fault, code reused by a run that finishes is never that of another
\* policy; but it may be torn, see CodeCurrent.
NoStaleCode ==
  Finished /\ faults <= 1 =>
    \A d \in Managed(policy) : CodeOf(policy, d) \/ dir[<<d, "code">>] = Torn

\* The code of all devices as a user of CODE-DIR sees it between two runs.
StoreMode ==
  CASE faults > 0 -> "unknown"
    [] faults = 0 /\ (pass1 \in {"compile", "failed"} \/ Finished) -> "stable"
    [] OTHER -> "busy"

StoreCode ==
  [d \in Devices |-> IF StoreMode = "stable" THEN dir[<<d, "code">>] ELSE Nothing]

Store == INSTANCE CodeStore WITH wanted <- policy, mode <- StoreMode, code <- StoreCode

\* Without faults the two processes, with all their writing, moving and linking
\* of single files, replace the code of all devices at once: when a run ends, the
\* code is that of the policy compiled or, after an early error, still that of the
\* run before.  With late errors it is that of the policy with errors, never a mix.
ReplacesAtOnce == Store!Spec

\* Changes:904-905 says of pass 2 that it "reuses code files from previous
\* compiler run, if intermediate code hasn't changed": the result is the code
\* that belongs to the intermediate code.  The code violates this: the previous
\* run may have been interrupted while it wrote the code file.
CodeCurrent == Success => \A d \in Managed(policy) : CodeOf(policy, d)
=============================================================================
