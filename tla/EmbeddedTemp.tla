---------------------------- MODULE EmbeddedTemp ----------------------------
(***************************************************************************)
(* The commands written !NAME! (runtime/command.c): an interpreter copies   *)
(* the embedded binary to a file of its own, has a shell run it, waits, and *)
(* deletes the file. The files of all the interpreters whose scripts lie in *)
(* one directory are in its .infernal_tmp, which every one of them sweeps   *)
(* and removes when it ends; a file that cannot be made there goes to       *)
(* TMPDIR or /tmp. An interpreter may be killed at any moment, and the      *)
(* builtin exit() ends it without the sweep. A process has at most one file *)
(* at a time, so files are named by their process; the commands of Infernal *)
(* that run no embedded binary leave these files alone and are left out.    *)
(***************************************************************************)
EXTENDS Naturals, FiniteSets

CONSTANTS
  Process,      \* the interpreters whose scripts share a directory
  MaxCommands   \* bound: embedded commands a script runs

ASSUME EmbeddedBounds == MaxCommands \in Nat

VARIABLES
  pc,           \* where each interpreter is
  result,       \* how its last embedded command went
  commands,     \* embedded commands it has run
  dir,          \* .infernal_tmp exists
  work,         \* whose file is in .infernal_tmp
  tmp,          \* whose file is in TMPDIR or /tmp
  listing,      \* who has .infernal_tmp, the present one, open to sweep it
  todo          \* per sweep, the files its listing has still to return

disk == <<dir, work, tmp>>
sweeps == <<listing, todo>>
vars == <<pc, result, commands, disk, sweeps>>

Goto(p, label) == pc' = [pc EXCEPT ![p] = label]
HasFile(p) == p \in work \/ p \in tmp

Delete(p) ==
  /\ work' = work \ {p}
  /\ tmp' = tmp \ {p}
  /\ UNCHANGED dir

(* The command returns to the script, which may catch its error.            *)
Return(p, how) ==
  /\ Goto(p, "script")
  /\ result' = [result EXCEPT ![p] = how]
  /\ UNCHANGED <<commands, sweeps>>

-----------------------------------------------------------------------------
(* One embedded command.                                                    *)

Command(p) ==
  /\ pc[p] = "script"
  /\ commands[p] < MaxCommands
  /\ commands' = [commands EXCEPT ![p] = @ + 1]
  /\ Goto(p, "mkdir")
  /\ UNCHANGED <<result, disk, sweeps>>

(* A directory that is already there will do.                               *)
MakeDir(p) ==
  /\ pc[p] = "mkdir"
  /\ Goto(p, "mkstemp")
  /\ dir' = TRUE
  /\ UNCHANGED <<result, commands, work, tmp, sweeps>>

(* The script's directory cannot be written to.                             *)
CannotMakeDir(p) ==
  /\ pc[p] = "mkdir"
  /\ ~dir
  /\ Goto(p, "fallback")
  /\ UNCHANGED <<result, commands, disk, sweeps>>

(* The name is new: a sweep that has begun may or may not return it.        *)
MakeFile(p) ==
  /\ pc[p] = "mkstemp"
  /\ IF dir THEN /\ Goto(p, "write")
                 /\ work' = work \cup {p}
                 /\ todo' = [q \in Process |-> todo[q] \ {p}]
     ELSE Goto(p, "fallback") /\ UNCHANGED <<work, todo>>
  /\ UNCHANGED <<result, commands, dir, tmp, listing>>

FallBack(p) ==
  /\ pc[p] = "fallback"
  /\ Goto(p, "write")
  /\ tmp' = tmp \cup {p}
  /\ UNCHANGED <<result, commands, dir, work, sweeps>>

NoFile(p) ==
  /\ pc[p] = "fallback"
  /\ Return(p, "failed")
  /\ UNCHANGED disk

(* The descriptor is good even if the file has been deleted.                *)
Write(p) ==
  /\ pc[p] = "write"
  /\ Goto(p, "realpath")
  /\ UNCHANGED <<result, commands, disk, sweeps>>

WriteFails(p) ==
  /\ pc[p] = "write"
  /\ Delete(p)
  /\ Return(p, "failed")

FindPath(p) ==
  /\ pc[p] = "realpath"
  /\ HasFile(p)
  /\ Goto(p, "fork")
  /\ UNCHANGED <<result, commands, disk, sweeps>>

PathLost(p) ==
  /\ pc[p] = "realpath"
  /\ ~HasFile(p)
  /\ Delete(p)
  /\ Return(p, "lost")

(* Mutant: the file is deleted as soon as the child is started.             *)
Fork_unlinks(p) ==
  /\ pc[p] = "fork"
  /\ Goto(p, "exec")
  /\ Delete(p)
  /\ UNCHANGED <<result, commands, sweeps>>

Fork(p) ==
  /\ pc[p] = "fork"
  /\ Goto(p, "exec")
  /\ UNCHANGED <<result, commands, disk, sweeps>>

(* Mutant: the file is left behind when no process can be started.          *)
ForkFails_leaves(p) ==
  /\ pc[p] = "fork"
  /\ Return(p, "failed")
  /\ UNCHANGED disk

ForkFails(p) ==
  /\ pc[p] = "fork"
  /\ Delete(p)
  /\ Return(p, "failed")

(* The shell looks for the file: 127 if it is not there.                    *)
Exec(p) ==
  /\ pc[p] = "exec"
  /\ Goto(p, IF HasFile(p) THEN "ran" ELSE "not found")
  /\ UNCHANGED <<result, commands, disk, sweeps>>

(* The child has ended; the file is deleted whatever its exit code.         *)
Wait(p) ==
  /\ pc[p] \in {"ran", "not found"}
  /\ Delete(p)
  /\ Return(p, IF pc[p] = "ran" THEN "ran" ELSE "lost")

-----------------------------------------------------------------------------
(* The end of an interpreter.                                               *)

(* Mutant: no sweep after an uncaught error.                                *)
End_unswept(p) ==
  /\ pc[p] = "script"
  /\ \E label \in {"opendir", "ended"} : Goto(p, label)
  /\ UNCHANGED <<result, commands, disk, sweeps>>

(* The script is over or an error was not caught.                           *)
End(p) ==
  /\ pc[p] = "script"
  /\ Goto(p, "opendir")
  /\ UNCHANGED <<result, commands, disk, sweeps>>

OpenDir(p) ==
  /\ pc[p] = "opendir"
  /\ IF dir THEN /\ Goto(p, "sweep")
                 /\ listing' = listing \cup {p}
                 /\ todo' = [todo EXCEPT ![p] = work]
     ELSE Goto(p, "ended") /\ UNCHANGED sweeps
  /\ UNCHANGED <<result, commands, disk>>

(* Whoever the file belongs to, and whatever it is doing with it.           *)
Sweep(p) ==
  /\ pc[p] = "sweep"
  /\ p \in listing
  /\ \E q \in work : work' = work \ {q}
  /\ UNCHANGED <<pc, result, commands, dir, tmp, sweeps>>

(* Mutant: one file is looked at.                                           *)
Swept_first(p) ==
  /\ pc[p] = "sweep"
  /\ todo[p] \subseteq work => todo[p] = {}
  /\ Goto(p, "rmdir")
  /\ listing' = listing \ {p}
  /\ todo' = [todo EXCEPT ![p] = {}]
  /\ UNCHANGED <<result, commands, disk>>

Swept(p) ==
  /\ pc[p] = "sweep"
  /\ todo[p] \cap work = {}
  /\ Goto(p, "rmdir")
  /\ listing' = listing \ {p}
  /\ todo' = [todo EXCEPT ![p] = {}]
  /\ UNCHANGED <<result, commands, disk>>

(* A directory that is not empty stays; one removed is not listed further.  *)
RemoveDir(p) ==
  /\ pc[p] = "rmdir"
  /\ Goto(p, "ended")
  /\ dir' = (dir /\ work # {})
  /\ listing' = IF dir' THEN listing ELSE {}
  /\ UNCHANGED <<result, commands, work, tmp, todo>>

(* exit().                                                                  *)
Exit(p) ==
  /\ pc[p] = "script"
  /\ Goto(p, "exited")
  /\ UNCHANGED <<result, commands, disk, sweeps>>

Kill(p) ==
  /\ pc[p] \notin {"ended", "exited", "killed"}
  /\ Goto(p, "killed")
  /\ listing' = listing \ {p}
  /\ todo' = [todo EXCEPT ![p] = {}]
  /\ UNCHANGED <<result, commands, disk>>

-----------------------------------------------------------------------------
Init ==
  /\ pc = [p \in Process |-> "script"]
  /\ result = [p \in Process |-> "none"]
  /\ commands = [p \in Process |-> 0]
  /\ dir = FALSE
  /\ work = {} /\ tmp = {}
  /\ listing = {} /\ todo = [p \in Process |-> {}]

Prepare(p) == MakeDir(p) \/ CannotMakeDir(p) \/ MakeFile(p) \/ FallBack(p)
              \/ NoFile(p) \/ Write(p) \/ WriteFails(p) \/ FindPath(p)
              \/ PathLost(p)
Run(p) == Fork(p) \/ ForkFails(p) \/ Exec(p) \/ Wait(p)
Cleanup(p) == OpenDir(p) \/ Sweep(p) \/ Swept(p) \/ RemoveDir(p)

Step(p) == Command(p) \/ Prepare(p) \/ Run(p) \/ End(p) \/ Cleanup(p)
           \/ Exit(p) \/ Kill(p)

Next == \E p \in Process : Step(p)
Spec == Init /\ [][Next]_vars

(* An interpreter that has begun to sweep goes on: it waits for nothing.    *)
FairSpec == Spec /\ \A p \in Process : WF_vars(Cleanup(p))

-----------------------------------------------------------------------------
(* Properties.                                                              *)

InCommand == {"write", "realpath", "fork", "exec", "ran", "not found"}
Label == InCommand \cup {"script", "mkdir", "mkstemp", "fallback", "opendir",
                         "sweep", "rmdir", "ended", "exited", "killed"}

(* No file is in a directory that does not exist, or in both; only an       *)
(* existing directory is listed.                                            *)
TypeOK ==
  /\ pc \in [Process -> Label]
  /\ result \in [Process -> {"none", "ran", "failed", "lost"}]
  /\ commands \in [Process -> 0..MaxCommands]
  /\ dir \in BOOLEAN
  /\ work \subseteq Process /\ tmp \subseteq Process /\ work \cap tmp = {}
  /\ work # {} => dir
  /\ listing \subseteq {p \in Process : pc[p] = "sweep"}
  /\ listing # {} => dir
  /\ todo \in [Process -> SUBSET Process]

(* Every way out of a command deletes its file: one that exists belongs to  *)
(* a command in progress, or to an interpreter that was killed.             *)
NoLitter ==
  \A p \in Process : HasFile(p) => pc[p] \in InCommand \cup {"killed"}

(* The last interpreter of a directory to end removes .infernal_tmp, in     *)
(* whatever order they sweep it, make it again and fail to remove it.       *)
DirRemoved == (\A p \in Process : pc[p] = "ended") => ~dir

(* A binary that was written is not found by the shell only if another      *)
(* interpreter has ended, or is about to.                                   *)
LostToSweep ==
  \A p \in Process :
    pc[p] = "not found" \/ result[p] = "lost" =>
      \E q \in Process \ {p} :
        pc[q] \in {"sweep", "rmdir", "ended", "killed"}

(* What a killed interpreter leaves in .infernal_tmp does not stay: the     *)
(* sweep of any interpreter that ends after it takes it away.               *)
KilledSwept ==
  \A p, q \in Process :
    pc[p] = "killed" /\ p \in work /\ pc[q] = "opendir"
      ~> p \notin work \/ pc[q] = "killed"
=============================================================================
