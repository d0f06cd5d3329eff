------------------------- MODULE EmbeddedTempProofs -------------------------
(***************************************************************************)
(* For any number of interpreters and of commands: no file is left behind   *)
(* by an interpreter that was not killed, and .infernal_tmp does not outlive *)
(* the last of them.                                                        *)
(***************************************************************************)
EXTENDS EmbeddedTemp, TLAPS

(* Why the directory goes: while it exists somebody has not ended. The last *)
(* to remove it finds it empty, for a file in it would be another's.        *)
DirWatched == dir => \E p \in Process : pc[p] # "ended"

-----------------------------------------------------------------------------
(* Types.                                                                   *)

LEMMA TypeInit == Init => TypeOK
  <1> SUFFICES ASSUME Init PROVE TypeOK
    OBVIOUS
  <1>1. 0 \in 0..MaxCommands
    BY EmbeddedBounds
  <1>2. commands \in [Process -> 0..MaxCommands]
    BY <1>1 DEF Init
  <1>3. /\ pc \in [Process -> Label]
        /\ result \in [Process -> {"none", "ran", "failed", "lost"}]
    BY DEF Init, Label, InCommand
  <1>4. QED
    BY <1>2, <1>3 DEF Init, TypeOK

(* The counter of commands stays under its bound.                           *)
LEMMA Counted ==
  ASSUME NEW p \in Process, TypeOK, Command(p)
  PROVE  commands' \in [Process -> 0..MaxCommands]
  <1>1. commands[p] \in 0..MaxCommands /\ commands[p] < MaxCommands
    BY DEF TypeOK, Command
  <1>2. commands[p] + 1 \in 0..MaxCommands
    BY <1>1, EmbeddedBounds
  <1>3. QED
    BY <1>2 DEF TypeOK, Command

LEMMA TypeStep ==
  ASSUME NEW p \in Process, TypeOK, NoLitter, Step(p)
  PROVE  TypeOK'
  <1>1. CASE Command(p)
    BY <1>1, Counted
        DEF Command, Goto, disk, sweeps, TypeOK, Label, InCommand
  <1>2. CASE MakeDir(p)
    BY <1>2
        DEF MakeDir, Goto, sweeps, TypeOK, Label, InCommand
  <1>3. CASE CannotMakeDir(p)
    BY <1>3
        DEF CannotMakeDir, Goto, disk, sweeps, TypeOK, Label, InCommand
  <1>4. CASE MakeFile(p)
    <2>1. p \notin tmp
      BY <1>4 DEF MakeFile, NoLitter, HasFile, InCommand
    <2>2. CASE dir
      <3>1. /\ pc' = [pc EXCEPT ![p] = "write"] /\ pc[p] = "mkstemp"
            /\ work' = work \cup {p}
            /\ UNCHANGED <<result, commands, dir, tmp, listing>>
        BY <1>4, <2>2 DEF MakeFile, Goto
      <3>2. pc' \in [Process -> Label]
        BY <3>1 DEF TypeOK, Label, InCommand
      <3>3. todo' \in [Process -> SUBSET Process]
        BY <1>4, <2>2 DEF MakeFile, TypeOK
      <3>4. listing' \subseteq {q \in Process : pc'[q] = "sweep"}
        BY <3>1 DEF TypeOK
      <3>5. QED
        BY <2>1, <2>2, <3>1, <3>2, <3>3, <3>4 DEF TypeOK
    <2>3. CASE ~dir
      BY <1>4, <2>3 DEF MakeFile, Goto, TypeOK, Label
    <2>4. QED
      BY <2>2, <2>3
  <1>5. CASE FallBack(p)
    <2>1. p \notin work
      BY <1>5 DEF FallBack, NoLitter, HasFile, InCommand
    <2>2. QED
      BY <1>5, <2>1 DEF FallBack, Goto, sweeps, TypeOK, Label, InCommand
  <1>6. CASE NoFile(p)
    BY <1>6
        DEF NoFile, Goto, Return, disk, sweeps, TypeOK, Label, InCommand
  <1>7. CASE Write(p)
    BY <1>7
        DEF Write, Goto, disk, sweeps, TypeOK, Label, InCommand
  <1>8. CASE WriteFails(p)
    BY <1>8
        DEF WriteFails, Goto, Return, Delete, sweeps, TypeOK, Label,
            InCommand
  <1>9. CASE FindPath(p)
    BY <1>9
        DEF FindPath, Goto, HasFile, disk, sweeps, TypeOK, Label, InCommand
  <1>10. CASE PathLost(p)
    BY <1>10
        DEF PathLost, Goto, Return, Delete, HasFile, sweeps, TypeOK, Label,
            InCommand
  <1>11. CASE Fork(p)
    BY <1>11
        DEF Fork, Goto, disk, sweeps, TypeOK, Label, InCommand
  <1>12. CASE ForkFails(p)
    BY <1>12
        DEF ForkFails, Goto, Return, Delete, sweeps, TypeOK, Label, InCommand
  <1>13. CASE Exec(p)
    BY <1>13
        DEF Exec, Goto, HasFile, disk, sweeps, TypeOK, Label, InCommand
  <1>14. CASE Wait(p)
    BY <1>14
        DEF Wait, Goto, Return, Delete, sweeps, TypeOK, Label, InCommand
  <1>15. CASE End(p)
    BY <1>15
        DEF End, Goto, disk, sweeps, TypeOK, Label, InCommand
  <1>16. CASE OpenDir(p)
    <2>1. CASE dir
      BY <1>16, <2>1 DEF OpenDir, Goto, disk, TypeOK, Label
    <2>2. CASE ~dir
      BY <1>16, <2>2 DEF OpenDir, Goto, disk, sweeps, TypeOK, Label
    <2>3. QED
      BY <2>1, <2>2
  <1>17. CASE Sweep(p)
    BY <1>17
        DEF Sweep, sweeps, TypeOK, Label, InCommand
  <1>18. CASE Swept(p)
    BY <1>18
        DEF Swept, Goto, disk, TypeOK, Label, InCommand
  <1>19. CASE RemoveDir(p)
    BY <1>19
        DEF RemoveDir, Goto, TypeOK, Label, InCommand
  <1>20. CASE Exit(p)
    BY <1>20
        DEF Exit, Goto, disk, sweeps, TypeOK, Label, InCommand
  <1>21. CASE Kill(p)
    BY <1>21
        DEF Kill, Goto, disk, TypeOK, Label, InCommand
  <1>22. QED
    BY <1>1, <1>2, <1>3, <1>4, <1>5, <1>6, <1>7, <1>8, <1>9, <1>10, <1>11,
        <1>12, <1>13, <1>14, <1>15, <1>16, <1>17, <1>18, <1>19, <1>20, <1>21
    DEF Step, Prepare, Run, Cleanup

-----------------------------------------------------------------------------
(* Files.                                                                   *)

LEMMA LitterStep ==
  ASSUME NEW p \in Process, TypeOK, NoLitter, Step(p)
  PROVE  NoLitter'
  <1>1. CASE Command(p)
    BY <1>1
        DEF Command, Goto, disk, sweeps, TypeOK, NoLitter, HasFile, InCommand
  <1>2. CASE MakeDir(p)
    BY <1>2
        DEF MakeDir, Goto, sweeps, TypeOK, NoLitter, HasFile, InCommand
  <1>3. CASE CannotMakeDir(p)
    BY <1>3
        DEF CannotMakeDir, Goto, disk, sweeps, TypeOK, NoLitter, HasFile,
            InCommand
  <1>4. CASE MakeFile(p)
    <2>1. work' \subseteq work \cup {p} /\ tmp' = tmp
      BY <1>4 DEF MakeFile
    <2>2. CASE dir
      <3>1. pc'[p] = "write" /\ \A q \in Process \ {p} : pc'[q] = pc[q]
        BY <1>4, <2>2 DEF MakeFile, Goto, TypeOK
      <3>2. QED
        BY <2>1, <3>1 DEF NoLitter, HasFile, InCommand
    <2>3. CASE ~dir
      BY <1>4, <2>3 DEF MakeFile, Goto, TypeOK, NoLitter, HasFile, InCommand
    <2>4. QED
      BY <2>2, <2>3
  <1>5. CASE FallBack(p)
    BY <1>5
        DEF FallBack, Goto, sweeps, TypeOK, NoLitter, HasFile, InCommand
  <1>6. CASE NoFile(p)
    BY <1>6
        DEF NoFile, Goto, Return, disk, sweeps, TypeOK, NoLitter, HasFile,
            InCommand
  <1>7. CASE Write(p)
    BY <1>7
        DEF Write, Goto, disk, sweeps, TypeOK, NoLitter, HasFile, InCommand
  <1>8. CASE WriteFails(p)
    BY <1>8
        DEF WriteFails, Goto, Return, Delete, sweeps, TypeOK, NoLitter,
            HasFile, InCommand
  <1>9. CASE FindPath(p)
    BY <1>9
        DEF FindPath, Goto, HasFile, disk, sweeps, TypeOK, NoLitter,
            InCommand
  <1>10. CASE PathLost(p)
    BY <1>10
        DEF PathLost, Goto, Return, Delete, HasFile, sweeps, TypeOK,
            NoLitter, InCommand
  <1>11. CASE Fork(p)
    BY <1>11
        DEF Fork, Goto, disk, sweeps, TypeOK, NoLitter, HasFile, InCommand
  <1>12. CASE ForkFails(p)
    BY <1>12
        DEF ForkFails, Goto, Return, Delete, sweeps, TypeOK, NoLitter,
            HasFile, InCommand
  <1>13. CASE Exec(p)
    BY <1>13
        DEF Exec, Goto, HasFile, disk, sweeps, TypeOK, NoLitter, InCommand
  <1>14. CASE Wait(p)
    BY <1>14
        DEF Wait, Goto, Return, Delete, sweeps, TypeOK, NoLitter, HasFile,
            InCommand
  <1>15. CASE End(p)
    BY <1>15
        DEF End, Goto, disk, sweeps, TypeOK, NoLitter, HasFile, InCommand
  <1>16. CASE OpenDir(p)
    BY <1>16
        DEF OpenDir, Goto, disk, sweeps, TypeOK, NoLitter, HasFile, InCommand
  <1>17. CASE Sweep(p)
    BY <1>17
        DEF Sweep, sweeps, TypeOK, NoLitter, HasFile, InCommand
  <1>18. CASE Swept(p)
    BY <1>18
        DEF Swept, Goto, disk, TypeOK, NoLitter, HasFile, InCommand
  <1>19. CASE RemoveDir(p)
    BY <1>19
        DEF RemoveDir, Goto, TypeOK, NoLitter, HasFile, InCommand
  <1>20. CASE Exit(p)
    BY <1>20
        DEF Exit, Goto, disk, sweeps, TypeOK, NoLitter, HasFile, InCommand
  <1>21. CASE Kill(p)
    BY <1>21
        DEF Kill, Goto, disk, TypeOK, NoLitter, HasFile, InCommand
  <1>22. QED
    BY <1>1, <1>2, <1>3, <1>4, <1>5, <1>6, <1>7, <1>8, <1>9, <1>10, <1>11,
        <1>12, <1>13, <1>14, <1>15, <1>16, <1>17, <1>18, <1>19, <1>20, <1>21
    DEF Step, Prepare, Run, Cleanup

LEMMA TypesAndFiles == Spec => [](TypeOK /\ NoLitter)
  <1>1. Init => TypeOK /\ NoLitter
    BY TypeInit DEF Init, NoLitter, HasFile
  <1>2. TypeOK /\ UNCHANGED vars => TypeOK'
    BY DEF TypeOK, vars, disk, sweeps
  <1>3. NoLitter /\ UNCHANGED vars => NoLitter'
    BY DEF NoLitter, HasFile, vars, disk
  <1>4. TypeOK /\ NoLitter /\ [Next]_vars => TypeOK' /\ NoLitter'
    BY <1>2, <1>3, TypeStep, LitterStep DEF Next, Step
  <1>5. QED
    BY <1>1, <1>4, PTL DEF Spec

(* A file that exists belongs to a command in progress: every way out of a  *)
(* command, the failures of write, realpath and fork included, deletes it.  *)
THEOREM NothingLeft == Spec => []NoLitter
  BY TypesAndFiles, PTL

-----------------------------------------------------------------------------
(* The directory.                                                           *)

(* A step that does not end p leaves p to watch.                            *)
LEMMA StillWatched ==
  ASSUME NEW p \in Process, pc'[p] # "ended"
  PROVE  DirWatched'
  BY DEF DirWatched

(* Somebody else's file kept p from removing the directory.                 *)
LEMMA NotRemoved ==
  ASSUME NEW p \in Process, TypeOK, NoLitter, RemoveDir(p), dir'
  PROVE  DirWatched'
  <1>1. PICK q \in work : TRUE
    BY DEF RemoveDir
  <1>2. q \in Process /\ HasFile(q)
    BY <1>1 DEF TypeOK, HasFile
  <1>3. pc[q] \in InCommand \cup {"killed"}
    BY <1>2 DEF NoLitter
  <1>4. q # p
    BY <1>3 DEF RemoveDir, InCommand
  <1>5. pc'[q] = pc[q]
    BY <1>2, <1>4 DEF RemoveDir, Goto, TypeOK
  <1>6. pc'[q] # "ended"
    BY <1>3, <1>5 DEF InCommand
  <1>7. QED
    BY <1>2, <1>6 DEF DirWatched

LEMMA WatchStep ==
  ASSUME NEW p \in Process, TypeOK, NoLitter, DirWatched, Step(p)
  PROVE  DirWatched'
  <1>1. CASE RemoveDir(p)
    BY <1>1, NotRemoved DEF DirWatched
  <1>2. CASE OpenDir(p)
    BY <1>2, StillWatched DEF OpenDir, Goto, TypeOK, DirWatched, disk
  <1>3. CASE Sweep(p)
    BY <1>3, StillWatched DEF Sweep
  <1>4. CASE Command(p) \/ Prepare(p)
    BY <1>4, StillWatched
    DEF Command, Prepare, MakeDir, CannotMakeDir, MakeFile, FallBack, NoFile,
        Write, WriteFails, FindPath, PathLost, Return, Goto, TypeOK
  <1>5. CASE Run(p) \/ End(p) \/ Swept(p) \/ Exit(p) \/ Kill(p)
    BY <1>5, StillWatched
    DEF Run, Fork, ForkFails, Exec, Wait, End, Swept, Exit, Kill, Return, Goto,
        TypeOK
  <1>6. QED
    BY <1>1, <1>2, <1>3, <1>4, <1>5 DEF Step, Cleanup

(* When every interpreter has ended the directory is gone.                  *)
THEOREM DirectoryRemoved == Spec => []DirRemoved
  <1>1. Init => DirWatched
    BY DEF Init, DirWatched
  <1>2. DirWatched /\ UNCHANGED vars => DirWatched'
    BY DEF DirWatched, vars, disk
  <1>3. TypeOK /\ NoLitter /\ DirWatched /\ [Next]_vars => DirWatched'
    BY <1>2, WatchStep DEF Next, Step
  <1>4. DirWatched => DirRemoved
    BY DEF DirWatched, DirRemoved
  <1>5. QED
    BY <1>1, <1>3, <1>4, TypesAndFiles, PTL DEF Spec

-----------------------------------------------------------------------------
(* Files that are lost.                                                     *)

(* The file of a command in progress is not where it was made, or was found *)
(* missing, now or by the last command.                                     *)
Missing(p) ==
  \/ pc[p] \in {"write", "realpath", "fork", "exec"} /\ ~HasFile(p)
  \/ pc[p] = "not found"
  \/ result[p] = "lost"

(* An interpreter other than p has swept; no later step of it undoes that.  *)
Sweepers == {"sweep", "rmdir", "ended", "killed"}
SweptBy(p) == \E q \in Process \ {p} : pc[q] \in Sweepers

MissingSwept == \A p \in Process : Missing(p) => SweptBy(p)

LEMMA SweepersStay ==
  ASSUME NEW p \in Process, TypeOK, Step(p), NEW q \in Process,
         pc[q] \in Sweepers
  PROVE  pc'[q] \in Sweepers
  <1>1. CASE q # p
    <2>1. pc'[q] = pc[q]
      BY <1>1
      DEF Step, Prepare, Run, Cleanup, Command, MakeDir, CannotMakeDir,
          MakeFile, FallBack, NoFile, Write, WriteFails, FindPath, PathLost,
          Fork, ForkFails, Exec, Wait, End, OpenDir, Sweep, Swept, RemoveDir,
          Exit, Kill, Return, Goto, TypeOK
    <2>2. QED
      BY <2>1
  <1>2. CASE q = p /\ (Sweep(p) \/ Swept(p) \/ RemoveDir(p) \/ Kill(p))
    BY <1>2 DEF Sweep, Swept, RemoveDir, Kill, Goto, TypeOK, Sweepers
  <1>3. ~(Command(p) \/ Prepare(p) \/ Run(p) \/ End(p) \/ OpenDir(p) \/ Exit(p))
        \/ q # p
    BY DEF Prepare, Run, Command, MakeDir, CannotMakeDir, MakeFile, FallBack,
           NoFile, Write, WriteFails, FindPath, PathLost, Fork, ForkFails,
           Exec, Wait, End, OpenDir, Exit, Sweepers
  <1>4. QED
    BY <1>1, <1>2, <1>3 DEF Step, Cleanup

(* Only a sweep takes the file of another interpreter away.                 *)
LEMMA MissingStep ==
  ASSUME NEW p \in Process, TypeOK, Step(p), NEW r \in Process, Missing(r)'
  PROVE  Missing(r) \/ (pc[p] = "sweep" /\ p # r)
  <1> USE DEF Missing, HasFile, Goto, disk, sweeps, TypeOK
  <1>1. CASE Command(p) \/ MakeDir(p) \/ CannotMakeDir(p) \/ NoFile(p)
    BY <1>1 DEF Command, MakeDir, CannotMakeDir, NoFile, Return
  <1>2. CASE MakeFile(p)
    <2>1. CASE dir
      BY <1>2, <2>1 DEF MakeFile
    <2>2. CASE ~dir
      BY <1>2, <2>2 DEF MakeFile
    <2>3. QED
      BY <2>1, <2>2
  <1>3. CASE FallBack(p)
    BY <1>3 DEF FallBack
  <1>4. CASE Write(p) \/ FindPath(p) \/ Fork(p) \/ Exec(p)
    BY <1>4 DEF Write, FindPath, Fork, Exec
  <1>5. CASE WriteFails(p) \/ PathLost(p) \/ ForkFails(p) \/ Wait(p)
    BY <1>5 DEF WriteFails, PathLost, ForkFails, Wait, Delete, Return
  <1>6. CASE End(p) \/ OpenDir(p) \/ Swept(p) \/ RemoveDir(p) \/ Exit(p)
             \/ Kill(p)
    BY <1>6 DEF End, OpenDir, Swept, RemoveDir, Exit, Kill
  <1>7. CASE Sweep(p)
    BY <1>7 DEF Sweep
  <1>8. QED
    BY <1>1, <1>2, <1>3, <1>4, <1>5, <1>6, <1>7
    DEF Step, Prepare, Run, Cleanup

(* However commands, sweeps and kills interleave, a binary that was written *)
(* is missing when it is to be run only if another interpreter has ended.   *)
THEOREM LossesAreSwept == Spec => []LostToSweep
  <1>1. Init => MissingSwept
    BY DEF Init, MissingSwept, Missing
  <1>2. TypeOK /\ MissingSwept /\ Next => MissingSwept'
    <2> SUFFICES ASSUME TypeOK, MissingSwept, NEW p \in Process, Step(p),
                        NEW r \in Process, Missing(r)'
                 PROVE  SweptBy(r)'
      BY DEF Next, MissingSwept
    <2>1. PICK q \in Process \ {r} : pc[q] \in Sweepers
      BY MissingStep DEF MissingSwept, SweptBy, Sweepers
    <2>2. QED
      BY <2>1, SweepersStay DEF SweptBy
  <1>3. MissingSwept /\ UNCHANGED vars => MissingSwept'
    BY DEF MissingSwept, Missing, SweptBy, HasFile, vars, disk
  <1>4. MissingSwept => LostToSweep
    BY DEF MissingSwept, Missing, SweptBy, Sweepers, LostToSweep
  <1>5. QED
    BY <1>1, <1>2, <1>3, <1>4, TypesAndFiles, PTL DEF Spec
=============================================================================
