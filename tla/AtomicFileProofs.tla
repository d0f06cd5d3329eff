-------------------------- MODULE AtomicFileProofs --------------------------
(***************************************************************************)
(* AtomicFile implements FileRegister, for any number of processes, values *)
(* and files. The argument: a file is private while it is written, and one *)
(* that can be opened, now or after a crash, is whole and no longer         *)
(* changes; what makes it so is that fsync comes before rename.             *)
(***************************************************************************)
EXTENDS AtomicFile, TLAPS

Temporary == Writing \cup {"rename"}

(* The record of each call: what it has open and what it has written.       *)
Calls == \A p \in Proc :
  /\ pc[p] \in {"idle", "create"} => fd[p] = NoFile
  /\ pc[p] \notin {"idle", "read"} => data[p] \in Data
  /\ pc[p] \in {"idle", "read"} => data[p] = NoFile
  /\ pc[p] \in Temporary => fd[p] \in temps
  /\ pc[p] = "renamed" => fd[p] \in Inode \ temps
  /\ pc[p] \in {"close", "rename"} =>
       cache[fd[p]] = data[p] /\ disk[fd[p]] = data[p]
  /\ pc[p] = "read" => fd[p] \in Inode \ temps /\ cache[fd[p]] \in Data

(* A file with a name other than a temporary one is whole, on disk too.     *)
Whole(i) == i # NoFile => i \notin temps /\ cache[i] \in Data /\ disk[i] = cache[i]

Inv == TypeOK /\ PrivateTemp /\ Calls /\ Whole(target) /\ Whole(target_disk)

(* A step of p moves only its own records.                                  *)
LEMMA InitInv == Init => Inv
BY FileAssumption
   DEF Init, Inv, TypeOK, PrivateTemp, Calls, Whole, Contents, Writing, Temporary

(* Steps that touch no file: calling, fdopen, fclose, returning, reading.   *)
LEMMA CallInv ==
  ASSUME Inv, NEW p \in Proc,
         \/ \E v \in Data : tofile(p, v)
         \/ fdopen(p) \/ fclose(p) \/ return(p)
         \/ fopen(p) \/ fread(p) \/ read_error(p)
  PROVE  Inv'
<1>t. TypeOK'
  BY DEF Inv, TypeOK, Calls, tofile, fdopen, fclose, return, fopen, fread,
         read_error, At, Goto, files, Writing, Contents
<1>w. Whole(target)' /\ Whole(target_disk)'
  BY DEF Inv, Whole, tofile, fdopen, fclose, return, fopen, fread, read_error,
         files
<1>c. Calls'
  BY FileAssumption
     DEF Inv, TypeOK, Calls, Whole, tofile, fdopen, fclose, return, fopen,
         fread, read_error, At, Goto, files, Writing, Temporary
<1>p. PrivateTemp'
  BY FileAssumption
     DEF Inv, TypeOK, Calls, Whole, PrivateTemp, tofile, fdopen, fclose,
         return, fopen, fread, read_error, At, Goto, files, Writing, Temporary
<1> QED  BY <1>t, <1>w, <1>c, <1>p DEF Inv

LEMMA MkstempInv ==
  ASSUME Inv, NEW p \in Proc, mkstemp(p)
  PROVE  Inv'
<1>1. PICK i \in Inode \ Used :
        /\ fd' = [fd EXCEPT ![p] = i]
        /\ temps' = temps \cup {i}
        /\ cache' = [cache EXCEPT ![i] = "empty"]
        /\ disk' = [disk EXCEPT ![i] = "empty"]
  BY DEF mkstemp
<1>2. /\ i # target /\ i # target_disk /\ i \notin temps /\ i # NoFile
      /\ \A q \in Proc : fd[q] # i
  BY FileAssumption DEF Used
<1>t. TypeOK'
  BY <1>1 DEF Inv, TypeOK, mkstemp, At, Goto, Writing, Contents
<1>w. Whole(target)' /\ Whole(target_disk)'
  BY <1>1, <1>2 DEF Inv, TypeOK, Whole, mkstemp
<1>c. Calls'
  BY <1>1, <1>2 DEF Inv, TypeOK, Calls, mkstemp, At, Goto, Writing, Temporary
<1>p. PrivateTemp'
  BY <1>1, <1>2 DEF Inv, TypeOK, PrivateTemp, mkstemp, At, Goto, Writing
<1> QED  BY <1>t, <1>w, <1>c, <1>p DEF Inv

LEMMA WritingInv ==
  ASSUME Inv, NEW p \in Proc, fwrite(p) \/ fsync(p)
  PROVE  Inv'
<1>1. fd[p] \in temps /\ fd[p] \in Inode /\ data[p] \in Data
  BY DEF Inv, TypeOK, Calls, fwrite, fsync, At, Writing, Temporary
<1>2. \A i \in Inode : i # fd[p] => cache'[i] = cache[i] /\ disk'[i] = disk[i]
  BY DEF Inv, TypeOK, fwrite, fsync
<1>3. \A q \in Proc \ {p} : fd[q] # fd[p] /\ pc'[q] = pc[q]
  BY DEF Inv, TypeOK, PrivateTemp, fwrite, fsync, At, Goto, Writing
<1>t. TypeOK'
  BY <1>1 DEF Inv, TypeOK, fwrite, fsync, At, Goto, Writing, Contents
<1>w. Whole(target)' /\ Whole(target_disk)'
  BY <1>1, <1>2 DEF Inv, TypeOK, Whole, fwrite, fsync
<1>c. Calls'
  <2>1. ASSUME NEW q \in Proc \ {p}, pc[q] # "idle", pc[q] # "create"
        PROVE  cache'[fd[q]] = cache[fd[q]] /\ disk'[fd[q]] = disk[fd[q]]
    <3>1. fd[q] \in Inode
      BY <2>1 DEF Inv, TypeOK, Calls, Writing, Temporary
    <3> QED  BY <1>2, <1>3, <3>1
  <2>2. CASE fwrite(p)
    BY <1>1, <1>3, <2>1, <2>2
       DEF Inv, TypeOK, Calls, fwrite, At, Goto, Writing, Temporary
  <2>3. CASE fsync(p)
    BY <1>1, <1>3, <2>1, <2>3
       DEF Inv, TypeOK, Calls, fsync, At, Goto, Writing, Temporary
  <2> QED  BY <2>2, <2>3
<1>p. PrivateTemp'
  BY DEF Inv, TypeOK, PrivateTemp, fwrite, fsync, At, Goto, Writing
<1> QED  BY <1>t, <1>w, <1>c, <1>p DEF Inv

LEMMA RenameInv ==
  ASSUME Inv, NEW p \in Proc, rename(p)
  PROVE  Inv'
<1>1. /\ fd[p] \in temps /\ fd[p] \in Inode /\ data[p] \in Data
      /\ cache[fd[p]] = data[p] /\ disk[fd[p]] = data[p]
      /\ \A q \in Proc \ {p} : fd[q] # fd[p]
  BY DEF Inv, TypeOK, Calls, PrivateTemp, rename, At, Writing, Temporary
<1>t. TypeOK'
  BY <1>1 DEF Inv, TypeOK, rename, At, Goto, Writing
<1>w. Whole(target)' /\ Whole(target_disk)'
  BY <1>1 DEF Inv, Whole, rename
<1>c. Calls'
  BY <1>1 DEF Inv, TypeOK, Calls, rename, At, Goto, Writing, Temporary
<1>p. PrivateTemp'
  BY <1>1 DEF Inv, TypeOK, PrivateTemp, rename, At, Goto, Writing
<1> QED  BY <1>t, <1>w, <1>c, <1>p DEF Inv

(* error() and a kill end the call of p.                                    *)
LEMMA StopInv ==
  ASSUME Inv, NEW p \in Proc, error(p) \/ Kill(p)
  PROVE  Inv'
<1>1. /\ pc' = [pc EXCEPT ![p] = "idle"] /\ data' = [data EXCEPT ![p] = NoFile]
      /\ fd' = [fd EXCEPT ![p] = NoFile] /\ temps' \subseteq temps
      /\ temps \ {fd[p]} \subseteq temps'
      /\ UNCHANGED <<target, target_disk, cache, disk>>
  BY DEF error, Kill, Goto
<1>2. \A q \in Proc \ {p} : pc[q] \in Temporary => fd[q] # fd[p]
  BY DEF Inv, PrivateTemp, Temporary
<1>t. TypeOK'
  BY <1>1 DEF Inv, TypeOK, error, Kill, Writing
<1>w. Whole(target)' /\ Whole(target_disk)'
  BY <1>1 DEF Inv, Whole
<1>c. Calls'
  BY <1>1, <1>2 DEF Inv, TypeOK, Calls, Writing, Temporary
<1>p. PrivateTemp'
  <2> SUFFICES ASSUME NEW q \in Proc, pc'[q] \in Temporary
               PROVE  /\ fd'[q] \in temps' /\ fd'[q] \notin {target, target_disk}
                      /\ \A r \in Proc \ {q} : fd'[r] # fd'[q]
    BY <1>1 DEF PrivateTemp, Temporary
  <2>1. q # p /\ pc'[q] = pc[q] /\ fd'[q] = fd[q]
    BY <1>1 DEF Inv, TypeOK, Temporary, Writing
  <2>2. /\ fd[q] \in temps /\ fd[q] \notin {target, target_disk}
        /\ \A r \in Proc \ {q} : fd[r] # fd[q]
    BY <2>1 DEF Inv, PrivateTemp, Temporary
  <2>3. fd[q] # NoFile
    BY <2>2, FileAssumption DEF Inv, TypeOK
  <2> QED  BY <1>1, <2>1, <2>2, <2>3 DEF Inv, TypeOK
<1> QED  BY <1>t, <1>w, <1>c, <1>p DEF Inv

LEMMA SystemInv ==
  ASSUME Inv,
         \/ \E p \in Proc : deletefile(p)
         \/ WriteBack \/ WriteDirectory \/ Crash
  PROVE  Inv'
<1>1. CASE \E p \in Proc : deletefile(p)
  BY <1>1, FileAssumption
     DEF Inv, TypeOK, PrivateTemp, Calls, Whole, deletefile, At, Temporary,
         Writing
<1>2. CASE WriteDirectory
  BY <1>2 DEF Inv, TypeOK, PrivateTemp, Calls, Whole, WriteDirectory
<1>3. CASE WriteBack
  <2>1. \A i \in Inode : disk'[i] = disk[i] \/ disk'[i] = cache[i]
    BY <1>3 DEF Inv, TypeOK, WriteBack
  <2>t. TypeOK'
    BY <1>3 DEF Inv, TypeOK, WriteBack
  <2>w. Whole(target)' /\ Whole(target_disk)'
    BY <1>3, <2>1 DEF Inv, TypeOK, Whole, WriteBack
  <2>c. Calls'
    BY <1>3, <2>1 DEF Inv, TypeOK, Calls, WriteBack, Writing, Temporary
  <2>p. PrivateTemp'
    BY <1>3 DEF Inv, PrivateTemp, WriteBack
  <2> QED  BY <2>t, <2>w, <2>c, <2>p DEF Inv
<1>4. CASE Crash
  BY <1>4 DEF Inv, TypeOK, PrivateTemp, Calls, Whole, Crash, Writing, Temporary
<1> QED  BY <1>1, <1>2, <1>3, <1>4

LEMMA NextInv == Inv /\ [Next]_vars => Inv'
<1> SUFFICES ASSUME Inv, [Next]_vars PROVE Inv'
  OBVIOUS
<1>1. CASE UNCHANGED vars
  BY <1>1 DEF vars, files, Inv, TypeOK, PrivateTemp, Calls, Whole
<1>2. CASE Next
  BY <1>2, CallInv, MkstempInv, WritingInv, RenameInv, StopInv, SystemInv
     DEF Next, Write, Read
<1> QED  BY <1>1, <1>2

LEMMA Invariance == Spec => []Inv
BY InitInv, NextInv, PTL DEF Spec

(* No call shares its temporary file with another call or with a reader of  *)
(* the path, however many processes use it.                                 *)
THEOREM TempsPrivate == Spec => []PrivateTemp
BY Invariance, PTL DEF Inv

(* A call has given up its file only when the file has no temporary name    *)
(* any more, so a name that stays is one of a call, or of a killed process. *)
LEMMA LitterStep == Inv /\ NoLitter /\ [Next]_vars => NoLitter'
<1> SUFFICES ASSUME Inv, NoLitter, [Next]_vars PROVE NoLitter'
  OBVIOUS
<1>1. CASE UNCHANGED vars \/ WriteBack \/ WriteDirectory
  BY <1>1 DEF vars, files, NoLitter, WriteBack, WriteDirectory
<1>2. CASE Crash
  BY <1>2 DEF NoLitter, Crash
<1>3. ASSUME NEW p \in Proc, fd[p] \notin temps,
             fd' = [fd EXCEPT ![p] = fd'[p]], temps' \ {fd'[p]} \subseteq temps,
             lost' = lost
      PROVE  NoLitter'
  BY <1>3 DEF Inv, TypeOK, NoLitter
<1>4. ASSUME NEW p \in Proc, mkstemp(p) PROVE NoLitter'
  <2>1. fd[p] = NoFile /\ NoFile \notin temps
    BY <1>4, FileAssumption DEF Inv, TypeOK, Calls, mkstemp, At
  <2> QED  BY <1>3, <1>4, <2>1 DEF Inv, TypeOK, mkstemp
<1>5. ASSUME NEW p \in Proc, return(p) \/ fopen(p) \/ fread(p) \/ read_error(p)
      PROVE  NoLitter'
  <2>1. fd[p] \notin temps
    BY <1>5, FileAssumption
       DEF Inv, TypeOK, Calls, return, fopen, fread, read_error, At
  <2> QED  BY <1>3, <1>5, <2>1
           DEF Inv, TypeOK, return, fopen, fread, read_error, files
<1>6. ASSUME NEW p \in Proc,
             \/ \E v \in Data : tofile(p, v)
             \/ fdopen(p) \/ fwrite(p) \/ fsync(p) \/ fclose(p) \/ rename(p)
             \/ deletefile(p)
      PROVE  NoLitter'
  BY <1>6 DEF NoLitter, tofile, fdopen, fwrite, fsync, fclose, rename,
              deletefile, files
<1>7. ASSUME NEW p \in Proc, error(p) \/ Kill(p) PROVE NoLitter'
  BY <1>7 DEF Inv, TypeOK, NoLitter, error, Kill
<1> QED  BY <1>1, <1>2, <1>4, <1>5, <1>6, <1>7 DEF Next, Write, Read

(* Whichever library call fails, an error leaves no temporary file in the   *)
(* directory: those that stay belong to killed processes.                   *)
THEOREM NothingLittered == Spec => []NoLitter
<1>1. Init => NoLitter
  BY DEF Init, NoLitter
<1> QED  BY <1>1, LitterStep, Invariance, PTL DEF Spec

-----------------------------------------------------------------------------
(* Refinement. What FileRegister sees, as functions.                        *)
call == [p \in Proc |-> Call(p)]
answer == [p \in Proc |-> Found(p)]

(* A step that leaves what is on the disk under the path alone, and the     *)
(* other processes too, moves the register by what it does to p.            *)
LEMMA Others ==
  ASSUME Inv, NEW p \in Proc,
         \A q \in Proc \ {p} : Call(q)' = Call(q) /\ Found(q)' = Found(q)
  PROVE  /\ call' = [call EXCEPT ![p] = Call(p)']
         /\ answer' = [answer EXCEPT ![p] = Found(p)']
BY DEF call, answer

LEMMA InitMaps == Init => Register!Init
<1> SUFFICES ASSUME Init PROVE Register!Init
  OBVIOUS
<1>1. In(target, cache) \in Data \cup {NoFile} /\ In(target_disk, disk) = In(target, cache)
  BY DEF Init, In
<1>2. /\ call = [p \in Proc |-> [state |-> "idle", value |-> NoFile]]
      /\ answer = [p \in Proc |-> NoFile]
  BY DEF Init, call, answer, Call, Found
<1> QED  BY <1>1, <1>2
     DEF Register!Init, Register!Idle, Register!Content, call, answer

(* The steps of a call that the register does not see.                      *)
LEMMA QuietMaps ==
  ASSUME Inv, NEW p \in Proc,
         \/ mkstemp(p) \/ fdopen(p) \/ fwrite(p) \/ fsync(p) \/ fclose(p)
         \/ fread(p)
  PROVE  UNCHANGED <<In(target, cache), In(target_disk, disk), call, answer>>
<1>1. UNCHANGED In(target, cache) /\ UNCHANGED In(target_disk, disk)
  <2>1. CASE mkstemp(p)
    BY <2>1 DEF Inv, TypeOK, In, mkstemp, Used
  <2>2. CASE fwrite(p) \/ fsync(p)
    BY <2>2 DEF Inv, TypeOK, PrivateTemp, In, fwrite, fsync, At, Writing
  <2> QED  BY <2>1, <2>2 DEF fdopen, fclose, fread, files, In
<1>2. \A q \in Proc : Call(q)' = Call(q)
  BY DEF Inv, TypeOK, Call, mkstemp, fdopen, fwrite, fsync, fclose, fread,
         At, Goto, files
<1>3. ASSUME NEW q \in Proc PROVE Found(q)' = Found(q)
  <2>1. CASE mkstemp(p)
    <3>1. pc[q] = "read" => fd[q] \in Used
      BY DEF Used
    <3> QED  BY <2>1, <3>1 DEF Inv, TypeOK, Found, mkstemp, At, Goto
  <2>2. CASE fwrite(p) \/ fsync(p)
    <3>1. pc[q] = "read" => q # p /\ fd[q] # fd[p] /\ fd[q] \in Inode
      BY <2>2 DEF Inv, PrivateTemp, Calls, fwrite, fsync, At, Writing
    <3> QED  BY <2>2, <3>1 DEF Inv, TypeOK, Found, fwrite, fsync, At, Goto
  <2>3. CASE fdopen(p) \/ fclose(p) \/ fread(p)
    BY <2>3 DEF Inv, TypeOK, Found, fdopen, fclose, fread, At, Goto, files
  <2> QED  BY <2>1, <2>2, <2>3
<1> QED  BY <1>1, <1>2, <1>3 DEF call, answer

LEMMA WriteBackMaps ==
  ASSUME Inv, WriteBack
  PROVE  UNCHANGED <<In(target, cache), In(target_disk, disk), call, answer>>
BY DEF Inv, TypeOK, Whole, In, WriteBack, call, answer, Call, Found

LEMMA StepMaps ==
  ASSUME Inv, Next
  PROVE  \/ Register!Next
         \/ UNCHANGED <<In(target, cache), In(target_disk, disk), call, answer>>
<1>1. ASSUME NEW p \in Proc, NEW v \in Data, tofile(p, v)
      PROVE  Register!Begin(p, v)
  <2>1. Call(p) = [state |-> "idle", value |-> NoFile]
    BY <1>1 DEF tofile, At, Call
  <2>2. Call(p)' = [state |-> "pending", value |-> v] /\ Found(p)' = Found(p)
    BY <1>1 DEF Inv, TypeOK, tofile, At, Goto, Call, Found
  <2>3. \A q \in Proc \ {p} : Call(q)' = Call(q) /\ Found(q)' = Found(q)
    BY <1>1 DEF Inv, TypeOK, tofile, Goto, Call, Found, files
  <2>4. UNCHANGED <<In(target, cache), In(target_disk, disk)>>
    BY <1>1 DEF tofile, files, In
  <2> QED  BY <2>1, <2>2, <2>3, <2>4, Others
           DEF Register!Begin, Register!Idle, call, answer
<1>2. ASSUME NEW p \in Proc, rename(p) PROVE Register!Commit(p)
  <2>1. Call(p) = [state |-> "pending", value |-> data[p]]
    BY <1>2 DEF rename, At, Call
  <2>2. Call(p)' = [state |-> "committed", value |-> data[p]] /\ Found(p)' = Found(p)
    BY <1>2 DEF Inv, TypeOK, rename, At, Goto, Call, Found
  <2>3. \A q \in Proc \ {p} : Call(q)' = Call(q) /\ Found(q)' = Found(q)
    BY <1>2 DEF Inv, TypeOK, rename, Goto, Call, Found
  <2>4. fd[p] # NoFile /\ cache[fd[p]] = data[p]
    BY <1>2, FileAssumption
       DEF Inv, TypeOK, Calls, rename, At, Writing, Temporary
  <2>5. In(target, cache)' = data[p] /\ UNCHANGED In(target_disk, disk)
    BY <1>2, <2>4 DEF rename, In
  <2>6. call[p] = Call(p) /\ Call(p)' = [call[p] EXCEPT !.state = "committed"]
    BY <2>1, <2>2 DEF call
  <2>7. call' = [call EXCEPT ![p].state = "committed"]
    <3>1. call' = [call EXCEPT ![p] = Call(p)']
      BY <2>2, <2>3, Others
    <3> QED  BY <2>6, <3>1
  <2>8. answer' = answer
    BY <2>2, <2>3 DEF answer
  <2>9. call[p].state = "pending" /\ call[p].value = data[p]
    BY <2>1, <2>6
  <2> QED  BY <2>5, <2>7, <2>8, <2>9 DEF Register!Commit, call, answer
<1>3. ASSUME NEW p \in Proc, return(p) PROVE Register!Return(p)
  <2>1. Call(p).state = "committed"
    BY <1>3 DEF return, At, Call
  <2>2. Call(p)' = [state |-> "idle", value |-> NoFile] /\ Found(p)' = Found(p)
    BY <1>3 DEF Inv, TypeOK, return, At, Goto, Call, Found
  <2>3. \A q \in Proc \ {p} : Call(q)' = Call(q) /\ Found(q)' = Found(q)
    BY <1>3 DEF Inv, TypeOK, return, Goto, Call, Found, files
  <2>4. UNCHANGED <<In(target, cache), In(target_disk, disk)>>
    BY <1>3 DEF return, files, In
  <2> QED  BY <2>1, <2>2, <2>3, <2>4, Others
           DEF Register!Return, Register!Idle, call, answer
<1>4. ASSUME NEW p \in Proc, error(p) PROVE Register!Fail(p)
  <2>1. Call(p).state = "pending"
    BY <1>4 DEF error, Call
  <2>2. Call(p)' = [state |-> "idle", value |-> NoFile] /\ Found(p)' = Found(p)
    BY <1>4 DEF Inv, TypeOK, error, Goto, Call, Found
  <2>3. \A q \in Proc \ {p} : Call(q)' = Call(q) /\ Found(q)' = Found(q)
    BY <1>4 DEF Inv, TypeOK, error, Goto, Call, Found
  <2>4. UNCHANGED <<In(target, cache), In(target_disk, disk)>>
    BY <1>4 DEF error, In
  <2> QED  BY <2>1, <2>2, <2>3, <2>4, Others
           DEF Register!Fail, Register!Idle, call, answer
<1>5. ASSUME NEW p \in Proc, Kill(p) PROVE Register!Kill(p)
  <2>1. Call(p)' = [state |-> "idle", value |-> NoFile] /\ Found(p)' = NoFile
    BY <1>5 DEF Inv, TypeOK, Kill, Goto, Call, Found
  <2>2. \A q \in Proc \ {p} : Call(q)' = Call(q) /\ Found(q)' = Found(q)
    BY <1>5 DEF Inv, TypeOK, Kill, Goto, Call, Found
  <2>3. UNCHANGED <<In(target, cache), In(target_disk, disk)>>
    BY <1>5 DEF Kill, In
  <2> QED  BY <2>1, <2>2, <2>3, Others
           DEF Register!Kill, Register!Idle, call, answer
<1>6. ASSUME NEW p \in Proc, fopen(p) PROVE Register!Read(p)
  <2>1. Call(p)' = Call(p) /\ Found(p)' = In(target, cache)
    BY <1>6 DEF Inv, TypeOK, fopen, At, Goto, Call, Found, In, files
  <2>2. \A q \in Proc \ {p} : Call(q)' = Call(q) /\ Found(q)' = Found(q)
    BY <1>6 DEF Inv, TypeOK, fopen, Goto, Call, Found, files
  <2>3. UNCHANGED <<In(target, cache), In(target_disk, disk)>>
    BY <1>6 DEF fopen, files, In
  <2>4. call' = call
    BY <2>1, <2>2 DEF call
  <2> QED  BY <2>1, <2>2, <2>3, <2>4, Others DEF Register!Read, call, answer
<1>7. ASSUME NEW p \in Proc, deletefile(p) PROVE Register!Delete
  BY <1>7 DEF deletefile, Register!Delete, In, Call, Found
<1>8. ASSUME WriteDirectory PROVE Register!Sync
  <2>1. In(target_disk, disk)' = In(target, cache)
    BY <1>8 DEF Inv, Whole, WriteDirectory, In
  <2> QED  BY <1>8, <2>1 DEF WriteDirectory, Register!Sync, In, Call, Found
<1>9. ASSUME Crash PROVE Register!Crash
  <2>1. In(target, cache)' = In(target_disk, disk)
        /\ UNCHANGED In(target_disk, disk)
    BY <1>9 DEF Crash, In
  <2>2. \A q \in Proc : /\ Call(q)' = [state |-> "idle", value |-> NoFile]
                        /\ Found(q)' = NoFile
    BY <1>9 DEF Crash, Call, Found
  <2> QED  BY <2>1, <2>2 DEF Register!Crash, Register!Idle, call, answer
<1>10. ASSUME NEW p \in Proc, read_error(p) PROVE Register!ReadFails(p)
  <2>1. Call(p)' = Call(p) /\ Found(p)' = NoFile
    BY <1>10 DEF Inv, TypeOK, read_error, At, Goto, Call, Found
  <2>2. \A q \in Proc \ {p} : Call(q)' = Call(q) /\ Found(q)' = Found(q)
    BY <1>10 DEF Inv, TypeOK, read_error, Goto, Call, Found, files
  <2>3. UNCHANGED <<In(target, cache), In(target_disk, disk)>>
    BY <1>10 DEF read_error, files, In
  <2>4. call' = call
    BY <2>1, <2>2 DEF call
  <2> QED  BY <2>1, <2>2, <2>3, <2>4, Others
           DEF Register!ReadFails, call, answer
<1>11. ASSUME NEW p \in Proc, Write(p) \/ Read(p) \/ deletefile(p) \/ Kill(p)
       PROVE  \/ Register!Next
              \/ UNCHANGED <<In(target, cache), In(target_disk, disk), call, answer>>
  BY <1>1, <1>2, <1>3, <1>4, <1>5, <1>6, <1>7, <1>10, <1>11, QuietMaps
     DEF Write, Read, Register!Next
<1> QED  BY <1>8, <1>9, <1>11, WriteBackMaps DEF Next, Register!Next

(* write_file_atomic and read_file_safe implement an atomic file: a crash,  *)
(* a kill or a failed library call never leaves, and no reader ever sees,   *)
(* part of a value at the path.                                             *)
THEOREM FilesAtomic == Spec => Atomic
<1>1. Inv /\ [Next]_vars => [Register!Next]_(Register!register)
  <2>1. ASSUME Inv, UNCHANGED vars PROVE UNCHANGED Register!register
    BY <2>1 DEF vars, files, In, Call, Found, Register!register
  <2>2. ASSUME Inv, Next
        PROVE  Register!Next \/ UNCHANGED Register!register
    BY <2>2, StepMaps DEF Register!register, call, answer
  <2> QED  BY <2>1, <2>2
<1> QED  BY <1>1, InitMaps, Invariance, PTL DEF Spec, Atomic, Register!Spec
=============================================================================
