----------------------------- MODULE AtomicFile -----------------------------
(***************************************************************************)
(* write_file_atomic and read_file_safe (stdlib/database.c) on one path,    *)
(* used by the scripts of several processes: each library call is a step,   *)
(* any of them can fail, a process can be killed between two of them, and   *)
(* the machine can stop. The file system is external: the directory entry   *)
(* and the contents of a file reach the disk on their own, in any order,    *)
(* unless fsync has forced the contents.                                    *)
(***************************************************************************)

CONSTANTS
  Proc,        \* processes, each running one interpreter
  Data,        \* serialized values
  Inode,       \* files that can exist at a time (a bound)
  NoFile       \* no inode, or no data

ASSUME FileAssumption == NoFile \notin Data \cup Inode
                         /\ Data \cap {"empty", "torn"} = {}

VARIABLES
  pc,          \* per process, the next library call of tofile() or fromfile()
  data,        \* per process, the buffer tofile() writes
  fd,          \* per process, the file it has open
  result,      \* per process, what its last fromfile() read
  temps,       \* the temporary files in the directory
  lost,        \* those of them whose writer was killed
  target,      \* the file at path
  target_disk, \* the file at path in the directory as it is on disk
  cache,       \* the contents of each file, as the processes see them
  disk         \* the contents of each file on disk

files == <<temps, lost, target, target_disk, cache, disk>>
vars == <<pc, data, fd, result, files>>

Writing == {"open", "write", "sync", "close"}
Contents == Data \cup {"empty", "torn"}

(* A file no directory entry and no process refers to.                      *)
Used == temps \cup {target, target_disk} \cup {fd[p] : p \in Proc}

(* Types; and a process between two calls has neither a file open nor a     *)
(* buffer: every way out of a call closes the one and frees the other.      *)
TypeOK ==
  /\ pc \in [Proc -> {"idle", "create", "rename", "renamed", "read"}
                    \cup Writing]
  /\ data \in [Proc -> Data \cup {NoFile}]
  /\ fd \in [Proc -> Inode \cup {NoFile}]
  /\ result \in [Proc -> Contents \cup {NoFile}]
  /\ temps \subseteq Inode /\ lost \subseteq Inode
  /\ target \in Inode \cup {NoFile} /\ target_disk \in Inode \cup {NoFile}
  /\ cache \in [Inode -> Contents] /\ disk \in [Inode -> Contents]
  /\ \A p \in Proc : pc[p] = "idle" => fd[p] = NoFile /\ data[p] = NoFile

(* An earlier tofile(), completed and on disk, may have made the file.      *)
Init ==
  /\ pc = [p \in Proc |-> "idle"]
  /\ data = [p \in Proc |-> NoFile]
  /\ fd = [p \in Proc |-> NoFile]
  /\ result = [p \in Proc |-> NoFile]
  /\ temps = {} /\ lost = {}
  /\ target \in Inode \cup {NoFile}
  /\ target_disk = target
  /\ \E v \in Data : cache = [i \in Inode |-> IF i = target THEN v ELSE "empty"]
  /\ disk = cache

At(p, step) == pc[p] = step
Goto(p, step) == pc' = [pc EXCEPT ![p] = step]

-----------------------------------------------------------------------------
(* tofile(v, path) and tobinfile(v, path): the value is serialized, then    *)
(* write_file_atomic is called.                                             *)
tofile(p, v) ==
  /\ At(p, "idle")
  /\ Goto(p, "create")
  /\ data' = [data EXCEPT ![p] = v]
  /\ UNCHANGED <<fd, result, files>>

mkstemp(p) ==
  /\ At(p, "create")
  /\ \E i \in Inode \ Used :
       /\ fd' = [fd EXCEPT ![p] = i]
       /\ temps' = temps \cup {i}
       /\ cache' = [cache EXCEPT ![i] = "empty"]
       /\ disk' = [disk EXCEPT ![i] = "empty"]
  /\ Goto(p, "open")
  /\ UNCHANGED <<data, result, lost, target, target_disk>>

fdopen(p) ==
  /\ At(p, "open")
  /\ Goto(p, "write")
  /\ UNCHANGED <<data, fd, result, files>>

(* Mutant: fclose passes the rest of the data on, but nothing is synced.    *)
fwrite_unsynced(p) ==
  /\ At(p, "write")
  /\ cache' = [cache EXCEPT ![fd[p]] = data[p]]
  /\ Goto(p, "close")
  /\ UNCHANGED <<data, fd, result, temps, lost, target, target_disk, disk>>

(* fwrite: the buffer of the stream may pass part of the data on, or all.   *)
fwrite(p) ==
  /\ At(p, "write")
  /\ \E c \in {"empty", "torn", data[p]} : cache' = [cache EXCEPT ![fd[p]] = c]
  /\ Goto(p, "sync")
  /\ UNCHANGED <<data, fd, result, temps, lost, target, target_disk, disk>>

(* fflush and fsync.                                                        *)
fsync(p) ==
  /\ At(p, "sync")
  /\ cache' = [cache EXCEPT ![fd[p]] = data[p]]
  /\ disk' = [disk EXCEPT ![fd[p]] = data[p]]
  /\ Goto(p, "close")
  /\ UNCHANGED <<data, fd, result, temps, lost, target, target_disk>>

fclose(p) ==
  /\ At(p, "close")
  /\ Goto(p, "rename")
  /\ UNCHANGED <<data, fd, result, files>>

rename(p) ==
  /\ At(p, "rename")
  /\ target' = fd[p]
  /\ temps' = temps \ {fd[p]}
  /\ Goto(p, "renamed")
  /\ UNCHANGED <<data, fd, result, lost, target_disk, cache, disk>>

return(p) ==
  /\ At(p, "renamed")
  /\ Goto(p, "idle")
  /\ data' = [data EXCEPT ![p] = NoFile]
  /\ fd' = [fd EXCEPT ![p] = NoFile]
  /\ UNCHANGED <<result, files>>

(* Mutant: an error path that leaves the temporary file.                    *)
error_without_unlink(p) ==
  /\ pc[p] \in {"create", "open", "write", "sync", "rename"}
  /\ Goto(p, "idle")
  /\ data' = [data EXCEPT ![p] = NoFile]
  /\ fd' = [fd EXCEPT ![p] = NoFile]
  /\ UNCHANGED <<result, temps, lost, target, target_disk, cache, disk>>

(* Any of the calls but fclose, whose result is not looked at, can fail: an *)
(* fwrite, fflush or fsync that fails may have written part of the data.    *)
(* The temporary file is unlinked and error() raised.                       *)
error(p) ==
  /\ pc[p] \in {"create", "open", "write", "sync", "rename"}
  /\ Goto(p, "idle")
  /\ data' = [data EXCEPT ![p] = NoFile]
  /\ fd' = [fd EXCEPT ![p] = NoFile]
  /\ temps' = temps \ {fd[p]}
  /\ UNCHANGED <<result, lost, target, target_disk, cache, disk>>

-----------------------------------------------------------------------------
(* fromfile(path): read_file_safe opens the file, takes its size, which     *)
(* must not be 0, and reads that many bytes. If there is no file, it fails; *)
(* and each of its library calls can fail.                                  *)
fopen(p) ==
  /\ At(p, "idle")
  /\ target # NoFile
  /\ fd' = [fd EXCEPT ![p] = target]
  /\ result' = [result EXCEPT ![p] = NoFile]
  /\ Goto(p, "read")
  /\ UNCHANGED <<data, files>>

fread(p) ==
  /\ At(p, "read")
  /\ cache[fd[p]] # "empty"
  /\ result' = [result EXCEPT ![p] = cache[fd[p]]]
  /\ fd' = [fd EXCEPT ![p] = NoFile]
  /\ Goto(p, "idle")
  /\ UNCHANGED <<data, files>>

read_error(p) ==
  /\ At(p, "read")
  /\ result' = [result EXCEPT ![p] = NoFile]
  /\ fd' = [fd EXCEPT ![p] = NoFile]
  /\ Goto(p, "idle")
  /\ UNCHANGED <<data, files>>

deletefile(p) ==
  /\ At(p, "idle")
  /\ target' = NoFile
  /\ UNCHANGED <<pc, data, fd, result, temps, lost, target_disk, cache, disk>>

-----------------------------------------------------------------------------
(* The file system writes a file's contents, or the directory, to disk.     *)
WriteBack == \E i \in Inode :
  /\ disk' = [disk EXCEPT ![i] = cache[i]]
  /\ UNCHANGED <<pc, data, fd, result, temps, lost, target, target_disk,
                 cache>>

WriteDirectory ==
  /\ target_disk' = target
  /\ UNCHANGED <<pc, data, fd, result, temps, lost, target, cache, disk>>

(* A process is killed: its temporary file stays.                           *)
Kill(p) ==
  /\ pc[p] # "idle"
  /\ Goto(p, "idle")
  /\ data' = [data EXCEPT ![p] = NoFile]
  /\ fd' = [fd EXCEPT ![p] = NoFile]
  /\ result' = [result EXCEPT ![p] = NoFile]
  /\ lost' = lost \cup ({fd[p]} \cap temps)
  /\ UNCHANGED <<temps, target, target_disk, cache, disk>>

(* The machine stops and comes back with what is on disk.                   *)
Crash ==
  /\ pc' = [p \in Proc |-> "idle"]
  /\ data' = [p \in Proc |-> NoFile]
  /\ fd' = [p \in Proc |-> NoFile]
  /\ result' = [p \in Proc |-> NoFile]
  /\ temps' \in SUBSET (temps \ {target_disk})
  /\ lost' = temps'
  /\ target' = target_disk
  /\ cache' = disk
  /\ UNCHANGED <<target_disk, disk>>

Write(p) ==
  \/ \E v \in Data : tofile(p, v)
  \/ mkstemp(p) \/ fdopen(p) \/ fwrite(p) \/ fsync(p) \/ fclose(p)
  \/ rename(p) \/ return(p) \/ error(p)
Read(p) == fopen(p) \/ fread(p) \/ read_error(p)

Next ==
  \/ \E p \in Proc : Write(p) \/ Read(p) \/ deletefile(p) \/ Kill(p)
  \/ WriteBack \/ WriteDirectory \/ Crash

Spec == Init /\ [][Next]_vars

-----------------------------------------------------------------------------
(* Properties.                                                              *)

(* What FileRegister sees: the contents of the file at path, now and on     *)
(* disk, how far each call is, and what each reader has or will have read,  *)
(* which the file it opened determines.                                     *)
In(i, contents) == IF i = NoFile THEN NoFile ELSE contents[i]
Call(p) ==
  IF pc[p] \in {"idle", "read"} THEN [state |-> "idle", value |-> NoFile]
  ELSE [state |-> IF pc[p] = "renamed" THEN "committed" ELSE "pending",
        value |-> data[p]]
Found(p) == IF pc[p] = "read" THEN cache[fd[p]] ELSE result[p]

Register == INSTANCE FileRegister WITH
  visible <- In(target, cache),
  durable <- In(target_disk, disk),
  call <- [p \in Proc |-> Call(p)],
  answer <- [p \in Proc |-> Found(p)]

(* Writes are all or nothing and reads see whole values, across concurrent  *)
(* calls, failed library calls, killed processes and crashes.               *)
Atomic == Register!Spec

(* A temporary file in the directory belongs to a call in progress or to a  *)
(* process that was killed: every error path removes its own.               *)
NoLitter == temps \subseteq lost \cup {fd[p] : p \in Proc}

(* No two calls in progress write the same file, nor one that can be read   *)
(* at the path.                                                             *)
PrivateTemp ==
  \A p \in Proc : pc[p] \in Writing \cup {"rename"} =>
    /\ fd[p] \in temps /\ fd[p] \notin {target, target_disk}
    /\ \A q \in Proc \ {p} : fd[q] # fd[p]
=============================================================================
