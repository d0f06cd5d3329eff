---------------------------- MODULE FileRegister ----------------------------
(***************************************************************************)
(* What tofile() and fromfile() promise about one path: the file is absent  *)
(* or holds one whole value; a call either replaces it, once, and succeeds, *)
(* or fails and leaves it alone; a read returns what the file held at some  *)
(* moment of the call. The disk follows what is visible, late, but never    *)
(* holds anything else, so a crash goes back to a whole value.              *)
(***************************************************************************)
CONSTANTS Proc, Data, NoFile

VARIABLES
  visible,     \* what opening the path finds
  durable,     \* what it would find after a crash
  call,        \* per process, the call of its in progress
  answer       \* per process, what its last fromfile() found

register == <<visible, durable, call, answer>>

Idle == [state |-> "idle", value |-> NoFile]
Content == Data \cup {NoFile}

Init ==
  /\ visible \in Content
  /\ durable = visible
  /\ call = [p \in Proc |-> Idle]
  /\ answer = [p \in Proc |-> NoFile]

Begin(p, v) ==
  /\ call[p] = Idle
  /\ call' = [call EXCEPT ![p] = [state |-> "pending", value |-> v]]
  /\ UNCHANGED <<visible, durable, answer>>

Commit(p) ==
  /\ call[p].state = "pending"
  /\ visible' = call[p].value
  /\ call' = [call EXCEPT ![p].state = "committed"]
  /\ UNCHANGED <<durable, answer>>

(* The call returns normally, or raises an error.                           *)
Return(p) ==
  /\ call[p].state = "committed"
  /\ call' = [call EXCEPT ![p] = Idle]
  /\ UNCHANGED <<visible, durable, answer>>

Fail(p) ==
  /\ call[p].state = "pending"
  /\ call' = [call EXCEPT ![p] = Idle]
  /\ UNCHANGED <<visible, durable, answer>>

(* The process is killed in the middle of a call.                           *)
Kill(p) ==
  /\ call' = [call EXCEPT ![p] = Idle]
  /\ answer' = [answer EXCEPT ![p] = NoFile]
  /\ UNCHANGED <<visible, durable>>

Delete ==
  /\ visible' = NoFile
  /\ UNCHANGED <<durable, call, answer>>

Read(p) ==
  /\ answer' = [answer EXCEPT ![p] = visible]
  /\ UNCHANGED <<visible, durable, call>>

ReadFails(p) ==
  /\ answer' = [answer EXCEPT ![p] = NoFile]
  /\ UNCHANGED <<visible, durable, call>>

Sync ==
  /\ durable' = visible
  /\ UNCHANGED <<visible, call, answer>>

Crash ==
  /\ visible' = durable
  /\ call' = [p \in Proc |-> Idle]
  /\ answer' = [p \in Proc |-> NoFile]
  /\ UNCHANGED durable

Next ==
  \/ \E p \in Proc :
       \/ \E v \in Data : Begin(p, v)
       \/ Commit(p) \/ Return(p) \/ Fail(p) \/ Kill(p)
       \/ Read(p) \/ ReadFails(p)
  \/ Delete \/ Sync \/ Crash

Spec == Init /\ [][Next]_register
=============================================================================
