-------------------------- MODULE SnapshotsProofs --------------------------
(***************************************************************************)
(* Proofs about Snapshots for any number of runs, creations and deletes at *)
(* once, with any number of failed writes and crashes.                     *)
(***************************************************************************)
EXTENDS Snapshots, TLAPS

(* Where a call is: before it has captured a VM, between the capture and   *)
(* the end of the creation, and before it has restored one.                *)
Early == {"statMem", "statState", "removeMem", "removeState", "removeSock", "boot",
          "waitAgent", "pause"}
Mid == {"create", "write", "unlinkMem", "linkMem", "unlinkState", "linkState", "unbind"}
PreLoad == Early \cup Mid \cup {"clearSock", "read"}

-----------------------------------------------------------------------------
(* The VM of a restore is off until it is loaded, so nobody's batch is in  *)
(* it, and a VM that has a batch has its flag set.                         *)
BatchInv ==
    /\ \A r \in Runs : pc[r] \in PreLoad => vm[Restored(r)] = "off"
    /\ \A r, q \in Runs : ranIn[q] = Restored(r) => pc[r] \notin PreLoad
    /\ \A r \in Runs : ranIn[r] # Nil => used[ranIn[r]]

(* A file that one creation has written, from its beginning to its end. *)
Whole(f) == f # Nil => f.open = {} /\ \E c \in Owners : f.by = {c}

(* With a jailer both artifacts are whole whenever they are there. *)
FilesInv ==
    jailed => /\ Whole(mem) /\ Whole(state)
              /\ \A r \in Runs : Whole(memRead[r]) /\ Whole(stateRead[r])

(* With a jailer a socket leads to a VM of its own call: to the booted one *)
(* while it is being prepared, to the restored one when the batch is sent. *)
SocketInv ==
    jailed =>
        /\ \A c \in Owners : pc[c] \in {"waitAgent", "pause"} => sock[c] = Booted(c)
        /\ \A r \in Runs : pc[r] = "dial" => sock[r] = Restored(r)

(* With a jailer nobody's batch reaches a VM that is being prepared, and   *)
(* what is captured and linked is a VM whose agent serves.                 *)
CaptureInv ==
    jailed =>
        /\ \A c \in Owners : ~used[Booted(c)]
        /\ \A c \in Owners : pc[c] = "pause" => vm[Booted(c)] = "ready"
        /\ \A c \in Owners : pc[c] \in Early => image[c] = "none"
        /\ \A c \in Owners : pc[c] \in Mid => image[c] = "ready"

Inv ==
    /\ TypeOK
    /\ BatchInv /\ OneBatchPerVM
    /\ FilesInv /\ SocketInv /\ CaptureInv /\ SnapshotIsReady /\ JailedBatchRunsInOwnVM

-----------------------------------------------------------------------------
(* The two VMs of a call are VMs, and none is another's. *)
LEMMA VMFacts ==
    /\ \A p \in Owners : Booted(p) \in VMs /\ Restored(p) \in VMs
    /\ \A p, q \in Owners : Booted(p) # Restored(q)
    /\ \A p, q \in Owners : p # q => Booted(p) # Booted(q) /\ Restored(p) # Restored(q)
    /\ Nil \notin VMs
BY NilAssumption DEF Booted, Restored, VMs

(* A call's socket has a name. *)
LEMMA SockFacts ==
    ASSUME jailed \in BOOLEAN, NEW p \in Owners
    PROVE  /\ SockOf(p) \in Owners \cup {Shared}
           /\ jailed => SockOf(p) = p
           /\ Shared \notin Owners
BY CallsAssumption DEF SockOf, Calls

LEMMA InvInit == Init => Inv
<1> SUFFICES ASSUME Init PROVE Inv
  OBVIOUS
<1>1. TypeOK
  <2>1. jailed \in BOOLEAN
    BY CallsAssumption DEF Init
  <2>2. faults \in 0..MaxFaults
    BY CallsAssumption DEF Init
  <2>3. pc \in [Calls -> {"done", "statMem", "removeMem", "deleteMem"}]
    BY DEF Init
  <2>4. used \in [VMs -> BOOLEAN] /\ workspace \in BOOLEAN
    BY Zenon DEF Init
  <2> QED
    BY <2>1, <2>2, <2>3, <2>4 DEF Init, TypeOK
<1>2. pc \in [Calls -> {"done", "statMem", "removeMem", "deleteMem"}]
  BY DEF Init
<1>3. BatchInv /\ OneBatchPerVM
  BY VMFacts DEF Init, BatchInv, OneBatchPerVM, Owners
<1>4. FilesInv /\ SnapshotIsReady /\ JailedBatchRunsInOwnVM
  BY DEF Init, FilesInv, Whole, SnapshotIsReady, JailedBatchRunsInOwnVM, BatchRunsInOwnVM
<1>5. SocketInv /\ CaptureInv
  BY <1>2, VMFacts DEF Init, SocketInv, CaptureInv, Early, Mid, Calls, Owners
<1> QED
  BY <1>1, <1>3, <1>4, <1>5 DEF Inv
-----------------------------------------------------------------------------
(* Each step keeps the variables in their state spaces. *)
LEMMA TypeNext ==
    ASSUME TypeOK, [Next]_vars
    PROVE  TypeOK'
<1> USE VMFacts, SockFacts DEF TypeOK, File, files, sockets, machines, restores, Goto,
        Return, Owners, Calls
<1>0. jailed' = jailed
  BY DEF Next, vars
<1>1. ASSUME NEW r \in Runs, StatMem(r) \/ StatState(r) PROVE TypeOK'
  BY <1>0, <1>1 DEF StatMem, StatState
<1>2. ASSUME NEW r \in Runs, ClearSock(r) \/ ReadMem(r) \/ ReadState(r) PROVE TypeOK'
  BY <1>0, <1>2 DEF ClearSock, ReadMem, ReadState
<1>3. ASSUME NEW r \in Runs, LoadSnapshot(r) PROVE TypeOK'
  BY <1>0, <1>3 DEF LoadSnapshot
<1>4. ASSUME NEW r \in Runs, RestoreFails(r) \/ RunExpires(r) \/ StopVM(r) PROVE TypeOK'
  BY <1>0, <1>4 DEF RestoreFails, RunExpires, StopVM
<1>5. ASSUME NEW r \in Runs, SendBatch(r) PROVE TypeOK'
  BY <1>0, <1>5 DEF SendBatch
<1>6. ASSUME NEW c \in Owners, RemoveMem(c) \/ RemoveState(c) \/ RemoveSock(c) PROVE TypeOK'
  BY <1>0, <1>6 DEF RemoveMem, RemoveState, RemoveSock
<1>7. ASSUME NEW c \in Owners, BootVM(c) \/ WaitForAgent(c) PROVE TypeOK'
  BY <1>0, <1>7 DEF BootVM, WaitForAgent
<1>8. ASSUME NEW c \in Owners, CreateFails(c) \/ PauseVM(c) PROVE TypeOK'
  BY <1>0, <1>8 DEF CreateFails, PauseVM
<1>9. ASSUME NEW c \in Owners, CreateSnapshot(c) \/ CreateDone(c) PROVE TypeOK'
  BY <1>0, <1>9 DEF CreateSnapshot, CreateDone, Opened, Closed
<1>10. ASSUME NEW c \in Owners, UnlinkMem(c) \/ LinkMem(c) \/ UnlinkState(c) \/ LinkState(c)
       PROVE  TypeOK'
  BY <1>0, <1>10 DEF UnlinkMem, LinkMem, UnlinkState, LinkState
<1>11. ASSUME NEW c \in Owners, LinkFails(c) \/ Unbind(c) PROVE TypeOK'
  BY <1>0, <1>11 DEF LinkFails, Unbind
<1>12. ASSUME NEW c \in Owners, WriteFails(c) PROVE TypeOK'
  BY <1>0, <1>12, CallsAssumption DEF WriteFails
<1>13. ASSUME NEW v \in VMs, Guest(v) PROVE TypeOK'
  BY <1>0, <1>13 DEF Guest, AgentServes, PowerOff
<1>14. ASSUME NEW d \in Deletes, DeleteSnapshot(d) PROVE TypeOK'
  BY <1>0, <1>14 DEF DeleteSnapshot, DeleteMem, DeleteState, DeleteDir
<1>15. ASSUME NEW p \in Calls, Crash(p) PROVE TypeOK'
  BY <1>0, <1>15, CallsAssumption DEF Crash
<1>16. CASE Over \/ UNCHANGED vars
  BY <1>0, <1>16 DEF Over, vars
<1> QED
  BY <1>1, <1>2, <1>3, <1>4, <1>5, <1>6, <1>7, <1>8, <1>9, <1>10, <1>11, <1>12, <1>13,
     <1>14, <1>15, <1>16 DEF Next, Restore, Create

(* Files change where they are opened, closed, linked or removed. *)
LEMMA FilesNext ==
    ASSUME Inv, [Next]_vars
    PROVE  FilesInv'
<1> SUFFICES ASSUME jailed
             PROVE  /\ Whole(mem') /\ Whole(state')
                    /\ \A r \in Runs : Whole(memRead'[r]) /\ Whole(stateRead'[r])
  BY DEF Next, vars, FilesInv, Whole
<1> USE DEF Inv, TypeOK, FilesInv, files, machines, restores, Goto, Return
<1>1. Whole(Nil) /\ \A c \in Owners : Whole([by |-> {c}, open |-> {}])
  BY DEF Whole
<1>2. ASSUME NEW r \in Runs, Restore(r)
      PROVE  /\ mem' = mem /\ state' = state
             /\ \A q \in Runs : memRead'[q] \in {memRead[q], mem}
                               /\ stateRead'[q] \in {stateRead[q], state}
  BY <1>2 DEF Restore, StatMem, StatState, ClearSock, ReadMem, ReadState, LoadSnapshot,
              RestoreFails, SendBatch, RunExpires, StopVM
<1>3. ASSUME NEW c \in Owners, Create(c) \/ WriteFails(c)
      PROVE  /\ UNCHANGED <<memRead, stateRead>>
             /\ Whole(mem') /\ Whole(state')
  <2>1. CASE CreateDone(c)
    BY <2>1 DEF CreateDone, Closed, Whole, File
  <2>2. CASE ~CreateDone(c)
    BY <1>1, <1>3, <2>2
       DEF Create, RemoveMem, RemoveState, RemoveSock, BootVM, WaitForAgent, CreateFails,
           PauseVM, CreateSnapshot, UnlinkMem, LinkMem, UnlinkState, LinkState, LinkFails,
           Unbind, WriteFails
  <2>3. UNCHANGED <<memRead, stateRead>>
    BY <1>3 DEF Create, RemoveMem, RemoveState, RemoveSock, BootVM, WaitForAgent,
           CreateFails, PauseVM, CreateSnapshot, CreateDone, UnlinkMem, LinkMem,
           UnlinkState, LinkState, LinkFails, Unbind, WriteFails
  <2> QED
    BY <2>1, <2>2, <2>3
<1>4. ASSUME NEW d \in Deletes, DeleteSnapshot(d)
      PROVE  /\ UNCHANGED <<memRead, stateRead>>
             /\ mem' \in {mem, Nil} /\ state' \in {state, Nil}
  BY <1>4 DEF DeleteSnapshot, DeleteMem, DeleteState, DeleteDir
<1>5. CASE (\E v \in VMs : Guest(v)) \/ (\E p \in Calls : Crash(p)) \/ Over \/ UNCHANGED vars
  BY <1>5 DEF Guest, AgentServes, PowerOff, Crash, Over, vars
<1> QED
  BY <1>1, <1>2, <1>3, <1>4, <1>5 DEF Next
-----------------------------------------------------------------------------
(* A step that sends no batch, loads no VM and moves no call back. *)
LEMMA QuietStep ==
    ASSUME Inv, UNCHANGED <<ranIn, used>>,
           \A r \in Runs : /\ pc'[r] \in PreLoad => pc[r] \in PreLoad
                           /\ vm[Restored(r)] = "off" => vm'[Restored(r)] = "off"
    PROVE  BatchInv' /\ OneBatchPerVM'
BY DEF Inv, BatchInv, OneBatchPerVM

(* The one-shot flag keeps two batches out of one VM. *)
LEMMA BatchNext ==
    ASSUME Inv, [Next]_vars
    PROVE  BatchInv' /\ OneBatchPerVM'
<1> USE VMFacts DEF Inv, TypeOK, files, sockets, machines, restores, Goto, Return
<1> DEFINE Quiet == /\ UNCHANGED <<ranIn, used>>
                    /\ \A r \in Runs :
                          /\ pc'[r] \in PreLoad => pc[r] \in PreLoad
                          /\ vm[Restored(r)] = "off" => vm'[Restored(r)] = "off"
<1>1. ASSUME NEW r \in Runs, StatMem(r) \/ StatState(r) \/ ClearSock(r)
      PROVE  Quiet
  BY <1>1 DEF StatMem, StatState, ClearSock, PreLoad, Early, Mid, Calls, Owners
<1>2. ASSUME NEW r \in Runs, ReadMem(r) \/ ReadState(r) \/ RestoreFails(r)
                              \/ RunExpires(r) \/ StopVM(r)
      PROVE  Quiet
  BY <1>2 DEF ReadMem, ReadState, RestoreFails, RunExpires, StopVM, PreLoad, Early, Mid,
              Calls, Owners
<1>3. ASSUME NEW c \in Owners, Create(c) \/ WriteFails(c)
      PROVE  Quiet
  <2>1. pc[c] \in PreLoad /\ \A r \in Calls \ {c} : pc'[r] = pc[r]
    BY <1>3 DEF Create, RemoveMem, RemoveState, RemoveSock, BootVM, WaitForAgent,
           CreateFails, PauseVM, CreateSnapshot, CreateDone, UnlinkMem, LinkMem,
           UnlinkState, LinkState, LinkFails, Unbind, WriteFails, PreLoad, Early, Mid,
           Calls
  <2>2. UNCHANGED <<ranIn, used>>
    BY <1>3 DEF Create, RemoveMem, RemoveState, RemoveSock, BootVM, WaitForAgent,
           CreateFails, PauseVM, CreateSnapshot, CreateDone, UnlinkMem, LinkMem,
           UnlinkState, LinkState, LinkFails, Unbind, WriteFails
  <2>3. \/ vm' = vm
        \/ \E x \in {"off", "boot", "paused"} : vm' = [vm EXCEPT ![Booted(c)] = x]
        \/ vm' = [vm EXCEPT ![Booted(c)] = "off", ![Restored(c)] = "off"]
    BY <1>3 DEF Create, RemoveMem, RemoveState, RemoveSock, BootVM, WaitForAgent,
           CreateFails, PauseVM, CreateSnapshot, CreateDone, UnlinkMem, LinkMem,
           UnlinkState, LinkState, LinkFails, Unbind, WriteFails
  <2> QED
    BY <2>1, <2>2, <2>3 DEF Calls, Owners
<1>4. CASE \/ \E v \in VMs : Guest(v)
           \/ \E d \in Deletes : DeleteSnapshot(d)
           \/ \E p \in Calls : Crash(p)
           \/ Over \/ UNCHANGED vars
  <2>1. Quiet
    BY <1>4, CallsAssumption
       DEF Guest, AgentServes, PowerOff, DeleteSnapshot, DeleteMem, DeleteState, DeleteDir,
           Crash, Over, vars, PreLoad, Early, Mid, Calls, Owners
  <2> QED
    BY <2>1, QuietStep
<1>5. ASSUME NEW r \in Runs, LoadSnapshot(r)
      PROVE  BatchInv' /\ OneBatchPerVM'
  <2>1. pc[r] \in PreLoad /\ pc' = [pc EXCEPT ![r] = "dial"] /\ ranIn' = ranIn
    BY <1>5 DEF LoadSnapshot, PreLoad
  <2>2. \A v \in VMs \ {Restored(r)} : vm'[v] = vm[v] /\ used'[v] = used[v]
    BY <1>5 DEF LoadSnapshot
  <2>3. \A q \in Runs : ranIn[q] # Restored(r)
    BY <2>1 DEF BatchInv
  <2> QED
    BY <2>1, <2>2, <2>3 DEF BatchInv, OneBatchPerVM, PreLoad, Early, Mid, Calls, Owners
<1>6. ASSUME NEW r \in Runs, SendBatch(r)
      PROVE  BatchInv' /\ OneBatchPerVM'
  <2>1. PICK v \in VMs : Answers(r, v) /\ ~used[v] /\ used' = [used EXCEPT ![v] = TRUE]
                         /\ ranIn' = [ranIn EXCEPT ![r] = v]
    BY <1>6 DEF SendBatch, Accepts
  <2>2. vm' = vm /\ pc' = [pc EXCEPT ![r] = "stop"]
    BY <1>6 DEF SendBatch
  <2>3. \A q \in Runs : ranIn[q] # v
    BY <2>1 DEF BatchInv
  <2>4. \A q \in Runs : v = Restored(q) => pc[q] \notin PreLoad
    BY <2>1 DEF BatchInv, Answers
  <2> QED
    BY <2>1, <2>2, <2>3, <2>4 DEF BatchInv, OneBatchPerVM, PreLoad, Early, Mid, Calls, Owners
<1> QED
  BY <1>1, <1>2, <1>3, <1>4, <1>5, <1>6, QuietStep DEF Next, Restore
-----------------------------------------------------------------------------
(* The parts of the invariant that need a jailer. *)
JailInv == SocketInv /\ CaptureInv /\ SnapshotIsReady /\ JailedBatchRunsInOwnVM

(* Steps that leave sockets, captures and batches alone, move one call on  *)
(* and remove files at most.                                               *)
LEMMA JailKept ==
    ASSUME Inv, jailed, jailed' = jailed,
           UNCHANGED <<used, image, ranIn>>, state' \in {state, Nil},
           \A c \in Owners : sock'[c] = sock[c],
           NEW p \in Calls, \A q \in Calls \ {p} : pc'[q] = pc[q],
           \/ pc'[p] \in {pc[p], "done", "clearSock", "read", "stop", "deleteState", "deleteDir"}
           \/ pc[p] \in Early /\ pc'[p] \in Early \ {"waitAgent", "pause"}
           \/ pc[p] \in Mid /\ pc'[p] \in Mid,
           \A c \in Owners : pc[c] = "pause" =>
               vm'[Booted(c)] = vm[Booted(c)] \/ pc'[c] # "pause"
    PROVE  JailInv'
<1>1. SocketInv'
  BY DEF Inv, SocketInv, Calls, Owners, Early, Mid
<1>2. CaptureInv'
  BY DEF Inv, CaptureInv, Calls, Owners, Early, Mid
<1>3. SnapshotIsReady' /\ JailedBatchRunsInOwnVM'
  BY DEF Inv, SnapshotIsReady, JailedBatchRunsInOwnVM, BatchRunsInOwnVM
<1> QED
  BY <1>1, <1>2, <1>3 DEF JailInv

LEMMA JailNext ==
    ASSUME Inv, [Next]_vars
    PROVE  JailInv'
<1>0. jailed' = jailed /\ jailed \in BOOLEAN
  BY DEF Next, vars, Inv, TypeOK
<1>00. CASE ~jailed
  BY <1>0, <1>00 DEF JailInv, SocketInv, CaptureInv, SnapshotIsReady, JailedBatchRunsInOwnVM
<1> SUFFICES ASSUME jailed PROVE JailInv'
  BY <1>0, <1>00
<1> USE VMFacts, SockFacts, <1>0 DEF Inv, TypeOK, files, sockets, machines, restores, Goto,
        Return
<1>1. ASSUME NEW r \in Runs, StatMem(r) \/ StatState(r) \/ ReadMem(r) \/ ReadState(r)
      PROVE  JailInv'
  BY <1>1, JailKept DEF StatMem, StatState, ReadMem, ReadState, Calls, Owners, Early
<1>2. ASSUME NEW r \in Runs, RestoreFails(r) \/ RunExpires(r) \/ StopVM(r)
      PROVE  JailInv'
  BY <1>2, JailKept DEF RestoreFails, RunExpires, StopVM, Calls, Owners, Early
<1>3. ASSUME NEW c \in Owners,
             RemoveMem(c) \/ RemoveState(c) \/ CreateFails(c) \/ WriteFails(c) \/ LinkFails(c)
      PROVE  JailInv'
  BY <1>3, JailKept DEF RemoveMem, RemoveState, CreateFails, WriteFails, LinkFails, Calls,
                        Owners, Early
<1>4. ASSUME NEW c \in Owners,
             CreateSnapshot(c) \/ UnlinkMem(c) \/ LinkMem(c) \/ UnlinkState(c)
      PROVE  JailInv'
  BY <1>4, JailKept DEF CreateSnapshot, UnlinkMem, LinkMem, UnlinkState, Calls, Owners, Mid
<1>5. ASSUME NEW d \in Deletes, DeleteSnapshot(d)
      PROVE  JailInv'
  BY <1>5, JailKept DEF DeleteSnapshot, DeleteMem, DeleteState, DeleteDir, Calls, Owners
<1>6. ASSUME NEW p \in Calls, Crash(p)
      PROVE  JailInv'
  BY <1>6, JailKept DEF Crash
<1>7. CASE Over \/ UNCHANGED vars
  BY <1>7 DEF Over, vars, JailInv, SocketInv, CaptureInv, SnapshotIsReady,
              JailedBatchRunsInOwnVM, BatchRunsInOwnVM
<1>8. ASSUME NEW c \in Owners, RemoveSock(c) \/ Unbind(c) \/ BootVM(c)
      PROVE  JailInv'
  <2>1. /\ UNCHANGED <<used, image, ranIn, state>>
        /\ \A d \in Owners \ {c} : sock'[d] = sock[d] /\ vm'[Booted(d)] = vm[Booted(d)]
        /\ \A d \in Calls \ {c} : pc'[d] = pc[d]
    BY <1>8 DEF RemoveSock, Unbind, BootVM, Calls
  <2>2. \/ pc[c] \in Early /\ pc'[c] = "boot"
        \/ pc[c] \in Early /\ pc'[c] = "waitAgent" /\ sock'[c] = Booted(c)
        \/ pc'[c] \in {"clearSock", "done"}
    BY <1>8 DEF RemoveSock, Unbind, BootVM, Calls, Early
  <2> QED
    BY <2>1, <2>2 DEF JailInv, SocketInv, CaptureInv, SnapshotIsReady,
              JailedBatchRunsInOwnVM, BatchRunsInOwnVM, Early, Mid, Calls, Owners
<1>9. ASSUME NEW c \in Owners, WaitForAgent(c)
      PROVE  JailInv'
  <2>1. vm[Booted(c)] = "ready"
    BY <1>9 DEF WaitForAgent, Answers, SocketInv
  <2>2. UNCHANGED <<used, image, ranIn, state, sock, vm>> /\ pc' = [pc EXCEPT ![c] = "pause"]
        /\ pc[c] = "waitAgent"
    BY <1>9 DEF WaitForAgent
  <2> QED
    BY <2>1, <2>2 DEF JailInv, SocketInv, CaptureInv, SnapshotIsReady,
              JailedBatchRunsInOwnVM, BatchRunsInOwnVM, Early, Mid, Calls, Owners
<1>10. ASSUME NEW c \in Owners, PauseVM(c)
      PROVE  JailInv'
  <2>1. pc[c] = "pause" /\ pc' = [pc EXCEPT ![c] = "create"]
        /\ UNCHANGED <<used, ranIn, state, sock>>
    BY <1>10 DEF PauseVM
  <2>2. image' = [image EXCEPT ![c] = "ready"]
    BY <1>10, <2>1 DEF PauseVM, CaptureInv
  <2>3. \A d \in Owners \ {c} : vm'[Booted(d)] = vm[Booted(d)]
    BY <1>10 DEF PauseVM
  <2> QED
    BY <2>1, <2>2, <2>3 DEF JailInv, SocketInv, CaptureInv, SnapshotIsReady,
              JailedBatchRunsInOwnVM, BatchRunsInOwnVM, Early, Mid, Calls, Owners
<1>11. ASSUME NEW c \in Owners, CreateDone(c) \/ LinkState(c)
      PROVE  JailInv'
  <2>1. UNCHANGED <<used, image, ranIn, sock, vm>> /\ pc[c] \in Mid
        /\ \E l \in Mid : pc' = [pc EXCEPT ![c] = l]
    BY <1>11 DEF CreateDone, LinkState, Mid
  <2>2. state' # Nil => \A w \in state'.by : image[w] = "ready"
    <3>1. CASE CreateDone(c)
      <4>1. state' # Nil => state # Nil /\ state'.by = state.by
        BY <3>1 DEF CreateDone, Closed, File
      <4> QED
        BY <4>1 DEF SnapshotIsReady
    <3>2. CASE LinkState(c)
      <4>1. state'.by = {c} /\ image[c] = "ready"
        BY <2>1, <3>2 DEF LinkState, CaptureInv
      <4> QED
        BY <4>1
    <3> QED
      BY <1>11, <3>1, <3>2
  <2> QED
    BY <2>1, <2>2 DEF JailInv, SocketInv, CaptureInv, SnapshotIsReady,
              JailedBatchRunsInOwnVM, BatchRunsInOwnVM, Early, Mid, Calls, Owners
<1>12. ASSUME NEW r \in Runs, ClearSock(r) \/ LoadSnapshot(r)
      PROVE  JailInv'
  <2>1. /\ UNCHANGED <<image, ranIn, state>>
        /\ \A c \in Owners : used'[Booted(c)] = used[Booted(c)] /\ vm'[Booted(c)] = vm[Booted(c)]
        /\ \A c \in Owners \ {r} : sock'[c] = sock[c]
        /\ \A c \in Calls \ {r} : pc'[c] = pc[c]
    BY <1>12 DEF ClearSock, LoadSnapshot, Calls, Owners
  <2>2. pc'[r] = "read" \/ (pc'[r] = "dial" /\ sock'[r] = Restored(r))
    BY <1>12 DEF ClearSock, LoadSnapshot, Calls, Owners
  <2> QED
    BY <2>1, <2>2 DEF JailInv, SocketInv, CaptureInv, SnapshotIsReady,
              JailedBatchRunsInOwnVM, BatchRunsInOwnVM, Early, Mid, Calls, Owners
<1>13. ASSUME NEW r \in Runs, SendBatch(r)
      PROVE  JailInv'
  <2>1. r \in Owners /\ r \in Calls
    BY DEF Owners, Calls
  <2>2. used' = [used EXCEPT ![Restored(r)] = TRUE] /\ ranIn' = [ranIn EXCEPT ![r] = Restored(r)]
    BY <1>13, <2>1 DEF SendBatch, Answers, SocketInv
  <2>3. UNCHANGED <<sock, vm, image, state>> /\ pc' = [pc EXCEPT ![r] = "stop"]
    BY <1>13 DEF SendBatch
  <2> QED
    BY <2>1, <2>2, <2>3 DEF JailInv, SocketInv, CaptureInv, SnapshotIsReady,
              JailedBatchRunsInOwnVM, BatchRunsInOwnVM, Early, Mid, Calls, Owners
<1>14. ASSUME NEW v \in VMs, Guest(v)
      PROVE  JailInv'
  <2>1. UNCHANGED <<sock, used, image, ranIn, state, pc>>
    BY <1>14 DEF Guest, AgentServes, PowerOff
  <2>2. \A c \in Owners : vm[Booted(c)] = "ready" => vm'[Booted(c)] = "ready"
    BY <1>14 DEF Guest, AgentServes, PowerOff, CaptureInv
  <2> QED
    BY <2>1, <2>2 DEF JailInv, SocketInv, CaptureInv, SnapshotIsReady,
              JailedBatchRunsInOwnVM, BatchRunsInOwnVM
<1> QED
  BY <1>1, <1>2, <1>3, <1>4, <1>5, <1>6, <1>7, <1>8, <1>9, <1>10, <1>11, <1>12, <1>13,
     <1>14 DEF Next, Restore, Create

(* The invariant is inductive. *)
LEMMA InvNext == Inv /\ [Next]_vars => Inv'
<1> SUFFICES ASSUME Inv, [Next]_vars PROVE Inv'
  OBVIOUS
<1>1. TypeOK'
  BY TypeNext DEF Inv
<1> QED
  BY <1>1, FilesNext, BatchNext, JailNext DEF Inv, JailInv

LEMMA Invariance == Spec => []Inv
BY InvInit, InvNext, PTL DEF Spec

-----------------------------------------------------------------------------
(* Type correctness of snapshot creation and restore. *)
THEOREM TypeCorrect == Spec => []TypeOK
<1>1. Inv => TypeOK
  BY DEF Inv
<1> QED
  BY <1>1, Invariance, PTL

(* With a jailer startFromSnapshot is only ever given whole files. *)
THEOREM RestoresReadWholeFiles == Spec => []ReadsAreWhole
<1>1. Inv => ReadsAreWhole
  BY DEF Inv, FilesInv, Whole, ReadsAreWhole
<1> QED
  BY <1>1, Invariance, PTL

(* With a jailer CreateReadySnapshot only links VMs whose agent serves and *)
(* has not been used.                                                      *)
THEOREM SnapshotsAreReady == Spec => []SnapshotIsReady
<1>1. Inv => SnapshotIsReady
  BY DEF Inv
<1> QED
  BY <1>1, Invariance, PTL

(* With a jailer a batch runs in the VM its run restored. *)
THEOREM BatchesStayInTheirVM == Spec => []JailedBatchRunsInOwnVM
<1>1. Inv => JailedBatchRunsInOwnVM
  BY DEF Inv
<1> QED
  BY <1>1, Invariance, PTL

(* With or without a jailer no VM takes two batches. *)
THEOREM VMsTakeOneBatch == Spec => []OneBatchPerVM
<1>1. Inv => OneBatchPerVM
  BY DEF Inv
<1> QED
  BY <1>1, Invariance, PTL
=============================================================================
