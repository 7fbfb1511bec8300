----------------------------- MODULE Snapshots -----------------------------
(***************************************************************************)
(* The agent-ready snapshot of one image chain: Manager.Run with a         *)
(* snapshot directory, which restores the artifacts it finds or creates    *)
(* them first; Manager.CreateSnapshot; Manager.DeleteSnapshot.  Any number *)
(* of calls run at once, in one daemon or in several processes, and no     *)
(* lock orders them.  What they share is the directory: the memory file,   *)
(* the state file and, without a jailer, the vsock socket.                 *)
(***************************************************************************)
EXTENDS Integers

CONSTANTS
    Runs,       \* Run calls with a snapshot directory
    Makers,     \* CreateSnapshot calls
    Deletes,    \* DeleteSnapshot calls
    Settings,   \* with or without a jailer, and the calls that are made
    Shared,     \* names the socket in the workspace directory
    Nil,
    MaxFaults   \* bound: failed snapshot writes and crashed processes

Owners == Runs \cup Makers
Calls == Owners \cup Deletes

ASSUME CallsAssumption ==
    /\ Runs \cap Makers = {} /\ Owners \cap Deletes = {}
    /\ Shared \notin Calls
    /\ Settings \subseteq [jailed: BOOLEAN, calls: SUBSET Calls]
    /\ MaxFaults \in Nat

ASSUME NilAssumption ==
    /\ Nil \notin [by: SUBSET Owners, open: SUBSET Owners]
    /\ Nil \notin Owners \X {"booted", "restored"}

VARIABLES
    mem, state,      \* the artifact files
    workspace,       \* the workspace directory, home of the shared socket
    sock,            \* which VM is bound to a vsock socket path
    vm,              \* each VM: "off", "boot", "ready" or "paused"
    used,            \* its agent has taken a batch
    image,           \* what the snapshot of a call captured
    memRead,         \* the memory file a restore was given
    stateRead,       \* the state file a restore was given
    ranIn,           \* the VM that took the batch of a run
    pc,
    jailed,          \* a jailer is configured
    faults

files == <<mem, state>>
sockets == <<workspace, sock>>
machines == <<sockets, vm, used, image>>
restores == <<memRead, stateRead, ranIn>>
vars == <<files, machines, restores, pc, jailed, faults>>

(* A file: who wrote into it since it was truncated, who still does. *)
File == [by: SUBSET Owners, open: SUBSET Owners]

(* The VM a call boots for its snapshot and the VM a run restores. *)
Booted(p) == <<p, "booted">>
Restored(p) == <<p, "restored">>
VMs == Owners \X {"booted", "restored"}

(* Faulty variant: with a jailer too the socket is the workspace's. *)
SockShared(p) == Shared

(* The socket of a call: in its own jail, or in the one workspace. *)
SockOf(p) == IF jailed THEN p ELSE Shared

Init ==
    /\ mem = Nil /\ state = Nil
    /\ workspace = FALSE
    /\ sock = [s \in Owners \cup {Shared} |-> Nil]
    /\ vm = [v \in VMs |-> "off"]
    /\ used = [v \in VMs |-> FALSE]
    /\ image = [p \in Owners |-> "none"]
    /\ memRead = [r \in Runs |-> Nil]
    /\ stateRead = [r \in Runs |-> Nil]
    /\ ranIn = [r \in Runs |-> Nil]
    /\ \E s \in Settings :
          /\ jailed = s.jailed
          /\ pc = [p \in Calls |-> IF p \notin s.calls THEN "done"
                                   ELSE IF p \in Runs THEN "statMem"
                                   ELSE IF p \in Makers THEN "removeMem" ELSE "deleteMem"]
    /\ faults = 0

Goto(p, l) == pc' = [pc EXCEPT ![p] = l]

(* A call returns: its deferred StopVMM or Kill ends its VM. *)
Return(p) ==
    /\ vm' = [vm EXCEPT ![Booted(p)] = "off", ![Restored(p)] = "off"]
    /\ Goto(p, "done")

-----------------------------------------------------------------------------
(***************************************************************************)
(* SnapshotExists: two stats.                                              *)
(***************************************************************************)
StatMem(r) ==
    /\ pc[r] = "statMem"
    /\ Goto(r, IF mem = Nil THEN "removeMem" ELSE "statState")
    /\ UNCHANGED <<files, machines, restores, faults>>

StatState(r) ==
    /\ pc[r] = "statState"
    /\ Goto(r, IF state = Nil THEN "removeMem" ELSE "clearSock")
    /\ UNCHANGED <<files, machines, restores, faults>>

-----------------------------------------------------------------------------
(***************************************************************************)
(* CreateReadySnapshot: remove the old artifacts and the old socket, boot, *)
(* wait for the agent, pause, write.                                       *)
(***************************************************************************)
RemoveMem(c) ==
    /\ pc[c] = "removeMem"
    /\ mem' = Nil
    /\ Goto(c, "removeState")
    /\ UNCHANGED <<state, machines, restores, faults>>

RemoveState(c) ==
    /\ pc[c] = "removeState"
    /\ state' = Nil
    /\ Goto(c, "removeSock")
    /\ UNCHANGED <<mem, machines, restores, faults>>

RemoveSock(c) ==
    /\ pc[c] = "removeSock"
    /\ workspace' = TRUE
    /\ sock' = [sock EXCEPT ![SockOf(c)] = Nil]
    /\ Goto(c, "boot")
    /\ UNCHANGED <<files, vm, used, image, restores, faults>>

(* The VMM refuses a socket path that exists or has no directory. *)
CanBind(p) == sock[SockOf(p)] = Nil /\ (jailed \/ workspace)

BootVM(c) ==
    /\ pc[c] = "boot"
    /\ CanBind(c)
    /\ sock' = [sock EXCEPT ![SockOf(c)] = Booted(c)]
    /\ vm' = [vm EXCEPT ![Booted(c)] = "boot"]
    /\ Goto(c, "waitAgent")
    /\ UNCHANGED <<files, workspace, used, image, restores, faults>>

(* The VM that answers on the call's socket. *)
Answers(p, v) == sock[SockOf(p)] = v /\ vm[v] = "ready"

(* Faulty variant: the VM is paused as soon as it runs. *)
WaitForMachine(c) ==
    /\ pc[c] = "waitAgent"
    /\ Goto(c, "pause")
    /\ UNCHANGED <<files, machines, restores, faults>>

(* waitForAgent: a healthz answer on the socket, whoever gives it. *)
WaitForAgent(c) ==
    /\ pc[c] = "waitAgent"
    /\ \E v \in VMs : Answers(c, v)
    /\ Goto(c, "pause")
    /\ UNCHANGED <<files, machines, restores, faults>>

(* A VM that does not start (its socket cannot be bound, say), an agent
   that does not answer in time, a VM that cannot be paused. *)
CreateFails(c) ==
    /\ pc[c] \in {"boot", "waitAgent", "pause"}
    /\ Return(c)
    /\ UNCHANGED <<files, sockets, used, image, restores, faults>>

(* Faulty variant: the capture records a paused machine, not its agent. *)
PauseRaw(c) ==
    /\ pc[c] = "pause"
    /\ vm[Booted(c)] \in {"boot", "ready"}
    /\ vm' = [vm EXCEPT ![Booted(c)] = "paused"]
    /\ image' = [image EXCEPT ![c] = vm'[Booted(c)]]
    /\ Goto(c, "create")
    /\ UNCHANGED <<files, sockets, used, restores, faults>>

PauseVM(c) ==
    /\ pc[c] = "pause"
    /\ vm[Booted(c)] \in {"boot", "ready"}
    /\ image' = [image EXCEPT ![c] = IF vm[Booted(c)] = "boot" THEN "booting"
                                     ELSE IF used[Booted(c)] THEN "used" ELSE "ready"]
    /\ vm' = [vm EXCEPT ![Booted(c)] = "paused"]
    /\ Goto(c, "create")
    /\ UNCHANGED <<files, sockets, used, restores, faults>>

(* Opening an artifact for writing truncates the one that is there. *)
Opened(f, c) ==
    [by |-> {c} \cup (IF f = Nil THEN {} ELSE f.open),
     open |-> {c} \cup (IF f = Nil THEN {} ELSE f.open)]

Closed(f, c) == IF f = Nil THEN Nil ELSE [f EXCEPT !.open = @ \ {c}]

(* Faulty variant: with a jailer too the VMM writes the artifacts in place. *)
CreateInPlace(c) ==
    /\ pc[c] = "create"
    /\ mem' = Opened(mem, c) /\ state' = Opened(state, c)
    /\ Goto(c, "write")
    /\ UNCHANGED <<machines, restores, faults>>

(* The VMM starts to write: in place, or inside the jail of the call. *)
CreateSnapshot(c) ==
    /\ pc[c] = "create"
    /\ \/ /\ ~jailed
          /\ mem' = Opened(mem, c) /\ state' = Opened(state, c)
       \/ /\ jailed
          /\ UNCHANGED files
    /\ Goto(c, "write")
    /\ UNCHANGED <<machines, restores, faults>>

CreateDone(c) ==
    /\ pc[c] = "write"
    /\ mem' = Closed(mem, c) /\ state' = Closed(state, c)
    /\ Goto(c, IF jailed THEN "unlinkMem" ELSE "unbind")
    /\ UNCHANGED <<machines, restores, faults>>

(* The write fails half way; nothing removes what it left behind. *)
WriteFails(c) ==
    /\ pc[c] = "write"
    /\ faults < MaxFaults
    /\ faults' = faults + 1
    /\ Return(c)
    /\ UNCHANGED <<files, sockets, used, image, restores>>

(* linkFile, for the memory and then for the state: remove, then link. *)
UnlinkMem(c) ==
    /\ pc[c] = "unlinkMem"
    /\ mem' = Nil
    /\ Goto(c, "linkMem")
    /\ UNCHANGED <<state, machines, restores, faults>>

LinkMem(c) ==
    /\ pc[c] = "linkMem"
    /\ mem = Nil
    /\ mem' = [by |-> {c}, open |-> {}]
    /\ Goto(c, "unlinkState")
    /\ UNCHANGED <<state, machines, restores, faults>>

UnlinkState(c) ==
    /\ pc[c] = "unlinkState"
    /\ state' = Nil
    /\ Goto(c, "linkState")
    /\ UNCHANGED <<mem, machines, restores, faults>>

LinkState(c) ==
    /\ pc[c] = "linkState"
    /\ state = Nil
    /\ state' = [by |-> {c}, open |-> {}]
    /\ Goto(c, "unbind")
    /\ UNCHANGED <<mem, machines, restores, faults>>

(* Another call has linked its own file in between. *)
LinkFails(c) ==
    /\ \/ pc[c] = "linkMem" /\ mem # Nil
       \/ pc[c] = "linkState" /\ state # Nil
    /\ Return(c)
    /\ UNCHANGED <<files, sockets, used, image, restores, faults>>

(* The socket goes, the deferred StopVMM runs; a Run goes on to restore. *)
Unbind(c) ==
    /\ pc[c] = "unbind"
    /\ sock' = [sock EXCEPT ![SockOf(c)] = Nil]
    /\ vm' = [vm EXCEPT ![Booted(c)] = "off"]
    /\ Goto(c, IF c \in Runs THEN "clearSock" ELSE "done")
    /\ UNCHANGED <<files, workspace, used, image, restores, faults>>

-----------------------------------------------------------------------------
(***************************************************************************)
(* startFromSnapshot: remove the old socket, hand the two files to the VMM *)
(* (by a link into the jail, memory first, or by their paths), load, send  *)
(* the batch to the agent behind the socket.                               *)
(***************************************************************************)
ClearSock(r) ==
    /\ pc[r] = "clearSock"
    /\ sock' = [sock EXCEPT ![SockOf(r)] = Nil]
    /\ Goto(r, "read")
    /\ UNCHANGED <<files, workspace, vm, used, image, restores, faults>>

ReadMem(r) ==
    /\ pc[r] = "read"
    /\ memRead[r] = Nil /\ mem # Nil
    /\ memRead' = [memRead EXCEPT ![r] = mem]
    /\ UNCHANGED <<files, machines, stateRead, ranIn, pc, faults>>

ReadState(r) ==
    /\ pc[r] = "read"
    /\ stateRead[r] = Nil /\ state # Nil
    /\ jailed => memRead[r] # Nil
    /\ stateRead' = [stateRead EXCEPT ![r] = state]
    /\ UNCHANGED <<files, machines, memRead, ranIn, pc, faults>>

BothRead(r) == memRead[r] # Nil /\ stateRead[r] # Nil

(* The restored VM is the one some writer of the state file captured. *)
LoadSnapshot(r) ==
    /\ pc[r] = "read"
    /\ BothRead(r)
    /\ CanBind(r)
    /\ sock' = [sock EXCEPT ![SockOf(r)] = Restored(r)]
    /\ \E w \in stateRead[r].by :
         /\ vm' = [vm EXCEPT ![Restored(r)] =
                            IF image[w] = "booting" THEN "boot" ELSE "ready"]
         /\ used' = [used EXCEPT ![Restored(r)] = image[w] = "used"]
    /\ Goto(r, "dial")
    /\ UNCHANGED <<files, workspace, image, restores, faults>>

(* The VMM does not come up, a file is gone or not to its liking, or the
   socket cannot be bound. *)
RestoreFails(r) ==
    /\ pc[r] = "read"
    /\ Return(r)
    /\ UNCHANGED <<files, sockets, used, image, restores, faults>>

(* Faulty variant: the agent takes every batch it is sent. *)
AcceptsAny(v) == TRUE

(* The agent's one-shot flag; it refuses a second batch. *)
Accepts(v) == ~used[v]

SendBatch(r) ==
    /\ pc[r] = "dial"
    /\ \E v \in VMs :
         /\ Answers(r, v)
         /\ Accepts(v)
         /\ used' = [used EXCEPT ![v] = TRUE]
         /\ ranIn' = [ranIn EXCEPT ![r] = v]
    /\ Goto(r, "stop")
    /\ UNCHANGED <<files, sockets, vm, image, memRead, stateRead, faults>>

(* No agent takes the batch before the run's timeout. *)
RunExpires(r) ==
    /\ pc[r] = "dial"
    /\ Return(r)
    /\ UNCHANGED <<files, sockets, used, image, restores, faults>>

(* The response, or the timeout while the batch runs; SIGTERM, then kill. *)
StopVM(r) ==
    /\ pc[r] = "stop"
    /\ Return(r)
    /\ UNCHANGED <<files, sockets, used, image, restores, faults>>

-----------------------------------------------------------------------------
(* The guest: its agent starts to serve; with its batch done it powers off. *)
AgentServes(v) ==
    /\ vm[v] = "boot"
    /\ vm' = [vm EXCEPT ![v] = "ready"]
    /\ UNCHANGED <<files, sockets, used, image, restores, pc, faults>>

PowerOff(v) ==
    /\ vm[v] = "ready" /\ used[v]
    /\ vm' = [vm EXCEPT ![v] = "off"]
    /\ UNCHANGED <<files, sockets, used, image, restores, pc, faults>>

(* The process of a call dies; its VM lives on and holds its socket. *)
Crash(p) ==
    /\ pc[p] # "done"
    /\ faults < MaxFaults
    /\ faults' = faults + 1
    /\ Goto(p, "done")
    /\ UNCHANGED <<files, machines, restores>>

-----------------------------------------------------------------------------
(* DeleteSnapshot: memory file, state file, workspace directory. *)
DeleteMem(d) ==
    /\ pc[d] = "deleteMem"
    /\ mem' = Nil
    /\ Goto(d, "deleteState")
    /\ UNCHANGED <<state, machines, restores, faults>>

DeleteState(d) ==
    /\ pc[d] = "deleteState"
    /\ state' = Nil
    /\ Goto(d, "deleteDir")
    /\ UNCHANGED <<mem, machines, restores, faults>>

DeleteDir(d) ==
    /\ pc[d] = "deleteDir"
    /\ workspace' = FALSE
    /\ sock' = [sock EXCEPT ![Shared] = Nil]
    /\ Goto(d, "done")
    /\ UNCHANGED <<files, vm, used, image, restores, faults>>

-----------------------------------------------------------------------------
Create(c) ==
    \/ RemoveMem(c) \/ RemoveState(c) \/ RemoveSock(c)
    \/ BootVM(c) \/ WaitForAgent(c) \/ CreateFails(c) \/ PauseVM(c)
    \/ CreateSnapshot(c) \/ CreateDone(c)
    \/ UnlinkMem(c) \/ LinkMem(c) \/ UnlinkState(c) \/ LinkState(c) \/ LinkFails(c)
    \/ Unbind(c)

Restore(r) ==
    \/ StatMem(r) \/ StatState(r)
    \/ ClearSock(r) \/ ReadMem(r) \/ ReadState(r)
    \/ LoadSnapshot(r) \/ RestoreFails(r)
    \/ SendBatch(r) \/ RunExpires(r) \/ StopVM(r)

DeleteSnapshot(d) == DeleteMem(d) \/ DeleteState(d) \/ DeleteDir(d)

Guest(v) == AgentServes(v) \/ PowerOff(v)

(* Every call has returned. *)
Over ==
    /\ \A p \in Calls : pc[p] = "done"
    /\ UNCHANGED vars

(* Whether there is a jailer is configured once. *)
Next ==
    /\ UNCHANGED jailed
    /\ \/ \E r \in Runs : Restore(r)
       \/ \E c \in Owners : Create(c) \/ WriteFails(c)
       \/ \E v \in VMs : Guest(v)
       \/ \E d \in Deletes : DeleteSnapshot(d)
       \/ \E p \in Calls : Crash(p)
       \/ Over

Spec == Init /\ [][Next]_vars

-----------------------------------------------------------------------------
(* The state spaces of the variables. *)
TypeOK ==
    /\ mem \in File \cup {Nil}
    /\ state \in File \cup {Nil}
    /\ workspace \in BOOLEAN
    /\ sock \in [Owners \cup {Shared} -> VMs \cup {Nil}]
    /\ vm \in [VMs -> {"off", "boot", "ready", "paused"}]
    /\ used \in [VMs -> BOOLEAN]
    /\ image \in [Owners -> {"none", "booting", "used", "ready"}]
    /\ memRead \in [Runs -> File \cup {Nil}]
    /\ stateRead \in [Runs -> File \cup {Nil}]
    /\ ranIn \in [Runs -> VMs \cup {Nil}]
    /\ pc \in [Calls -> {"statMem", "statState", "removeMem", "removeState",
                         "removeSock", "boot", "waitAgent", "pause", "create",
                         "write", "unlinkMem", "linkMem", "unlinkState",
                         "linkState", "unbind", "clearSock", "read", "dial",
                         "stop", "deleteMem", "deleteState", "deleteDir", "done"}]
    /\ jailed \in BOOLEAN
    /\ faults \in 0..MaxFaults

(***************************************************************************)
(* With a jailer, where artifacts are written aside and linked into place, *)
(* a restore is never given a file that is still being written, that a     *)
(* failed or crashed creation left half written, or that two creations     *)
(* wrote into.                                                             *)
(***************************************************************************)
ReadsAreWhole ==
    jailed => \A r \in Runs : \A f \in {memRead[r], stateRead[r]} :
        f # Nil => f.open = {} /\ \E c \in Owners : f.by = {c}

(***************************************************************************)
(* With a jailer the artifacts hold an agent-ready VM: when it was paused, *)
(* its own agent served and had not yet taken a batch.  Another VM's       *)
(* answer to the health check, or a batch sent to the VM while it is       *)
(* prepared, breaks it for every later run.                                *)
(***************************************************************************)
SnapshotIsReady ==
    jailed /\ state # Nil => \A w \in state.by : image[w] = "ready"

(* A run's batch runs in the VM the run restored, not in another run's. *)
BatchRunsInOwnVM == \A r \in Runs : ranIn[r] \in {Nil, Restored(r)}

(* With a jailer it does: each VM has the socket of its own jail, whatever *)
(* the other calls remove and bind.                                        *)
JailedBatchRunsInOwnVM == jailed => BatchRunsInOwnVM

(***************************************************************************)
(* No VM takes the batches of two runs, also where the runs share one      *)
(* socket and reach each other's VMs.                                      *)
(***************************************************************************)
OneBatchPerVM ==
    \A r1, r2 \in Runs : r1 # r2 /\ ranIn[r1] # Nil => ranIn[r1] # ranIn[r2]
=============================================================================
