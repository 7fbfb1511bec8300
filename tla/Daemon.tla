------------------------------- MODULE Daemon -------------------------------
(***************************************************************************)
(* The daemon's calls put together: Manager.Run and CreateSnapshot, each a *)
(* sequence of prepare, stat, create and start, beside the deletes, the    *)
(* registry's tags, command lines that use the same store, and the end of  *)
(* the daemon itself.  ImageStore, Snapshots and VMRun have the inside of  *)
(* these steps; here the question is what the calls do to each other       *)
(* between them.                                                           *)
(*                                                                         *)
(* There is one reference.  A snapshot is filed under a chain and holds a  *)
(* VM that has the rootfs of a chain as its drive, which need not be the   *)
(* same.                                                                   *)
(***************************************************************************)
EXTENDS Naturals

CONSTANTS
    Calls,      \* calls of the API
    Chains,     \* chain IDs the reference may resolve to
    Nil,
    Mixes,      \* the calls there may be together, functions from Calls to Kinds
    MaxUpsets   \* bound: moved tags, foreign pulls, failed lookups, deletes

ASSUME NilAssumption == Nil \notin Chains

(* POST images/prepare, runs with snapshot_mode "disabled" or "auto", and   *)
(* POST snapshots.                                                         *)
Kinds == {"prepare", "cold", "auto", "snapshot"}

ASSUME MixAssumption == Mixes \subseteq [Calls -> Kinds]
ASSUME UpsetAssumption == MaxUpsets \in Nat

VARIABLES
    tag,        \* the chain the registry has for the reference
    cached,     \* the chain of the ref file, Nil when of another platform
    rootfs,     \* the chains whose image exists
    snap,       \* the drive of the snapshot filed under each chain, or Nil
    jailed,     \* the daemon has a jailer
    kind,       \* what each call is, see Kinds
    pc,
    want,       \* the chain a preparation is at
    chain,      \* the chain a call has prepared, and reports
    image,      \* the chain whose rootfs it boots
    running,    \* the VMs, see VMs, whose process runs
    told,       \* those of them that were told to stop
    life,       \* the daemon: "serving", "draining", "exited" or "killed"
    deleted,    \* some image was deleted
    refLost,    \* some lookup, or pull for another platform, lost the ref file
    overtaken,  \* some pull replaced the ref file of an image in use
    upsets

store == <<cached, rootfs>>
call == <<kind, pc, want, chain, image>>
vms == <<running, told>>
history == <<deleted, refLost, overtaken, upsets>>
vars == <<tag, store, snap, jailed, call, vms, life, history>>

Ended == {"ok", "error", "cut"}

(* A call may start two VMs: one to take a snapshot of, one to run in. *)
VMs == Calls \X {"creation", "run"}

Init ==
    /\ tag \in Chains /\ cached = Nil
    /\ rootfs = {}
    /\ snap = [ch \in Chains |-> Nil]
    /\ jailed \in BOOLEAN
    /\ kind \in Mixes
    /\ pc = [c \in Calls |-> "new"]
    /\ want = [c \in Calls |-> Nil] /\ chain = want /\ image = want
    /\ running = {} /\ told = {}
    /\ life = "serving"
    /\ deleted = FALSE /\ refLost = FALSE /\ overtaken = FALSE /\ upsets = 0

Goto(c, label) == pc' = [pc EXCEPT ![c] = label]
Up == life \in {"serving", "draining"}
At(c, label) == Up /\ pc[c] = label

(* New calls are taken until the listener closes. *)
Accept(c) ==
    /\ life = "serving" /\ pc[c] = "new"
    /\ Goto(c, "readRef")
    /\ UNCHANGED <<tag, store, snap, jailed, kind, want, chain, image, vms, life, history>>

-----------------------------------------------------------------------------
(* PrepareImage, without a lock until it builds: the ref file, the image   *)
(* it names, and if either is missing the registry's answer, the new ref   *)
(* file and the image.  An "auto" run goes through it again when it        *)
(* creates its snapshot.                                                   *)

ReadRef(c) ==
    /\ At(c, "readRef")
    /\ want' = [want EXCEPT ![c] = cached]
    /\ Goto(c, IF cached = Nil THEN "resolve" ELSE "check")
    /\ UNCHANGED <<tag, store, snap, jailed, kind, chain, image, vms, life, history>>

(* What a call does with the chain it has prepared: Run chooses the paths  *)
(* of the artifacts by the first one, CreateSnapshot boots the last one.   *)
AfterPrepare(c) ==
    CASE kind[c] = "prepare" -> "ok"
      [] kind[c] = "cold" -> "start"
      [] kind[c] = "auto" /\ chain[c] = Nil -> "stat"
      [] OTHER -> "create"

(* Faulty variant: the chain of the first preparation is not kept. *)
PreparedOnly(c) ==
    /\ image' = [image EXCEPT ![c] = want[c]]
    /\ want' = [want EXCEPT ![c] = Nil]
    /\ Goto(c, AfterPrepare(c))
    /\ UNCHANGED chain

Prepared(c) ==
    /\ chain' = [chain EXCEPT ![c] = IF @ = Nil THEN want[c] ELSE @]
    /\ image' = [image EXCEPT ![c] = want[c]]
    /\ want' = [want EXCEPT ![c] = Nil]
    /\ Goto(c, AfterPrepare(c))

CacheUsable(c) == want[c] \in rootfs

CheckImage(c) ==
    /\ At(c, "check")
    /\ \/ CacheUsable(c) /\ Prepared(c)
       \/ ~CacheUsable(c) /\ Goto(c, "resolve") /\ UNCHANGED <<want, chain, image>>
    /\ UNCHANGED <<tag, store, snap, jailed, kind, vms, life, history>>

Resolve(c) ==
    /\ At(c, "resolve")
    /\ want' = [want EXCEPT ![c] = tag]
    /\ Goto(c, "pull")
    /\ UNCHANGED <<tag, store, snap, jailed, kind, chain, image, vms, life, history>>

(* The image the ref file names is there, or being built. *)
RefInUse ==
    \/ cached \in rootfs
    \/ \E d \in Calls : pc[d] = "build" /\ want[d] = cached

(* Faulty variant: a pull leaves the ref file as it is. *)
PullWithoutRef(c) ==
    /\ At(c, "pull")
    /\ Goto(c, "build")
    /\ UNCHANGED <<tag, store, snap, jailed, kind, want, chain, image, vms, life, history>>

WriteRef(c) ==
    /\ At(c, "pull")
    /\ cached' = want[c]
    /\ overtaken' = (overtaken \/ (cached # want[c] /\ RefInUse))
    /\ Goto(c, "build")
    /\ UNCHANGED <<tag, rootfs, snap, jailed, kind, want, chain, image, vms, life,
                   deleted, refLost, upsets>>

EnsureRootfs(c) ==
    /\ At(c, "build")
    /\ rootfs' = rootfs \cup {want[c]}
    /\ Prepared(c)
    /\ UNCHANGED <<tag, cached, snap, jailed, kind, vms, life, history>>

-----------------------------------------------------------------------------
(* SnapshotExists, under the chain just prepared. *)
StatSnapshot(c) ==
    /\ At(c, "stat")
    /\ Goto(c, IF snap[chain[c]] = Nil THEN "readRef" ELSE "restore")
    /\ UNCHANGED <<tag, store, snap, jailed, kind, want, chain, image, vms, life, history>>

Refile(c, drive) == snap' = [snap EXCEPT ![chain[c]] = drive]

(* CreateReadySnapshot removes the old artifacts and boots the image. *)
BootForSnapshot(c) ==
    /\ At(c, "create")
    /\ image[c] \in rootfs
    /\ Refile(c, Nil)
    /\ running' = running \cup {<<c, "creation">>}
    /\ Goto(c, "capture")
    /\ UNCHANGED <<tag, store, jailed, kind, want, chain, image, told, life, history>>

(* A VMM that was started and is no use: it was made with the context of   *)
(* the request, which ends with the call, and that of a restore is killed  *)
(* on the way out.                                                         *)
Unusable(v) == running' = running \cup {v} /\ told' = told \cup {v}

CreateFails(c) ==
    /\ At(c, "create")
    /\ Refile(c, Nil)
    /\ Unusable(<<c, "creation">>) \/ UNCHANGED vms
    /\ Goto(c, "error")
    /\ UNCHANGED <<tag, store, jailed, kind, want, chain, image, life, history>>

(* StopVMM, or SIGTERM to a restore: a signal.  A call that fails does not *)
(* wait for it to take effect, and one that succeeds not without limit.    *)
Stop(v) == told' = told \cup ({v} \cap running)

(* The deferred StopVMM comes with the return, of either kind. *)
Capture(c) ==
    /\ At(c, "capture")
    /\ Refile(c, image[c])
    /\ Stop(<<c, "creation">>)
    /\ Goto(c, IF kind[c] = "snapshot" THEN "ok" ELSE "restore")
    /\ UNCHANGED <<tag, store, jailed, kind, want, chain, image, running, life, history>>

CaptureFails(c) ==
    /\ At(c, "capture")
    /\ Refile(c, Nil) \/ UNCHANGED snap
    /\ Stop(<<c, "creation">>)
    /\ Goto(c, "error")
    /\ UNCHANGED <<tag, store, jailed, kind, want, chain, image, running, life, history>>

-----------------------------------------------------------------------------
Boots(c, drive) ==
    /\ drive \in rootfs
    /\ running' = running \cup {<<c, "run">>}
    /\ Goto(c, "running")
    /\ UNCHANGED <<tag, store, snap, jailed, kind, want, chain, image, told, life, history>>

StartCold(c) == At(c, "start") /\ Boots(c, chain[c])

(* A jail holds the drive of the run's own image, under the image's name;  *)
(* without one the snapshot's drive is opened where it was.                *)
DriveFound(c) ==
    /\ snap[chain[c]] # Nil
    /\ jailed => snap[chain[c]] = chain[c]

Restore(c) == At(c, "restore") /\ DriveFound(c) /\ Boots(c, snap[chain[c]])

(* The client's result, an error or the timeout; the VM gets its signal. *)
RunEnds(c) ==
    /\ At(c, "running")
    /\ Stop(<<c, "run">>)
    /\ Goto(c, "ok") \/ Goto(c, "error")
    /\ UNCHANGED <<tag, store, snap, jailed, kind, want, chain, image, running, life, history>>

(* The VMM of a restore dies or hangs before its API socket is there, or   *)
(* does not answer LoadSnapshot.  Nobody tells the call, and the run's     *)
(* timeout does not count yet.                                             *)
NoSocket(c) ==
    /\ At(c, "restore")
    /\ running' \in {running, running \cup {<<c, "run">>}}
    /\ Goto(c, "waiting")
    /\ UNCHANGED <<tag, store, snap, jailed, kind, want, chain, image, told, life, history>>

ClientLeaves(c) ==
    /\ At(c, "waiting")
    /\ Stop(<<c, "run">>)
    /\ Goto(c, "error")
    /\ UNCHANGED <<tag, store, snap, jailed, kind, want, chain, image, running, life, history>>

StartFails(c) ==
    /\ At(c, "start") \/ At(c, "restore")
    /\ Unusable(<<c, "run">>)
    /\ Goto(c, "error")
    /\ UNCHANGED <<tag, store, snap, jailed, kind, want, chain, image, life, history>>

Failing == {"readRef", "resolve", "pull", "build", "stat", "start", "restore"}

(* Faulty variant: a restore that fails looks for a snapshot again. *)
CallFailsAndRetries(c) ==
    /\ Up /\ pc[c] \in Failing
    /\ Goto(c, IF pc[c] = "restore" THEN "stat" ELSE "error")
    /\ UNCHANGED <<tag, store, snap, jailed, kind, want, chain, image, vms, life, history>>

(* An error or a panic, which recoverPanics turns into one: the preflight, *)
(* the registry, an image or snapshot that is gone, the client that left.  *)
CallFails(c) ==
    /\ Up /\ pc[c] \in Failing
    /\ Goto(c, "error")
    /\ UNCHANGED <<tag, store, snap, jailed, kind, want, chain, image, vms, life, history>>

(* A VM that was told to stop does, and a guest powers off by itself. *)
VMGone(v) ==
    /\ v \in running
    /\ running' = running \ {v} /\ told' = told \ {v}
    /\ UNCHANGED <<tag, store, snap, jailed, call, life, history>>

-----------------------------------------------------------------------------
Upset == Up /\ upsets < MaxUpsets /\ upsets' = upsets + 1

(* The registry's tag moves. *)
MoveTag ==
    /\ Upset
    /\ tag' \in Chains \ {tag}
    /\ UNCHANGED <<store, snap, jailed, call, vms, life, deleted, refLost, overtaken>>

(* A command line pulls the reference for another platform; the ref file   *)
(* is no use to the daemon then.                                           *)
ForeignPull ==
    /\ Upset
    /\ cached # Nil
    /\ cached' = Nil /\ refLost' = TRUE
    /\ UNCHANGED <<tag, rootfs, snap, jailed, call, vms, life, deleted, overtaken>>

(* preparedFromCache takes any error of a read or a stat for a miss. *)
LookupFails(c) ==
    /\ Upset
    /\ pc[c] \in {"readRef", "check"}
    /\ refLost' = TRUE
    /\ Goto(c, "resolve")
    /\ UNCHANGED <<tag, store, snap, jailed, kind, want, chain, image, vms, life,
                   deleted, overtaken>>

DeleteImage(ch) ==
    /\ Upset
    /\ ch \in rootfs
    /\ rootfs' = rootfs \ {ch}
    /\ deleted' = TRUE
    /\ UNCHANGED <<tag, cached, snap, jailed, call, vms, life, refLost, overtaken>>

DeleteSnapshot(ch) ==
    /\ Upset
    /\ snap[ch] # Nil
    /\ snap' = [snap EXCEPT ![ch] = Nil]
    /\ UNCHANGED <<tag, store, jailed, call, vms, life, deleted, refLost, overtaken>>

-----------------------------------------------------------------------------
InFlight == {c \in Calls : pc[c] \notin {"new"} \cup Ended}

(* SIGINT or SIGTERM: Shutdown closes the listener and waits. *)
Signal ==
    /\ life = "serving"
    /\ life' = "draining"
    /\ UNCHANGED <<tag, store, snap, jailed, call, vms, history>>

(* Faulty variant: only the listener is closed. *)
DrainedAtOnce == life = "draining"

Drained == life = "draining" /\ InFlight = {}

Exit ==
    /\ Drained
    /\ life' = "exited"
    /\ UNCHANGED <<tag, store, snap, jailed, call, vms, history>>

(* The process exits with its calls in the middle; their VMs are processes *)
(* of their own.                                                           *)
Abort ==
    /\ life' = "killed"
    /\ pc' = [c \in Calls |-> IF c \in InFlight THEN "cut" ELSE pc[c]]
    /\ UNCHANGED <<tag, store, snap, jailed, kind, want, chain, image, vms, history>>

(* Faulty variant: Shutdown waits without a limit. *)
NoGrace == life = "draining" /\ InFlight # {} /\ UNCHANGED vars

(* Shutdown's context ends after ten seconds. *)
GraceOver == life = "draining" /\ InFlight # {} /\ Abort

(* The listener breaks. *)
ServeFails == life = "serving" /\ Abort

Stopped == ~Up /\ UNCHANGED vars

CallStep(c) ==
    \/ ReadRef(c) \/ CheckImage(c) \/ Resolve(c) \/ WriteRef(c) \/ EnsureRootfs(c)
    \/ StatSnapshot(c)
    \/ BootForSnapshot(c) \/ CreateFails(c) \/ Capture(c) \/ CaptureFails(c)
    \/ StartCold(c) \/ Restore(c) \/ NoSocket(c) \/ StartFails(c)
    \/ RunEnds(c) \/ CallFails(c)

Next ==
    \/ \E c \in Calls : Accept(c) \/ CallStep(c) \/ ClientLeaves(c) \/ LookupFails(c)
    \/ \E v \in VMs : VMGone(v)
    \/ MoveTag \/ ForeignPull
    \/ \E ch \in Chains : DeleteImage(ch) \/ DeleteSnapshot(ch)
    \/ Signal \/ Exit \/ GraceOver \/ ServeFails \/ Stopped

Spec == Init /\ [][Next]_vars

(* Where a call waits for somebody who need not answer: the registry, who  *)
(* is asked and downloaded from, the holder of the chain's lock, the VMM   *)
(* that is to pause and write a snapshot, and the VMM of a restore.  The   *)
(* context of a request has no deadline, so only the client ends these.    *)
Waits == {"resolve", "pull", "build", "capture", "waiting"}

(* Anywhere else a call takes its next step: the local files answer, and   *)
(* boots and runs have timeouts.  A VM that was told to stop does.  A      *)
(* daemon that was signalled exits when its calls are done or its ten      *)
(* seconds are over.                                                       *)
Fairness ==
    /\ \A c \in Calls : WF_vars(pc[c] \notin Waits /\ CallStep(c))
    /\ \A v \in VMs : WF_vars(v \in told /\ VMGone(v))
    /\ WF_vars(Exit \/ GraceOver)

FairSpec == Spec /\ Fairness

-----------------------------------------------------------------------------
(* Types of the variables; a call that starts a VM has a chain to report.  *)
TypeOK ==
    /\ tag \in Chains /\ cached \in Chains \cup {Nil}
    /\ rootfs \subseteq Chains
    /\ snap \in [Chains -> Chains \cup {Nil}]
    /\ jailed \in BOOLEAN
    /\ kind \in [Calls -> Kinds]
    /\ pc \in [Calls -> {"new", "readRef", "check", "resolve", "pull", "build", "stat",
                       "create", "capture", "start", "restore", "waiting", "running"}
                         \cup Ended]
    /\ want \in [Calls -> Chains \cup {Nil}]
    /\ chain \in [Calls -> Chains \cup {Nil}] /\ image \in [Calls -> Chains \cup {Nil}]
    /\ running \subseteq VMs /\ told \subseteq running
    /\ \A c \in Calls :
          pc[c] \in {"stat", "create", "capture", "start", "restore"} => chain[c] # Nil
    /\ life \in {"serving", "draining", "exited", "killed"}
    /\ deleted \in BOOLEAN /\ refLost \in BOOLEAN /\ overtaken \in BOOLEAN
    /\ upsets \in 0..MaxUpsets

(* What Run and CreateSnapshot file under a chain is a VM of that chain,   *)
(* although "auto" runs prepare the reference twice, without a lock, and   *)
(* the tag may move meanwhile.  What keeps the two preparations together   *)
(* is the ref file alone, so there are exactly three ways to lose it: an   *)
(* image is deleted, the ref file is not found or of another platform, or  *)
(* a pull that resolved another chain replaces the ref file of an image    *)
(* that is there or being built.                                           *)
SnapshotIsOfItsChain ==
    ~deleted /\ ~refLost /\ ~overtaken =>
        \A ch \in Chains : snap[ch] \in {ch, Nil}

(* Every call the daemon takes is answered or ends with the daemon, unless *)
(* it waits for ever at one of the places where the code has no timeout.   *)
CallsEnd ==
    \A c \in Calls :
        pc[c] = "readRef" ~> (pc[c] \in Ended \/ [](pc[c] \in Waits))

(* A daemon that was told to stop stops, also with a call that waits for   *)
(* ever.                                                                   *)
DaemonStops == life = "draining" ~> ~Up

(* A daemon that exits by itself leaves no VM behind, neither of a run nor *)
(* of a snapshot creation, although its calls return when their VMs have   *)
(* been signalled and not when they are gone: every way out of a call      *)
(* signals, and the daemon waits for every call.                           *)
NoVMOutlivesDaemon == life = "exited" ~> running = {}
=============================================================================
