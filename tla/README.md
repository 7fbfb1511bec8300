# A TLA+ model of Slammer Core

Slammer Core runs commands in Firecracker microVMs. `sandboxd` prepares an OCI
image as an ext4 root file system, boots a VM from it (or restores an
agent-ready snapshot of it), sends one batch of jobs to an agent in the guest
and stops the VM. This directory holds TLA+ modules of that system, the TLC
configurations that check them, and proofs for TLAPS.

## The system

| Part | State it keeps | Operations | What makes it hard |
| --- | --- | --- | --- |
| image preparation (`internal/runtime`, `internal/oci`) | ref files, manifests, configs | `PrepareImage`, `preparedFromCache`, `Pull` | several writes, one after the other, that may stop anywhere; ref files shared by platforms and by references with one escaped name; tags that move |
| content store (`internal/contentstore`) | files named by digest | `WriteBlob`, `WriteJSON`, `ReadJSON`, `EscapeRef` | concurrent writers, publication by rename |
| rootfs cache (`internal/rootfsbuilder/rootfs.go`, `internal/lock`) | `rootfs/building`, `rootfs/complete`, the flock of a chain | `EnsureRootfs`, `build`, `WriteMetadata`, `Acquire`, `Close` | check, lock, check again, build, publish; crashes with the lock held; `DeleteImage` without the lock |
| layer application (`pure_ext4.go`, `layer.go`) | an ext4 image, the record of its symbolic links | `ApplyLayer`, `applyEntry` | the digest is known only after the entries were applied; what an entry does depends on all before it |
| manager (`internal/manager`) | none of its own | `Run`, `CreateSnapshot`, `List*`, `Delete*` | composes all of this without locks |
| VM runner (`internal/firecracker/runner.go`) | the run's context, two channels | `StartVM`, `startFromSnapshot`, `retryJobs`, `waitForSocket` | retries racing the timeout, the VM and the batch |
| snapshots (`internal/firecracker/snapshot.go`) | memory file, state file, workspace directory with the vsock socket | `CreateReadySnapshot`, `linkFile`, `waitForAgent` | concurrent creations, restores and deletes on the same paths |
| agent client (`internal/agentclient`) | one connection per attempt | `Jobs`, `Health` | a fixed header timeout, text and JSON answers |
| guest agent (`internal/agentserver`, `cmd/agent`) | the one-shot flag, the upload counter, the process group | `jobs`, `runBatch`, `mkdir`, `writeFile`, `exec` | shutdown racing the response; processes that outlive their leader; limits |
| guest init (`cmd/init`) | mounts | `run`, `superviseAgent`, `poweroff` | must power off whatever ends the agent |
| HTTP API (`internal/server`) | configuration | `LoadConfig`, `managerRunRequest`, `tasksToJobs` and the handlers | limits and defaults of five parts that must agree; calls that run beside each other |
| command line (`cmd/sandboxd`) | the listener and its shutdown | `run`, `serve`, `prepare-image` and others | an exit code for every outcome; a shutdown that ends before long runs do |
| `internal/config`, root `main.go`, scripts | - | - | - |

The manager calls image preparation, then snapshot creation or restore, then
the VM runner. The runner talks to the agent over a vsock that Firecracker
exposes as a Unix socket. Processes share the store directory and the snapshot
directory; the only lock among them is the chain's flock during a build.

## Modules

| Module | Models | Composes |
| --- | --- | --- |
| `RootfsCache` | what the rootfs cache promises its clients (abstract) | |
| `ImageStore` | `PrepareImage`, `Pull`, the content store, `EnsureRootfs` with its lock and build, `DeleteImage`, `ListImages` | refines `RootfsCache` |
| `ImageStoreProofs` | proofs about `ImageStore` | extends `ImageStore` |
| `MCImageStore` | images, references and registries for TLC | extends `ImageStore` |
| `VMRun` | one run: `StartVM`/`startFromSnapshot`, `retryJobs`, `Jobs`, the agent's handler and shutdown, init's power-off | |
| `OneShotRun` | what a run promises its caller (abstract) | refined by `VMRun` |
| `VMRunProofs` | proofs about `VMRun` | extends `VMRun` |
| `Snapshots` | `Run` in snapshot mode, `CreateReadySnapshot`, restore, `DeleteSnapshot`, any number at once | |
| `SnapshotsProofs` | proofs about `Snapshots` | extends `Snapshots` |
| `MCSnapshots` | the settings and the symmetry of runs for TLC | extends `Snapshots` |
| `AgentJobs` | `runBatch` with uploads, process groups, deadlines, output capture | |
| `AgentJobsProofs` | proofs about `AgentJobs` | extends `AgentJobs`, `FoldLemmas` |
| `MCAgentJobs` | batches for TLC | extends `AgentJobs` |
| `LayerApply` | `DiskfsLayerApplier`, entry by entry, beside the tree the image specification asks for | |
| `LayerApplyProofs` | proofs about `LayerApply` | extends `LayerApply` |
| `MCLayerApply` | names for TLC, examples of cleaned paths, symmetry | extends `LayerApply` |
| `RunRequest` | one run from configuration and request, or command line, through server, manager and agent and back | |
| `RunRequestProofs` | proofs about `RunRequest` | extends `RunRequest`, `FoldLemmas` |
| `MCRunRequest` | requests, files and command lines on both sides of every limit | extends `RunRequest` |
| `Daemon` | the API's calls beside each other, and the end of the daemon | what `ImageStore`, `Snapshots` and `VMRun` have inside, in coarser steps |
| `MCDaemon` | which calls run beside each other, for TLC | extends `Daemon` |
| `DaemonProofs` | proofs about `Daemon` | extends `Daemon` |
| `FoldLemmas` | lemmas about induction, maxima and folds over sequences | |

Definitions named "Faulty variant" are plausible bugs of the code. No
specification uses them; putting one in place of the definition that follows it
makes TLC report the property it is paired with, which shows that the property
depends on that line of code.

### ImageStore

Each preparer is a goroutine or a `sandboxd` process; `pc` says at which call of
`PrepareImage` it is, `man` and `step` are its locals. `stored` and `refs` are
the content store, `building`, `complete` and `metadata` the three files of a
chain, `lock` the flock. Files written by temp-and-rename appear in one step.
A chain ID is the hash of the ordered diff IDs, so the model uses that sequence
itself as the chain, and the content of an image is the sequence of layers that
went into it; "the image of chain c is whole and verified" is then
`complete[c] = c`. A blob's digest is checked by `WriteBlob`, so a stored blob
is what its name says; what it inflates to (`Inflate`) need not be what the
config claims, and `ApplyLayer` finds out after applying it.

`Fault` is every error that is not a consequence of the state: I/O, network,
cancelled contexts. `Crash` ends a process anywhere; the kernel drops its flock
and the files stay. `LookupFails` keeps the fact that stat and read errors
before the build are taken for absence. `DeleteImage` is two steps without the
lock. `MoveTag` is the registry (external).

`ImplementsCache` is the refinement: a call is answered in the abstract cache at
the stat that finds the image or at the rename that publishes it.

### VMRun

`host` is the loop of `StartVM`, `client` the goroutine with `retryJobs`,
`channel` what it put into its channel, `link` and `reply` the client's
connection, `agent`, `usedJobs`, `batch` and `verdict` the agent's process and
handler, `vm` the VMM. `req` is what the call was asked: to boot or to restore,
with a body the agent accepts or not; `Init` leaves it open, so every run and
every theorem is about all four. `StartVM` and `startFromSnapshot` differ in
three places (`req.snapshot`): the agent already serves; there is no timeout
branch beside the client's result; the wait for the API socket comes before the
run's context exists. A request that was sent and given up before a handler
took it stays in the agent's queue (`abandoned`) and may still be the first one
to be handled. `verdict` stands for everything `runBatch` does. The agent's own
35 second read and write timeouts are left out: the client's 30 second header
timeout always comes first. Time is counted in ticks; a timer that is due fires
before time goes on.

`ImplementsRun` is the refinement of `OneShotRun`: the work is the batch, lost
when the agent dies or the machine stops under it, and the caller is told when
`StartVM` leaves its loop.

### Snapshots

One chain, one snapshot directory. A file records who wrote into it since it
was truncated and who still does, so that "half written" and "mixed" can be
told apart. `image` is what a creation captured when it paused its VM: one whose
agent was not up yet, one that had already taken a batch, or a ready one.
`sock` says which VM is bound to a socket path; removing the path hides the
VM, not the process. With a jailer each call has a socket of its own and
Firecracker writes inside the jail, from where `linkFile` (remove, then link)
publishes memory and then state. Without one it writes in place.
Every way a call can fail without a cause in the model (`CreateFails`,
`RestoreFails`, `RunExpires`) is always possible; write errors and crashes are
counted. That `CreateSnapshot` prepares the image a second time is part of
`Daemon`.

### AgentJobs

A command is its leader, the process the agent starts and waits for, and the
children it leaves in its group. `cmd.Run` returns when the leader is reaped and
nobody holds the output pipe; only then does `exec` look at the deadline and
kill the group. `HangUp` cancels the request's context. The checks on a job's
path, mode, contents, argv and credentials are one flag, `valid`; a job that
passes them can still fail. `RunRequest` has the checks themselves.

### LayerApply

`tree` is the node at each path of the image, `symlinks` the applier's map.
Each kind of tar entry is an action; `Fails` stands for every refusal and error,
after which `build` removes the image. `removeAll` and `removeChildren` remove a
subtree entry by entry; nothing else looks at the tree meanwhile, so that is one
step. A hard link is a copy, as in the code, and reads its source after it
removed what was at its own path. `SymlinkKept` is the recovered panic of
go-diskfs. Modes and owners are left out.

An entry is checked by the name `cleanLayerPath` leaves and put where `fsPath`
says: backslashes become slashes and the path is cleaned again (`FsPath`,
`Clean`). A name is therefore given by its parts between backslashes
(`Slashed`); an entry may land below a directory its name does not mention, at a
path of another entry, at the root, or above it, which go-diskfs is assumed to
refuse (it takes `io/fs` paths; external).
A whiteout is for the path `path.Join` makes of its name, so the odd markers
`.wh..` and `.wh...` are whiteouts of the directory they are in and of the one
above.

`spec` is what the layers mean by the OCI image specification: an entry replaces
what is at its path except a directory over a directory, whiteouts and opaque
markers hide what lower layers left. The applier departs from it in four places,
and `excused` holds the paths where it did: a link that cannot be removed is
kept, which the code's comment accepts; a directory entry over a file or link
leaves that there; a whiteout or opaque marker also removes entries of its own
layer that came before it; and a name with a backslash is missing where the
layer has it and present where it landed, each with the directories made for it.
`LayerApplier` of `layer.go`, which unpacks into a directory of the host, is
used by tests only and not modelled.

### RunRequest

`stage` is the part that has the run. `LoadConfig` puts a file over the defaults
and fills in what is not positive; `Decode` is the HTTP framework with the tags
of `RunRequest` and `Task` (external: how huma reads them, and its body limit of
1 MiB); `ManagerRunRequest` is the server, `ManagerRun` the manager, `RunVM` the
command line, and `Refusals` the agent's checks of a job against the files and
directories that earlier jobs made. Sizes are real byte counts, since limits and
base64 lengths are what is compared. Paths are sequences of components (`Components`), so that `filepath.Clean` and
`filepath.Rel` are modelled by what they do. `InputAssumption` says what the
inputs are: configuration files with integers, and members of `Request` and
`CommandLine`, which have the fields of the Go structs and of the flags with any
values. TLC takes samples of these sets, the theorems are about all of them.
Durations on the host are in microseconds and the agent's in milliseconds;
`Milliseconds` cuts as `Duration.Milliseconds` does, so a timeout below one
millisecond becomes 0, which stands for "not set" from there on.

### Daemon

A call prepares its image, looks for a snapshot, creates one and starts a VM;
`ImageStore`, `Snapshots` and `VMRun` have the inside of these steps. There is
one reference, whose tag may move; `cached` is the chain of its ref file, `snap`
the drive of the snapshot filed under a chain. A preparation is five steps
without a lock among calls: read the ref file, stat the image, resolve, write
the ref file, build. `want` is the chain it is at, `chain` the one the call
reports, `image` the one it boots; an "auto" run prepares twice, and the two
need not agree. Between any two steps images and snapshots are deleted, tags
move, lookups fail, and a command line on the same store pulls the reference for
another platform.

A call has up to two VMs, one to take a snapshot of and one to run in. It ends
when it has signalled them (`told`), not when they are gone (`running`); a VMM
that could not be used is stopped by the context it was built with, which ends
with the request. A call waits without a deadline for the registry, for the
holder of the chain's lock, for a VMM that writes a snapshot and for a VMM that
is to load one (`Waits`). `Signal` starts the shutdown; `Exit` is its normal
end, `GraceOver` the end of the ten seconds, `ServeFails` a broken listener; the
last two leave the VMs of running calls behind.

## Runs

Passing runs:

| Run | Question | Bounds |
| --- | --- | --- |
| `ImageStoreRace` | Do races, failures and crashes ever publish a partial or wrong rootfs, or a ref file without content? Is the store a `RootfsCache`? | 2 preparers, 1 deleter, a reference that moves between a good image and one with a wrong layer, 2 faults |
| `ImageStoreCalls` | Is the answer for the platform, and for a reference of the name, that was asked for? Is the listing never ahead of the images (without deletes)? Does every call return that is not left waiting? | 2 preparers, 2 references with one escaped name, one of them with an image for each of 2 platforms, the other with one rejected for its layer count and one whose layer fails its diff ID, 1 fault |
| `VMRun` | Does the batch run once, is the outcome the guest's verdict, does the run end, does the VM stop? Is it a `OneShotRun`? | boots and restores, accepted and refused bodies; header timeout 2, run timeout 4, 1 crash |
| `Snapshots` | With a jailer, do restores read whole files, are artifacts ready, do batches stay in their VM? With and without, does a VM take one batch only? | jailed: 2 runs, 1 creation, 1 delete; not jailed: 2 runs, 1 delete; 1 fault |
| `AgentJobs` | Is the status the verdict, are limits and capture exact, are groups dead after a timeout, does the batch end? | batches of up to 4 jobs with files on both sides of limits 2 and 4, refused jobs, 2 commands with 2 children, writes of 1 to 3 bytes against a limit of 2 |
| `LayerApply` | Is the record of links exact, is the tree closed, is the image the one the layers describe? | 3 names, one with a backslash, paths of depth 2, 2 contents, 2 link targets, 4 entries in any number of layers |
| `RunRequest` | Does what reaches the guest stay within the limits, do server and agent agree, are results and exit codes right? | 12 configuration files, some 250 requests, 72 command lines with timeouts around 0 and 1 ms, 3 exit codes, 3 output sizes |
| `Daemon` | Is a snapshot of the chain it is filed under, do calls end, does the daemon stop and do its VMs? | an "auto" run beside a call of any of 4 kinds, 2 chains, jailed and not, 1 upset (moved tag, foreign pull, failed lookup, delete) |

Why these bounds suffice: builds, creations and restores interact pairwise
through one chain's files, so two callers and a delete produce every overlap,
and a third party (the extra creation in `Snapshots`) covers a leftover
of an earlier call. Two faults allow a crash during the recovery from a
failure. A run timeout of twice the header timeout lets the client give up and
retry before the run ends. Byte limits are small in `AgentJobs` and real in `RunRequest`, with
sizes on both sides of each. Four entries are enough to put a node, replace what
is above it, put it again and remove it in another layer; depth 2 has a parent
that is replaced while it has a child, and a path that two names lead to. In
`Daemon` one moved tag between two calls that both miss the cache is enough for
a wrong snapshot: without `overtaken` in `SnapshotIsOfItsChain` TLC reports
exactly that behaviour, and with a delete or a lost ref file it takes one call.

Runs that are expected to fail state what a document or a comment of the
repository says and what the code does not do. Each has a finding in
`PROJECT.json` that quotes the sentence.

| Run | Shows |
| --- | --- |
| `VMRunLostResponse` | the agent may exit before its response is flushed |
| `VMRunHeaderTimeout` | the 30 s header timeout cuts off batches that are within the run's timeout |
| `SnapshotsSharedSocket` | without a jailer a batch may run in another run's VM |
| `AgentJobsTimeout` | a child that keeps the output pipe survives the deadline |

Other behaviours a reader may not expect are in the models without a run of
their own; a property against them would fail:

- a tag that moved is not looked up again once its reference is cached
  (`MoveTag`, `CacheRef`);
- a failure between the rename and `WriteMetadata` leaves a rootfs that is
  served and never listed (`BuildFails`), and a `DeleteImage` during a build can
  leave metadata without an image, which is why `ListedImagesExist` is checked
  without deletes;
- references with one escaped name (`registry/a_b`, `registry/a/b`) share a ref
  file, and one is answered with the image of the other (`CacheRef`), which is
  why `AnswerIsForName` speaks of names;
- nobody queues at the chain's lock: a waiter may find it taken at every poll
  while other callers build, fail and call again (`Starves`);
- a body that does not decode uses up the one-shot flag and starts no shutdown
  (`DecodeFails`);
- a restore whose VMM dies before its API socket answers waits until its caller
  gives up (`VMMDies`, `CallerGivesUp`), which is why `RunReturns` starts when
  the VM runs; a stalled registry, a lock held elsewhere and a VMM that does not
  finish a snapshot are waited for in the same way, which is why `CallsEnd`
  excepts all of `Waits`;
- without a jailer a restore can load files that are still being written, and a
  creation can take another VM's health answer for its own, which is why
  `ReadsAreWhole` and `SnapshotIsReady` are checked with one;
- with concurrent creations, memory and state of two VMs can be restored
  together (`LinkMem`, `LinkState`);
- when the image or the ref file goes between the two preparations of an "auto"
  run and the tag has moved, or when two calls miss the cache around a moved tag
  and the second one's ref file replaces the first one's, the snapshot of
  another chain is filed under the run's: jailed, every later "auto" run of that chain fails until the snapshot
  is deleted; not jailed, they run the other image;
- two commands that fill both streams to the default 4 MiB make a response above
  the client's 16 MiB, which is lost, while the run reports a timeout
  (`Reply`);
- a `mkdir` task refuses missing parents whatever `create_parents` says, since
  `ensureSafeParents` comes first (`ParentsReady`), and gets the framework's
  default mode 0644, not the 0755 of the server's own default;
- the framework's default `timeout_millis` of 60000 is refused by a daemon with a
  lower limit, and its default `working_dir` hides the request's `workdir`;
- an `argv` with an empty first element passes the server and fails in the guest;
- `sandboxd run --timeout` below a millisecond gives the command the agent's
  default of 30 s, under a run that ends at once (`Milliseconds`);
- an entry of a layer whose name has a backslash lands at another path of the
  image (`FsPath`);
- the deadline of a command equals the timeout of its run, so a `timed_out`
  result seldom reaches the host;
- the daemon's exit after ten seconds, or with a broken listener, leaves the VMs
  of its calls to themselves; the jail of a failed run or of a snapshot creation
  is not removed.

## Fairness

`ImageStore!FairSpec`: a process takes its next local step (weak fairness of
`Local`), polling the lock included. The steps that wait for the registry
(`Network`) need not happen, since the request's context has no deadline.
`CallsReturn` names the two ways a call may then never return: it waits for the
registry for ever, or it starves at the lock, which is a poll every 50 ms and no
queue. Weak fairness leaves the second open, and so does the code: a caller
whose image fails its diff ID releases the lock without publishing, and can take
it again between two polls of another. Nothing obliges a caller to call, a tag
to move, a fault to happen.

`VMRun!FairSpec`: goroutines, timers, the signal to the VMM and the guest's
processes run. A batch need not end, nothing need crash, a caller need not give
up.

`AgentJobs!FairSpec`: the agent runs and the deadline's timer fires. `TameSpec`
adds that children exit, which the code does not guarantee; `BatchEnds` is
stated under it, and `AgentJobsTimeout` shows what happens without.

`Daemon!FairSpec`: a call takes its next step, except in `Waits`, where it waits
for somebody else under a context without a deadline; local files answer, a boot
has the SDK's timeout and a run its own. A VM that was told to stop does. A
signalled daemon exits when its calls are done or when the context of `Shutdown`
ends, whichever comes first. Nothing obliges a client to leave.

`Snapshots`, `LayerApply` and `RunRequest` have safety properties only.

## Proofs

Every invariant of a passing run, and every action property and refinement, is
also a theorem. All of them are about `Spec`, without fairness, and rest on the
named assumptions about the constants, which TLC evaluates in its runs. Each
component's proof has the same shape: an inductive invariant `Inv`, one lemma
that it holds initially, one or more that each action preserves it, `Invariance`
(`Spec => []Inv`), and the theorems from it.

### ImageStoreProofs

For any sets of callers, references, images and any number of faults, from
`StoreAssumption` (the types of the constants) and `NilAssumption` (`Nil` is none
of the values it stands beside):

- `TypeCorrect`, `PublishedRootfsIsFull`, `RefFilesHaveContent` and
  `AnswersAreForName`;
- `StoreImplementsCache`, the refinement of `RootfsCache`;
- `ListingIsBacked`: `ListedImagesExist` in every behaviour in which no
  `DeleteImage` takes a step. With deletes it is false, and the hypothesis is an
  action formula, not a bound on the constants: builds, faults and crashes stay
  as they are.

`CompleteIsFull` is not inductive, since a rename publishes whatever is in the
building file. The strengthening says who may touch it: a process past
`AcquireLock` holds its chain's lock, so at most one process is in a chain's
build; while it applies layers, the building file is exactly the first
`step - 1` diff IDs of the chain, and all of them at the rename. Layer counts
match because `Pull` compared them before it went on. For the answers it says
that a preparer's manifest is one the registry served for a request with the
same file name and platform, and the same of every ref file; for
`RefImpliesContent`, that a pull at step n has stored the first n - 1 files of
its plan; for the listing, that a builder about to write metadata has its image
in place. The refinement needs `CompleteIsFull` and the fact that an answered
process's chain was in its slot when it was answered.

### VMRunProofs

For cold boots and restores, every pair of timeouts and any number of crashes,
from `RunAssumption` (the types of the constants): `TypeCorrect`,
`BatchIsNotRepeated`, `OutcomeIsGenuine` and `RunIsOneShot`, the refinement of `OneShotRun`. The strengthening ties the
batch's phase to the flag and to the number of entries, the verdict to the
phase, and every place a verdict passes through on its way to the caller (reply,
channel, outcome) to the verdict itself. The refinement also needs that nothing
ran before the machine was up, and that the outcome is unset as long as
`StartVM` is in its loop.

### SnapshotsProofs

For any number of runs, creations and deletes at once and any number of write
errors and crashes, from `CallsAssumption` (the kinds of call are disjoint, the
shared socket is nobody's name) and `NilAssumption`: `TypeCorrect`,
`RestoresReadWholeFiles`, `SnapshotsAreReady`, `BatchesStayInTheirVM` and
`VMsTakeOneBatch`. `ReadsAreWhole`, `SnapshotIsReady` and `JailedBatchRunsInOwnVM` are not inductive, because
a link publishes whatever its creation captured and a batch goes wherever the
socket leads. `FilesInv` says that with a jailer the published files, and the
ones a restore holds open, are each the work of one creation that is done with
them; `SocketInv` that a call which looks for its agent or sends its batch finds
its own VM; `CaptureInv` that nobody's batch reached a VM that is being
prepared, so that what is captured is ready. `BatchInv`, which also holds
without a jailer, says that a VM with a batch has its flag set and that a VM is
off until it is restored; that is what makes the shared socket harmless to
`OneBatchPerVM`.

### AgentJobsProofs

For every batch, every limit, any set of children and any sequence of writes,
from `BatchAssumption` and `LimitAssumption` (types, chunks are not empty):
`TypeCorrect`, `StatusIsTheVerdict`, `BatchStaysUnderLimits`,
`CaptureIsThePrefix` and `TimeoutLeavesNobody`. `ProgressInv` says that as long
as the batch goes on every earlier job has a good result, which is why the first
bad one is the last; `UploadInv` that the counter covers the files written so
far. The sum over the files is a fold over a set, so the proof first shows that
the fold exists and that it grows by exactly the job that is added.

### LayerApplyProofs

For any set of names, any depth and any number of entries and layers, from
`BoundAssumption` and `NodeAssumption` (contents, links, directory and absence
are different things), and whatever `FsPath` makes of a name: `TypeCorrect`, `SymlinkRecordIsExact`, `NoOrphans` and
`ImageAgreesWithSpec`. The argument uses only the order of paths ("at or above")
and the fact that what an operation removes holds with a path everything below
it. `ImageIsOCI` needs two facts that are not about the image: a path that is
new in this layer has new directories (`FreshInv`), so that a marker, which in
the specification spares what is new, takes no directory from under it; and the
specification's tree has no gaps (`SpecInv`). Each lemma about an entry has the
path of the entry and the one where it lands; where they are the same the two
trees change alike, where they differ each changes only at paths that the step
excuses (`StrayFacts`, `StrayAgrees`).

### RunRequestProofs

For every configuration file with integer values, every request and command
line, paths of any length and any output, from `InputAssumption`:
`GuestIsWithinLimits`, `ServerCoversAgent`, `ModestRequestsAreServed`,
`OneCommandResponseFits` and `ExitZeroIsSuccess`. The invariant is what each part
hands to the next: `ConfigOK` after `LoadConfig`, `ServerOK` after the framework,
`ApiRun` or `CommandRun` after the server or the command line, `ResultsOK` in
the agent. Two arguments are more than bookkeeping. A path that passes
`validateWorkspacePath` passes `safePath`: `Clean` leaves no "." and no "..", so
what is below the workspace stays there. And the agent's limit on the bytes of a
batch is never met, because the contents went through a body of at most 1 MiB
(`FitsBody`: running totals of the base64 sizes) although nobody on the host
adds them up.

### DaemonProofs

For any number of calls, chains and upsets and any mix of calls, from
`NilAssumption`, `MixAssumption` and `UpsetAssumption`: `TypeCorrect` and
`SnapshotsAreFiledRight`. `KnowsInv` says at which points a preparation knows a
chain. `OneChainInv` is the argument of the second: until an image is deleted,
the ref file is lost or a pull overtakes one in use, every chain a call has
prepared is that of the ref file, whose image exists, so a second preparation
finds it there whatever the tag does; and a pull that is about to write another
one would overtake it.

### Induction over data

The library's induction theorems have an operator as a parameter, which the
provers cannot instantiate. `FoldLemmas` states induction for sets instead (a set
with 0 in it and with n also n + 1 holds every natural number) and derives it
from the well-foundedness of `<`. With it the folds of the community modules can
be reasoned about: they exist, stay in a type, and their running totals grow.
The sums of `AgentJobs` and `RunRequest` and `Clean` are proved about this way.

### Checked by TLC only

`CallsReturn`, `RunReturns`, `NoVMLeftRunning`, `BatchEnds`, `CallsEnd`,
`DaemonStops` and `NoVMOutlivesDaemon` are liveness properties under fairness, which the proof system
does not support here. The four runs that expect a violation are
counterexamples.

## Plan

- An abstract specification of `Snapshots` (a slot that holds a ready VM or
  nothing, filled and emptied as a whole when jailed) and the proof that jailed
  snapshots implement it, as far as a mixed pair of files allows.
- What `Daemon` takes from `ImageStore` as a promise of `ImageStore`: that a
  cached reference keeps its manifest until its ref file is written again.
- Shorter proofs where `RunRequestProofs` repeats itself over the agent's jobs.

## Not modelled

- Mounts in the guest init: a sequence of system calls that succeeds or powers
  off.
- The Firecracker SDK, the jailer and go-diskfs: external, modelled by how the
  code uses them. That a VMM whose start failed half way is stopped by the
  context it was made with, and that a signalled one stops, is theirs.
- The blocks of an image file: a snapshot that is restored over an image that
  was deleted and built again is the same chain to `Daemon`.
- The machine size of a snapshot: a restore applies none.
- Listings, routing, OpenAPI text and the shape of answers in `internal/server`;
  credentials, modes and environments of jobs, except the mode check.
- `inspect-rootfs`, `demo-local`, `build-boot-image` and `openapi` of
  `cmd/sandboxd`, the root `main.go` prototype, and the image build scripts: they
  share no state with the daemon.
- `LayerApplier` in `layer.go`, used by tests only.
