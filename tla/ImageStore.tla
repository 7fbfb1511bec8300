----------------------------- MODULE ImageStore -----------------------------
(***************************************************************************)
(* The image side of the sandbox runtime: Runtime.PrepareImage with the    *)
(* ref cache it consults, oci.Pull, the content store it fills, the        *)
(* chain-locked cold build of rootfsbuilder.EnsureRootfs, and the          *)
(* manager's DeleteImage and ListImages on the same directory.             *)
(*                                                                         *)
(* Every process is a goroutine of sandboxd or a sandboxd command.  They   *)
(* share the store directory, the flock of a chain's lock file and the     *)
(* registry.  A file written by temp-and-rename appears in one step.       *)
(*                                                                         *)
(* A chain ID is the SHA-256 of the ordered diff IDs, so here it is that   *)
(* sequence itself; the content of an ext4 image is the sequence of layers *)
(* applied to it.                                                          *)
(***************************************************************************)
EXTENDS Integers, Sequences, FiniteSets

CONSTANTS
    Preparers,      \* processes that call PrepareImage
    Deleters,       \* processes that call DeleteImage
    Refs,           \* image references a caller may pass
    RefNames,       \* file names under images/refs
    EscapeRef,      \* [Refs -> RefNames], contentstore.EscapeRef
    Platforms,
    Manifests,      \* manifest digests
    Configs,        \* config digests
    Blobs,          \* compressed layer digests
    DiffIDs,        \* uncompressed layer digests
    ConfigOf,       \* the config a manifest names
    LayersOf,       \* the layer blobs a manifest names, in order
    DiffIDsOf,      \* rootfs.diff_ids of a config
    Inflate,        \* what a layer blob decompresses to
    Serves,         \* the manifests a request may resolve to over time
    Nil,            \* no such file, no value
    MaxFaults       \* bound: I/O and network errors, crashes and cancellations

(* ComputeChainID rejects an image without diff IDs: <<>> is no chain. *)
ChainOf(m) == DiffIDsOf[ConfigOf[m]]

Chains == {DiffIDsOf[c] : c \in Configs} \ {<<>>}

RefFile == [man : Manifests, plat : Platforms]
Request == [ref : Refs, plat : Platforms]

ASSUME StoreAssumption ==
    /\ EscapeRef \in [Refs -> RefNames]
    /\ ConfigOf \in [Manifests -> Configs]
    /\ LayersOf \in [Manifests -> Seq(Blobs)]
    /\ DiffIDsOf \in [Configs -> Seq(DiffIDs)]
    /\ Inflate \in [Blobs -> DiffIDs]
    /\ Serves \in [Request -> SUBSET Manifests]
    /\ MaxFaults \in Nat

ASSUME NilAssumption ==
    /\ Nil \notin Preparers
    /\ Nil \notin Manifests
    /\ Nil \notin Chains
    /\ Nil \notin RefFile
    /\ Nil \notin Request

VARIABLES
    registry,   \* the manifest each request resolves to now
    stored,     \* content/blobs, images/manifests, images/configs
    refs,       \* images/refs: name -> manifest and platform, or Nil
    building,   \* rootfs/building: chain -> layers applied, or Nil
    complete,   \* rootfs/complete/<chain>.ext4: chain -> layers, or Nil
    metadata,   \* rootfs/complete/<chain>.json: chain -> manifest, or Nil
    lock,       \* flock of locks/<chain>.lock: chain -> holder, or Nil
    pc,         \* where each preparer is
    req,        \* the reference and platform it was asked for
    man,        \* the manifest it works on
    step,       \* the next file it stores or layer it applies
    ok,         \* whether its call returns without an error
    deleting,   \* the chain whose image a deleter has removed, or Nil
    faults      \* errors, crashes and cancellations so far

store == <<stored, refs>>
disk == <<building, complete, metadata>>
call == <<pc, req, man, step, ok>>
env == <<registry, deleting>>
vars == <<env, store, disk, lock, call, faults>>

PullPC == {"resolve", "content", "ref"}
LockedPC == {"restat", "create", "apply", "publish", "meta", "cleanup", "unlock"}
PreparePC == {"idle", "cacheRef", "cacheStat", "stat", "lock", "returned"}
                \cup PullPC \cup LockedPC

Goto(p, to) == pc' = [pc EXCEPT ![p] = to]

Return(p, success) ==
    /\ Goto(p, "returned")
    /\ ok' = [ok EXCEPT ![p] = success]

(* A call is over: its locals are gone. *)
Forget(p) ==
    /\ Goto(p, "idle")
    /\ req' = [req EXCEPT ![p] = Nil]
    /\ man' = [man EXCEPT ![p] = Nil]
    /\ step' = [step EXCEPT ![p] = 1]
    /\ ok' = [ok EXCEPT ![p] = FALSE]

Fault ==
    /\ faults < MaxFaults
    /\ faults' = faults + 1

-----------------------------------------------------------------------------
(* Runtime.PrepareImage: the call. *)
PrepareImage(p, r) ==
    /\ pc[p] = "idle"
    /\ Goto(p, "cacheRef")
    /\ req' = [req EXCEPT ![p] = r]
    /\ UNCHANGED <<env, store, disk, lock, man, step, ok, faults>>

(***************************************************************************)
(* preparedFromCache reads the ref file; it is used when its platform is   *)
(* the requested one.  The image_ref it records is not looked at.          *)
(***************************************************************************)
RefName(p) == EscapeRef[req[p].ref]

(* Faulty variant: the platform of the ref file is not compared. *)
AnyPlatformUsable(p) == refs[RefName(p)] # Nil

CachedRefUsable(p) ==
    /\ refs[RefName(p)] # Nil
    /\ refs[RefName(p)].plat = req[p].plat

CacheRef(p) ==
    /\ pc[p] = "cacheRef"
    /\ \/ /\ CachedRefUsable(p)
          /\ man' = [man EXCEPT ![p] = refs[RefName(p)].man]
          /\ Goto(p, "cacheStat")
       \/ /\ ~CachedRefUsable(p)
          /\ Goto(p, "resolve")
          /\ UNCHANGED man
    /\ UNCHANGED <<env, store, disk, lock, req, step, ok, faults>>

(***************************************************************************)
(* Then the manifest and the config it names, files that are never         *)
(* removed, and the existence of the rootfs decide; any error falls        *)
(* through to a pull.                                                      *)
(***************************************************************************)
CachedRootfs(p) ==
    /\ <<"manifest", man[p]>> \in stored
    /\ <<"config", ConfigOf[man[p]]>> \in stored
    /\ ChainOf(man[p]) \in Chains
    /\ complete[ChainOf(man[p])] # Nil

CacheStat(p) ==
    /\ pc[p] = "cacheStat"
    /\ \/ CachedRootfs(p) /\ Return(p, TRUE)
       \/ ~CachedRootfs(p) /\ Goto(p, "resolve") /\ UNCHANGED ok
    /\ UNCHANGED <<env, store, disk, lock, req, man, step, faults>>

-----------------------------------------------------------------------------
(***************************************************************************)
(* oci.Pull resolves the reference, writes manifest, config and each layer *)
(* blob in this order and, last, the ref file.  WriteBlob keeps a blob     *)
(* that exists and otherwise stores bytes that hash to the digest;         *)
(* WriteJSON replaces a file.  Either way the file is there afterwards.    *)
(***************************************************************************)
PullPlan(m) ==
    << <<"blob", m>>, <<"manifest", m>>,
       <<"blob", ConfigOf[m]>>, <<"config", ConfigOf[m]>> >>
    \o [i \in 1..Len(LayersOf[m]) |-> <<"blob", LayersOf[m][i]>>]

(* Files 1 to 4 are written before layers and diff IDs are counted. *)
LayerCountMatches(m) == Len(LayersOf[m]) = Len(ChainOf(m))

Resolve(p) ==
    /\ pc[p] = "resolve"
    /\ man' = [man EXCEPT ![p] = registry[req[p]]]
    /\ step' = [step EXCEPT ![p] = 1]
    /\ Goto(p, "content")
    /\ UNCHANGED <<env, store, disk, lock, req, ok, faults>>

PullContent(p) ==
    /\ pc[p] = "content"
    /\ step[p] <= IF LayerCountMatches(man[p]) THEN 4 + Len(LayersOf[man[p]]) ELSE 4
    /\ stored' = stored \cup {PullPlan(man[p])[step[p]]}
    /\ step' = [step EXCEPT ![p] = @ + 1]
    /\ UNCHANGED <<env, refs, disk, lock, pc, req, man, ok, faults>>

(* Faulty variant: the last layer is skipped. *)
PulledAllButOne(m, n) == n >= 4 + Len(LayersOf[m])

PulledAll(m, n) == n > 4 + Len(LayersOf[m])

PullContentDone(p) ==
    /\ pc[p] = "content"
    /\ \/ /\ LayerCountMatches(man[p])
          /\ PulledAll(man[p], step[p])
          /\ Goto(p, "ref")
          /\ UNCHANGED ok
       \/ /\ ~LayerCountMatches(man[p])
          /\ step[p] > 4
          /\ Return(p, FALSE)
    /\ UNCHANGED <<env, store, disk, lock, req, man, step, faults>>

(* Faulty variant: ref files of a version that knew one platform. *)
RefMetadataNoPlatform(p) == [man |-> man[p]]

RefMetadata(p) == [man |-> man[p], plat |-> req[p].plat]

(* The ref file is written, and EnsureRootfs computes the chain ID. *)
PullRef(p) ==
    /\ pc[p] = "ref"
    /\ refs' = [refs EXCEPT ![RefName(p)] = RefMetadata(p)]
    /\ \/ ChainOf(man[p]) \in Chains /\ Goto(p, "stat") /\ UNCHANGED ok
       \/ ChainOf(man[p]) \notin Chains /\ Return(p, FALSE)
    /\ UNCHANGED <<env, stored, disk, lock, req, man, step, faults>>

PullFails(p) ==
    /\ pc[p] \in PullPC
    /\ Fault
    /\ Return(p, FALSE)
    /\ UNCHANGED <<env, store, disk, lock, req, man, step>>

-----------------------------------------------------------------------------
(* rootfsbuilder.EnsureRootfs: stat, lock, stat again, build. *)
Chain(p) == ChainOf(man[p])

StatComplete(p) ==
    /\ pc[p] = "stat"
    /\ \/ complete[Chain(p)] # Nil /\ Return(p, TRUE)
       \/ complete[Chain(p)] = Nil /\ Goto(p, "lock") /\ UNCHANGED ok
    /\ UNCHANGED <<env, store, disk, lock, req, man, step, faults>>

(* A poll of filelock.Acquire that gets the flock. *)
AcquireLock(p) ==
    /\ pc[p] = "lock"
    /\ lock[Chain(p)] = Nil
    /\ lock' = [lock EXCEPT ![Chain(p)] = p]
    /\ Goto(p, "restat")
    /\ UNCHANGED <<env, store, disk, req, man, step, ok, faults>>

(* Faulty variant: a cancelled wait is taken for an acquired lock. *)
AcquireErrorIgnored(p) ==
    /\ pc[p] = "lock"
    /\ Fault
    /\ Return(p, TRUE)
    /\ UNCHANGED <<env, store, disk, lock, req, man, step>>

(* The waiter's context ends, or the flock call fails. *)
AcquireFails(p) ==
    /\ pc[p] = "lock"
    /\ Fault
    /\ Return(p, FALSE)
    /\ UNCHANGED <<env, store, disk, lock, req, man, step>>

StatLocked(p) ==
    /\ pc[p] = "restat"
    /\ \/ /\ complete[Chain(p)] # Nil
          /\ Goto(p, "unlock")
          /\ ok' = [ok EXCEPT ![p] = TRUE]
       \/ /\ complete[Chain(p)] = Nil
          /\ Goto(p, "create")
          /\ UNCHANGED ok
    /\ UNCHANGED <<env, store, disk, lock, req, man, step, faults>>

(***************************************************************************)
(* Every read and stat before the build takes any error for absence: the   *)
(* cache lookup falls through to a pull, EnsureRootfs goes on to lock and  *)
(* build.                                                                  *)
(***************************************************************************)
LookupFails(p) ==
    /\ \/ pc[p] \in {"cacheRef", "cacheStat"} /\ Goto(p, "resolve")
       \/ pc[p] = "stat" /\ Goto(p, "lock")
       \/ pc[p] = "restat" /\ Goto(p, "create")
    /\ Fault
    /\ UNCHANGED <<env, store, disk, lock, req, man, step, ok>>

(* Faulty variant: the metadata is written before the image is built. *)
CreateWithMetadata(p) ==
    /\ pc[p] = "create"
    /\ building' = [building EXCEPT ![Chain(p)] = <<>>]
    /\ metadata' = [metadata EXCEPT ![Chain(p)] = man[p]]
    /\ step' = [step EXCEPT ![p] = 1]
    /\ Goto(p, "apply")
    /\ UNCHANGED <<env, store, complete, lock, req, man, ok, faults>>

(* Remove what a crashed build left, create an empty image. *)
CreateBuilding(p) ==
    /\ pc[p] = "create"
    /\ building' = [building EXCEPT ![Chain(p)] = <<>>]
    /\ step' = [step EXCEPT ![p] = 1]
    /\ Goto(p, "apply")
    /\ UNCHANGED <<env, store, complete, metadata, lock, req, man, ok, faults>>

(***************************************************************************)
(* ApplyLayer writes the entries while it hashes them, and compares the    *)
(* diff ID when they are already in the image.                             *)
(***************************************************************************)
CurrentBlob(p) == LayersOf[man[p]][step[p]]

(* Faulty variant: the diff ID is not verified. *)
DiffIDUnchecked(p) == TRUE

DiffIDMatches(p) == Inflate[CurrentBlob(p)] = Chain(p)[step[p]]

ApplyLayer(p) ==
    /\ pc[p] = "apply"
    /\ step[p] <= Len(LayersOf[man[p]])
    /\ <<"blob", CurrentBlob(p)>> \in stored
    /\ building' = [building EXCEPT ![Chain(p)] = Append(@, Inflate[CurrentBlob(p)])]
    /\ \/ /\ DiffIDMatches(p)
          /\ step' = [step EXCEPT ![p] = @ + 1]
          /\ UNCHANGED pc
       \/ /\ ~DiffIDMatches(p)
          /\ Goto(p, "cleanup")
          /\ UNCHANGED step
    /\ UNCHANGED <<env, store, complete, metadata, lock, req, man, ok, faults>>

BuildDone(p) ==
    /\ pc[p] = "apply"
    /\ step[p] > Len(LayersOf[man[p]])
    /\ Goto(p, "publish")
    /\ UNCHANGED <<env, store, disk, lock, req, man, step, ok, faults>>

(* os.Rename of the building file onto the complete path. *)
Publish(p) ==
    /\ pc[p] = "publish"
    /\ complete' = [complete EXCEPT ![Chain(p)] = building[Chain(p)]]
    /\ building' = [building EXCEPT ![Chain(p)] = Nil]
    /\ Goto(p, "meta")
    /\ UNCHANGED <<env, store, metadata, lock, req, man, step, ok, faults>>

WriteMetadata(p) ==
    /\ pc[p] = "meta"
    /\ metadata' = [metadata EXCEPT ![Chain(p)] = man[p]]
    /\ ok' = [ok EXCEPT ![p] = TRUE]
    /\ Goto(p, "unlock")
    /\ UNCHANGED <<env, store, building, complete, lock, req, man, step, faults>>

(***************************************************************************)
(* An error or a cancelled context in the middle of a build runs the       *)
(* deferred removal of the building file; an error of WriteMetadata comes  *)
(* after cleanupTmp is cleared and removes nothing.                        *)
(***************************************************************************)
BuildFails(p) ==
    /\ \/ pc[p] \in {"create", "apply", "publish"} /\ Goto(p, "cleanup")
       \/ pc[p] = "meta" /\ Goto(p, "unlock")
    /\ Fault
    /\ UNCHANGED <<env, store, disk, lock, req, man, step, ok>>

Cleanup(p) ==
    /\ pc[p] = "cleanup"
    /\ building' = [building EXCEPT ![Chain(p)] = Nil]
    /\ Goto(p, "unlock")
    /\ UNCHANGED <<env, store, complete, metadata, lock, req, man, step, ok, faults>>

(* Faulty variant: the lock is closed on success only. *)
UnlockBuilt(p) ==
    /\ pc[p] = "unlock"
    /\ lock' = IF ok[p] THEN [lock EXCEPT ![Chain(p)] = Nil] ELSE lock
    /\ Goto(p, "returned")
    /\ UNCHANGED <<env, store, disk, req, man, step, ok, faults>>

(* The deferred FileLock.Close. *)
Unlock(p) ==
    /\ pc[p] = "unlock"
    /\ lock' = [lock EXCEPT ![Chain(p)] = Nil]
    /\ Goto(p, "returned")
    /\ UNCHANGED <<env, store, disk, req, man, step, ok, faults>>

(* The caller takes the answer; the process is free for another call. *)
TakeAnswer(p) ==
    /\ pc[p] = "returned"
    /\ Forget(p)
    /\ UNCHANGED <<env, store, disk, lock, faults>>

DropLocks(p) == lock' = [c \in Chains |-> IF lock[c] = p THEN Nil ELSE lock[c]]

(***************************************************************************)
(* The process dies and is restarted.  Files stay as they are; the kernel  *)
(* drops its flock.                                                        *)
(***************************************************************************)
Crash(p) ==
    /\ pc[p] # "idle"
    /\ Fault
    /\ Forget(p)
    /\ DropLocks(p)
    /\ UNCHANGED <<env, store, disk>>

-----------------------------------------------------------------------------
(***************************************************************************)
(* Manager.DeleteImage removes the image and then its metadata, without    *)
(* the chain lock; a file that is not there is no error.                   *)
(***************************************************************************)
DeleteRootfs(d, c) ==
    /\ deleting[d] = Nil
    /\ complete' = [complete EXCEPT ![c] = Nil]
    /\ deleting' = [deleting EXCEPT ![d] = c]
    /\ UNCHANGED <<registry, store, building, metadata, lock, call, faults>>

DeleteMetadata(d) ==
    /\ deleting[d] # Nil
    /\ metadata' = [metadata EXCEPT ![deleting[d]] = Nil]
    /\ deleting' = [deleting EXCEPT ![d] = Nil]
    /\ UNCHANGED <<registry, store, building, complete, lock, call, faults>>

(* The second removal fails, or the process dies before it. *)
DeleteFails(d) ==
    /\ deleting[d] # Nil
    /\ Fault
    /\ deleting' = [deleting EXCEPT ![d] = Nil]
    /\ UNCHANGED <<registry, store, disk, lock, call>>

(* Manager.ListImages: the chains with a .json entry under rootfs/complete. *)
ListImages == {c \in Chains : metadata[c] # Nil}

(* Somebody pushes: a reference now names another manifest.  External. *)
MoveTag(r, m) ==
    /\ m \in Serves[r] \ {registry[r]}
    /\ registry' = [registry EXCEPT ![r] = m]
    /\ UNCHANGED <<deleting, store, disk, lock, call, faults>>

-----------------------------------------------------------------------------
(* Init is the store layout that Store.Init creates, before any image. *)
Init ==
    /\ registry \in [Request -> Manifests]
    /\ \A r \in Request : registry[r] \in Serves[r]
    /\ stored = {}
    /\ refs = [n \in RefNames |-> Nil]
    /\ building = [c \in Chains |-> Nil]
    /\ complete = [c \in Chains |-> Nil]
    /\ metadata = [c \in Chains |-> Nil]
    /\ lock = [c \in Chains |-> Nil]
    /\ pc = [p \in Preparers |-> "idle"]
    /\ req = [p \in Preparers |-> Nil]
    /\ man = [p \in Preparers |-> Nil]
    /\ step = [p \in Preparers |-> 1]
    /\ ok = [p \in Preparers |-> FALSE]
    /\ deleting = [d \in Deleters |-> Nil]
    /\ faults = 0

(* What a running call does next when nothing goes wrong: the registry     *)
(* answers, or the call goes on with files and locks of its own machine.   *)
Network(p) == Resolve(p) \/ PullContent(p)

Local(p) ==
    \/ CacheRef(p) \/ CacheStat(p)
    \/ PullContentDone(p) \/ PullRef(p)
    \/ StatComplete(p) \/ AcquireLock(p) \/ StatLocked(p)
    \/ CreateBuilding(p) \/ ApplyLayer(p) \/ BuildDone(p) \/ Publish(p)
    \/ WriteMetadata(p) \/ Cleanup(p) \/ Unlock(p)
    \/ TakeAnswer(p)

Preparer(p) ==
    \/ \E r \in Request : PrepareImage(p, r)
    \/ Network(p) \/ Local(p)
    \/ LookupFails(p) \/ PullFails(p) \/ AcquireFails(p) \/ BuildFails(p)
    \/ Crash(p)

Deleter(d) ==
    \/ \E c \in Chains : DeleteRootfs(d, c)
    \/ DeleteMetadata(d) \/ DeleteFails(d)

Next ==
    \/ \E p \in Preparers : Preparer(p)
    \/ \E d \in Deleters : Deleter(d)
    \/ \E r \in Request, m \in Manifests : MoveTag(r, m)

Spec == Init /\ [][Next]_vars

(***************************************************************************)
(* The scheduler runs every goroutine; nothing obliges a registry to       *)
(* answer, a caller to call, a fault to happen or a tag to move.  Polling  *)
(* is weakly fair only: the flock has no queue, and a waiter may find it   *)
(* taken at every poll.                                                    *)
(***************************************************************************)
FairSpec ==
    /\ Spec
    /\ \A p \in Preparers : WF_vars(Local(p))
    /\ \A d \in Deleters : WF_vars(DeleteMetadata(d))

-----------------------------------------------------------------------------
(* The state spaces of the variables. *)
TypeOK ==
    /\ registry \in [Request -> Manifests]
    /\ stored \subseteq {"blob", "manifest", "config"}
                            \X (Manifests \cup Configs \cup Blobs)
    /\ refs \in [RefNames -> RefFile \cup {Nil}]
    /\ building \in [Chains -> Seq(DiffIDs) \cup {Nil}]
    /\ complete \in [Chains -> Seq(DiffIDs) \cup {Nil}]
    /\ metadata \in [Chains -> Manifests \cup {Nil}]
    /\ lock \in [Chains -> Preparers \cup {Nil}]
    /\ pc \in [Preparers -> PreparePC]
    /\ req \in [Preparers -> Request \cup {Nil}]
    /\ man \in [Preparers -> Manifests \cup {Nil}]
    /\ step \in [Preparers -> Nat \ {0}]
    /\ ok \in [Preparers -> BOOLEAN]
    /\ deleting \in [Deleters -> Chains \cup {Nil}]
    /\ faults \in 0..MaxFaults

(***************************************************************************)
(* An image under rootfs/complete is the whole verified build of the chain *)
(* it is named after, whichever builds raced, failed or crashed: no reader *)
(* checks the file again before a VM boots from it.                        *)
(***************************************************************************)
CompleteIsFull ==
    \A c \in Chains : complete[c] # Nil => complete[c] = c

(***************************************************************************)
(* A ref file never names content that is missing: the cached answer and   *)
(* the build rely on the manifest, config and layers a ref file implies,   *)
(* and Pull may stop or die between any two of its writes.                 *)
(***************************************************************************)
RefImpliesContent ==
    \A n \in RefNames :
        refs[n] # Nil =>
            LET m == refs[n].man IN
            /\ <<"manifest", m>> \in stored
            /\ <<"config", ConfigOf[m]>> \in stored
            /\ \A i \in 1..Len(LayersOf[m]) : <<"blob", LayersOf[m][i]>> \in stored

(***************************************************************************)
(* A successful PrepareImage answers with an image the registry serves for *)
(* the requested platform and a reference with the escaped name of the     *)
(* requested one, although ref files are shared by all platforms and by    *)
(* every reference that escapes to the same name.                          *)
(***************************************************************************)
AnswerIsForName ==
    \A p \in Preparers :
        pc[p] = "returned" /\ ok[p] =>
            \E r \in Request :
                /\ EscapeRef[r.ref] = RefName(p)
                /\ r.plat = req[p].plat
                /\ man[p] \in Serves[r]

Quiet ==
    /\ \A d \in Deleters : deleting[d] = Nil
    /\ \A p \in Preparers : pc[p] # "meta"

(***************************************************************************)
(* When no delete is under way and no build is between its rename and its  *)
(* WriteMetadata, every image ListImages reports has its rootfs.  This is  *)
(* about stores nobody deletes from: a DeleteImage that fails between its  *)
(* two removals, or that overtakes WriteMetadata, leaves a listed image    *)
(* without rootfs.                                                         *)
(***************************************************************************)
ListedImagesExist ==
    Quiet => \A c \in ListImages : complete[c] # Nil

(* A waiter whose chain is never built, because the builds that come       *)
(* before it fail and their callers try again, for ever.                   *)
Starves(p) ==
    /\ <>[](pc[p] = "lock" /\ complete[Chain(p)] = Nil)
    /\ []<>(pc[p] = "lock" /\ lock[Chain(p)] # Nil)
    /\ []<>(pc[p] = "lock" /\ lock[Chain(p)] = Nil)

(***************************************************************************)
(* Every PrepareImage call comes to an answer or dies with its process,    *)
(* whatever fails, crashes or is left half-built, with two exceptions the  *)
(* code has no timeout for: the registry that stalls, and the waiter that  *)
(* starves at the chain's lock.  Then others take that lock and give it    *)
(* back again and again: none is ever held for good.                       *)
(***************************************************************************)
CallsReturn ==
    \A p \in Preparers :
        \/ []<>(pc[p] \in {"returned", "idle"})
        \/ <>[](pc[p] \in {"resolve", "content"})
        \/ Starves(p)

(***************************************************************************)
(* The rootfs cache seen from outside: PrepareImage's answer takes effect  *)
(* at the stat that finds the image or at the rename that publishes it.    *)
(***************************************************************************)
Answered(p) ==
    \/ pc[p] = "meta"
    \/ pc[p] \in {"unlock", "returned"} /\ ok[p]

Cache == INSTANCE RootfsCache WITH
    Clients <- Preparers,
    slot <- complete,
    answer <- [p \in Preparers |-> IF Answered(p) THEN Chain(p) ELSE Nil]

(***************************************************************************)
(* Every step of the store is a step of the cache: an image only appears   *)
(* whole, only a delete takes it away, and a call is only ever answered    *)
(* with an image that was there while the call ran.                        *)
(***************************************************************************)
ImplementsCache == Cache!Spec
=============================================================================
