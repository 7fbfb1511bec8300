-------------------------- MODULE ImageStoreProofs --------------------------
(***************************************************************************)
(* Proofs about ImageStore for any number of processes, references, images *)
(* and faults.                                                             *)
(***************************************************************************)
EXTENDS ImageStore, SequenceTheorems, TLAPS

(* Program counters at which a manifest, and at which a chain, is known. *)
ManPC == {"cacheStat", "content", "ref", "stat", "lock"} \cup LockedPC
ChainPC == {"stat", "lock"} \cup LockedPC

(***************************************************************************)
(* What the locals of a call are worth at each point of it.                *)
(***************************************************************************)
CallInv ==
    \A p \in Preparers :
        /\ pc[p] # "idle" => req[p] \in Request
        /\ pc[p] \in ManPC \/ ok[p] => man[p] \in Manifests
        /\ pc[p] \in ChainPC \/ ok[p] => Chain(p) \in Chains
        /\ pc[p] \in ChainPC \cup {"ref"} => LayerCountMatches(man[p])
        /\ ok[p] => pc[p] \in {"unlock", "returned"}

(***************************************************************************)
(* A process past AcquireLock holds the lock of its chain: what makes the  *)
(* building file its own, and what a crash must not take from another.     *)
(***************************************************************************)
LockInv ==
    \A p \in Preparers : pc[p] \in LockedPC => lock[Chain(p)] = p

(***************************************************************************)
(* The building file holds exactly the verified layers so far.             *)
(***************************************************************************)
BuildInv ==
    \A p \in Preparers :
        /\ pc[p] = "apply" =>
              /\ step[p] <= Len(Chain(p)) + 1
              /\ building[Chain(p)] = SubSeq(Chain(p), 1, step[p] - 1)
        /\ pc[p] = "publish" => building[Chain(p)] = Chain(p)

Inv == TypeOK /\ CallInv /\ LockInv /\ BuildInv /\ CompleteIsFull

-----------------------------------------------------------------------------
(* A chain is a sequence of diff IDs, and the chain of every manifest is one
   or is empty. *)
LEMMA ChainTypes ==
    /\ Chains \subseteq Seq(DiffIDs)
    /\ \A m \in Manifests : ChainOf(m) \in Seq(DiffIDs)
BY StoreAssumption DEF Chains, ChainOf

(* Applying the next verified layer of a chain extends the prefix built. *)
LEMMA ExtendPrefix ==
    ASSUME NEW c \in Seq(DiffIDs), NEW i \in 1..Len(c)
    PROVE  Append(SubSeq(c, 1, i - 1), c[i]) = SubSeq(c, 1, i)
<1>1. SubSeq(c, 1, i - 1) \in Seq(DiffIDs) /\ Len(SubSeq(c, 1, i - 1)) = i - 1
  BY SubSeqProperties
<1>2. SubSeq(c, 1, i) \in Seq(DiffIDs) /\ Len(SubSeq(c, 1, i)) = i
  BY SubSeqProperties
<1>3. c[i] \in DiffIDs
  OBVIOUS
<1>4. Append(SubSeq(c, 1, i - 1), c[i]) \in Seq(DiffIDs)
  BY <1>1, <1>3
<1>5. Len(Append(SubSeq(c, 1, i - 1), c[i])) = i
  BY <1>1, <1>3
<1>6. ASSUME NEW j \in 1..i
      PROVE Append(SubSeq(c, 1, i - 1), c[i])[j] = SubSeq(c, 1, i)[j]
  BY <1>1, <1>3, SubSeqProperties
<1> QED
  BY <1>2, <1>4, <1>5, <1>6, SeqEqual

(* The prefix of full length is the chain. *)
LEMMA WholePrefix ==
    ASSUME NEW c \in Seq(DiffIDs)
    PROVE  SubSeq(c, 1, Len(c)) = c
<1>1. SubSeq(c, 1, Len(c)) \in Seq(DiffIDs) /\ Len(SubSeq(c, 1, Len(c))) = Len(c)
  BY SubSeqProperties
<1>2. \A j \in 1..Len(c) : SubSeq(c, 1, Len(c))[j] = c[j]
  BY SubSeqProperties
<1> QED
  BY <1>1, <1>2, SeqEqual

-----------------------------------------------------------------------------
(* The invariant holds initially: every process is idle, no file exists. *)
LEMMA InvInit == Init => Inv
<1> SUFFICES ASSUME Init PROVE Inv
  OBVIOUS
<1>1. TypeOK
  BY StoreAssumption DEF Init, TypeOK, PreparePC
<1>2. CallInv /\ LockInv /\ BuildInv /\ CompleteIsFull
  BY DEF Init, CallInv, LockInv, BuildInv, CompleteIsFull, ManPC, ChainPC, LockedPC
<1> QED
  BY <1>1, <1>2 DEF Inv

(* The fault counter stays within its bound. *)
LEMMA FaultType ==
    ASSUME TypeOK, Fault
    PROVE  faults' \in 0..MaxFaults
BY StoreAssumption DEF TypeOK, Fault

(* Looking up the cache touches only the caller's locals. *)
LEMMA InvLookup ==
    ASSUME Inv, NEW p \in Preparers,
           \/ \E r \in Request : PrepareImage(p, r)
           \/ CacheRef(p) \/ CacheStat(p) \/ LookupFails(p)
    PROVE  Inv'
<1> USE DEF Inv, Goto, Return, Fault, env, store, disk, call
<1>1. CASE \E r \in Request : PrepareImage(p, r)
  <2> PICK r \in Request : PrepareImage(p, r)
    BY <1>1
  <2> USE DEF PrepareImage
  <2>1. TypeOK'
    BY DEF TypeOK, PreparePC
  <2>2. CallInv'
    BY DEF TypeOK, CallInv, ManPC, ChainPC, LockedPC, Chain
  <2>3. LockInv' /\ BuildInv'
    BY DEF TypeOK, LockInv, BuildInv, LockedPC, Chain
  <2>4. CompleteIsFull'
    BY DEF CompleteIsFull
  <2> QED
    BY <2>1, <2>2, <2>3, <2>4
<1>2. CASE CacheRef(p)
  <2> USE <1>2 DEF CacheRef, CachedRefUsable, RefName
  <2>0. req[p] \in Request /\ RefName(p) \in RefNames
    BY StoreAssumption DEF CallInv, Request
  <2>1. TypeOK'
    BY <2>0 DEF TypeOK, PreparePC, PullPC, RefFile
  <2>2. CallInv'
    BY <2>0 DEF TypeOK, CallInv, ManPC, ChainPC, LockedPC, Chain, RefFile
  <2>3. LockInv' /\ BuildInv'
    BY DEF TypeOK, LockInv, BuildInv, LockedPC, Chain
  <2>4. CompleteIsFull'
    BY DEF CompleteIsFull
  <2> QED
    BY <2>1, <2>2, <2>3, <2>4
<1>3. CASE CacheStat(p)
  <2> USE <1>3 DEF CacheStat, CachedRootfs
  <2>1. TypeOK'
    BY DEF TypeOK, PreparePC, PullPC
  <2>2. CallInv'
    BY DEF TypeOK, CallInv, ManPC, ChainPC, LockedPC, Chain
  <2>3. LockInv' /\ BuildInv'
    BY DEF TypeOK, LockInv, BuildInv, LockedPC, Chain
  <2>4. CompleteIsFull'
    BY DEF CompleteIsFull
  <2> QED
    BY <2>1, <2>2, <2>3, <2>4
<1>4. CASE LookupFails(p)
  <2> USE <1>4 DEF LookupFails
  <2>1. TypeOK'
    BY FaultType DEF TypeOK, PreparePC, PullPC, LockedPC
  <2>2. CallInv'
    BY DEF TypeOK, CallInv, ManPC, ChainPC, LockedPC, Chain
  <2>3. LockInv' /\ BuildInv'
    BY DEF TypeOK, LockInv, BuildInv, LockedPC, Chain
  <2>4. CompleteIsFull'
    BY DEF CompleteIsFull
  <2> QED
    BY <2>1, <2>2, <2>3, <2>4
<1> QED
  BY <1>1, <1>2, <1>3, <1>4

(* Every file Pull writes is a blob, a manifest or a config. *)
LEMMA PullPlanType ==
    ASSUME NEW m \in Manifests, NEW i \in 1..(4 + Len(LayersOf[m]))
    PROVE  PullPlan(m)[i] \in {"blob", "manifest", "config"}
                                 \X (Manifests \cup Configs \cup Blobs)
<1>1. LayersOf[m] \in Seq(Blobs) /\ ConfigOf[m] \in Configs
  BY StoreAssumption
<1> QED
  BY <1>1 DEF PullPlan

(* A pull adds files and moves through its own locals. *)
LEMMA InvPull ==
    ASSUME Inv, NEW p \in Preparers,
           Resolve(p) \/ PullContent(p) \/ PullContentDone(p) \/ PullRef(p) \/ PullFails(p)
    PROVE  Inv'
<1> USE DEF Inv, Goto, Return, Fault, Forget, env, store, disk, call
<1>1. CASE Resolve(p)
  <2> USE <1>1 DEF Resolve
  <2>0. req[p] \in Request
    BY DEF CallInv
  <2>1. TypeOK'
    BY <2>0 DEF TypeOK, PreparePC, PullPC
  <2>2. CallInv'
    BY <2>0 DEF TypeOK, CallInv, ManPC, ChainPC, LockedPC, Chain
  <2>3. LockInv' /\ BuildInv'
    BY DEF TypeOK, LockInv, BuildInv, LockedPC, Chain
  <2>4. CompleteIsFull'
    BY DEF CompleteIsFull
  <2> QED
    BY <2>1, <2>2, <2>3, <2>4
<1>2. CASE PullContent(p)
  <2> USE <1>2 DEF PullContent
  <2>0. man[p] \in Manifests /\ req[p] \in Request
    BY DEF CallInv, ManPC, LockedPC
  <2>1. TypeOK'
    <3>1. PullPlan(man[p])[step[p]]
             \in {"blob", "manifest", "config"} \X (Manifests \cup Configs \cup Blobs)
      BY <2>0, PullPlanType, StoreAssumption DEF TypeOK
    <3> QED
      BY <3>1 DEF TypeOK
  <2>2. CallInv'
    BY DEF TypeOK, CallInv, ManPC, ChainPC, LockedPC, Chain
  <2>3. LockInv' /\ BuildInv'
    BY DEF TypeOK, LockInv, BuildInv, LockedPC, Chain
  <2>4. CompleteIsFull'
    BY DEF CompleteIsFull
  <2> QED
    BY <2>1, <2>2, <2>3, <2>4
<1>3. CASE PullContentDone(p)
  <2> USE <1>3 DEF PullContentDone
  <2>0. man[p] \in Manifests /\ req[p] \in Request
    BY DEF CallInv, ManPC, LockedPC
  <2>1. TypeOK'
    BY DEF TypeOK, PreparePC, PullPC, LockedPC
  <2>2. CallInv'
    BY <2>0 DEF TypeOK, CallInv, ManPC, ChainPC, LockedPC, Chain, LayerCountMatches
  <2>3. LockInv' /\ BuildInv'
    BY DEF TypeOK, LockInv, BuildInv, LockedPC, Chain
  <2>4. CompleteIsFull'
    BY DEF CompleteIsFull
  <2> QED
    BY <2>1, <2>2, <2>3, <2>4
<1>4. CASE PullRef(p)
  <2> USE <1>4 DEF PullRef
  <2>0. man[p] \in Manifests /\ req[p] \in Request /\ RefName(p) \in RefNames
    BY StoreAssumption DEF CallInv, ManPC, LockedPC, RefName, Request
  <2>1. TypeOK'
    BY <2>0 DEF TypeOK, PreparePC, RefFile, Request, RefMetadata
  <2>2. CallInv'
    BY <2>0 DEF TypeOK, CallInv, ManPC, ChainPC, LockedPC, Chain
  <2>3. LockInv' /\ BuildInv'
    BY DEF TypeOK, LockInv, BuildInv, LockedPC, Chain
  <2>4. CompleteIsFull'
    BY DEF CompleteIsFull
  <2> QED
    BY <2>1, <2>2, <2>3, <2>4
<1>5. CASE PullFails(p)
  <2> USE <1>5 DEF PullFails, PullPC
  <2>1. TypeOK'
    BY FaultType DEF TypeOK, PreparePC, PullPC, LockedPC
  <2>2. CallInv'
    BY DEF TypeOK, CallInv, ManPC, ChainPC, LockedPC, Chain
  <2>3. LockInv' /\ BuildInv'
    BY DEF TypeOK, LockInv, BuildInv, LockedPC, Chain
  <2>4. CompleteIsFull'
    BY DEF CompleteIsFull
  <2> QED
    BY <2>1, <2>2, <2>3, <2>4
<1> QED
  BY <1>1, <1>2, <1>3, <1>4, <1>5

(* The stats of EnsureRootfs, a cancelled wait, a failed build. *)
LEMMA InvStat ==
    ASSUME Inv, NEW p \in Preparers,
           StatComplete(p) \/ AcquireFails(p) \/ StatLocked(p) \/ BuildFails(p) \/ TakeAnswer(p)
    PROVE  Inv'
<1> USE DEF Inv, Goto, Return, Fault, Forget, env, store, disk, call
<1>1. CASE StatComplete(p)
  <2> USE <1>1 DEF StatComplete
  <2>1. TypeOK'
    BY DEF TypeOK, PreparePC, PullPC, LockedPC
  <2>2. CallInv'
    BY DEF TypeOK, CallInv, ManPC, ChainPC, LockedPC, Chain
  <2>3. LockInv' /\ BuildInv'
    BY DEF TypeOK, LockInv, BuildInv, LockedPC, Chain
  <2>4. CompleteIsFull'
    BY DEF CompleteIsFull
  <2> QED
    BY <2>1, <2>2, <2>3, <2>4
<1>2. CASE AcquireFails(p)
  <2> USE <1>2 DEF AcquireFails
  <2>1. TypeOK'
    BY FaultType DEF TypeOK, PreparePC, PullPC, LockedPC
  <2>2. CallInv'
    BY DEF TypeOK, CallInv, ManPC, ChainPC, LockedPC, Chain
  <2>3. LockInv' /\ BuildInv'
    BY DEF TypeOK, LockInv, BuildInv, LockedPC, Chain
  <2>4. CompleteIsFull'
    BY DEF CompleteIsFull
  <2> QED
    BY <2>1, <2>2, <2>3, <2>4
<1>3. CASE StatLocked(p)
  <2> USE <1>3 DEF StatLocked
  <2>1. TypeOK'
    BY DEF TypeOK, PreparePC, PullPC, LockedPC
  <2>2. CallInv'
    BY DEF TypeOK, CallInv, ManPC, ChainPC, LockedPC, Chain
  <2>3. LockInv' /\ BuildInv'
    BY DEF TypeOK, LockInv, BuildInv, LockedPC, Chain
  <2>4. CompleteIsFull'
    BY DEF CompleteIsFull
  <2> QED
    BY <2>1, <2>2, <2>3, <2>4
<1>4. CASE BuildFails(p)
  <2> USE <1>4 DEF BuildFails
  <2>1. TypeOK'
    BY FaultType DEF TypeOK, PreparePC, PullPC, LockedPC
  <2>2. CallInv'
    BY DEF TypeOK, CallInv, ManPC, ChainPC, LockedPC, Chain
  <2>3. LockInv' /\ BuildInv'
    BY DEF TypeOK, LockInv, BuildInv, LockedPC, Chain
  <2>4. CompleteIsFull'
    BY DEF CompleteIsFull
  <2> QED
    BY <2>1, <2>2, <2>3, <2>4
<1>5. CASE TakeAnswer(p)
  <2> USE <1>5 DEF TakeAnswer
  <2>1. TypeOK'
    BY DEF TypeOK, PreparePC, PullPC, LockedPC
  <2>2. CallInv'
    BY DEF TypeOK, CallInv, ManPC, ChainPC, LockedPC, Chain
  <2>3. LockInv' /\ BuildInv'
    BY DEF TypeOK, LockInv, BuildInv, LockedPC, Chain
  <2>4. CompleteIsFull'
    BY DEF CompleteIsFull
  <2> QED
    BY <2>1, <2>2, <2>3, <2>4
<1> QED
  BY <1>1, <1>2, <1>3, <1>4, <1>5

(* Two processes past AcquireLock work on different chains. *)
LEMMA OneBuilder ==
    ASSUME Inv, NEW p \in Preparers, NEW q \in Preparers, p # q,
           pc[p] \in LockedPC, pc[q] \in LockedPC
    PROVE  Chain(p) # Chain(q)
BY DEF Inv, LockInv

(* The lock and the build: what the lock's holder does to the files. *)
LEMMA InvLocked ==
    ASSUME Inv, NEW p \in Preparers,
           AcquireLock(p) \/ CreateBuilding(p) \/ ApplyLayer(p) \/ BuildDone(p) \/ Publish(p)
    PROVE  Inv'
<1> USE DEF Inv, Goto, Return, Fault, Forget, env, store, disk, call
<1>1. CASE AcquireLock(p)
  <2> USE <1>1 DEF AcquireLock
  <2>0. man[p] \in Manifests /\ Chain(p) \in Chains
    BY DEF CallInv, ManPC, ChainPC, LockedPC
  <2>1. TypeOK'
    BY <2>0 DEF TypeOK, PreparePC, LockedPC
  <2>2. CallInv'
    BY DEF TypeOK, CallInv, ManPC, ChainPC, LockedPC, Chain
  <2>3. LockInv' /\ BuildInv'
    <3>1. \A q \in Preparers : pc[q] \in LockedPC => Chain(q) # Chain(p)
      BY NilAssumption DEF LockInv
    <3>2. LockInv'
      BY <2>0, <3>1 DEF TypeOK, LockInv, LockedPC, Chain
    <3>3. BuildInv'
      BY DEF TypeOK, BuildInv, LockedPC, Chain
    <3> QED
      BY <3>2, <3>3
  <2>4. CompleteIsFull'
    BY DEF CompleteIsFull
  <2> QED
    BY <2>1, <2>2, <2>3, <2>4
<1>2. CASE CreateBuilding(p)
  <2> USE <1>2 DEF CreateBuilding
  <2>0. man[p] \in Manifests /\ Chain(p) \in Chains /\ pc[p] \in LockedPC
    BY DEF CallInv, ManPC, ChainPC, LockedPC
  <2>a. \A q \in Preparers \ {p} : pc[q] \in LockedPC => Chain(q) # Chain(p)
    BY <2>0, OneBuilder
  <2>1. TypeOK'
    BY <2>0 DEF TypeOK, PreparePC, LockedPC
  <2>2. CallInv'
    BY DEF TypeOK, CallInv, ManPC, ChainPC, LockedPC, Chain
  <2>3. LockInv' /\ BuildInv'
    <3>1. LockInv'
      BY DEF TypeOK, LockInv, LockedPC, Chain
    <3>2. SubSeq(Chain(p), 1, 0) = <<>> /\ Len(Chain(p)) \in Nat
      BY <2>0, ChainTypes, SubSeqEmpty
    <3>3. BuildInv'
      BY <2>0, <2>a, <3>2 DEF TypeOK, BuildInv, LockedPC, Chain
    <3> QED
      BY <3>1, <3>3
  <2>4. CompleteIsFull'
    BY DEF CompleteIsFull
  <2> QED
    BY <2>1, <2>2, <2>3, <2>4
<1>3. CASE ApplyLayer(p)
  <2> USE <1>3 DEF ApplyLayer
  <2>0. man[p] \in Manifests /\ Chain(p) \in Chains /\ pc[p] \in LockedPC
    BY DEF CallInv, ManPC, ChainPC, LockedPC
  <2>a. \A q \in Preparers \ {p} : pc[q] \in LockedPC => Chain(q) # Chain(p)
    BY <2>0, OneBuilder
  <2>b. /\ Chain(p) \in Seq(DiffIDs)
        /\ Len(Chain(p)) = Len(LayersOf[man[p]])
        /\ step[p] \in 1..Len(Chain(p))
        /\ building[Chain(p)] = SubSeq(Chain(p), 1, step[p] - 1)
    BY <2>0, ChainTypes
    DEF TypeOK, CallInv, BuildInv, ChainPC, LockedPC, LayerCountMatches, Chain
  <2>c. CurrentBlob(p) \in Blobs /\ Inflate[CurrentBlob(p)] \in DiffIDs
    BY <2>0, <2>b, StoreAssumption DEF CurrentBlob
  <2>1. TypeOK'
    <3>1. building[Chain(p)] \in Seq(DiffIDs)
      BY <2>b, SubSeqProperties
    <3>2. Append(building[Chain(p)], Inflate[CurrentBlob(p)]) \in Seq(DiffIDs)
      BY <3>1, <2>c
    <3>3. building' \in [Chains -> Seq(DiffIDs) \cup {Nil}]
      BY <2>0, <3>2 DEF TypeOK
    <3>4. pc' \in [Preparers -> PreparePC] /\ step' \in [Preparers -> Nat \ {0}]
      <4>1. CASE DiffIDMatches(p)
        BY <4>1 DEF TypeOK
      <4>2. CASE ~DiffIDMatches(p)
        BY <4>2 DEF TypeOK, PreparePC, LockedPC
      <4> QED
        BY <4>1, <4>2
    <3> QED
      BY <3>3, <3>4 DEF TypeOK
  <2>2. CallInv'
    BY DEF TypeOK, CallInv, ManPC, ChainPC, LockedPC, Chain
  <2>3. LockInv' /\ BuildInv'
    <3>1. LockInv'
      BY DEF TypeOK, LockInv, LockedPC, Chain
    <3>2. DiffIDMatches(p) =>
              Append(building[Chain(p)], Inflate[CurrentBlob(p)])
                = SubSeq(Chain(p), 1, step[p])
      BY <2>b, ExtendPrefix DEF DiffIDMatches
    <3>3. ASSUME NEW q \in Preparers, q # p
          PROVE  /\ pc'[q] = "apply" =>
                       /\ step'[q] <= Len(Chain(q)') + 1
                       /\ building'[Chain(q)'] = SubSeq(Chain(q)', 1, step'[q] - 1)
                 /\ pc'[q] = "publish" => building'[Chain(q)'] = Chain(q)'
      BY <2>a, <3>3 DEF TypeOK, BuildInv, LockedPC, Chain
    <3>4. pc'[p] = "apply" =>
              /\ step'[p] <= Len(Chain(p)') + 1
              /\ building'[Chain(p)'] = SubSeq(Chain(p)', 1, step'[p] - 1)
      BY <2>0, <2>b, <3>2 DEF TypeOK, Chain
    <3>5. pc'[p] # "publish"
      BY DEF TypeOK
    <3> QED
      BY <3>1, <3>3, <3>4, <3>5 DEF BuildInv
  <2>4. CompleteIsFull'
    BY DEF CompleteIsFull
  <2> QED
    BY <2>1, <2>2, <2>3, <2>4
<1>4. CASE BuildDone(p)
  <2> USE <1>4 DEF BuildDone
  <2>0. man[p] \in Manifests /\ Chain(p) \in Chains /\ pc[p] \in LockedPC
    BY DEF CallInv, ManPC, ChainPC, LockedPC
  <2>a. \A q \in Preparers \ {p} : pc[q] \in LockedPC => Chain(q) # Chain(p)
    BY <2>0, OneBuilder
  <2>1. TypeOK'
    BY DEF TypeOK, PreparePC, PullPC, LockedPC
  <2>2. CallInv'
    BY DEF TypeOK, CallInv, ManPC, ChainPC, LockedPC, Chain
  <2>3. LockInv' /\ BuildInv'
    <3>1. LockInv'
      BY DEF TypeOK, LockInv, LockedPC, Chain
    <3>2. Chain(p) \in Seq(DiffIDs) /\ Len(Chain(p)) = Len(LayersOf[man[p]])
      BY <2>0, ChainTypes DEF CallInv, ChainPC, LockedPC, LayerCountMatches, Chain
    <3>3. step[p] - 1 = Len(Chain(p))
      BY <3>2 DEF TypeOK, BuildInv
    <3>4. building[Chain(p)] = Chain(p)
      BY <3>2, <3>3, WholePrefix DEF BuildInv
    <3>5. BuildInv'
      BY <3>4 DEF TypeOK, BuildInv, LockedPC, Chain
    <3> QED
      BY <3>1, <3>5
  <2>4. CompleteIsFull'
    BY DEF CompleteIsFull
  <2> QED
    BY <2>1, <2>2, <2>3, <2>4
<1>5. CASE Publish(p)
  <2> USE <1>5 DEF Publish
  <2>0. man[p] \in Manifests /\ Chain(p) \in Chains /\ pc[p] \in LockedPC
    BY DEF CallInv, ManPC, ChainPC, LockedPC
  <2>a. \A q \in Preparers \ {p} : pc[q] \in LockedPC => Chain(q) # Chain(p)
    BY <2>0, OneBuilder
  <2>b. building[Chain(p)] = Chain(p)
    BY DEF BuildInv
  <2>1. TypeOK'
    BY <2>0, <2>b, ChainTypes DEF TypeOK, PreparePC, LockedPC
  <2>2. CallInv'
    BY DEF TypeOK, CallInv, ManPC, ChainPC, LockedPC, Chain
  <2>3. LockInv' /\ BuildInv'
    <3>1. LockInv'
      BY <2>0, <2>a DEF TypeOK, LockInv, LockedPC, Chain
    <3>2. BuildInv'
      BY <2>0, <2>a DEF TypeOK, BuildInv, LockedPC, Chain
    <3> QED
      BY <3>1, <3>2
  <2>4. CompleteIsFull'
    BY <2>0, <2>b DEF TypeOK, CompleteIsFull
  <2> QED
    BY <2>1, <2>2, <2>3, <2>4
<1> QED
  BY <1>1, <1>2, <1>3, <1>4, <1>5

(* The end of a build, and a crash at any point. *)
LEMMA InvRelease ==
    ASSUME Inv, NEW p \in Preparers,
           WriteMetadata(p) \/ Cleanup(p) \/ Unlock(p) \/ Crash(p)
    PROVE  Inv'
<1> USE DEF Inv, Goto, Return, Fault, Forget, env, store, disk, call
<1>1. CASE WriteMetadata(p)
  <2> USE <1>1 DEF WriteMetadata
  <2>0. man[p] \in Manifests /\ Chain(p) \in Chains /\ pc[p] \in LockedPC
    BY DEF CallInv, ManPC, ChainPC, LockedPC
  <2>a. \A q \in Preparers \ {p} : pc[q] \in LockedPC => Chain(q) # Chain(p)
    BY <2>0, OneBuilder
  <2>1. TypeOK'
    BY <2>0 DEF TypeOK, PreparePC, LockedPC
  <2>2. CallInv'
    BY DEF TypeOK, CallInv, ManPC, ChainPC, LockedPC, Chain
  <2>3. LockInv' /\ BuildInv'
    BY DEF TypeOK, LockInv, BuildInv, LockedPC, Chain
  <2>4. CompleteIsFull'
    BY DEF CompleteIsFull
  <2> QED
    BY <2>1, <2>2, <2>3, <2>4
<1>2. CASE Cleanup(p)
  <2> USE <1>2 DEF Cleanup
  <2>0. man[p] \in Manifests /\ Chain(p) \in Chains /\ pc[p] \in LockedPC
    BY DEF CallInv, ManPC, ChainPC, LockedPC
  <2>a. \A q \in Preparers \ {p} : pc[q] \in LockedPC => Chain(q) # Chain(p)
    BY <2>0, OneBuilder
  <2>1. TypeOK'
    BY <2>0 DEF TypeOK, PreparePC, LockedPC
  <2>2. CallInv'
    BY DEF TypeOK, CallInv, ManPC, ChainPC, LockedPC, Chain
  <2>3. LockInv' /\ BuildInv'
    <3>1. LockInv'
      BY <2>0, <2>a DEF TypeOK, LockInv, LockedPC, Chain
    <3>2. BuildInv'
      BY <2>0, <2>a DEF TypeOK, BuildInv, LockedPC, Chain
    <3> QED
      BY <3>1, <3>2
  <2>4. CompleteIsFull'
    BY DEF CompleteIsFull
  <2> QED
    BY <2>1, <2>2, <2>3, <2>4
<1>3. CASE Unlock(p)
  <2> USE <1>3 DEF Unlock
  <2>0. man[p] \in Manifests /\ Chain(p) \in Chains /\ pc[p] \in LockedPC
    BY DEF CallInv, ManPC, ChainPC, LockedPC
  <2>a. \A q \in Preparers \ {p} : pc[q] \in LockedPC => Chain(q) # Chain(p)
    BY <2>0, OneBuilder
  <2>1. TypeOK'
    BY <2>0 DEF TypeOK, PreparePC, LockedPC
  <2>2. CallInv'
    BY DEF TypeOK, CallInv, ManPC, ChainPC, LockedPC, Chain
  <2>3. LockInv' /\ BuildInv'
    <3>1. LockInv'
      BY <2>0, <2>a DEF TypeOK, LockInv, LockedPC, Chain
    <3>2. BuildInv'
      BY <2>0, <2>a DEF TypeOK, BuildInv, LockedPC, Chain
    <3> QED
      BY <3>1, <3>2
  <2>4. CompleteIsFull'
    BY DEF CompleteIsFull
  <2> QED
    BY <2>1, <2>2, <2>3, <2>4
<1>4. CASE Crash(p)
  <2> USE <1>4 DEF Crash, DropLocks
  <2>1. TypeOK'
    BY FaultType DEF TypeOK, PreparePC, PullPC, LockedPC
  <2>2. CallInv'
    BY DEF TypeOK, CallInv, ManPC, ChainPC, LockedPC, Chain
  <2>3. LockInv' /\ BuildInv'
    <3>1. LockInv'
      <4> SUFFICES ASSUME NEW q \in Preparers, pc'[q] \in LockedPC
                   PROVE  lock'[Chain(q)'] = q
        BY DEF LockInv
      <4>1. q # p /\ pc[q] \in LockedPC /\ Chain(q)' = Chain(q)
        BY DEF TypeOK, LockedPC, Chain
      <4>2. Chain(q) \in Chains /\ lock[Chain(q)] = q
        BY <4>1 DEF CallInv, LockInv, ChainPC
      <4> QED
        BY <4>1, <4>2
    <3>2. BuildInv'
      BY DEF TypeOK, BuildInv, LockedPC, Chain
    <3> QED
      BY <3>1, <3>2
  <2>4. CompleteIsFull'
    BY DEF CompleteIsFull
  <2> QED
    BY <2>1, <2>2, <2>3, <2>4
<1> QED
  BY <1>1, <1>2, <1>3, <1>4

(* A delete takes no lock; it only ever removes files of rootfs/complete. *)
LEMMA InvDelete ==
    ASSUME Inv, NEW d \in Deleters, Deleter(d)
    PROVE  Inv'
<1> USE DEF Inv, env, store, disk, call
<1>1. CASE \E c \in Chains : DeleteRootfs(d, c)
  <2>1. TypeOK'
    BY <1>1 DEF TypeOK, DeleteRootfs
  <2>2. CallInv' /\ LockInv' /\ BuildInv'
    BY <1>1 DEF DeleteRootfs, CallInv, LockInv, BuildInv, Chain
  <2>3. CompleteIsFull'
    BY <1>1 DEF TypeOK, DeleteRootfs, CompleteIsFull
  <2> QED
    BY <2>1, <2>2, <2>3
<1>2. CASE DeleteMetadata(d) \/ DeleteFails(d)
  <2>1. TypeOK'
    BY <1>2, FaultType DEF TypeOK, DeleteMetadata, DeleteFails
  <2>2. CallInv' /\ LockInv' /\ BuildInv' /\ CompleteIsFull'
    BY <1>2 DEF DeleteMetadata, DeleteFails, CallInv, LockInv, BuildInv,
                CompleteIsFull, Chain
  <2> QED
    BY <2>1, <2>2
<1> QED
  BY <1>1, <1>2 DEF Deleter

(* A push changes what the registry serves and nothing in the store. *)
LEMMA InvMoveTag ==
    ASSUME Inv, NEW r \in Request, NEW m \in Manifests, MoveTag(r, m)
    PROVE  Inv'
BY DEF Inv, TypeOK, MoveTag, store, disk, call, CallInv, LockInv, BuildInv,
       CompleteIsFull, Chain

(* The invariant is inductive. *)
LEMMA InvNext == Inv /\ [Next]_vars => Inv'
<1> SUFFICES ASSUME Inv, [Next]_vars PROVE Inv'
  OBVIOUS
<1>1. ASSUME NEW p \in Preparers, Preparer(p) PROVE Inv'
  BY <1>1, InvLookup, InvPull, InvStat, InvLocked, InvRelease
  DEF Preparer, Network, Local
<1>2. CASE UNCHANGED vars
  BY <1>2 DEF vars, env, store, disk, call, Inv, TypeOK, CallInv, LockInv,
              BuildInv, CompleteIsFull, Chain
<1> QED
  BY <1>1, <1>2, InvDelete, InvMoveTag DEF Next

(***************************************************************************)
(* The inductive invariant holds in every reachable state.                 *)
(***************************************************************************)
THEOREM Invariance == Spec => []Inv
BY InvInit, InvNext, PTL DEF Spec

(***************************************************************************)
(* Type correctness of the store: no step of PrepareImage, DeleteImage or  *)
(* a crash leaves a variable outside its state space.                      *)
(***************************************************************************)
THEOREM TypeCorrect == Spec => []TypeOK
<1>1. Inv => TypeOK
  BY DEF Inv
<1> QED
  BY <1>1, Invariance, PTL

(***************************************************************************)
(* Every published rootfs is the whole verified build of its chain, for    *)
(* any number of racing builders, deleters, faults and crashes.            *)
(***************************************************************************)
THEOREM PublishedRootfsIsFull == Spec => []CompleteIsFull
<1>1. Inv => CompleteIsFull
  BY DEF Inv
<1> QED
  BY <1>1, Invariance, PTL

-----------------------------------------------------------------------------
(* The answers of the abstract cache, as the refinement mapping has them. *)
answers == [p \in Preparers |-> IF Answered(p) THEN Chain(p) ELSE Nil]

(* Initially no slot is filled and nobody is answered. *)
LEMMA CacheInit == Init => Cache!Init
BY DEF Init, Cache!Init, Answered

(***************************************************************************)
(* A step of p that leaves the images alone keeps p's answer, drops it, or *)
(* answers p with a chain whose image is there.                            *)
(***************************************************************************)
LEMMA CacheLocalStep ==
    ASSUME Inv, NEW p \in Preparers, complete' = complete,
           \A q \in Preparers \ {p} : /\ Answered(q)' = Answered(q)
                                       /\ Chain(q)' = Chain(q),
           \/ Answered(p)' /\ Answered(p) /\ Chain(p)' = Chain(p)
           \/ ~Answered(p)'
           \/ Answered(p)' /\ Chain(p)' \in Chains /\ complete[Chain(p)'] # Nil
    PROVE  [Cache!Next]_(Cache!cvars)
<1>1. CASE Answered(p)' /\ Answered(p) /\ Chain(p)' = Chain(p)
  <2>1. answers' = answers
    BY <1>1 DEF answers
  <2> QED
    BY <2>1 DEF answers, Cache!cvars
<1>2. CASE ~Answered(p)'
  <2>1. answers' = [answers EXCEPT ![p] = Nil]
    BY <1>2 DEF answers
  <2>2. Cache!Drop(p)
    BY <2>1 DEF answers, Cache!Drop
  <2> QED
    BY <2>2 DEF Cache!Next
<1>3. CASE Answered(p)' /\ Chain(p)' \in Chains /\ complete[Chain(p)'] # Nil
  <2>1. answers' = [answers EXCEPT ![p] = Chain(p)']
    BY <1>3 DEF answers
  <2>2. complete[Chain(p)'] = Chain(p)'
    BY <1>3 DEF Inv, CompleteIsFull
  <2>3. Cache!Hit(p, Chain(p)')
    BY <2>1, <2>2 DEF answers, Cache!Hit
  <2> QED
    BY <1>3, <2>3 DEF Cache!Next
<1> QED
  BY <1>1, <1>2, <1>3

(* Every step of a preparer is a step of the cache. *)
LEMMA CachePreparer ==
    ASSUME Inv, NEW p \in Preparers, Preparer(p)
    PROVE  [Cache!Next]_(Cache!cvars)
<1> USE DEF Inv, Goto, Return, Forget, env, store, disk, call
<1>1. CASE Publish(p)
  <2>1. Chain(p) \in Chains /\ building[Chain(p)] = Chain(p) /\ Chain(p)' = Chain(p)
    BY <1>1 DEF Publish, CallInv, BuildInv, ChainPC, LockedPC, Chain
  <2>2. complete' = [complete EXCEPT ![Chain(p)] = Chain(p)]
    BY <1>1, <2>1 DEF Publish
  <2>3. \A q \in Preparers : Chain(q)' = Chain(q)
    BY <1>1 DEF Publish, Chain
  <2>4. \A q \in Preparers \ {p} : Answered(q)' = Answered(q)
    BY <1>1 DEF Publish, Answered, TypeOK
  <2>5. Answered(p)'
    BY <1>1 DEF Publish, Answered, TypeOK
  <2>6. answers' = [answers EXCEPT ![p] = Chain(p)]
    BY <2>3, <2>4, <2>5 DEF answers
  <2>7. Cache!Publish(p, Chain(p))
    BY <2>2, <2>6 DEF answers, Cache!Publish
  <2> QED
    BY <2>1, <2>7 DEF Cache!Next
<1>2. CASE ~Publish(p)
  <2>1. complete' = complete
    BY <1>2 DEF Preparer, Network, Local, PrepareImage, CacheRef, CacheStat, Resolve,
        PullContent, PullContentDone, PullRef, StatComplete, AcquireLock,
        StatLocked, CreateBuilding, ApplyLayer, BuildDone, WriteMetadata,
        Cleanup, Unlock, TakeAnswer, LookupFails, PullFails, AcquireFails,
        BuildFails, Crash
  <2>2. \A q \in Preparers \ {p} :
            pc'[q] = pc[q] /\ ok'[q] = ok[q] /\ man'[q] = man[q]
    BY DEF Preparer, Network, Local, PrepareImage, CacheRef, CacheStat, Resolve,
        PullContent, PullContentDone, PullRef, StatComplete, AcquireLock,
        StatLocked, CreateBuilding, ApplyLayer, BuildDone, Publish,
        WriteMetadata, Cleanup, Unlock, TakeAnswer, LookupFails, PullFails,
        AcquireFails, BuildFails, Crash, TypeOK
  <2>3. \A q \in Preparers \ {p} : Answered(q)' = Answered(q) /\ Chain(q)' = Chain(q)
    BY <2>2 DEF Answered, Chain
  <2>4. CASE CacheStat(p) \/ StatComplete(p) \/ StatLocked(p)
    <3>1. \/ ~Answered(p)'
          \/ Answered(p)' /\ Chain(p)' \in Chains /\ complete[Chain(p)'] # Nil
      BY <2>4 DEF CacheStat, StatComplete, StatLocked, CachedRootfs, Answered,
                  Chain, TypeOK, CallInv, ChainPC, LockedPC
    <3> QED
      BY <2>1, <2>3, <3>1, CacheLocalStep
  <2>5. CASE WriteMetadata(p) \/ Unlock(p)
    <3>1. \/ ~Answered(p)'
          \/ Answered(p)' /\ Answered(p) /\ Chain(p)' = Chain(p)
      BY <2>5 DEF WriteMetadata, Unlock, Answered, Chain, TypeOK
    <3> QED
      BY <2>1, <2>3, <3>1, CacheLocalStep
  <2>6. CASE ~(CacheStat(p) \/ StatComplete(p) \/ StatLocked(p)
               \/ WriteMetadata(p) \/ Unlock(p))
    <3>1. ~Answered(p)'
      <4>1. ok[p] => pc[p] \in {"unlock", "returned"}
        BY DEF CallInv
      <4> QED
        BY <1>2, <2>6, <4>1
        DEF Preparer, Network, Local, PrepareImage, CacheRef, Resolve, PullContent,
            PullContentDone, PullRef, AcquireLock, CreateBuilding, ApplyLayer,
            BuildDone, Cleanup, TakeAnswer, LookupFails, PullFails,
            AcquireFails, BuildFails, Crash, Answered, TypeOK, PullPC
    <3> QED
      BY <2>1, <2>3, <3>1, CacheLocalStep
  <2> QED
    BY <2>4, <2>5, <2>6
<1> QED
  BY <1>1, <1>2

(* Every step of the store is a step of the cache or leaves it alone. *)
LEMMA CacheStep ==
    ASSUME Inv, [Next]_vars
    PROVE  [Cache!Next]_(Cache!cvars)
<1> USE DEF env, store, disk, call
<1>1. ASSUME NEW d \in Deleters, NEW c \in Chains, DeleteRootfs(d, c)
      PROVE  Cache!Next
  <2>1. answers' = answers
    BY <1>1 DEF DeleteRootfs, answers, Answered, Chain
  <2>2. Cache!Evict(c)
    BY <1>1, <2>1 DEF DeleteRootfs, answers, Cache!Evict
  <2> QED
    BY <2>2 DEF Cache!Next
<1>2. CASE \/ \E d \in Deleters : DeleteMetadata(d) \/ DeleteFails(d)
           \/ \E r \in Request, m \in Manifests : MoveTag(r, m)
           \/ UNCHANGED vars
  <2>1. complete' = complete /\ answers' = answers
    BY <1>2 DEF DeleteMetadata, DeleteFails, MoveTag, vars, answers, Answered, Chain
  <2> QED
    BY <2>1 DEF answers, Cache!cvars
<1> QED
  BY <1>1, <1>2, CachePreparer DEF Next, Deleter

(***************************************************************************)
(* The store implements the cache: images appear whole and at once, and a  *)
(* PrepareImage call is answered only with an image that was in the cache  *)
(* at some moment of the call, however calls, deletes and crashes mix.     *)
(***************************************************************************)
THEOREM StoreImplementsCache == Spec => ImplementsCache
<1>1. Inv /\ [Next]_vars => [Cache!Next]_(Cache!cvars)
  BY CacheStep
<1> QED
  BY <1>1, CacheInit, Invariance, PTL DEF Spec, ImplementsCache, Cache!Spec

-----------------------------------------------------------------------------
(* Pull's order: what it has written so far is in the store, for good. *)
PullInv ==
    \A p \in Preparers :
        /\ pc[p] = "content" =>
              \A i \in 1..(4 + Len(LayersOf[man[p]])) :
                  i < step[p] => PullPlan(man[p])[i] \in stored
        /\ pc[p] = "ref" =>
              \A i \in 1..(4 + Len(LayersOf[man[p]])) :
                  PullPlan(man[p])[i] \in stored

(* Some request with p's escaped name and platform may resolve to m. *)
NameServes(p, m) ==
    \E r \in Request :
        EscapeRef[r.ref] = RefName(p) /\ r.plat = req[p].plat /\ m \in Serves[r]

(* Manifests only come from the registry, directly or through a ref file. *)
ServeInv ==
    /\ \A r \in Request : registry[r] \in Serves[r]
    /\ \A n \in RefNames : refs[n] # Nil =>
          \E r \in Request :
              EscapeRef[r.ref] = n /\ r.plat = refs[n].plat /\ refs[n].man \in Serves[r]
    /\ \A p \in Preparers : pc[p] \in ManPC \/ ok[p] => NameServes(p, man[p])

(* The places of a plan that a ref file relies on. *)
LEMMA PullPlanCovers ==
    ASSUME NEW m \in Manifests,
           \A i \in 1..(4 + Len(LayersOf[m])) : PullPlan(m)[i] \in stored
    PROVE  /\ <<"manifest", m>> \in stored
           /\ <<"config", ConfigOf[m]>> \in stored
           /\ \A i \in 1..Len(LayersOf[m]) : <<"blob", LayersOf[m][i]>> \in stored
<1>1. LayersOf[m] \in Seq(Blobs)
  BY StoreAssumption
<1>2. PullPlan(m)[2] = <<"manifest", m>> /\ PullPlan(m)[4] = <<"config", ConfigOf[m]>>
  BY <1>1 DEF PullPlan
<1>3. \A i \in 1..Len(LayersOf[m]) : PullPlan(m)[4 + i] = <<"blob", LayersOf[m][i]>>
  BY <1>1 DEF PullPlan
<1>4. Len(LayersOf[m]) \in Nat
  BY <1>1
<1>5. PullPlan(m)[2] \in stored /\ PullPlan(m)[4] \in stored
  BY <1>4
<1>6. \A i \in 1..Len(LayersOf[m]) : PullPlan(m)[4 + i] \in stored
  BY <1>4
<1> QED
  BY <1>2, <1>3, <1>5, <1>6

(***************************************************************************)
(* The actions that neither fill the store, resolve a reference nor start  *)
(* a pull keep both facts: they never enter one of the pull's points.      *)
(***************************************************************************)
LEMMA PullFrame ==
    ASSUME Inv, Inv', PullInv, RefImpliesContent, ServeInv, NEW p \in Preparers,
           store' = store, registry' = registry,
           \A q \in Preparers \ {p} : /\ pc'[q] = pc[q] /\ req'[q] = req[q]
                                      /\ man'[q] = man[q] /\ step'[q] = step[q]
                                      /\ ok'[q] = ok[q],
           pc'[p] = "content" => step'[p] = 1,
           pc'[p] # "ref",
           pc'[p] \in ManPC \/ ok'[p] => NameServes(p, man'[p]) /\ req'[p] = req[p]
    PROVE  PullInv' /\ RefImpliesContent' /\ ServeInv'
<1> USE DEF store
<1>1. PullInv'
  BY DEF PullInv
<1>2. RefImpliesContent'
  BY DEF RefImpliesContent
<1>3. ServeInv'
  <2>1. \A q \in Preparers : pc'[q] \in ManPC \/ ok'[q] => NameServes(q, man[q])'
    BY DEF ServeInv, NameServes, RefName
  <2> QED
    BY <2>1 DEF ServeInv
<1> QED
  BY <1>1, <1>2, <1>3

(* Pull writes its files in order and the ref file after all of them. *)
LEMMA PullStep ==
    ASSUME Inv, PullInv, RefImpliesContent, ServeInv, NEW p \in Preparers,
           PullContent(p) \/ PullContentDone(p) \/ PullRef(p)
    PROVE  PullInv' /\ RefImpliesContent' /\ ServeInv'
<1> USE DEF Inv, Goto, Return, env, store, disk
<1>0. man[p] \in Manifests /\ req[p] \in Request /\ LayersOf[man[p]] \in Seq(Blobs)
  BY StoreAssumption
  DEF PullContent, PullContentDone, PullRef, CallInv, ManPC, LockedPC
<1>1. CASE PullContent(p)
  <2> USE <1>1 DEF PullContent
  <2>1. PullInv'
    <3>1. ASSUME NEW q \in Preparers, q # p
          PROVE  /\ pc[q] = "content" =>
                      \A i \in 1..(4 + Len(LayersOf[man[q]])) :
                          i < step'[q] => PullPlan(man[q])[i] \in stored'
                 /\ pc[q] = "ref" =>
                      \A i \in 1..(4 + Len(LayersOf[man[q]])) :
                          PullPlan(man[q])[i] \in stored'
      BY <3>1 DEF PullInv, TypeOK
    <3>2. ASSUME NEW i \in 1..(4 + Len(LayersOf[man[p]])), i < step[p] + 1
          PROVE  PullPlan(man[p])[i] \in stored'
      <4>1. i < step[p] \/ i = step[p]
        BY <1>0, <3>2 DEF TypeOK
      <4> QED
        BY <4>1 DEF PullInv
    <3>3. step'[p] = step[p] + 1
      BY DEF TypeOK
    <3> QED
      BY <3>1, <3>2, <3>3 DEF PullInv
  <2>2. RefImpliesContent'
    BY DEF RefImpliesContent
  <2>3. ServeInv'
    BY DEF ServeInv, NameServes, RefName
  <2> QED
    BY <2>1, <2>2, <2>3
<1>2. CASE PullContentDone(p)
  <2> USE <1>2 DEF PullContentDone
  <2>1. PullInv'
    <3>1. ASSUME NEW q \in Preparers, q # p
          PROVE  pc'[q] = pc[q]
      BY <3>1 DEF TypeOK
    <3>2. pc'[p] = "ref" => \A i \in 1..(4 + Len(LayersOf[man[p]])) : i < step[p]
      BY <1>0 DEF PulledAll, TypeOK
    <3>3. pc[p] = "content" /\ pc'[p] # "content"
      BY DEF TypeOK
    <3> QED
      BY <3>1, <3>2, <3>3 DEF PullInv
  <2>2. RefImpliesContent'
    BY DEF RefImpliesContent
  <2>3. ServeInv'
    BY DEF ServeInv, NameServes, RefName, ManPC, LockedPC, TypeOK
  <2> QED
    BY <2>1, <2>2, <2>3
<1>3. CASE PullRef(p)
  <2> USE <1>3 DEF PullRef
  <2>0. RefName(p) \in RefNames
    BY <1>0, StoreAssumption DEF RefName, Request
  <2>1. PullInv'
    BY DEF PullInv, TypeOK
  <2>2. RefImpliesContent'
    <3>1. /\ <<"manifest", man[p]>> \in stored
          /\ <<"config", ConfigOf[man[p]]>> \in stored
          /\ \A i \in 1..Len(LayersOf[man[p]]) : <<"blob", LayersOf[man[p]][i]>> \in stored
      BY <1>0, PullPlanCovers DEF PullInv
    <3>2. refs'[RefName(p)].man = man[p]
      BY <2>0 DEF TypeOK, RefMetadata
    <3>3. \A n \in RefNames \ {RefName(p)} : refs'[n] = refs[n]
      BY DEF TypeOK
    <3> QED
      BY <3>1, <3>2, <3>3 DEF RefImpliesContent
  <2>3. ServeInv'
    <3>1. NameServes(p, man[p])
      BY DEF ServeInv, ManPC
    <3>2. refs'[RefName(p)] = RefMetadata(p)
      BY <2>0 DEF TypeOK
    <3>3. \A n \in RefNames \ {RefName(p)} : refs'[n] = refs[n]
      BY DEF TypeOK
    <3>4. \A n \in RefNames : refs'[n] # Nil =>
              \E r \in Request : /\ EscapeRef[r.ref] = n /\ r.plat = refs'[n].plat
                                 /\ refs'[n].man \in Serves[r]
      BY <3>1, <3>2, <3>3 DEF ServeInv, NameServes, RefMetadata
    <3>5. \A q \in Preparers : pc'[q] \in ManPC \/ ok'[q] => NameServes(q, man[q])'
      <4> SUFFICES ASSUME NEW q \in Preparers, pc'[q] \in ManPC \/ ok'[q]
                   PROVE  NameServes(q, man[q])'
        OBVIOUS
      <4>1. NameServes(q, man[q])
        <5>1. CASE q = p
          BY <3>1, <5>1
        <5>2. CASE q # p
          BY <5>2 DEF ServeInv, TypeOK
        <5> QED
          BY <5>1, <5>2
      <4> QED
        BY <4>1 DEF NameServes, RefName
    <3> QED
      BY <3>4, <3>5 DEF ServeInv
  <2> QED
    BY <2>1, <2>2, <2>3
<1> QED
  BY <1>1, <1>2, <1>3

(* A call's manifest comes from the ref file or from the registry. *)
LEMMA LookupStep ==
    ASSUME Inv, Inv', PullInv, RefImpliesContent, ServeInv, NEW p \in Preparers,
           CacheRef(p) \/ Resolve(p)
    PROVE  PullInv' /\ RefImpliesContent' /\ ServeInv'
<1> USE DEF Inv, Goto, Return, env, store, disk
<1>0. req[p] \in Request /\ RefName(p) \in RefNames
  BY StoreAssumption DEF CacheRef, Resolve, CallInv, RefName, Request
<1>1. pc'[p] \in ManPC \/ ok'[p] => NameServes(p, man'[p]) /\ req'[p] = req[p]
  <2>1. CASE CacheRef(p)
    <3>1. CASE CachedRefUsable(p)
      <4>1. man'[p] = refs[RefName(p)].man /\ req' = req
        BY <2>1, <3>1 DEF CacheRef, TypeOK
      <4>2. NameServes(p, refs[RefName(p)].man)
        BY <1>0, <3>1 DEF CachedRefUsable, ServeInv, NameServes
      <4> QED
        BY <4>1, <4>2
    <3>2. CASE ~CachedRefUsable(p)
      BY <2>1, <3>2 DEF CacheRef, CallInv, ManPC, LockedPC, TypeOK
    <3> QED
      BY <3>1, <3>2
  <2>2. CASE Resolve(p)
    BY <1>0, <2>2 DEF Resolve, ServeInv, NameServes, RefName, TypeOK
  <2> QED
    BY <2>1, <2>2
<1>2. /\ \A q \in Preparers \ {p} : /\ pc'[q] = pc[q] /\ req'[q] = req[q]
                                    /\ man'[q] = man[q] /\ step'[q] = step[q]
                                    /\ ok'[q] = ok[q]
      /\ store' = store /\ registry' = registry
      /\ pc'[p] = "content" => step'[p] = 1
      /\ pc'[p] # "ref"
  BY DEF CacheRef, Resolve, TypeOK
<1> QED
  BY <1>1, <1>2, PullFrame

(* Every other step of a call leaves the store and the pulls alone. *)
LEMMA OtherCallStep ==
    ASSUME Inv, Inv', PullInv, RefImpliesContent, ServeInv, NEW p \in Preparers,
           Preparer(p),
           ~(PullContent(p) \/ PullContentDone(p) \/ PullRef(p)),
           ~(CacheRef(p) \/ Resolve(p))
    PROVE  PullInv' /\ RefImpliesContent' /\ ServeInv'
<1> USE DEF Goto, Return, Forget, env, store, disk, call, Preparer, Network, Local,
        PrepareImage, CacheStat, StatComplete, AcquireLock, StatLocked,
        CreateBuilding, ApplyLayer, BuildDone, Publish, WriteMetadata, Cleanup,
        Unlock, TakeAnswer, LookupFails, PullFails, AcquireFails, BuildFails, Crash
<1>1. /\ \A q \in Preparers \ {p} : /\ pc'[q] = pc[q] /\ req'[q] = req[q]
                                    /\ man'[q] = man[q] /\ step'[q] = step[q]
                                    /\ ok'[q] = ok[q]
      /\ store' = store /\ registry' = registry
  BY DEF Inv, TypeOK
<1>2. pc'[p] # "content" /\ pc'[p] # "ref"
  BY DEF Inv, TypeOK
<1>3. pc'[p] \in ManPC \/ ok'[p] =>
          /\ pc[p] \in ManPC \/ ok[p]
          /\ man'[p] = man[p] /\ req'[p] = req[p]
  BY DEF Inv, TypeOK, CallInv, ManPC, LockedPC, PullPC
<1>4. pc'[p] \in ManPC \/ ok'[p] => NameServes(p, man'[p]) /\ req'[p] = req[p]
  BY <1>3 DEF ServeInv
<1> QED
  BY <1>1, <1>2, <1>4, PullFrame

(* Both facts are inductive together with Inv. *)
LEMMA PullNext ==
    ASSUME Inv, Inv', PullInv, RefImpliesContent, ServeInv, [Next]_vars
    PROVE  PullInv' /\ RefImpliesContent' /\ ServeInv'
<1>1. ASSUME NEW p \in Preparers, Preparer(p)
      PROVE  PullInv' /\ RefImpliesContent' /\ ServeInv'
  BY <1>1, PullStep, LookupStep, OtherCallStep
<1>2. CASE (\E d \in Deleters : Deleter(d)) \/ UNCHANGED vars
  BY <1>2 DEF Deleter, DeleteRootfs, DeleteMetadata, DeleteFails, vars, env,
              store, disk, call, PullInv, RefImpliesContent, ServeInv,
              NameServes, RefName
<1>3. ASSUME NEW r \in Request, NEW m \in Manifests, MoveTag(r, m)
      PROVE  PullInv' /\ RefImpliesContent' /\ ServeInv'
  <2> USE <1>3 DEF MoveTag, store, disk, call
  <2>1. PullInv' /\ RefImpliesContent'
    BY DEF PullInv, RefImpliesContent
  <2>2. ServeInv'
    BY DEF ServeInv, NameServes, RefName, Inv, TypeOK
  <2> QED
    BY <2>1, <2>2
<1> QED
  BY <1>1, <1>2, <1>3 DEF Next

(* Initially there is no ref file and no pull. *)
LEMMA PullInit == Init => PullInv /\ RefImpliesContent /\ ServeInv
BY DEF Init, PullInv, RefImpliesContent, ServeInv, ManPC, LockedPC

(* The facts about pulls hold in every reachable state. *)
LEMMA PullInvariance == Spec => [](PullInv /\ RefImpliesContent /\ ServeInv)
<1> DEFINE P == PullInv /\ RefImpliesContent /\ ServeInv
<1>1. Inv /\ Inv' /\ P /\ [Next]_vars => P'
  BY PullNext
<1>2. Init => P
  BY PullInit
<1> HIDE DEF P
<1>3. Spec => []P
  BY <1>1, <1>2, Invariance, PTL DEF Spec
<1> QED
  BY <1>3 DEF P

(***************************************************************************)
(* A ref file implies its content, wherever a pull stops or dies and       *)
(* however many pulls of the same and of other references interleave.      *)
(***************************************************************************)
THEOREM RefFilesHaveContent == Spec => []RefImpliesContent
BY PullInvariance, PTL

(***************************************************************************)
(* A successful PrepareImage answers for the requested platform and for a  *)
(* reference with the requested escaped name, for every EscapeRef.         *)
(***************************************************************************)
THEOREM AnswersAreForName == Spec => []AnswerIsForName
<1>1. Inv /\ ServeInv => AnswerIsForName
  BY DEF ServeInv, AnswerIsForName, NameServes
<1> QED
  BY <1>1, Invariance, PullInvariance, PTL

-----------------------------------------------------------------------------
(***************************************************************************)
(* What keeps the listing behind the images while nobody deletes: metadata *)
(* is only written by the builder that has just published the image.       *)
(***************************************************************************)
ListInv ==
    /\ \A c \in Chains : metadata[c] # Nil => complete[c] # Nil
    /\ \A p \in Preparers : pc[p] = "meta" => complete[Chain(p)] # Nil

(* No other step of a call writes to rootfs/complete or enters "meta". *)
LEMMA ListFrame ==
    ASSUME Inv, NEW p \in Preparers, Preparer(p), ~Publish(p), ~WriteMetadata(p)
    PROVE  /\ UNCHANGED <<complete, metadata>>
           /\ \A q \in Preparers : pc'[q] = "meta" => pc[q] = "meta" /\ man'[q] = man[q]
<1> USE DEF Inv, TypeOK, Goto, Return, Fault, Forget, env, store, disk, call
<1>1. CASE \/ \E r \in Request : PrepareImage(p, r)
           \/ CacheRef(p) \/ CacheStat(p) \/ LookupFails(p)
  BY <1>1 DEF PrepareImage, CacheRef, CacheStat, LookupFails
<1>2. CASE Resolve(p) \/ PullContent(p) \/ PullContentDone(p) \/ PullRef(p) \/ PullFails(p)
  BY <1>2 DEF Resolve, PullContent, PullContentDone, PullRef, PullFails
<1>3. CASE \/ StatComplete(p) \/ AcquireLock(p) \/ AcquireFails(p) \/ StatLocked(p)
           \/ CreateBuilding(p) \/ ApplyLayer(p) \/ BuildDone(p) \/ BuildFails(p)
  BY <1>3 DEF StatComplete, AcquireLock, AcquireFails, StatLocked, CreateBuilding,
              ApplyLayer, BuildDone, BuildFails
<1>4. CASE Cleanup(p) \/ Unlock(p) \/ TakeAnswer(p) \/ Crash(p)
  BY <1>4 DEF Cleanup, Unlock, TakeAnswer, Crash
<1> QED
  BY <1>1, <1>2, <1>3, <1>4 DEF Preparer, Network, Local

LEMMA ListPreparer ==
    ASSUME Inv, ListInv, NEW p \in Preparers, Preparer(p)
    PROVE  ListInv'
<1>1. CASE ~Publish(p) /\ ~WriteMetadata(p)
  <2>1. /\ UNCHANGED <<complete, metadata>>
        /\ \A q \in Preparers : pc'[q] = "meta" => pc[q] = "meta" /\ man'[q] = man[q]
    BY <1>1, ListFrame
  <2> QED
    BY <2>1 DEF ListInv, Chain
<1>2. CASE Publish(p)
  <2>1. /\ Chain(p) \in Chains /\ building[Chain(p)] = Chain(p)
        /\ complete' = [complete EXCEPT ![Chain(p)] = building[Chain(p)]]
        /\ pc' = [pc EXCEPT ![p] = "meta"] /\ UNCHANGED <<metadata, man>>
    BY <1>2 DEF Inv, CallInv, BuildInv, Publish, Goto, ChainPC, LockedPC
  <2>2. complete'[Chain(p)] # Nil /\ \A c \in Chains \ {Chain(p)} : complete'[c] = complete[c]
    BY <2>1, NilAssumption DEF Inv, TypeOK
  <2>3. \A c \in Chains : metadata'[c] # Nil => complete'[c] # Nil
    BY <2>1, <2>2 DEF ListInv
  <2>4. ASSUME NEW q \in Preparers, pc'[q] = "meta" PROVE complete'[Chain(q)'] # Nil
    <3>1. Chain(q)' = Chain(q)
      BY <2>1 DEF Chain
    <3>2. CASE q = p
      BY <2>2, <3>1, <3>2
    <3>3. CASE q # p
      <4>1. pc[q] = "meta"
        BY <2>1, <2>4, <3>3 DEF Inv, TypeOK
      <4>2. Chain(q) \in Chains /\ complete[Chain(q)] # Nil
        BY <4>1 DEF Inv, CallInv, ListInv, ChainPC, LockedPC
      <4> QED
        BY <2>2, <3>1, <4>2
    <3> QED
      BY <3>2, <3>3
  <2> QED
    BY <2>3, <2>4 DEF ListInv
<1>3. CASE WriteMetadata(p)
  <2>1. /\ pc[p] = "meta" /\ Chain(p) \in Chains /\ complete' = complete
        /\ metadata' = [metadata EXCEPT ![Chain(p)] = man[p]]
        /\ pc' = [pc EXCEPT ![p] = "unlock"] /\ man' = man
    BY <1>3 DEF Inv, CallInv, WriteMetadata, Goto, ChainPC, LockedPC
  <2>2. complete[Chain(p)] # Nil
    BY <2>1 DEF ListInv
  <2>3. \A c \in Chains : metadata'[c] # Nil => complete'[c] # Nil
    BY <2>1, <2>2 DEF ListInv, Inv, TypeOK
  <2>4. \A q \in Preparers : pc'[q] = "meta" => complete'[Chain(q)'] # Nil
    BY <2>1 DEF ListInv, Inv, TypeOK, Chain
  <2> QED
    BY <2>3, <2>4 DEF ListInv
<1> QED
  BY <1>1, <1>2, <1>3

(***************************************************************************)
(* In every behaviour in which no DeleteImage takes a step, an image that  *)
(* ListImages reports has its rootfs, whatever builds race, fail or crash. *)
(* Deletes have to be left out: one that fails between its two removals,   *)
(* or that overtakes WriteMetadata, leaves metadata without an image.      *)
(***************************************************************************)
THEOREM ListingIsBacked ==
    Spec /\ [][\A d \in Deleters : ~Deleter(d)]_vars => []ListedImagesExist
<1> DEFINE NoDelete == \A d \in Deleters : ~Deleter(d)
<1>1. Init => ListInv
  BY DEF Init, ListInv
<1>2. Inv /\ ListInv /\ [Next]_vars /\ [NoDelete]_vars => ListInv'
  <2> SUFFICES ASSUME Inv, ListInv, [Next]_vars, [NoDelete]_vars PROVE ListInv'
    OBVIOUS
  <2>1. CASE UNCHANGED vars
    BY <2>1 DEF vars, disk, call, ListInv, Chain
  <2>2. CASE Next /\ NoDelete
    <3>1. ASSUME NEW r \in Request, NEW m \in Manifests, MoveTag(r, m) PROVE ListInv'
      BY <3>1 DEF MoveTag, disk, call, ListInv, Chain
    <3> QED
      BY <2>2, <3>1, ListPreparer DEF Next
  <2> QED
    BY <2>1, <2>2
<1>3. ListInv => ListedImagesExist
  BY DEF ListInv, ListedImagesExist, ListImages
<1> QED
  BY <1>1, <1>2, <1>3, Invariance, PTL DEF Spec
=============================================================================
