---------------------------- MODULE DaemonProofs ----------------------------
(***************************************************************************)
(* Proofs about Daemon for any set of calls, any set of chains and any     *)
(* number of moved tags, foreign pulls, failed lookups and deletes.        *)
(***************************************************************************)
EXTENDS Daemon, TLAPS

(* What a call knows where it is: the chain of its preparation, and a      *)
(* chain to report and to boot once it has prepared.                       *)
KnowsInv ==
    \A c \in Calls :
        /\ pc[c] \in {"check", "pull", "build"} => want[c] # Nil
        /\ pc[c] \in {"create", "capture"} => image[c] # Nil

(* Nothing was lost: no image deleted, no ref file lost or overtaken. *)
Undisturbed == ~deleted /\ ~refLost /\ ~overtaken

(* Then the ref file names the only image there is, the one every build    *)
(* is at, and the one every call has prepared, first and last.             *)
OneChainInv ==
    Undisturbed =>
        /\ rootfs \subseteq {cached}
        /\ \A c \in Calls :
              /\ pc[c] = "build" => want[c] = cached
              /\ chain[c] # Nil => chain[c] = cached /\ cached \in rootfs
              /\ image[c] # Nil => image[c] = cached /\ cached \in rootfs

Inv == TypeOK /\ KnowsInv /\ OneChainInv /\ SnapshotIsOfItsChain

-----------------------------------------------------------------------------
(* The invariant holds when the daemon starts with an empty store. *)
LEMMA InvInit == Init => Inv
<1> SUFFICES ASSUME Init PROVE Inv
  OBVIOUS
<1>1. TypeOK
  <2>1. deleted \in BOOLEAN /\ refLost \in BOOLEAN /\ overtaken \in BOOLEAN
    BY Zenon DEF Init
  <2>2. upsets \in 0..MaxUpsets
    BY UpsetAssumption DEF Init
  <2>3. kind \in [Calls -> Kinds]
    BY MixAssumption DEF Init
  <2>4. running \subseteq VMs /\ told \subseteq running
    BY DEF Init
  <2> QED
    BY <2>1, <2>2, <2>3, <2>4 DEF Init, TypeOK
<1>2. KnowsInv /\ OneChainInv /\ SnapshotIsOfItsChain
  BY DEF Init, KnowsInv, OneChainInv, SnapshotIsOfItsChain
<1> QED
  BY <1>1, <1>2 DEF Inv

(* A preparation that ends gives the call a chain to report and to boot:   *)
(* the one it was at, except that a second one does not replace the chain  *)
(* to report.                                                              *)
LEMMA PreparedFacts ==
    ASSUME TypeOK, NEW c \in Calls, want[c] # Nil, Prepared(c)
    PROVE  /\ want' \in [Calls -> Chains \cup {Nil}]
           /\ chain' \in [Calls -> Chains \cup {Nil}]
           /\ image' \in [Calls -> Chains \cup {Nil}]
           /\ chain'[c] = IF chain[c] = Nil THEN want[c] ELSE chain[c]
           /\ image'[c] = want[c]
           /\ chain'[c] # Nil /\ image'[c] # Nil
           /\ \A d \in Calls \ {c} :
                 /\ pc'[d] = pc[d] /\ want'[d] = want[d]
                 /\ chain'[d] = chain[d] /\ image'[d] = image[d]
           /\ pc' = [pc EXCEPT ![c] = AfterPrepare(c)]
           /\ AfterPrepare(c) \in {"ok", "start", "stat", "create"}
<1>1. AfterPrepare(c) \in {"ok", "start", "stat", "create"}
  BY DEF AfterPrepare
<1> QED
  BY <1>1 DEF TypeOK, Prepared, Goto

-----------------------------------------------------------------------------
(* Each step keeps the variables in their state spaces, and the calls      *)
(* knowing what they need.                                                 *)
LEMMA TypeNext ==
    ASSUME Inv, [Next]_vars
    PROVE  TypeOK' /\ KnowsInv'
<1> USE DEF Inv, TypeOK, KnowsInv, store, call, vms, history, Ended, Goto, At
<1>1. ASSUME NEW c \in Calls, Accept(c) \/ StatSnapshot(c) \/ CallFails(c)
      PROVE  TypeOK' /\ KnowsInv'
  BY <1>1 DEF Accept, StatSnapshot, CallFails
<1>2. ASSUME NEW c \in Calls, ReadRef(c) \/ Resolve(c) PROVE TypeOK' /\ KnowsInv'
  BY <1>2, NilAssumption DEF ReadRef, Resolve
<1>3. ASSUME NEW c \in Calls, CheckImage(c) PROVE TypeOK' /\ KnowsInv'
  <2>1. CASE Prepared(c)
    <3>1. want[c] # Nil
      BY <1>3 DEF CheckImage
    <3> HIDE DEF Goto
    <3>2. UNCHANGED <<tag, store, snap, jailed, kind, vms, life, history>>
      BY <1>3 DEF CheckImage
    <3> QED
      BY <2>1, <3>1, <3>2, PreparedFacts
  <2>2. CASE Goto(c, "resolve") /\ UNCHANGED <<want, chain, image>>
    BY <1>3, <2>2 DEF CheckImage
  <2> QED
    BY <1>3, <2>1, <2>2 DEF CheckImage
<1>4. ASSUME NEW c \in Calls, WriteRef(c) PROVE TypeOK' /\ KnowsInv'
  <2>1. overtaken' \in BOOLEAN
    BY <1>4, Zenon DEF WriteRef
  <2>2. UNCHANGED <<tag, rootfs, snap, jailed, kind, want, chain, image, vms, life,
                    deleted, refLost, upsets>>
        /\ pc' = [pc EXCEPT ![c] = "build"] /\ cached' = want[c] /\ want[c] # Nil
    BY <1>4 DEF WriteRef
  <2> QED
    BY <2>1, <2>2
<1>5. ASSUME NEW c \in Calls, EnsureRootfs(c) PROVE TypeOK' /\ KnowsInv'
  <2>1. want[c] # Nil /\ Prepared(c) /\ rootfs' = rootfs \cup {want[c]}
        /\ UNCHANGED <<tag, cached, snap, jailed, kind, vms, life, history>>
    BY <1>5 DEF EnsureRootfs
  <2> HIDE DEF Goto
  <2> QED
    BY <2>1, PreparedFacts
<1>6. ASSUME NEW c \in Calls, BootForSnapshot(c) \/ CreateFails(c)
      PROVE  TypeOK' /\ KnowsInv'
  BY <1>6 DEF BootForSnapshot, CreateFails, Unusable, Refile, VMs
<1>7. ASSUME NEW c \in Calls, Capture(c) \/ CaptureFails(c) PROVE TypeOK' /\ KnowsInv'
  BY <1>7 DEF Capture, CaptureFails, Refile, Stop
<1>8. ASSUME NEW c \in Calls, StartCold(c) \/ Restore(c) \/ NoSocket(c) \/ StartFails(c)
      PROVE  TypeOK' /\ KnowsInv'
  BY <1>8 DEF StartCold, Restore, Boots, NoSocket, StartFails, Unusable, VMs
<1>9. ASSUME NEW c \in Calls, RunEnds(c) \/ ClientLeaves(c) PROVE TypeOK' /\ KnowsInv'
  BY <1>9 DEF RunEnds, ClientLeaves, Stop
<1>10. ASSUME NEW v \in VMs, VMGone(v) PROVE TypeOK' /\ KnowsInv'
  BY <1>10 DEF VMGone
<1>11. ASSUME Upset PROVE upsets' \in 0..MaxUpsets
  BY <1>11, UpsetAssumption DEF Upset
<1>12. CASE MoveTag \/ ForeignPull \/ \E c \in Calls : LookupFails(c)
  <2>1. deleted' \in BOOLEAN /\ refLost' \in BOOLEAN /\ overtaken' \in BOOLEAN
    BY <1>12, Zenon DEF MoveTag, ForeignPull, LookupFails
  <2>2. upsets' \in 0..MaxUpsets
    BY <1>11, <1>12 DEF MoveTag, ForeignPull, LookupFails
  <2> QED
    BY <1>12, <2>1, <2>2 DEF MoveTag, ForeignPull, LookupFails
<1>13. ASSUME NEW ch \in Chains, DeleteImage(ch) \/ DeleteSnapshot(ch)
       PROVE  TypeOK' /\ KnowsInv'
  <2>1. deleted' \in BOOLEAN /\ refLost' \in BOOLEAN /\ overtaken' \in BOOLEAN
    BY <1>13, Zenon DEF DeleteImage, DeleteSnapshot
  <2>2. upsets' \in 0..MaxUpsets
    BY <1>11, <1>13 DEF DeleteImage, DeleteSnapshot
  <2> QED
    BY <1>13, <2>1, <2>2 DEF DeleteImage, DeleteSnapshot
<1>14. CASE Signal \/ Exit \/ GraceOver \/ ServeFails
  BY <1>14 DEF Signal, Exit, GraceOver, ServeFails, Abort
<1>15. CASE Stopped \/ UNCHANGED vars
  BY <1>15 DEF Stopped, vars
<1> QED
  BY <1>1, <1>2, <1>3, <1>4, <1>5, <1>6, <1>7, <1>8, <1>9, <1>10, <1>12, <1>13, <1>14,
     <1>15 DEF Next, CallStep

-----------------------------------------------------------------------------
(* Undisturbed, a preparation that ends has the chain of the ref file,     *)
(* which every other call has too.                                         *)
LEMMA OneChainPrepared ==
    ASSUME Inv, Undisturbed', UNCHANGED <<cached, history>>,
           NEW c \in Calls, want[c] = cached, want[c] # Nil, Prepared(c),
           cached \in rootfs', rootfs' \subseteq rootfs \cup {cached},
           rootfs \subseteq rootfs'
    PROVE  OneChainInv'
<1>1. Undisturbed
  BY DEF Undisturbed, history
<1>2. rootfs' \subseteq {cached'} /\ cached' = cached
  BY <1>1 DEF Inv, OneChainInv
<1>3. chain'[c] = cached /\ image'[c] = cached /\ pc'[c] # "build"
  BY <1>1, PreparedFacts DEF Inv, OneChainInv, TypeOK
<1>4. ASSUME NEW d \in Calls \ {c}
      PROVE  /\ pc'[d] = "build" => want'[d] = cached
             /\ chain'[d] # Nil => chain'[d] = cached
             /\ image'[d] # Nil => image'[d] = cached
  BY <1>1, <1>4, PreparedFacts DEF Inv, OneChainInv
<1> QED
  BY <1>2, <1>3, <1>4 DEF OneChainInv

(* Each step keeps the preparations together. *)
LEMMA OneChainNext ==
    ASSUME Inv, [Next]_vars
    PROVE  OneChainInv'
<1> USE DEF store, call, vms, history
<1> SUFFICES ASSUME Undisturbed' PROVE OneChainInv'
  BY DEF OneChainInv
<1>1. ASSUME UNCHANGED <<cached, rootfs, want, chain, image, deleted, refLost, overtaken>>,
             \A d \in Calls : pc'[d] = "build" => pc[d] = "build"
      PROVE  OneChainInv'
  BY <1>1 DEF Inv, OneChainInv, Undisturbed
<1>2. ASSUME NEW c \in Calls,
             Accept(c) \/ StatSnapshot(c) \/ BootForSnapshot(c) \/ CreateFails(c)
             \/ Capture(c) \/ CaptureFails(c) \/ StartCold(c) \/ Restore(c)
             \/ NoSocket(c) \/ StartFails(c) \/ RunEnds(c) \/ ClientLeaves(c) \/ CallFails(c)
      PROVE  OneChainInv'
  <2>1. PICK l \in {"readRef", "restore", "capture", "error", "ok", "running", "waiting"} :
          pc' = [pc EXCEPT ![c] = l]
    BY <1>2 DEF Accept, StatSnapshot, BootForSnapshot, CreateFails, Capture, CaptureFails,
                StartCold, Restore, Boots, NoSocket, StartFails, RunEnds, ClientLeaves,
                CallFails, Goto
  <2>2. UNCHANGED <<cached, rootfs, want, chain, image, deleted, refLost, overtaken>>
    BY <1>2 DEF Accept, StatSnapshot, BootForSnapshot, CreateFails, Capture, CaptureFails,
                StartCold, Restore, Boots, NoSocket, StartFails, RunEnds, ClientLeaves,
                CallFails
  <2> QED
    BY <1>1, <2>1, <2>2 DEF Inv, TypeOK
<1>3. ASSUME NEW c \in Calls, ReadRef(c) \/ Resolve(c) PROVE OneChainInv'
  BY <1>3 DEF Inv, TypeOK, OneChainInv, Undisturbed, ReadRef, Resolve, Goto
<1>4. ASSUME NEW c \in Calls, CheckImage(c) PROVE OneChainInv'
  <2>1. CASE CacheUsable(c) /\ Prepared(c)
    <3>1. want[c] # Nil /\ want[c] \in rootfs /\ UNCHANGED <<cached, rootfs, history>>
      BY <1>4, <2>1 DEF CheckImage, CacheUsable, Inv, KnowsInv, At
    <3>2. want[c] = cached
      BY <3>1 DEF Inv, OneChainInv, Undisturbed
    <3> QED
      BY <2>1, <3>1, <3>2, OneChainPrepared
  <2>2. CASE Goto(c, "resolve") /\ UNCHANGED <<want, chain, image>>
    BY <1>4, <2>2 DEF CheckImage, Goto, Inv, TypeOK, OneChainInv, Undisturbed
  <2> QED
    BY <1>4, <2>1, <2>2 DEF CheckImage
<1>5. ASSUME NEW c \in Calls, WriteRef(c) PROVE OneChainInv'
  <2>1. /\ Undisturbed /\ cached' = want[c] /\ pc' = [pc EXCEPT ![c] = "build"]
        /\ UNCHANGED <<rootfs, want, chain, image>>
        /\ cached = want[c] \/ ~RefInUse
    BY <1>5 DEF WriteRef, Undisturbed, Goto
  <2>2. CASE cached = want[c]
    BY <2>1, <2>2 DEF Inv, TypeOK, OneChainInv
  <2>3. CASE ~RefInUse
    <3>1. rootfs = {} /\ \A d \in Calls : pc[d] # "build" /\ chain[d] = Nil /\ image[d] = Nil
      BY <2>1, <2>3 DEF RefInUse, Inv, OneChainInv
    <3> QED
      BY <2>1, <3>1 DEF Inv, TypeOK, OneChainInv
  <2> QED
    BY <2>1, <2>2, <2>3
<1>6. ASSUME NEW c \in Calls, EnsureRootfs(c) PROVE OneChainInv'
  <2>1. /\ pc[c] = "build" /\ Prepared(c) /\ rootfs' = rootfs \cup {want[c]}
        /\ UNCHANGED <<cached, history>>
    BY <1>6 DEF EnsureRootfs, At
  <2>2. want[c] = cached /\ want[c] # Nil
    BY <2>1 DEF Inv, KnowsInv, OneChainInv, Undisturbed
  <2> QED
    BY <2>1, <2>2, OneChainPrepared
<1>7. CASE ForeignPull \/ (\E c \in Calls : LookupFails(c)) \/ \E ch \in Chains : DeleteImage(ch)
  BY <1>7 DEF ForeignPull, LookupFails, DeleteImage, Undisturbed
<1>8. CASE MoveTag \/ (\E ch \in Chains : DeleteSnapshot(ch)) \/ (\E v \in VMs : VMGone(v))
           \/ Signal \/ Exit \/ GraceOver \/ ServeFails \/ Stopped \/ UNCHANGED vars
  <2>1. UNCHANGED <<cached, rootfs, want, chain, image, deleted, refLost, overtaken>>
        /\ \A d \in Calls : pc'[d] = "build" => pc[d] = "build"
    BY <1>8 DEF MoveTag, DeleteSnapshot, VMGone, Signal, Exit, GraceOver, ServeFails, Abort,
                Stopped, vars, Inv, TypeOK
  <2> QED
    BY <1>1, <2>1
<1> QED
  BY <1>2, <1>3, <1>4, <1>5, <1>6, <1>7, <1>8 DEF Next, CallStep

(* Only captures file a snapshot, and what they file is the call's image. *)
LEMMA SnapNext ==
    ASSUME Inv, [Next]_vars
    PROVE  SnapshotIsOfItsChain'
<1> USE DEF store, call, vms, history
<1> SUFFICES ASSUME Undisturbed', NEW ch \in Chains PROVE snap'[ch] \in {ch, Nil}
  BY DEF SnapshotIsOfItsChain, Undisturbed
<1>1. Undisturbed
  <2>1. ASSUME NEW c \in Calls, WriteRef(c) PROVE Undisturbed
    BY <2>1, Zenon DEF WriteRef, Undisturbed
  <2>2. ASSUME NEW c \in Calls, Accept(c) \/ ClientLeaves(c) \/ CallStep(c), ~WriteRef(c)
        PROVE  Undisturbed
    BY <2>2 DEF Undisturbed, CallStep, Accept, ReadRef, CheckImage, Resolve, EnsureRootfs,
                StatSnapshot, BootForSnapshot, CreateFails, Capture, CaptureFails, StartCold,
                Restore, Boots, NoSocket, StartFails, RunEnds, ClientLeaves, CallFails
  <2>3. CASE MoveTag \/ ForeignPull \/ (\E c \in Calls : LookupFails(c))
             \/ \E d \in Chains : DeleteImage(d) \/ DeleteSnapshot(d)
    BY <2>3 DEF Undisturbed, MoveTag, ForeignPull, LookupFails, DeleteImage, DeleteSnapshot
  <2>4. CASE UNCHANGED history
    BY <2>4 DEF Undisturbed
  <2> QED
    BY <2>1, <2>2, <2>3, <2>4
       DEF Next, VMGone, Signal, Exit, GraceOver, ServeFails, Abort, Stopped, vars
<1>2. snap[ch] \in {ch, Nil}
  BY <1>1 DEF Inv, SnapshotIsOfItsChain, Undisturbed
<1>3. ASSUME NEW c \in Calls, BootForSnapshot(c) \/ CreateFails(c) \/ CaptureFails(c)
      PROVE  snap'[ch] \in {ch, Nil}
  BY <1>2, <1>3 DEF BootForSnapshot, CreateFails, CaptureFails, Refile, Inv, TypeOK
<1>4. ASSUME NEW c \in Calls, Capture(c) PROVE snap'[ch] \in {ch, Nil}
  <2>1. pc[c] = "capture" /\ snap' = [snap EXCEPT ![chain[c]] = image[c]]
    BY <1>4 DEF Capture, At, Refile
  <2>2. chain[c] # Nil /\ image[c] # Nil
    BY <2>1 DEF Inv, TypeOK, KnowsInv
  <2>3. chain[c] = image[c]
    BY <1>1, <2>2 DEF Inv, OneChainInv
  <2> QED
    BY <1>2, <2>1, <2>3 DEF Inv, TypeOK
<1>5. CASE \E c2 \in Chains : DeleteSnapshot(c2)
  BY <1>2, <1>5 DEF DeleteSnapshot, Inv, TypeOK
<1>6. CASE UNCHANGED snap
  BY <1>2, <1>6
<1> QED
  BY <1>3, <1>4, <1>5, <1>6
     DEF Next, CallStep, Accept, ReadRef, CheckImage, Resolve, WriteRef, EnsureRootfs,
         StatSnapshot, StartCold, Restore, Boots, NoSocket, StartFails, RunEnds, ClientLeaves, CallFails,
         LookupFails, VMGone, MoveTag, ForeignPull, DeleteImage, Signal, Exit, GraceOver,
         ServeFails, Abort, Stopped, vars

(* The invariant is inductive. *)
LEMMA InvNext == Inv /\ [Next]_vars => Inv'
BY TypeNext, OneChainNext, SnapNext DEF Inv

LEMMA Invariance == Spec => []Inv
BY InvInit, InvNext, PTL DEF Spec

-----------------------------------------------------------------------------
(* Type correctness of the daemon's calls and store. *)
THEOREM TypeCorrect == Spec => []TypeOK
<1>1. Inv => TypeOK
  BY DEF Inv
<1> QED
  BY <1>1, Invariance, PTL

(* The two preparations of a run agree, and its snapshot is filed under    *)
(* the right chain, unless an image is deleted, the ref file is lost, or   *)
(* a pull that resolved another chain overtakes it.                        *)
THEOREM SnapshotsAreFiledRight == Spec => []SnapshotIsOfItsChain
<1>1. Inv => SnapshotIsOfItsChain
  BY DEF Inv
<1> QED
  BY <1>1, Invariance, PTL
=============================================================================
