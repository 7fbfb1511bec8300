-------------------------- MODULE LayerApplyProofs --------------------------
(***************************************************************************)
(* Proofs about LayerApply, for every set of names, depth of paths and     *)
(* number of entries.                                                      *)
(*                                                                         *)
(* The tree operations are reasoned about through the order of paths       *)
(* alone: q is at or above p (q \in Walk(p)), which is reflexive,          *)
(* transitive and antisymmetric, and the sets of paths an operation        *)
(* removes hold with a path everything below it.                           *)
(***************************************************************************)
EXTENDS LayerApply, TLAPS

(* Paths are sequences, and a prefix of a path is a path. *)
LEMMA PathFacts ==
    ASSUME NEW p \in Paths
    PROVE  /\ p \in Seq(Names) /\ Len(p) \in Nat /\ 1 <= Len(p) /\ Len(p) <= MaxDepth
           /\ DOMAIN p = 1..Len(p) /\ p \in [1..Len(p) -> Names]
<1>1. PICK n \in 1..MaxDepth : p \in [1..n -> Names]
  BY DEF Paths
<1>2. n \in Nat /\ 1 <= n /\ n <= MaxDepth
  BY BoundAssumption
<1>3. p \in Seq(Names) /\ Len(p) = n
  BY <1>1, <1>2
<1> QED
  BY <1>1, <1>2, <1>3

(* q is at or above p. *)
Above(q, p) ==
    /\ Len(q) <= Len(p)
    /\ \A i \in 1..Len(q) : q[i] = p[i]

LEMMA PrefixIsAbove ==
    ASSUME NEW q \in Seq(Names), NEW p \in Seq(Names)
    PROVE  IsPrefix(q, p) <=> Above(q, p)
<1>1. CASE Len(q) <= Len(p)
  <2>1. /\ Len(q) \in Nat /\ Len(p) \in Nat
        /\ SubSeq(q, 1, Len(q)) = [i \in 1..Len(q) |-> q[i]]
        /\ SubSeq(p, 1, Len(q)) = [i \in 1..Len(q) |-> p[i]]
    BY <1>1
  <2> QED
    BY <1>1, <2>1 DEF IsPrefix, Above
<1>2. CASE ~(Len(q) <= Len(p))
  BY <1>2 DEF IsPrefix, Above
<1> QED
  BY <1>1, <1>2

LEMMA WalkIsAbove ==
    ASSUME NEW p \in Paths
    PROVE  Walk(p) = {q \in Paths : Above(q, p)}
<1> USE PathFacts
<1>1. ASSUME NEW q \in Walk(p) PROVE q \in Paths /\ Above(q, p)
  <2>1. PICK n \in 1..Len(p) : q = SubSeq(p, 1, n)
    BY <1>1 DEF Walk
  <2>2. n \in 1..MaxDepth /\ n <= Len(p)
    BY BoundAssumption
  <2>3. q = [i \in 1..n |-> p[i]]
    BY <2>1, <2>2
  <2>4. q \in [1..n -> Names] /\ Len(q) = n
    BY <2>2, <2>3
  <2> QED
    BY <2>2, <2>3, <2>4 DEF Paths, Above
<1>2. ASSUME NEW q \in Paths, Above(q, p) PROVE q \in Walk(p)
  <2>1. Len(q) \in 1..Len(p)
    BY <1>2 DEF Above
  <2>2. SubSeq(p, 1, Len(q)) = [i \in 1..Len(q) |-> p[i]]
    BY <2>1
  <2>3. q = [i \in 1..Len(q) |-> q[i]]
    OBVIOUS
  <2>4. q = SubSeq(p, 1, Len(q))
    BY <1>2, <2>2, <2>3 DEF Above
  <2> QED
    BY <2>1, <2>4 DEF Walk
<1> QED
  BY <1>1, <1>2

(* The order of paths. *)
LEMMA WalkOrder ==
    /\ \A p \in Paths : Walk(p) \subseteq Paths /\ p \in Walk(p)
    /\ \A p, q \in Paths : q \in Walk(p) <=> p \in Below(q)
    /\ \A p, q, r \in Paths : q \in Walk(p) /\ r \in Walk(q) => r \in Walk(p)
    /\ \A p, q \in Paths : q \in Walk(p) /\ p \in Walk(q) => p = q
<1> USE PathFacts, WalkIsAbove
<1>1. ASSUME NEW p \in Paths PROVE Walk(p) \subseteq Paths /\ p \in Walk(p)
  BY DEF Above
<1>2. ASSUME NEW p \in Paths, NEW q \in Paths PROVE q \in Walk(p) <=> p \in Below(q)
  BY PrefixIsAbove DEF Below
<1>3. ASSUME NEW p \in Paths, NEW q \in Paths, NEW r \in Paths, q \in Walk(p), r \in Walk(q)
      PROVE  r \in Walk(p)
  <2>1. Above(q, p) /\ Above(r, q)
    BY <1>3
  <2>2. Above(r, p)
    BY <2>1 DEF Above
  <2> QED
    BY <2>2
<1>4. ASSUME NEW p \in Paths, NEW q \in Paths, q \in Walk(p), p \in Walk(q) PROVE p = q
  <2>1. Above(q, p) /\ Above(p, q)
    BY <1>4
  <2>2. Len(p) = Len(q) /\ \A i \in 1..Len(p) : p[i] = q[i]
    BY <2>1 DEF Above
  <2>3. p \in [1..Len(p) -> Names] /\ q \in [1..Len(p) -> Names]
    BY <2>2
  <2> QED
    BY <2>2, <2>3
<1> QED
  BY <1>1, <1>2, <1>3, <1>4

(* A set of paths that holds with a path everything below it. *)
Subtrees(S) == S \subseteq Paths /\ \A p, q \in Paths : p \in S /\ p \in Walk(q) => q \in S

LEMMA BelowIsSubtree ==
    ASSUME NEW p \in Paths
    PROVE  Subtrees(Below(p)) /\ p \in Below(p)
BY WalkOrder DEF Subtrees, Below

LEMMA ChildrenAreSubtrees ==
    ASSUME NEW d \in Paths \cup {Root}
    PROVE  Subtrees(Children(d))
<1> USE PathFacts
<1>1. d \in Seq(Names) /\ Len(d) \in Nat
  <2>1. CASE d = Root
    <3>1. <<>> \in Seq(Names) /\ Len(<<>>) = 0
      OBVIOUS
    <3> QED
      BY <2>1, <3>1 DEF Root
  <2>2. CASE d \in Paths
    BY <2>2
  <2> QED
    BY <2>1, <2>2
<1>2. ASSUME NEW p \in Paths, NEW q \in Paths, p \in Children(d), p \in Walk(q)
      PROVE  q \in Children(d)
  <2>1. IsPrefix(d, p) /\ d # p
    BY <1>2 DEF Children, IsStrictPrefix
  <2>2. Above(d, p)
    BY <1>1, <2>1, PrefixIsAbove
  <2>3. Above(p, q)
    BY <1>2, WalkIsAbove
  <2>4. Above(d, q)
    BY <1>1, <2>2, <2>3 DEF Above
  <2>5. d # q
    <3> SUFFICES ASSUME d = q PROVE FALSE
      OBVIOUS
    <3>1. p = q
      <4>1. q \in Walk(p)
        BY <2>2, WalkIsAbove
      <4> QED
        BY <1>2, <4>1, WalkOrder
    <3> QED
      BY <2>1, <3>1
  <2> QED
    BY <1>1, <2>4, <2>5, PrefixIsAbove DEF Children, IsStrictPrefix
<1> QED
  BY <1>2 DEF Subtrees, Children

-----------------------------------------------------------------------------
(* The tree operations.  What each of them leaves at a path: *)
LEMMA PutFacts ==
    ASSUME NEW t, NEW p \in Paths, NEW node
    PROVE  /\ Put(t, p, node)[p] = node
           /\ \A q \in Parents(p) : Put(t, p, node)[q] = IF t[q] = Absent THEN Dir ELSE t[q]
           /\ \A q \in Paths \ Walk(p) : Put(t, p, node)[q] = t[q]
           /\ Put(t, p, node) = [q \in Paths |-> Put(t, p, node)[q]]
<1>1. Walk(p) \subseteq Paths /\ p \in Walk(p)
  BY WalkOrder
<1> QED
  BY <1>1 DEF Put, MkdirAll, Parents

LEMMA RemoveFacts ==
    ASSUME NEW t, NEW S
    PROVE  \A q \in Paths : RemoveAll(t, S)[q] = IF q \in S THEN Absent ELSE t[q]
BY DEF RemoveAll

(* RemoveAll of what is at p and Put in one step. *)
Replace(t, p, node) == Put(RemoveAll(t, Below(p)), p, node)

LEMMA ReplaceFacts ==
    ASSUME NEW t, NEW p \in Paths, NEW node
    PROVE  /\ Replace(t, p, node)[p] = node
           /\ \A q \in Below(p) \ {p} : q \in Paths /\ Replace(t, p, node)[q] = Absent
           /\ \A q \in Parents(p) :
                 /\ q \in Paths \ Below(p)
                 /\ Replace(t, p, node)[q] = IF t[q] = Absent THEN Dir ELSE t[q]
           /\ \A q \in Paths \ (Walk(p) \cup Below(p)) : Replace(t, p, node)[q] = t[q]
           /\ Replace(t, p, node) = [q \in Paths |-> Replace(t, p, node)[q]]
<1> DEFINE u == RemoveAll(t, Below(p))
<1>1. \A q \in Paths : u[q] = IF q \in Below(p) THEN Absent ELSE t[q]
  BY RemoveFacts
<1> HIDE DEF u
<1>2. \A q \in Parents(p) : q \in Paths \ Below(p)
  BY WalkOrder DEF Parents
<1>3. \A q \in Below(p) \ {p} : q \in Paths \ Walk(p)
  BY WalkOrder DEF Below
<1>4. /\ Put(u, p, node)[p] = node
      /\ \A q \in Parents(p) : Put(u, p, node)[q] = IF u[q] = Absent THEN Dir ELSE u[q]
      /\ \A q \in Paths \ Walk(p) : Put(u, p, node)[q] = u[q]
      /\ Put(u, p, node) = [q \in Paths |-> Put(u, p, node)[q]]
  BY PutFacts
<1>5. \A q \in Below(p) \ {p} : q \in Paths /\ Put(u, p, node)[q] = Absent
  BY <1>1, <1>3, <1>4
<1>6. \A q \in Parents(p) : Put(u, p, node)[q] = IF t[q] = Absent THEN Dir ELSE t[q]
  BY <1>1, <1>2, <1>4
<1>7. \A q \in Paths \ (Walk(p) \cup Below(p)) : Put(u, p, node)[q] = t[q]
  BY <1>1, <1>4
<1> QED
  BY <1>2, <1>4, <1>5, <1>6, <1>7 DEF u, Replace

-----------------------------------------------------------------------------
(* There is nothing above the root. *)
LEMMA RootFacts == Walk(Root) = {} /\ Parents(Root) = {} /\ Root \notin Paths
<1>1. Len(<<>>) = 0 /\ 1..0 = {}
  OBVIOUS
<1>2. Root \notin Paths
  BY <1>1, PathFacts DEF Root
<1> QED
  BY <1>1, <1>2 DEF Root, Walk, Parents

(* What is fresh has its directories fresh, and the specification's tree   *)
(* has no node without one above it: not always a directory, since an      *)
(* entry may follow below a file that only the applier has removed.        *)
FreshInv == \A p \in fresh : Walk(p) \subseteq fresh

SpecInv ==
    \A p \in Paths : spec[p] # Absent => \A q \in Parents(p) : spec[q] # Absent

Inv ==
    /\ TypeOK /\ FreshInv /\ SpecInv
    /\ SymlinksAreRecorded /\ TreeIsClosed /\ ImageIsOCI

LEMMA InvInit == Init => Inv
<1> SUFFICES ASSUME Init PROVE Inv
  OBVIOUS
<1>1. /\ tree \in [Paths -> Nodes] /\ spec = tree
      /\ \A p \in Paths : tree[p] = Absent
  BY DEF Init, Nodes
<1>2. TypeOK
  BY <1>1, BoundAssumption DEF Init, TypeOK
<1>3. FreshInv /\ SpecInv /\ TreeIsClosed /\ ImageIsOCI
  BY <1>1 DEF Init, FreshInv, SpecInv, TreeIsClosed, ImageIsOCI
<1>4. SymlinksAreRecorded
  BY <1>1, NodeAssumption DEF Init, SymlinksAreRecorded
<1> QED
  BY <1>2, <1>3, <1>4 DEF Inv

-----------------------------------------------------------------------------
(* Trees in which every node has its directories, or at least nodes above. *)
Closed(t) == \A p \in Paths : t[p] # Absent => \A q \in Parents(p) : t[q] = Dir
Rooted(t) == \A p \in Paths : t[p] # Absent => \A q \in Parents(p) : t[q] # Absent

(* Where a path can be, seen from p. *)
LEMMA FourPlaces ==
    ASSUME NEW p \in Paths, NEW q \in Paths
    PROVE  \/ q = p
           \/ q \in Parents(p)
           \/ q \in Below(p) \ {p}
           \/ q \in Paths \ (Walk(p) \cup Below(p))
BY DEF Parents

LEMMA ParentFacts ==
    ASSUME NEW p \in Paths, NEW x \in Paths, NEW q \in Parents(x)
    PROVE  /\ q \in Paths /\ q # x /\ q \in Walk(x)
           /\ x \in Parents(p) \cup {p} => q \in Parents(p)
           /\ q \in Below(p) => x \in Below(p) \ {p}
<1>1. q \in Paths /\ q # x /\ q \in Walk(x) /\ x \in Walk(x)
  BY WalkOrder DEF Parents
<1>2. x \in Parents(p) \cup {p} => q \in Parents(p)
  BY <1>1, WalkOrder DEF Parents
<1>3. q \in Below(p) => x \in Below(p) \ {p}
  BY <1>1, WalkOrder
<1> QED
  BY <1>1, <1>2, <1>3

LEMMA ReplaceClosed ==
    ASSUME NEW t, NEW p \in Paths, NEW node,
           Closed(t), \A q \in Parents(p) : t[q] \in {Absent, Dir}
    PROVE  Closed(Replace(t, p, node))
<1> DEFINE new == Replace(t, p, node)
<1>1. /\ \A q \in Below(p) \ {p} : new[q] = Absent
      /\ \A q \in Parents(p) : q \in Paths /\ new[q] = Dir
      /\ \A q \in Paths \ (Walk(p) \cup Below(p)) : new[q] = t[q]
  BY ReplaceFacts
<1> HIDE DEF new
<1> SUFFICES ASSUME NEW x \in Paths, new[x] # Absent, NEW q \in Parents(x)
             PROVE  new[q] = Dir
  BY DEF Closed, new
<1>2. CASE x \in Parents(p) \cup {p}
  BY <1>1, <1>2, ParentFacts
<1>3. CASE x \in Paths \ (Walk(p) \cup Below(p))
  <2>1. q \in Paths /\ q \notin Below(p)
    BY <1>3, ParentFacts
  <2>2. t[q] = Dir
    BY <1>1, <1>3 DEF Closed
  <2>3. p \in Below(p)
    BY BelowIsSubtree
  <2> QED
    BY <1>1, <2>1, <2>2, <2>3, FourPlaces
<1> QED
  BY <1>1, <1>2, <1>3, FourPlaces

LEMMA ReplaceRooted ==
    ASSUME NEW t, NEW p \in Paths, NEW node, Rooted(t)
    PROVE  Rooted(Replace(t, p, node))
<1> DEFINE new == Replace(t, p, node)
<1>1. /\ \A q \in Below(p) \ {p} : new[q] = Absent
      /\ \A q \in Parents(p) : q \in Paths /\ new[q] # Absent
      /\ \A q \in Paths \ (Walk(p) \cup Below(p)) : new[q] = t[q]
  BY ReplaceFacts, NodeAssumption
<1> HIDE DEF new
<1> SUFFICES ASSUME NEW x \in Paths, new[x] # Absent, NEW q \in Parents(x)
             PROVE  new[q] # Absent
  BY DEF Rooted, new
<1>2. CASE x \in Parents(p) \cup {p}
  BY <1>1, <1>2, ParentFacts
<1>3. CASE x \in Paths \ (Walk(p) \cup Below(p))
  <2>1. q \in Paths /\ q \notin Below(p)
    BY <1>3, ParentFacts
  <2>2. t[q] # Absent
    BY <1>1, <1>3 DEF Rooted
  <2>3. p \in Below(p)
    BY BelowIsSubtree
  <2> QED
    BY <1>1, <2>1, <2>2, <2>3, FourPlaces
<1> QED
  BY <1>1, <1>2, <1>3, FourPlaces

(* Removing subtrees leaves no orphan; with what is fresh kept, neither.   *)
LEMMA RemoveClosed ==
    ASSUME NEW t, NEW S, Subtrees(S), Closed(t)
    PROVE  Closed(RemoveAll(t, S))
<1> SUFFICES ASSUME NEW x \in Paths, RemoveAll(t, S)[x] # Absent, NEW q \in Parents(x)
             PROVE  RemoveAll(t, S)[q] = Dir
  BY DEF Closed
<1>1. x \notin S /\ t[x] # Absent /\ q \in Paths /\ q \in Walk(x)
  BY RemoveFacts, ParentFacts
<1>2. q \notin S /\ t[q] = Dir
  BY <1>1 DEF Subtrees, Closed
<1> QED
  BY <1>1, <1>2, RemoveFacts

LEMMA RemoveRooted ==
    ASSUME NEW t, NEW S, Subtrees(S), Rooted(t), FreshInv
    PROVE  Rooted(RemoveAll(t, S \ fresh))
<1> SUFFICES ASSUME NEW x \in Paths, RemoveAll(t, S \ fresh)[x] # Absent, NEW q \in Parents(x)
             PROVE  RemoveAll(t, S \ fresh)[q] # Absent
  BY DEF Rooted
<1>1. x \notin S \ fresh /\ t[x] # Absent /\ q \in Paths /\ q \in Walk(x)
  BY RemoveFacts, ParentFacts
<1>2. q \notin S \ fresh /\ t[q] # Absent
  BY <1>1 DEF Subtrees, Rooted, FreshInv
<1> QED
  BY <1>1, <1>2, RemoveFacts

(* Replacing keeps the types, and takes the links below p off. *)
LEMMA ReplaceType ==
    ASSUME NEW t, NEW p \in Paths, NEW node \in Nodes, \A q \in Paths : t[q] \in Nodes
    PROVE  Replace(t, p, node) \in [Paths -> Nodes]
<1> DEFINE new == Replace(t, p, node)
<1>1. new = [q \in Paths |-> new[q]]
  BY ReplaceFacts
<1>2. ASSUME NEW q \in Paths PROVE new[q] \in Nodes
  BY ReplaceFacts, FourPlaces DEF Nodes
<1> HIDE DEF new
<1>3. new \in [Paths -> Nodes]
  BY <1>1, <1>2
<1> QED
  BY <1>3 DEF new

LinksOf(t) == {q \in Paths : t[q] \in Links}

LEMMA ReplaceLinks ==
    ASSUME NEW t, NEW p \in Paths, NEW node
    PROVE  LinksOf(Replace(t, p, node)) =
             (LinksOf(t) \ Below(p)) \cup (IF node \in Links THEN {p} ELSE {})
<1> DEFINE new == Replace(t, p, node)
<1>1. /\ new[p] = node
      /\ \A q \in Below(p) \ {p} : q \in Paths /\ new[q] = Absent
      /\ \A q \in Parents(p) : q \in Paths \ Below(p) /\ new[q] = IF t[q] = Absent THEN Dir ELSE t[q]
      /\ \A q \in Paths \ (Walk(p) \cup Below(p)) : new[q] = t[q]
  BY ReplaceFacts
<1> HIDE DEF new
<1>2. Absent \notin Links /\ Dir \notin Links /\ p \in Below(p)
  BY NodeAssumption, BelowIsSubtree
<1>3. ASSUME NEW q \in Paths
      PROVE  new[q] \in Links <=> \/ t[q] \in Links /\ q \notin Below(p)
                                  \/ node \in Links /\ q = p
  <2>1. CASE q = p
    BY <1>1, <1>2, <2>1
  <2>2. CASE q \in Below(p) \ {p}
    BY <1>1, <1>2, <2>2
  <2>3. CASE q \in Parents(p)
    <3>1. q # p /\ q \notin Below(p) /\ new[q] = IF t[q] = Absent THEN Dir ELSE t[q]
      BY <1>1, <1>2, <2>3
    <3> QED
      BY <1>2, <3>1
  <2>4. CASE q \in Paths \ (Walk(p) \cup Below(p))
    <3>1. q # p /\ q \notin Below(p) /\ new[q] = t[q]
      BY <1>1, <1>2, <2>4
    <3> QED
      BY <3>1
  <2> QED
    BY <2>1, <2>2, <2>3, <2>4, FourPlaces
<1>4. LinksOf(new) = (LinksOf(t) \ Below(p)) \cup (IF node \in Links THEN {p} ELSE {})
  <2>1. CASE node \in Links
    <3>1. LinksOf(new) = (LinksOf(t) \ Below(p)) \cup {p}
      BY <1>3, <2>1, Zenon DEF LinksOf
    <3> QED
      BY <2>1, <3>1
  <2>2. CASE node \notin Links
    <3>1. LinksOf(new) = LinksOf(t) \ Below(p)
      BY <1>3, <2>2, Zenon DEF LinksOf
    <3> QED
      BY <2>2, <3>1
  <2> QED
    BY <2>1, <2>2
<1> QED
  BY <1>4 DEF new

(* Where no directory is replaced there is nothing below to remove. *)
LEMMA PutIsReplace ==
    ASSUME NEW t, NEW p \in Paths, NEW node, Closed(t), t[p] # Dir
    PROVE  /\ \A q \in Below(p) \ {p} : t[q] = Absent
           /\ Put(t, p, node) = Replace(t, p, node)
<1>1. ASSUME NEW q \in Below(p) \ {p} PROVE t[q] = Absent
  <2>1. q \in Paths /\ p \in Parents(q)
    BY WalkOrder DEF Below, Parents
  <2> QED
    BY <2>1 DEF Closed
<1>2. ASSUME NEW q \in Paths PROVE Put(t, p, node)[q] = Replace(t, p, node)[q]
  <2>1. CASE q \in Below(p) \ {p}
    <3>1. q \notin Walk(p)
      BY <2>1, WalkOrder DEF Below
    <3> QED
      BY <1>1, <2>1, <3>1, PutFacts, ReplaceFacts
  <2>2. CASE q \notin Below(p) \ {p}
    BY <2>2, PutFacts, ReplaceFacts, FourPlaces
  <2> QED
    BY <2>1, <2>2
<1>3. /\ Put(t, p, node) = [q \in Paths |-> Put(t, p, node)[q]]
      /\ Replace(t, p, node) = [q \in Paths |-> Replace(t, p, node)[q]]
  BY PutFacts, ReplaceFacts
<1> QED
  BY <1>1, <1>2, <1>3

-----------------------------------------------------------------------------
(* The invariant in terms of trees. *)
LEMMA InvTrees ==
    /\ TreeIsClosed <=> Closed(tree)
    /\ TreeIsClosed' <=> Closed(tree')
    /\ SpecInv <=> Rooted(spec)
    /\ SpecInv' <=> Rooted(spec')
    /\ SymlinksAreRecorded <=> symlinks = LinksOf(tree)
    /\ SymlinksAreRecorded' <=> symlinks' = LinksOf(tree')
BY DEF TreeIsClosed, Closed, SpecInv, Rooted, SymlinksAreRecorded, LinksOf

(* What an entry at p adds to the layer has its directories with it. *)
LEMMA FreshKept ==
    ASSUME FreshInv, fresh \subseteq Paths, NEW p \in Paths, fresh' = fresh \cup Walk(p)
    PROVE  FreshInv' /\ fresh' \subseteq Paths
BY WalkOrder DEF FreshInv

(* A path that is not below p is excused or not as before. *)
LEMMA ExcusedElsewhere ==
    ASSUME NEW p \in Paths, NEW q \in Paths, q \notin Below(p), Walk(q) \cap excused # {},
           NEW S, excused' = (excused \ Below(p)) \cup S
    PROVE  Excused(q)'
<1>1. PICK r \in Walk(q) : r \in excused
  OBVIOUS
<1>2. r \notin Below(p)
  BY WalkOrder, BelowIsSubtree DEF Subtrees
<1> QED
  BY <1>1, <1>2 DEF Excused

(* An entry that replaces what is at p, in both trees.  Above p the trees  *)
(* agree, or are excused, as before: both gain the missing directories.    *)
LEMMA ReplaceAgrees ==
    ASSUME Inv, result = "building", UNCHANGED result,
           NEW p \in Paths, NEW node, NEW snode, NEW S,
           ParentsUsable(p),
           tree' = Replace(tree, p, node), spec' = Replace(spec, p, snode),
           excused' = (excused \ Below(p)) \cup S,
           node = snode \/ p \in S
    PROVE  ImageIsOCI'
<1> SUFFICES ASSUME NEW q \in Paths PROVE Excused(q)' \/ tree'[q] = spec'[q]
  BY DEF ImageIsOCI
<1>1. Excused(q) \/ tree[q] = spec[q]
  BY DEF Inv, ImageIsOCI
<1>2. CASE q = p
  <2>1. Replace(tree, p, node)[p] = node
    BY ReplaceFacts
  <2>2. Replace(spec, p, snode)[p] = snode
    BY ReplaceFacts
  <2>3. p \in S => Excused(p)'
    BY WalkOrder DEF Excused
  <2> QED
    BY <1>2, <2>1, <2>2, <2>3
<1>3. CASE q \in Below(p) \ {p}
  <2>1. Replace(tree, p, node)[q] = Absent
    BY <1>3, ReplaceFacts
  <2>2. Replace(spec, p, snode)[q] = Absent
    BY <1>3, ReplaceFacts
  <2> QED
    BY <2>1, <2>2
<1>4. CASE q \in Parents(p)
  <2>1. q \notin Below(p) /\ tree'[q] = IF tree[q] = Absent THEN Dir ELSE tree[q]
    BY <1>4, ReplaceFacts
  <2>2. spec'[q] = IF spec[q] = Absent THEN Dir ELSE spec[q]
    BY <1>4, ReplaceFacts
  <2> QED
    BY <1>1, <2>1, <2>2, ExcusedElsewhere DEF Excused
<1>5. CASE q \in Paths \ (Walk(p) \cup Below(p))
  <2>1. tree'[q] = tree[q] /\ spec'[q] = spec[q]
    BY <1>5, ReplaceFacts
  <2> QED
    BY <1>1, <1>5, <2>1, ExcusedElsewhere DEF Excused
<1> QED
  BY <1>2, <1>3, <1>4, <1>5, FourPlaces

(* Where an entry that lands elsewhere is excused, and what it leaves      *)
(* alone: a path that is not excused afterwards is not at or below p, and  *)
(* not one of the directories that were made.                              *)
LEMMA StrayFacts ==
    ASSUME TypeOK, NEW p \in Paths, NEW t \in Paths \cup {Root}
    PROVE  /\ Strays(p, t) \subseteq Paths
           /\ p \in Strays(p, t)
           /\ t \in Paths => t \in Strays(p, t)
           /\ \A q \in Walk(p) : spec[q] = Absent => q \in Strays(p, t)
           /\ \A q \in Walk(t) : tree[q] = Absent => q \in Strays(p, t)
<1>1. Walk(p) \subseteq Paths /\ Walk(t) \subseteq Paths
  BY WalkOrder, RootFacts
<1> QED
  BY <1>1 DEF Strays

LEMMA ReplaceElsewhere ==
    ASSUME NEW u, NEW p \in Paths, NEW node, NEW q \in Paths,
           q \notin Below(p), q \in Walk(p) => u[q] # Absent
    PROVE  Replace(u, p, node)[q] = u[q]
<1>1. CASE q \in Parents(p)
  BY <1>1, ReplaceFacts DEF Parents
<1>2. CASE q \in Paths \ (Walk(p) \cup Below(p))
  BY <1>2, ReplaceFacts
<1> QED
  BY <1>1, <1>2, FourPlaces, BelowIsSubtree

(* A step that touches only what it excuses keeps the agreement. *)
LEMMA StrayAgrees ==
    ASSUME Inv, result = "building", UNCHANGED result, excused \subseteq excused',
           \A q \in Paths : Walk(q) \cap excused' = {} => tree'[q] = tree[q] /\ spec'[q] = spec[q]
    PROVE  ImageIsOCI'
<1> SUFFICES ASSUME NEW q \in Paths, Walk(q) \cap excused' = {} PROVE tree'[q] = spec'[q]
  BY DEF ImageIsOCI, Excused
<1>1. ~Excused(q)
  BY DEF Excused
<1>2. tree[q] = spec[q]
  BY <1>1 DEF Inv, ImageIsOCI
<1> QED
  BY <1>2

-----------------------------------------------------------------------------
(* An entry for p that lands at t: a file or a link takes the place of     *)
(* what is there.                                                          *)
LEMMA ReplaceStep ==
    ASSUME Inv, Unpacking, UNCHANGED result,
           NEW p \in Paths, NEW t \in Paths,
           NEW node \in Nodes, NEW snode \in Nodes, NEW S, S \subseteq {p},
           ParentsUsable(t),
           tree' = Replace(tree, t, node), spec' = Replace(spec, p, snode),
           symlinks' = (symlinks \ Below(t)) \cup (IF node \in Links THEN {t} ELSE {}),
           Entered(p, t, S),
           t = p => node = snode \/ p \in S
    PROVE  Inv'
<1> USE DEF Inv
<1>1. \A q \in Paths : tree[q] \in Nodes /\ spec[q] \in Nodes
  BY DEF TypeOK
<1>2. tree' \in [Paths -> Nodes]
  BY <1>1, ReplaceType
<1>3. spec' \in [Paths -> Nodes]
  BY <1>1, ReplaceType
<1>4. fresh' \subseteq Paths /\ FreshInv'
  BY FreshKept DEF TypeOK, Entered
<1>5. symlinks' \subseteq Paths /\ excused' \subseteq Paths
  <2>1. symlinks' \subseteq Paths
    <3>1. CASE node \in Links
      BY <3>1 DEF TypeOK
    <3>2. CASE node \notin Links
      BY <3>2 DEF TypeOK
    <3> QED
      BY <3>1, <3>2
  <2>2. excused' \subseteq Paths
    BY StrayFacts DEF TypeOK, Entered
  <2> QED
    BY <2>1, <2>2
<1>6. entries' \in 0..MaxEntries /\ result' \in {"building", "built", "failed"}
  BY BoundAssumption DEF TypeOK, Unpacking
<1>7. TypeOK'
  BY <1>2, <1>3, <1>4, <1>5, <1>6 DEF TypeOK
<1>8. SpecInv'
  <2>1. Rooted(spec)
    BY InvTrees
  <2>2. Rooted(Replace(spec, p, snode))
    BY <2>1, ReplaceRooted
  <2> QED
    BY <2>2, InvTrees
<1>9. SymlinksAreRecorded'
  <2>1. symlinks = LinksOf(tree)
    BY InvTrees
  <2>2. LinksOf(Replace(tree, t, node)) =
          (LinksOf(tree) \ Below(t)) \cup (IF node \in Links THEN {t} ELSE {})
    BY ReplaceLinks
  <2> QED
    BY <2>1, <2>2, InvTrees
<1>10. TreeIsClosed'
  <2>1. Closed(tree) /\ \A q \in Parents(t) : tree[q] \in {Absent, Dir}
    BY InvTrees DEF ParentsUsable
  <2>2. Closed(Replace(tree, t, node))
    BY <2>1, ReplaceClosed
  <2> QED
    BY <2>2, InvTrees
<1>11. ImageIsOCI'
  <2>1. CASE t = p
    BY <2>1, ReplaceAgrees DEF Unpacking, Entered
  <2>2. CASE t # p
    <3>1. excused' = excused \cup Strays(p, t)
      BY <2>2 DEF Entered
    <3>2. ASSUME NEW q \in Paths, Walk(q) \cap excused' = {}
          PROVE  tree'[q] = tree[q] /\ spec'[q] = spec[q]
      <4>1. q \in Walk(q) /\ p \notin Walk(q) /\ t \notin Walk(q)
        BY <3>1, <3>2, StrayFacts, WalkOrder
      <4>2. q \notin Below(p) /\ q \notin Below(t)
        BY <4>1, WalkOrder
      <4>3. /\ q \in Walk(p) => spec[q] # Absent
            /\ q \in Walk(t) => tree[q] # Absent
        BY <3>1, <3>2, <4>1, StrayFacts
      <4>4. tree'[q] = tree[q]
        BY <4>2, <4>3, ReplaceElsewhere
      <4>5. spec'[q] = spec[q]
        BY <4>2, <4>3, ReplaceElsewhere
      <4> QED
        BY <4>4, <4>5
    <3> QED
      BY <3>1, <3>2, StrayAgrees DEF Unpacking
  <2> QED
    BY <2>1, <2>2
<1> QED
  BY <1>4, <1>7, <1>8, <1>9, <1>10, <1>11

(* A file is opened in place: where there is no directory and no link that *)
(* is the same as replacing.                                               *)
LEMMA WriteFileKeeps ==
    ASSUME Inv, NEW p \in Paths, NEW c \in Contents, WriteFile(p, c)
    PROVE  Inv'
<1> DEFINE t == FsPath[p]
           S == {}
<1>1. /\ Unpacking /\ t \in Paths /\ ParentsUsable(t) /\ t \notin symlinks /\ tree[t] # Dir
      /\ tree' = Put(tree, t, c) /\ spec' = Replace(spec, p, c)
      /\ Entered(p, t, S) /\ UNCHANGED <<symlinks, result>> /\ S \subseteq {p}
  BY DEF WriteFile, SpecPut, Replace
<1> HIDE DEF t, S
<1>2. Closed(tree) /\ symlinks = LinksOf(tree)
  BY InvTrees DEF Inv
<1>3. tree' = Replace(tree, t, c) /\ \A q \in Below(t) \ {t} : tree[q] = Absent
  BY <1>1, <1>2, PutIsReplace
<1>4. c \in Nodes /\ c \notin Links /\ Absent \notin Links
  BY NodeAssumption DEF Nodes
<1>5. symlinks \cap Below(t) = {}
  BY <1>1, <1>2, <1>3, <1>4 DEF LinksOf
<1>6. symlinks' = (symlinks \ Below(t)) \cup (IF c \in Links THEN {t} ELSE {})
  BY <1>1, <1>4, <1>5
<1> QED
  BY <1>1, <1>3, <1>4, <1>6, ReplaceStep

LEMMA SymlinkKeeps ==
    ASSUME Inv, NEW p \in Paths, NEW l \in Links, Symlink(p, l)
    PROVE  Inv'
<1> DEFINE t == FsPath[p]
           S == {}
<1>1. /\ Unpacking /\ t \in Paths /\ ParentsUsable(t) /\ UNCHANGED result
      /\ tree' = Replace(tree, t, l) /\ spec' = Replace(spec, p, l)
      /\ Entered(p, t, S) /\ S \subseteq {p}
  BY DEF Symlink, SpecPut, Replace
<1>2. l \in Nodes
  BY DEF Nodes
<1>3. symlinks' = (symlinks \ Below(t)) \cup (IF l \in Links THEN {t} ELSE {})
  BY DEF Symlink, Forget, Record
<1> HIDE DEF t, S
<1> QED
  BY <1>1, <1>2, <1>3, ReplaceStep

(* What is linked to is not below t, so it is still there and the same. *)
LEMMA HardlinkKeeps ==
    ASSUME Inv, NEW p \in Paths, NEW source \in Paths, Hardlink(p, source)
    PROVE  Inv'
<1> DEFINE t == FsPath[p]
           from == FsPath[source]
           S == IF from # source \/ Excused(source) THEN {p} ELSE {}
<1>1. /\ Unpacking /\ t \in Paths /\ from \in Paths /\ ParentsUsable(t) /\ UNCHANGED result
      /\ tree' = Replace(tree, t, tree[from]) /\ spec' = Replace(spec, p, spec[source])
      /\ symlinks' = symlinks \ Below(t)
      /\ Entered(p, t, S)
      /\ RemoveAll(tree, Below(t))[from] \in Contents
  BY DEF Hardlink, SpecPut, Replace, Forget
<1> HIDE DEF t, from
<1>2. tree[from] \in Nodes /\ spec[source] \in Nodes
  BY <1>1 DEF Inv, TypeOK
<1>3. tree[from] \in Contents /\ tree[from] \notin Links
  <2>1. Absent \notin Contents /\ Contents \cap Links = {}
    BY NodeAssumption
  <2>2. RemoveAll(tree, Below(t))[from] = IF from \in Below(t) THEN Absent ELSE tree[from]
    BY <1>1, RemoveFacts
  <2> QED
    BY <1>1, <2>1, <2>2
<1>4. symlinks' = (symlinks \ Below(t)) \cup (IF tree[from] \in Links THEN {t} ELSE {})
  BY <1>1, <1>3
<1>5. S \subseteq {p} /\ (tree[from] = spec[source] \/ p \in S)
  BY <1>1 DEF Inv, ImageIsOCI, Unpacking
<1> HIDE DEF S
<1> QED
  BY <1>1, <1>2, <1>4, <1>5, ReplaceStep

(* The old link stays: everything at or below p is excused. *)
LEMMA SymlinkKeptKeeps ==
    ASSUME Inv, NEW p \in Paths, NEW l \in Links, SymlinkKept(p, l)
    PROVE  Inv'
<1> USE DEF Inv
<1> DEFINE t == FsPath[p]
<1>1. /\ Unpacking /\ UNCHANGED <<tree, result>> /\ t \in Paths /\ tree[t] \in Links
      /\ spec' = Replace(spec, p, l) /\ symlinks' = symlinks \cup {t}
      /\ fresh' = fresh \cup Walk(p)
      /\ excused' = IF t = p THEN (excused \ Below(p)) \cup {p} ELSE excused \cup Strays(p, t)
  BY DEF SymlinkKept, SpecPut, Replace, Record, Entered
<1> HIDE DEF t
<1>2. spec' \in [Paths -> Nodes]
  <2>1. l \in Nodes /\ \A q \in Paths : spec[q] \in Nodes
    BY DEF TypeOK, Nodes
  <2> QED
    BY <1>1, <2>1, ReplaceType
<1>3. fresh' \subseteq Paths /\ FreshInv'
  BY <1>1, FreshKept DEF TypeOK
<1>4. entries' \in 0..MaxEntries
  BY <1>1, BoundAssumption DEF TypeOK, Unpacking
<1>5. TypeOK'
  BY <1>1, <1>2, <1>3, <1>4, StrayFacts DEF TypeOK
<1>6. SpecInv'
  <2>1. Rooted(spec)
    BY InvTrees
  <2>2. Rooted(Replace(spec, p, l))
    BY <2>1, ReplaceRooted
  <2> QED
    BY <1>1, <2>2, InvTrees
<1>7. SymlinksAreRecorded' /\ TreeIsClosed'
  BY <1>1 DEF SymlinksAreRecorded, TreeIsClosed
<1>8. ImageIsOCI'
  <2>1. CASE t = p
    <3> SUFFICES ASSUME NEW q \in Paths PROVE Excused(q)' \/ tree'[q] = spec'[q]
      BY DEF ImageIsOCI
    <3>1. Excused(q) \/ tree[q] = spec[q]
      BY <1>1 DEF ImageIsOCI, Unpacking
    <3>2. CASE q \in Below(p)
      <4>1. p \in Walk(q)
        BY <3>2, WalkOrder
      <4> QED
        BY <1>1, <2>1, <4>1 DEF Excused
    <3>3. CASE q \in Parents(p)
      <4>1. tree[q] = Dir /\ Dir # Absent
        BY <1>1, <2>1, <3>3, NodeAssumption DEF TreeIsClosed
      <4>2. q \notin Below(p) /\ Replace(spec, p, l)[q] = IF spec[q] = Absent THEN Dir ELSE spec[q]
        BY <3>3, ReplaceFacts
      <4> QED
        BY <1>1, <2>1, <3>1, <4>1, <4>2, ExcusedElsewhere DEF Excused
    <3>4. CASE q \in Paths \ (Walk(p) \cup Below(p))
      <4>1. Replace(spec, p, l)[q] = spec[q]
        BY <3>4, ReplaceFacts
      <4> QED
        BY <1>1, <2>1, <3>1, <3>4, <4>1, ExcusedElsewhere DEF Excused
    <3> QED
      BY <3>2, <3>3, <3>4, FourPlaces, BelowIsSubtree
  <2>2. CASE t # p
    <3>1. excused' = excused \cup Strays(p, t)
      BY <1>1, <2>2
    <3>2. ASSUME NEW q \in Paths, Walk(q) \cap excused' = {}
          PROVE  tree'[q] = tree[q] /\ spec'[q] = spec[q]
      <4>1. q \in Walk(q) /\ p \notin Walk(q)
        BY <1>1, <3>1, <3>2, StrayFacts, WalkOrder
      <4>2. q \notin Below(p)
        BY <4>1, WalkOrder
      <4>3. q \in Walk(p) => spec[q] # Absent
        BY <1>1, <3>1, <3>2, <4>1, StrayFacts
      <4> QED
        BY <1>1, <4>2, <4>3, ReplaceElsewhere
    <3> QED
      BY <1>1, <3>1, <3>2, StrayAgrees DEF Unpacking
  <2> QED
    BY <2>1, <2>2
<1> QED
  BY <1>3, <1>5, <1>6, <1>7, <1>8

(* A whiteout or an opaque marker: whole subtrees go, of the specification *)
(* what is not fresh; what only the specification keeps is excused, and    *)
(* with a marker that acts elsewhere all that either of them removes.      *)
LEMMA HideKeeps ==
    ASSUME Inv, NEW S, NEW R, Subtrees(S), Subtrees(R), Hide(R), SpecHide(S, R)
    PROVE  Inv'
<1> USE DEF Inv
<1>1. /\ Unpacking /\ UNCHANGED <<result, fresh>>
      /\ tree' = RemoveAll(tree, R) /\ symlinks' = symlinks \ R
      /\ spec' = RemoveAll(spec, S \ fresh)
      /\ excused' = IF R = S THEN (excused \ S) \cup (S \cap fresh) ELSE excused \cup S \cup R
      /\ S \subseteq Paths /\ R \subseteq Paths
  BY DEF Hide, SpecHide, Forget, Subtrees
<1>2. tree' \in [Paths -> Nodes] /\ spec' \in [Paths -> Nodes]
  BY <1>1 DEF TypeOK, RemoveAll, Nodes
<1>3. entries' \in 0..MaxEntries
  BY <1>1, BoundAssumption DEF TypeOK, Unpacking
<1>4. TypeOK' /\ FreshInv'
  BY <1>1, <1>2, <1>3 DEF TypeOK, FreshInv
<1>5. SpecInv' /\ TreeIsClosed'
  <2>1. Closed(tree) /\ Rooted(spec)
    BY InvTrees
  <2>2. Closed(RemoveAll(tree, R)) /\ Rooted(RemoveAll(spec, S \ fresh))
    BY <2>1, RemoveClosed, RemoveRooted
  <2> QED
    BY <1>1, <2>2, InvTrees
<1>6. SymlinksAreRecorded'
  <2>1. symlinks = LinksOf(tree) /\ Absent \notin Links
    BY InvTrees, NodeAssumption
  <2>2. LinksOf(RemoveAll(tree, R)) = LinksOf(tree) \ R
    BY <2>1, RemoveFacts DEF LinksOf
  <2> QED
    BY <1>1, <2>1, <2>2, InvTrees
<1>7. ImageIsOCI'
  <2> SUFFICES ASSUME NEW q \in Paths PROVE Excused(q)' \/ tree'[q] = spec'[q]
    BY DEF ImageIsOCI
  <2>1. Excused(q) \/ tree[q] = spec[q]
    BY <1>1 DEF ImageIsOCI, Unpacking
  <2>2. /\ tree'[q] = IF q \in R THEN Absent ELSE tree[q]
        /\ spec'[q] = IF q \in S \ fresh THEN Absent ELSE spec[q]
    BY <1>1, RemoveFacts
  <2>3. CASE R = S /\ q \in S \cap fresh
    BY <1>1, <2>3, WalkOrder DEF Excused
  <2>4. CASE R = S /\ q \in S \ fresh
    BY <2>2, <2>4
  <2>5. CASE R # S /\ q \in S \cup R
    BY <1>1, <2>5, WalkOrder DEF Excused
  <2>6. CASE q \notin S \cup R
    <3>1. CASE Excused(q)
      <4>1. PICK r \in Walk(q) : r \in excused
        BY <3>1 DEF Excused
      <4>2. r \in Paths /\ r \notin S
        BY <2>6, WalkOrder DEF Subtrees
      <4> QED
        BY <1>1, <4>1, <4>2 DEF Excused
    <3> QED
      BY <2>1, <2>2, <2>6, <3>1
  <2> QED
    BY <2>3, <2>4, <2>5, <2>6
<1> QED
  BY <1>4, <1>5, <1>6, <1>7

(* A directory entry: where there was nothing a directory appears, and a   *)
(* node that is not a directory stays, excused.  Below a path that is not  *)
(* excused the specification has nothing to remove either.                 *)
LEMMA MkdirKeeps ==
    ASSUME Inv, NEW p \in Paths, Mkdir(p)
    PROVE  Inv'
<1> USE DEF Inv
<1> DEFINE t == FsPath[p]
<1>1. /\ Unpacking /\ UNCHANGED <<symlinks, result>>
      /\ t \in Paths \cup {Root} /\ ParentsUsable(t)
      /\ tree' = MkdirAll(tree, Walk(t))
      /\ spec' = IF spec[p] = Dir THEN spec ELSE Replace(spec, p, Dir)
      /\ fresh' = fresh \cup Walk(p)
      /\ excused' = excused \cup
            (IF t # p THEN Strays(p, t) ELSE IF tree[p] \in {Absent, Dir} THEN {} ELSE {p})
  BY DEF Mkdir, SpecPut, Replace
<1> HIDE DEF t
<1>2. /\ tree \in [Paths -> Nodes] /\ spec \in [Paths -> Nodes]
      /\ symlinks \subseteq Paths /\ excused \subseteq Paths /\ Dir \in Nodes
  BY DEF TypeOK, Nodes
<1>3. /\ Closed(tree) /\ Rooted(spec) /\ symlinks = LinksOf(tree)
      /\ Absent \notin Links /\ Dir \notin Links /\ Dir # Absent
  BY InvTrees, NodeAssumption
<1>4. /\ tree' \in [Paths -> Nodes]
      /\ \A q \in Paths : tree'[q] = IF q \in Walk(t) /\ tree[q] = Absent THEN Dir ELSE tree[q]
  BY <1>1, <1>2 DEF MkdirAll
<1>5. spec' \in [Paths -> Nodes] /\ Rooted(spec')
  <2>1. \A q \in Paths : spec[q] \in Nodes
    BY <1>2
  <2>2. Replace(spec, p, Dir) \in [Paths -> Nodes] /\ Rooted(Replace(spec, p, Dir))
    BY <1>2, <1>3, <2>1, ReplaceType, ReplaceRooted
  <2> QED
    BY <1>1, <1>2, <1>3, <2>2
<1>6. fresh' \subseteq Paths /\ FreshInv'
  BY <1>1, FreshKept DEF TypeOK
<1>7. entries' \in 0..MaxEntries
  BY <1>1, BoundAssumption DEF TypeOK, Unpacking
<1>8. TypeOK' /\ SpecInv'
  BY <1>1, <1>2, <1>4, <1>5, <1>6, <1>7, InvTrees, StrayFacts DEF TypeOK
<1>9. SymlinksAreRecorded'
  <2>1. LinksOf(tree') = LinksOf(tree)
    BY <1>3, <1>4 DEF LinksOf
  <2> QED
    BY <1>1, <1>3, <2>1, InvTrees
<1>10. TreeIsClosed'
  <2> SUFFICES ASSUME NEW x \in Paths, tree'[x] # Absent, NEW q \in Parents(x)
               PROVE  tree'[q] = Dir
    BY InvTrees DEF Closed
  <2>1. q \in Paths
    BY ParentFacts
  <2>2. CASE x \in Walk(t)
    <3>1. t \in Paths
      BY <1>1, <2>2, RootFacts
    <3>2. q \in Parents(t)
      BY <2>2, <3>1, ParentFacts DEF Parents
    <3> QED
      BY <1>1, <1>4, <2>1, <3>2 DEF ParentsUsable, Parents
  <2>3. CASE x \notin Walk(t)
    <3>1. tree[q] = Dir
      BY <1>3, <1>4, <2>3 DEF Closed
    <3> QED
      BY <1>3, <1>4, <2>1, <3>1
  <2> QED
    BY <2>2, <2>3
<1>11. ImageIsOCI'
  <2>1. CASE t = p
    <3> SUFFICES ASSUME NEW q \in Paths, ~Excused(q)' PROVE tree'[q] = spec'[q]
      BY DEF ImageIsOCI
    <3>1. \A r \in Walk(q) : r \notin excused /\ r \notin excused'
      BY <1>1, <2>1 DEF Excused
    <3>2. \A r \in Walk(q) : r \in Paths /\ tree[r] = spec[r]
      <4> SUFFICES ASSUME NEW r \in Walk(q) PROVE r \in Paths /\ tree[r] = spec[r]
        OBVIOUS
      <4>1. r \in Paths /\ Walk(r) \subseteq Walk(q)
        BY WalkOrder
      <4>2. ~Excused(r)
        BY <3>1, <4>1 DEF Excused
      <4> QED
        BY <1>1, <2>1, <4>1, <4>2 DEF ImageIsOCI, Unpacking
    <3>3. q \in Walk(q) /\ tree[q] = spec[q]
      BY <3>2, WalkOrder
    <3>4. CASE q = p
      <4>1. tree[p] \in {Absent, Dir}
        BY <1>1, <2>1, <3>1, <3>3, <3>4
      <4>2. tree'[p] = Dir
        BY <1>4, <2>1, <3>3, <3>4, <4>1
      <4>3. Replace(spec, p, Dir)[p] = Dir
        BY ReplaceFacts
      <4> QED
        BY <1>1, <2>1, <3>4, <4>2, <4>3
    <3>5. CASE q \in Parents(p)
      <4>1. tree'[q] = Dir
        BY <1>1, <1>4, <2>1, <3>5 DEF ParentsUsable, Parents
      <4>2. spec[p] = Dir => spec[q] = Dir
        BY <1>1, <1>3, <2>1, <3>3, <3>5 DEF Rooted, ParentsUsable
      <4>3. Replace(spec, p, Dir)[q] = Dir
        <5>1. Replace(spec, p, Dir)[q] = IF spec[q] = Absent THEN Dir ELSE spec[q]
          BY <3>5, ReplaceFacts
        <5> QED
          BY <1>1, <2>1, <3>3, <3>5, <5>1 DEF ParentsUsable
      <4> QED
        BY <1>1, <2>1, <4>1, <4>2, <4>3
    <3>6. CASE q \in Below(p) \ {p}
      <4>1. p \in Walk(q) /\ p \in Parents(q) /\ q \notin Walk(p)
        BY <3>6, WalkOrder DEF Parents
      <4>2. tree[p] = spec[p] /\ tree[p] \in {Absent, Dir} /\ tree'[q] = tree[q]
        BY <1>1, <1>4, <2>1, <3>1, <3>2, <4>1
      <4>3. tree[p] = Absent => tree[q] = Absent
        BY <1>3, <4>1 DEF Closed
      <4>4. Replace(spec, p, Dir)[q] = Absent
        BY <3>6, ReplaceFacts
      <4> QED
        BY <1>1, <2>1, <3>3, <4>2, <4>3, <4>4
    <3>7. CASE q \in Paths \ (Walk(p) \cup Below(p))
      <4>1. Replace(spec, p, Dir)[q] = spec[q]
        BY <3>7, ReplaceFacts
      <4> QED
        BY <1>1, <1>4, <2>1, <3>3, <3>7, <4>1
    <3> QED
      BY <3>4, <3>5, <3>6, <3>7, FourPlaces
  <2>2. CASE t # p
    <3>1. excused' = excused \cup Strays(p, t)
      BY <1>1, <2>2
    <3>2. ASSUME NEW q \in Paths, Walk(q) \cap excused' = {}
          PROVE  tree'[q] = tree[q] /\ spec'[q] = spec[q]
      <4>1. q \in Walk(q) /\ p \notin Walk(q)
        BY <1>1, <3>1, <3>2, StrayFacts, WalkOrder
      <4>2. q \notin Below(p)
        BY <4>1, WalkOrder
      <4>3. /\ q \in Walk(p) => spec[q] # Absent
            /\ q \in Walk(t) => tree[q] # Absent
        BY <1>1, <3>1, <3>2, <4>1, StrayFacts
      <4>4. Replace(spec, p, Dir)[q] = spec[q]
        BY <4>2, <4>3, ReplaceElsewhere
      <4> QED
        BY <1>1, <1>4, <4>3, <4>4
    <3> QED
      BY <1>1, <3>1, <3>2, StrayAgrees DEF Unpacking
  <2> QED
    BY <2>1, <2>2
<1> QED
  BY <1>6, <1>8, <1>9, <1>10, <1>11

-----------------------------------------------------------------------------
LEMMA InvNext == Inv /\ [Next]_vars => Inv'
<1> SUFFICES ASSUME Inv, [Next]_vars PROVE Inv'
  OBVIOUS
<1>1. ASSUME NEW p \in Paths, Entry(p) PROVE Inv'
  <2>1. CASE Mkdir(p)
    BY <2>1, MkdirKeeps
  <2>2. ASSUME NEW c \in Contents, WriteFile(p, c) PROVE Inv'
    BY <2>2, WriteFileKeeps
  <2>3. ASSUME NEW l \in Links, Symlink(p, l) \/ SymlinkKept(p, l) PROVE Inv'
    BY <2>3, SymlinkKeeps, SymlinkKeptKeeps
  <2>4. ASSUME NEW source \in Paths, Hardlink(p, source) PROVE Inv'
    BY <2>4, HardlinkKeeps
  <2>5. CASE Whiteout(p)
    <3>1. /\ FsPath[p] \in Paths
          /\ Hide(Below(FsPath[p])) /\ SpecHide(Below(p), Below(FsPath[p]))
      BY <2>5 DEF Whiteout
    <3>2. Subtrees(Below(p)) /\ Subtrees(Below(FsPath[p]))
      BY <3>1, BelowIsSubtree
    <3> QED
      BY <3>1, <3>2, HideKeeps
  <2> QED
    BY <1>1, <2>1, <2>2, <2>3, <2>4, <2>5 DEF Entry
<1>2. ASSUME NEW d \in Paths \cup {Root}, Opaque(d) PROVE Inv'
  <2>1. /\ FsPath[d] \in Paths \cup {Root}
        /\ Hide(Children(FsPath[d])) /\ SpecHide(Children(d), Children(FsPath[d]))
    BY <1>2 DEF Opaque
  <2>2. Subtrees(Children(d)) /\ Subtrees(Children(FsPath[d]))
    BY <2>1, ChildrenAreSubtrees
  <2> QED
    BY <2>1, <2>2, HideKeeps
<1>3. CASE EndLayer \/ Built \/ Fails \/ UNCHANGED vars
  <2>1. /\ UNCHANGED <<tree, symlinks, entries, spec, excused>>
        /\ fresh' \in {fresh, {}}
        /\ result' \in {"building", "built", "failed"}
        /\ result' # "failed" => result # "failed"
    BY <1>3 DEF EndLayer, Built, Fails, vars, image, Inv, TypeOK
  <2>2. TypeOK' /\ FreshInv' /\ SpecInv' /\ SymlinksAreRecorded' /\ TreeIsClosed'
    BY <2>1 DEF Inv, TypeOK, FreshInv, SpecInv, SymlinksAreRecorded, TreeIsClosed
  <2>3. ImageIsOCI'
    BY <2>1 DEF Inv, ImageIsOCI, Excused
  <2> QED
    BY <2>2, <2>3 DEF Inv
<1> QED
  BY <1>1, <1>2, <1>3 DEF Next, Finished

LEMMA Invariance == Spec => []Inv
BY InvInit, InvNext, PTL DEF Spec

(* The variables keep their types. *)
THEOREM TypeCorrect == Spec => []TypeOK
BY Invariance, PTL DEF Inv

(* Whatever the layers hold and however deep, the applier's record of the  *)
(* symbolic links is exact after every entry: the check of the parents of  *)
(* a path against the record sees every link of the image, and no link     *)
(* that was removed refuses a path.                                        *)
THEOREM SymlinkRecordIsExact == Spec => []SymlinksAreRecorded
BY Invariance, PTL DEF Inv

(* No node of the image is ever without its directories. *)
THEOREM NoOrphans == Spec => []TreeIsClosed
BY Invariance, PTL DEF Inv

(* For any layers, the image agrees with the one the image specification   *)
(* describes, except in the subtrees where the applier departed from it:   *)
(* a link it could not replace, a directory entry over a file or a link, a *)
(* marker behind entries of its own layer, a name with a backslash.        *)
THEOREM ImageAgreesWithSpec == Spec => []ImageIsOCI
BY Invariance, PTL DEF Inv
=============================================================================
