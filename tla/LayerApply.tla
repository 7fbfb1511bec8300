----------------------------- MODULE LayerApply -----------------------------
(***************************************************************************)
(* What the entries of the layers of an image do to the ext4 tree that is  *)
(* being built (DiskfsLayerApplier): directories, files, symbolic and hard *)
(* links, whiteouts and opaque markers, in the order the tar files give    *)
(* them, and the applier's own record of the symbolic links, which is all  *)
(* it consults before it writes below a path.                              *)
(*                                                                         *)
(* Beside the tree the module keeps the one the image specification asks   *)
(* for (spec): an entry replaces what is at its path, except a directory   *)
(* over a directory, and a whiteout or an opaque marker hides what lower   *)
(* layers left and never an entry of its own layer.  The applier departs   *)
(* from it in four ways, one of them on purpose; excused holds the paths   *)
(* where it did, see ImageIsOCI.                                           *)
(***************************************************************************)
EXTENDS Integers, Sequences, SequencesExt

CONSTANTS
    Names,      \* names of directory entries, some with backslashes in them
    Slashed,    \* the parts of a name between its backslashes, "." left out
    Up,         \* the part ".."
    Empty,      \* the part before a leading backslash
    Contents,   \* contents of regular files
    Links,      \* targets of symbolic links
    MaxDepth,   \* bound: length of a path
    MaxEntries, \* bound: entries of all layers of an image
    Absent,     \* no node
    Dir         \* a directory

ASSUME BoundAssumption == MaxDepth \in Nat /\ MaxEntries \in Nat

ASSUME NodeAssumption ==
    /\ Absent # Dir
    /\ Contents \cap Links = {}
    /\ {Absent, Dir} \cap (Contents \cup Links) = {}

ASSUME SlashAssumption ==
    /\ Slashed \in [Names -> Seq(Names \cup {Up, Empty})]
    /\ {Up, Empty} \cap Names = {}

(* A path is what cleanLayerPath leaves of a name: relative, not empty,    *)
(* without "..".  The root is not a path and always a directory.           *)
Paths == UNION {[1..n -> Names] : n \in 1..MaxDepth}
Root == <<>>

(* path.Clean, on the parts of a path.  It may end at the root or, unless  *)
(* the path begins with a slash, above it.                                 *)
Clean(parts) ==
    LET rooted == parts # <<>> /\ Head(parts) = Empty
        Step(done, part) ==
            CASE part = Empty -> done
              [] part = Up /\ done # <<>> /\ Last(done) # Up -> Front(done)
              [] part = Up /\ done = <<>> /\ rooted -> done
              [] OTHER -> Append(done, part)
    IN  FoldLeft(Step, <<>>, parts)

(* fsPath: where an entry lands.  Backslashes become slashes and the path  *)
(* is cleaned once more.                                                   *)
FsPath ==
    [p \in Paths \cup {Root} |-> Clean(FlattenSeq([i \in DOMAIN p |-> Slashed[p[i]]]))]

Nodes == {Absent, Dir} \cup Contents \cup Links

VARIABLES
    tree,       \* the node at each path of the image being built
    symlinks,   \* Symlinks: the paths the applier knows as symbolic links
    entries,    \* entries read so far
    result,     \* "building", "built" or "failed"
    spec,       \* the tree of the image specification
    fresh,      \* the paths this layer has put, and the directories above
    excused     \* where the applier may have left the specification

image == <<tree, symlinks>>
vars == <<image, entries, result, spec, fresh, excused>>

Init ==
    /\ tree = [p \in Paths |-> Absent] /\ symlinks = {}
    /\ entries = 0 /\ result = "building"
    /\ spec = tree /\ fresh = {} /\ excused = {}

-----------------------------------------------------------------------------
Below(p) == {q \in Paths : IsPrefix(p, q)}
Children(d) == {q \in Paths : IsStrictPrefix(d, q)}

(* The paths mkdirAll and ensureNoSymlinkParents walk over, and p. *)
Walk(p) == {SubSeq(p, 1, n) : n \in 1..Len(p)}
Parents(p) == Walk(p) \ {p}

NoSymlinkParents(p) == Parents(p) \cap symlinks = {}

(* mkdirAll goes on at whatever exists; what is put below a node that is   *)
(* not a directory is refused by the file system.                          *)
ParentsUsable(p) == \A q \in Parents(p) : tree[q] \in {Absent, Dir}

(* mkdirAll, on the directories given. *)
MkdirAll(t, S) == [q \in Paths |-> IF q \in S /\ t[q] = Absent THEN Dir ELSE t[q]]

(* removeAll and removeChildren: a directory goes with everything in it. *)
RemoveAll(t, S) == [q \in Paths |-> IF q \in S THEN Absent ELSE t[q]]

(* Faulty variant: the links of a removed directory stay on record. *)
ForgetOne(S) ==
    symlinks \ {q \in S : ~\E r \in S : IsStrictPrefix(r, q)}

(* Every link that is removed is taken off the record. *)
Forget(S) == symlinks \ S

(* Faulty variant: the link is recorded under its directory. *)
RecordDir(p) == {Front(p)}

Record(p) == {p}

(* A file or a link put at p, with the directories above it. *)
Put(t, p, node) == [MkdirAll(t, Parents(p)) EXCEPT ![p] = node]

(* The specification's: what was at p goes first, whatever it was. *)
SpecPut(p, node) == Put(RemoveAll(spec, Below(p)), p, node)

Excused(p) == Walk(p) \cap excused # {}

(* The next entry of the layer at work. *)
Unpacking ==
    /\ result = "building"
    /\ entries < MaxEntries /\ entries' = entries + 1

(* An entry for p that lands at t puts a node at each, and directories     *)
(* above each.                                                             *)
Strays(p, t) ==
    ({p, t} \cap Paths) \cup {q \in Walk(p) : spec[q] = Absent}
                        \cup {q \in Walk(t) : tree[q] = Absent}

(* The entry for p is now part of the layer, and the image agrees with the *)
(* specification below p again unless S says otherwise or it landed        *)
(* elsewhere.                                                              *)
Entered(p, t, S) ==
    /\ fresh' = fresh \cup Walk(p)
    /\ excused' = IF t = p THEN (excused \ Below(p)) \cup S ELSE excused \cup Strays(p, t)

-----------------------------------------------------------------------------
(* go-diskfs refuses a path that climbs above the root, so t is a path; a  *)
(* directory entry may land at the root, which is there already.           *)

(* A directory entry over a file or a link succeeds and leaves it there.   *)
Mkdir(p) ==
    LET t == FsPath[p] IN
    /\ Unpacking
    /\ t \in Paths \cup {Root}
    /\ NoSymlinkParents(t) /\ ParentsUsable(t)
    /\ tree' = MkdirAll(tree, Walk(t))
    /\ spec' = IF spec[p] = Dir THEN spec ELSE SpecPut(p, Dir)
    /\ fresh' = fresh \cup Walk(p)
    /\ excused' = excused \cup
          (IF t # p THEN Strays(p, t) ELSE IF tree[p] \in {Absent, Dir} THEN {} ELSE {p})
    /\ UNCHANGED <<symlinks, result>>

(* A file is opened and truncated in place, never over a link. *)
WriteFile(p, contents) ==
    LET t == FsPath[p] IN
    /\ Unpacking
    /\ t \in Paths
    /\ NoSymlinkParents(t) /\ ParentsUsable(t)
    /\ t \notin symlinks /\ tree[t] # Dir
    /\ tree' = Put(tree, t, contents)
    /\ spec' = SpecPut(p, contents)
    /\ Entered(p, t, {})
    /\ UNCHANGED <<symlinks, result>>

(* Faulty variant: the node is replaced without removing what it holds. *)
SymlinkInPlace(p, link) ==
    LET t == FsPath[p] IN
    /\ Unpacking
    /\ t \in Paths
    /\ NoSymlinkParents(t) /\ ParentsUsable(t)
    /\ tree' = Put(tree, t, link)
    /\ symlinks' = symlinks \cup Record(t)
    /\ spec' = SpecPut(p, link)
    /\ Entered(p, t, {})
    /\ UNCHANGED result

(* A symbolic link replaces whatever is there. *)
Symlink(p, link) ==
    LET t == FsPath[p] IN
    /\ Unpacking
    /\ t \in Paths
    /\ NoSymlinkParents(t) /\ ParentsUsable(t)
    /\ tree' = Put(RemoveAll(tree, Below(t)), t, link)
    /\ symlinks' = Forget(Below(t)) \cup Record(t)
    /\ spec' = SpecPut(p, link)
    /\ Entered(p, t, {})
    /\ UNCHANGED result

(* The removal of the old link may fail, which keeps the old link. *)
SymlinkKept(p, link) ==
    LET t == FsPath[p] IN
    /\ Unpacking
    /\ t \in Paths
    /\ NoSymlinkParents(t)
    /\ tree[t] \in Links \ {link}
    /\ symlinks' = symlinks \cup Record(t)
    /\ spec' = SpecPut(p, link)
    /\ Entered(p, t, {p})
    /\ UNCHANGED <<tree, result>>

(* A hard link is a copy of the contents, read after the old node went. *)
Hardlink(p, source) ==
    LET t == FsPath[p]
        from == FsPath[source]
    IN
    /\ Unpacking
    /\ t \in Paths /\ from \in Paths
    /\ NoSymlinkParents(t) /\ NoSymlinkParents(from)
    /\ from \notin symlinks
    /\ ParentsUsable(t)
    /\ RemoveAll(tree, Below(t))[from] \in Contents
    /\ tree' = Put(RemoveAll(tree, Below(t)), t, tree[from])
    /\ symlinks' = Forget(Below(t))
    /\ spec' = SpecPut(p, spec[source])
    /\ Entered(p, t, IF from # source \/ Excused(source) THEN {p} ELSE {})
    /\ UNCHANGED result

(* What a whiteout or an opaque marker removes: everything at or below the *)
(* paths in S, the entries of this layer included.                         *)
Hide(S) ==
    /\ Unpacking
    /\ tree' = RemoveAll(tree, S)
    /\ symlinks' = Forget(S)
    /\ UNCHANGED result

(* The specification's removes the paths in S, of which the entries of     *)
(* this layer stay, when the applier removes those in R.                   *)
SpecHide(S, R) ==
    /\ spec' = RemoveAll(spec, S \ fresh)
    /\ excused' = IF R = S THEN (excused \ S) \cup (S \cap fresh) ELSE excused \cup S \cup R
    /\ UNCHANGED fresh

Whiteout(p) ==
    LET t == FsPath[p] IN
    t \in Paths /\ Hide(Below(t)) /\ SpecHide(Below(p), Below(t))

(* Faulty variant: the directory goes too. *)
OpaqueWithDir(d) ==
    LET t == FsPath[d] IN
    /\ t \in Paths \cup {Root}
    /\ Hide(IF t = Root THEN Children(t) ELSE Below(t))
    /\ SpecHide(Children(d), Children(t))

(* An opaque marker may stand in the root directory. *)
Opaque(d) ==
    LET t == FsPath[d] IN
    t \in Paths \cup {Root} /\ Hide(Children(t)) /\ SpecHide(Children(d), Children(t))

(* An entry that is refused (an unsafe or empty name, a device, a parent   *)
(* or an overwritten node that is a link), an error or a panic of the file *)
(* system, an unreadable layer, a wrong diff ID, a cancelled context: the  *)
(* build fails and its caller removes the image.                           *)
Fails ==
    /\ result = "building"
    /\ result' = "failed"
    /\ UNCHANGED <<image, entries, spec, fresh, excused>>

EndLayer ==
    /\ result = "building"
    /\ fresh' = {}
    /\ UNCHANGED <<image, entries, result, spec, excused>>

Built ==
    /\ result = "building"
    /\ fresh = {}
    /\ result' = "built"
    /\ UNCHANGED <<image, entries, spec, fresh, excused>>

Finished == result # "building" /\ UNCHANGED vars

Entry(p) ==
    \/ Mkdir(p)
    \/ \E c \in Contents : WriteFile(p, c)
    \/ \E l \in Links : Symlink(p, l) \/ SymlinkKept(p, l)
    \/ \E s \in Paths : Hardlink(p, s)
    \/ Whiteout(p)

Next ==
    \/ \E p \in Paths : Entry(p)
    \/ \E d \in Paths \cup {Root} : Opaque(d)
    \/ EndLayer \/ Built \/ Fails \/ Finished

Spec == Init /\ [][Next]_vars

-----------------------------------------------------------------------------
(* Types of the variables; an entry of the layer has its directories. *)
TypeOK ==
    /\ tree \in [Paths -> Nodes] /\ spec \in [Paths -> Nodes]
    /\ symlinks \subseteq Paths
    /\ fresh \subseteq Paths /\ excused \subseteq Paths
    /\ entries \in 0..MaxEntries
    /\ result \in {"building", "built", "failed"}

(* The applier's record is exact: Symlinks holds the path of every         *)
(* symbolic link of the image and no other.  A link that is missing from   *)
(* it would be written through, a stale one would refuse a legal layer.    *)
SymlinksAreRecorded == symlinks = {p \in Paths : tree[p] \in Links}

(* Whatever is replaced, removed and linked, no node of the image is left  *)
(* without its directory: nothing is written below a file or a link, and   *)
(* removeAll leaves no orphan behind.                                      *)
TreeIsClosed ==
    \A p \in Paths : tree[p] # Absent => \A q \in Parents(p) : tree[q] = Dir

(* The image is the one its layers describe, except in the subtrees where  *)
(* the applier departs from the specification: where a link could not be   *)
(* replaced, which the code accepts knowingly, where a directory entry met *)
(* a file or a link, where a whiteout or an opaque marker followed entries *)
(* of its own layer, and where an entry whose name has a backslash should  *)
(* be and where it landed.                                                 *)
ImageIsOCI ==
    result # "failed" => \A p \in Paths : Excused(p) \/ tree[p] = spec[p]
=============================================================================
