---------------------------- MODULE MemFsProofs ----------------------------
(***************************************************************************)
(* Proofs about the in-memory filesystem and the drivers over it.          *)
(***************************************************************************)
EXTENDS Drivers, OrderedProofs, SequenceTheorems

-----------------------------------------------------------------------------
(* The inductive invariant.  It is stated of any inode table, because a    *)
(* rename and devdev_fs_write change the table several times in one step.  *)

EntryMap == UNION {[S -> Nat] : S \in {T \in SUBSET Names : IsFiniteSet(T)}}

Inode == [kind : {"file", "dir", "symlink"}, nlink : Nat, len : Nat,
          parent : Nat, target : Target, entries : EntryMap]

(* What distinguishes the kinds: only a directory has entries and a parent, *)
(* and it counts no bytes.                                                 *)
Proper(node) ==
  /\ node \in Inode
  /\ node.kind = "dir" => node.len = 0
  /\ node.kind # "dir" => node.parent = NoParent /\ node.entries = NoNames /\ node.nlink >= 1

Table(ns) ==
  /\ ns = [i \in DOMAIN ns |-> ns[i]]
  /\ \A i \in DOMAIN ns : Proper(ns[i])

(* Entry n of directory d names inode c.                                   *)
Edge(ns, d, n, c) ==
  /\ d \in DOMAIN ns /\ n \in Names
  /\ n \in DOMAIN ns[d].entries /\ ns[d].entries[n] = c

RootDir(ns) == IsDir(ns, Root) /\ ns[Root].parent = Root

(* Entries lead to inodes there are, never to the root.                    *)
EdgesDown(ns) == \A d, n, c : Edge(ns, d, n, c) => c \in DOMAIN ns \ {Root} /\ IsDir(ns, d)

(* A directory is named by its parent only, and once.                      *)
ParentsTrue(ns) == \A d, n, c : Edge(ns, d, n, c) /\ IsDir(ns, c) => ns[c].parent = d

OneName(ns) ==
  \A d, n, m, c : Edge(ns, d, n, c) /\ Edge(ns, d, m, c) /\ IsDir(ns, c) => n = m

Named(ns) == \A c : IsDir(ns, c) /\ c # Root => \E n : Edge(ns, ns[c].parent, n, c)

(* Directories that hold the parent of each of them hold the root: there   *)
(* is no loop.                                                             *)
UpClosed(ns, C) == /\ \A c \in C : IsDir(ns, c) /\ ns[c].parent \in C
Rooted(ns)      == \A C : C # {} /\ UpClosed(ns, C) => Root \in C

Shape(ns) ==
  /\ RootDir(ns) /\ EdgesDown(ns) /\ ParentsTrue(ns) /\ OneName(ns) /\ Named(ns)
  /\ Rooted(ns)

DirLinks(ns) ==
  \A d : IsDir(ns, d) =>
    IsFiniteSet(Subdirs(ns, d)) /\ ns[d].nlink = 2 + Cardinality(Subdirs(ns, d))

LeafLinks(ns) ==
  \A i : IsLeaf(ns, i) =>
    IsFiniteSet(Holders(ns, i)) /\ ns[i].nlink >= Cardinality(Holders(ns, i))

Good(ns, nx, u) ==
  /\ Table(ns) /\ Shape(ns) /\ DirLinks(ns) /\ LeafLinks(ns)
  /\ nx \in Nat /\ DOMAIN ns \subseteq 1..nx - 1
  /\ u = Bytes(ns, nx)
  /\ u \in 0..Limit

FsInv == Good(nodes, next, used) /\ next <= MaxIno + 1

(* Through the mount, links and names agree exactly.                       *)
Exact(ns) == \A i : IsLeaf(ns, i) => ns[i].nlink = Cardinality(Holders(ns, i))

-----------------------------------------------------------------------------
(* The primitive changes of a table, field by field. *)

(* An entry map, by its domain and its values.                             *)
LEMMA EntryMapIs ==
  ASSUME NEW e
  PROVE  e \in EntryMap <=> /\ e = [n \in DOMAIN e |-> e[n]]
                            /\ DOMAIN e \subseteq Names /\ IsFiniteSet(DOMAIN e)
                            /\ \A n \in DOMAIN e : e[n] \in Nat
  BY DEF EntryMap

(* The map of an empty directory is one.                                   *)
LEMMA NoNamesIs == NoNames \in EntryMap /\ DOMAIN NoNames = {}
  BY EntryMapIs, FS_EmptySet DEF NoNames

(* ".." is never the name of an entry (validate_name).                     *)
LEMMA NameIs == DotDot \notin Names /\ Names \subseteq Nat
  BY FsAssumption DEF DotDot

(* A record of the fields of an inode is one.                              *)
LEMMA InodeFields ==
  ASSUME NEW node \in Inode
  PROVE  /\ node.kind \in {"file", "dir", "symlink"}
         /\ node.nlink \in Nat /\ node.len \in Nat /\ node.parent \in Nat
         /\ node.entries \in EntryMap
  BY DEF Inode

(* Setting the link count of an inode, or its length, parent or entries,   *)
(* leaves the rest of it.                                                  *)
LEMMA WithLinks ==
  ASSUME NEW node, Proper(node), NEW v \in Nat, node.kind # "dir" => v >= 1
  PROVE  LET x == [node EXCEPT !.nlink = v]
         IN  /\ Proper(x)
             /\ x.kind = node.kind /\ x.nlink = v /\ x.len = node.len
             /\ x.parent = node.parent /\ x.entries = node.entries
  BY DEF Proper, Inode

(* An inode with another length.                                           *)
LEMMA WithLen ==
  ASSUME NEW node, Proper(node), NEW v \in Nat, node.kind # "dir"
  PROVE  LET x == [node EXCEPT !.len = v]
         IN  /\ Proper(x)
             /\ x.kind = node.kind /\ x.nlink = node.nlink /\ x.len = v
             /\ x.parent = node.parent /\ x.entries = node.entries
  BY DEF Proper, Inode

(* A directory with another parent.                                        *)
LEMMA WithParent ==
  ASSUME NEW node, Proper(node), NEW v \in Nat, node.kind = "dir"
  PROVE  LET x == [node EXCEPT !.parent = v]
         IN  /\ Proper(x)
             /\ x.kind = node.kind /\ x.nlink = node.nlink /\ x.len = node.len
             /\ x.parent = v /\ x.entries = node.entries
  BY DEF Proper, Inode

(* A directory with other entries.                                         *)
LEMMA WithEntries ==
  ASSUME NEW node, Proper(node), NEW e \in EntryMap, node.kind = "dir"
  PROVE  LET x == [node EXCEPT !.entries = e]
         IN  /\ Proper(x)
             /\ x.kind = node.kind /\ x.nlink = node.nlink /\ x.len = node.len
             /\ x.parent = node.parent /\ x.entries = e
  BY DEF Proper, Inode

(* Replacing one inode leaves the others.                                  *)
LEMMA Replaced ==
  ASSUME NEW ns, Table(ns), NEW i \in DOMAIN ns, NEW x, Proper(x)
  PROVE  LET ms == [ns EXCEPT ![i] = x]
         IN  /\ Table(ms) /\ DOMAIN ms = DOMAIN ns /\ ms[i] = x
             /\ \A j \in DOMAIN ns \ {i} : ms[j] = ns[j]
  BY DEF Table

(* What two tables have in common when edges may differ, and links, and    *)
(* parents.                                                                *)
SameEdges(ns, ms) == \A d, n, c : Edge(ms, d, n, c) <=> Edge(ns, d, n, c)
SameKinds(ns, ms) ==
  DOMAIN ms = DOMAIN ns /\ \A j \in DOMAIN ns : ms[j].kind = ns[j].kind
SameLens(ns, ms) == \A j \in DOMAIN ns : ms[j].len = ns[j].len
SameParents(ns, ms) == \A j \in DOMAIN ns : ms[j].parent = ns[j].parent
SameLinks(ns, ms) == \A j \in DOMAIN ns : ms[j].nlink = ns[j].nlink

(* Setting a link count.                                                   *)
LEMMA SetLinks ==
  ASSUME NEW ns, Table(ns), NEW i \in DOMAIN ns, NEW v \in Nat,
         ns[i].kind # "dir" => v >= 1
  PROVE  LET ms == [ns EXCEPT ![i].nlink = v]
         IN  /\ Table(ms) /\ SameKinds(ns, ms) /\ SameEdges(ns, ms)
             /\ SameLens(ns, ms) /\ SameParents(ns, ms)
             /\ ms[i].nlink = v /\ \A j \in DOMAIN ns \ {i} : ms[j].nlink = ns[j].nlink
<1> DEFINE x  == [ns[i] EXCEPT !.nlink = v]
           ms == [ns EXCEPT ![i] = x]
<1>1. Proper(ns[i])
  BY DEF Table
<1>2. /\ Proper(x) /\ x.kind = ns[i].kind /\ x.nlink = v /\ x.len = ns[i].len
      /\ x.parent = ns[i].parent /\ x.entries = ns[i].entries
  BY <1>1, WithLinks, Zenon
<1> HIDE DEF x
<1>3. /\ Table(ms) /\ DOMAIN ms = DOMAIN ns /\ ms[i] = x
      /\ \A j \in DOMAIN ns \ {i} : ms[j] = ns[j]
  BY <1>2, Replaced, Zenon
<1>4. [ns EXCEPT ![i].nlink = v] = ms
  BY DEF x
<1> HIDE DEF ms
<1> QED
  BY <1>2, <1>3, <1>4 DEF SameKinds, SameEdges, SameLens, SameParents, Edge

(* Setting the length of a file or symlink.                                *)
LEMMA SetLen ==
  ASSUME NEW ns, Table(ns), NEW i, IsLeaf(ns, i), NEW v \in Nat
  PROVE  LET ms == [ns EXCEPT ![i].len = v]
         IN  /\ Table(ms) /\ SameKinds(ns, ms) /\ SameEdges(ns, ms)
             /\ SameLinks(ns, ms) /\ SameParents(ns, ms)
             /\ ms[i].len = v /\ \A j \in DOMAIN ns \ {i} : ms[j].len = ns[j].len
<1> DEFINE x  == [ns[i] EXCEPT !.len = v]
           ms == [ns EXCEPT ![i] = x]
<1>1. i \in DOMAIN ns /\ Proper(ns[i]) /\ ns[i].kind # "dir"
  BY DEF Table, IsLeaf
<1>2. /\ Proper(x) /\ x.kind = ns[i].kind /\ x.nlink = ns[i].nlink /\ x.len = v
      /\ x.parent = ns[i].parent /\ x.entries = ns[i].entries
  BY <1>1, WithLen, Zenon
<1> HIDE DEF x
<1>3. /\ Table(ms) /\ DOMAIN ms = DOMAIN ns /\ ms[i] = x
      /\ \A j \in DOMAIN ns \ {i} : ms[j] = ns[j]
  BY <1>1, <1>2, Replaced, Zenon
<1>4. [ns EXCEPT ![i].len = v] = ms
  BY DEF x
<1> HIDE DEF ms
<1> QED
  BY <1>1, <1>2, <1>3, <1>4 DEF SameKinds, SameEdges, SameLinks, SameParents, Edge

(* Setting the parent of a directory.                                      *)
LEMMA SetParent ==
  ASSUME NEW ns, Table(ns), NEW i, IsDir(ns, i), NEW v \in Nat
  PROVE  LET ms == [ns EXCEPT ![i].parent = v]
         IN  /\ Table(ms) /\ SameKinds(ns, ms) /\ SameEdges(ns, ms)
             /\ SameLinks(ns, ms) /\ SameLens(ns, ms)
             /\ ms[i].parent = v /\ \A j \in DOMAIN ns \ {i} : ms[j].parent = ns[j].parent
<1> DEFINE x  == [ns[i] EXCEPT !.parent = v]
           ms == [ns EXCEPT ![i] = x]
<1>1. i \in DOMAIN ns /\ Proper(ns[i]) /\ ns[i].kind = "dir"
  BY DEF Table, IsDir
<1>2. /\ Proper(x) /\ x.kind = ns[i].kind /\ x.nlink = ns[i].nlink /\ x.len = ns[i].len
      /\ x.parent = v /\ x.entries = ns[i].entries
  BY <1>1, WithParent, Zenon
<1> HIDE DEF x
<1>3. /\ Table(ms) /\ DOMAIN ms = DOMAIN ns /\ ms[i] = x
      /\ \A j \in DOMAIN ns \ {i} : ms[j] = ns[j]
  BY <1>1, <1>2, Replaced, Zenon
<1>4. [ns EXCEPT ![i].parent = v] = ms
  BY DEF x
<1> HIDE DEF ms
<1> QED
  BY <1>1, <1>2, <1>3, <1>4 DEF SameKinds, SameEdges, SameLinks, SameLens, Edge

(* Adding an entry: one more edge.                                         *)
LEMMA Inserted ==
  ASSUME NEW ns, Table(ns), NEW p, NEW n \in Names, Vacant(ns, p, n), NEW i \in Nat
  PROVE  LET ms == InsertEntry(ns, p, n, i)
         IN  /\ Table(ms) /\ SameKinds(ns, ms) /\ SameLinks(ns, ms)
             /\ SameLens(ns, ms) /\ SameParents(ns, ms)
             /\ \A d, m, c : Edge(ms, d, m, c) <=> \/ Edge(ns, d, m, c)
                                                   \/ d = p /\ m = n /\ c = i
<1> DEFINE e  == [m \in DOMAIN ns[p].entries \cup {n} |-> IF m = n THEN i ELSE ns[p].entries[m]]
           x  == [ns[p] EXCEPT !.entries = e]
           ms == [ns EXCEPT ![p] = x]
<1>1. p \in DOMAIN ns /\ Proper(ns[p]) /\ ns[p].kind = "dir" /\ n \notin DOMAIN ns[p].entries
  BY DEF Table, IsDir, Vacant
<1>2. ns[p].entries \in EntryMap
  BY <1>1 DEF Proper, Inode
<1>3. e \in EntryMap
  <2>1. IsFiniteSet(DOMAIN ns[p].entries \cup {n})
    BY <1>2, EntryMapIs, FS_AddElement
  <2> QED BY <1>2, <2>1, EntryMapIs
<1>4. /\ DOMAIN e = DOMAIN ns[p].entries \cup {n} /\ e[n] = i
      /\ \A m \in DOMAIN ns[p].entries : e[m] = ns[p].entries[m]
  BY <1>1
<1> HIDE DEF e
<1>5. /\ Proper(x) /\ x.kind = ns[p].kind /\ x.nlink = ns[p].nlink /\ x.len = ns[p].len
      /\ x.parent = ns[p].parent /\ x.entries = e
  BY <1>1, <1>3, WithEntries, Zenon
<1>6. InsertEntry(ns, p, n, i) = ms
  BY <1>1 DEF InsertEntry, e
<1> HIDE DEF x
<1>7. /\ Table(ms) /\ DOMAIN ms = DOMAIN ns /\ ms[p] = x
      /\ \A j \in DOMAIN ns \ {p} : ms[j] = ns[j]
  BY <1>1, <1>5, Replaced, Zenon
<1> HIDE DEF ms
<1>8. \A d, m, c : Edge(ms, d, m, c) <=> \/ Edge(ns, d, m, c)
                                         \/ d = p /\ m = n /\ c = i
  BY <1>1, <1>4, <1>5, <1>7 DEF Edge
<1> QED
  BY <1>1, <1>5, <1>6, <1>7, <1>8 DEF SameKinds, SameLens, SameLinks, SameParents

(* Removing an entry: one edge less.                                       *)
LEMMA Removed ==
  ASSUME NEW ns, Table(ns), NEW p, IsDir(ns, p), NEW n
  PROVE  LET ms == RemoveEntry(ns, p, n)
         IN  /\ Table(ms) /\ SameKinds(ns, ms) /\ SameLinks(ns, ms)
             /\ SameLens(ns, ms) /\ SameParents(ns, ms)
             /\ \A d, m, c : Edge(ms, d, m, c) <=> Edge(ns, d, m, c) /\ ~(d = p /\ m = n)
<1> DEFINE e  == [m \in DOMAIN ns[p].entries \ {n} |-> ns[p].entries[m]]
           x  == [ns[p] EXCEPT !.entries = e]
           ms == [ns EXCEPT ![p] = x]
<1>1. p \in DOMAIN ns /\ Proper(ns[p]) /\ ns[p].kind = "dir"
  BY DEF Table, IsDir
<1>2. ns[p].entries \in EntryMap
  BY <1>1 DEF Proper, Inode
<1>3. e \in EntryMap
  <2>1. IsFiniteSet(DOMAIN ns[p].entries \ {n})
    BY <1>2, EntryMapIs, FS_RemoveElement
  <2> QED BY <1>2, <2>1, EntryMapIs
<1>4. /\ DOMAIN e = DOMAIN ns[p].entries \ {n}
      /\ \A m \in DOMAIN ns[p].entries \ {n} : e[m] = ns[p].entries[m]
  BY <1>1
<1> HIDE DEF e
<1>5. /\ Proper(x) /\ x.kind = ns[p].kind /\ x.nlink = ns[p].nlink /\ x.len = ns[p].len
      /\ x.parent = ns[p].parent /\ x.entries = e
  BY <1>1, <1>3, WithEntries, Zenon
<1>6. RemoveEntry(ns, p, n) = ms
  BY <1>1 DEF RemoveEntry, e
<1> HIDE DEF x
<1>7. /\ Table(ms) /\ DOMAIN ms = DOMAIN ns /\ ms[p] = x
      /\ \A j \in DOMAIN ns \ {p} : ms[j] = ns[j]
  BY <1>1, <1>5, Replaced, Zenon
<1> HIDE DEF ms
<1>8. \A d, m, c : Edge(ms, d, m, c) <=> Edge(ns, d, m, c) /\ ~(d = p /\ m = n)
  BY <1>1, <1>4, <1>5, <1>7 DEF Edge
<1> QED
  BY <1>1, <1>5, <1>6, <1>7, <1>8 DEF SameKinds, SameLens, SameLinks, SameParents

(* A new inode without entries: no new edge.                               *)
LEMMA NodeInserted ==
  ASSUME NEW ns, Table(ns), NEW i, i \notin DOMAIN ns, NEW node, Proper(node),
         node.entries = NoNames
  PROVE  LET ms == InsertNode(ns, i, node)
         IN  /\ Table(ms) /\ DOMAIN ms = DOMAIN ns \cup {i} /\ ms[i] = node
             /\ \A j \in DOMAIN ns : ms[j] = ns[j]
             /\ SameEdges(ns, ms)
<1> DEFINE ms == InsertNode(ns, i, node)
<1>1. /\ Table(ms) /\ DOMAIN ms = DOMAIN ns \cup {i} /\ ms[i] = node
      /\ \A j \in DOMAIN ns : ms[j] = ns[j]
  BY DEF Table, InsertNode
<1> HIDE DEF ms
<1>2. SameEdges(ns, ms)
  BY <1>1, NoNamesIs DEF SameEdges, Edge
<1> QED
  BY <1>1, <1>2 DEF ms

(* An inode without entries goes: no edge goes with it.                    *)
LEMMA NodeRemoved ==
  ASSUME NEW ns, Table(ns), NEW i, \A n, c : ~Edge(ns, i, n, c)
  PROVE  LET ms == RemoveNode(ns, i)
         IN  /\ Table(ms) /\ DOMAIN ms = DOMAIN ns \ {i}
             /\ \A j \in DOMAIN ns \ {i} : ms[j] = ns[j]
             /\ SameEdges(ns, ms)
<1> DEFINE ms == RemoveNode(ns, i)
<1>1. /\ Table(ms) /\ DOMAIN ms = DOMAIN ns \ {i}
      /\ \A j \in DOMAIN ns \ {i} : ms[j] = ns[j]
  BY DEF Table, RemoveNode
<1> HIDE DEF ms
<1>2. SameEdges(ns, ms)
  BY <1>1 DEF SameEdges, Edge
<1> QED
  BY <1>1, <1>2 DEF ms

-----------------------------------------------------------------------------
(* What the changes do to the tree. *)

(* Everything the tree depends on.                                         *)
SameTree(ns, ms) == SameKinds(ns, ms) /\ SameParents(ns, ms) /\ SameEdges(ns, ms)

(* Where kinds agree, so do the directories and the files.                 *)
LEMMA KindsAgree ==
  ASSUME NEW ns, NEW ms, SameKinds(ns, ms)
  PROVE  /\ \A i : IsDir(ms, i) <=> IsDir(ns, i)
         /\ \A i : IsLeaf(ms, i) <=> IsLeaf(ns, i)
  BY DEF SameKinds, IsDir, IsLeaf

(* The shape hangs on the entries, kinds and parents only.                 *)
LEMMA ShapeSame ==
  ASSUME NEW ns, NEW ms, Shape(ns), SameTree(ns, ms)
  PROVE  Shape(ms)
<1>1. /\ \A i : IsDir(ms, i) <=> IsDir(ns, i)
      /\ \A i : IsDir(ns, i) => ms[i].parent = ns[i].parent
      /\ \A d, n, c : Edge(ms, d, n, c) <=> Edge(ns, d, n, c)
      /\ DOMAIN ms = DOMAIN ns
  BY KindsAgree DEF SameTree, SameKinds, SameParents, SameEdges, IsDir
<1>2. RootDir(ms)
  BY <1>1 DEF Shape, RootDir
<1>3. EdgesDown(ms)
  BY <1>1 DEF Shape, EdgesDown
<1>4. ParentsTrue(ms)
  BY <1>1 DEF Shape, ParentsTrue
<1>5. OneName(ms)
  BY <1>1 DEF Shape, OneName
<1>6. Named(ms)
  BY <1>1 DEF Shape, Named
<1>7. Rooted(ms)
  <2> SUFFICES ASSUME NEW C, C # {}, UpClosed(ms, C) PROVE Root \in C
    BY DEF Rooted
  <2>1. UpClosed(ns, C)
    BY <1>1 DEF UpClosed
  <2> QED BY <2>1 DEF Shape, Rooted
<1> QED
  BY <1>2, <1>3, <1>4, <1>5, <1>6, <1>7 DEF Shape

(* The parent of a directory is one.                                       *)
LEMMA ParentIsDir ==
  ASSUME NEW ns, Shape(ns), NEW c, IsDir(ns, c)
  PROVE  IsDir(ns, ns[c].parent)
<1>1. CASE c = Root
  BY <1>1 DEF Shape, RootDir
<1>2. CASE c # Root
  BY <1>2 DEF Shape, Named, EdgesDown
<1> QED BY <1>1, <1>2

(* A new inode i below directory p, its only edge.                         *)
LEMMA ShapeGrown ==
  ASSUME NEW ns, NEW ms, Shape(ns), NEW p, NEW n \in Names, NEW i,
         IsDir(ns, p), i \notin DOMAIN ns,
         DOMAIN ms = DOMAIN ns \cup {i},
         \A j \in DOMAIN ns : ms[j].kind = ns[j].kind /\ ms[j].parent = ns[j].parent,
         ms[i].kind = "dir" => ms[i].parent = p,
         \A d, m, c : Edge(ms, d, m, c) <=> Edge(ns, d, m, c) \/ (d = p /\ m = n /\ c = i)
  PROVE  Shape(ms)
<1>1. /\ \A j \in DOMAIN ns : IsDir(ms, j) <=> IsDir(ns, j)
      /\ \A j : IsDir(ns, j) => j \in DOMAIN ns /\ IsDir(ms, j) /\ ms[j].parent = ns[j].parent
      /\ \A j : IsDir(ms, j) => IsDir(ns, j) \/ (j = i /\ ms[i].parent = p)
  BY DEF IsDir
<1>2. /\ \A d, m, c : Edge(ns, d, m, c) => d \in DOMAIN ns /\ d # i /\ c \in DOMAIN ns /\ c # i
      /\ p # i /\ Root # i /\ Root \in DOMAIN ns
  BY DEF Shape, EdgesDown, IsDir, RootDir
<1>3. RootDir(ms)
  BY <1>1 DEF Shape, RootDir
<1>4. EdgesDown(ms)
  BY <1>1, <1>2 DEF Shape, EdgesDown
<1>5. ParentsTrue(ms)
  BY <1>1, <1>2 DEF Shape, ParentsTrue
<1>6. OneName(ms)
  BY <1>1, <1>2 DEF Shape, OneName
<1>7. Named(ms)
  <2> SUFFICES ASSUME NEW c, IsDir(ms, c), c # Root PROVE \E m : Edge(ms, ms[c].parent, m, c)
    BY DEF Named
  <2>1. CASE c = i
    BY <1>1, <2>1, <1>2 DEF IsDir
  <2>2. CASE IsDir(ns, c)
    BY <1>1, <2>2 DEF Shape, Named
  <2> QED BY <1>1, <2>1, <2>2
<1>8. Rooted(ms)
  <2> SUFFICES ASSUME NEW C, C # {}, UpClosed(ms, C) PROVE Root \in C
    BY DEF Rooted
  <2>1. C \ {i} # {}
    BY <1>1, <1>2 DEF UpClosed
  <2>2. UpClosed(ns, C \ {i})
    <3> SUFFICES ASSUME NEW c \in C \ {i}
                 PROVE  IsDir(ns, c) /\ ns[c].parent \in C \ {i}
      BY DEF UpClosed
    <3>1. IsDir(ms, c) /\ ms[c].parent \in C
      BY DEF UpClosed
    <3>2. IsDir(ns, c) /\ ms[c].parent = ns[c].parent
      BY <3>1, <1>1
    <3>3. ns[c].parent \in DOMAIN ns
      BY <3>2, ParentIsDir DEF IsDir
    <3> QED BY <3>1, <3>2, <3>3
  <2> QED BY <2>1, <2>2 DEF Shape, Rooted
<1> QED
  BY <1>3, <1>4, <1>5, <1>6, <1>7, <1>8 DEF Shape

(* An entry that moved onto a free name.                                   *)
EdgeMoved(ns, ms, p, n, q, m, i) ==
  \A d, x, c : Edge(ms, d, x, c) <=> \/ Edge(ns, d, x, c) /\ ~(d = p /\ x = n)
                                     \/ d = q /\ x = m /\ c = i

(* Another name for a file or symlink.                                     *)
EdgeAdded(ns, ms, p, n, i) ==
  \A d, m, c : Edge(ms, d, m, c) <=> Edge(ns, d, m, c) \/ (d = p /\ m = n /\ c = i)

(* A further name for a file keeps the shape.                              *)
LEMMA ShapeNamed ==
  ASSUME NEW ns, NEW ms, Shape(ns), NEW p, NEW n, NEW i,
         IsDir(ns, p), IsLeaf(ns, i), SameKinds(ns, ms), SameParents(ns, ms),
         EdgeAdded(ns, ms, p, n, i)
  PROVE  Shape(ms)
<1> USE DEF EdgeAdded
<1>1. /\ \A j : IsDir(ms, j) <=> IsDir(ns, j)
      /\ \A j : IsDir(ns, j) => ms[j].parent = ns[j].parent
      /\ DOMAIN ms = DOMAIN ns
      /\ ~IsDir(ns, i) /\ i \in DOMAIN ns
  BY KindsAgree DEF SameKinds, SameParents, IsDir, IsLeaf
<1>2. RootDir(ms)
  BY <1>1 DEF Shape, RootDir
<1>3. EdgesDown(ms)
  BY <1>1 DEF Shape, EdgesDown, RootDir
<1>4. ParentsTrue(ms)
  BY <1>1 DEF Shape, ParentsTrue
<1>5. OneName(ms)
  BY <1>1 DEF Shape, OneName
<1>6. Named(ms)
  BY <1>1 DEF Shape, Named
<1>7. Rooted(ms)
  <2> SUFFICES ASSUME NEW C, C # {}, UpClosed(ms, C) PROVE Root \in C
    BY DEF Rooted
  <2>1. UpClosed(ns, C)
    BY <1>1 DEF UpClosed
  <2> QED BY <2>1 DEF Shape, Rooted
<1> QED
  BY <1>2, <1>3, <1>4, <1>5, <1>6, <1>7 DEF Shape

(* A name of a file or symlink is dropped.                                 *)
LEMMA ShapeUnnamed ==
  ASSUME NEW ns, NEW ms, Shape(ns), NEW p, NEW n, NEW i,
         Edge(ns, p, n, i), IsLeaf(ns, i), SameKinds(ns, ms), SameParents(ns, ms),
         \A d, m, c : Edge(ms, d, m, c) <=> Edge(ns, d, m, c) /\ ~(d = p /\ m = n)
  PROVE  Shape(ms)
<1>1. /\ \A j : IsDir(ms, j) <=> IsDir(ns, j)
      /\ \A j : IsDir(ns, j) => ms[j].parent = ns[j].parent
      /\ DOMAIN ms = DOMAIN ns
      /\ ~IsDir(ns, i)
  BY KindsAgree DEF SameKinds, SameParents, IsDir, IsLeaf
<1>2. \A c : Edge(ns, p, n, c) => c = i
  BY DEF Edge
<1>3. RootDir(ms)
  BY <1>1 DEF Shape, RootDir
<1>4. EdgesDown(ms)
  BY <1>1 DEF Shape, EdgesDown
<1>5. ParentsTrue(ms)
  BY <1>1 DEF Shape, ParentsTrue
<1>6. OneName(ms)
  BY <1>1 DEF Shape, OneName
<1>7. Named(ms)
  BY <1>1, <1>2 DEF Shape, Named
<1>8. Rooted(ms)
  <2> SUFFICES ASSUME NEW C, C # {}, UpClosed(ms, C) PROVE Root \in C
    BY DEF Rooted
  <2>1. UpClosed(ns, C)
    BY <1>1 DEF UpClosed
  <2> QED BY <2>1 DEF Shape, Rooted
<1> QED
  BY <1>3, <1>4, <1>5, <1>6, <1>7, <1>8 DEF Shape

(* An inode goes with its last name; it has no entries.                    *)
LEMMA ShapeDropped ==
  ASSUME NEW ns, NEW ms, Shape(ns), NEW p, NEW n, NEW i,
         Edge(ns, p, n, i),
         \A m, c : ~Edge(ns, i, m, c),
         \A d, m : Edge(ns, d, m, i) => d = p /\ m = n,
         DOMAIN ms = DOMAIN ns \ {i},
         \A j \in DOMAIN ms : ms[j].kind = ns[j].kind /\ ms[j].parent = ns[j].parent,
         \A d, m, c : Edge(ms, d, m, c) <=> Edge(ns, d, m, c) /\ ~(d = p /\ m = n)
  PROVE  Shape(ms)
<1>1. /\ \A j : IsDir(ms, j) <=> IsDir(ns, j) /\ j # i
      /\ \A j : IsDir(ms, j) => ms[j].parent = ns[j].parent
  BY DEF IsDir
<1>2. \A c : Edge(ns, p, n, c) => c = i
  BY DEF Edge
<1>3. i # Root /\ i \in DOMAIN ns
  BY DEF Shape, EdgesDown
<1>4. RootDir(ms)
  BY <1>1, <1>3 DEF Shape, RootDir
<1>5. EdgesDown(ms)
  <2> SUFFICES ASSUME NEW d, NEW m, NEW c, Edge(ms, d, m, c)
               PROVE  c \in DOMAIN ms \ {Root} /\ IsDir(ms, d)
    BY DEF EdgesDown
  <2>1. Edge(ns, d, m, c) /\ ~(d = p /\ m = n)
    OBVIOUS
  <2>2. c # i /\ d # i
    BY <2>1
  <2> QED BY <1>1, <2>1, <2>2 DEF Shape, EdgesDown
<1>6. ParentsTrue(ms)
  BY <1>1 DEF Shape, ParentsTrue
<1>7. OneName(ms)
  BY <1>1 DEF Shape, OneName
<1>8. Named(ms)
  BY <1>1, <1>2 DEF Shape, Named
<1>9. Rooted(ms)
  <2> SUFFICES ASSUME NEW C, C # {}, UpClosed(ms, C) PROVE Root \in C
    BY DEF Rooted
  <2>1. UpClosed(ns, C)
    BY <1>1 DEF UpClosed
  <2> QED BY <2>1 DEF Shape, Rooted
<1> QED
  BY <1>4, <1>5, <1>6, <1>7, <1>8, <1>9 DEF Shape

(* A directory moves to q, which is not below it: there is a chain of      *)
(* directories A from q up to the root that does not meet it.              *)
LEMMA ShapeMoved ==
  ASSUME NEW ns, NEW ms, Shape(ns), NEW p, NEW n, NEW q, NEW m \in Names, NEW i,
         Edge(ns, p, n, i), IsDir(ns, i), IsDir(ns, q), SameKinds(ns, ms),
         NEW A, q \in A, i \notin A, UpClosed(ns, A),
         ms[i].parent = q,
         \A j \in DOMAIN ns \ {i} : ms[j].parent = ns[j].parent,
         \A d, x, c : Edge(ms, d, x, c) <=> \/ Edge(ns, d, x, c) /\ ~(d = p /\ x = n)
                                            \/ d = q /\ x = m /\ c = i
  PROVE  Shape(ms)
<1>1. /\ \A j : IsDir(ms, j) <=> IsDir(ns, j)
      /\ \A j : IsDir(ns, j) /\ j # i => ms[j].parent = ns[j].parent
      /\ DOMAIN ms = DOMAIN ns
  BY KindsAgree DEF SameKinds, IsDir
<1>2. \A c : Edge(ns, p, n, c) => c = i
  BY DEF Edge
<1>3. i # Root /\ i \in DOMAIN ns
  BY DEF Shape, EdgesDown
<1>4. \A d, x : Edge(ns, d, x, i) => d = p /\ x = n
  BY DEF Shape, ParentsTrue, OneName
<1>5. RootDir(ms)
  BY <1>1, <1>3 DEF Shape, RootDir
<1>6. EdgesDown(ms)
  BY <1>1, <1>3 DEF Shape, EdgesDown
<1>7. ParentsTrue(ms)
  BY <1>1, <1>4 DEF Shape, ParentsTrue
<1>8. OneName(ms)
  BY <1>1, <1>4 DEF Shape, OneName
<1>9. Named(ms)
  <2> SUFFICES ASSUME NEW c, IsDir(ms, c), c # Root PROVE \E x : Edge(ms, ms[c].parent, x, c)
    BY DEF Named
  <2>1. CASE c = i
    BY <2>1
  <2>2. CASE c # i
    BY <1>1, <1>2, <2>2 DEF Shape, Named
  <2> QED BY <2>1, <2>2
<1>10. Rooted(ms)
  <2> SUFFICES ASSUME NEW C, C # {}, UpClosed(ms, C) PROVE Root \in C
    BY DEF Rooted
  <2>1. CASE i \notin C
    <3>1. UpClosed(ns, C)
      BY <1>1, <2>1 DEF UpClosed
    <3> QED BY <3>1 DEF Shape, Rooted
  <2>2. CASE i \in C
    <3>1. q \in C \cap A
      BY <2>2 DEF UpClosed
    <3>2. UpClosed(ns, C \cap A)
      BY <1>1 DEF UpClosed
    <3> QED BY <3>1, <3>2 DEF Shape, Rooted
  <2> QED BY <2>1, <2>2
<1> QED
  BY <1>5, <1>6, <1>7, <1>8, <1>9, <1>10 DEF Shape

-----------------------------------------------------------------------------
(* Names and subdirectories, counted. *)

(* The holders of an inode are its edges.                                  *)
LEMMA HolderIs ==
  ASSUME NEW ns, NEW i, NEW h
  PROVE  h \in Holders(ns, i) <=> \E d, n : h = << d, n >> /\ Edge(ns, d, n, i)
<1>1. ASSUME h \in Holders(ns, i) PROVE \E d, n : h = << d, n >> /\ Edge(ns, d, n, i)
  <2>1. h = << h[1], h[2] >> /\ Edge(ns, h[1], h[2], i)
    BY <1>1 DEF Holders, Edge
  <2> QED BY <2>1
<1>2. ASSUME NEW d, NEW n, h = << d, n >>, Edge(ns, d, n, i) PROVE h \in Holders(ns, i)
  BY <1>2 DEF Holders, Edge
<1> QED BY <1>1, <1>2

(* Where its edges are the same, so are its holders.                       *)
LEMMA HoldersSame ==
  ASSUME NEW ns, NEW ms, NEW i, \A d, n : Edge(ms, d, n, i) <=> Edge(ns, d, n, i)
  PROVE  Holders(ms, i) = Holders(ns, i)
  BY HolderIs

(* One edge more is one holder more.                                       *)
LEMMA HoldersMore ==
  ASSUME NEW ns, NEW ms, NEW i, NEW p, NEW n, IsFiniteSet(Holders(ns, i)),
         ~Edge(ns, p, n, i),
         \A d, m : Edge(ms, d, m, i) <=> Edge(ns, d, m, i) \/ (d = p /\ m = n)
  PROVE  /\ IsFiniteSet(Holders(ms, i))
         /\ Cardinality(Holders(ms, i)) = Cardinality(Holders(ns, i)) + 1
<1>1. \A h : h \in Holders(ms, i) <=> h \in Holders(ns, i) \cup {<< p, n >>}
  BY HolderIs
<1>2. Holders(ms, i) = Holders(ns, i) \cup {<< p, n >>}
  BY <1>1
<1>3. << p, n >> \notin Holders(ns, i)
  BY HolderIs
<1> QED BY <1>2, <1>3, FS_AddElement

(* One edge less is one holder less.                                       *)
LEMMA HoldersLess ==
  ASSUME NEW ns, NEW ms, NEW i, NEW p, NEW n, IsFiniteSet(Holders(ns, i)),
         Edge(ns, p, n, i),
         \A d, m : Edge(ms, d, m, i) <=> Edge(ns, d, m, i) /\ ~(d = p /\ m = n)
  PROVE  /\ IsFiniteSet(Holders(ms, i))
         /\ Cardinality(Holders(ms, i)) = Cardinality(Holders(ns, i)) - 1
         /\ Cardinality(Holders(ns, i)) \in Nat /\ Cardinality(Holders(ns, i)) >= 1
<1>1. \A h : h \in Holders(ms, i) <=> h \in Holders(ns, i) \ {<< p, n >>}
  BY HolderIs
<1>2. Holders(ms, i) = Holders(ns, i) \ {<< p, n >>}
  BY <1>1
<1>3. << p, n >> \in Holders(ns, i)
  BY HolderIs
<1>4. Cardinality(Holders(ns, i)) # 0 /\ Cardinality(Holders(ns, i)) \in Nat
  BY <1>3, FS_EmptySet, FS_CardinalityType
<1> QED BY <1>2, <1>3, <1>4, FS_RemoveElement

(* No edge, no holder.                                                     *)
LEMMA HoldersNone ==
  ASSUME NEW ns, NEW i, \A d, n : ~Edge(ns, d, n, i)
  PROVE  Holders(ns, i) = {} /\ IsFiniteSet(Holders(ns, i)) /\ Cardinality(Holders(ns, i)) = 0
  BY HolderIs, FS_EmptySet

(* With one name left, and one to be dropped, none is.                     *)
LEMMA HoldersLast ==
  ASSUME NEW ns, NEW i, IsFiniteSet(Holders(ns, i)), Cardinality(Holders(ns, i)) <= 1,
         NEW p, NEW n, Edge(ns, p, n, i), NEW d, NEW m, Edge(ns, d, m, i)
  PROVE  d = p /\ m = n
<1>1. << p, n >> \in Holders(ns, i) /\ << d, m >> \in Holders(ns, i)
  BY HolderIs
<1>2. Cardinality(Holders(ns, i)) # 0 /\ Cardinality(Holders(ns, i)) \in Nat
  BY <1>1, FS_EmptySet, FS_CardinalityType
<1>3. Cardinality(Holders(ns, i)) = 1
  BY <1>2
<1>4. PICK x : Holders(ns, i) = {x}
  BY <1>3, FS_Singleton
<1>5. << p, n >> = << d, m >>
  BY <1>1, <1>4
<1> QED BY <1>5

(* The subdirectories are the edges that lead to directories.              *)
LEMMA SubdirIs ==
  ASSUME NEW ns, Table(ns), NEW d, IsDir(ns, d), NEW n
  PROVE  n \in Subdirs(ns, d) <=> \E c : Edge(ns, d, n, c) /\ ns[c].kind = "dir"
<1>1. d \in DOMAIN ns /\ DOMAIN ns[d].entries \subseteq Names
  BY EntryMapIs DEF Table, Proper, Inode, IsDir
<1> QED BY <1>1 DEF Subdirs, Edge

(* Where those are the same, so are the subdirectories.                    *)
LEMMA SubdirsSame ==
  ASSUME NEW ns, NEW ms, Table(ns), Table(ms), NEW d, IsDir(ns, d), IsDir(ms, d),
         \A n, c : Edge(ms, d, n, c) /\ ms[c].kind = "dir" <=> Edge(ns, d, n, c) /\ ns[c].kind = "dir"
  PROVE  Subdirs(ms, d) = Subdirs(ns, d)
<1>1. \A n : n \in Subdirs(ms, d) <=> n \in Subdirs(ns, d)
  BY SubdirIs
<1> QED BY <1>1

(* A directory without subdirectories.                                     *)
LEMMA SubdirsNone ==
  ASSUME NEW ns, Table(ns), NEW d, IsDir(ns, d), \A n, c : ~Edge(ns, d, n, c)
  PROVE  IsFiniteSet(Subdirs(ns, d)) /\ Cardinality(Subdirs(ns, d)) = 0
<1>1. Subdirs(ns, d) = {}
  BY SubdirIs
<1> QED BY <1>1, FS_EmptySet

-----------------------------------------------------------------------------
(* Each operation on a table keeps it a tree with the right counts. *)

Tree(ns) == Table(ns) /\ Shape(ns) /\ DirLinks(ns) /\ LeafLinks(ns)

(* An inode as allocate makes it for an entry of p.                        *)
NewIn(node, p) ==
  /\ Proper(node) /\ node.entries = NoNames
  /\ node.kind = "dir" => node.parent = p /\ node.nlink = 2
  /\ node.kind # "dir" => node.nlink = 1

(* What a new inode under a free name changes of the table.                *)
LEMMA GrownIs ==
  ASSUME NEW ns, Tree(ns), NEW p, NEW n \in Names, Vacant(ns, p, n),
         NEW i \in Nat, i \notin DOMAIN ns, NEW node, NewIn(node, p)
  PROVE  LET ms == Grown(ns, i, node, p, n)
         IN  /\ Table(ms) /\ DOMAIN ms = DOMAIN ns \cup {i}
             /\ ms[i].kind = node.kind /\ ms[i].parent = node.parent
             /\ ms[i].len = node.len /\ ms[i].nlink = node.nlink
             /\ \A j \in DOMAIN ns : /\ ms[j].kind = ns[j].kind /\ ms[j].parent = ns[j].parent
                                     /\ ms[j].len = ns[j].len
             /\ \A j \in DOMAIN ns : j # p => ms[j].nlink = ns[j].nlink
             /\ ms[p].nlink = IF node.kind = "dir" THEN ns[p].nlink + 1 ELSE ns[p].nlink
             /\ EdgeAdded(ns, ms, p, n, i)
<1> DEFINE t1 == InsertNode(ns, i, node)
           t2 == InsertEntry(t1, p, n, i)
           ms == Grown(ns, i, node, p, n)
<1>0. /\ Proper(node) /\ node.entries = NoNames
      /\ node.kind = "dir" => node.parent = p /\ node.nlink = 2
      /\ node.kind # "dir" => node.nlink = 1
  BY DEF NewIn
<1>1. /\ Table(ns) /\ Shape(ns) /\ IsDir(ns, p) /\ p \in DOMAIN ns /\ p # i
      /\ ns[p].kind = "dir" /\ n \notin DOMAIN ns[p].entries
  BY DEF Tree, Vacant, IsDir
<1>2. /\ Table(t1) /\ DOMAIN t1 = DOMAIN ns \cup {i} /\ t1[i] = node
      /\ \A j \in DOMAIN ns : t1[j] = ns[j]
      /\ SameEdges(ns, t1)
  BY <1>0, <1>1, NodeInserted
<1> HIDE DEF t1
<1>3. Vacant(t1, p, n)
  BY <1>1, <1>2 DEF Vacant, IsDir
<1>4. /\ Table(t2) /\ SameKinds(t1, t2) /\ SameLinks(t1, t2)
      /\ SameLens(t1, t2) /\ SameParents(t1, t2)
      /\ \A d, m, c : Edge(t2, d, m, c) <=> Edge(t1, d, m, c) \/ (d = p /\ m = n /\ c = i)
  BY <1>2, <1>3, Inserted
<1>5. ms = IF node.kind = "dir" THEN [t2 EXCEPT ![p].nlink = @ + 1] ELSE t2
  BY Zenon DEF Grown, t1
<1> HIDE DEF t2, ms
<1>6. p \in DOMAIN t2 /\ t2[p].nlink = ns[p].nlink /\ t2[p].nlink \in Nat /\ t2[p].kind = "dir"
  BY <1>1, <1>2, <1>4 DEF SameLinks, SameKinds, Table, Proper, Inode
<1>7. /\ Table(ms) /\ DOMAIN ms = DOMAIN ns \cup {i} /\ SameEdges(t2, ms)
      /\ ms[i].kind = node.kind /\ ms[i].parent = node.parent
      /\ ms[i].len = node.len /\ ms[i].nlink = node.nlink
      /\ \A j \in DOMAIN ns : /\ ms[j].kind = ns[j].kind /\ ms[j].parent = ns[j].parent
                              /\ ms[j].len = ns[j].len
      /\ \A j \in DOMAIN ns : j # p => ms[j].nlink = ns[j].nlink
      /\ ms[p].nlink = IF node.kind = "dir" THEN ns[p].nlink + 1 ELSE ns[p].nlink
  <2> DEFINE t3 == [t2 EXCEPT ![p].nlink = t2[p].nlink + 1]
  <2>1. CASE node.kind # "dir"
    BY <2>1, <1>1, <1>2, <1>4, <1>5 DEF SameKinds, SameLinks, SameLens, SameParents, SameEdges
  <2>2. CASE node.kind = "dir"
    <3>1. ms = t3
      BY <2>2, <1>5
    <3>2. /\ Table(t3) /\ SameKinds(t2, t3) /\ SameEdges(t2, t3)
          /\ SameLens(t2, t3) /\ SameParents(t2, t3)
          /\ t3[p].nlink = t2[p].nlink + 1 /\ \A j \in DOMAIN t2 \ {p} : t3[j].nlink = t2[j].nlink
      <4>1. t2[p].nlink + 1 \in Nat /\ (t2[p].kind # "dir" => t2[p].nlink + 1 >= 1)
        BY <1>6
      <4> QED BY <1>4, <1>6, <4>1, SetLinks
    <3> HIDE DEF t3
    <3> QED BY <2>2, <3>1, <3>2, <1>1, <1>2, <1>4, <1>6
            DEF SameKinds, SameLinks, SameLens, SameParents
  <2> QED BY <2>1, <2>2
<1>8. \A d, m, c : Edge(ms, d, m, c) <=> Edge(ns, d, m, c) \/ (d = p /\ m = n /\ c = i)
  BY <1>2, <1>4, <1>7 DEF SameEdges
<1> QED BY <1>7, <1>8 DEF EdgeAdded, ms

(* A new inode under a free name keeps the tree and its counts.            *)
LEMMA GrownTree ==
  ASSUME NEW ns, Tree(ns), NEW p, NEW n \in Names, Vacant(ns, p, n),
         NEW i \in Nat, i \notin DOMAIN ns, NEW node, NewIn(node, p)
  PROVE  LET ms == Grown(ns, i, node, p, n)
         IN  /\ Tree(ms) /\ DOMAIN ms = DOMAIN ns \cup {i}
             /\ ms[i].len = node.len /\ ms[i].kind = node.kind
             /\ \A j \in DOMAIN ns : ms[j].len = ns[j].len /\ ms[j].kind = ns[j].kind
             /\ Exact(ns) => Exact(ms)
             /\ \A j \in DOMAIN ns : IsLeaf(ns, j) => ms[j].nlink = ns[j].nlink
             /\ node.kind # "dir" => ms[i].nlink = 1
<1> DEFINE ms == Grown(ns, i, node, p, n)
<1>0. /\ Proper(node) /\ node.entries = NoNames
      /\ node.kind = "dir" => node.parent = p /\ node.nlink = 2
      /\ node.kind # "dir" => node.nlink = 1
  BY DEF NewIn
<1>1. /\ Table(ns) /\ Shape(ns) /\ IsDir(ns, p) /\ p \in DOMAIN ns /\ p # i
      /\ ns[p].kind = "dir" /\ n \notin DOMAIN ns[p].entries
  BY DEF Tree, Vacant, IsDir
<1>7. /\ Table(ms) /\ DOMAIN ms = DOMAIN ns \cup {i}
      /\ ms[i].kind = node.kind /\ ms[i].parent = node.parent
      /\ ms[i].len = node.len /\ ms[i].nlink = node.nlink
      /\ \A j \in DOMAIN ns : /\ ms[j].kind = ns[j].kind /\ ms[j].parent = ns[j].parent
                              /\ ms[j].len = ns[j].len
      /\ \A j \in DOMAIN ns : j # p => ms[j].nlink = ns[j].nlink
      /\ ms[p].nlink = IF node.kind = "dir" THEN ns[p].nlink + 1 ELSE ns[p].nlink
      /\ EdgeAdded(ns, ms, p, n, i)
  BY GrownIs
<1> HIDE DEF ms
<1>8. \A d, m, c : Edge(ms, d, m, c) <=> Edge(ns, d, m, c) \/ (d = p /\ m = n /\ c = i)
  BY <1>7 DEF EdgeAdded
<1>9. Shape(ms)
  BY <1>0, <1>1, <1>7, <1>8, ShapeGrown
<1>10. /\ \A d, m, c : Edge(ns, d, m, c) => d \in DOMAIN ns /\ d # i /\ c \in DOMAIN ns /\ c # i
       /\ \A c : ~Edge(ns, p, n, c)
  BY <1>1 DEF Shape, EdgesDown, IsDir, Edge
<1>11. /\ \A j \in DOMAIN ns : IsDir(ms, j) <=> IsDir(ns, j)
       /\ \A j \in DOMAIN ns : IsLeaf(ms, j) <=> IsLeaf(ns, j)
       /\ \A j : IsDir(ms, j) \/ IsLeaf(ms, j) => j \in DOMAIN ns \/ j = i
  BY <1>7 DEF IsDir, IsLeaf
<1>12. DirLinks(ms)
  <2> SUFFICES ASSUME NEW d, IsDir(ms, d)
               PROVE  /\ IsFiniteSet(Subdirs(ms, d))
                      /\ ms[d].nlink = 2 + Cardinality(Subdirs(ms, d))
    BY DEF DirLinks
  <2>1. CASE d = i
    <3>1. \A m, c : ~Edge(ms, d, m, c)
      BY <2>1, <1>1, <1>8, <1>10
    <3>2. IsFiniteSet(Subdirs(ms, d)) /\ Cardinality(Subdirs(ms, d)) = 0
      BY <3>1, <1>7, SubdirsNone
    <3> QED BY <3>2, <2>1, <1>0, <1>7 DEF IsDir
  <2>2. CASE d # i /\ ~(d = p /\ node.kind = "dir")
    <3>1. IsDir(ns, d)
      BY <2>2, <1>11
    <3>2. \A m, c : Edge(ms, d, m, c) /\ ms[c].kind = "dir" <=> Edge(ns, d, m, c) /\ ns[c].kind = "dir"
      BY <2>2, <1>7, <1>8, <1>10
    <3>3. Subdirs(ms, d) = Subdirs(ns, d)
      BY <3>1, <3>2, <1>1, <1>7, SubdirsSame
    <3> QED BY <2>2, <3>1, <3>3, <1>7 DEF Tree, DirLinks, IsDir
  <2>3. CASE d = p /\ node.kind = "dir"
    <3>1. \A m, c : Edge(ms, p, m, c) /\ ms[c].kind = "dir" <=>
                      (Edge(ns, p, m, c) /\ ns[c].kind = "dir") \/ (m = n /\ c = i)
      BY <2>3, <1>7, <1>8, <1>10
    <3>2. IsFiniteSet(Subdirs(ns, p)) /\ ns[p].nlink = 2 + Cardinality(Subdirs(ns, p))
      BY <1>1 DEF Tree, DirLinks
    <3>3. \A m : m \in Subdirs(ms, p) <=> m \in Subdirs(ns, p) \cup {n}
      BY <3>1, <2>3, <1>1, <1>7, SubdirIs
    <3>4. Subdirs(ms, p) = Subdirs(ns, p) \cup {n} /\ n \notin Subdirs(ns, p)
      BY <3>3, <1>1, <1>10, SubdirIs
    <3>5. /\ IsFiniteSet(Subdirs(ms, p))
          /\ Cardinality(Subdirs(ms, p)) = Cardinality(Subdirs(ns, p)) + 1
      BY <3>2, <3>4, FS_AddElement
    <3>6. Cardinality(Subdirs(ns, p)) \in Nat
      BY <3>2, FS_CardinalityType
    <3> QED BY <2>3, <3>2, <3>5, <3>6, <1>7
  <2> QED BY <2>1, <2>2, <2>3
<1>13. ASSUME NEW j, IsLeaf(ms, j), j # i
       PROVE  Holders(ms, j) = Holders(ns, j) /\ IsLeaf(ns, j) /\ ms[j].nlink = ns[j].nlink
  <2>1. j \in DOMAIN ns /\ IsLeaf(ns, j) /\ j # p
    BY <1>13, <1>11, <1>1 DEF IsLeaf, IsDir
  <2>2. Holders(ms, j) = Holders(ns, j)
    BY <1>8, <1>13, HoldersSame
  <2> QED BY <2>1, <2>2, <1>7
<1>14. ASSUME IsLeaf(ms, i)
       PROVE  IsFiniteSet(Holders(ms, i)) /\ Cardinality(Holders(ms, i)) = 1 /\ ms[i].nlink = 1
  <2>1. \A d, m : ~Edge(ns, d, m, i)
    BY <1>10
  <2>2. IsFiniteSet(Holders(ns, i)) /\ Cardinality(Holders(ns, i)) = 0
    BY <2>1, HoldersNone
  <2>3. IsFiniteSet(Holders(ms, i)) /\ Cardinality(Holders(ms, i)) = Cardinality(Holders(ns, i)) + 1
    <3>1. /\ ~Edge(ns, p, n, i)
          /\ \A d, m : Edge(ms, d, m, i) <=> Edge(ns, d, m, i) \/ (d = p /\ m = n)
      BY <2>1, <1>8
    <3> QED BY <2>2, <3>1, HoldersMore, Zenon
  <2> QED BY <2>2, <2>3, <1>0, <1>7, <1>14 DEF IsLeaf
<1>15. LeafLinks(ms)
  BY <1>13, <1>14 DEF LeafLinks, Tree
<1>16. Exact(ns) => Exact(ms)
  BY <1>13, <1>14 DEF Exact
<1>17. \A j \in DOMAIN ns : IsLeaf(ns, j) => ms[j].nlink = ns[j].nlink
  BY <1>1, <1>7 DEF IsLeaf
<1> QED
  BY <1>0, <1>7, <1>9, <1>12, <1>15, <1>16, <1>17 DEF Tree, ms

(* A table in which only lengths differ.                                   *)
LEMMA ResizedTree ==
  ASSUME NEW ns, Tree(ns), NEW i, IsLeaf(ns, i), NEW v \in Nat
  PROVE  LET ms == [ns EXCEPT ![i].len = v]
         IN  /\ Tree(ms) /\ SameKinds(ns, ms) /\ SameLinks(ns, ms)
             /\ ms[i].len = v /\ \A j \in DOMAIN ns \ {i} : ms[j].len = ns[j].len
             /\ Exact(ns) => Exact(ms)
<1> DEFINE ms == [ns EXCEPT ![i].len = v]
<1>1. Table(ns) /\ Shape(ns)
  BY DEF Tree
<1>2. /\ Table(ms) /\ SameKinds(ns, ms) /\ SameEdges(ns, ms)
      /\ SameLinks(ns, ms) /\ SameParents(ns, ms)
      /\ ms[i].len = v /\ \A j \in DOMAIN ns \ {i} : ms[j].len = ns[j].len
  BY <1>1, SetLen
<1> HIDE DEF ms
<1>3. Shape(ms)
  BY <1>1, <1>2, ShapeSame DEF SameTree
<1>4. ASSUME NEW d, IsDir(ms, d) PROVE Subdirs(ms, d) = Subdirs(ns, d) /\ IsDir(ns, d) /\ ms[d].nlink = ns[d].nlink
  <2>1. IsDir(ns, d) /\ ms[d].nlink = ns[d].nlink
    BY <1>4, <1>2, KindsAgree DEF SameLinks, IsDir
  <2>2. \A n, c : Edge(ns, d, n, c) => c \in DOMAIN ns
    BY <1>1 DEF Shape, EdgesDown
  <2>3. \A n, c : Edge(ms, d, n, c) /\ ms[c].kind = "dir" <=> Edge(ns, d, n, c) /\ ns[c].kind = "dir"
    BY <1>2, <2>2 DEF SameEdges, SameKinds
  <2> QED BY <1>1, <1>2, <1>4, <2>1, <2>3, SubdirsSame
<1>5. DirLinks(ms)
  BY <1>4 DEF DirLinks, Tree
<1>6. ASSUME NEW j, IsLeaf(ms, j) PROVE Holders(ms, j) = Holders(ns, j) /\ IsLeaf(ns, j) /\ ms[j].nlink = ns[j].nlink
  <2>1. IsLeaf(ns, j) /\ ms[j].nlink = ns[j].nlink
    BY <1>6, <1>2, KindsAgree DEF SameLinks, IsLeaf
  <2>2. \A d, n : Edge(ms, d, n, j) <=> Edge(ns, d, n, j)
    BY <1>2 DEF SameEdges
  <2> QED BY <2>1, <2>2, HoldersSame
<1>7. LeafLinks(ms) /\ (Exact(ns) => Exact(ms))
  BY <1>6 DEF LeafLinks, Tree, Exact
<1> QED
  BY <1>2, <1>3, <1>5, <1>7 DEF Tree, ms

(* Another name for a file or symlink, counted in its links.               *)
LEMMA LinkedTree ==
  ASSUME NEW ns, Tree(ns), NEW p, NEW n \in Names, Vacant(ns, p, n),
         NEW i \in Nat, IsLeaf(ns, i)
  PROVE  LET ms == [InsertEntry(ns, p, n, i) EXCEPT ![i].nlink = @ + 1]
         IN  Tree(ms) /\ SameKinds(ns, ms) /\ SameLens(ns, ms) /\ (Exact(ns) => Exact(ms))
<1> DEFINE t1 == InsertEntry(ns, p, n, i)
           ms == [t1 EXCEPT ![i].nlink = t1[i].nlink + 1]
<1>1. /\ Table(ns) /\ Shape(ns) /\ IsDir(ns, p) /\ i \in DOMAIN ns /\ ns[i].kind # "dir"
      /\ n \notin DOMAIN ns[p].entries
  BY DEF Tree, Vacant, IsLeaf
<1>2. /\ Table(t1) /\ SameKinds(ns, t1) /\ SameLinks(ns, t1)
      /\ SameLens(ns, t1) /\ SameParents(ns, t1)
      /\ \A d, m, c : Edge(t1, d, m, c) <=> Edge(ns, d, m, c) \/ (d = p /\ m = n /\ c = i)
  BY <1>1, Inserted
<1> HIDE DEF t1
<1>3. i \in DOMAIN t1 /\ t1[i].nlink = ns[i].nlink /\ t1[i].nlink \in Nat
  BY <1>1, <1>2 DEF SameKinds, SameLinks, Table, Proper, Inode
<1>4. /\ Table(ms) /\ SameKinds(t1, ms) /\ SameEdges(t1, ms)
      /\ SameLens(t1, ms) /\ SameParents(t1, ms)
      /\ ms[i].nlink = t1[i].nlink + 1 /\ \A j \in DOMAIN t1 \ {i} : ms[j].nlink = t1[j].nlink
  <2>1. t1[i].nlink + 1 \in Nat /\ t1[i].nlink + 1 >= 1
    BY <1>3
  <2> QED BY <1>2, <1>3, <2>1, SetLinks, Zenon
<1> HIDE DEF ms
<1>5. /\ SameKinds(ns, ms) /\ SameLens(ns, ms) /\ SameParents(ns, ms)
      /\ ms[i].nlink = ns[i].nlink + 1 /\ \A j \in DOMAIN ns \ {i} : ms[j].nlink = ns[j].nlink
      /\ \A d, m, c : Edge(ms, d, m, c) <=> Edge(ns, d, m, c) \/ (d = p /\ m = n /\ c = i)
  BY <1>1, <1>2, <1>3, <1>4 DEF SameKinds, SameLens, SameLinks, SameParents, SameEdges
<1>6. Shape(ms)
  BY <1>1, <1>5, ShapeNamed DEF EdgeAdded
<1>7. ASSUME NEW d, IsDir(ms, d) PROVE Subdirs(ms, d) = Subdirs(ns, d) /\ IsDir(ns, d) /\ ms[d].nlink = ns[d].nlink
  <2>1. IsDir(ns, d) /\ ms[d].nlink = ns[d].nlink
    BY <1>7, <1>1, <1>5, KindsAgree DEF IsDir
  <2>2. \A m, c : Edge(ns, d, m, c) => c \in DOMAIN ns
    BY <1>1 DEF Shape, EdgesDown
  <2>3. \A m, c : Edge(ms, d, m, c) /\ ms[c].kind = "dir" <=> Edge(ns, d, m, c) /\ ns[c].kind = "dir"
    BY <1>1, <1>5, <2>2 DEF SameKinds
  <2> QED BY <1>1, <1>4, <1>7, <2>1, <2>3, SubdirsSame
<1>8. DirLinks(ms)
  BY <1>7 DEF DirLinks, Tree
<1>9. ASSUME NEW j, IsLeaf(ms, j), j # i
      PROVE  Holders(ms, j) = Holders(ns, j) /\ IsLeaf(ns, j) /\ ms[j].nlink = ns[j].nlink
  <2>1. IsLeaf(ns, j) /\ ms[j].nlink = ns[j].nlink
    BY <1>9, <1>5, KindsAgree DEF IsLeaf
  <2>2. \A d, m : Edge(ms, d, m, j) <=> Edge(ns, d, m, j)
    BY <1>5, <1>9
  <2> QED BY <2>1, <2>2, HoldersSame
<1>10. /\ IsFiniteSet(Holders(ms, i)) /\ ms[i].nlink >= Cardinality(Holders(ms, i))
       /\ ns[i].nlink = Cardinality(Holders(ns, i)) => ms[i].nlink = Cardinality(Holders(ms, i))
  <2>1. IsFiniteSet(Holders(ns, i)) /\ ns[i].nlink >= Cardinality(Holders(ns, i))
    BY DEF Tree, LeafLinks
  <2>2. ~Edge(ns, p, n, i) /\ \A d, m : Edge(ms, d, m, i) <=> Edge(ns, d, m, i) \/ (d = p /\ m = n)
    <3>1. ~Edge(ns, p, n, i)
      BY <1>1 DEF Edge
    <3> QED BY <1>5, <3>1
  <2>3. /\ IsFiniteSet(Holders(ms, i))
        /\ Cardinality(Holders(ms, i)) = Cardinality(Holders(ns, i)) + 1
    BY <2>1, <2>2, HoldersMore
  <2>4. Cardinality(Holders(ns, i)) \in Nat /\ ns[i].nlink \in Nat
    BY <2>1, <1>3, FS_CardinalityType
  <2> QED BY <2>1, <2>3, <2>4, <1>5
<1>11. LeafLinks(ms)
  BY <1>9, <1>10 DEF LeafLinks, Tree
<1>12. Exact(ns) => Exact(ms)
  BY <1>9, <1>10 DEF Exact
<1>13. [InsertEntry(ns, p, n, i) EXCEPT ![i].nlink = @ + 1] = ms
  BY Zenon DEF ms, t1
<1> QED
  BY <1>4, <1>5, <1>6, <1>8, <1>11, <1>12, <1>13 DEF Tree

(* An entry that names a file or symlink goes, its links may stay or be    *)
(* one less, but not less than its names.                                  *)
LEMMA UnnamedTree ==
  ASSUME NEW ns, Tree(ns), NEW p, NEW n, NEW i, Edge(ns, p, n, i), IsLeaf(ns, i),
         NEW ms, Table(ms), SameKinds(ns, ms), SameParents(ns, ms),
         \A d, m, c : Edge(ms, d, m, c) <=> Edge(ns, d, m, c) /\ ~(d = p /\ m = n),
         ms[i].nlink \in {ns[i].nlink, ns[i].nlink - 1},
         \A j \in DOMAIN ns \ {i} : ms[j].nlink = ns[j].nlink
  PROVE  /\ Tree(ms)
         /\ Exact(ns) /\ ms[i].nlink = ns[i].nlink - 1 => Exact(ms)
         /\ Exact(ns) => \A j : IsLeaf(ms, j) /\ j # i => ms[j].nlink = Cardinality(Holders(ms, j))
         /\ IsFiniteSet(Holders(ms, i))
         /\ Cardinality(Holders(ms, i)) = Cardinality(Holders(ns, i)) - 1
         /\ Cardinality(Holders(ns, i)) \in Nat
<1>1. /\ Table(ns) /\ Shape(ns) /\ i \in DOMAIN ns /\ ns[i].kind # "dir" /\ ns[i].nlink \in Nat
      /\ \A c : Edge(ns, p, n, c) => c = i
  BY DEF Tree, IsLeaf, Table, Proper, Inode, Edge
<1>2. Shape(ms)
  BY <1>1, ShapeUnnamed
<1>3. ASSUME NEW d, IsDir(ms, d) PROVE Subdirs(ms, d) = Subdirs(ns, d) /\ IsDir(ns, d) /\ ms[d].nlink = ns[d].nlink
  <2>1. IsDir(ns, d) /\ ms[d].nlink = ns[d].nlink
    BY <1>3, <1>1, KindsAgree DEF IsDir
  <2>2. \A m, c : Edge(ns, d, m, c) => c \in DOMAIN ns
    BY <1>1 DEF Shape, EdgesDown
  <2>3. \A m, c : Edge(ms, d, m, c) /\ ms[c].kind = "dir" <=> Edge(ns, d, m, c) /\ ns[c].kind = "dir"
    BY <1>1, <2>2 DEF SameKinds
  <2> QED BY <1>1, <1>3, <2>1, <2>3, SubdirsSame
<1>4. DirLinks(ms)
  BY <1>3 DEF DirLinks, Tree
<1>5. ASSUME NEW j, IsLeaf(ms, j), j # i
      PROVE  Holders(ms, j) = Holders(ns, j) /\ IsLeaf(ns, j) /\ ms[j].nlink = ns[j].nlink
  <2>1. IsLeaf(ns, j) /\ ms[j].nlink = ns[j].nlink
    BY <1>5, KindsAgree DEF IsLeaf
  <2>2. \A d, m : Edge(ms, d, m, j) <=> Edge(ns, d, m, j)
    BY <1>1, <1>5
  <2> QED BY <2>1, <2>2, HoldersSame
<1>6. IsFiniteSet(Holders(ns, i)) /\ ns[i].nlink >= Cardinality(Holders(ns, i))
  BY DEF Tree, LeafLinks
<1>7. /\ IsFiniteSet(Holders(ms, i))
      /\ Cardinality(Holders(ms, i)) = Cardinality(Holders(ns, i)) - 1
      /\ Cardinality(Holders(ns, i)) \in Nat
  <2>1. \A d, m : Edge(ms, d, m, i) <=> Edge(ns, d, m, i) /\ ~(d = p /\ m = n)
    OBVIOUS
  <2> QED BY <1>6, <2>1, HoldersLess
<1>8. /\ ms[i].nlink >= Cardinality(Holders(ms, i))
      /\ ns[i].nlink = Cardinality(Holders(ns, i)) /\ ms[i].nlink = ns[i].nlink - 1
            => ms[i].nlink = Cardinality(Holders(ms, i))
  BY <1>1, <1>6, <1>7
<1>9. LeafLinks(ms)
  BY <1>5, <1>7, <1>8 DEF LeafLinks, Tree
<1>10. Exact(ns) => \A j : IsLeaf(ms, j) /\ j # i => ms[j].nlink = Cardinality(Holders(ms, j))
  BY <1>5 DEF Exact
<1>11. Exact(ns) /\ ms[i].nlink = ns[i].nlink - 1 => Exact(ms)
  BY <1>8, <1>10 DEF Exact
<1> QED
  BY <1>2, <1>4, <1>7, <1>9, <1>10, <1>11 DEF Tree

(* An inode goes with its last name.  A directory is empty and its parent  *)
(* counts one subdirectory less.                                           *)
Dropped(ns, ms, p, n, i) ==
  /\ Edge(ns, p, n, i)
  /\ \A m, c : ~Edge(ns, i, m, c)
  /\ \A d, m : Edge(ns, d, m, i) => d = p /\ m = n
  /\ DOMAIN ms = DOMAIN ns \ {i}
  /\ \A j \in DOMAIN ms : ms[j].kind = ns[j].kind /\ ms[j].parent = ns[j].parent
  /\ \A j \in DOMAIN ms \ {p} : ms[j].nlink = ns[j].nlink
  /\ ms[p].nlink = IF ns[i].kind = "dir" THEN ns[p].nlink - 1 ELSE ns[p].nlink
  /\ \A d, m, c : Edge(ms, d, m, c) <=> Edge(ns, d, m, c) /\ ~(d = p /\ m = n)

(* So does taking out an inode without entries with its only name.         *)
LEMMA DroppedTree ==
  ASSUME NEW ns, Tree(ns), NEW ms, Table(ms), NEW p, NEW n, NEW i, Dropped(ns, ms, p, n, i)
  PROVE  Tree(ms) /\ (Exact(ns) => Exact(ms))
<1> USE DEF Dropped
<1>1. /\ Table(ns) /\ Shape(ns) /\ IsDir(ns, p) /\ i \in DOMAIN ns
      /\ \A c : Edge(ns, p, n, c) => c = i
      /\ \A d, m, c : Edge(ns, d, m, c) => c \in DOMAIN ns
  BY DEF Tree, Shape, EdgesDown, Edge
<1>2. Shape(ms)
  BY <1>1, ShapeDropped
<1>3. /\ \A j : IsDir(ms, j) <=> IsDir(ns, j) /\ j # i
      /\ \A j : IsLeaf(ms, j) <=> IsLeaf(ns, j) /\ j # i
  BY DEF IsDir, IsLeaf
<1>4. DirLinks(ms)
  <2> SUFFICES ASSUME NEW d, IsDir(ms, d)
               PROVE  /\ IsFiniteSet(Subdirs(ms, d))
                      /\ ms[d].nlink = 2 + Cardinality(Subdirs(ms, d))
    BY DEF DirLinks
  <2>1. IsDir(ns, d) /\ d \in DOMAIN ms
    BY <1>3 DEF IsDir
  <2>2. IsFiniteSet(Subdirs(ns, d)) /\ ns[d].nlink = 2 + Cardinality(Subdirs(ns, d))
    BY <2>1 DEF Tree, DirLinks
  <2>3. CASE ~(d = p /\ ns[i].kind = "dir")
    <3>1. \A m, c : Edge(ms, d, m, c) /\ ms[c].kind = "dir" <=> Edge(ns, d, m, c) /\ ns[c].kind = "dir"
      BY <1>1, <2>3
    <3>2. Subdirs(ms, d) = Subdirs(ns, d)
      BY <1>1, <2>1, <3>1, SubdirsSame
    <3> QED BY <2>1, <2>2, <2>3, <3>2
  <2>4. CASE d = p /\ ns[i].kind = "dir"
    <3>1. \A m, c : Edge(ms, p, m, c) /\ ms[c].kind = "dir" <=>
                      Edge(ns, p, m, c) /\ ns[c].kind = "dir" /\ m # n
      BY <1>1, <2>4
    <3>2. \A m : m \in Subdirs(ms, p) <=> m \in Subdirs(ns, p) \ {n}
      BY <1>1, <2>1, <2>4, <3>1, SubdirIs
    <3>3. Subdirs(ms, p) = Subdirs(ns, p) \ {n} /\ n \in Subdirs(ns, p)
      BY <1>1, <2>1, <2>4, <3>2, SubdirIs
    <3>4. /\ IsFiniteSet(Subdirs(ms, p))
          /\ Cardinality(Subdirs(ms, p)) = Cardinality(Subdirs(ns, p)) - 1
      BY <2>2, <2>4, <3>3, FS_RemoveElement
    <3>5. Cardinality(Subdirs(ns, p)) \in Nat
      BY <2>2, <2>4, FS_CardinalityType
    <3> QED BY <2>2, <2>4, <3>4, <3>5
  <2> QED BY <2>3, <2>4
<1>5. ASSUME NEW j, IsLeaf(ms, j)
      PROVE  Holders(ms, j) = Holders(ns, j) /\ IsLeaf(ns, j) /\ ms[j].nlink = ns[j].nlink
  <2>1. IsLeaf(ns, j) /\ j # i /\ j # p /\ j \in DOMAIN ms
    BY <1>1, <1>3, <1>5 DEF IsLeaf, IsDir
  <2>2. \A d, m : Edge(ms, d, m, j) <=> Edge(ns, d, m, j)
    BY <1>1, <2>1
  <2> QED BY <2>1, <2>2, HoldersSame
<1>6. LeafLinks(ms) /\ (Exact(ns) => Exact(ms))
  BY <1>5 DEF LeafLinks, Tree, Exact
<1> QED
  BY <1>2, <1>4, <1>6 DEF Tree

(* What an occupied name means for the edges.                              *)
LEMMA OccupiedIs ==
  ASSUME NEW ns, Tree(ns), NEW p, NEW n, Occupied(ns, p, n)
  PROVE  /\ Edge(ns, p, n, ChildIno(ns, p, n)) /\ n \in Names
         /\ p \in DOMAIN ns /\ IsDir(ns, p)
         /\ ChildIno(ns, p, n) \in DOMAIN ns \ {Root}
         /\ \A c : Edge(ns, p, n, c) => c = ChildIno(ns, p, n)
<1>1. Table(ns) /\ EdgesDown(ns) /\ p \in DOMAIN ns /\ n \in DOMAIN ns[p].entries
  BY DEF Tree, Shape, Occupied, IsDir
<1>2. DOMAIN ns[p].entries \subseteq Names
  BY <1>1, EntryMapIs DEF Table, Proper, Inode
<1>3. Edge(ns, p, n, ChildIno(ns, p, n)) /\ n \in Names
  BY <1>1, <1>2 DEF Edge, ChildIno
<1>4. ChildIno(ns, p, n) \in DOMAIN ns \ {Root}
  BY <1>1, <1>3 DEF EdgesDown
<1> QED BY <1>1, <1>3, <1>4 DEF Edge, ChildIno, Occupied

(* rmdir keeps the tree, and changes what it is to change only.            *)
LEMMA RmdirTree ==
  ASSUME NEW ns, Tree(ns), NEW p, NEW n, CanRmdir(ns, p, n)
  PROVE  LET ms == AfterRmdir(ns, p, n)
             i  == ChildIno(ns, p, n)
         IN  /\ Tree(ms) /\ DOMAIN ms = DOMAIN ns \ {i} /\ ns[i].len = 0
             /\ \A j \in DOMAIN ms : ms[j].len = ns[j].len /\ ms[j].kind = ns[j].kind
             /\ \A j \in DOMAIN ms : ms[j].parent = ns[j].parent
             /\ \A j : IsLeaf(ms, j) => ms[j].nlink = ns[j].nlink
             /\ \A d, m, c : Edge(ms, d, m, c) <=> Edge(ns, d, m, c) /\ ~(d = p /\ m = n)
             /\ Exact(ns) => Exact(ms)
<1> DEFINE i  == ChildIno(ns, p, n)
           t1 == RemoveEntry(ns, p, n)
           t2 == RemoveNode(t1, i)
           ms == [t2 EXCEPT ![p].nlink = t2[p].nlink - 1]
<1>1. /\ Table(ns) /\ Shape(ns) /\ Occupied(ns, p, n) /\ IsDir(ns, i) /\ ns[i].kind = "dir"
      /\ ns[i].entries = NoNames
  BY DEF Tree, CanRmdir, IsDir
<1>2. /\ Edge(ns, p, n, i) /\ i \in DOMAIN ns \ {Root} /\ p \in DOMAIN ns /\ IsDir(ns, p)
      /\ ns[p].kind = "dir" /\ \A c : Edge(ns, p, n, c) => c = i
  BY <1>1, OccupiedIs DEF IsDir
<1> HIDE DEF i
<1>3. /\ Table(t1) /\ SameKinds(ns, t1) /\ SameLinks(ns, t1)
      /\ SameLens(ns, t1) /\ SameParents(ns, t1)
      /\ \A d, m, c : Edge(t1, d, m, c) <=> Edge(ns, d, m, c) /\ ~(d = p /\ m = n)
  BY <1>1, <1>2, Removed
<1> HIDE DEF t1
<1>4. \A m, c : ~Edge(ns, i, m, c)
  BY <1>1, NoNamesIs DEF Edge
<1>5. /\ Table(t2) /\ DOMAIN t2 = DOMAIN t1 \ {i}
      /\ \A j \in DOMAIN t1 \ {i} : t2[j] = t1[j]
      /\ SameEdges(t1, t2)
  BY <1>3, <1>4, NodeRemoved
<1> HIDE DEF t2
<1>6. p # i
  BY <1>2, <1>4
<1>7. /\ \A d, m : Edge(ns, d, m, i) => d = p /\ m = n
  BY <1>1, <1>2 DEF Shape, ParentsTrue, OneName
<1>8. IsFiniteSet(Subdirs(ns, p)) /\ ns[p].nlink = 2 + Cardinality(Subdirs(ns, p))
  BY <1>2 DEF Tree, DirLinks
<1>9. Cardinality(Subdirs(ns, p)) \in Nat
  BY <1>8, FS_CardinalityType
<1>10. /\ p \in DOMAIN t2 /\ t2[p].nlink = ns[p].nlink /\ t2[p].nlink - 1 \in Nat
       /\ t2[p].kind = "dir"
  BY <1>2, <1>3, <1>5, <1>6, <1>8, <1>9 DEF SameKinds, SameLinks
<1>11. /\ Table(ms) /\ SameKinds(t2, ms) /\ SameEdges(t2, ms)
       /\ SameLens(t2, ms) /\ SameParents(t2, ms)
       /\ ms[p].nlink = t2[p].nlink - 1 /\ \A j \in DOMAIN t2 \ {p} : ms[j].nlink = t2[j].nlink
  BY <1>5, <1>10, SetLinks
<1> HIDE DEF ms
<1>12. /\ DOMAIN ms = DOMAIN ns \ {i}
       /\ \A j \in DOMAIN ms : /\ ms[j].len = ns[j].len /\ ms[j].kind = ns[j].kind
                               /\ ms[j].parent = ns[j].parent
       /\ \A j \in DOMAIN ms \ {p} : ms[j].nlink = ns[j].nlink
       /\ ms[p].nlink = ns[p].nlink - 1
  BY <1>3, <1>5, <1>10, <1>11 DEF SameKinds, SameLens, SameParents, SameLinks
<1>13. \A d, m, c : Edge(ms, d, m, c) <=> Edge(ns, d, m, c) /\ ~(d = p /\ m = n)
  BY <1>3, <1>5, <1>11 DEF SameEdges
<1>14. Tree(ms) /\ (Exact(ns) => Exact(ms))
  <2>1. /\ \A j \in DOMAIN ms : ms[j].kind = ns[j].kind /\ ms[j].parent = ns[j].parent
        /\ ms[p].nlink = IF ns[i].kind = "dir" THEN ns[p].nlink - 1 ELSE ns[p].nlink
    BY <1>1, <1>12
  <2>2. Dropped(ns, ms, p, n, i)
    BY <1>2, <1>4, <1>7, <1>12, <1>13, <2>1 DEF Dropped
  <2> QED BY <1>11, <2>2, DroppedTree
<1>15. ns[i].len = 0
  BY <1>1, <1>2 DEF Table, Proper
<1>16. \A j : IsLeaf(ms, j) => ms[j].nlink = ns[j].nlink
  BY <1>2, <1>12 DEF IsLeaf
<1>17. AfterRmdir(ns, p, n) = ms
  BY Zenon DEF AfterRmdir, ms, t2, t1, i
<1> QED
  BY <1>12, <1>13, <1>14, <1>15, <1>16, <1>17 DEF i

(* unlink does too, whether the file goes or keeps other names.            *)
LEMMA UnlinkTree ==
  ASSUME NEW ns, Tree(ns), NEW p, NEW n, CanUnlink(ns, p, n)
  PROVE  LET ms == AfterUnlink(ns, p, n)
             i  == ChildIno(ns, p, n)
         IN  /\ Tree(ms)
             /\ DOMAIN ms = IF ns[i].nlink = 1 THEN DOMAIN ns \ {i} ELSE DOMAIN ns
             /\ \A j \in DOMAIN ms : ms[j].len = ns[j].len /\ ms[j].kind = ns[j].kind
             /\ \A j : IsLeaf(ms, j) => ms[j].nlink <= ns[j].nlink
             /\ ns[i].nlink \in Nat /\ ns[i].nlink >= 1 /\ ns[i].len \in Nat
             /\ \A d, m, c : Edge(ms, d, m, c) <=> Edge(ns, d, m, c) /\ ~(d = p /\ m = n)
             /\ Exact(ns) => Exact(ms)
<1> DEFINE i  == ChildIno(ns, p, n)
           t1 == RemoveEntry(ns, p, n)
           t2 == [t1 EXCEPT ![i].nlink = t1[i].nlink - 1]
           t3 == RemoveNode(t1, i)
           ms == AfterUnlink(ns, p, n)
<1>1. /\ Table(ns) /\ Shape(ns) /\ Occupied(ns, p, n) /\ IsLeaf(ns, i) /\ ns[i].kind # "dir"
  BY DEF Tree, CanUnlink, IsLeaf
<1>2. /\ Edge(ns, p, n, i) /\ i \in DOMAIN ns \ {Root} /\ p \in DOMAIN ns /\ IsDir(ns, p)
      /\ ns[p].kind = "dir" /\ \A c : Edge(ns, p, n, c) => c = i
  BY <1>1, OccupiedIs DEF IsDir
<1> HIDE DEF i
<1>3. /\ Table(t1) /\ SameKinds(ns, t1) /\ SameLinks(ns, t1)
      /\ SameLens(ns, t1) /\ SameParents(ns, t1)
      /\ \A d, m, c : Edge(t1, d, m, c) <=> Edge(ns, d, m, c) /\ ~(d = p /\ m = n)
  BY <1>1, <1>2, Removed
<1> HIDE DEF t1
<1>4. /\ ns[i].nlink \in Nat /\ ns[i].nlink >= 1 /\ ns[i].len \in Nat /\ ns[i].entries = NoNames
      /\ i \in DOMAIN t1 /\ t1[i].nlink = ns[i].nlink
      /\ \A j \in DOMAIN ns : ns[j].nlink \in Nat
  BY <1>1, <1>2, <1>3 DEF Table, Proper, Inode, SameKinds, SameLinks
<1>5. ms = IF t2[i].nlink = 0 THEN RemoveNode(t2, i) ELSE t2
  BY Zenon DEF AfterUnlink, t2, t1, i
<1>6. /\ DOMAIN t2 = DOMAIN t1 /\ t2[i].nlink = ns[i].nlink - 1
      /\ \A j \in DOMAIN t1 \ {i} : t2[j] = t1[j]
  <2> DEFINE v == t1[i].nlink - 1
             x == [t1[i] EXCEPT !.nlink = v]
  <2>1. t1[i] \in Inode
    BY <1>3, <1>4 DEF Table, Proper
  <2>2. x.nlink = v
    BY <2>1 DEF Inode
  <2>3. v = ns[i].nlink - 1
    BY <1>4
  <2> HIDE DEF v
  <2>4. t2 = [t1 EXCEPT ![i] = x]
    BY DEF v
  <2> HIDE DEF x, t2
  <2> QED BY <1>4, <2>2, <2>3, <2>4
<1> HIDE DEF ms
<1>7. CASE ns[i].nlink = 1
  <2>1. ms = t3
    BY <1>4, <1>5, <1>6, <1>7 DEF RemoveNode
  <2> HIDE DEF t2
  <2>2. \A m, c : ~Edge(ns, i, m, c)
    BY <1>4, NoNamesIs DEF Edge
  <2>3. /\ Table(t3) /\ DOMAIN t3 = DOMAIN t1 \ {i}
        /\ \A j \in DOMAIN t1 \ {i} : t3[j] = t1[j]
        /\ SameEdges(t1, t3)
    BY <1>3, <2>2, NodeRemoved
  <2> HIDE DEF t3
  <2>4. /\ Table(ms) /\ DOMAIN ms = DOMAIN ns \ {i}
        /\ \A j \in DOMAIN ms : /\ ms[j].kind = ns[j].kind /\ ms[j].parent = ns[j].parent
                                /\ ms[j].len = ns[j].len /\ ms[j].nlink = ns[j].nlink
        /\ \A d, m, c : Edge(ms, d, m, c) <=> Edge(ns, d, m, c) /\ ~(d = p /\ m = n)
    BY <1>3, <2>1, <2>3 DEF SameKinds, SameLens, SameParents, SameLinks, SameEdges
  <2>5. IsFiniteSet(Holders(ns, i)) /\ Cardinality(Holders(ns, i)) <= 1
    <3>1. IsFiniteSet(Holders(ns, i)) /\ ns[i].nlink >= Cardinality(Holders(ns, i))
      BY <1>1 DEF Tree, LeafLinks
    <3>2. Cardinality(Holders(ns, i)) \in Nat
      BY <3>1, FS_CardinalityType
    <3> QED BY <3>1, <3>2, <1>7
  <2>6. \A d, m : Edge(ns, d, m, i) => d = p /\ m = n
    BY <1>2, <2>5, HoldersLast
  <2>7. p \in DOMAIN ms
    BY <1>1, <1>2, <2>4
  <2>8. Tree(ms) /\ (Exact(ns) => Exact(ms))
    <3>1. ms[p].nlink = IF ns[i].kind = "dir" THEN ns[p].nlink - 1 ELSE ns[p].nlink
      BY <1>1, <2>4, <2>7
    <3>2. /\ \A j \in DOMAIN ms : ms[j].kind = ns[j].kind /\ ms[j].parent = ns[j].parent
          /\ \A j \in DOMAIN ms \ {p} : ms[j].nlink = ns[j].nlink
          /\ Edge(ns, p, n, i)
      BY <1>2, <2>4
    <3>3. Dropped(ns, ms, p, n, i)
      BY <2>2, <2>4, <2>6, <3>1, <3>2 DEF Dropped
    <3> QED BY <2>4, <3>3, DroppedTree
  <2>9. \A j : IsLeaf(ms, j) => ms[j].nlink <= ns[j].nlink
    BY <1>4, <2>4 DEF IsLeaf
  <2> QED BY <1>4, <1>7, <2>4, <2>8, <2>9 DEF ms, i
<1>8. CASE ns[i].nlink # 1
  <2>1. ms = t2 /\ t1[i].nlink - 1 \in Nat /\ t1[i].nlink - 1 >= 1
    BY <1>4, <1>5, <1>6, <1>8
  <2>2. /\ Table(t2) /\ SameKinds(t1, t2) /\ SameEdges(t1, t2)
        /\ SameLens(t1, t2) /\ SameParents(t1, t2)
        /\ t2[i].nlink = t1[i].nlink - 1 /\ \A j \in DOMAIN t1 \ {i} : t2[j].nlink = t1[j].nlink
    BY <1>3, <1>4, <2>1, SetLinks
  <2> HIDE DEF t2
  <2>3. /\ Table(ms) /\ SameKinds(ns, ms) /\ SameLens(ns, ms) /\ SameParents(ns, ms)
        /\ \A d, m, c : Edge(ms, d, m, c) <=> Edge(ns, d, m, c) /\ ~(d = p /\ m = n)
        /\ ms[i].nlink = ns[i].nlink - 1
        /\ \A j \in DOMAIN ns \ {i} : ms[j].nlink = ns[j].nlink
    BY <1>3, <1>4, <2>1, <2>2 DEF SameKinds, SameLens, SameParents, SameLinks, SameEdges
  <2>4. Tree(ms) /\ (Exact(ns) => Exact(ms))
    BY <1>1, <1>2, <2>3, UnnamedTree
  <2>5. \A j : IsLeaf(ms, j) => ms[j].nlink <= ns[j].nlink
    BY <1>4, <2>3 DEF IsLeaf, SameKinds
  <2> QED BY <1>4, <1>8, <2>3, <2>4, <2>5 DEF SameKinds, SameLens, ms, i
<1> QED BY <1>7, <1>8

(* Renaming a file or symlink onto another of its names removes the old    *)
(* name and leaves the links.                                              *)
LEMMA SameFileTree ==
  ASSUME NEW ns, Tree(ns), NEW p, NEW n, Occupied(ns, p, n),
         IsLeaf(ns, ChildIno(ns, p, n))
  PROVE  LET ms == RemoveEntry(ns, p, n)
         IN  Tree(ms) /\ SameKinds(ns, ms) /\ SameLens(ns, ms)
<1> DEFINE i  == ChildIno(ns, p, n)
           ms == RemoveEntry(ns, p, n)
<1>1. Table(ns) /\ Edge(ns, p, n, i) /\ i \in DOMAIN ns /\ IsDir(ns, p)
  BY OccupiedIs DEF Tree
<1> HIDE DEF i
<1>2. /\ Table(ms) /\ SameKinds(ns, ms) /\ SameLinks(ns, ms)
      /\ SameLens(ns, ms) /\ SameParents(ns, ms)
      /\ \A d, m, c : Edge(ms, d, m, c) <=> Edge(ns, d, m, c) /\ ~(d = p /\ m = n)
  BY <1>1, Removed
<1> HIDE DEF ms
<1>3. /\ ms[i].nlink \in {ns[i].nlink, ns[i].nlink - 1} /\ IsLeaf(ns, i)
      /\ \A j \in DOMAIN ns \ {i} : ms[j].nlink = ns[j].nlink
  BY <1>1, <1>2 DEF SameLinks, i
<1>4. Tree(ms)
  BY <1>1, <1>2, <1>3, UnnamedTree
<1> QED BY <1>2, <1>4 DEF ms

(* A file moved onto a free name.                                          *)
LEMMA MovedLeafTree ==
  ASSUME NEW ns, Tree(ns), NEW p, NEW n, Occupied(ns, p, n),
         NEW q, NEW m \in Names, Vacant(ns, q, m),
         IsLeaf(ns, ChildIno(ns, p, n)), ChildIno(ns, p, n) \in Nat
  PROVE  LET ms == Moved(ns, p, n, q, m, ChildIno(ns, p, n))
         IN  /\ Tree(ms) /\ SameKinds(ns, ms) /\ SameLens(ns, ms) /\ SameLinks(ns, ms)
             /\ Exact(ns) => Exact(ms)
             /\ EdgeMoved(ns, ms, p, n, q, m, ChildIno(ns, p, n))
<1> DEFINE i  == ChildIno(ns, p, n)
           t1 == RemoveEntry(ns, p, n)
           ms == InsertEntry(t1, q, m, i)
<1>1. /\ Table(ns) /\ Edge(ns, p, n, i) /\ i \in DOMAIN ns /\ IsDir(ns, p)
      /\ IsLeaf(ns, i) /\ i \in Nat /\ IsDir(ns, q) /\ \A c : ~Edge(ns, q, m, c)
  BY OccupiedIs DEF Tree, Vacant, Edge
<1> HIDE DEF i
<1>2. ms[i].kind # "dir" => Moved(ns, p, n, q, m, i) = ms
  BY SMT DEF Moved
<1>3. /\ Table(t1) /\ SameKinds(ns, t1) /\ SameLinks(ns, t1)
      /\ SameLens(ns, t1) /\ SameParents(ns, t1)
      /\ \A d, x, c : Edge(t1, d, x, c) <=> Edge(ns, d, x, c) /\ ~(d = p /\ x = n)
  BY <1>1, Removed
<1> HIDE DEF t1
<1>4. /\ t1[i].nlink \in {ns[i].nlink, ns[i].nlink - 1} /\ t1[i].nlink = ns[i].nlink
      /\ \A j \in DOMAIN ns \ {i} : t1[j].nlink = ns[j].nlink
  BY <1>1, <1>3 DEF SameLinks
<1>5. /\ Tree(t1)
      /\ Exact(ns) => \A j : IsLeaf(t1, j) /\ j # i => t1[j].nlink = Cardinality(Holders(t1, j))
      /\ IsFiniteSet(Holders(t1, i))
      /\ Cardinality(Holders(t1, i)) = Cardinality(Holders(ns, i)) - 1
      /\ Cardinality(Holders(ns, i)) \in Nat
  BY <1>1, <1>3, <1>4, UnnamedTree
<1>6. Vacant(t1, q, m)
  <2>1. IsDir(t1, q) /\ \A c : ~Edge(t1, q, m, c)
    BY <1>1, <1>3, KindsAgree
  <2> QED BY <2>1 DEF Vacant, Edge, IsDir
<1>7. /\ Table(ms) /\ SameKinds(t1, ms) /\ SameLinks(t1, ms)
      /\ SameLens(t1, ms) /\ SameParents(t1, ms)
      /\ \A d, x, c : Edge(ms, d, x, c) <=> Edge(t1, d, x, c) \/ (d = q /\ x = m /\ c = i)
  BY <1>1, <1>3, <1>6, Inserted
<1> HIDE DEF ms
<1>8. IsDir(t1, q) /\ IsLeaf(t1, i) /\ ~Edge(t1, q, m, i) /\ i \in DOMAIN t1 /\ t1[i].kind # "dir"
  BY <1>1, <1>3, KindsAgree DEF IsLeaf
<1>9. Shape(ms)
  <2>1. Shape(t1)
    BY <1>5 DEF Tree
  <2>2. EdgeAdded(t1, ms, q, m, i)
    BY <1>7 DEF EdgeAdded
  <2> QED BY <1>7, <1>8, <2>1, <2>2, ShapeNamed
<1>10. ASSUME NEW d, IsDir(ms, d) PROVE Subdirs(ms, d) = Subdirs(t1, d) /\ IsDir(t1, d) /\ ms[d].nlink = t1[d].nlink
  <2>1. IsDir(t1, d) /\ ms[d].nlink = t1[d].nlink
    BY <1>10, <1>7, KindsAgree DEF IsDir, SameLinks
  <2>2. \A x, c : Edge(t1, d, x, c) => c \in DOMAIN t1
    BY <1>5 DEF Tree, Shape, EdgesDown
  <2>3. \A x, c : Edge(ms, d, x, c) /\ ms[c].kind = "dir" <=> Edge(t1, d, x, c) /\ t1[c].kind = "dir"
    BY <1>7, <1>8, <2>2 DEF SameKinds
  <2> QED BY <1>3, <1>7, <1>10, <2>1, <2>3, SubdirsSame
<1>11. DirLinks(ms)
  BY <1>5, <1>10 DEF DirLinks, Tree
<1>12. ASSUME NEW j, IsLeaf(ms, j), j # i
       PROVE  Holders(ms, j) = Holders(t1, j) /\ IsLeaf(t1, j) /\ ms[j].nlink = t1[j].nlink
  <2>1. IsLeaf(t1, j) /\ ms[j].nlink = t1[j].nlink
    BY <1>12, <1>7, KindsAgree DEF IsLeaf, SameLinks
  <2>2. \A d, x : Edge(ms, d, x, j) <=> Edge(t1, d, x, j)
    BY <1>7, <1>12
  <2> QED BY <2>1, <2>2, HoldersSame
<1>13. /\ IsFiniteSet(Holders(ms, i)) /\ ms[i].nlink = ns[i].nlink
       /\ Cardinality(Holders(ms, i)) = Cardinality(Holders(ns, i))
  <2>1. \A d, x : Edge(ms, d, x, i) <=> Edge(t1, d, x, i) \/ (d = q /\ x = m)
    BY <1>7
  <2>2. /\ IsFiniteSet(Holders(ms, i))
        /\ Cardinality(Holders(ms, i)) = Cardinality(Holders(t1, i)) + 1
    BY <1>5, <1>8, <2>1, HoldersMore
  <2>3. ms[i].nlink = ns[i].nlink
    BY <1>4, <1>7, <1>8 DEF SameLinks
  <2> QED BY <1>5, <2>2, <2>3
<1>14. LeafLinks(ms)
  BY <1>1, <1>5, <1>12, <1>13 DEF LeafLinks, Tree
<1>15. Exact(ns) => Exact(ms)
  BY <1>1, <1>5, <1>12, <1>13 DEF Exact
<1>16. SameKinds(ns, ms) /\ SameLens(ns, ms) /\ SameLinks(ns, ms)
  BY <1>3, <1>7 DEF SameKinds, SameLens, SameLinks
<1>17. Moved(ns, p, n, q, m, i) = ms
  BY <1>1, <1>2, <1>16 DEF SameKinds, IsLeaf
<1>18. EdgeMoved(ns, ms, p, n, q, m, i)
  BY <1>3, <1>7 DEF EdgeMoved
<1> QED
  BY <1>7, <1>9, <1>11, <1>14, <1>15, <1>16, <1>17, <1>18 DEF Tree, i

(* A directory moves, and both parents count it.                           *)
LEMMA MovedDirTree ==
  ASSUME NEW ns, Tree(ns), NEW p, NEW n, Occupied(ns, p, n),
         NEW q, NEW m \in Names, Vacant(ns, q, m), q \in Nat,
         IsDir(ns, ChildIno(ns, p, n)), ChildIno(ns, p, n) \in Nat,
         NEW A, q \in A, ChildIno(ns, p, n) \notin A, UpClosed(ns, A)
  PROVE  LET ms == Moved(ns, p, n, q, m, ChildIno(ns, p, n))
         IN  /\ Tree(ms) /\ SameKinds(ns, ms) /\ SameLens(ns, ms)
             /\ \A j : IsLeaf(ms, j) => ms[j].nlink = ns[j].nlink
             /\ Exact(ns) => Exact(ms)
             /\ EdgeMoved(ns, ms, p, n, q, m, ChildIno(ns, p, n))
<1> DEFINE i  == ChildIno(ns, p, n)
           t1 == RemoveEntry(ns, p, n)
           t2 == InsertEntry(t1, q, m, i)
           t3 == [t2 EXCEPT ![i].parent = q]
           t4 == [t3 EXCEPT ![p].nlink = t3[p].nlink - 1]
           t5 == [t4 EXCEPT ![q].nlink = t4[q].nlink + 1]
           ms == Moved(ns, p, n, q, m, i)
<1>1. /\ Table(ns) /\ Shape(ns) /\ Edge(ns, p, n, i) /\ i \in DOMAIN ns /\ IsDir(ns, p)
      /\ IsDir(ns, i) /\ i \in Nat /\ IsDir(ns, q) /\ \A c : ~Edge(ns, q, m, c)
      /\ i \notin A /\ p \in DOMAIN ns /\ q \in DOMAIN ns /\ ns[p].kind = "dir" /\ ns[q].kind = "dir"
      /\ ns[i].kind = "dir" /\ \A c : Edge(ns, p, n, c) => c = i
  BY OccupiedIs DEF Tree, Vacant, Edge, IsDir
<1>2. ms = IF t2[i].kind # "dir" THEN t2 ELSE IF p = q THEN t3 ELSE t5
  <2> HIDE DEF i
  <2>1. ms = Moved(ns, p, n, q, m, i)
    BY Zenon
  <2>2. t2[i].kind # "dir" => ms = t2
    BY SMT DEF Moved
  <2>3. t2[i].kind = "dir" /\ p = q => ms = t3
    BY SMT DEF Moved
  <2>4. t2[i].kind = "dir" /\ p # q => ms = t5
    <3>1. t2[i].kind = "dir" /\ p # q => ms = [t3 EXCEPT ![p].nlink = @ - 1, ![q].nlink = @ + 1]
      BY SMT DEF Moved
    <3> HIDE DEF t3, ms
    <3> QED BY <3>1, Zenon
  <2> HIDE DEF t2, t3, t5, ms
  <2> QED BY <2>2, <2>3, <2>4, Zenon
<1> HIDE DEF i, ms
<1>3. /\ Table(t1) /\ SameKinds(ns, t1) /\ SameLinks(ns, t1)
      /\ SameLens(ns, t1) /\ SameParents(ns, t1)
      /\ \A d, x, c : Edge(t1, d, x, c) <=> Edge(ns, d, x, c) /\ ~(d = p /\ x = n)
  BY <1>1, Removed
<1> HIDE DEF t1
<1>4. Vacant(t1, q, m)
  <2>1. IsDir(t1, q) /\ \A c : ~Edge(t1, q, m, c)
    BY <1>1, <1>3, KindsAgree
  <2> QED BY <2>1 DEF Vacant, Edge, IsDir
<1>5. /\ Table(t2) /\ SameKinds(t1, t2) /\ SameLinks(t1, t2)
      /\ SameLens(t1, t2) /\ SameParents(t1, t2)
      /\ \A d, x, c : Edge(t2, d, x, c) <=> Edge(t1, d, x, c) \/ (d = q /\ x = m /\ c = i)
  BY <1>1, <1>3, <1>4, Inserted
<1> HIDE DEF t2
<1>6. /\ SameKinds(ns, t2) /\ SameLinks(ns, t2) /\ SameLens(ns, t2) /\ SameParents(ns, t2)
      /\ \A d, x, c : Edge(t2, d, x, c) <=> \/ Edge(ns, d, x, c) /\ ~(d = p /\ x = n)
                                            \/ d = q /\ x = m /\ c = i
  BY <1>3, <1>5 DEF SameKinds, SameLinks, SameLens, SameParents
<1>7. IsDir(t2, i) /\ t2[i].kind = "dir"
  BY <1>1, <1>6, KindsAgree DEF IsDir
<1>8. /\ Table(t3) /\ SameKinds(t2, t3) /\ SameEdges(t2, t3)
      /\ SameLinks(t2, t3) /\ SameLens(t2, t3)
      /\ t3[i].parent = q /\ \A j \in DOMAIN t2 \ {i} : t3[j].parent = t2[j].parent
  BY <1>5, <1>7, SetParent
<1> HIDE DEF t3
<1>9. /\ SameKinds(ns, t3) /\ SameLinks(ns, t3) /\ SameLens(ns, t3)
      /\ t3[i].parent = q /\ \A j \in DOMAIN ns \ {i} : t3[j].parent = ns[j].parent
      /\ \A d, x, c : Edge(t3, d, x, c) <=> \/ Edge(ns, d, x, c) /\ ~(d = p /\ x = n)
                                            \/ d = q /\ x = m /\ c = i
  BY <1>6, <1>8 DEF SameKinds, SameLinks, SameLens, SameParents, SameEdges
<1>10. \A d \in {p, q} : /\ IsFiniteSet(Subdirs(ns, d))
                         /\ ns[d].nlink = 2 + Cardinality(Subdirs(ns, d))
                         /\ Cardinality(Subdirs(ns, d)) \in Nat
  <2> SUFFICES ASSUME NEW d, IsDir(ns, d)
               PROVE  /\ IsFiniteSet(Subdirs(ns, d))
                      /\ ns[d].nlink = 2 + Cardinality(Subdirs(ns, d))
                      /\ Cardinality(Subdirs(ns, d)) \in Nat
    BY <1>1
  <2>1. IsFiniteSet(Subdirs(ns, d)) /\ ns[d].nlink = 2 + Cardinality(Subdirs(ns, d))
    BY DEF Tree, DirLinks
  <2> QED BY <2>1, FS_CardinalityType
<1>11. /\ Table(ms) /\ SameKinds(t3, ms) /\ SameEdges(t3, ms) /\ SameLens(t3, ms) /\ SameParents(t3, ms)
       /\ \A j \in DOMAIN ns \ {p, q} : ms[j].nlink = ns[j].nlink
       /\ p = q => ms[p].nlink = ns[p].nlink
       /\ p # q => ms[p].nlink = ns[p].nlink - 1 /\ ms[q].nlink = ns[q].nlink + 1
  <2>1. CASE p = q
    <3>1. ms = t3
      BY <1>2, <1>7, <2>1
    <3> QED BY <1>1, <1>8, <1>9, <2>1, <3>1
            DEF SameKinds, SameEdges, SameLens, SameParents, SameLinks
  <2>2. CASE p # q
    <3>1. ms = t5
      BY <1>2, <1>7, <2>2
    <3>2. p \in DOMAIN t3 /\ t3[p].nlink - 1 \in Nat /\ t3[p].kind = "dir"
          /\ q \in DOMAIN t3 /\ t3[q].nlink = ns[q].nlink /\ t3[p].nlink = ns[p].nlink
          /\ t3[q].nlink + 1 \in Nat /\ t3[q].kind = "dir"
      BY <1>1, <1>9, <1>10 DEF SameKinds, SameLinks
    <3>3. /\ Table(t4) /\ SameKinds(t3, t4) /\ SameEdges(t3, t4)
          /\ SameLens(t3, t4) /\ SameParents(t3, t4)
          /\ t4[p].nlink = t3[p].nlink - 1 /\ \A j \in DOMAIN t3 \ {p} : t4[j].nlink = t3[j].nlink
      BY <1>8, <3>2, SetLinks
    <3> HIDE DEF t4
    <3>4. q \in DOMAIN t4 /\ t4[q].nlink = ns[q].nlink /\ t4[q].nlink + 1 \in Nat /\ t4[q].kind = "dir"
      BY <2>2, <3>2, <3>3 DEF SameKinds
    <3>5. /\ Table(t5) /\ SameKinds(t4, t5) /\ SameEdges(t4, t5)
          /\ SameLens(t4, t5) /\ SameParents(t4, t5)
          /\ t5[q].nlink = t4[q].nlink + 1 /\ \A j \in DOMAIN t4 \ {q} : t5[j].nlink = t4[j].nlink
      BY <3>3, <3>4, SetLinks
    <3> HIDE DEF t5
    <3> QED BY <1>1, <1>9, <2>2, <3>1, <3>2, <3>3, <3>4, <3>5
            DEF SameKinds, SameEdges, SameLens, SameParents, SameLinks
  <2> QED BY <2>1, <2>2
<1>12. /\ SameKinds(ns, ms) /\ SameLens(ns, ms)
       /\ ms[i].parent = q /\ \A j \in DOMAIN ns \ {i} : ms[j].parent = ns[j].parent
       /\ \A d, x, c : Edge(ms, d, x, c) <=> \/ Edge(ns, d, x, c) /\ ~(d = p /\ x = n)
                                             \/ d = q /\ x = m /\ c = i
  BY <1>1, <1>9, <1>11 DEF SameKinds, SameLens, SameParents, SameEdges
<1>13. Shape(ms)
  BY <1>1, <1>12, ShapeMoved
<1>14. \A d, x, c : Edge(ns, d, x, c) => c \in DOMAIN ns
  BY <1>1 DEF Shape, EdgesDown
<1>15. ASSUME NEW d, IsDir(ns, d), IsDir(ms, d), NEW x
       PROVE  x \in Subdirs(ms, d) <=> \/ x \in Subdirs(ns, d) /\ ~(d = p /\ x = n)
                                       \/ d = q /\ x = m
  <2>1. \A c : Edge(ms, d, x, c) /\ ms[c].kind = "dir" <=>
                 \/ Edge(ns, d, x, c) /\ ns[c].kind = "dir" /\ ~(d = p /\ x = n)
                 \/ d = q /\ x = m /\ c = i
    BY <1>1, <1>12, <1>14 DEF SameKinds
  <2>2. x \in Subdirs(ms, d) <=> \E c : Edge(ms, d, x, c) /\ ms[c].kind = "dir"
    BY <1>11, <1>15, SubdirIs
  <2>3. x \in Subdirs(ns, d) <=> \E c : Edge(ns, d, x, c) /\ ns[c].kind = "dir"
    BY <1>1, <1>15, SubdirIs
  <2> QED BY <2>1, <2>2, <2>3
<1>16. n \in Subdirs(ns, p) /\ m \notin Subdirs(ns, q)
  BY <1>1, SubdirIs
<1>17. DirLinks(ms)
  <2> SUFFICES ASSUME NEW d, IsDir(ms, d)
               PROVE  /\ IsFiniteSet(Subdirs(ms, d))
                      /\ ms[d].nlink = 2 + Cardinality(Subdirs(ms, d))
    BY DEF DirLinks
  <2>1. IsDir(ns, d)
    BY <1>12, KindsAgree
  <2>2. CASE d # p /\ d # q
    <3>1. Subdirs(ms, d) = Subdirs(ns, d)
      BY <1>15, <2>1, <2>2
    <3> QED BY <1>11, <2>1, <2>2, <3>1 DEF Tree, DirLinks, IsDir
  <2>3. CASE d = p /\ p # q
    <3>1. Subdirs(ms, p) = Subdirs(ns, p) \ {n}
      BY <1>15, <2>1, <2>3
    <3>2. /\ IsFiniteSet(Subdirs(ms, p))
          /\ Cardinality(Subdirs(ms, p)) = Cardinality(Subdirs(ns, p)) - 1
      BY <1>10, <1>16, <3>1, FS_RemoveElement
    <3> QED BY <1>10, <1>11, <2>3, <3>2
  <2>4. CASE d = q /\ p # q
    <3>1. Subdirs(ms, q) = Subdirs(ns, q) \cup {m}
      BY <1>15, <2>1, <2>4
    <3>2. /\ IsFiniteSet(Subdirs(ms, q))
          /\ Cardinality(Subdirs(ms, q)) = Cardinality(Subdirs(ns, q)) + 1
      BY <1>10, <1>16, <3>1, FS_AddElement
    <3> QED BY <1>10, <1>11, <2>4, <3>2
  <2>5. CASE d = p /\ p = q
    <3> DEFINE S == Subdirs(ns, p) \ {n}
    <3>1. Subdirs(ms, p) = S \cup {m}
      BY <1>15, <2>1, <2>5
    <3>2. IsFiniteSet(S) /\ Cardinality(S) = Cardinality(Subdirs(ns, p)) - 1 /\ m \notin S
      BY <1>10, <1>16, <2>5, FS_RemoveElement
    <3> HIDE DEF S
    <3>3. IsFiniteSet(S \cup {m}) /\ Cardinality(S \cup {m}) = Cardinality(S) + 1
      BY <3>2, FS_AddElement
    <3> QED BY <1>10, <1>11, <2>5, <3>1, <3>2, <3>3
  <2> QED BY <2>2, <2>3, <2>4, <2>5
<1>18. ASSUME NEW j, IsLeaf(ms, j)
       PROVE  Holders(ms, j) = Holders(ns, j) /\ IsLeaf(ns, j) /\ ms[j].nlink = ns[j].nlink
  <2>1. IsLeaf(ns, j) /\ j # p /\ j # q /\ j # i /\ j \in DOMAIN ns
    BY <1>1, <1>12, <1>18, KindsAgree DEF IsLeaf
  <2>2. \A d, x : Edge(ms, d, x, j) <=> Edge(ns, d, x, j)
    BY <1>1, <1>12, <2>1
  <2> QED BY <1>11, <2>1, <2>2, HoldersSame
<1>19. LeafLinks(ms) /\ (Exact(ns) => Exact(ms))
  BY <1>18 DEF LeafLinks, Tree, Exact
<1>20. EdgeMoved(ns, ms, p, n, q, m, i)
  BY <1>12 DEF EdgeMoved
<1> QED
  BY <1>11, <1>12, <1>13, <1>17, <1>18, <1>19, <1>20 DEF Tree, ms, i

-----------------------------------------------------------------------------
(* Climbing to the root. *)

(* The recursive function behind is_ancestor_or_self exists: each number   *)
(* climbed to is the parent of the one before.                             *)
LEMMA ClimbIs ==
  ASSUME NEW ns, NEW i, MaxIno \in Nat
  PROVE  \E up : /\ up[0] = i
                 /\ \A k \in 0..MaxIno : k # 0 => up[k] = ns[up[k - 1]].parent
                 /\ Climb(ns, i) = {up[k] : k \in 0..Cardinality(DOMAIN ns)}
<1> DEFINE Ok(k) == \E f : f = [j \in 0..k |-> IF j = 0 THEN i ELSE ns[f[j - 1]].parent]
           T     == {k \in Nat : ~Ok(k)}
           up    == CHOOSE f : f = [k \in 0..MaxIno |-> IF k = 0 THEN i ELSE ns[f[k - 1]].parent]
<1>1. T = {}
  <2> SUFFICES ASSUME T # {} PROVE FALSE
    OBVIOUS
  <2>1. T \in SUBSET Nat
    OBVIOUS
  <2>2. PICK y \in T : \A z \in T : z >= y
    BY <2>1, LeastOf
  <2>3. y # 0
    <3> DEFINE g == [j \in 0..0 |-> i]
    <3>1. g = [j \in 0..0 |-> IF j = 0 THEN i ELSE ns[g[j - 1]].parent]
      OBVIOUS
    <3>2. Ok(0)
      BY <3>1
    <3> QED BY <3>2
  <2>4. Ok(y - 1)
    <3>1. y - 1 \in Nat /\ y - 1 \notin T
      <4> HIDE DEF T
      <4> QED BY <2>1, <2>2, <2>3
    <3> QED BY <3>1
  <2>5. PICK f : f = [j \in 0..y - 1 |-> IF j = 0 THEN i ELSE ns[f[j - 1]].parent]
    BY <2>4
  <2> DEFINE g == [j \in 0..y |-> IF j = y THEN ns[f[y - 1]].parent ELSE f[j]]
  <2>6. ASSUME NEW j \in 0..y PROVE g[j] = IF j = 0 THEN i ELSE ns[g[j - 1]].parent
    <3>1. CASE j = y
      <4>1. y \in 0..y /\ y - 1 \in 0..y /\ y - 1 # y
        BY <2>3
      <4>2. g[j] = ns[f[y - 1]].parent /\ g[y - 1] = f[y - 1]
        BY <3>1, <4>1, Zenon
      <4> HIDE DEF g
      <4> QED BY <2>3, <3>1, <4>2, Zenon
    <3>2. CASE j # y
      <4>1. j \in 0..y - 1 /\ (j # 0 => j - 1 \in 0..y - 1)
        BY <3>2
      <4>2. g[j] = f[j] /\ (j # 0 => g[j - 1] = f[j - 1])
        BY <3>2, <4>1
      <4> HIDE DEF g
      <4>3. f[j] = IF j = 0 THEN i ELSE ns[f[j - 1]].parent
        BY <2>5, <4>1, Zenon
      <4> QED BY <4>2, <4>3, Zenon
    <3> QED BY <3>1, <3>2
  <2>7. g = [j \in 0..y |-> IF j = 0 THEN i ELSE ns[g[j - 1]].parent]
    <3> HIDE DEF g
    <3>1. g = [j \in 0..y |-> g[j]]
      BY DEF g
    <3> QED BY <2>6, <3>1, Zenon
  <2>8. Ok(y)
    BY <2>7, Zenon
  <2> QED BY <2>8
<1>2. Ok(MaxIno)
  BY <1>1, Zenon
<1>3. up = [k \in 0..MaxIno |-> IF k = 0 THEN i ELSE ns[up[k - 1]].parent]
  BY <1>2, Zenon
<1>4. Climb(ns, i) = {up[k] : k \in 0..Cardinality(DOMAIN ns)}
  BY DEF Climb
<1> HIDE DEF up
<1>5. 0 \in 0..MaxIno
  OBVIOUS
<1>6. up[0] = i
  BY <1>3, <1>5
<1>7. ASSUME NEW k \in 0..MaxIno, k # 0 PROVE up[k] = ns[up[k - 1]].parent
  BY <1>3, <1>7
<1> QED BY <1>4, <1>6, <1>7

(* As many steps as there are inodes pass some directory twice, so that    *)
(* what lies between is closed under parents.                              *)
LEMMA ClimbCloses ==
  ASSUME NEW ns, Shape(ns), DOMAIN ns \subseteq Inos, NEW q, IsDir(ns, q)
  PROVE  \E A \in SUBSET Climb(ns, q) : q \in A /\ UpClosed(ns, A)
<1> DEFINE N == Cardinality(DOMAIN ns)
<1>1. PICK up : /\ up[0] = q
                /\ \A k \in 0..MaxIno : k # 0 => up[k] = ns[up[k - 1]].parent
                /\ Climb(ns, q) = {up[k] : k \in 0..N}
  BY ClimbIs, FsAssumption
<1>2. MaxIno \in Nat
  BY FsAssumption
<1>3. IsFiniteSet(DOMAIN ns) /\ N \in Nat /\ N <= MaxIno
  <2>1. IsFiniteSet(1..MaxIno) /\ Cardinality(1..MaxIno) = MaxIno
    BY <1>2, FS_Interval
  <2>2. IsFiniteSet(DOMAIN ns) /\ N <= MaxIno
    <3>1. DOMAIN ns \in SUBSET (1..MaxIno)
      BY DEF Inos
    <3> QED BY <2>1, <3>1, FS_Subset
  <2> QED BY <2>2, FS_CardinalityType
<1> HIDE DEF N
<1>4. up[0] = q /\ \A k \in 0..MaxIno : k # 0 => up[k] = ns[up[k - 1]].parent
  BY <1>1
<1>5. \A k \in 0..N : IsDir(ns, up[k])
  <2> DEFINE T == {k \in 0..N : ~IsDir(ns, up[k])}
  <2> SUFFICES ASSUME T # {} PROVE FALSE
    OBVIOUS
  <2>0. T \in SUBSET Nat
    BY <1>3
  <2>1. PICK y \in T : \A z \in T : z >= y
    BY <2>0, LeastOf
  <2>2. y # 0 /\ y \in 0..MaxIno /\ y - 1 \in 0..N
    <3>1. y \in 0..N /\ ~IsDir(ns, up[y])
      OBVIOUS
    <3>2. y # 0
      BY <1>4, <3>1
    <3> QED BY <1>2, <1>3, <3>1, <3>2
  <2>3. IsDir(ns, up[y - 1])
    BY <2>1, <2>2
  <2>4. IsDir(ns, ns[up[y - 1]].parent)
    BY <2>3, ParentIsDir
  <2> QED BY <1>4, <2>2, <2>4
<1>6. \E x, y \in 0..N : x < y /\ up[x] = up[y]
  <2> DEFINE S == 0..N
             f == [k \in S |-> up[k]]
  <2>1. IsFiniteSet(S) /\ Cardinality(S) = N + 1
    BY <1>3, FS_Interval
  <2>2. f \in [S -> DOMAIN ns]
    BY <1>5 DEF IsDir
  <2>3. \A k \in S : f[k] = up[k]
    OBVIOUS
  <2>4. S \subseteq Nat
    BY <1>3
  <2>5. Cardinality(DOMAIN ns) < Cardinality(S)
    BY <1>3, <2>1 DEF N
  <2> HIDE DEF S, f
  <2>6. \E x, y \in S : x # y /\ f[x] = f[y]
    BY <1>3, <2>1, <2>2, <2>5, FS_PigeonHole
  <2>7. \E x, y \in S : x # y /\ up[x] = up[y]
    BY <2>3, <2>6
  <2>8. \E x, y \in S : x < y /\ up[x] = up[y]
    BY <2>4, <2>7
  <2> QED BY <2>8 DEF S
<1>7. PICK x \in 0..N, y \in 0..N : x < y /\ up[x] = up[y]
  BY <1>6
<1> DEFINE A == {up[k] : k \in 0..y - 1}
<1>8. A \subseteq Climb(ns, q) /\ q \in A
  <2>1. y \in Nat /\ y >= 1 /\ y <= N /\ 0 \in 0..y - 1 /\ 0..y - 1 \subseteq 0..N
    BY <1>3, <1>7
  <2> QED BY <1>1, <1>4, <2>1
<1>9. ASSUME NEW k \in 0..y - 1 PROVE IsDir(ns, up[k]) /\ ns[up[k]].parent \in A
  <2>0. k \in Nat /\ y \in Nat /\ y <= N /\ k < y
    BY <1>3, <1>7
  <2>1. k \in 0..N /\ k + 1 \in 0..MaxIno /\ k + 1 # 0 /\ k + 1 - 1 = k
    BY <1>2, <1>3, <2>0
  <2>2. ns[up[k]].parent = up[k + 1]
    BY <1>4, <2>1
  <2>3. up[k + 1] \in A
    <3>1. CASE k + 1 = y
      <4>1. x \in 0..y - 1 /\ up[k + 1] = up[x]
        BY <1>7, <2>0, <3>1
      <4> QED BY <4>1
    <3>2. CASE k + 1 # y
      <4>1. k + 1 \in 0..y - 1
        BY <2>0, <3>2
      <4> QED BY <4>1
    <3> QED BY <3>1, <3>2
  <2> QED BY <1>5, <2>1, <2>2, <2>3
<1>10. UpClosed(ns, A)
  BY <1>9 DEF UpClosed
<1> QED BY <1>8, <1>10

-----------------------------------------------------------------------------
(* Counting bytes. *)

Weight(ns, i) == IF i \in DOMAIN ns THEN ns[i].len ELSE 0

(* f adds up the weights of the inodes up to number K.                     *)
Adds(f, ns, K) ==
  f[0] = 0 /\ \A k \in 1..K : f[k] = f[k - 1] + Weight(ns, k)

(* The bytes of an inode are a number.                                     *)
LEMMA WeightType ==
  ASSUME NEW ns, Table(ns), NEW i
  PROVE  Weight(ns, i) \in Nat
  BY DEF Weight, Table, Proper, Inode

(* The recursive function behind the sum of the lengths exists.            *)
LEMMA SumExists ==
  ASSUME NEW ns, NEW K \in Nat
  PROVE  \E f : f = [k \in 0..K |->
                       IF k = 0 THEN 0 ELSE f[k - 1] + (IF k \in DOMAIN ns THEN ns[k].len ELSE 0)]
<1> DEFINE Ok(k) == \E f : f = [j \in 0..k |-> IF j = 0 THEN 0 ELSE f[j - 1] + Weight(ns, j)]
           T     == {k \in Nat : ~Ok(k)}
<1> SUFFICES ASSUME T # {} PROVE FALSE
  <2>1. Ok(K)
    OBVIOUS
  <2> QED BY <2>1 DEF Weight
<1>0. T \in SUBSET Nat
  OBVIOUS
<1>1. PICK y \in T : \A z \in T : z >= y
  BY <1>0, LeastOf
<1>2. y # 0
  <2> DEFINE g == [j \in 0..0 |-> 0]
  <2>1. g = [j \in 0..0 |-> IF j = 0 THEN 0 ELSE g[j - 1] + Weight(ns, j)]
    OBVIOUS
  <2>2. Ok(0)
    BY <2>1
  <2> QED BY <2>2
<1>3. Ok(y - 1)
  <2>1. y - 1 \in Nat /\ y - 1 \notin T
    <3> HIDE DEF T
    <3> QED BY <1>0, <1>1, <1>2
  <2> QED BY <2>1
<1>4. PICK f : f = [j \in 0..y - 1 |-> IF j = 0 THEN 0 ELSE f[j - 1] + Weight(ns, j)]
  BY <1>3
<1> DEFINE g == [j \in 0..y |-> IF j = y THEN f[y - 1] + Weight(ns, y) ELSE f[j]]
<1>5. g = [j \in 0..y |-> IF j = 0 THEN 0 ELSE g[j - 1] + Weight(ns, j)]
  BY <1>2, <1>4
<1>6. Ok(y)
  BY <1>5
<1> QED BY <1>6

(* The bytes are the last of the partial sums.                             *)
LEMMA BytesIs ==
  ASSUME NEW ns, Table(ns), NEW K \in Nat
  PROVE  \E f : Adds(f, ns, K) /\ Bytes(ns, K + 1) = f[K]
<1> DEFINE f == CHOOSE g : g = [k \in 0..K |->
                       IF k = 0 THEN 0 ELSE g[k - 1] + (IF k \in DOMAIN ns THEN ns[k].len ELSE 0)]
<1>1. f = [k \in 0..K |->
             IF k = 0 THEN 0 ELSE f[k - 1] + (IF k \in DOMAIN ns THEN ns[k].len ELSE 0)]
  BY SumExists
<1>2. K + 1 - 1 = K
  OBVIOUS
<1>3. Bytes(ns, K + 1) = f[K]
  BY <1>2 DEF Bytes
<1> HIDE DEF f
<1>4. Adds(f, ns, K)
  BY <1>1 DEF Adds, Weight
<1> QED BY <1>3, <1>4

(* The partial sums are numbers.                                           *)
LEMMA SumsType ==
  ASSUME NEW ns, Table(ns), NEW K \in Nat, NEW f, Adds(f, ns, K), NEW k \in 0..K
  PROVE  f[k] \in Nat
<1> DEFINE T == {j \in 0..K : f[j] \notin Nat}
<1> SUFFICES ASSUME T # {} PROVE FALSE
  OBVIOUS
<1>0. T \in SUBSET Nat
  OBVIOUS
<1>1. PICK y \in T : \A z \in T : z >= y
  BY <1>0, LeastOf
<1>2. y # 0
  BY DEF Adds
<1>3. f[y - 1] \in Nat /\ f[y] = f[y - 1] + Weight(ns, y)
  BY <1>1, <1>2 DEF Adds
<1> QED BY <1>3, WeightType

(* Two tables whose weights agree up to K, but for inode i.                *)
LEMMA SumsDiffer ==
  ASSUME NEW ns, Table(ns), NEW ms, Table(ms), NEW K \in Nat,
         NEW f, Adds(f, ns, K), NEW g, Adds(g, ms, K),
         NEW i, \A k \in 1..K : k # i => Weight(ms, k) = Weight(ns, k)
  PROVE  /\ i \notin 1..K => g[K] = f[K]
         /\ i \in 1..K => g[K] = f[K] + Weight(ms, i) - Weight(ns, i) /\ f[K] >= Weight(ns, i)
<1> DEFINE Ok(k) == /\ i \notin 1..k => g[k] = f[k]
                    /\ i \in 1..k => /\ g[k] = f[k] + Weight(ms, i) - Weight(ns, i)
                                     /\ f[k] >= Weight(ns, i)
           T == {k \in 0..K : ~Ok(k)}
<1> SUFFICES ASSUME T # {} PROVE FALSE
  OBVIOUS
<1>0. T \in SUBSET Nat
  OBVIOUS
<1>1. PICK y \in T : \A z \in T : z >= y
  BY <1>0, LeastOf
<1>2. y # 0
  BY DEF Adds
<1>3. Ok(y - 1) /\ y \in 1..K /\ y - 1 \in 0..K
  BY <1>1, <1>2
<1>4. /\ f[y] = f[y - 1] + Weight(ns, y) /\ g[y] = g[y - 1] + Weight(ms, y)
      /\ f[y - 1] \in Nat /\ g[y - 1] \in Nat
  <2>1. f[y - 1] \in Nat /\ g[y - 1] \in Nat
    BY <1>3, SumsType, Zenon
  <2> QED BY <1>3, <2>1, Zenon DEF Adds
<1>5. /\ Weight(ns, y) \in Nat /\ Weight(ms, y) \in Nat
      /\ Weight(ns, i) \in Nat /\ Weight(ms, i) \in Nat
  BY WeightType
<1>6. Ok(y)
  <2>1. CASE i = y
    BY <1>3, <1>4, <1>5, <2>1
  <2>2. CASE i # y
    <3>1. Weight(ms, y) = Weight(ns, y)
      BY <1>3, <2>2
    <3>2. i \in 1..y <=> i \in 1..y - 1
      BY <1>3, <2>2
    <3> QED BY <1>3, <1>4, <1>5, <3>1, <3>2
  <2> QED BY <2>1, <2>2
<1> QED BY <1>6

(* The bytes of a table in which one inode changed.                        *)
LEMMA BytesChanged ==
  ASSUME NEW ns, Table(ns), NEW ms, Table(ms), NEW nx \in Nat, nx >= 1,
         NEW i \in 1..nx - 1, \A k \in 1..nx - 1 : k # i => Weight(ms, k) = Weight(ns, k)
  PROVE  /\ Bytes(ms, nx) = Bytes(ns, nx) + Weight(ms, i) - Weight(ns, i)
         /\ Bytes(ms, nx) \in Nat /\ Bytes(ns, nx) \in Nat
         /\ Bytes(ns, nx) >= Weight(ns, i)
<1> DEFINE K == nx - 1
<1>1. K \in Nat /\ K + 1 = nx
  OBVIOUS
<1>2. \A k \in 1..K : k # i => Weight(ms, k) = Weight(ns, k)
  OBVIOUS
<1>3. i \in 1..K
  OBVIOUS
<1> HIDE DEF K
<1>4. PICK f : Adds(f, ns, K) /\ Bytes(ns, K + 1) = f[K]
  BY <1>1, BytesIs
<1>5. PICK g : Adds(g, ms, K) /\ Bytes(ms, K + 1) = g[K]
  BY <1>1, BytesIs
<1>6. g[K] = f[K] + Weight(ms, i) - Weight(ns, i) /\ f[K] >= Weight(ns, i)
  BY <1>1, <1>2, <1>3, <1>4, <1>5, SumsDiffer
<1>7. K \in 0..K
  BY <1>1
<1>8. f[K] \in Nat /\ g[K] \in Nat
  BY <1>1, <1>4, <1>5, <1>7, SumsType
<1> QED BY <1>1, <1>4, <1>5, <1>6, <1>8

(* The bytes of a table in which no length changed.                        *)
LEMMA BytesSame ==
  ASSUME NEW ns, Table(ns), NEW ms, Table(ms), NEW nx \in Nat, nx >= 1,
         \A k \in 1..nx - 1 : Weight(ms, k) = Weight(ns, k)
  PROVE  Bytes(ms, nx) = Bytes(ns, nx) /\ Bytes(ns, nx) \in Nat
<1> DEFINE K == nx - 1
<1>1. K \in Nat /\ K + 1 = nx
  OBVIOUS
<1>2. \A k \in 1..K : k # 0 => Weight(ms, k) = Weight(ns, k)
  OBVIOUS
<1> HIDE DEF K
<1>3. PICK f : Adds(f, ns, K) /\ Bytes(ns, K + 1) = f[K]
  BY <1>1, BytesIs
<1>4. PICK g : Adds(g, ms, K) /\ Bytes(ms, K + 1) = g[K]
  BY <1>1, BytesIs
<1>5. 0 \notin 1..K
  BY <1>1
<1>6. g[K] = f[K]
  BY <1>1, <1>2, <1>3, <1>4, <1>5, SumsDiffer
<1>7. K \in 0..K
  BY <1>1
<1>8. f[K] \in Nat
  BY <1>1, <1>3, <1>7, SumsType
<1> QED BY <1>1, <1>3, <1>4, <1>6, <1>8

(* The bytes of a table that has grown by the number nx.                   *)
LEMMA BytesGrown ==
  ASSUME NEW ns, Table(ns), NEW ms, Table(ms), NEW nx \in Nat, nx >= 1,
         \A k \in 1..nx - 1 : Weight(ms, k) = Weight(ns, k)
  PROVE  Bytes(ms, nx + 1) = Bytes(ns, nx) + Weight(ms, nx) /\ Bytes(ns, nx) \in Nat
<1> DEFINE K == nx - 1
<1>1. K \in Nat /\ K + 1 = nx
  OBVIOUS
<1>2. \A k \in 1..K : k # nx => Weight(ms, k) = Weight(ns, k)
  OBVIOUS
<1> HIDE DEF K
<1>3. PICK f : Adds(f, ns, K) /\ Bytes(ns, K + 1) = f[K]
  BY <1>1, BytesIs
<1>4. PICK g : Adds(g, ms, nx) /\ Bytes(ms, nx + 1) = g[nx]
  BY BytesIs
<1>5. Adds(g, ms, K) /\ nx \notin 1..K /\ nx \in 1..nx /\ nx - 1 = K
  <2>1. \A k \in 1..K : k \in 1..nx
    BY <1>1
  <2> QED BY <1>1, <1>4, <2>1 DEF Adds
<1>6. g[K] = f[K]
  BY <1>1, <1>2, <1>3, <1>5, SumsDiffer
<1>7. g[nx] = g[K] + Weight(ms, nx)
  BY <1>4, <1>5 DEF Adds
<1>8. K \in 0..K
  BY <1>1
<1>9. f[K] \in Nat
  BY <1>1, <1>3, <1>8, SumsType
<1> QED BY <1>1, <1>3, <1>4, <1>6, <1>7, <1>9

-----------------------------------------------------------------------------
(* Each operation keeps the invariant. *)

(* What the invariant says of numbers and bytes, for citing.               *)
LEMMA GoodIs ==
  ASSUME NEW ns, NEW nx, NEW u, Good(ns, nx, u)
  PROVE  /\ Tree(ns) /\ Table(ns) /\ Shape(ns) /\ nx \in Nat /\ nx >= 1 /\ u \in Nat /\ u <= Limit
         /\ Limit \in Nat /\ u = Bytes(ns, nx) /\ DOMAIN ns \subseteq 1..nx - 1
         /\ \A i \in DOMAIN ns : i \in Nat /\ i # nx /\ ns[i].len \in Nat
         /\ nx \notin DOMAIN ns
<1>1. Limit \in Nat
  BY FsAssumption
<1>2. Tree(ns) /\ nx \in Nat /\ u \in 0..Limit /\ u = Bytes(ns, nx) /\ DOMAIN ns \subseteq 1..nx - 1
  BY DEF Good, Tree
<1>3. Table(ns) /\ Shape(ns) /\ Root \in DOMAIN ns
  BY <1>2 DEF Tree, Shape, RootDir, IsDir
<1>4. \A i \in DOMAIN ns : ns[i].len \in Nat
  BY <1>3 DEF Table, Proper, Inode
<1>5. nx >= 1
  BY <1>2, <1>3 DEF Root
<1> QED BY <1>1, <1>2, <1>3, <1>4, <1>5

(* How the table ms differs from ns: by the new inode i; by the directory, *)
(* or the file's name, that was entry n of p.                              *)
Gained(ns, ms, i, node) ==
  /\ ms[i].kind = node.kind /\ DOMAIN ms = DOMAIN ns \cup {i}
  /\ Exact(ns) => Exact(ms)
  /\ \A j \in DOMAIN ns : IsLeaf(ns, j) => ms[j].nlink = ns[j].nlink
  /\ \A j \in DOMAIN ns : ms[j].kind = ns[j].kind
  /\ node.kind # "dir" => ms[i].nlink = 1

LostDir(ns, ms, p, n) ==
  /\ DOMAIN ms = DOMAIN ns \ {ChildIno(ns, p, n)}
  /\ \A j \in DOMAIN ms : ms[j].kind = ns[j].kind /\ ms[j].parent = ns[j].parent
  /\ \A j : IsLeaf(ms, j) => ms[j].nlink = ns[j].nlink
  /\ Exact(ns) => Exact(ms)
  /\ \A d, m, c : Edge(ms, d, m, c) <=> Edge(ns, d, m, c) /\ ~(d = p /\ m = n)

LostName(ns, ms, p, n) ==
  /\ DOMAIN ms \subseteq DOMAIN ns
  /\ ns[ChildIno(ns, p, n)].nlink = 1 => ChildIno(ns, p, n) \notin DOMAIN ms
  /\ DOMAIN ns \ DOMAIN ms \subseteq {ChildIno(ns, p, n)}
  /\ \A j \in DOMAIN ms : ms[j].kind = ns[j].kind
  /\ \A j : IsLeaf(ms, j) => ms[j].nlink <= ns[j].nlink
  /\ Exact(ns) => Exact(ms)
  /\ \A d, m, c : Edge(ms, d, m, c) <=> Edge(ns, d, m, c) /\ ~(d = p /\ m = n)

(* Allocating an inode keeps the invariant.                                *)
LEMMA GoodGrown ==
  ASSUME NEW ns, NEW nx, NEW u, Good(ns, nx, u), NEW p, NEW n \in Names, Vacant(ns, p, n),
         NEW node, NewIn(node, p), u + node.len <= Limit
  PROVE  LET ms == Grown(ns, nx, node, p, n)
         IN  Good(ms, nx + 1, u + node.len) /\ Gained(ns, ms, nx, node)
<1> DEFINE ms == Grown(ns, nx, node, p, n)
<1>1. /\ Tree(ns) /\ Table(ns) /\ nx \in Nat /\ nx >= 1 /\ u \in Nat /\ Limit \in Nat
      /\ u = Bytes(ns, nx) /\ DOMAIN ns \subseteq 1..nx - 1 /\ nx \notin DOMAIN ns
  BY GoodIs
<1>2. /\ Tree(ms) /\ DOMAIN ms = DOMAIN ns \cup {nx}
      /\ ms[nx].len = node.len /\ ms[nx].kind = node.kind
      /\ \A j \in DOMAIN ns : ms[j].len = ns[j].len /\ ms[j].kind = ns[j].kind
      /\ Exact(ns) => Exact(ms)
      /\ \A j \in DOMAIN ns : IsLeaf(ns, j) => ms[j].nlink = ns[j].nlink
      /\ node.kind # "dir" => ms[nx].nlink = 1
  <2>1. Tree(ns) /\ nx \in Nat /\ nx \notin DOMAIN ns /\ NewIn(node, p) /\ Vacant(ns, p, n)
    BY <1>1
  <2> QED BY <2>1, GrownTree, SMTT(60)
<1> HIDE DEF ms
<1>3. Table(ms)
  BY <1>2 DEF Tree
<1>4. \A k \in 1..nx - 1 : Weight(ms, k) = Weight(ns, k)
  BY <1>1, <1>2 DEF Weight
<1>5. Weight(ms, nx) = node.len /\ node.len \in Nat
  BY <1>2 DEF Weight, NewIn, Proper, Inode
<1>6. Bytes(ms, nx + 1) = u + node.len
  BY <1>1, <1>3, <1>4, <1>5, BytesGrown
<1>7. DOMAIN ms \subseteq 1..(nx + 1) - 1 /\ nx + 1 \in Nat /\ u + node.len \in 0..Limit
  BY <1>1, <1>2, <1>5
<1>8. Good(ms, nx + 1, u + node.len)
  BY <1>2, <1>6, <1>7 DEF Good, Tree
<1>9. Gained(ns, ms, nx, node)
  BY <1>2 DEF Gained
<1> QED BY <1>8, <1>9 DEF ms

(* Changes that leave the numbers and the lengths.                         *)
LEMMA GoodSame ==
  ASSUME NEW ns, NEW nx, NEW u, Good(ns, nx, u), NEW ms, Tree(ms), SameKinds(ns, ms),
         SameLens(ns, ms)
  PROVE  Good(ms, nx, u)
<1>1. /\ Table(ns) /\ nx \in Nat /\ nx >= 1 /\ u \in 0..Limit
      /\ u = Bytes(ns, nx) /\ DOMAIN ns \subseteq 1..nx - 1 /\ Table(ms)
  BY GoodIs DEF Tree, Good
<1>2. \A k \in 1..nx - 1 : Weight(ms, k) = Weight(ns, k)
  BY DEF Weight, SameKinds, SameLens
<1>3. Bytes(ms, nx) = u
  BY <1>1, <1>2, BytesSame
<1> QED BY <1>1, <1>3 DEF Good, Tree, SameKinds

(* Changes that leave the numbers and change a length.                     *)
LEMMA GoodResized ==
  ASSUME NEW ns, NEW nx, NEW u, Good(ns, nx, u), NEW i, IsLeaf(ns, i), NEW v \in Nat,
         u + v - ns[i].len <= Limit
  PROVE  LET ms == [ns EXCEPT ![i].len = v]
         IN  /\ Good(ms, nx, (u + v) - ns[i].len) /\ SameKinds(ns, ms) /\ SameLinks(ns, ms)
             /\ Exact(ns) => Exact(ms)
             /\ u >= ns[i].len
<1> DEFINE ms == [ns EXCEPT ![i].len = v]
<1>1. /\ Tree(ns) /\ Table(ns) /\ nx \in Nat /\ nx >= 1 /\ u \in Nat /\ Limit \in Nat
      /\ u = Bytes(ns, nx) /\ DOMAIN ns \subseteq 1..nx - 1
      /\ i \in DOMAIN ns /\ ns[i].len \in Nat
  BY GoodIs DEF IsLeaf
<1>2. /\ Tree(ms) /\ SameKinds(ns, ms) /\ SameLinks(ns, ms)
      /\ ms[i].len = v /\ \A j \in DOMAIN ns \ {i} : ms[j].len = ns[j].len
      /\ Exact(ns) => Exact(ms)
  BY <1>1, ResizedTree
<1> HIDE DEF ms
<1>3. Table(ms)
  BY <1>2 DEF Tree
<1>4. \A k \in 1..nx - 1 : k # i => Weight(ms, k) = Weight(ns, k)
  BY <1>1, <1>2 DEF Weight, SameKinds
<1>5. Weight(ms, i) = v /\ Weight(ns, i) = ns[i].len
  BY <1>1, <1>2 DEF Weight, SameKinds
<1>6. /\ Bytes(ms, nx) = Bytes(ns, nx) + Weight(ms, i) - Weight(ns, i)
      /\ Bytes(ms, nx) \in Nat /\ Bytes(ns, nx) >= Weight(ns, i)
  BY <1>1, <1>3, <1>4, BytesChanged
<1>7. Bytes(ms, nx) = (u + v) - ns[i].len /\ (u + v) - ns[i].len \in 0..Limit /\ u >= ns[i].len
  BY <1>1, <1>5, <1>6
<1>8. Good(ms, nx, (u + v) - ns[i].len)
  BY <1>1, <1>2, <1>7 DEF Good, Tree, SameKinds
<1> QED BY <1>2, <1>7, <1>8 DEF ms

(* rmdir keeps it.                                                         *)
LEMMA GoodRmdir ==
  ASSUME NEW ns, NEW nx, NEW u, Good(ns, nx, u), NEW p, NEW n, CanRmdir(ns, p, n)
  PROVE  LET ms == AfterRmdir(ns, p, n)
         IN  Good(ms, nx, u) /\ LostDir(ns, ms, p, n)
<1> DEFINE ms == AfterRmdir(ns, p, n)
           i  == ChildIno(ns, p, n)
<1>1. /\ Tree(ns) /\ Table(ns) /\ nx \in Nat /\ nx >= 1 /\ u \in 0..Limit
      /\ u = Bytes(ns, nx) /\ DOMAIN ns \subseteq 1..nx - 1
  BY GoodIs DEF Good
<1>2. /\ Tree(ms) /\ DOMAIN ms = DOMAIN ns \ {i} /\ ns[i].len = 0
      /\ \A j \in DOMAIN ms : ms[j].len = ns[j].len /\ ms[j].kind = ns[j].kind
      /\ \A j \in DOMAIN ms : ms[j].parent = ns[j].parent
      /\ \A j : IsLeaf(ms, j) => ms[j].nlink = ns[j].nlink
      /\ \A d, m, c : Edge(ms, d, m, c) <=> Edge(ns, d, m, c) /\ ~(d = p /\ m = n)
      /\ Exact(ns) => Exact(ms)
  BY <1>1, RmdirTree
<1> HIDE DEF ms, i
<1>3. Table(ms)
  BY <1>2 DEF Tree
<1>4. \A k \in 1..nx - 1 : Weight(ms, k) = Weight(ns, k)
  BY <1>1, <1>2 DEF Weight
<1>5. Bytes(ms, nx) = u
  BY <1>1, <1>3, <1>4, BytesSame
<1>6. Good(ms, nx, u)
  BY <1>1, <1>2, <1>5 DEF Good, Tree
<1>7. LostDir(ns, ms, p, n)
  BY <1>2 DEF LostDir, i
<1> QED BY <1>6, <1>7 DEF ms

(* unlink keeps it, and frees the bytes of the last name only.             *)
LEMMA GoodUnlink ==
  ASSUME NEW ns, NEW nx, NEW u, Good(ns, nx, u), NEW p, NEW n, CanUnlink(ns, p, n)
  PROVE  LET ms == AfterUnlink(ns, p, n)
         IN  Good(ms, nx, u - FreedBy(ns, p, n)) /\ LostName(ns, ms, p, n)
<1> DEFINE ms == AfterUnlink(ns, p, n)
           i  == ChildIno(ns, p, n)
           freed == FreedBy(ns, p, n)
<1>1. /\ Tree(ns) /\ Table(ns) /\ nx \in Nat /\ nx >= 1 /\ u \in Nat /\ u <= Limit /\ Limit \in Nat
      /\ u = Bytes(ns, nx) /\ DOMAIN ns \subseteq 1..nx - 1
  BY GoodIs
<1>2. i \in DOMAIN ns
  BY DEF CanUnlink, IsLeaf
<1>3. /\ Tree(ms)
      /\ DOMAIN ms = IF ns[i].nlink = 1 THEN DOMAIN ns \ {i} ELSE DOMAIN ns
      /\ \A j \in DOMAIN ms : ms[j].len = ns[j].len /\ ms[j].kind = ns[j].kind
      /\ \A j : IsLeaf(ms, j) => ms[j].nlink <= ns[j].nlink
      /\ ns[i].nlink \in Nat /\ ns[i].nlink >= 1 /\ ns[i].len \in Nat
      /\ \A d, m, c : Edge(ms, d, m, c) <=> Edge(ns, d, m, c) /\ ~(d = p /\ m = n)
      /\ Exact(ns) => Exact(ms)
  BY <1>1, UnlinkTree
<1>4. freed = IF ns[i].nlink <= 1 THEN ns[i].len ELSE 0
  BY DEF FreedBy
<1> HIDE DEF ms, i, freed
<1>5. Table(ms)
  BY <1>3 DEF Tree
<1>6. \A k \in 1..nx - 1 : k # i => Weight(ms, k) = Weight(ns, k)
  BY <1>1, <1>3 DEF Weight
<1>7. Weight(ns, i) = ns[i].len /\ Weight(ms, i) = ns[i].len - freed
  BY <1>2, <1>3, <1>4 DEF Weight
<1>8. i \in 1..nx - 1
  BY <1>1, <1>2
<1>9. /\ Bytes(ms, nx) = Bytes(ns, nx) + Weight(ms, i) - Weight(ns, i)
      /\ Bytes(ms, nx) \in Nat
  BY <1>1, <1>5, <1>6, <1>8, BytesChanged
<1>10. Bytes(ms, nx) = u - freed /\ u - freed \in 0..Limit
  BY <1>1, <1>3, <1>4, <1>7, <1>9
<1>11. DOMAIN ms \subseteq DOMAIN ns /\ DOMAIN ns \ DOMAIN ms \subseteq {i}
  BY <1>3
<1>12. Good(ms, nx, u - freed)
  BY <1>1, <1>3, <1>10, <1>11 DEF Good, Tree
<1>13. LostName(ns, ms, p, n)
  BY <1>3, <1>11 DEF LostName, i
<1> QED BY <1>12, <1>13 DEF ms, freed

(* A rename onto a name that is free.                                      *)
LEMMA GoodMoved ==
  ASSUME NEW ns, NEW nx, NEW u, Good(ns, nx, u), NEW p, NEW n, Occupied(ns, p, n),
         NEW q, NEW m \in Names, Vacant(ns, q, m),
         IsDir(ns, ChildIno(ns, p, n)) =>
           \E A : q \in A /\ ChildIno(ns, p, n) \notin A /\ UpClosed(ns, A)
  PROVE  LET ms == Moved(ns, p, n, q, m, ChildIno(ns, p, n))
         IN  /\ Good(ms, nx, u) /\ SameKinds(ns, ms)
             /\ \A j : IsLeaf(ms, j) => IsLeaf(ns, j) /\ ms[j].nlink = ns[j].nlink
             /\ \A j : IsDir(ms, j) => IsDir(ns, j)
             /\ Exact(ns) => Exact(ms)
             /\ EdgeMoved(ns, ms, p, n, q, m, ChildIno(ns, p, n))
<1> DEFINE i  == ChildIno(ns, p, n)
           ms == Moved(ns, p, n, q, m, i)
<1>1. Tree(ns) /\ i \in DOMAIN ns /\ i \in Nat /\ q \in Nat
  BY GoodIs, OccupiedIs DEF Vacant, IsDir
<1>2. CASE IsLeaf(ns, i)
  <2>1. /\ Tree(ms) /\ SameKinds(ns, ms) /\ SameLens(ns, ms) /\ SameLinks(ns, ms)
        /\ Exact(ns) => Exact(ms)
        /\ EdgeMoved(ns, ms, p, n, q, m, i)
    BY <1>1, <1>2, MovedLeafTree
  <2> HIDE DEF ms, i
  <2>2. Good(ms, nx, u)
    BY <2>1, GoodSame
  <2>3. \A j : IsLeaf(ms, j) => IsLeaf(ns, j) /\ ms[j].nlink = ns[j].nlink
    BY <2>1 DEF SameKinds, SameLinks, IsLeaf
  <2>4. \A j : IsDir(ms, j) => IsDir(ns, j)
    BY <2>1, KindsAgree
  <2> QED BY <2>1, <2>2, <2>3, <2>4 DEF ms, i
<1>3. CASE IsDir(ns, i)
  <2>1. PICK A : q \in A /\ i \notin A /\ UpClosed(ns, A)
    BY <1>3
  <2>2. /\ Tree(ms) /\ SameKinds(ns, ms) /\ SameLens(ns, ms)
        /\ \A j : IsLeaf(ms, j) => ms[j].nlink = ns[j].nlink
        /\ Exact(ns) => Exact(ms)
        /\ EdgeMoved(ns, ms, p, n, q, m, i)
    BY <1>1, <1>3, <2>1, MovedDirTree
  <2> HIDE DEF ms, i
  <2>3. Good(ms, nx, u)
    BY <2>2, GoodSame
  <2>4. \A j : (IsLeaf(ms, j) => IsLeaf(ns, j)) /\ (IsDir(ms, j) => IsDir(ns, j))
    BY <2>2, KindsAgree
  <2> QED BY <2>2, <2>3, <2>4 DEF ms, i
<1> QED BY <1>1, <1>2, <1>3 DEF IsLeaf, IsDir

-----------------------------------------------------------------------------
(* The actions. *)

(* No inode becomes a directory; the next number may be that of a new one. *)
DirsKept == \A d : IsDir(nodes', d) /\ d # next => IsDir(nodes, d)

(* What every operation of the filesystem keeps: numbers are handed out    *)
(* once.                                                                   *)
Keeps ==
  /\ FsInv' /\ DirsKept
  /\ next' \in {next, next + 1}
  /\ DOMAIN nodes' \subseteq DOMAIN nodes \cup {next}

(* No file has a second name.                                              *)
Singles(ns) == \A i : IsLeaf(ns, i) => ns[i].nlink = 1

(* What new_dir, new_file and new_symlink make.                            *)
LEMMA NewNodes ==
  /\ \A p \in Nat : NewIn(NewDir(p), p) /\ NewDir(p).len = 0 /\ NewDir(p).kind = "dir"
  /\ \A p, l \in Nat : NewIn(NewFile(l), p) /\ NewFile(l).len = l /\ NewFile(l).kind = "file"
  /\ \A p \in Nat, t \in Target :
       /\ NewIn(NewSymlink(t), p) /\ NewSymlink(t).len = Len(t.comps) /\ Len(t.comps) \in Nat
       /\ NewSymlink(t).kind = "symlink"
<1>1. NoTarget \in Target
  BY DEF NoTarget, Target, Comps
<1>2. NoNames \in EntryMap
  BY NoNamesIs
<1> HIDE DEF NoNames
<1>3. ASSUME NEW p \in Nat PROVE NewIn(NewDir(p), p) /\ NewDir(p).len = 0 /\ NewDir(p).kind = "dir"
  BY <1>1, <1>2 DEF NewDir, NewNode, NewIn, Proper, Inode
<1>4. ASSUME NEW p \in Nat, NEW l \in Nat
      PROVE  NewIn(NewFile(l), p) /\ NewFile(l).len = l /\ NewFile(l).kind = "file"
  BY <1>1, <1>2 DEF NewFile, NewNode, NewIn, Proper, Inode, NoParent
<1>5. ASSUME NEW p \in Nat, NEW t \in Target
      PROVE  /\ NewIn(NewSymlink(t), p) /\ NewSymlink(t).len = Len(t.comps)
             /\ Len(t.comps) \in Nat /\ NewSymlink(t).kind = "symlink"
  <2>1. Len(t.comps) \in Nat
    BY DEF Target, Comps
  <2> QED BY <1>2, <2>1 DEF NewSymlink, NewNode, NewIn, Proper, Inode, NoParent
<1> QED BY <1>3, <1>4, <1>5

(* allocate, as mkdir, create and symlink call it, keeps it.               *)
LEMMA AllocateKeeps ==
  ASSUME FsInv, NEW p, NEW n \in Names, NEW node, NewIn(node, p),
         Allocate(node, p, n), used + node.len <= Limit, used' = used + node.len
  PROVE  /\ Keeps /\ (Exact(nodes) => Exact(nodes')) /\ (Singles(nodes) => Singles(nodes'))
<1> DEFINE ms == Grown(nodes, next, node, p, n)
<1>1. /\ Good(nodes, next, used) /\ Vacant(nodes, p, n) /\ next <= MaxIno
      /\ next' = next + 1 /\ nodes' = ms
  BY DEF FsInv, Allocate
<1>2. Good(ms, next + 1, used + node.len) /\ Gained(nodes, ms, next, node)
  BY <1>1, GoodGrown
<1> HIDE DEF ms
<1>3. Singles(nodes) => Singles(ms)
  BY <1>2 DEF Singles, IsLeaf, Gained
<1>4. next \in Nat /\ MaxIno \in Nat
  BY <1>1, GoodIs, FsAssumption
<1>5. FsInv'
  BY <1>1, <1>2, <1>4 DEF FsInv
<1> QED BY <1>1, <1>2, <1>3, <1>5 DEF Keeps, Gained, DirsKept, IsDir

(* mkdir keeps the invariant.                                              *)
LEMMA MkdirKeeps ==
  ASSUME FsInv, NEW p, NEW n \in Names, Mkdir(p, n)
  PROVE  /\ Keeps /\ (Exact(nodes) => Exact(nodes')) /\ (Singles(nodes) => Singles(nodes'))
<1>1. p \in Nat /\ used \in Nat /\ used <= Limit
  BY GoodIs DEF FsInv, Mkdir, Allocate, Vacant, IsDir
<1>2. NewIn(NewDir(p), p) /\ NewDir(p).len = 0
  BY <1>1, NewNodes
<1>3. used + NewDir(p).len <= Limit /\ used' = used + NewDir(p).len /\ Allocate(NewDir(p), p, n)
  BY <1>1, <1>2 DEF Mkdir
<1> QED BY <1>2, <1>3, AllocateKeeps

(* create keeps it.                                                        *)
LEMMA CreateKeeps ==
  ASSUME FsInv, NEW p, NEW n \in Names, Create(p, n)
  PROVE  /\ Keeps /\ (Exact(nodes) => Exact(nodes')) /\ (Singles(nodes) => Singles(nodes'))
<1>1. p \in Nat /\ used \in Nat /\ used <= Limit
  BY GoodIs DEF FsInv, Create, Allocate, Vacant, IsDir
<1>2. NewIn(NewFile(0), p) /\ NewFile(0).len = 0
  BY <1>1, NewNodes
<1>3. used + NewFile(0).len <= Limit /\ used' = used + NewFile(0).len /\ Allocate(NewFile(0), p, n)
  BY <1>1, <1>2 DEF Create
<1> QED BY <1>2, <1>3, AllocateKeeps

(* symlink, which counts its target against the limit first.               *)
LEMMA SymlinkKeeps ==
  ASSUME FsInv, NEW p, NEW n \in Names, NEW t \in Targets, Symlink(p, n, t)
  PROVE  /\ Keeps /\ (Exact(nodes) => Exact(nodes')) /\ (Singles(nodes) => Singles(nodes'))
<1>1. p \in Nat /\ used \in Nat /\ used <= Limit
  BY GoodIs DEF FsInv, Symlink, Allocate, Vacant, IsDir
<1>2. NewIn(NewSymlink(t), p) /\ NewSymlink(t).len = Len(t.comps)
  BY <1>1, NewNodes, PathsAssumption
<1>3. /\ used + NewSymlink(t).len <= Limit /\ used' = used + NewSymlink(t).len
      /\ Allocate(NewSymlink(t), p, n)
  BY <1>1, <1>2 DEF Symlink, Fits
<1> QED BY <1>2, <1>3, AllocateKeeps

(* link, after which a file may have a second name.                        *)
LEMMA LinkKeeps ==
  ASSUME FsInv, NEW p, NEW n \in Names, NEW i, Link(i, p, n)
  PROVE  Keeps /\ (Exact(nodes) => Exact(nodes'))
<1> DEFINE ms == [InsertEntry(nodes, p, n, i) EXCEPT ![i].nlink = @ + 1]
<1>1. /\ Good(nodes, next, used) /\ Tree(nodes) /\ Vacant(nodes, p, n) /\ IsLeaf(nodes, i)
      /\ i \in Nat /\ nodes' = ms /\ next' = next /\ used' = used
  BY GoodIs DEF FsInv, Link, IsLeaf
<1>2. Tree(ms) /\ SameKinds(nodes, ms) /\ SameLens(nodes, ms) /\ (Exact(nodes) => Exact(ms))
  BY <1>1, LinkedTree
<1> HIDE DEF ms
<1>3. Good(ms, next, used)
  BY <1>1, <1>2, GoodSame
<1>4. FsInv'
  BY <1>1, <1>3 DEF FsInv
<1> QED BY <1>1, <1>2, <1>4 DEF Keeps, SameKinds, DirsKept, IsDir

(* rmdir keeps it.                                                         *)
LEMMA RmdirKeeps ==
  ASSUME FsInv, NEW p, NEW n, Rmdir(p, n)
  PROVE  /\ Keeps /\ (Exact(nodes) => Exact(nodes')) /\ (Singles(nodes) => Singles(nodes'))
<1> DEFINE ms == AfterRmdir(nodes, p, n)
<1>1. /\ Good(nodes, next, used) /\ CanRmdir(nodes, p, n)
      /\ nodes' = ms /\ next' = next /\ used' = used
  BY DEF FsInv, Rmdir
<1>2. Good(ms, next, used) /\ LostDir(nodes, ms, p, n)
  BY <1>1, GoodRmdir
<1> HIDE DEF ms
<1>3. Singles(nodes) => Singles(ms)
  BY <1>2 DEF Singles, IsLeaf, LostDir
<1>4. FsInv'
  BY <1>1, <1>2 DEF FsInv
<1> QED BY <1>1, <1>2, <1>3, <1>4 DEF Keeps, LostDir, DirsKept, IsDir

(* Taking a name away gives no file a second one.                          *)
LEMMA SinglesLost ==
  ASSUME NEW ns, Singles(ns), NEW ms, NEW nx, NEW u, Good(ms, nx, u),
         NEW p, NEW n, LostName(ns, ms, p, n)
  PROVE  Singles(ms)
<1> SUFFICES ASSUME NEW j, IsLeaf(ms, j) PROVE ms[j].nlink = 1
  BY DEF Singles
<1>1. ns[j].nlink = 1 /\ ms[j].nlink <= ns[j].nlink
  BY DEF Singles, IsLeaf, LostName
<1>2. ms[j].nlink \in Nat /\ ms[j].nlink >= 1
  BY GoodIs DEF Table, Proper, Inode, IsLeaf
<1> QED BY <1>1, <1>2

(* unlink keeps it.                                                        *)
LEMMA UnlinkKeeps ==
  ASSUME FsInv, NEW p, NEW n, Unlink(p, n)
  PROVE  /\ Keeps /\ (Exact(nodes) => Exact(nodes')) /\ (Singles(nodes) => Singles(nodes'))
<1> DEFINE ms == AfterUnlink(nodes, p, n)
           u == used - FreedBy(nodes, p, n)
<1>1. /\ Good(nodes, next, used) /\ CanUnlink(nodes, p, n)
      /\ nodes' = ms /\ next' = next /\ used' = u
  BY DEF FsInv, Unlink
<1>2. Good(ms, next, u) /\ LostName(nodes, ms, p, n)
  BY <1>1, GoodUnlink
<1> HIDE DEF ms, u
<1>3. Singles(nodes) => Singles(ms)
  BY <1>2, SinglesLost
<1>4. FsInv'
  BY <1>1, <1>2 DEF FsInv
<1> QED BY <1>1, <1>2, <1>3, <1>4 DEF Keeps, LostName, DirsKept, IsDir

(* A file of another length within the limit.                              *)
LEMMA ResizeKeeps ==
  ASSUME FsInv, NEW i, IsLeaf(nodes, i), NEW l \in Nat, used + l - nodes[i].len <= Limit,
         Resize(i, l)
  PROVE  /\ Keeps /\ (Exact(nodes) => Exact(nodes')) /\ (Singles(nodes) => Singles(nodes'))
<1> DEFINE ms == [nodes EXCEPT ![i].len = l]
           u  == (used + l) - nodes[i].len
<1>1. /\ Good(nodes, next, used) /\ nodes' = ms /\ next' = next /\ used' = u
  BY DEF FsInv, Resize
<1>2. /\ Good(ms, next, u) /\ SameKinds(nodes, ms) /\ SameLinks(nodes, ms)
      /\ Exact(nodes) => Exact(ms)
  BY <1>1, GoodResized
<1> HIDE DEF ms, u
<1>3. Singles(nodes) => Singles(ms)
  BY <1>2 DEF Singles, IsLeaf, SameKinds, SameLinks
<1>4. FsInv'
  BY <1>1, <1>2 DEF FsInv
<1> QED BY <1>1, <1>2, <1>3, <1>4 DEF Keeps, SameKinds, DirsKept, IsDir

(* write keeps it.                                                         *)
LEMMA WriteKeeps ==
  ASSUME FsInv, NEW i, i \in DOMAIN nodes, nodes[i].kind = "file",
         NEW offset \in Nat, NEW l \in Nat, Write(i, offset, l)
  PROVE  /\ Keeps /\ (Exact(nodes) => Exact(nodes')) /\ (Singles(nodes) => Singles(nodes'))
<1> DEFINE end == IF offset + l > nodes[i].len THEN offset + l ELSE nodes[i].len
<1>1. nodes[i].len \in Nat /\ used \in Nat /\ Limit \in Nat
  BY GoodIs DEF FsInv
<1>2. end \in Nat /\ IsLeaf(nodes, i)
  BY <1>1 DEF IsLeaf
<1>3. used + (end - nodes[i].len) <= Limit /\ Resize(i, end)
  BY DEF Write, Fits
<1> HIDE DEF end
<1>4. used + end - nodes[i].len <= Limit
  BY <1>1, <1>2, <1>3
<1> QED BY <1>2, <1>3, <1>4, ResizeKeeps

(* setattr with a size.                                                    *)
LEMMA SetattrKeeps ==
  ASSUME FsInv, NEW i, i \in DOMAIN nodes, NEW size \in Nat, Setattr(i, size)
  PROVE  /\ Keeps /\ (Exact(nodes) => Exact(nodes')) /\ (Singles(nodes) => Singles(nodes'))
<1>1. nodes[i].len \in Nat /\ used \in Nat /\ Limit \in Nat /\ used <= Limit
  BY GoodIs DEF FsInv
<1>2. IsLeaf(nodes, i) /\ Resize(i, size)
  BY DEF Setattr, Truncate, IsLeaf
<1>3. used + size - nodes[i].len <= Limit
  BY <1>1 DEF Setattr, Truncate, Fits
<1> QED BY <1>2, <1>3, ResizeKeeps

(* The names a rename is between are names of one file.                    *)
OneFile(ns, p, n, q, m) == Occupied(ns, q, m) /\ ChildIno(ns, q, m) = ChildIno(ns, p, n)

(* Where files have one name each, no two names are of one file.           *)
LEMMA SinglesApart ==
  ASSUME NEW ns, Tree(ns), Singles(ns), NEW p, NEW n, Occupied(ns, p, n), NEW q, NEW m,
         OneFile(ns, p, n, q, m)
  PROVE  p = q /\ n = m
<1> DEFINE i == ChildIno(ns, p, n)
<1>1. Edge(ns, p, n, i) /\ Edge(ns, q, m, i) /\ i \in DOMAIN ns
  BY OccupiedIs DEF OneFile
<1> HIDE DEF i
<1>2. CASE IsDir(ns, i)
  BY <1>1, <1>2 DEF Tree, Shape, ParentsTrue, OneName
<1>3. CASE IsLeaf(ns, i)
  <2>1. IsFiniteSet(Holders(ns, i)) /\ Cardinality(Holders(ns, i)) <= 1
    BY <1>3 DEF Tree, LeafLinks, Singles
  <2> QED BY <1>1, <2>1, HoldersLast
<1> QED BY <1>1, <1>2, <1>3 DEF IsDir, IsLeaf

(* The directories above q hold neither the directory that moves there nor *)
(* the empty one it replaces.                                              *)
LEMMA AboveTarget ==
  ASSUME NEW ns, NEW nx, NEW u, Good(ns, nx, u), nx <= MaxIno + 1,
         NEW q, IsDir(ns, q), NEW src, ~IsAncestorOrSelf(ns, src, q)
  PROVE  \E A : q \in A /\ src \notin A /\ UpClosed(ns, A)
<1>1. DOMAIN ns \subseteq Inos
  <2>1. nx \in Nat /\ MaxIno \in Nat /\ DOMAIN ns \subseteq 1..nx - 1
    BY GoodIs, FsAssumption
  <2>2. 1..nx - 1 \subseteq Inos
    BY <2>1 DEF Inos
  <2> QED BY <2>1, <2>2
<1>2. Shape(ns)
  BY GoodIs
<1>3. PICK A \in SUBSET Climb(ns, q) : q \in A /\ UpClosed(ns, A)
  BY <1>1, <1>2, ClimbCloses
<1>4. src \notin A
  BY <1>3 DEF IsAncestorOrSelf
<1> QED BY <1>3, <1>4

(* Without the empty directory that is replaced, the directories above the *)
(* target still hold the parents of each other.                            *)
LEMMA AboveStays ==
  ASSUME NEW ns, Shape(ns), NEW q, NEW m, Edge(ns, q, m, ChildIno(ns, q, m)),
         ChildIno(ns, q, m) # Root, \A x, c : ~Edge(ns, ChildIno(ns, q, m), x, c),
         NEW ms, LostDir(ns, ms, q, m), NEW A, q \in A, UpClosed(ns, A)
  PROVE  LET B == A \ {ChildIno(ns, q, m)} IN q \in B /\ UpClosed(ms, B)
<1> DEFINE dst == ChildIno(ns, q, m)
           B   == A \ {dst}
<1>1. /\ Edge(ns, q, m, dst) /\ dst # Root /\ \A x, c : ~Edge(ns, dst, x, c)
      /\ DOMAIN ms = DOMAIN ns \ {dst}
      /\ \A j \in DOMAIN ms : ms[j].kind = ns[j].kind /\ ms[j].parent = ns[j].parent
  BY DEF LostDir
<1> HIDE DEF dst
<1>2. q # dst
  BY <1>1
<1>3. ASSUME NEW c \in B PROVE IsDir(ms, c) /\ ms[c].parent \in B
  <2>1. IsDir(ns, c) /\ ns[c].parent \in A /\ c # dst
    BY <1>3 DEF UpClosed
  <2>2. IsDir(ms, c) /\ ms[c].parent = ns[c].parent
    BY <1>1, <2>1 DEF IsDir
  <2>3. ns[c].parent # dst
    <3>1. CASE c = Root
      BY <1>1, <3>1 DEF Shape, RootDir
    <3>2. CASE c # Root
      <4>1. PICK x : Edge(ns, ns[c].parent, x, c)
        BY <2>1, <3>2 DEF Shape, Named
      <4> QED BY <1>1, <4>1
    <3> QED BY <3>1, <3>2
  <2> QED BY <2>1, <2>2, <2>3
<1>4. q \in B /\ UpClosed(ms, B)
  BY <1>2, <1>3 DEF UpClosed
<1> QED BY <1>4 DEF dst

(* What rmdir removes has no entries.                                      *)
LEMMA EmptyDir ==
  ASSUME NEW ns, Tree(ns), NEW q, NEW m, CanRmdir(ns, q, m)
  PROVE  \A x, c : ~Edge(ns, ChildIno(ns, q, m), x, c)
  BY NoNamesIs DEF CanRmdir, Edge

(* The source is still where it was once the target is gone.               *)
LEMMA SourceStays ==
  ASSUME NEW ns, NEW ms, Tree(ns), Tree(ms), NEW p, NEW n, Occupied(ns, p, n),
         NEW q, NEW m, << p, n >> # << q, m >>, IsDir(ms, q), IsDir(ms, p),
         \A d, x, c : Edge(ms, d, x, c) <=> Edge(ns, d, x, c) /\ ~(d = q /\ x = m)
  PROVE  /\ Occupied(ms, p, n) /\ ChildIno(ms, p, n) = ChildIno(ns, p, n)
         /\ Vacant(ms, q, m)
<1>1. Edge(ns, p, n, ChildIno(ns, p, n))
  BY OccupiedIs
<1>2. Edge(ms, p, n, ChildIno(ns, p, n))
  BY <1>1
<1>3. Occupied(ms, p, n) /\ ChildIno(ms, p, n) = ChildIno(ns, p, n)
  BY <1>2 DEF Occupied, ChildIno, Edge
<1>4. ~Occupied(ms, q, m)
  <2> SUFFICES ASSUME Occupied(ms, q, m) PROVE FALSE
    OBVIOUS
  <2>1. Edge(ms, q, m, ChildIno(ms, q, m))
    BY OccupiedIs
  <2> QED BY <2>1
<1> QED BY <1>3, <1>4 DEF Occupied, Vacant


(* What a rename that is not of two names of one file leaves of the table. *)
Renamed(ns, ms) ==
  /\ DOMAIN ms \subseteq DOMAIN ns
  /\ \A d : IsDir(ms, d) => IsDir(ns, d)
  /\ Exact(ns) => Exact(ms)
  /\ Singles(ns) => Singles(ms)

(* What it leaves of the entries: all but the one that moves and the one   *)
(* it replaces, whose inode is gone.                                       *)
Arrived(ns, ms, p, n, q, m, i) ==
  /\ \A j \in DOMAIN ms : j \in DOMAIN ns /\ ms[j].kind = ns[j].kind
  /\ IsDir(ms, p) /\ IsDir(ms, q)
  /\ Edge(ms, q, m, i)
  /\ \A d, x, c : Edge(ns, d, x, c) /\ ~(d = p /\ x = n) /\ ~(d = q /\ x = m) => Edge(ms, d, x, c)
  /\ Singles(ns) => \A c : Edge(ns, q, m, c) => c \notin DOMAIN ms

(* rename onto a free name.                                                *)
LEMMA MovedKeeps ==
  ASSUME NEW ns, NEW nx, NEW u, Good(ns, nx, u), NEW p, NEW n, Occupied(ns, p, n),
         NEW q, NEW m \in Names, Vacant(ns, q, m),
         IsDir(ns, ChildIno(ns, p, n)) =>
           \E A : q \in A /\ ChildIno(ns, p, n) \notin A /\ UpClosed(ns, A)
  PROVE  LET ms == Moved(ns, p, n, q, m, ChildIno(ns, p, n))
         IN  /\ Good(ms, nx, u) /\ Renamed(ns, ms)
             /\ Arrived(ns, ms, p, n, q, m, ChildIno(ns, p, n))
<1> DEFINE ms == Moved(ns, p, n, q, m, ChildIno(ns, p, n))
<1>1. /\ Good(ms, nx, u) /\ SameKinds(ns, ms)
      /\ \A j : IsLeaf(ms, j) => IsLeaf(ns, j) /\ ms[j].nlink = ns[j].nlink
      /\ \A j : IsDir(ms, j) => IsDir(ns, j)
      /\ Exact(ns) => Exact(ms)
      /\ EdgeMoved(ns, ms, p, n, q, m, ChildIno(ns, p, n))
  BY GoodMoved
<1> HIDE DEF ms
<1>2. Singles(ns) => Singles(ms)
  BY <1>1 DEF Singles
<1>3. Renamed(ns, ms)
  BY <1>1, <1>2 DEF Renamed, SameKinds
<1>4. \A c : ~Edge(ns, q, m, c)
  BY DEF Vacant, Edge
<1>5. Arrived(ns, ms, p, n, q, m, ChildIno(ns, p, n))
  BY <1>1, <1>4 DEF Arrived, EdgeMoved, SameKinds, Occupied, Vacant, IsDir
<1> QED BY <1>1, <1>3, <1>5 DEF ms

(* rename of a directory over an empty one.                                *)
LEMMA OverDirKeeps ==
  ASSUME NEW ns, NEW nx, NEW u, Good(ns, nx, u), nx <= MaxIno + 1, NEW p, NEW n, Occupied(ns, p, n),
         NEW q, NEW m \in Names, CanRmdir(ns, q, m), << p, n >> # << q, m >>,
         ChildIno(ns, q, m) # ChildIno(ns, p, n),
         ~IsAncestorOrSelf(ns, ChildIno(ns, p, n), q)
  PROVE  LET ms == Moved(AfterRmdir(ns, q, m), p, n, q, m, ChildIno(ns, p, n))
         IN  /\ Good(ms, nx, u) /\ Renamed(ns, ms)
             /\ Arrived(ns, ms, p, n, q, m, ChildIno(ns, p, n))
<1> DEFINE src == ChildIno(ns, p, n)
           dst == ChildIno(ns, q, m)
           ts  == AfterRmdir(ns, q, m)
           ms  == Moved(ts, p, n, q, m, src)
<1>1. Good(ts, nx, u) /\ LostDir(ns, ts, q, m)
  BY GoodRmdir
<1>2. /\ Tree(ns) /\ Tree(ts) /\ Occupied(ns, q, m) /\ IsDir(ns, p) /\ IsDir(ns, q)
      /\ Shape(ns)
  BY <1>1, GoodIs DEF CanRmdir, Occupied
<1> HIDE DEF ts
<1>3. /\ Edge(ns, q, m, dst) /\ dst # Root /\ \A x, c : ~Edge(ns, dst, x, c)
  BY <1>2, OccupiedIs, EmptyDir
<1>4. PICK A : q \in A /\ src \notin A /\ UpClosed(ns, A)
  BY <1>2, AboveTarget
<1>5. q \in A \ {dst} /\ UpClosed(ts, A \ {dst})
  BY <1>1, <1>2, <1>3, <1>4, AboveStays
<1>6. IsDir(ts, q) /\ IsDir(ts, p)
  <2>1. Edge(ns, p, n, src)
    BY <1>2, OccupiedIs
  <2>2. p # dst /\ q # dst
    BY <1>3, <2>1
  <2> QED BY <1>1, <1>2, <2>2 DEF LostDir, IsDir
<1>7. Occupied(ts, p, n) /\ ChildIno(ts, p, n) = src /\ Vacant(ts, q, m)
  <2>1. \A d, x, c : Edge(ts, d, x, c) <=> Edge(ns, d, x, c) /\ ~(d = q /\ x = m)
    BY <1>1 DEF LostDir
  <2> HIDE DEF src
  <2>2. /\ Occupied(ts, p, n) /\ ChildIno(ts, p, n) = ChildIno(ns, p, n)
        /\ Vacant(ts, q, m)
    BY <1>2, <1>6, <2>1, SourceStays
  <2> QED BY <2>2 DEF src
<1>8. Good(ms, nx, u) /\ Renamed(ts, ms) /\ Arrived(ts, ms, p, n, q, m, src)
  <2>1. \E B : q \in B /\ ChildIno(ts, p, n) \notin B /\ UpClosed(ts, B)
    BY <1>4, <1>5, <1>7
  <2>2. LET xs == Moved(ts, p, n, q, m, ChildIno(ts, p, n))
        IN  /\ Good(xs, nx, u) /\ Renamed(ts, xs)
            /\ Arrived(ts, xs, p, n, q, m, ChildIno(ts, p, n))
    BY <1>1, <1>7, <2>1, MovedKeeps
  <2> QED BY <1>7, <2>2
<1> HIDE DEF ms
<1>9. Renamed(ns, ms)
  <2>1. /\ DOMAIN ts \subseteq DOMAIN ns /\ (Exact(ns) => Exact(ts))
        /\ \A d : IsDir(ts, d) => IsDir(ns, d)
    BY <1>1 DEF LostDir, IsDir
  <2>2. Singles(ns) => Singles(ts)
    BY <1>1 DEF LostDir, Singles, IsLeaf
  <2> QED BY <1>8, <2>1, <2>2 DEF Renamed
<1>10. Arrived(ns, ms, p, n, q, m, src)
  <2>1. /\ \A d, x, c : Edge(ns, d, x, c) /\ ~(d = q /\ x = m) => Edge(ts, d, x, c)
        /\ \A j \in DOMAIN ts : j \in DOMAIN ns /\ ts[j].kind = ns[j].kind
        /\ dst \notin DOMAIN ts
    BY <1>1 DEF LostDir
  <2>2. DOMAIN ms \subseteq DOMAIN ts
    BY <1>8 DEF Renamed
  <2>3. \A c : Edge(ns, q, m, c) => c = dst
    BY <1>2, OccupiedIs
  <2> HIDE DEF dst, src
  <2> QED BY <1>8, <2>1, <2>2, <2>3 DEF Arrived
<1> QED BY <1>8, <1>9, <1>10 DEF ms, ts

(* rename of a file over another.                                          *)
LEMMA OverFileKeeps ==
  ASSUME NEW ns, NEW nx, NEW u, Good(ns, nx, u), NEW p, NEW n, Occupied(ns, p, n),
         NEW q, NEW m \in Names, CanUnlink(ns, q, m), << p, n >> # << q, m >>,
         ChildIno(ns, q, m) # ChildIno(ns, p, n), IsLeaf(ns, ChildIno(ns, p, n))
  PROVE  LET ms == Moved(AfterUnlink(ns, q, m), p, n, q, m, ChildIno(ns, p, n))
         IN  /\ Good(ms, nx, u - FreedBy(ns, q, m)) /\ Renamed(ns, ms)
             /\ Arrived(ns, ms, p, n, q, m, ChildIno(ns, p, n))
<1> DEFINE src == ChildIno(ns, p, n)
           dst == ChildIno(ns, q, m)
           ts  == AfterUnlink(ns, q, m)
           v   == u - FreedBy(ns, q, m)
           ms  == Moved(ts, p, n, q, m, src)
<1>1. Good(ts, nx, v) /\ LostName(ns, ts, q, m)
  BY GoodUnlink
<1> HIDE DEF ts, v
<1>2. /\ Tree(ns) /\ Tree(ts) /\ Occupied(ns, q, m) /\ IsDir(ns, p) /\ IsDir(ns, q)
      /\ IsLeaf(ns, dst)
  BY <1>1, GoodIs DEF CanUnlink, Occupied
<1> HIDE DEF dst
<1>3. IsDir(ts, q) /\ IsDir(ts, p) /\ IsLeaf(ts, src)
  <2>1. p # dst /\ q # dst
    BY <1>2 DEF IsDir, IsLeaf
  <2>2. DOMAIN ns \ DOMAIN ts \subseteq {dst} /\ \A j \in DOMAIN ts : ts[j].kind = ns[j].kind
    BY <1>1 DEF LostName, dst
  <2>3. src # dst
    BY DEF dst
  <2> QED BY <1>2, <2>1, <2>2, <2>3 DEF IsDir, IsLeaf
<1>4. Occupied(ts, p, n) /\ ChildIno(ts, p, n) = src /\ Vacant(ts, q, m)
  <2>1. \A d, x, c : Edge(ts, d, x, c) <=> Edge(ns, d, x, c) /\ ~(d = q /\ x = m)
    BY <1>1 DEF LostName
  <2> HIDE DEF src
  <2>2. /\ Occupied(ts, p, n) /\ ChildIno(ts, p, n) = ChildIno(ns, p, n)
        /\ Vacant(ts, q, m)
    BY <1>2, <1>3, <2>1, SourceStays
  <2> QED BY <2>2 DEF src
<1>5. Good(ms, nx, v) /\ Renamed(ts, ms) /\ Arrived(ts, ms, p, n, q, m, src)
  <2>1. ~IsDir(ts, ChildIno(ts, p, n))
    BY <1>3, <1>4 DEF IsDir, IsLeaf
  <2>2. LET xs == Moved(ts, p, n, q, m, ChildIno(ts, p, n))
        IN  /\ Good(xs, nx, v) /\ Renamed(ts, xs)
            /\ Arrived(ts, xs, p, n, q, m, ChildIno(ts, p, n))
    BY <1>1, <1>4, <2>1, MovedKeeps
  <2> QED BY <1>4, <2>2
<1> HIDE DEF ms
<1>6. Renamed(ns, ms)
  <2>1. /\ DOMAIN ts \subseteq DOMAIN ns /\ (Exact(ns) => Exact(ts))
        /\ \A d : IsDir(ts, d) => IsDir(ns, d)
    BY <1>1 DEF LostName, IsDir
  <2>2. Singles(ns) => Singles(ts)
    BY <1>1, SinglesLost
  <2> QED BY <1>5, <2>1, <2>2 DEF Renamed
<1>7. Arrived(ns, ms, p, n, q, m, src)
  <2>1. /\ \A d, x, c : Edge(ns, d, x, c) /\ ~(d = q /\ x = m) => Edge(ts, d, x, c)
        /\ \A j \in DOMAIN ts : j \in DOMAIN ns /\ ts[j].kind = ns[j].kind
        /\ ns[dst].nlink = 1 => dst \notin DOMAIN ts
    BY <1>1 DEF LostName, dst
  <2>2. DOMAIN ms \subseteq DOMAIN ts
    BY <1>5 DEF Renamed
  <2>3. \A c : Edge(ns, q, m, c) => c = dst
    BY <1>2, OccupiedIs DEF dst
  <2>4. Singles(ns) => ns[dst].nlink = 1
    BY <1>2 DEF Singles
  <2> HIDE DEF src
  <2> QED BY <1>5, <2>1, <2>2, <2>3, <2>4 DEF Arrived
<1> QED BY <1>5, <1>6, <1>7 DEF ms, ts, v

(* rename, in each of its cases.                                           *)
LEMMA RenameKeeps ==
  ASSUME FsInv, NEW p, NEW n, NEW q, NEW m \in Names, Rename(p, n, q, m)
  PROVE  /\ Keeps
         /\ Exact(nodes) /\ ~OneFile(nodes, p, n, q, m) => Exact(nodes')
         /\ Singles(nodes) => Singles(nodes') /\ ~OneFile(nodes, p, n, q, m)
         /\ Singles(nodes) => Arrived(nodes, nodes', p, n, q, m, ChildIno(nodes, p, n))
<1> DEFINE src == ChildIno(nodes, p, n)
           dst == ChildIno(nodes, q, m)
<1>1. /\ Good(nodes, next, used) /\ next <= MaxIno + 1 /\ next' = next /\ Tree(nodes)
      /\ << p, n >> # << q, m >> /\ Occupied(nodes, p, n) /\ IsDir(nodes, q)
      /\ IsDir(nodes, src) => ~IsAncestorOrSelf(nodes, src, q)
  BY GoodIs DEF FsInv, Rename
<1>2. Singles(nodes) => ~OneFile(nodes, p, n, q, m)
  <2>1. ~(p = q /\ n = m)
    BY <1>1
  <2> QED BY <1>1, <2>1, SinglesApart
<1>3. ASSUME Good(nodes', next, used'), Renamed(nodes, nodes'),
             Arrived(nodes, nodes', p, n, q, m, src)
      PROVE  /\ Keeps
             /\ Exact(nodes) /\ ~OneFile(nodes, p, n, q, m) => Exact(nodes')
             /\ Singles(nodes) => Singles(nodes') /\ ~OneFile(nodes, p, n, q, m)
             /\ Singles(nodes) => Arrived(nodes, nodes', p, n, q, m, src)
  BY <1>1, <1>2, <1>3 DEF Keeps, Renamed, FsInv, DirsKept
<1>4. CASE /\ Vacant(nodes, q, m)
           /\ nodes' = Moved(nodes, p, n, q, m, src)
           /\ UNCHANGED used
  <2>1. IsDir(nodes, src) => \E A : q \in A /\ src \notin A /\ UpClosed(nodes, A)
    BY <1>1, AboveTarget
  <2>2. Good(nodes', next, used') /\ Renamed(nodes, nodes') /\ Arrived(nodes, nodes', p, n, q, m, src)
    BY <1>1, <1>4, <2>1, MovedKeeps
  <2> QED BY <1>3, <2>2
<1>5. CASE /\ Occupied(nodes, q, m) /\ dst = src
           /\ nodes' = RemoveEntry(nodes, p, n)
           /\ UNCHANGED used
  <2>1. OneFile(nodes, p, n, q, m)
    BY <1>5 DEF OneFile
  <2>2. IsLeaf(nodes, src)
    <3>1. Edge(nodes, p, n, src) /\ Edge(nodes, q, m, src) /\ src \in DOMAIN nodes
      BY <1>1, <1>5, OccupiedIs
    <3>2. ~IsDir(nodes, src)
      BY <1>1, <3>1 DEF Tree, Shape, ParentsTrue, OneName
    <3> QED BY <3>1, <3>2 DEF IsDir, IsLeaf
  <2>3. Tree(nodes') /\ SameKinds(nodes, nodes') /\ SameLens(nodes, nodes')
    BY <1>1, <1>5, <2>2, SameFileTree
  <2>4. Good(nodes', next, used')
    BY <1>1, <1>5, <2>3, GoodSame
  <2> QED BY <1>1, <1>2, <2>1, <2>3, <2>4 DEF Keeps, FsInv, SameKinds, DirsKept, IsDir
<1>6. CASE /\ CanRmdir(nodes, q, m) /\ dst # src /\ IsDir(nodes, src)
           /\ nodes' = Moved(AfterRmdir(nodes, q, m), p, n, q, m, src)
           /\ UNCHANGED used
  <2>1. Good(nodes', next, used') /\ Renamed(nodes, nodes') /\ Arrived(nodes, nodes', p, n, q, m, src)
    BY <1>1, <1>6, OverDirKeeps
  <2> QED BY <1>3, <2>1
<1>7. CASE /\ CanUnlink(nodes, q, m) /\ dst # src /\ IsLeaf(nodes, src)
           /\ nodes' = Moved(AfterUnlink(nodes, q, m), p, n, q, m, src)
           /\ used' = used - FreedBy(nodes, q, m)
  <2>1. Good(nodes', next, used') /\ Renamed(nodes, nodes') /\ Arrived(nodes, nodes', p, n, q, m, src)
    BY <1>1, <1>7, OverFileKeeps
  <2> QED BY <1>3, <2>1
<1> QED BY <1>4, <1>5, <1>6, <1>7 DEF Rename

-----------------------------------------------------------------------------
(* devdev_fs_write: each directory made and the file written keep the      *)
(* invariant, wherever the path leads and wherever it fails.               *)

Disk(d) == d = [nodes |-> d.nodes, next |-> d.next, used |-> d.used, at |-> d.at]

GoodDisk(d) ==
  /\ Disk(d) /\ Good(d.nodes, d.next, d.used)
  /\ d.at = 0 \/ IsDir(d.nodes, d.at)

(* A table that has what another has: its directories, under their parents, *)
(* and its entries.                                                        *)
Kept(ns, ms) ==
  /\ \A i : IsDir(ns, i) => IsDir(ms, i) /\ ms[i].parent = ns[i].parent
  /\ \A d, n, c : Edge(ns, d, n, c) => Edge(ms, d, n, c)

(* A component of a path is an edge, or leads to the parent.               *)
LEMMA StepEdge ==
  ASSUME NEW ns, Tree(ns), NEW i, NEW n \in Names, NEW c, Edge(ns, i, n, c)
  PROVE  Occupied(ns, i, n) /\ ChildIno(ns, i, n) = c /\ Step(ns, i, n) = c
<1>1. IsDir(ns, i) /\ n \in DOMAIN ns[i].entries /\ ns[i].entries[n] = c
  BY DEF Tree, Shape, EdgesDown, Edge
<1>2. n # DotDot
  BY NameIs
<1> QED BY <1>1, <1>2 DEF Occupied, ChildIno, Step

(* So it leads where it led before.                                        *)
LEMMA StepKept ==
  ASSUME NEW ns, NEW ms, Tree(ns), Tree(ms), Kept(ns, ms), NEW i, IsDir(ns, i), NEW c,
         Step(ns, i, c) # 0
  PROVE  Step(ms, i, c) = Step(ns, i, c)
<1>1. CASE c = DotDot
  BY <1>1 DEF Step, Kept
<1>2. CASE c # DotDot
  <2>1. Occupied(ns, i, c) /\ Step(ns, i, c) = ChildIno(ns, i, c)
    BY <1>2 DEF Step
  <2>2. Edge(ns, i, c, ChildIno(ns, i, c)) /\ c \in Names
    BY <2>1, OccupiedIs
  <2>3. Edge(ms, i, c, ChildIno(ns, i, c))
    BY <2>2 DEF Kept
  <2> QED BY <2>1, <2>2, <2>3, StepEdge
<1> QED BY <1>1, <1>2

(* A new inode keeps what there was.                                       *)
Added(ns, ms, p, n, i, node) ==
  /\ Tree(ms) /\ Kept(ns, ms) /\ EdgeAdded(ns, ms, p, n, i) /\ Step(ms, p, n) = i
  /\ DOMAIN ms = DOMAIN ns \cup {i} /\ ms[i].kind = node.kind /\ ms[i].len = node.len
  /\ \A j \in DOMAIN ns : ms[j].kind = ns[j].kind

LEMMA GrownKept ==
  ASSUME NEW ns, Tree(ns), NEW nx \in Nat, nx \notin DOMAIN ns, NEW p, NEW n \in Names,
         Vacant(ns, p, n), NEW node, NewIn(node, p)
  PROVE  Added(ns, Grown(ns, nx, node, p, n), p, n, nx, node)
<1> DEFINE ms == Grown(ns, nx, node, p, n)
<1>2. /\ Table(ms) /\ DOMAIN ms = DOMAIN ns \cup {nx}
      /\ ms[nx].kind = node.kind /\ ms[nx].parent = node.parent
      /\ ms[nx].len = node.len /\ ms[nx].nlink = node.nlink
      /\ \A j \in DOMAIN ns : /\ ms[j].kind = ns[j].kind /\ ms[j].parent = ns[j].parent
                              /\ ms[j].len = ns[j].len
      /\ \A j \in DOMAIN ns : j # p => ms[j].nlink = ns[j].nlink
      /\ ms[p].nlink = IF node.kind = "dir" THEN ns[p].nlink + 1 ELSE ns[p].nlink
      /\ EdgeAdded(ns, ms, p, n, nx)
  <2> HIDE DEF ms
  <2> QED BY GrownIs DEF ms
<1>3. Tree(ms)
  BY GrownTree
<1> HIDE DEF ms
<1>4. Kept(ns, ms)
  BY <1>2 DEF Kept, EdgeAdded, IsDir
<1>5. Edge(ms, p, n, nx)
  BY <1>2 DEF EdgeAdded
<1>6. Step(ms, p, n) = nx
  BY <1>3, <1>5, StepEdge
<1> QED BY <1>2, <1>3, <1>4, <1>6 DEF Added, ms

(* A trail is a path from the root that passes directories only: up to     *)
(* component k it is at w[k].                                              *)
Trail(ns, cs, K, w) ==
  /\ w[0] = Root
  /\ \A k \in 1..K : w[k] # 0 /\ w[k] = Step(ns, w[k - 1], cs[k]) /\ IsDir(ns, w[k])

LEMMA TrailKept ==
  ASSUME NEW ns, NEW ms, Tree(ns), Tree(ms), Kept(ns, ms), NEW cs, NEW K \in Nat,
         NEW w, Trail(ns, cs, K, w)
  PROVE  Trail(ms, cs, K, w)
<1> SUFFICES ASSUME NEW k \in 1..K
             PROVE  w[k] # 0 /\ w[k] = Step(ms, w[k - 1], cs[k]) /\ IsDir(ms, w[k])
  BY DEF Trail
<1>1. w[k] # 0 /\ w[k] = Step(ns, w[k - 1], cs[k]) /\ IsDir(ns, w[k])
  BY DEF Trail
<1>2. IsDir(ns, w[k - 1])
  <2>1. CASE k = 1
    BY <2>1 DEF Trail, Tree, Shape, RootDir
  <2>2. CASE k # 1
    <3>1. k - 1 \in 1..K
      BY <2>2
    <3> QED BY <3>1 DEF Trail
  <2> QED BY <2>1, <2>2
<1>3. Step(ms, w[k - 1], cs[k]) = Step(ns, w[k - 1], cs[k])
  BY <1>1, <1>2, StepKept
<1> QED BY <1>1, <1>3 DEF Kept

(* One component more.                                                     *)
LEMMA TrailOn ==
  ASSUME NEW ns, NEW cs, NEW K \in Nat, NEW w, Trail(ns, cs, K, w),
         NEW b, b # 0, b = Step(ns, w[K], cs[K + 1]), IsDir(ns, b)
  PROVE  \E v : Trail(ns, cs, K + 1, v) /\ v[K + 1] = b
<1> DEFINE v == [k \in 0..K + 1 |-> IF k = K + 1 THEN b ELSE w[k]]
<1>1. v[K + 1] = b /\ \A k \in 0..K : v[k] = w[k]
  OBVIOUS
<1> HIDE DEF v
<1>2. v[0] = Root
  BY <1>1 DEF Trail
<1>3. ASSUME NEW k \in 1..K + 1
      PROVE  v[k] # 0 /\ v[k] = Step(ns, v[k - 1], cs[k]) /\ IsDir(ns, v[k])
  <2>1. CASE k = K + 1
    <3>1. k - 1 = K /\ K \in 0..K
      BY <2>1
    <3> QED BY <1>1, <2>1, <3>1
  <2>2. CASE k # K + 1
    <3>1. k \in 1..K /\ k \in 0..K /\ k - 1 \in 0..K
      BY <2>2
    <3> QED BY <1>1, <3>1 DEF Trail
  <2> QED BY <2>1, <2>2
<1> QED BY <1>1, <1>2, <1>3 DEF Trail

(* A component c that mkdir_p enters or makes leads there then.            *)
Enters(d, e, c) ==
  e.at # 0 => d.at # 0 /\ Kept(d.nodes, e.nodes) /\ e.at = Step(e.nodes, d.at, c)

LEMMA MkdirStepKeeps ==
  ASSUME NEW d, GoodDisk(d), NEW c \in Names \cup {DotDot}
  PROVE  GoodDisk(MkdirStep(d, c)) /\ Enters(d, MkdirStep(d, c), c)
<1>1. PICK N, x, u, a : d = [nodes |-> N, next |-> x, used |-> u, at |-> a]
  BY DEF GoodDisk, Disk
<1>2. d.nodes = N /\ d.next = x /\ d.used = u /\ d.at = a
  BY <1>1
<1>3. Good(N, x, u) /\ (a = 0 \/ IsDir(N, a))
  BY <1>2 DEF GoodDisk
<1>4. Tree(N) /\ Shape(N) /\ 0 \notin DOMAIN N /\ u \in Nat /\ u <= Limit /\ x \in Nat
  BY <1>3, GoodIs
<1>5. ASSUME NEW b, b = 0 \/ (IsDir(N, b) /\ a # 0 /\ Step(N, a, c) = b),
             MkdirStep(d, c) = [d EXCEPT !.at = b]
      PROVE  GoodDisk(MkdirStep(d, c)) /\ Enters(d, MkdirStep(d, c), c)
  <2>1. MkdirStep(d, c) = [nodes |-> N, next |-> x, used |-> u, at |-> b]
    BY <1>1, <1>5
  <2>2. Kept(N, N)
    BY DEF Kept
  <2> QED BY <1>2, <1>3, <1>5, <2>1, <2>2 DEF GoodDisk, Disk, Enters
<1>6. CASE a = 0
  <2>1. MkdirStep(d, c) = d
    BY <1>2, <1>6 DEF MkdirStep
  <2> QED BY <1>2, <1>6, <2>1 DEF Enters
<1>7. CASE a # 0 /\ c = DotDot
  <2> DEFINE b == Step(N, a, c)
  <2>1. MkdirStep(d, c) = [d EXCEPT !.at = b]
    BY <1>2, <1>7 DEF MkdirStep
  <2>2. IsDir(N, b)
    BY <1>3, <1>4, <1>7, ParentIsDir DEF Step, Shape, RootDir
  <2> QED BY <1>5, <1>7, <2>1, <2>2
<1>8. CASE a # 0 /\ c # DotDot /\ Occupied(N, a, c)
  <2> DEFINE b == IF IsDir(N, ChildIno(N, a, c)) THEN ChildIno(N, a, c) ELSE 0
  <2>1. MkdirStep(d, c) = [d EXCEPT !.at = b]
    BY <1>2, <1>8 DEF MkdirStep
  <2>2. Step(N, a, c) = ChildIno(N, a, c)
    BY <1>8 DEF Step
  <2>3. b = 0 \/ (IsDir(N, b) /\ a # 0 /\ Step(N, a, c) = b)
    BY <1>8, <2>2
  <2> HIDE DEF b
  <2> QED BY <1>5, <2>1, <2>3
<1>9. CASE a # 0 /\ c # DotDot /\ ~Occupied(N, a, c)
  <2> DEFINE M == Grown(N, x, NewDir(a), a, c)
  <2>1. IsDir(N, a) /\ Vacant(N, a, c) /\ c \in Names /\ a \in Nat
    BY <1>3, <1>9, GoodIs DEF Vacant, Occupied, IsDir
  <2>2. MkdirStep(d, c) = [d EXCEPT !.nodes = Grown(@, x, NewDir(a), a, c), !.next = @ + 1, !.at = x]
    BY <1>2, <1>9 DEF MkdirStep
  <2>3. MkdirStep(d, c) = [nodes |-> M, next |-> x + 1, used |-> u, at |-> x]
    BY <1>1, <2>2
  <2>4. /\ NewIn(NewDir(a), a) /\ NewDir(a).len = 0 /\ NewDir(a).kind = "dir"
        /\ u + NewDir(a).len = u /\ u + NewDir(a).len <= Limit
    <3>1. NewIn(NewDir(a), a) /\ NewDir(a).len = 0 /\ NewDir(a).kind = "dir"
      BY <2>1, NewNodes
    <3> QED BY <1>4, <3>1
  <2>5. Good(M, x + 1, u + NewDir(a).len) /\ Gained(N, M, x, NewDir(a))
    BY <1>3, <2>1, <2>4, GoodGrown
  <2>6. Added(N, M, a, c, x, NewDir(a))
    BY <1>3, <1>4, <2>1, <2>4, GoodIs, GrownKept
  <2> HIDE DEF M
  <2>7. Good(M, x + 1, u) /\ IsDir(M, x)
    BY <2>4, <2>5 DEF Gained, IsDir
  <2>8. GoodDisk(MkdirStep(d, c))
    BY <2>3, <2>7 DEF GoodDisk, Disk
  <2>9. Enters(d, MkdirStep(d, c), c)
    BY <1>2, <1>9, <2>3, <2>6 DEF Enters, Added
  <2> QED BY <2>8, <2>9
<1> QED BY <1>6, <1>7, <1>8, <1>9

(* What mkdir_p has reached is where a trail ends.                         *)
Made(d, cs, k) == d.at # 0 => \E w : Trail(d.nodes, cs, k, w) /\ w[k] = d.at

LEMMA MadeOn ==
  ASSUME NEW d, GoodDisk(d), NEW e, GoodDisk(e), NEW cs, NEW k \in Nat, Made(d, cs, k),
         Enters(d, e, cs[k + 1])
  PROVE  Made(e, cs, k + 1)
<1> SUFFICES ASSUME e.at # 0 PROVE \E v : Trail(e.nodes, cs, k + 1, v) /\ v[k + 1] = e.at
  BY DEF Made
<1>1. d.at # 0 /\ Kept(d.nodes, e.nodes) /\ e.at = Step(e.nodes, d.at, cs[k + 1])
  BY DEF Enters
<1>2. PICK w : Trail(d.nodes, cs, k, w) /\ w[k] = d.at
  BY <1>1 DEF Made
<1>3. Tree(d.nodes) /\ Tree(e.nodes) /\ IsDir(e.nodes, e.at)
  BY GoodIs DEF GoodDisk
<1>4. Trail(e.nodes, cs, k, w)
  BY <1>1, <1>2, <1>3, TrailKept
<1> QED BY <1>1, <1>2, <1>3, <1>4, TrailOn

(* mkdir_p, by induction on the components.                                *)
LEMMA MkdirPKeeps ==
  ASSUME FsInv, NEW comps, Len(comps) \in Nat,
         \A k \in 1..Len(comps) : comps[k] \in Names \cup {DotDot}
  PROVE  GoodDisk(MkdirP(comps)) /\ Made(MkdirP(comps), comps, Len(comps))
<1> DEFINE start == [nodes |-> nodes, next |-> next, used |-> used, at |-> Root]
           K     == Len(comps)
           Ok(k) == \E f : /\ f = [j \in 0..k |-> IF j = 0 THEN start
                                                  ELSE MkdirStep(f[j - 1], comps[j])]
                           /\ GoodDisk(f[k]) /\ Made(f[k], comps, k)
           T     == {k \in 0..K : ~Ok(k)}
<1>1. GoodDisk(start) /\ Made(start, comps, 0)
  <2>1. GoodDisk(start)
    BY GoodIs DEF FsInv, GoodDisk, Disk, Shape, RootDir
  <2>2. Trail(start.nodes, comps, 0, [k \in {0} |-> Root])
    BY DEF Trail
  <2> QED BY <2>1, <2>2 DEF Made
<1> HIDE DEF start
<1>2. T = {}
  <2> SUFFICES ASSUME T # {} PROVE FALSE
    OBVIOUS
  <2>1. T \in SUBSET Nat
    OBVIOUS
  <2>2. PICK y \in T : \A z \in T : z >= y
    BY <2>1, LeastOf
  <2>3. y # 0
    <3> DEFINE g == [j \in 0..0 |-> start]
    <3>1. g = [j \in 0..0 |-> IF j = 0 THEN start ELSE MkdirStep(g[j - 1], comps[j])]
      OBVIOUS
    <3>2. g[0] = start
      OBVIOUS
    <3> HIDE DEF g
    <3>3. Ok(0)
      BY <1>1, <3>1, <3>2
    <3> QED BY <3>3
  <2>4. y \in 1..K /\ y - 1 \in 0..K
    BY <2>2, <2>3
  <2>5. Ok(y - 1)
    <3>1. y - 1 \notin T
      <4> HIDE DEF T
      <4> QED BY <2>1, <2>2, <2>4
    <3> QED BY <2>4, <3>1
  <2>6. PICK f : /\ f = [j \in 0..y - 1 |-> IF j = 0 THEN start
                                            ELSE MkdirStep(f[j - 1], comps[j])]
                 /\ GoodDisk(f[y - 1]) /\ Made(f[y - 1], comps, y - 1)
    BY <2>5
  <2> DEFINE g == [j \in 0..y |-> IF j = y THEN MkdirStep(f[y - 1], comps[y]) ELSE f[j]]
  <2>7. ASSUME NEW j \in 0..y PROVE g[j] = IF j = 0 THEN start ELSE MkdirStep(g[j - 1], comps[j])
    <3>1. CASE j = y
      <4>1. g[j] = MkdirStep(f[y - 1], comps[y]) /\ g[y - 1] = f[y - 1]
        BY <2>4, <3>1
      <4> QED BY <2>4, <3>1, <4>1
    <3>2. CASE j # y
      <4>1. j \in 0..y - 1 /\ (j # 0 => j - 1 \in 0..y - 1)
        BY <2>4, <3>2
      <4>2. g[j] = f[j] /\ (j # 0 => g[j - 1] = f[j - 1])
        BY <2>4, <3>2, <4>1
      <4> QED BY <2>6, <4>1, <4>2
    <3> QED BY <3>1, <3>2
  <2>8. g = [j \in 0..y |-> IF j = 0 THEN start ELSE MkdirStep(g[j - 1], comps[j])]
    <3> HIDE DEF g
    <3>1. g = [j \in 0..y |-> g[j]]
      BY DEF g
    <3> QED BY <2>7, <3>1
  <2>9. GoodDisk(g[y]) /\ Made(g[y], comps, y)
    <3>1. g[y] = MkdirStep(f[y - 1], comps[y])
      BY <2>4
    <3> HIDE DEF g
    <3>2. GoodDisk(g[y]) /\ Enters(f[y - 1], g[y], comps[y])
      BY <2>4, <2>6, <3>1, MkdirStepKeeps
    <3>3. y - 1 \in Nat /\ (y - 1) + 1 = y
      BY <2>4
    <3>4. Made(g[y], comps, (y - 1) + 1)
      BY <2>6, <3>2, <3>3, MadeOn
    <3> QED BY <3>2, <3>3, <3>4
  <2>10. Ok(y)
    <3> HIDE DEF g
    <3> QED BY <2>8, <2>9
  <2> QED BY <2>10
<1>3. Ok(K)
  <2>1. K \in 0..K
    OBVIOUS
  <2> QED BY <1>2, <2>1
<1> DEFINE disk == CHOOSE f : f = [k \in 0..K |-> IF k = 0 THEN start
                                                  ELSE MkdirStep(f[k - 1], comps[k])]
<1>4. MkdirP(comps) = disk[K]
  BY DEF MkdirP, start
<1>5. PICK f : /\ f = [j \in 0..K |-> IF j = 0 THEN start ELSE MkdirStep(f[j - 1], comps[j])]
               /\ GoodDisk(f[K]) /\ Made(f[K], comps, K)
  BY <1>3
<1>6. disk = [j \in 0..K |-> IF j = 0 THEN start ELSE MkdirStep(disk[j - 1], comps[j])]
  BY <1>5
<1> HIDE DEF disk
<1>7. disk[K] = f[K]
  <2> DEFINE U == {k \in 0..K : disk[k] # f[k]}
  <2> SUFFICES ASSUME U # {} PROVE FALSE
    OBVIOUS
  <2>1. U \in SUBSET Nat
    OBVIOUS
  <2>2. PICK y \in U : \A z \in U : z >= y
    BY <2>1, LeastOf
  <2>3. y # 0
    BY <1>5, <1>6
  <2>4. y - 1 \in 0..K /\ y \in 0..K
    BY <2>2, <2>3
  <2>5. y - 1 \notin U
    <3> HIDE DEF U
    <3> QED BY <2>1, <2>2, <2>4
  <2>6. disk[y - 1] = f[y - 1]
    BY <2>4, <2>5
  <2>7. disk[y] = f[y]
    BY <1>5, <1>6, <2>3, <2>4, <2>6
  <2> QED BY <2>2, <2>7
<1> QED BY <1>4, <1>5, <1>7

(* The front of a sequence.                                                *)
LEMMA FrontIs ==
  ASSUME NEW S, NEW s \in Seq(S), Len(s) >= 1
  PROVE  Len(Front(s)) = Len(s) - 1 /\ \A k \in 1..Len(s) - 1 : Front(s)[k] = s[k]
<1> DEFINE K == Len(s) - 1
<1>1. Len(s) \in Nat /\ K \in Nat /\ K <= Len(s)
  OBVIOUS
<1>2. Front(s) = SubSeq(s, 1, K)
  BY DEF Front
<1>3. \A k \in 1..K : s[k] \in S
  BY <1>1
<1> HIDE DEF K
<1>4. /\ Len(SubSeq(s, 1, K)) = (IF 1 <= K THEN K - 1 + 1 ELSE 0)
      /\ \A k \in 1..K - 1 + 1 : SubSeq(s, 1, K)[k] = s[1 + k - 1]
  BY <1>1, <1>3, SubSeqProperties
<1>5. Len(SubSeq(s, 1, K)) = K /\ \A k \in 1..K : SubSeq(s, 1, K)[k] = s[k]
  BY <1>1, <1>4
<1> QED BY <1>2, <1>5 DEF K

(* The parts of a path devdev_fs_write is given.                           *)
LEMMA PathParts ==
  ASSUME NEW comps \in Comps \ {<< >>}
  PROVE  /\ Len(Front(comps)) \in Nat
         /\ \A k \in 1..Len(Front(comps)) : Front(comps)[k] \in Names \cup {DotDot}
         /\ Last(comps) \in Names \cup {DotDot}
<1>1. comps \in Seq(Names \cup {DotDot}) /\ Len(comps) \in Nat /\ Len(comps) >= 1
  BY DEF Comps
<1>2. Len(Front(comps)) = Len(comps) - 1 /\ \A k \in 1..Len(comps) - 1 : Front(comps)[k] = comps[k]
  BY <1>1, FrontIs
<1>3. \A k \in 1..Len(comps) : comps[k] \in Names \cup {DotDot}
  BY <1>1
<1> QED BY <1>1, <1>2, <1>3 DEF Last

(* write_path, whichever of its ways out it takes.                         *)
LEMMA WritePathKeeps ==
  ASSUME NEW d, GoodDisk(d), NEW comps \in Comps \ {<< >>}, NEW l \in Nat
  PROVE  LET e == WritePath(d, comps, l) IN Good(e.nodes, e.next, e.used)
<1>1. PICK N, x, u, a : d = [nodes |-> N, next |-> x, used |-> u, at |-> a]
  BY DEF GoodDisk, Disk
<1>2. d.nodes = N /\ d.next = x /\ d.used = u /\ d.at = a
  BY <1>1
<1>3. Good(N, x, u)
  BY <1>2 DEF GoodDisk
<1>4. Tree(N) /\ u \in Nat /\ u <= Limit /\ Limit \in Nat /\ x \in Nat
  BY <1>3, GoodIs
<1> DEFINE e == WritePath(d, comps, l)
           p == Resolve(N, Front(comps), TRUE)
           n == Last(comps)
           i == ChildIno(N, p, n)
<1>5. n \in Names \cup {DotDot}
  BY PathParts
<1>6. CASE e = [d EXCEPT !.at = 0]
  <2>1. e.nodes = N /\ e.next = x /\ e.used = u
    BY <1>1, <1>6
  <2> QED BY <1>3, <2>1
<1>7. CASE n # DotDot /\ Occupied(N, p, n) /\ N[i].kind = "file"
  <2> DEFINE old   == N[i].len
             write == [d EXCEPT !.nodes[i].len = l, !.at = i, !.used = (u + l) - old]
             empty == [d EXCEPT !.nodes[i].len = 0, !.used = @ - old, !.at = 0]
  <2>1. e = IF write.used <= Limit THEN write ELSE empty
    BY <1>2, <1>7 DEF WritePath, NewLen
  <2>2. IsLeaf(N, i) /\ old \in Nat
    <3>1. i \in DOMAIN N
      BY <1>4, <1>7, OccupiedIs
    <3> QED BY <1>3, <1>7, <3>1, GoodIs DEF IsLeaf
  <2>3. /\ write.nodes = [N EXCEPT ![i].len = l] /\ write.next = x /\ write.used = (u + l) - old
        /\ empty.nodes = [N EXCEPT ![i].len = 0] /\ empty.next = x /\ empty.used = u - old
    BY <1>1
  <2>4. CASE write.used <= Limit
    <3>1. e = write
      BY <2>1, <2>4
    <3> HIDE DEF e, write, empty, i, old
    <3>2. u + l - old <= Limit
      BY <1>4, <2>2, <2>3, <2>4
    <3> USE DEF old
    <3>3. Good([N EXCEPT ![i].len = l], x, (u + l) - N[i].len)
      BY <1>3, <2>2, <3>2, GoodResized
    <3> QED BY <2>3, <3>1, <3>3 DEF e
  <2>5. CASE ~(write.used <= Limit)
    <3>1. e = empty
      BY <2>1, <2>5
    <3> HIDE DEF e, write, empty, i
    <3>2. u + 0 - N[i].len <= Limit /\ (u + 0) - N[i].len = u - N[i].len
      BY <1>4, <2>2
    <3>3. Good([N EXCEPT ![i].len = 0], x, (u + 0) - N[i].len)
      BY <1>3, <2>2, <3>2, GoodResized
    <3> QED BY <2>3, <3>1, <3>2, <3>3 DEF e
  <2> QED BY <2>4, <2>5
<1>8. CASE n # DotDot /\ ~Occupied(N, p, n) /\ IsDir(N, p)
  <2> DEFINE len == IF u + l <= Limit THEN l ELSE 0
  <2>1. Vacant(N, p, n) /\ n \in Names /\ len \in Nat /\ p \in Nat /\ u + len <= Limit
    <3> HIDE DEF p, n
    <3>1. p \in Nat
      BY <1>3, <1>8, GoodIs DEF IsDir
    <3>2. Vacant(N, p, n) /\ n \in Names
      BY <1>5, <1>8 DEF Vacant, Occupied
    <3> QED BY <1>4, <3>1, <3>2
  <2>2. /\ e.nodes = Grown(N, x, NewFile(len), p, n) /\ e.next = x + 1 /\ e.used = u + len
    BY <1>2, <1>8 DEF WritePath
  <2> HIDE DEF e, p, n, len
  <2>3. NewIn(NewFile(len), p) /\ NewFile(len).len = len
    BY <2>1, NewNodes
  <2>4. Good(Grown(N, x, NewFile(len), p, n), x + 1, u + NewFile(len).len)
    BY <1>3, <2>1, <2>3, GoodGrown
  <2> QED BY <2>2, <2>3, <2>4 DEF e
<1>9. \/ e = [d EXCEPT !.at = 0]
      \/ n # DotDot /\ Occupied(N, p, n) /\ N[i].kind = "file"
      \/ n # DotDot /\ ~Occupied(N, p, n) /\ IsDir(N, p)
  BY <1>2 DEF WritePath
<1> QED BY <1>6, <1>7, <1>8, <1>9

(* devdev_fs_write.                                                        *)
LEMMA FsWriteKeeps ==
  ASSUME FsInv, NEW comps \in Paths, NEW l \in Nat, FsWrite(comps, l)
  PROVE  FsInv'
<1> DEFINE dirs == MkdirP(Front(comps))
           disk == Written(comps, l)
<1>1. comps \in Comps \ {<< >>}
  BY PathsAssumption
<1>2. GoodDisk(dirs)
  BY <1>1, PathParts, MkdirPKeeps
<1>3. Good(disk.nodes, disk.next, disk.used)
  <2> HIDE DEF dirs
  <2>1. CASE dirs.at = 0
    BY <1>2, <2>1 DEF Written, dirs, GoodDisk
  <2>2. CASE dirs.at # 0
    <3>1. disk = WritePath(dirs, comps, l)
      BY <2>2 DEF Written, dirs
    <3> QED BY <1>1, <1>2, <3>1, WritePathKeeps
  <2> QED BY <2>1, <2>2
<1> HIDE DEF disk
<1>4. disk.next <= MaxIno + 1 /\ nodes' = disk.nodes /\ next' = disk.next /\ used' = disk.used
  BY DEF FsWrite, disk
<1> QED BY <1>3, <1>4 DEF FsInv

-----------------------------------------------------------------------------
(* The filesystem's theorems. *)

(* An empty filesystem satisfies the invariant.                            *)
LEMMA InitGood == Init => FsInv /\ Exact(nodes) /\ Singles(nodes)
<1> SUFFICES ASSUME Init PROVE FsInv /\ Exact(nodes) /\ Singles(nodes)
  OBVIOUS
<1>1. /\ DOMAIN nodes = {Root} /\ nodes[Root] = NewDir(Root) /\ next = 2 /\ used = 0
      /\ nodes = [i \in DOMAIN nodes |-> nodes[i]]
  BY DEF Init
<1>2. Root \in Nat /\ Root = 1
  BY DEF Root
<1>3. /\ Proper(nodes[Root]) /\ nodes[Root].kind = "dir" /\ nodes[Root].entries = NoNames
      /\ nodes[Root].parent = Root /\ nodes[Root].nlink = 2 /\ nodes[Root].len = 0
  BY <1>1, <1>2, NewNodes DEF NewDir, NewNode, NewIn
<1>4. Table(nodes) /\ IsDir(nodes, Root) /\ (\A i : IsDir(nodes, i) => i = Root)
      /\ (\A i : ~IsLeaf(nodes, i))
  BY <1>1, <1>3 DEF Table, IsDir, IsLeaf
<1>5. \A d, n, c : ~Edge(nodes, d, n, c)
  BY <1>1, <1>3, NoNamesIs DEF Edge
<1>6. Rooted(nodes)
  BY <1>4 DEF Rooted, UpClosed
<1>7. Shape(nodes)
  BY <1>3, <1>4, <1>5, <1>6 DEF Shape, RootDir, EdgesDown, ParentsTrue, OneName, Named
<1>8. DirLinks(nodes)
  BY <1>3, <1>4, <1>5, SubdirsNone DEF DirLinks
<1>9. LeafLinks(nodes) /\ Exact(nodes) /\ Singles(nodes)
  BY <1>4 DEF LeafLinks, Exact, Singles
<1>10. Bytes(nodes, 2) = 0
  <2>1. PICK f : Adds(f, nodes, 1) /\ Bytes(nodes, 1 + 1) = f[1]
    BY <1>4, BytesIs
  <2>2. f[0] = 0 /\ f[1] = f[1 - 1] + Weight(nodes, 1)
    BY <2>1 DEF Adds
  <2>3. Weight(nodes, 1) = 0
    BY <1>1, <1>2, <1>3 DEF Weight
  <2> QED BY <2>1, <2>2, <2>3
<1>11. MaxIno \in Nat /\ MaxIno >= 1 /\ Limit \in Nat
  BY FsAssumption
<1>12. DOMAIN nodes \subseteq 1..next - 1 /\ next \in Nat /\ next <= MaxIno + 1 /\ used \in 0..Limit
  BY <1>1, <1>2, <1>11
<1> QED BY <1>1, <1>4, <1>7, <1>8, <1>9, <1>10, <1>12 DEF FsInv, Good

(* Every step keeps it.                                                    *)
LEMMA NextGood == FsInv /\ [Next]_vars => FsInv'
<1> SUFFICES ASSUME FsInv, [Next]_vars PROVE FsInv'
  OBVIOUS
<1>1. CASE UNCHANGED vars
  BY <1>1 DEF vars, FsInv
<1>2. ASSUME NEW p, NEW n \in Names, Mkdir(p, n) PROVE FsInv'
  BY <1>2, MkdirKeeps DEF Keeps
<1>3. ASSUME NEW p, NEW n \in Names, Create(p, n) PROVE FsInv'
  BY <1>3, CreateKeeps DEF Keeps
<1>4. ASSUME NEW p, NEW n \in Names, NEW t \in Targets, Symlink(p, n, t) PROVE FsInv'
  BY <1>4, SymlinkKeeps DEF Keeps
<1>5. ASSUME NEW p, NEW n \in Names, NEW i, Link(i, p, n) PROVE FsInv'
  BY <1>5, LinkKeeps DEF Keeps
<1>6. ASSUME NEW p, NEW n, Rmdir(p, n) PROVE FsInv'
  BY <1>6, RmdirKeeps DEF Keeps
<1>7. ASSUME NEW p, NEW n, Unlink(p, n) PROVE FsInv'
  BY <1>7, UnlinkKeeps DEF Keeps
<1>8. ASSUME NEW p, NEW n, NEW q, NEW m \in Names, Rename(p, n, q, m) PROVE FsInv'
  BY <1>8, RenameKeeps DEF Keeps
<1>9. ASSUME NEW i \in DOMAIN nodes, NEW size \in 0..Limit + 1, Setattr(i, size) PROVE FsInv'
  <2>1. size \in Nat
    BY FsAssumption
  <2> QED BY <1>9, <2>1, SetattrKeeps DEF Keeps
<1>10. ASSUME NEW i \in DOMAIN nodes, nodes[i].kind = "file", NEW offset \in 0..Limit,
              NEW l \in 1..Limit + 1, Write(i, offset, l)
       PROVE  FsInv'
  <2>1. offset \in Nat /\ l \in Nat
    BY FsAssumption
  <2> QED BY <1>10, <2>1, WriteKeeps DEF Keeps
<1>11. ASSUME NEW comps \in Paths, NEW l \in 1..Limit + 1, FsWrite(comps, l) PROVE FsInv'
  <2>1. l \in Nat
    BY FsAssumption
  <2> QED BY <1>11, <2>1, FsWriteKeeps
<1> QED BY <1>1, <1>2, <1>3, <1>4, <1>5, <1>6, <1>7, <1>8, <1>9, <1>10, <1>11 DEF Next

(* Whatever operations run in whatever order, every table the filesystem   *)
(* goes through satisfies the invariant.                                   *)
THEOREM FsInvariant == Spec => []FsInv
  BY InitGood, NextGood, PTL DEF Spec

(* The entries of a directory, and who has an entry for one.               *)
LEMMA EntriesAre ==
  ASSUME NEW ns, Tree(ns), NEW d \in DOMAIN ns
  PROVE  /\ ns[d].entries \in EntryMap
         /\ \A n \in DOMAIN ns[d].entries : n \in Names /\ Edge(ns, d, n, ns[d].entries[n])
<1>1. ns[d].entries \in EntryMap
  BY DEF Tree, Table, Proper, Inode
<1> QED BY <1>1, EntryMapIs DEF Edge

(* The parent's entry n is the only one for c.                             *)
SoleName(ns, c, n) ==
  /\ \A d, m : Edge(ns, d, m, c) <=> d = ns[c].parent /\ m = n
  /\ Holders(ns, c) = {<< ns[c].parent, n >>}

(* A directory has one name, in its parent.                                *)
LEMMA HolderOfDir ==
  ASSUME NEW ns, Tree(ns), NEW c, IsDir(ns, c), c # Root
  PROVE  \E n : SoleName(ns, c, n)
<1>1. PICK n : Edge(ns, ns[c].parent, n, c)
  BY DEF Tree, Shape, Named
<1>2. \A d, m : Edge(ns, d, m, c) <=> d = ns[c].parent /\ m = n
  BY <1>1 DEF Tree, Shape, ParentsTrue, OneName
<1>3. \A h : h \in Holders(ns, c) <=> h = << ns[c].parent, n >>
  BY <1>2, HolderIs
<1>4. Holders(ns, c) = {<< ns[c].parent, n >>}
  BY <1>3
<1> QED BY <1>2, <1>4 DEF SoleName

(* The numbers in use are numbers handed out.                              *)
LEMMA InoRange ==
  ASSUME FsInv
  PROVE  /\ next \in 2..MaxIno + 1 /\ DOMAIN nodes \subseteq Inos
         /\ Tree(nodes) /\ Root \in DOMAIN nodes
<1>1. /\ MaxIno \in Nat /\ next \in Nat /\ next <= MaxIno + 1 /\ DOMAIN nodes \subseteq 1..next - 1
      /\ Tree(nodes)
  BY GoodIs, FsAssumption DEF FsInv
<1>2. Root \in DOMAIN nodes /\ Root = 1
  BY <1>1 DEF Tree, Shape, RootDir, IsDir, Root
<1>3. 1 \in 1..next - 1
  BY <1>1, <1>2
<1>4. next \in 2..MaxIno + 1
  BY <1>1, <1>3
<1>5. 1..next - 1 \subseteq Inos
  BY <1>1 DEF Inos
<1> QED BY <1>1, <1>2, <1>4, <1>5

(* What the invariant says of types.                                       *)
LEMMA FsTypes ==
  ASSUME FsInv
  PROVE  TypeOK
<1>1. /\ next \in 2..MaxIno + 1 /\ DOMAIN nodes \subseteq Inos /\ Tree(nodes)
      /\ Root \in DOMAIN nodes
  BY InoRange
<1>2. DOMAIN nodes \subseteq 1..next - 1 /\ used \in 0..Limit
  BY DEF FsInv, Good
<1>3. nodes = [i \in DOMAIN nodes |-> nodes[i]] /\ \A i \in DOMAIN nodes : Proper(nodes[i])
  BY <1>1 DEF Tree, Table
<1>4. ASSUME NEW i \in DOMAIN nodes PROVE nodes[i] \in Node
  <2>1. nodes[i] \in Inode
    BY <1>3 DEF Proper
  <2>2. nodes[i].parent \in 0..MaxIno
    <3>1. CASE IsDir(nodes, i)
      <4>1. nodes[i].parent \in Inos
        BY <1>1, <3>1, ParentIsDir DEF Tree, IsDir
      <4> QED BY <4>1, FsAssumption DEF Inos
    <3>2. CASE ~IsDir(nodes, i)
      <4>1. nodes[i].parent = 0
        BY <1>3, <3>2 DEF Proper, IsDir, NoParent
      <4> QED BY <4>1, FsAssumption
    <3> QED BY <3>1, <3>2
  <2>3. nodes[i].entries \in UNION {[S -> Inos] : S \in SUBSET Names}
    <3> DEFINE e == nodes[i].entries
    <3>1. \A n \in DOMAIN e : n \in Names /\ e[n] \in Inos
      BY <1>1, EntriesAre DEF Tree, Shape, EdgesDown
    <3>2. e = [n \in DOMAIN e |-> e[n]]
      BY <1>1, EntriesAre, EntryMapIs
    <3> HIDE DEF e
    <3>3. e \in [DOMAIN e -> Inos] /\ DOMAIN e \in SUBSET Names
      BY <3>1, <3>2
    <3> QED BY <3>3 DEF e
  <2> QED BY <2>1, <2>2, <2>3 DEF Inode, Node
<1> QED BY <1>1, <1>2, <1>3, <1>4 DEF TypeOK

(* Numbers, parents and entries stay within the numbers handed out, and    *)
(* bytes_used within the limit: no operation stores anything else.         *)
THEOREM FsTypeOK == Spec => []TypeOK
  BY FsTypes, FsInvariant, PTL

(* Renames, however ordered and nested, leave one tree: no loop, no        *)
(* detached directory, no stale parent pointer, no dangling entry.         *)
THEOREM FsTreeShape == Spec => []TreeShape
<1>1. FsInv => TreeShape
  <2> SUFFICES ASSUME FsInv, NEW i \in DOMAIN nodes
               PROVE  /\ \A n \in DOMAIN nodes[i].entries : nodes[i].entries[n] \in DOMAIN nodes \ {Root}
                      /\ nodes[i].kind = "dir" =>
                           /\ Root \in Climb(nodes, i)
                           /\ i # Root => /\ {h[1] : h \in Holders(nodes, i)} = {nodes[i].parent}
                                          /\ Cardinality(Holders(nodes, i)) = 1
    BY DEF TreeShape
  <2>1. DOMAIN nodes \subseteq Inos /\ Tree(nodes) /\ Shape(nodes)
    BY InoRange DEF Tree
  <2>2. \A n \in DOMAIN nodes[i].entries : nodes[i].entries[n] \in DOMAIN nodes \ {Root}
    BY <2>1, EntriesAre DEF Shape, EdgesDown
  <2>3. ASSUME nodes[i].kind = "dir" PROVE Root \in Climb(nodes, i)
    <3>1. IsDir(nodes, i)
      BY <2>3 DEF IsDir
    <3>2. PICK A \in SUBSET Climb(nodes, i) : i \in A /\ UpClosed(nodes, A)
      BY <2>1, <3>1, ClimbCloses
    <3> QED BY <2>1, <3>2 DEF Shape, Rooted
  <2>4. ASSUME nodes[i].kind = "dir", i # Root
        PROVE  /\ {h[1] : h \in Holders(nodes, i)} = {nodes[i].parent}
               /\ Cardinality(Holders(nodes, i)) = 1
    <3>1. IsDir(nodes, i)
      BY <2>4 DEF IsDir
    <3>2. PICK n : Holders(nodes, i) = {<< nodes[i].parent, n >>}
      BY <2>1, <2>4, <3>1, HolderOfDir DEF SoleName
    <3>3. Cardinality(Holders(nodes, i)) = 1
      BY <3>2, FS_Singleton
    <3>4. << nodes[i].parent, n >>[1] = nodes[i].parent
      OBVIOUS
    <3>5. {h[1] : h \in Holders(nodes, i)} = {nodes[i].parent}
      BY <3>2, <3>4, Zenon
    <3> QED BY <3>3, <3>5
  <2> QED BY <2>2, <2>3, <2>4
<1> QED BY <1>1, FsInvariant, PTL

(* A directory's link count is exact, and a file is not freed while a name *)
(* for it is left.                                                         *)
THEOREM FsLinkCounts == Spec => []LinkCounts
<1>1. FsInv => LinkCounts
  BY InoRange DEF Tree, DirLinks, LeafLinks, LinkCounts, IsDir, IsLeaf
<1> QED BY <1>1, FsInvariant, PTL

(* bytes_used is the sum of what is stored, after any operations, failed   *)
(* writes of the daemon included.                                          *)
THEOREM FsBytesExact == Spec => []BytesExact
<1>1. FsInv => BytesExact
  BY DEF FsInv, Good, BytesExact
<1> QED BY <1>1, FsInvariant, PTL

(* Rebuilding the parents from the entries, as from_snapshot does, gives   *)
(* back the filesystem.                                                    *)
THEOREM FsRestore == Spec => []RestoreIsIdentity
<1>1. FsInv => RestoreIsIdentity
  <2> SUFFICES ASSUME FsInv PROVE Restored(nodes) = nodes
    BY DEF RestoreIsIdentity
  <2>1. Tree(nodes) /\ Table(nodes) /\ Shape(nodes)
    BY InoRange DEF Tree
  <2>2. ASSUME NEW i \in DOMAIN nodes PROVE RestoredParent(nodes, i) = nodes[i].parent
    <3>1. CASE nodes[i].kind # "dir"
      BY <2>1, <3>1 DEF RestoredParent, Table, Proper
    <3>2. CASE i = Root
      BY <2>1, <3>2 DEF RestoredParent, Shape, RootDir, IsDir
    <3>3. CASE nodes[i].kind = "dir" /\ i # Root
      <4> DEFINE holders == {d \in DOMAIN nodes : \E n \in DOMAIN nodes[d].entries : nodes[d].entries[n] = i}
      <4> IsDir(nodes, i)
        BY <3>3 DEF IsDir
      <4>1. PICK n : \A d, m : Edge(nodes, d, m, i) <=> d = nodes[i].parent /\ m = n
        <5>1. \E n : SoleName(nodes, i, n)
          BY <2>1, <3>3, HolderOfDir
        <5> QED BY <5>1 DEF SoleName
      <4>2. \A d : d \in holders <=> \E m : Edge(nodes, d, m, i)
        BY <2>1, EntriesAre DEF Edge
      <4>3. holders = {nodes[i].parent}
        BY <4>1, <4>2
      <4>4. RestoredParent(nodes, i) = IF holders = {} THEN NoParent ELSE CHOOSE d \in holders : TRUE
        BY <3>3 DEF RestoredParent
      <4> HIDE DEF holders
      <4> QED BY <4>3, <4>4
    <3> QED BY <3>1, <3>2, <3>3
  <2>3. ASSUME NEW i \in DOMAIN nodes
        PROVE  [nodes[i] EXCEPT !.parent = RestoredParent(nodes, i)] = nodes[i]
    <3>1. nodes[i] \in Inode
      BY <2>1 DEF Table, Proper
    <3> QED BY <2>2, <3>1 DEF Inode
  <2>4. nodes = [i \in DOMAIN nodes |-> nodes[i]]
    BY <2>1 DEF Table
  <2> QED BY <2>3, <2>4 DEF Restored
<1> QED BY <1>1, FsInvariant, PTL

-----------------------------------------------------------------------------
(* Where paths lead. *)

(* An inode there is, or the 0 of an error.                                *)
Found(ns) == DOMAIN ns \cup {0}

(* What the path cs is at after its component k, when it was at i before:  *)
(* nested is what a path resolves to from inside a symlink.                *)
Further(ns, nested, cs, follow, k, i) ==
  LET to == IF i = 0 THEN 0 ELSE Step(ns, i, cs[k])
  IN  IF to # 0 /\ (k < Len(cs) \/ follow) /\ ns[to].kind = "symlink"
        THEN nested[LinkPath(SubSeq(cs, 1, k - 1), ns[to].target)]
        ELSE to

(* at is where the path is after each component.                           *)
Passes(ns, nested, cs, follow, at) ==
  at = [k \in 0..Len(cs) |-> IF k = 0 THEN Root ELSE Further(ns, nested, cs, follow, k, at[k - 1])]

(* The path a symlink is replaced by is a path.                            *)
LEMMA LinkPathIs ==
  ASSUME NEW ns, Table(ns), NEW i \in DOMAIN ns, NEW cs \in Comps, NEW k \in 1..Len(cs)
  PROVE  LinkPath(SubSeq(cs, 1, k - 1), ns[i].target) \in Comps
<1> DEFINE C == Names \cup {DotDot}
<1>1. ns[i].target.comps \in Seq(C)
  BY DEF Table, Proper, Inode, Target, Comps
<1>2. cs \in Seq(C) /\ Len(cs) \in Nat
  BY DEF Comps
<1>3. SubSeq(cs, 1, k - 1) \in Seq(C)
  <2>1. \A j \in 1..k - 1 : cs[j] \in C
    BY <1>2
  <2>2. 1 \in Int /\ k - 1 \in Int
    BY <1>2
  <2> HIDE DEF C
  <2> QED BY <2>1, <2>2, SubSeqProperties
<1> HIDE DEF C
<1>4. SubSeq(cs, 1, k - 1) \o ns[i].target.comps \in Seq(C)
  BY <1>1, <1>3, ConcatProperties
<1> QED BY <1>1, <1>4 DEF LinkPath, Comps, C

(* A component leads to an inode there is or to an error.                  *)
LEMMA StepIs ==
  ASSUME NEW ns, Tree(ns), NEW i \in DOMAIN ns, NEW c
  PROVE  Step(ns, i, c) \in Found(ns)
<1>1. Root \in DOMAIN ns /\ Shape(ns) /\ Table(ns)
  BY DEF Tree, Shape, RootDir, IsDir
<1>2. CASE c = DotDot
  <2>1. CASE IsDir(ns, i)
    <3>1. IsDir(ns, ns[i].parent)
      BY <1>1, <2>1, ParentIsDir
    <3> QED BY <1>1, <1>2, <3>1 DEF Step, Found, IsDir
  <2>2. CASE ~IsDir(ns, i)
    <3>1. ns[i].parent = NoParent
      BY <1>1, <2>2 DEF Table, Proper, IsDir
    <3> QED BY <1>1, <1>2, <3>1 DEF Step, Found
  <2> QED BY <2>1, <2>2
<1>3. CASE c # DotDot
  BY <1>3, OccupiedIs DEF Step, Found
<1> QED BY <1>2, <1>3

(* So does a component behind which symlinks are followed.                 *)
LEMMA FurtherIs ==
  ASSUME NEW ns, Tree(ns), NEW nested \in [Comps -> Found(ns)], NEW cs \in Comps,
         NEW follow, NEW k \in 1..Len(cs), NEW i \in Found(ns)
  PROVE  Further(ns, nested, cs, follow, k, i) \in Found(ns)
<1> DEFINE to == IF i = 0 THEN 0 ELSE Step(ns, i, cs[k])
<1>1. to \in Found(ns)
  BY StepIs DEF Found
<1>2. to # 0 => LinkPath(SubSeq(cs, 1, k - 1), ns[to].target) \in Comps
  <2> HIDE DEF to
  <2>1. to # 0 => to \in DOMAIN ns
    BY <1>1 DEF Found
  <2> QED BY <2>1, LinkPathIs DEF Tree
<1> QED BY <1>1, <1>2 DEF Further

(* Where a path is after each of its components can be told, and it is an  *)
(* inode there is until an error.                                          *)
LEMMA PassesExists ==
  ASSUME NEW ns, Tree(ns), NEW nested \in [Comps -> Found(ns)], NEW cs \in Comps, NEW follow
  PROVE  \E at : Passes(ns, nested, cs, follow, at) /\ \A k \in 0..Len(cs) : at[k] \in Found(ns)
<1> DEFINE K    == Len(cs)
           F(k, i) == Further(ns, nested, cs, follow, k, i)
           Ok(k) == \E f : /\ f = [j \in 0..k |-> IF j = 0 THEN Root ELSE F(j, f[j - 1])]
                           /\ \A j \in 0..k : f[j] \in Found(ns)
           T     == {k \in 0..K : ~Ok(k)}
<1>1. K \in Nat /\ Root \in Found(ns)
  BY DEF Comps, Tree, Shape, RootDir, IsDir, Found
<1>2. \A k \in 1..K, i \in Found(ns) : F(k, i) \in Found(ns)
  BY FurtherIs
<1> HIDE DEF F
<1>3. T = {}
  <2> SUFFICES ASSUME T # {} PROVE FALSE
    OBVIOUS
  <2>1. T \in SUBSET Nat
    OBVIOUS
  <2>2. PICK y \in T : \A z \in T : z >= y
    BY <2>1, LeastOf
  <2>3. y # 0
    <3> DEFINE g == [j \in 0..0 |-> Root]
    <3>1. g = [j \in 0..0 |-> IF j = 0 THEN Root ELSE F(j, g[j - 1])] /\ \A j \in 0..0 : g[j] = Root
      OBVIOUS
    <3> HIDE DEF g
    <3>2. Ok(0)
      BY <1>1, <3>1
    <3> QED BY <3>2
  <2>4. y \in 1..K /\ y - 1 \in 0..K /\ y \in Nat
    BY <1>1, <2>2, <2>3
  <2>5. Ok(y - 1)
    <3>1. y - 1 \notin T
      <4> HIDE DEF T
      <4> QED BY <2>1, <2>2, <2>4
    <3> QED BY <2>4, <3>1
  <2>6. PICK f : /\ f = [j \in 0..y - 1 |-> IF j = 0 THEN Root ELSE F(j, f[j - 1])]
                 /\ \A j \in 0..y - 1 : f[j] \in Found(ns)
    BY <2>5
  <2> DEFINE g == [j \in 0..y |-> IF j = y THEN F(y, f[y - 1]) ELSE f[j]]
  <2>7. ASSUME NEW j \in 0..y
        PROVE  g[j] = (IF j = 0 THEN Root ELSE F(j, g[j - 1])) /\ g[j] \in Found(ns)
    <3>1. CASE j = y
      <4>1. y \in 0..y /\ y - 1 \in 0..y /\ y - 1 # y /\ y - 1 \in 0..y - 1
        BY <2>4
      <4>2. g[j] = F(y, f[y - 1]) /\ g[y - 1] = f[y - 1]
        BY <3>1, <4>1, Zenon
      <4>3. f[y - 1] \in Found(ns)
        BY <2>6, <4>1
      <4> HIDE DEF g
      <4> QED BY <1>2, <2>3, <2>4, <3>1, <4>2, <4>3
    <3>2. CASE j # y
      <4>1. j \in 0..y - 1 /\ (j # 0 => j - 1 \in 0..y - 1)
        BY <2>4, <3>2
      <4>2. g[j] = f[j] /\ (j # 0 => g[j - 1] = f[j - 1])
        BY <2>4, <3>2, <4>1
      <4> HIDE DEF g
      <4>3. f[j] = IF j = 0 THEN Root ELSE F(j, f[j - 1])
        BY <2>6, <4>1, Zenon
      <4> QED BY <2>6, <4>1, <4>2, <4>3
    <3> QED BY <3>1, <3>2
  <2>8. g = [j \in 0..y |-> IF j = 0 THEN Root ELSE F(j, g[j - 1])]
    <3> HIDE DEF g
    <3>1. g = [j \in 0..y |-> g[j]]
      BY DEF g
    <3> QED BY <2>7, <3>1
  <2>9. Ok(y)
    <3> HIDE DEF g
    <3> QED BY <2>7, <2>8
  <2> QED BY <2>9
<1>4. Ok(K)
  <2>1. K \in 0..K
    BY <1>1
  <2> QED BY <1>3, <2>1
<1> QED BY <1>4 DEF Passes, F

(* There is one way: what moves along cs as at does is where at is.        *)
LEMMA OneWay ==
  ASSUME NEW ns, Tree(ns), NEW nested \in [Comps -> Found(ns)], NEW cs \in Comps, NEW follow,
         NEW at, Passes(ns, nested, cs, follow, at), \A k \in 0..Len(cs) : at[k] \in Found(ns),
         NEW b, b[0] = Root,
         \A k \in 1..Len(cs) :
           b[k - 1] \in Found(ns) => b[k] = Further(ns, nested, cs, follow, k, b[k - 1])
  PROVE  \A k \in 0..Len(cs) : b[k] = at[k]
<1> DEFINE K == Len(cs)
           T == {k \in 0..K : b[k] # at[k]}
<1> SUFFICES ASSUME T # {} PROVE FALSE
  OBVIOUS
<1>1. K \in Nat
  BY DEF Comps
<1>2. \A k \in 0..K : at[k] = IF k = 0 THEN Root ELSE Further(ns, nested, cs, follow, k, at[k - 1])
  BY DEF Passes
<1>3. T \in SUBSET Nat
  OBVIOUS
<1>4. PICK y \in T : \A z \in T : z >= y
  BY <1>3, LeastOf
<1>5. 0 \in 0..K /\ y \in 0..K /\ b[y] # at[y]
  BY <1>1, <1>4
<1>6. y # 0
  BY <1>2, <1>5
<1>7. y \in 1..K /\ y - 1 \in 0..K /\ ~(y - 1 >= y)
  BY <1>1, <1>5, <1>6
<1>8. b[y - 1] = at[y - 1]
  <2>1. y - 1 \notin T
    <3> HIDE DEF T
    <3> QED BY <1>4, <1>7
  <2> QED BY <1>7, <2>1
<1>9. b[y] = Further(ns, nested, cs, follow, y, at[y - 1])
  BY <1>7, <1>8
<1> QED BY <1>2, <1>5, <1>6, <1>9

(* Where a path leads is where what moves along it ends.                   *)
LEMMA AlongIs ==
  ASSUME NEW ns, Tree(ns), NEW nested \in [Comps -> Found(ns)], NEW cs \in Comps, NEW follow
  PROVE  /\ Along(ns, cs, follow, nested) \in Found(ns)
         /\ \A b : /\ b[0] = Root
                   /\ \A k \in 1..Len(cs) :
                        b[k - 1] \in Found(ns) => b[k] = Further(ns, nested, cs, follow, k, b[k - 1])
                   => Along(ns, cs, follow, nested) = b[Len(cs)]
<1> DEFINE ch == CHOOSE at : Passes(ns, nested, cs, follow, at)
<1>1. PICK at : Passes(ns, nested, cs, follow, at) /\ \A k \in 0..Len(cs) : at[k] \in Found(ns)
  BY PassesExists
<1>2. Passes(ns, nested, cs, follow, ch)
  BY <1>1
<1>3. Along(ns, cs, follow, nested) = ch[Len(cs)]
  BY Zenon DEF Along, Passes, Further
<1> HIDE DEF ch
<1>4. Len(cs) \in Nat /\ Len(cs) \in 0..Len(cs) /\ 0 \in 0..Len(cs)
  BY DEF Comps
<1>5. ch[0] = Root /\ \A k \in 1..Len(cs) : ch[k] = Further(ns, nested, cs, follow, k, ch[k - 1])
  BY <1>2, <1>4 DEF Passes
<1>6. ch[Len(cs)] = at[Len(cs)]
  BY <1>1, <1>4, <1>5, OneWay
<1>7. ASSUME NEW b, b[0] = Root,
             \A k \in 1..Len(cs) :
               b[k - 1] \in Found(ns) => b[k] = Further(ns, nested, cs, follow, k, b[k - 1])
      PROVE  b[Len(cs)] = at[Len(cs)]
  BY <1>1, <1>4, <1>7, OneWay
<1> QED BY <1>1, <1>3, <1>4, <1>6, <1>7

(* What resolve_inner does at each depth, level counting depths from the   *)
(* first that is too deep.                                                 *)
Levels(ns, n, level) ==
  /\ level[0] = [cs \in Comps |-> 0]
  /\ \A j \in 1..n : level[j] = [cs \in Comps |-> Along(ns, cs, TRUE, level[j - 1])]

(* It can be told, level by level.                                         *)
LEMMA LevelsExist ==
  ASSUME NEW ns, Tree(ns), NEW n \in Nat
  PROVE  \E f : Levels(ns, n, f) /\ \A j \in 0..n : f[j] \in [Comps -> Found(ns)]
<1> DEFINE Ok(k) == \E f : Levels(ns, k, f) /\ \A j \in 0..k : f[j] \in [Comps -> Found(ns)]
           T     == {k \in Nat : ~Ok(k)}
<1> SUFFICES ASSUME T # {} PROVE FALSE
  BY Zenon
<1>1. T \in SUBSET Nat
  OBVIOUS
<1>2. PICK y \in T : \A z \in T : z >= y
  BY <1>1, LeastOf
<1>3. y # 0
  <2> DEFINE g == [j \in {0} |-> [cs \in Comps |-> 0]]
  <2>1. g[0] = [cs \in Comps |-> 0] /\ g[0] \in [Comps -> Found(ns)]
    BY DEF Found
  <2> HIDE DEF g
  <2>2. Ok(0)
    BY <2>1 DEF Levels
  <2> QED BY <2>2
<1>4. y \in Nat /\ y - 1 \in Nat /\ y - 1 \notin T
  <2> HIDE DEF T
  <2> QED BY <1>1, <1>2, <1>3
<1>5. PICK f : Levels(ns, y - 1, f) /\ \A j \in 0..y - 1 : f[j] \in [Comps -> Found(ns)]
  BY <1>4
<1> DEFINE top == [cs \in Comps |-> Along(ns, cs, TRUE, f[y - 1])]
           g   == [j \in 0..y |-> IF j = y THEN top ELSE f[j]]
<1>6. f[y - 1] \in [Comps -> Found(ns)]
  BY <1>4, <1>5
<1>7. top \in [Comps -> Found(ns)]
  BY <1>6, AlongIs
<1>8. /\ \A j \in 0..y - 1 : g[j] = f[j]
      /\ g[y] = [cs \in Comps |-> Along(ns, cs, TRUE, g[y - 1])] /\ g[y] = top
  <2>1. \A j \in 0..y - 1 : g[j] = f[j]
    BY <1>4
  <2>2. g[y] = top /\ g[y - 1] = f[y - 1]
    BY <1>3, <1>4
  <2> HIDE DEF g
  <2> QED BY <2>1, <2>2
<1> HIDE DEF g, top
<1>9. Levels(ns, y, g)
  <2>1. g[0] = [cs \in Comps |-> 0]
    BY <1>4, <1>5, <1>8 DEF Levels
  <2>2. ASSUME NEW j \in 1..y PROVE g[j] = [cs \in Comps |-> Along(ns, cs, TRUE, g[j - 1])]
    <3>1. CASE j = y
      BY <1>8, <3>1
    <3>2. CASE j # y
      <4>1. j \in 1..y - 1 /\ j \in 0..y - 1 /\ j - 1 \in 0..y - 1
        BY <1>4, <3>2
      <4>2. f[j] = [cs \in Comps |-> Along(ns, cs, TRUE, f[j - 1])]
        BY <1>5, <4>1 DEF Levels
      <4> QED BY <1>8, <4>1, <4>2
    <3> QED BY <3>1, <3>2
  <2> QED BY <2>1, <2>2 DEF Levels
<1>10. \A j \in 0..y : g[j] \in [Comps -> Found(ns)]
  <2> SUFFICES ASSUME NEW j \in 0..y PROVE g[j] \in [Comps -> Found(ns)]
    OBVIOUS
  <2>1. j = y \/ j \in 0..y - 1
    BY <1>4
  <2> QED BY <1>5, <1>7, <1>8, <2>1
<1>11. Ok(y)
  BY <1>9, <1>10
<1> QED BY <1>4, <1>11, <1>2

(* Resolving a path is moving along it, symlinks resolved one level below. *)
LEMMA ResolveIs ==
  ASSUME NEW ns, Tree(ns), NEW comps, NEW follow
  PROVE  \E nested \in [Comps -> Found(ns)] :
           Resolve(ns, comps, follow) = Along(ns, comps, follow, nested)
<1> DEFINE M == MaxHops
           B(f, d) == [cs \in Comps |-> IF d > M THEN 0 ELSE Along(ns, cs, TRUE, f[d + 1])]
           P(f) == f = [d \in Nat |-> B(f, d)]
           inner == CHOOSE f : P(f)
<1>1. M \in Nat
  BY FsAssumption
<1>2. Resolve(ns, comps, follow) = Along(ns, comps, follow, inner[1])
  BY Zenon DEF Resolve
<1>3. PICK L : Levels(ns, M, L) /\ \A j \in 0..M : L[j] \in [Comps -> Found(ns)]
  BY <1>1, LevelsExist
<1>4. /\ L[0] = [cs \in Comps |-> 0]
      /\ \A j \in 1..M : L[j] = [cs \in Comps |-> Along(ns, cs, TRUE, L[j - 1])]
  BY <1>3 DEF Levels
<1> DEFINE g == [d \in Nat |-> IF d > M THEN [cs \in Comps |-> 0]
                               ELSE IF d = 0 THEN [cs \in Comps |-> Along(ns, cs, TRUE, L[M])]
                               ELSE L[M - d + 1]]
<1>5. P(g)
  <2> SUFFICES ASSUME NEW d \in Nat PROVE g[d] = B(g, d)
    <3> HIDE DEF B
    <3> QED OBVIOUS
  <2>1. CASE d > M
    BY <2>1
  <2>2. CASE d <= M /\ d # 0
    <3>1. M - d + 1 \in 1..M /\ (M - d + 1) - 1 = M - d /\ d + 1 \in Nat /\ ~(d > M)
      BY <1>1, <2>2
    <3>2. g[d] = L[M - d + 1]
      BY <2>2, <3>1
    <3>3. g[d + 1] = L[M - d]
      <4>1. CASE d = M
        BY <1>1, <1>4, <4>1
      <4>2. CASE d # M
        <5>1. ~(d + 1 > M) /\ d + 1 # 0 /\ M - (d + 1) + 1 = M - d
          BY <1>1, <2>2, <4>2
        <5> QED BY <3>1, <5>1
      <4> QED BY <4>1, <4>2
    <3>4. L[M - d + 1] = [cs \in Comps |-> Along(ns, cs, TRUE, L[M - d])]
      BY <1>4, <3>1
    <3> HIDE DEF g
    <3>5. B(g, d) = [cs \in Comps |-> Along(ns, cs, TRUE, L[M - d])]
      BY <3>1, <3>3
    <3> QED BY <3>2, <3>4, <3>5
  <2>3. CASE d = 0
    <3>1. ~(0 > M) /\ 0 + 1 = 1 /\ 1 \in Nat /\ 0 \in Nat
      BY <1>1
    <3>2. g[0] = [cs \in Comps |-> Along(ns, cs, TRUE, L[M])]
      BY <3>1
    <3>3. g[0 + 1] = L[M]
      <4>1. CASE M = 0
        BY <1>4, <3>1, <4>1
      <4>2. CASE M # 0
        <5>1. ~(1 > M) /\ M - 1 + 1 = M
          BY <1>1, <4>2
        <5> QED BY <3>1, <5>1
      <4> QED BY <4>1, <4>2
    <3> HIDE DEF g
    <3> QED BY <2>3, <3>1, <3>2, <3>3
  <2> QED BY <1>1, <2>1, <2>2, <2>3
<1>6. P(inner)
  <2> HIDE DEF g, B
  <2> QED BY <1>5
<1> HIDE DEF inner, g
<1>7. ASSUME NEW d \in Nat PROVE inner[d] = B(inner, d)
  <2> HIDE DEF B
  <2> QED BY <1>6
<1> DEFINE T == {j \in 0..M : inner[M + 1 - j] \notin [Comps -> Found(ns)]}
<1>8. T = {}
  <2> SUFFICES ASSUME T # {} PROVE FALSE
    OBVIOUS
  <2>1. T \in SUBSET Nat
    OBVIOUS
  <2>2. PICK y \in T : \A z \in T : z >= y
    BY <2>1, LeastOf
  <2>3. y \in 0..M /\ y \in Nat /\ inner[M + 1 - y] \notin [Comps -> Found(ns)]
    OBVIOUS
  <2>4. M + 1 - y \in Nat
    BY <1>1, <2>3
  <2>5. inner[M + 1 - y] = B(inner, M + 1 - y)
    BY <1>7, <2>4
  <2>6. y # 0
    <3> SUFFICES ASSUME y = 0 PROVE FALSE
      OBVIOUS
    <3>1. M + 1 - y > M
      BY <1>1
    <3> HIDE DEF M
    <3> QED BY <2>3, <2>5, <3>1 DEF Found
  <2>7. y - 1 \in 0..M /\ ~(y - 1 >= y) /\ M + 1 - (y - 1) = M + 1 - y + 1 /\ ~(M + 1 - y > M)
    BY <1>1, <2>3, <2>6
  <2>8. y - 1 \notin T
    <3> HIDE DEF T
    <3> QED BY <2>2, <2>7
  <2>9. inner[M + 1 - y + 1] \in [Comps -> Found(ns)]
    BY <2>7, <2>8
  <2>10. \A cs \in Comps : Along(ns, cs, TRUE, inner[M + 1 - y + 1]) \in Found(ns)
    BY <2>9, AlongIs
  <2> HIDE DEF M
  <2> QED BY <2>3, <2>5, <2>7, <2>10
<1>9. inner[1] \in [Comps -> Found(ns)]
  <2>1. M \in 0..M /\ M + 1 - M = 1
    BY <1>1
  <2>2. M \notin T
    BY <1>8
  <2> QED BY <2>1, <2>2
<1> QED BY <1>2, <1>9

(* Where a path leads that meets no symlink: w[k] is behind component k.   *)
Straight(ns, cs, follow, w) ==
  /\ w[0] = Root
  /\ \A k \in 1..Len(cs) :
       /\ w[k] \in DOMAIN ns /\ w[k] = Step(ns, w[k - 1], cs[k])
       /\ k < Len(cs) \/ follow => ns[w[k]].kind # "symlink"

LEMMA ResolveStraight ==
  ASSUME NEW ns, Tree(ns), 0 \notin DOMAIN ns, NEW cs \in Comps, NEW follow, NEW w,
         Straight(ns, cs, follow, w)
  PROVE  Resolve(ns, cs, follow) = w[Len(cs)]
<1>1. PICK nested \in [Comps -> Found(ns)] : Resolve(ns, cs, follow) = Along(ns, cs, follow, nested)
  BY ResolveIs
<1>2. Len(cs) \in Nat /\ Root \in DOMAIN ns
  BY DEF Comps, Tree, Shape, RootDir, IsDir
<1>3. ASSUME NEW k \in 1..Len(cs)
      PROVE  w[k] = Further(ns, nested, cs, follow, k, w[k - 1])
  <2>1. /\ w[k] \in DOMAIN ns /\ w[k] = Step(ns, w[k - 1], cs[k])
        /\ k < Len(cs) \/ follow => ns[w[k]].kind # "symlink"
    BY DEF Straight
  <2>2. w[k - 1] # 0
    <3>1. CASE k = 1
      BY <1>2, <3>1 DEF Straight
    <3>2. CASE k # 1
      <4>1. k - 1 \in 1..Len(cs)
        BY <1>2, <3>2
      <4> QED BY <4>1 DEF Straight
    <3> QED BY <3>1, <3>2
  <2>3. w[k] # 0
    BY <2>1
  <2> QED BY <2>1, <2>2, <2>3 DEF Further
<1>4. w[0] = Root
  BY DEF Straight
<1>5. Along(ns, cs, follow, nested) = w[Len(cs)]
  BY <1>3, <1>4, AlongIs
<1> QED BY <1>1, <1>5

(* A trail ends where its path leads.                                      *)
LEMMA ResolveTrail ==
  ASSUME NEW ns, Tree(ns), 0 \notin DOMAIN ns, NEW cs \in Comps, NEW follow, NEW w,
         Trail(ns, cs, Len(cs), w)
  PROVE  Resolve(ns, cs, follow) = w[Len(cs)]
<1>1. Straight(ns, cs, follow, w)
  BY DEF Straight, Trail, IsDir
<1> QED BY <1>1, ResolveStraight

(* A file at the end of a trail is what is read at its path.               *)
LEMMA ReadsBack ==
  ASSUME NEW ns, Tree(ns), NEW ms, Tree(ms), Kept(ns, ms), 0 \notin DOMAIN ms,
         NEW comps \in Comps \ {<< >>}, NEW w, Trail(ns, Front(comps), Len(Front(comps)), w),
         NEW i \in DOMAIN ms, ms[i].kind = "file", ms[i].len = 1,
         i = Step(ms, w[Len(Front(comps))], Last(comps))
  PROVE  ReadPath(ms, comps) = {1}
<1> DEFINE K == Len(Front(comps))
           v == [k \in 0..K + 1 |-> IF k = K + 1 THEN i ELSE w[k]]
<1>1. /\ K \in Nat /\ Len(comps) = K + 1 /\ Last(comps) = comps[K + 1]
      /\ \A k \in 1..K : comps[k] = Front(comps)[k]
  <2>1. comps \in Seq(Names \cup {DotDot}) /\ Len(comps) \in Nat /\ Len(comps) >= 1
    BY DEF Comps
  <2>2. K = Len(comps) - 1 /\ \A k \in 1..Len(comps) - 1 : Front(comps)[k] = comps[k]
    BY <2>1, FrontIs
  <2> QED BY <2>1, <2>2 DEF Last
<1>2. v[K + 1] = i /\ \A k \in 0..K : v[k] = w[k]
  BY <1>1
<1> HIDE DEF K, v
<1>3. Trail(ms, Front(comps), K, w)
  BY <1>1, TrailKept DEF K
<1>4. Straight(ms, comps, TRUE, v)
  <2>1. v[0] = Root
    BY <1>1, <1>2, <1>3 DEF Trail
  <2>2. ASSUME NEW k \in 1..K + 1
        PROVE  v[k] \in DOMAIN ms /\ v[k] = Step(ms, v[k - 1], comps[k]) /\ ms[v[k]].kind # "symlink"
    <3>1. CASE k = K + 1
      <4>1. k - 1 = K /\ K \in 0..K
        BY <1>1, <3>1
      <4> QED BY <1>1, <1>2, <3>1, <4>1 DEF K
    <3>2. CASE k # K + 1
      <4>1. k \in 1..K /\ k \in 0..K /\ k - 1 \in 0..K
        BY <1>1, <3>2
      <4> QED BY <1>1, <1>2, <1>3, <4>1 DEF Trail, IsDir
    <3> QED BY <3>1, <3>2
  <2> QED BY <1>1, <2>1, <2>2 DEF Straight
<1>5. Resolve(ms, comps, TRUE) = i
  <2>1. Resolve(ms, comps, TRUE) = v[Len(comps)]
    <3>1. comps \in Comps
      OBVIOUS
    <3> QED BY <1>4, <3>1, ResolveStraight, Zenon
  <2> QED BY <1>1, <1>2, <2>1
<1>6. {j \in DOMAIN ms : ms[j].kind = "file" /\ j = Resolve(ms, comps, TRUE)} = {i}
  BY <1>5
<1>7. ReadLen(ms[i], 0, ms[i].len) = 1
  BY DEF ReadLen
<1> QED BY <1>6, <1>7 DEF ReadPath

(* The front of a path is a path.                                          *)
LEMMA FrontPath ==
  ASSUME NEW comps \in Comps \ {<< >>}
  PROVE  Front(comps) \in Comps
<1> DEFINE C == Names \cup {DotDot}
<1>1. comps \in Seq(C) /\ Len(comps) \in Nat /\ Len(comps) >= 1
  BY DEF Comps
<1>2. \A j \in 1..Len(comps) - 1 : comps[j] \in C
  BY <1>1
<1> HIDE DEF C
<1>3. SubSeq(comps, 1, Len(comps) - 1) \in Seq(C)
  BY <1>1, <1>2, SubSeqProperties
<1> QED BY <1>3 DEF Front, Comps, C

(* write_path at the end of the trail mkdir_p made.                        *)
LEMMA WriteIsRead ==
  ASSUME NEW d, GoodDisk(d), d.at # 0, NEW comps \in Comps \ {<< >>},
         Made(d, Front(comps), Len(Front(comps))), WritePath(d, comps, 1).at # 0
  PROVE  ReadPath(WritePath(d, comps, 1).nodes, comps) = {1}
<1>1. PICK N, x, u, a : d = [nodes |-> N, next |-> x, used |-> u, at |-> a]
  BY DEF GoodDisk, Disk
<1>2. d.nodes = N /\ d.next = x /\ d.used = u /\ d.at = a
  BY <1>1
<1>3. Good(N, x, u) /\ IsDir(N, a)
  BY <1>2 DEF GoodDisk
<1>4. Tree(N) /\ Shape(N) /\ 0 \notin DOMAIN N /\ u \in Nat /\ x \in Nat /\ x # 0 /\ x \notin DOMAIN N
  BY <1>3, GoodIs
<1> DEFINE K == Len(Front(comps))
           e == WritePath(d, comps, 1)
           n == Last(comps)
           i == ChildIno(N, a, n)
<1>5. PICK w : Trail(N, Front(comps), K, w) /\ w[K] = a
  BY <1>2 DEF Made
<1>6. Resolve(N, Front(comps), TRUE) = a
  BY <1>4, <1>5, FrontPath, ResolveTrail
<1>7. n \in Names \cup {DotDot}
  BY PathParts
<1>8. CASE n # DotDot /\ Occupied(N, a, n) /\ N[i].kind = "file"
  <2> DEFINE old   == N[i].len
             ms    == [N EXCEPT ![i].len = 1]
             write == [d EXCEPT !.nodes[i].len = 1, !.at = i, !.used = (u + 1) - old]
             empty == [d EXCEPT !.nodes[i].len = 0, !.used = @ - old, !.at = 0]
  <2>1. e = IF write.used <= Limit THEN write ELSE empty
    BY <1>2, <1>6, <1>8 DEF WritePath, NewLen
  <2>2. write.nodes = ms /\ empty.at = 0
    BY <1>1
  <2>3. e.nodes = ms
    <3> HIDE DEF write, empty, ms, i
    <3> QED BY <2>1, <2>2
  <2>4. /\ i \in DOMAIN N /\ IsLeaf(N, i) /\ Edge(N, a, n, i) /\ n \in Names
    <3>1. i \in DOMAIN N /\ Edge(N, a, n, i) /\ n \in Names
      BY <1>4, <1>8, OccupiedIs
    <3> QED BY <1>8, <3>1 DEF IsLeaf
  <2> HIDE DEF e, i
  <2>5. /\ Tree(ms) /\ SameKinds(N, ms) /\ ms[i].len = 1
    BY <1>4, <2>4, ResizedTree
  <2>6. SameEdges(N, ms) /\ SameParents(N, ms)
    BY <1>4, <2>4, SetLen DEF Tree
  <2> HIDE DEF ms
  <2>7. Kept(N, ms) /\ i \in DOMAIN ms /\ ms[i].kind = "file" /\ 0 \notin DOMAIN ms
    BY <1>4, <1>8, <2>4, <2>5, <2>6 DEF Kept, SameKinds, SameEdges, SameParents, IsDir, i
  <2>8. i = Step(ms, a, n)
    <3>1. Edge(ms, a, n, i)
      BY <2>4, <2>7 DEF Kept
    <3> QED BY <2>4, <2>5, <3>1, StepEdge
  <2> QED BY <1>4, <1>5, <2>3, <2>5, <2>7, <2>8, ReadsBack DEF e
<1>9. CASE n # DotDot /\ ~Occupied(N, a, n)
  <2> DEFINE fits == u + 1 <= Limit
             ms   == Grown(N, x, NewFile(1), a, n)
  <2>1. Vacant(N, a, n) /\ n \in Names
    <3> HIDE DEF n
    <3> QED BY <1>3, <1>7, <1>9 DEF Vacant, Occupied
  <2>2. e.at = (IF fits THEN x ELSE 0) /\ e.nodes = Grown(N, x, NewFile(IF fits THEN 1 ELSE 0), a, n)
    BY <1>2, <1>3, <1>6, <1>9 DEF WritePath
  <2>3. e.nodes = ms
    BY <2>2
  <2>4. NewIn(NewFile(1), a) /\ NewFile(1).len = 1 /\ NewFile(1).kind = "file"
    <3>1. a \in Nat
      BY <1>3, GoodIs DEF IsDir
    <3> QED BY <3>1, NewNodes
  <2> HIDE DEF e, n
  <2>5. Added(N, ms, a, n, x, NewFile(1))
    BY <1>4, <2>1, <2>4, GrownKept
  <2> HIDE DEF ms
  <2>6. /\ Tree(ms) /\ Kept(N, ms) /\ x \in DOMAIN ms /\ 0 \notin DOMAIN ms
        /\ ms[x].kind = "file" /\ ms[x].len = 1 /\ x = Step(ms, a, n)
    BY <1>4, <2>4, <2>5 DEF Added
  <2> QED BY <1>4, <1>5, <2>3, <2>6, ReadsBack DEF e, n
<1>10. CASE n = DotDot \/ (Occupied(N, a, n) /\ N[i].kind # "file")
  <2>1. e = [d EXCEPT !.at = 0]
    BY <1>2, <1>6, <1>10 DEF WritePath
  <2> QED BY <1>1, <2>1
<1> QED BY <1>8, <1>9, <1>10

(* WrittenReadsBack: what devdev_fs_write reports as written is at that    *)
(* path, with its length, whichever inodes were there before.              *)
THEOREM FsWrittenReadsBack == Spec => []WrittenReadsBack
<1>1. ASSUME FsInv PROVE WrittenReadsBack
  <2> SUFFICES ASSUME NEW comps \in Paths, Written(comps, 1).at # 0
               PROVE  ReadPath(Written(comps, 1).nodes, comps) = {1}
    BY DEF WrittenReadsBack
  <2> DEFINE d == MkdirP(Front(comps))
  <2>1. comps \in Comps \ {<< >>}
    BY PathsAssumption
  <2>2. GoodDisk(d) /\ Made(d, Front(comps), Len(Front(comps)))
    BY <1>1, <2>1, PathParts, MkdirPKeeps
  <2>3. Written(comps, 1) = IF d.at = 0 THEN d ELSE WritePath(d, comps, 1)
    BY Zenon DEF Written
  <2> HIDE DEF d
  <2>4. d.at # 0 /\ Written(comps, 1) = WritePath(d, comps, 1)
    BY <2>3
  <2> QED BY <2>1, <2>2, <2>4, WriteIsRead
<1> QED BY <1>1, FsInvariant, PTL

-----------------------------------------------------------------------------
(* The drivers. *)

(* An open file: it keeps one of the numbers handed out so far.            *)
HandleOf(x, nx) == DOMAIN x = {"ino", "path", "del"} /\ x.ino \in 1..nx - 1

(* Through the mount every file has exactly the names its links count,     *)
(* under WinFSP just one.                                                  *)
MountInv ==
  /\ FsInv /\ Exact(nodes)
  /\ platform = "winfsp" => Singles(nodes)
  /\ \A h \in DOMAIN handles : HandleOf(handles[h], next)

(* What a request does to the table, and to the handles that stay open.    *)
Served == Keeps /\ (Exact(nodes) => Exact(nodes')) /\ (Singles(nodes) => Singles(nodes'))

HandlesServed ==
  \A h \in DOMAIN handles' :
    /\ HandleOf(handles'[h], next')
    /\ h \in DOMAIN handles => handles'[h].ino = handles[h].ino

(* A request that changes no inode.                                        *)
LEMMA Idle ==
  ASSUME FsInv, UNCHANGED vars
  PROVE  Served
  BY DEF Served, Keeps, FsInv, vars, DirsKept

(* The numbers handed out stay handed out.                                 *)
LEMMA NumbersStay ==
  ASSUME NEW nx \in Nat, NEW ny \in {nx, nx + 1}
  PROVE  1..nx - 1 \subseteq 1..ny - 1
  OBVIOUS

(* A handle stays one when more numbers are handed out.                    *)
LEMMA HandleLater ==
  ASSUME NEW x, NEW nx \in Nat, HandleOf(x, nx), NEW ny \in {nx, nx + 1}
  PROVE  HandleOf(x, ny)
<1>1. 1..nx - 1 \subseteq 1..ny - 1
  BY NumbersStay
<1> QED BY <1>1 DEF HandleOf

(* A handle whose path changed, or that was marked for deletion, means the *)
(* same file.                                                              *)
LEMMA HandleMoved ==
  ASSUME NEW x, NEW nx, HandleOf(x, nx), NEW path
  PROVE  LET y == [x EXCEPT !.path = path] IN HandleOf(y, nx) /\ y.ino = x.ino
  BY DEF HandleOf

(* A handle marked for deletion.                                           *)
LEMMA HandleMarked ==
  ASSUME NEW x, NEW nx, HandleOf(x, nx)
  PROVE  LET y == [x EXCEPT !.del = TRUE] IN HandleOf(y, nx) /\ y.ino = x.ino
  BY DEF HandleOf

(* Handles that stay as they are.                                          *)
LEMMA HandlesStay ==
  ASSUME MountInv, Keeps, handles' = handles
  PROVE  HandlesServed
<1>1. next \in Nat /\ next' \in {next, next + 1}
  BY GoodIs DEF MountInv, FsInv, Keeps
<1> QED BY <1>1, HandleLater DEF HandlesServed, MountInv

(* One handle closed.                                                      *)
LEMMA HandleClosed ==
  ASSUME MountInv, Keeps, NEW h, handles' = Closed(h)
  PROVE  HandlesServed
<1>1. next \in Nat /\ next' \in {next, next + 1}
  BY GoodIs DEF MountInv, FsInv, Keeps
<1> QED BY <1>1, HandleLater DEF HandlesServed, MountInv, Closed

(* One handle opened.                                                      *)
LEMMA HandleOpened ==
  ASSUME MountInv, Keeps, NEW h, h \notin DOMAIN handles, NEW i \in 1..next' - 1, NEW path,
         handles' = Opened(h, i, path)
  PROVE  HandlesServed
<1>1. next \in Nat /\ next' \in {next, next + 1}
  BY GoodIs DEF MountInv, FsInv, Keeps
<1>2. handles'[h] = [ino |-> i, path |-> path, del |-> FALSE]
  BY DEF Opened
<1>3. HandleOf(handles'[h], next')
  BY <1>2 DEF HandleOf
<1>4. \A g \in DOMAIN handles : handles'[g] = handles[g]
  BY DEF Opened
<1>5. DOMAIN handles' = DOMAIN handles \cup {h}
  BY DEF Opened
<1> QED BY <1>1, <1>3, <1>4, <1>5, HandleLater DEF HandlesServed, MountInv

(* The last component of a path, when it is not "..", is a name.           *)
LEMMA LastName ==
  ASSUME NEW path \in Paths, Last(path) # DotDot
  PROVE  Last(path) \in Names
  BY PathParts, PathsAssumption

(* Each WinFSP callback.                                                   *)
LEMMA WinServed ==
  ASSUME MountInv, platform = "winfsp", WinFsp
  PROVE  Served /\ HandlesServed
<1>1. FsInv /\ Exact(nodes) /\ Singles(nodes) /\ Limit \in Nat /\ next \in Nat
  BY GoodIs DEF MountInv, FsInv
<1>2. ASSUME Served, handles' = handles PROVE Served /\ HandlesServed
  BY <1>2, HandlesStay DEF Served
<1>3. PICK h \in Handles :
        \/ \E path \in Paths :
             WinOpen(h, path) \/ \E wantDir \in BOOLEAN : WinCreate(h, path, wantDir)
        \/ /\ h \in DOMAIN handles
           /\ \/ \E size \in 0..Limit : WinSetSize(h, size)
              \/ WinOverwrite(h)
              \/ \E offset \in 0..Limit : WinWrite(h, offset, 1)
              \/ WinCanDelete(h)
              \/ WinCleanup(h)
              \/ \E to \in Paths : WinRename(h, to)
  BY DEF WinFsp
<1>4. ASSUME NEW path \in Paths, WinOpen(h, path) PROVE Served /\ HandlesServed
  <2> DEFINE i == Resolve(nodes, path, FALSE)
  <2>1. h \notin DOMAIN handles /\ i \in DOMAIN nodes /\ handles' = Opened(h, i, path)
        /\ UNCHANGED vars
    BY <1>4 DEF WinOpen
  <2> HIDE DEF i
  <2>2. Served
    BY <1>1, <2>1, Idle
  <2>3. i \in 1..next' - 1
    BY <1>1, <2>1, GoodIs DEF FsInv, vars
  <2> QED BY <2>1, <2>2, <2>3, HandleOpened DEF Served
<1>5. ASSUME NEW path \in Paths, NEW wantDir \in BOOLEAN, WinCreate(h, path, wantDir)
      PROVE  Served /\ HandlesServed
  <2> DEFINE p == Parent(path)
             n == Last(path)
  <2>1. h \notin DOMAIN handles /\ (Mkdir(p, n) \/ Create(p, n)) /\ handles' = Opened(h, next, path)
    BY <1>5 DEF WinCreate
  <2>2. n \in Names
    BY <1>5, LastName DEF WinCreate
  <2> HIDE DEF p, n
  <2>3. Served
    BY <1>1, <2>1, <2>2, MkdirKeeps, CreateKeeps DEF Served
  <2>4. next' = next + 1 /\ next >= 1
    BY <1>1, <2>1, GoodIs DEF Mkdir, Create, Allocate, FsInv
  <2>5. next \in 1..next' - 1
    BY <1>1, <2>4
  <2> QED BY <2>1, <2>3, <2>5, HandleOpened DEF Served
<1>6. ASSUME NEW size \in 0..Limit, WinSetSize(h, size) PROVE Served /\ HandlesServed
  <2>1. size \in Nat
    BY <1>1
  <2> QED BY <1>1, <1>2, <1>6, <2>1, SetattrKeeps DEF WinSetSize, Served
<1>7. ASSUME WinOverwrite(h) PROVE Served /\ HandlesServed
  BY <1>1, <1>2, <1>7, SetattrKeeps DEF WinOverwrite, Served
<1>8. ASSUME NEW offset \in 0..Limit, WinWrite(h, offset, 1) PROVE Served /\ HandlesServed
  <2>1. offset \in Nat
    BY <1>1
  <2> QED BY <1>1, <1>2, <1>8, <2>1, WriteKeeps DEF WinWrite, Served
<1>9. ASSUME h \in DOMAIN handles, WinCanDelete(h) PROVE Served /\ HandlesServed
  <2>1. UNCHANGED vars /\ handles' = [handles EXCEPT ![h].del = TRUE]
    BY <1>9 DEF WinCanDelete
  <2>2. Served /\ next' = next
    BY <1>1, <2>1, Idle DEF vars
  <2>3. DOMAIN handles' = DOMAIN handles
    BY <2>1
  <2>4. ASSUME NEW g \in DOMAIN handles
        PROVE  handles'[g] \in {handles[g], [handles[g] EXCEPT !.del = TRUE]}
    BY <1>9, <2>1
  <2>5. ASSUME NEW g \in DOMAIN handles
        PROVE  HandleOf(handles'[g], next) /\ handles'[g].ino = handles[g].ino
    <3>1. HandleOf(handles[g], next)
      BY DEF MountInv
    <3>2. /\ HandleOf([handles[g] EXCEPT !.del = TRUE], next)
          /\ [handles[g] EXCEPT !.del = TRUE].ino = handles[g].ino
      BY <3>1, HandleMarked, Zenon
    <3>3. CASE handles'[g] = handles[g]
      BY <3>1, <3>3
    <3>4. CASE handles'[g] = [handles[g] EXCEPT !.del = TRUE]
      BY <3>2, <3>4, Zenon
    <3> QED BY <2>4, <3>3, <3>4
  <2> QED BY <2>2, <2>3, <2>5 DEF HandlesServed
<1>10. ASSUME WinCleanup(h) PROVE Served /\ HandlesServed
  <2> DEFINE p == Parent(handles[h].path)
             n == Last(handles[h].path)
  <2>1. handles' = Closed(h) /\ (UNCHANGED vars \/ Rmdir(p, n) \/ Unlink(p, n))
    BY <1>10 DEF WinCleanup, CleanupDelete
  <2> HIDE DEF p, n
  <2>2. Served
    BY <1>1, <2>1, Idle, RmdirKeeps, UnlinkKeeps DEF Served
  <2> QED BY <2>1, <2>2, HandleClosed DEF Served
<1>11. ASSUME NEW to \in Paths, WinRename(h, to) PROVE Served /\ HandlesServed
  <2> DEFINE from == handles[h].path
             p == Parent(from)
             n == Last(from)
             q == Parent(to)
             m == Last(to)
  <2>1. /\ Rename(p, n, q, m) /\ m # DotDot
        /\ handles' = [g \in DOMAIN handles |->
                         IF handles[g].ino \in DOMAIN nodes
                           THEN [handles[g] EXCEPT !.path = Followed(@, from, to)]
                           ELSE handles[g]]
    BY <1>11 DEF WinRename
  <2>2. m \in Names
    BY <1>11, <2>1, LastName
  <2> HIDE DEF p, n, q, m, from
  <2>3. Served
    BY <1>1, <2>1, <2>2, RenameKeeps DEF Served
  <2>4. DOMAIN handles' = DOMAIN handles
    BY <2>1
  <2>5. ASSUME NEW g \in DOMAIN handles
        PROVE  HandleOf(handles'[g], next) /\ handles'[g].ino = handles[g].ino
    <3>1. HandleOf(handles[g], next)
      BY DEF MountInv
    <3>2. \/ handles'[g] = handles[g]
          \/ \E path : handles'[g] = [handles[g] EXCEPT !.path = path]
      BY <2>1
    <3>3. CASE handles'[g] = handles[g]
      BY <3>1, <3>3
    <3>4. CASE \E path : handles'[g] = [handles[g] EXCEPT !.path = path]
      <4>1. PICK path : handles'[g] = [handles[g] EXCEPT !.path = path]
        BY <3>4
      <4>2. /\ HandleOf([handles[g] EXCEPT !.path = path], next)
            /\ [handles[g] EXCEPT !.path = path].ino = handles[g].ino
        BY <3>1, HandleMoved, Zenon
      <4> QED BY <4>1, <4>2, Zenon
    <3> QED BY <3>2, <3>3, <3>4
  <2>6. next' = next
    BY <2>1 DEF Rename
  <2> QED BY <2>3, <2>4, <2>5, <2>6 DEF HandlesServed
<1> QED BY <1>3, <1>4, <1>5, <1>6, <1>7, <1>8, <1>9, <1>10, <1>11

(* Each FUSE request: links come to differ from one, never from the names. *)
LEMMA FuseServed ==
  ASSUME MountInv, platform = "fuse", Fuse
  PROVE  Keeps /\ Exact(nodes') /\ HandlesServed
<1>1. FsInv /\ Exact(nodes) /\ Limit \in Nat /\ next \in Nat
  BY GoodIs DEF MountInv, FsInv
<1>2. ASSUME Keeps, Exact(nodes'), handles' = handles PROVE Keeps /\ Exact(nodes') /\ HandlesServed
  BY <1>2, HandlesStay
<1>3. ASSUME NEW h, FuseRelease(h) PROVE Keeps /\ Exact(nodes') /\ HandlesServed
  <2>1. Served /\ handles' = Closed(h)
    BY <1>1, <1>3, Idle DEF FuseRelease
  <2> QED BY <1>1, <2>1, HandleClosed DEF Served
<1>4. ASSUME NEW h, NEW i \in DOMAIN nodes, FuseOpen(h, i)
      PROVE  Keeps /\ Exact(nodes') /\ HandlesServed
  <2>1. Served /\ handles' = Opened(h, i, << >>) /\ h \notin DOMAIN handles /\ next' = next
    BY <1>1, <1>4, Idle DEF FuseOpen, vars
  <2>2. i \in 1..next' - 1
    BY <1>1, <2>1, GoodIs DEF FsInv
  <2> QED BY <1>1, <2>1, <2>2, HandleOpened DEF Served
<1>5. ASSUME NEW p, NEW n \in Names, FuseNames(p, n) PROVE Keeps /\ Exact(nodes')
  <2>1. ASSUME NEW q, NEW m \in Names, FuseRename(p, n, q, m) PROVE Keeps /\ Exact(nodes')
    <3>1. Rename(p, n, q, m) /\ ~OneFile(nodes, p, n, q, m)
      BY <2>1 DEF FuseRename, OneFile, Rename
    <3> QED BY <1>1, <3>1, RenameKeeps
  <2>2. ASSUME NEW t \in Targets, Symlink(p, n, t) PROVE Keeps /\ Exact(nodes')
    BY <1>1, <2>2, SymlinkKeeps
  <2>3. ASSUME NEW i, Link(i, p, n) PROVE Keeps /\ Exact(nodes')
    BY <1>1, <2>3, LinkKeeps
  <2>4. ASSUME Mkdir(p, n) \/ Create(p, n) PROVE Keeps /\ Exact(nodes')
    BY <1>1, <2>4, MkdirKeeps, CreateKeeps
  <2>5. ASSUME Rmdir(p, n) \/ Unlink(p, n) PROVE Keeps /\ Exact(nodes')
    BY <1>1, <2>5, RmdirKeeps, UnlinkKeeps
  <2> QED BY <1>5, <2>1, <2>2, <2>3, <2>4, <2>5 DEF FuseNames
<1>6. ASSUME NEW i \in DOMAIN nodes, NEW size \in 0..Limit, FuseSetattr(i, size)
      PROVE  Keeps /\ Exact(nodes')
  <2>1. size \in Nat
    BY <1>1
  <2> QED BY <1>1, <1>6, <2>1, SetattrKeeps DEF FuseSetattr
<1>7. ASSUME NEW i \in DOMAIN nodes, NEW offset \in 0..Limit, FuseWrite(i, offset, 1)
      PROVE  Keeps /\ Exact(nodes')
  <2>1. offset \in Nat
    BY <1>1
  <2> QED BY <1>1, <1>7, <2>1, WriteKeeps DEF FuseWrite
<1> QED BY <1>2, <1>3, <1>4, <1>5, <1>6, <1>7 DEF Fuse

(* A step of the driver in general.                                        *)
LEMMA MountStep ==
  ASSUME MountInv, platform \in {"winfsp", "fuse"}, [DriversNext]_dvars
  PROVE  /\ MountInv' /\ platform' = platform /\ HandlesServed
         /\ DOMAIN nodes' \subseteq DOMAIN nodes \cup {next}
         /\ next' \in {next, next + 1} /\ DirsKept
<1>1. CASE UNCHANGED << vars, platform, handles >>
  <2>1. Served
    BY <1>1, Idle DEF MountInv
  <2>2. HandlesServed
    BY <1>1, <2>1, HandlesStay DEF Served
  <2> QED BY <1>1, <2>1, <2>2 DEF MountInv, Served, Keeps, HandlesServed
<1>2. CASE platform = "winfsp" /\ WinFsp /\ UNCHANGED platform
  BY <1>2, WinServed DEF MountInv, Served, Keeps, HandlesServed
<1>3. CASE platform = "fuse" /\ Fuse /\ UNCHANGED platform
  BY <1>3, FuseServed DEF MountInv, Keeps, HandlesServed
<1>4. \/ UNCHANGED << vars, platform, handles >>
      \/ platform = "winfsp" /\ WinFsp /\ UNCHANGED platform
      \/ platform = "fuse" /\ Fuse /\ UNCHANGED platform
  BY DEF DriversNext, dvars, StartListing, SendPage
<1> QED BY <1>1, <1>2, <1>3, <1>4

(* Behind the mount, whatever requests the kernel sends, links and names   *)
(* agree and every open file keeps a number that was handed out.           *)
THEOREM MountInvariant == DriversSpec => [](MountInv /\ platform \in {"winfsp", "fuse"})
<1> DEFINE Inv == MountInv /\ platform \in {"winfsp", "fuse"}
<1>1. DriversInit => Inv
  BY InitGood DEF DriversInit, MountInv
<1>2. Inv /\ [DriversNext]_dvars => Inv'
  BY MountStep
<1> QED BY <1>1, <1>2, PTL DEF DriversSpec

(* No operation through the mount leaves an inode without a name: what     *)
(* counts against the limit can be reached and removed.                    *)
THEOREM MountNoOrphans == DriversSpec => []NoOrphans
<1>1. MountInv => NoOrphans
  <2> SUFFICES ASSUME MountInv, NEW i \in DOMAIN nodes \ {Root} PROVE Holders(nodes, i) # {}
    BY DEF NoOrphans
  <2>1. Tree(nodes) /\ Exact(nodes)
    BY InoRange DEF MountInv
  <2>2. CASE IsDir(nodes, i)
    <3>1. \E n : SoleName(nodes, i, n)
      BY <2>1, <2>2, HolderOfDir
    <3> QED BY <3>1 DEF SoleName
  <2>3. CASE IsLeaf(nodes, i)
    <3>1. nodes[i].nlink >= 1
      BY <2>1, <2>3 DEF Tree, Table, Proper, IsLeaf
    <3>2. Cardinality(Holders(nodes, i)) >= 1
      BY <2>1, <2>3, <3>1 DEF Exact
    <3> QED BY <3>2, FS_EmptySet
  <2> QED BY <2>2, <2>3 DEF IsDir, IsLeaf
<1> QED BY <1>1, MountInvariant, PTL

(* A number is never given to a second file, so a handle whose file is     *)
(* gone never comes to mean another.                                       *)
THEOREM MountGoneStaysGone == DriversSpec => GoneStaysGone
<1> DEFINE Inv  == MountInv /\ platform \in {"winfsp", "fuse"}
           Gone == \A h \in DOMAIN handles \cap DOMAIN handles' :
                     /\ handles'[h].ino = handles[h].ino
                     /\ handles[h].ino \notin DOMAIN nodes => handles[h].ino \notin DOMAIN nodes'
<1>1. Inv /\ [DriversNext]_dvars => [Gone]_dvars
  <2> SUFFICES ASSUME Inv, [DriversNext]_dvars PROVE Gone
    OBVIOUS
  <2>1. HandlesServed /\ DOMAIN nodes' \subseteq DOMAIN nodes \cup {next}
    BY MountStep
  <2>2. ASSUME NEW h \in DOMAIN handles PROVE handles[h].ino # next
    <3>1. HandleOf(handles[h], next) /\ next \in Nat
      BY GoodIs DEF MountInv, FsInv
    <3> QED BY <3>1 DEF HandleOf
  <2> QED BY <2>1, <2>2 DEF HandlesServed
<1>2. Gone <=> \A h \in DOMAIN handles \cap DOMAIN handles' :
                     /\ handles'[h].ino = handles[h].ino
                     /\ handles[h].ino \notin DOMAIN nodes => handles[h].ino \notin DOMAIN nodes'
  OBVIOUS
<1> QED BY <1>1, <1>2, MountInvariant, PTL DEF DriversSpec, GoneStaysGone

-----------------------------------------------------------------------------
(* What a handle's path leads to. *)

(* The way of a path: w[k] is what its first k components name.            *)
Way(ns, P, K, w) ==
  w[0] = Root /\ \A k \in 1..K : Edge(ns, w[k - 1], P[k], w[k])

NoSymlinks(ns) == \A i \in DOMAIN ns : ns[i].kind # "symlink"

Plain(P) == P \in Seq(Names)

(* Path P names inode i.                                                   *)
Leads(ns, P, i) == \E w : Way(ns, P, Len(P), w) /\ w[Len(P)] = i

(* A path of names is a path.                                              *)
LEMMA PlainIs ==
  ASSUME NEW P, Plain(P)
  PROVE  P \in Comps /\ Len(P) \in Nat /\ DOMAIN P = 1..Len(P) /\ \A k \in 1..Len(P) : P[k] \in Names
<1>1. P \in Seq(Names) /\ Len(P) \in Nat
  BY DEF Plain
<1>2. \A k \in 1..Len(P) : P[k] \in Names
  BY <1>1
<1>3. P \in Seq(Names \cup {DotDot})
  BY <1>1
<1> QED BY <1>1, <1>2, <1>3 DEF Comps

(* All but the end of a way is a directory, and all but its start is not   *)
(* the root.                                                               *)
LEMMA WayIs ==
  ASSUME NEW ns, Tree(ns), NEW P, NEW K \in Nat, NEW w, Way(ns, P, K, w)
  PROVE  /\ \A k \in 0..K : w[k] \in DOMAIN ns
         /\ \A k \in 0..K : k # K => IsDir(ns, w[k])
         /\ \A k \in 1..K : w[k] # Root
<1>1. EdgesDown(ns) /\ Root \in DOMAIN ns
  BY DEF Tree, Shape, RootDir, IsDir
<1>2. ASSUME NEW k \in 1..K PROVE w[k] \in DOMAIN ns /\ w[k] # Root /\ IsDir(ns, w[k - 1])
  BY <1>1 DEF Way, EdgesDown
<1>3. ASSUME NEW k \in 0..K PROVE w[k] \in DOMAIN ns /\ (k # K => IsDir(ns, w[k]))
  <2>1. w[k] \in DOMAIN ns
    BY <1>1, <1>2 DEF Way
  <2>2. k # K => IsDir(ns, w[k])
    <3> SUFFICES ASSUME k # K PROVE IsDir(ns, w[k])
      OBVIOUS
    <3>1. k + 1 \in 1..K /\ (k + 1) - 1 = k
      OBVIOUS
    <3>2. IsDir(ns, w[(k + 1) - 1])
      BY <1>2, <3>1
    <3> QED BY <3>1, <3>2
  <2> QED BY <2>1, <2>2
<1> QED BY <1>2, <1>3

(* Where there is no symlink a path leads along its way.                   *)
LEMMA WayResolves ==
  ASSUME NEW ns, Tree(ns), 0 \notin DOMAIN ns, NoSymlinks(ns), NEW P, Plain(P),
         NEW w, Way(ns, P, Len(P), w)
  PROVE  Resolve(ns, P, FALSE) = w[Len(P)]
<1>1. P \in Comps /\ Len(P) \in Nat /\ \A k \in 1..Len(P) : P[k] \in Names
  BY PlainIs
<1>2. ASSUME NEW k \in 1..Len(P)
      PROVE  w[k] \in DOMAIN ns /\ w[k] = Step(ns, w[k - 1], P[k]) /\ ns[w[k]].kind # "symlink"
  <2>1. Edge(ns, w[k - 1], P[k], w[k])
    BY DEF Way
  <2>2. w[k] \in DOMAIN ns
    BY <2>1 DEF Tree, Shape, EdgesDown
  <2> QED BY <1>1, <2>1, <2>2, StepEdge DEF NoSymlinks
<1>3. Straight(ns, P, FALSE, w)
  BY <1>2 DEF Straight, Way
<1> QED BY <1>1, <1>3, ResolveStraight, Zenon

(* Where a path leads is where it is after its last component.             *)
LEMMA AlongPasses ==
  ASSUME NEW ns, Tree(ns), NEW nested \in [Comps -> Found(ns)], NEW cs \in Comps, NEW follow,
         NEW at, Passes(ns, nested, cs, follow, at)
  PROVE  Along(ns, cs, follow, nested) = at[Len(cs)]
<1>1. Len(cs) \in Nat
  BY DEF Comps
<1>2. at[0] = Root /\ \A k \in 1..Len(cs) : at[k] = Further(ns, nested, cs, follow, k, at[k - 1])
  BY <1>1 DEF Passes
<1> QED BY <1>2, AlongIs

(* A path that leads somewhere has a way there.                            *)
LEMMA ResolvesWay ==
  ASSUME NEW ns, Tree(ns), 0 \notin DOMAIN ns, NoSymlinks(ns), NEW P, Plain(P),
         Resolve(ns, P, FALSE) # 0
  PROVE  Leads(ns, P, Resolve(ns, P, FALSE))
<1> DEFINE K == Len(P)
<1>1. P \in Comps /\ K \in Nat /\ \A k \in 1..K : P[k] \in Names
  BY PlainIs
<1>2. PICK nested \in [Comps -> Found(ns)] :
        Resolve(ns, P, FALSE) = Along(ns, P, FALSE, nested)
  BY ResolveIs, Zenon
<1>3. PICK at : Passes(ns, nested, P, FALSE, at) /\ \A k \in 0..K : at[k] \in Found(ns)
  BY <1>1, PassesExists, Zenon
<1>4. at[0] = Root /\ \A k \in 1..K : at[k] = Further(ns, nested, P, FALSE, k, at[k - 1])
  <2>1. \A k \in 1..K : k \in 0..K /\ k # 0
    BY <1>1
  <2>2. 0 \in 0..K
    BY <1>1
  <2> QED BY <1>3, <2>1, <2>2, Zenon DEF Passes
<1>5. Along(ns, P, FALSE, nested) = at[K]
  BY <1>1, <1>3, AlongPasses, Zenon
<1>6. ASSUME NEW k \in 1..K, at[k] # 0
      PROVE  at[k - 1] # 0 /\ Edge(ns, at[k - 1], P[k], at[k])
  <2> DEFINE i  == at[k - 1]
             to == IF i = 0 THEN 0 ELSE Step(ns, i, P[k])
  <2>1. at[k] = IF to # 0 /\ (k < Len(P) \/ FALSE) /\ ns[to].kind = "symlink"
                  THEN nested[LinkPath(SubSeq(P, 1, k - 1), ns[to].target)] ELSE to
    BY <1>4, Zenon DEF Further
  <2>2. i \in Found(ns)
    <3>1. k - 1 \in 0..K
      BY <1>1
    <3> QED BY <1>3, <3>1
  <2>3. to \in Found(ns)
    BY <2>2, StepIs DEF Found
  <2>4. to # 0
    <3> HIDE DEF to
    <3> QED BY <1>6, <2>1
  <2>5. at[k] = to
    <3> HIDE DEF to
    <3>1. ns[to].kind # "symlink"
      BY <2>3, <2>4 DEF Found, NoSymlinks
    <3> QED BY <2>1, <3>1
  <2>6. i # 0 /\ to = Step(ns, i, P[k]) /\ P[k] # DotDot
    BY <1>1, <2>4, NameIs
  <2>7. Occupied(ns, i, P[k]) /\ to = ChildIno(ns, i, P[k])
    BY <2>4, <2>6 DEF Step
  <2> HIDE DEF to, i
  <2>8. Edge(ns, i, P[k], to)
    BY <2>7, OccupiedIs
  <2> QED BY <2>5, <2>6, <2>8 DEF i
<1> DEFINE T == {k \in 0..K : at[K - k] = 0}
<1>7. T = {}
  <2> SUFFICES ASSUME T # {} PROVE FALSE
    OBVIOUS
  <2>1. T \in SUBSET Nat
    OBVIOUS
  <2>2. PICK y \in T : \A z \in T : z >= y
    BY <2>1, LeastOf
  <2>3. y \in 0..K /\ at[K - y] = 0
    OBVIOUS
  <2>4. y # 0
    <3>1. K - 0 = K
      BY <1>1
    <3> QED BY <1>2, <1>5, <2>3, <3>1
  <2>5. y - 1 \in 0..K /\ ~(y - 1 >= y) /\ K - (y - 1) \in 1..K /\ (K - (y - 1)) - 1 = K - y
    BY <1>1, <2>3, <2>4
  <2>6. y - 1 \notin T
    <3> HIDE DEF T
    <3> QED BY <2>2, <2>5
  <2>7. at[K - (y - 1)] # 0
    BY <2>5, <2>6
  <2> QED BY <1>6, <2>3, <2>5, <2>7
<1>8. ASSUME NEW k \in 0..K PROVE at[k] # 0
  <2>1. K - k \in 0..K /\ K - (K - k) = k
    BY <1>1
  <2> QED BY <1>7, <2>1
<1>9. Way(ns, P, K, at)
  <2>1. \A k \in 1..K : k \in 0..K
    BY <1>1
  <2> QED BY <1>4, <1>6, <1>8, <2>1 DEF Way
<1> QED BY <1>2, <1>5, <1>9 DEF Leads

(* Two ways to one directory spell the same path: if the first is not the  *)
(* longer ...                                                              *)
LEMMA OnePathShort ==
  ASSUME NEW ns, Tree(ns), NEW P, NEW K \in Nat, NEW w, Way(ns, P, K, w),
         NEW Q, NEW M \in Nat, NEW v, Way(ns, Q, M, v), w[K] = v[M], IsDir(ns, w[K]), K <= M
  PROVE  K = M /\ \A k \in 1..K : P[k] = Q[k]
<1>1. ParentsTrue(ns) /\ OneName(ns)
  BY DEF Tree, Shape
<1>2. /\ \A k \in 0..K : IsDir(ns, w[k])
      /\ \A k \in 0..M : IsDir(ns, v[k])
      /\ \A k \in 1..M : v[k] # Root
  BY WayIs
<1> DEFINE T == {k \in 0..K : w[K - k] # v[M - k]}
<1>3. T = {}
  <2> SUFFICES ASSUME T # {} PROVE FALSE
    OBVIOUS
  <2>1. T \in SUBSET Nat
    OBVIOUS
  <2>2. PICK y \in T : \A z \in T : z >= y
    BY <2>1, LeastOf
  <2>3. y \in 0..K /\ w[K - y] # v[M - y]
    OBVIOUS
  <2>4. y # 0
    <3>1. K - 0 = K /\ M - 0 = M
      OBVIOUS
    <3> QED BY <2>3, <3>1
  <2>5. /\ y - 1 \in 0..K /\ ~(y - 1 >= y)
        /\ K - (y - 1) \in 1..K /\ (K - (y - 1)) - 1 = K - y /\ K - (y - 1) \in 0..K
        /\ M - (y - 1) \in 1..M /\ (M - (y - 1)) - 1 = M - y
    BY <2>3, <2>4
  <2>6. y - 1 \notin T
    <3> HIDE DEF T
    <3> QED BY <2>2, <2>5
  <2>7. w[K - (y - 1)] = v[M - (y - 1)] /\ IsDir(ns, w[K - (y - 1)])
    BY <1>2, <2>5, <2>6
  <2>8. /\ Edge(ns, w[K - y], P[K - (y - 1)], w[K - (y - 1)])
        /\ Edge(ns, v[M - y], Q[M - (y - 1)], v[M - (y - 1)])
    BY <2>5 DEF Way
  <2> QED BY <1>1, <2>3, <2>7, <2>8 DEF ParentsTrue
<1>4. \A k \in 0..K : w[K - k] = v[M - k]
  BY <1>3
<1>5. K = M
  <2>1. w[0] = v[M - K]
    <3>1. K \in 0..K /\ K - K = 0
      OBVIOUS
    <3> QED BY <1>4, <3>1
  <2>2. M - K \notin 1..M
    BY <1>2, <2>1 DEF Way
  <2> QED BY <2>2
<1>6. \A k \in 0..K : w[k] = v[k]
  <2> SUFFICES ASSUME NEW k \in 0..K PROVE w[k] = v[k]
    OBVIOUS
  <2>1. K - k \in 0..K /\ K - (K - k) = k
    OBVIOUS
  <2> QED BY <1>4, <1>5, <2>1
<1>7. ASSUME NEW k \in 1..K PROVE P[k] = Q[k]
  <2>1. k \in 0..K /\ k - 1 \in 0..K
    OBVIOUS
  <2>2. Edge(ns, w[k - 1], P[k], w[k]) /\ Edge(ns, w[k - 1], Q[k], w[k]) /\ IsDir(ns, w[k])
    BY <1>2, <1>5, <1>6, <2>1 DEF Way
  <2> QED BY <1>1, <2>2 DEF OneName
<1> QED BY <1>5, <1>7

(* ... and so in general.                                                  *)
LEMMA OnePath ==
  ASSUME NEW ns, Tree(ns), NEW P, NEW K \in Nat, NEW w, Way(ns, P, K, w),
         NEW Q, NEW M \in Nat, NEW v, Way(ns, Q, M, v), w[K] = v[M], IsDir(ns, w[K])
  PROVE  K = M /\ \A k \in 1..K : P[k] = Q[k]
<1>1. CASE K <= M
  BY <1>1, OnePathShort
<1>2. CASE M <= K
  <2>1. M = K /\ \A k \in 1..M : Q[k] = P[k]
    BY <1>2, OnePathShort
  <2> QED BY <2>1
<1> QED BY <1>1, <1>2

(* What leads only to a file that is gone, or to a directory that was      *)
(* empty, can be taken from a way that leads elsewhere.                    *)
Void(ns, ms, q, m) ==
  \A c : Edge(ns, q, m, c) => c \notin DOMAIN ms /\ \A x, y : ~Edge(ns, c, x, y)

(* A way that leads elsewhere does not come through there.                 *)
LEMMA VoidEnds ==
  ASSUME NEW ns, NEW ms, NEW P, NEW K \in Nat, NEW w, Way(ns, P, K, w), w[K] \in DOMAIN ms,
         NEW q, NEW m, Void(ns, ms, q, m), NEW k \in 1..K
  PROVE  ~(w[k - 1] = q /\ P[k] = m)
<1> SUFFICES ASSUME w[k - 1] = q, P[k] = m PROVE FALSE
  OBVIOUS
<1>1. Edge(ns, q, m, w[k])
  BY DEF Way
<1>2. w[k] \notin DOMAIN ms /\ \A x, y : ~Edge(ns, w[k], x, y)
  BY <1>1 DEF Void
<1>3. k # K
  BY <1>2
<1>4. k + 1 \in 1..K /\ (k + 1) - 1 = k
  BY <1>3
<1>5. Edge(ns, w[(k + 1) - 1], P[k + 1], w[k + 1])
  BY <1>4 DEF Way
<1> QED BY <1>2, <1>4, <1>5

(* A path but for its last component, and a way of it.                     *)
LEMMA FrontWay ==
  ASSUME NEW P, Plain(P), P # << >>
  PROVE  /\ Plain(Front(P)) /\ Len(Front(P)) = Len(P) - 1 /\ Len(P) - 1 \in Nat
         /\ Last(P) = P[Len(P)] /\ \A k \in 1..Len(P) - 1 : Front(P)[k] = P[k]
         /\ \A ns, w : Way(ns, Front(P), Len(P) - 1, w) <=> Way(ns, P, Len(P) - 1, w)
<1>1. P \in Seq(Names) /\ Len(P) \in Nat /\ Len(P) >= 1
  BY DEF Plain
<1>2. Len(Front(P)) = Len(P) - 1 /\ \A k \in 1..Len(P) - 1 : Front(P)[k] = P[k]
  BY <1>1, FrontIs
<1>3. Plain(Front(P))
  <2>1. \A j \in 1..Len(P) - 1 : P[j] \in Names
    BY <1>1
  <2>2. SubSeq(P, 1, Len(P) - 1) \in Seq(Names)
    BY <1>1, <2>1, SubSeqProperties
  <2> QED BY <2>2 DEF Front, Plain
<1> QED BY <1>1, <1>2, <1>3 DEF Last, Way

(* A path leads to what its last component names where the rest leads.     *)
LEMMA LeadsFurther ==
  ASSUME NEW ns, NEW P, Plain(P), P # << >>, NEW d, Leads(ns, Front(P), d), NEW i, Edge(ns, d, Last(P), i)
  PROVE  Leads(ns, P, i)
<1> DEFINE K == Len(P)
<1>1. K \in Nat /\ K - 1 \in Nat /\ Len(Front(P)) = K - 1 /\ Last(P) = P[K]
  BY FrontWay, PlainIs
<1>2. PICK w : Way(ns, P, K - 1, w) /\ w[K - 1] = d
  BY <1>1, FrontWay DEF Leads
<1> HIDE DEF K
<1> DEFINE v == [k \in 0..K |-> IF k = K THEN i ELSE w[k]]
<1>3. v[K] = i /\ \A k \in 0..K - 1 : v[k] = w[k]
  BY <1>1
<1>4. 0 \in 0..K - 1 /\ K - 1 \in 0..K - 1
  BY <1>1
<1> HIDE DEF v
<1>5. v[0] = Root
  BY <1>3, <1>4, <1>2 DEF Way
<1>6. ASSUME NEW k \in 1..K PROVE Edge(ns, v[k - 1], P[k], v[k])
  <2>1. CASE k = K
    BY <1>1, <1>3, <1>4, <1>2, <2>1
  <2>2. CASE k # K
    <3>1. k \in 1..K - 1 /\ k \in 0..K - 1 /\ k - 1 \in 0..K - 1
      BY <1>1, <2>2
    <3> QED BY <1>3, <1>2, <3>1 DEF Way
  <2> QED BY <2>1, <2>2
<1> QED BY <1>3, <1>5, <1>6 DEF Way, Leads, K

-----------------------------------------------------------------------------
(* A handle's path names its file while that is there.                     *)
OwnFile(ns, x) == Plain(x.path) /\ (x.ino \in DOMAIN ns => Leads(ns, x.path, x.ino))

Owned(ns, hs) == NoSymlinks(ns) /\ \A h \in DOMAIN hs : OwnFile(ns, hs[h])

(* What every request leaves of a table.                                   *)
Sound(ns) == Tree(ns) /\ 0 \notin DOMAIN ns

(* A path leads where it led when every edge stays.                        *)
LEMMA LeadsOn ==
  ASSUME NEW ns, NEW ms, NEW P, NEW i, Leads(ns, P, i),
         \A d, n, c : Edge(ns, d, n, c) => Edge(ms, d, n, c)
  PROVE  Leads(ms, P, i)
  BY DEF Leads, Way

(* A path leads where it led when only that is lost.                       *)
LEMMA LeadsStill ==
  ASSUME NEW ns, NEW ms, NEW P, Plain(P), NEW i \in DOMAIN ms, Leads(ns, P, i),
         NEW q, NEW m, Void(ns, ms, q, m),
         \A d, n, c : Edge(ns, d, n, c) /\ ~(d = q /\ n = m) => Edge(ms, d, n, c)
  PROVE  Leads(ms, P, i)
<1>1. PICK w : Way(ns, P, Len(P), w) /\ w[Len(P)] = i
  BY DEF Leads
<1>2. Len(P) \in Nat
  BY PlainIs
<1>3. \A k \in 1..Len(P) : ~(w[k - 1] = q /\ P[k] = m)
  BY <1>1, <1>2, VoidEnds
<1>4. Way(ms, P, Len(P), w)
  BY <1>1, <1>3 DEF Way
<1> QED BY <1>1, <1>4 DEF Leads

-----------------------------------------------------------------------------
(* rename. *)

(* A prefix, component by component.                                       *)
LEMMA PrefixIs ==
  ASSUME NEW s, Plain(s), NEW t, Plain(t)
  PROVE  IsPrefix(s, t) <=> Len(s) <= Len(t) /\ \A k \in 1..Len(s) : s[k] = t[k]
<1>1. /\ s \in Seq(Names) /\ t \in Seq(Names) /\ Len(s) \in Nat /\ Len(t) \in Nat
      /\ \A k \in 1..Len(s) : s[k] \in Names
      /\ \A k \in 1..Len(t) : t[k] \in Names
  BY PlainIs DEF Plain
<1> SUFFICES ASSUME Len(s) <= Len(t)
             PROVE  SubSeq(s, 1, Len(s)) = SubSeq(t, 1, Len(s)) <=> \A k \in 1..Len(s) : s[k] = t[k]
  BY DEF IsPrefix
<1> DEFINE a == SubSeq(s, 1, Len(s))
           b == SubSeq(t, 1, Len(s))
<1>2. a \in Seq(Names) /\ \A k \in 1..Len(s) - 1 + 1 : a[k] = s[1 + k - 1]
  BY <1>1, SubSeqProperties
<1>3. b \in Seq(Names) /\ \A k \in 1..Len(s) - 1 + 1 : b[k] = t[1 + k - 1]
  <2>1. \A k \in 1..Len(s) : t[k] \in Names
    BY <1>1
  <2> QED BY <1>1, <2>1, SubSeqProperties
<1>4. Len(a) = Len(s) /\ Len(b) = Len(s)
  <2>1. \A k \in 1..Len(s) : t[k] \in Names
    BY <1>1
  <2> QED BY <1>1, <2>1, SubSeqProperties
<1> HIDE DEF a, b
<1>5. \A k \in 1..Len(s) : a[k] = s[k] /\ b[k] = t[k]
  <2>1. Len(s) - 1 + 1 = Len(s) /\ \A k \in 1..Len(s) : 1 + k - 1 = k
    BY <1>1
  <2> QED BY <1>2, <1>3, <2>1
<1>6. ASSUME \A k \in 1..Len(s) : s[k] = t[k] PROVE a = b
  <2>1. \A k \in 1..Len(a) : a[k] = b[k]
    BY <1>4, <1>5, <1>6
  <2> QED BY <1>2, <1>3, <1>4, <2>1, SeqEqual
<1>7. ASSUME a = b PROVE \A k \in 1..Len(s) : s[k] = t[k]
  BY <1>5, <1>7
<1> QED BY <1>6, <1>7 DEF a, b

(* The path behind old, behind new.                                        *)
LEMMA FollowedIs ==
  ASSUME NEW P, Plain(P), NEW old, Plain(old), NEW new, Plain(new), IsPrefix(old, P)
  PROVE  LET F == Followed(P, old, new)
         IN  /\ Plain(F) /\ Len(F) = Len(new) + (Len(P) - Len(old))
             /\ \A k \in 1..Len(new) : F[k] = new[k]
             /\ \A k \in Len(new) + 1..Len(F) : F[k] = P[k - Len(new) + Len(old)]
<1> DEFINE R == SubSeq(P, Len(old) + 1, Len(P))
           F == Followed(P, old, new)
<1>1. /\ P \in Seq(Names) /\ new \in Seq(Names)
      /\ Len(P) \in Nat /\ Len(old) \in Nat /\ Len(new) \in Nat /\ Len(old) <= Len(P)
      /\ \A k \in 1..Len(P) : P[k] \in Names
  BY PlainIs, PrefixIs DEF Plain
<1>2. \A k \in Len(old) + 1..Len(P) : P[k] \in Names
  BY <1>1
<1>3. /\ R \in Seq(Names)
      /\ Len(R) = IF Len(old) + 1 <= Len(P) THEN Len(P) - (Len(old) + 1) + 1 ELSE 0
      /\ \A k \in 1..Len(P) - (Len(old) + 1) + 1 : R[k] = P[Len(old) + 1 + k - 1]
  BY <1>1, <1>2, SubSeqProperties
<1> HIDE DEF R
<1>4. Len(R) = Len(P) - Len(old) /\ \A k \in 1..Len(R) : R[k] = P[Len(old) + k]
  <2>1. Len(R) = Len(P) - Len(old)
    BY <1>1, <1>3
  <2>2. ASSUME NEW k \in 1..Len(R) PROVE R[k] = P[Len(old) + k]
    <3>1. k \in 1..Len(P) - (Len(old) + 1) + 1 /\ Len(old) + 1 + k - 1 = Len(old) + k
      BY <1>1, <2>1
    <3> QED BY <1>3, <3>1
  <2> QED BY <2>1, <2>2
<1>5. F = new \o R
  BY DEF Followed, R
<1> HIDE DEF F
<1>6. /\ F \in Seq(Names) /\ Len(F) = Len(new) + Len(R)
      /\ \A k \in 1..Len(new) + Len(R) : F[k] = IF k <= Len(new) THEN new[k] ELSE R[k - Len(new)]
  BY <1>1, <1>3, <1>5, ConcatProperties
<1>7. ASSUME NEW k \in 1..Len(new) PROVE F[k] = new[k]
  <2>1. k \in 1..Len(new) + Len(R) /\ k <= Len(new)
    BY <1>1, <1>4
  <2> QED BY <1>6, <2>1
<1>8. ASSUME NEW k \in Len(new) + 1..Len(F) PROVE F[k] = P[k - Len(new) + Len(old)]
  <2>1. /\ k \in 1..Len(new) + Len(R) /\ ~(k <= Len(new)) /\ k - Len(new) \in 1..Len(R)
        /\ Len(old) + (k - Len(new)) = k - Len(new) + Len(old)
    BY <1>1, <1>4, <1>6
  <2>2. F[k] = R[k - Len(new)]
    BY <1>6, <2>1
  <2> QED BY <1>4, <2>1, <2>2
<1> QED BY <1>4, <1>6, <1>7, <1>8 DEF Plain, F

(* A rename as it is seen from the paths: entry n of p, which is src, has  *)
(* become entry m of q, which is not below it.                             *)
Shifted(ns, ms, p, n, q, m, src) ==
  /\ Sound(ns) /\ Sound(ms) /\ NoSymlinks(ns)
  /\ Edge(ns, p, n, src) /\ Arrived(ns, ms, p, n, q, m, src)
  /\ Void(ns, ms, q, m)
  /\ \E A : q \in A /\ src \notin A /\ UpClosed(ns, A)

(* What is replaced has nothing below.                                     *)
LEMMA VoidTarget ==
  ASSUME NEW ns, Singles(ns), NEW ms, NEW p, NEW n, NEW q, NEW m, NEW src,
         Arrived(ns, ms, p, n, q, m, src)
  PROVE  Void(ns, ms, q, m)
<1> SUFFICES ASSUME NEW c, Edge(ns, q, m, c), NEW x, NEW y
             PROVE  c \notin DOMAIN ms /\ ~Edge(ns, c, x, y)
  BY DEF Void
<1>1. c \notin DOMAIN ms
  BY DEF Arrived
<1>2. p \in DOMAIN ms /\ q \in DOMAIN ms
  BY DEF Arrived, IsDir
<1>3. ~Edge(ms, c, x, y)
  BY <1>1 DEF Edge
<1> QED BY <1>1, <1>2, <1>3 DEF Arrived

(* The way to a directory stays among those above it.                      *)
LEMMA WayAbove ==
  ASSUME NEW ns, Tree(ns), NEW P, NEW K \in Nat, NEW w, Way(ns, P, K, w),
         NEW A, w[K] \in A, UpClosed(ns, A)
  PROVE  \A k \in 0..K : w[k] \in A
<1> DEFINE T == {k \in 0..K : w[K - k] \notin A}
<1>1. ParentsTrue(ns)
  BY DEF Tree, Shape
<1>2. T = {}
  <2> SUFFICES ASSUME T # {} PROVE FALSE
    OBVIOUS
  <2>1. T \in SUBSET Nat
    OBVIOUS
  <2>2. PICK y \in T : \A z \in T : z >= y
    BY <2>1, LeastOf
  <2>3. y \in 0..K /\ w[K - y] \notin A
    OBVIOUS
  <2>4. y # 0
    <3>1. K - 0 = K
      OBVIOUS
    <3> QED BY <2>3, <3>1
  <2>5. y - 1 \in 0..K /\ ~(y - 1 >= y) /\ K - (y - 1) \in 1..K /\ (K - (y - 1)) - 1 = K - y
    BY <2>3, <2>4
  <2>6. y - 1 \notin T
    <3> HIDE DEF T
    <3> QED BY <2>2, <2>5
  <2>7. w[K - (y - 1)] \in A
    BY <2>5, <2>6
  <2>8. Edge(ns, w[K - y], P[K - (y - 1)], w[K - (y - 1)])
    BY <2>5 DEF Way
  <2> QED BY <1>1, <2>3, <2>7, <2>8 DEF ParentsTrue, UpClosed
<1> SUFFICES ASSUME NEW k \in 0..K PROVE w[k] \in A
  OBVIOUS
<1>3. K - k \in 0..K /\ K - (K - k) = k
  OBVIOUS
<1> QED BY <1>2, <1>3

(* So the way to the target directory is as before.                        *)
LEMMA TargetWay ==
  ASSUME NEW ns, NEW ms, NEW p, NEW n, NEW q, NEW m, NEW src, Shifted(ns, ms, p, n, q, m, src),
         NEW P, NEW K \in Nat, NEW w, Way(ns, P, K, w), w[K] = q
  PROVE  Way(ms, P, K, w)
<1>1. PICK A : q \in A /\ src \notin A /\ UpClosed(ns, A)
  BY DEF Shifted
<1>2. \A k \in 0..K : w[k] \in A
  BY <1>1, WayAbove DEF Shifted, Sound
<1>3. Void(ns, ms, q, m) /\ q \in DOMAIN ms /\ Edge(ns, p, n, src)
  BY DEF Shifted, Arrived, IsDir
<1>4. ASSUME NEW k \in 1..K PROVE Edge(ms, w[k - 1], P[k], w[k])
  <2>1. Edge(ns, w[k - 1], P[k], w[k])
    BY DEF Way
  <2>2. ~(w[k - 1] = q /\ P[k] = m)
    BY <1>3, VoidEnds
  <2>3. ~(w[k - 1] = p /\ P[k] = n)
    <3> SUFFICES ASSUME w[k - 1] = p, P[k] = n PROVE FALSE
      OBVIOUS
    <3>1. w[k] = src
      BY <1>3, <2>1 DEF Edge
    <3> QED BY <1>1, <1>2, <3>1
  <2> QED BY <2>1, <2>2, <2>3 DEF Shifted, Arrived
<1> QED BY <1>4 DEF Way

(* The path of what is renamed passes its directory last.                  *)
LEMMA SourceWay ==
  ASSUME NEW ns, Sound(ns), NoSymlinks(ns), NEW from, Plain(from), from # << >>,
         NEW w, Way(ns, from, Len(from) - 1, w)
  PROVE  w[Len(from) - 1] = Resolve(ns, Front(from), FALSE)
<1>1. Plain(Front(from)) /\ Len(Front(from)) = Len(from) - 1 /\ Way(ns, Front(from), Len(from) - 1, w)
  BY FrontWay
<1> QED BY <1>1, WayResolves DEF Sound

(* What leads through the source is found behind the target.               *)
LEMMA ShiftedAlong ==
  ASSUME NEW ns, NEW ms, NEW p, NEW n, NEW q, NEW m, NEW src, Shifted(ns, ms, p, n, q, m, src),
         NEW from, Plain(from), NEW to, Plain(to), to # << >>, to[Len(to)] = m,
         NEW v, Way(ns, to, Len(to) - 1, v), v[Len(to) - 1] = q,
         NEW P, Plain(P), IsPrefix(from, P),
         NEW w, Way(ns, P, Len(P), w), w[Len(P)] \in DOMAIN ms, w[Len(from)] = src
  PROVE  Leads(ms, Followed(P, from, to), w[Len(P)])
<1> DEFINE L == Len(from)
           M == Len(to)
           K == Len(P)
           F == Followed(P, from, to)
           x == [k \in 0..Len(F) |-> IF k < M THEN v[k] ELSE w[k - M + L]]
<1>1. /\ L \in Nat /\ M \in Nat /\ K \in Nat /\ L <= K /\ M - 1 \in Nat
  BY PlainIs, PrefixIs, FrontWay
<1>2. /\ Len(F) = M + (K - L)
      /\ \A k \in 1..M : F[k] = to[k]
      /\ \A k \in M + 1..Len(F) : F[k] = P[k - M + L]
  BY FollowedIs
<1> HIDE DEF L, M, K, F
<1>3. /\ Tree(ns) /\ Edge(ns, p, n, src) /\ Edge(ms, q, m, src) /\ Void(ns, ms, q, m)
      /\ \A d, y, c : Edge(ns, d, y, c) /\ ~(d = p /\ y = n) /\ ~(d = q /\ y = m) => Edge(ms, d, y, c)
  BY DEF Shifted, Sound, Arrived
<1>4. Way(ms, to, M - 1, v) /\ v[M - 1] = q /\ to[M] = m
  BY <1>1, TargetWay DEF M
<1>5. Way(ns, P, K, w) /\ w[K] \in DOMAIN ms /\ w[L] = src
  BY DEF K, L
<1>6. \A k \in 0..Len(F) : x[k] = IF k < M THEN v[k] ELSE w[k - M + L]
  OBVIOUS
<1> HIDE DEF x
<1>7. x[0] = Root
  <2>1. 0 \in 0..Len(F) /\ 0 < M
    BY <1>1, <1>2
  <2> QED BY <1>4, <1>6, <2>1 DEF Way
<1>8. x[Len(F)] = w[K]
  <2>1. Len(F) \in 0..Len(F) /\ ~(Len(F) < M) /\ Len(F) - M + L = K
    BY <1>1, <1>2
  <2> QED BY <1>6, <2>1
<1>9. ASSUME NEW k \in 1..Len(F) PROVE Edge(ms, x[k - 1], F[k], x[k])
  <2>1. k \in 0..Len(F) /\ k - 1 \in 0..Len(F) /\ k \in Nat
    BY <1>1, <1>2
  <2>2. CASE k < M
    <3>1. k \in 1..M - 1 /\ k - 1 < M /\ k \in 1..M
      <4>1. k \in Nat /\ k # 0
        BY <2>1
      <4> QED BY <1>1, <2>2, <4>1
    <3>2. x[k] = v[k] /\ x[k - 1] = v[k - 1] /\ F[k] = to[k]
      BY <1>2, <1>6, <2>1, <2>2, <3>1
    <3> QED BY <1>4, <3>1, <3>2 DEF Way
  <2>3. CASE k = M
    <3>1. k - 1 < M /\ ~(k < M) /\ k - M + L = L /\ k \in 1..M
      <4>1. k \in Nat /\ k # 0
        BY <2>1
      <4> QED BY <1>1, <2>3, <4>1
    <3>2. x[k] = src /\ x[k - 1] = q /\ F[k] = m
      BY <1>2, <1>4, <1>5, <1>6, <2>1, <2>3, <3>1
    <3> QED BY <1>3, <3>2
  <2>4. CASE k > M
    <3> DEFINE j == k - M + L
    <3>1. /\ j \in 1..K /\ j > L /\ j <= K /\ j \in Nat /\ ~(k < M) /\ ~(k - 1 < M) /\ (k - 1) - M + L = j - 1
          /\ k \in M + 1..Len(F)
      <4>1. k \in Nat /\ k > M /\ Len(F) = M + (K - L) /\ k \in 1..Len(F)
        BY <1>2, <2>1, <2>4
      <4> HIDE DEF F, M, K, L
      <4>2. k <= M + (K - L)
        BY <1>1, <4>1
      <4>3. k \in M + 1..Len(F) /\ ~(k < M)
        BY <1>1, <4>1
      <4>4. j \in Nat /\ j > L /\ j <= K
        BY <1>1, <4>1, <4>2
      <4>5. ~(k - 1 < M) /\ (k - 1) - M + L = j - 1
        BY <1>1, <4>1
      <4> HIDE DEF j
      <4>6. j \in 1..K
        BY <1>1, <4>4
      <4> QED BY <4>3, <4>4, <4>5, <4>6
    <3>2. x[k] = w[j] /\ x[k - 1] = w[j - 1] /\ F[k] = P[j]
      BY <1>2, <1>6, <2>1, <3>1
    <3> HIDE DEF j
    <3>3. Edge(ns, w[j - 1], P[j], w[j])
      BY <1>5, <3>1 DEF Way
    <3>4. ~(w[j - 1] = q /\ P[j] = m)
      BY <1>1, <1>3, <1>5, <3>1, VoidEnds
    <3>5. ~(w[j - 1] = p /\ P[j] = n)
      <4> SUFFICES ASSUME w[j - 1] = p, P[j] = n PROVE FALSE
        OBVIOUS
      <4>1. w[j] = src
        BY <1>3, <3>3 DEF Edge
      <4>2. IsDir(ns, w[L])
        <5>1. L \in 0..K /\ L # K
          <6>1. L < j /\ j <= K /\ j \in Nat
            BY <3>1
          <6> QED BY <1>1, <6>1
        <5> QED BY <1>1, <1>3, <1>5, <5>1, WayIs
      <4>3. Way(ns, P, L, w) /\ Way(ns, P, j, w)
        <5>1. j \in Nat /\ j <= K
          BY <3>1
        <5>2. (\A i \in 1..L : i \in 1..K) /\ (\A i \in 1..j : i \in 1..K)
          BY <1>1, <5>1
        <5> QED BY <1>5, <5>2 DEF Way
      <4>4. L = j
        <5>1. j \in Nat
          BY <3>1
        <5> QED BY <1>1, <1>3, <1>5, <4>1, <4>2, <4>3, <5>1, OnePath
      <4> QED BY <1>1, <3>1, <4>4
    <3> QED BY <1>3, <3>2, <3>3, <3>4, <3>5
  <2> QED BY <1>1, <2>1, <2>2, <2>3, <2>4
<1>10. Way(ms, F, Len(F), x)
  BY <1>7, <1>9 DEF Way
<1> QED BY <1>8, <1>10 DEF Leads, F, K

(* What does not lead through the source is where it was.                  *)
LEMMA ShiftedApart ==
  ASSUME NEW ns, NEW ms, NEW p, NEW n, NEW q, NEW m, NEW src, Shifted(ns, ms, p, n, q, m, src),
         NEW from, Plain(from), from # << >>, from[Len(from)] = n,
         NEW u, Way(ns, from, Len(from) - 1, u), u[Len(from) - 1] = p,
         NEW P, Plain(P), ~IsPrefix(from, P),
         NEW w, Way(ns, P, Len(P), w), w[Len(P)] \in DOMAIN ms
  PROVE  Leads(ms, P, w[Len(P)])
<1> DEFINE L == Len(from)
           K == Len(P)
<1>1. K \in Nat /\ L \in Nat /\ L - 1 \in Nat
  BY PlainIs, FrontWay
<1>2. from[L] = n /\ Way(ns, from, L - 1, u) /\ u[L - 1] = p /\ Way(ns, P, K, w) /\ w[K] \in DOMAIN ms
  OBVIOUS
<1>3. ~(L <= K /\ \A k \in 1..L : from[k] = P[k])
  BY PrefixIs
<1> HIDE DEF L, K
<1>4. /\ Tree(ns) /\ Void(ns, ms, q, m) /\ IsDir(ns, p)
      /\ \A d, y, c : Edge(ns, d, y, c) /\ ~(d = p /\ y = n) /\ ~(d = q /\ y = m) => Edge(ms, d, y, c)
  BY DEF Shifted, Sound, Arrived, Tree, Shape, EdgesDown
<1>5. ASSUME NEW j \in 1..K PROVE ~(w[j - 1] = p /\ P[j] = n)
  <2> SUFFICES ASSUME w[j - 1] = p, P[j] = n PROVE FALSE
    OBVIOUS
  <2>1. j - 1 \in Nat /\ Way(ns, P, j - 1, w)
    <3>1. 1..j - 1 \subseteq 1..K
      BY <1>1
    <3> QED BY <1>1, <1>2, <3>1 DEF Way
  <2>2. L - 1 = j - 1 /\ \A k \in 1..L - 1 : from[k] = P[k]
    BY <1>1, <1>2, <1>4, <2>1, OnePath
  <2>3. L = j /\ L <= K
    BY <1>1, <2>2
  <2>4. \A k \in 1..L : k = L \/ k \in 1..L - 1
    BY <1>1
  <2> QED BY <1>2, <1>3, <2>2, <2>3, <2>4
<1>6. ASSUME NEW j \in 1..K PROVE ~(w[j - 1] = q /\ P[j] = m)
  <2>1. K \in Nat /\ Way(ns, P, K, w) /\ w[K] \in DOMAIN ms /\ Void(ns, ms, q, m)
    BY <1>1, <1>2, <1>4
  <2> QED BY <2>1, VoidEnds
<1>7. Way(ms, P, K, w)
  BY <1>2, <1>4, <1>5, <1>6 DEF Way
<1> QED BY <1>7 DEF Leads, K

(* Every handle whose file is there is given that file's new path.         *)
LEMMA FollowedLeads ==
  ASSUME NEW ns, NEW ms, NEW p, NEW n, NEW q, NEW m, NEW src, Shifted(ns, ms, p, n, q, m, src),
         NEW from, Plain(from), from # << >>, Last(from) = n, Resolve(ns, Front(from), FALSE) = p,
         NEW to, Plain(to), to # << >>, Last(to) = m, Resolve(ns, Front(to), FALSE) = q,
         NEW P, Plain(P), NEW i \in DOMAIN ms, Leads(ns, P, i)
  PROVE  Plain(Followed(P, from, to)) /\ Leads(ms, Followed(P, from, to), i)
<1>1. /\ Sound(ns) /\ NoSymlinks(ns) /\ Edge(ns, p, n, src) /\ p # 0 /\ q # 0
  BY DEF Shifted, Sound, Arrived, IsDir, Edge
<1>2. PICK u : Way(ns, from, Len(from) - 1, u) /\ u[Len(from) - 1] = p
  <2>1. Plain(Front(from)) /\ Len(Front(from)) = Len(from) - 1
    BY FrontWay
  <2>2. Leads(ns, Front(from), p)
    BY <1>1, <2>1, ResolvesWay DEF Sound
  <2> QED BY <2>1, <2>2, FrontWay DEF Leads
<1>3. PICK v : Way(ns, to, Len(to) - 1, v) /\ v[Len(to) - 1] = q
  <2>1. Plain(Front(to)) /\ Len(Front(to)) = Len(to) - 1
    BY FrontWay
  <2>2. Leads(ns, Front(to), q)
    BY <1>1, <2>1, ResolvesWay DEF Sound
  <2> QED BY <2>1, <2>2, FrontWay DEF Leads
<1>4. PICK w : Way(ns, P, Len(P), w) /\ w[Len(P)] = i
  BY DEF Leads
<1>5. from[Len(from)] = n /\ to[Len(to)] = m
  BY DEF Last
<1>6. CASE IsPrefix(from, P)
  <2>1. /\ Len(from) \in Nat /\ Len(from) - 1 \in Nat /\ Len(P) \in Nat /\ Len(from) <= Len(P)
        /\ \A k \in 1..Len(from) : from[k] = P[k]
    BY <1>6, PlainIs, FrontWay, PrefixIs
  <2>2. Way(ns, from, Len(from) - 1, w)
    <3>1. \A k \in 1..Len(from) - 1 : k \in 1..Len(P) /\ k \in 1..Len(from)
      BY <2>1
    <3> QED BY <1>4, <2>1, <3>1 DEF Way
  <2>3. w[Len(from) - 1] = p
    BY <1>1, <2>2, SourceWay
  <2>4. Edge(ns, p, n, w[Len(from)])
    <3>1. Len(from) \in 1..Len(P) /\ Len(from) \in 1..Len(from)
      BY <2>1
    <3> QED BY <1>4, <1>5, <2>1, <2>3, <3>1 DEF Way
  <2>5. w[Len(from)] = src
    BY <1>1, <2>4 DEF Edge
  <2>6. Leads(ms, Followed(P, from, to), w[Len(P)])
    BY <1>3, <1>4, <1>5, <1>6, <2>5, ShiftedAlong
  <2> QED BY <1>4, <1>6, <2>6, FollowedIs
<1>7. CASE ~IsPrefix(from, P)
  <2>1. Leads(ms, P, w[Len(P)])
    BY <1>2, <1>4, <1>5, <1>7, ShiftedApart
  <2> QED BY <1>4, <1>7, <2>1 DEF Followed
<1> QED BY <1>6, <1>7

-----------------------------------------------------------------------------
(* The requests of the WinFSP driver. *)

(* Whatever moves, there is a set of directories above the target without  *)
(* it.                                                                     *)
LEMMA AnyAbove ==
  ASSUME NEW ns, NEW nx, NEW u, Good(ns, nx, u), nx <= MaxIno + 1, NEW q, IsDir(ns, q),
         NEW src, IsDir(ns, src) => ~IsAncestorOrSelf(ns, src, q)
  PROVE  \E A : q \in A /\ src \notin A /\ UpClosed(ns, A)
<1>1. CASE IsDir(ns, src)
  BY <1>1, AboveTarget
<1>2. CASE ~IsDir(ns, src)
  <2> DEFINE A == {c \in DOMAIN ns : IsDir(ns, c)}
  <2>1. Shape(ns)
    BY GoodIs
  <2>2. \A c \in A : IsDir(ns, c) /\ ns[c].parent \in A
    BY <2>1, ParentIsDir DEF IsDir
  <2>3. q \in A /\ src \notin A
    BY <1>2 DEF IsDir
  <2> HIDE DEF A
  <2> QED BY <2>2, <2>3 DEF UpClosed
<1> QED BY <1>1, <1>2

(* What the invariants say of handles and the table.                       *)
LEMMA MountIs ==
  ASSUME MountInv
  PROVE  /\ Sound(nodes) /\ next \in Nat /\ next \notin DOMAIN nodes /\ Table(nodes)
         /\ \A h \in DOMAIN handles :
              /\ DOMAIN handles[h] = {"ino", "path", "del"}
              /\ handles[h].ino # next
<1>1. FsInv /\ \A h \in DOMAIN handles : HandleOf(handles[h], next)
  BY DEF MountInv
<1>2. Tree(nodes) /\ Table(nodes) /\ next \in Nat /\ next \notin DOMAIN nodes /\ 0 \notin DOMAIN nodes
  BY <1>1, GoodIs DEF FsInv
<1>3. \A i \in 1..next - 1 : i # next
  BY <1>2
<1> QED BY <1>1, <1>2, <1>3 DEF Sound, HandleOf

(* A request that keeps every entry keeps the handles'.                    *)
LEMMA OwnKept ==
  ASSUME NEW ns, NEW ms, NEW x, OwnFile(ns, x), x.ino \in DOMAIN ms => x.ino \in DOMAIN ns,
         \A d, n, c : Edge(ns, d, n, c) => Edge(ms, d, n, c)
  PROVE  OwnFile(ms, x)
  BY LeadsOn DEF OwnFile

(* A file of another length.                                               *)
LEMMA ResizeOwned ==
  ASSUME MountInv, Owned(nodes, handles), NEW i, i \in DOMAIN nodes, nodes[i].kind = "file",
         NEW l \in Nat, Resize(i, l), handles' = handles
  PROVE  Owned(nodes', handles')
<1> DEFINE ms == [nodes EXCEPT ![i].len = l]
<1>1. SameKinds(nodes, ms) /\ SameEdges(nodes, ms)
  BY MountIs, SetLen DEF IsLeaf
<1>2. nodes' = ms
  BY DEF Resize
<1> HIDE DEF ms
<1>3. NoSymlinks(ms)
  BY <1>1 DEF Owned, NoSymlinks, SameKinds
<1>4. ASSUME NEW h \in DOMAIN handles PROVE OwnFile(ms, handles[h])
  BY <1>1, OwnKept DEF Owned, SameKinds, SameEdges
<1> QED BY <1>2, <1>3, <1>4 DEF Owned

(* cb_create.                                                              *)
LEMMA CreateOwned ==
  ASSUME MountInv, Owned(nodes, handles), NEW h, NEW path, Plain(path), path # << >>,
         h \notin DOMAIN handles, NEW node, node \in {NewDir(Parent(path)), NewFile(0)},
         Allocate(node, Parent(path), Last(path)), handles' = Opened(h, next, path)
  PROVE  Owned(nodes', handles')
<1> DEFINE p == Parent(path)
           n == Last(path)
           ms == Grown(nodes, next, node, p, n)
<1>1. /\ Sound(nodes) /\ next \in Nat /\ next \notin DOMAIN nodes
      /\ \A g \in DOMAIN handles : handles[g].ino # next
  BY MountIs
<1>2. Vacant(nodes, p, n) /\ nodes' = ms
  BY DEF Allocate
<1>3. p = Resolve(nodes, Front(path), FALSE)
  BY DEF Parent
<1>4. /\ Plain(Front(path)) /\ Len(Front(path)) = Len(path) - 1 /\ Len(path) - 1 \in Nat
      /\ Len(path) \in Nat /\ n = path[Len(path)] /\ n \in Names
  <2>1. Len(path) \in 1..Len(path)
    BY PlainIs, FrontWay
  <2> QED BY <2>1, PlainIs, FrontWay
<1>5. p \in Nat /\ p # 0
  <2>1. p \in DOMAIN nodes
    BY <1>2 DEF Vacant, IsDir
  <2> QED BY <1>1, <2>1, GoodIs DEF Sound, MountInv, FsInv
<1> HIDE DEF p, n, ms
<1>6. NewIn(node, p) /\ node.kind # "symlink"
  BY <1>5, NewNodes DEF p
<1>7. Added(nodes, ms, p, n, next, node)
  BY <1>1, <1>2, <1>4, <1>6, GrownKept DEF Sound, ms
<1>8. /\ \A d, x, c : Edge(nodes, d, x, c) => Edge(ms, d, x, c)
      /\ Edge(ms, p, n, next) /\ DOMAIN ms = DOMAIN nodes \cup {next}
      /\ ms[next].kind = node.kind /\ \A j \in DOMAIN nodes : ms[j].kind = nodes[j].kind
  BY <1>7 DEF Added, Kept, EdgeAdded
<1>9. NoSymlinks(ms)
  BY <1>6, <1>8 DEF Owned, NoSymlinks
<1>10. Leads(ms, path, next)
  <2>1. Leads(nodes, Front(path), p)
    BY <1>1, <1>3, <1>4, <1>5, ResolvesWay DEF Sound, Owned
  <2>2. Leads(ms, Front(path), p)
    BY <1>8, <2>1, LeadsOn
  <2> QED BY <1>8, <2>2, LeadsFurther DEF n
<1>11. ASSUME NEW g \in DOMAIN handles PROVE OwnFile(ms, handles[g])
  BY <1>1, <1>8, OwnKept DEF Owned
<1>12. /\ DOMAIN handles' = DOMAIN handles \cup {h}
       /\ handles'[h].ino = next /\ handles'[h].path = path
       /\ \A g \in DOMAIN handles : handles'[g] = handles[g]
  BY DEF Opened
<1>13. OwnFile(ms, handles'[h])
  BY <1>10, <1>12 DEF OwnFile
<1> QED BY <1>2, <1>9, <1>11, <1>12, <1>13 DEF Owned

(* What is lost with a name that leads to inode i.                         *)
Lost(ns, ms, q, m, i) ==
  /\ Edge(ns, q, m, i) /\ Void(ns, ms, q, m)
  /\ DOMAIN ms \subseteq DOMAIN ns /\ DOMAIN ns \ DOMAIN ms \subseteq {i}
  /\ \A j \in DOMAIN ms : ms[j].kind = ns[j].kind
  /\ \A d, n, c : Edge(ns, d, n, c) /\ ~(d = q /\ n = m) => Edge(ms, d, n, c)

(* rmdir loses no more.                                                    *)
LEMMA RmdirLost ==
  ASSUME FsInv, NEW p, NEW n, Rmdir(p, n)
  PROVE  Lost(nodes, nodes', p, n, ChildIno(nodes, p, n))
<1> DEFINE i  == ChildIno(nodes, p, n)
           ms == AfterRmdir(nodes, p, n)
<1>1. CanRmdir(nodes, p, n) /\ nodes' = ms /\ Good(nodes, next, used) /\ Tree(nodes)
  BY GoodIs DEF Rmdir, FsInv
<1>2. LostDir(nodes, ms, p, n)
  BY <1>1, GoodRmdir
<1> HIDE DEF ms
<1>3. Edge(nodes, p, n, i) /\ (\A c : Edge(nodes, p, n, c) => c = i) /\ \A x, c : ~Edge(nodes, i, x, c)
  BY <1>1, OccupiedIs, EmptyDir DEF CanRmdir
<1>4. /\ DOMAIN ms = DOMAIN nodes \ {i}
      /\ \A j \in DOMAIN ms : ms[j].kind = nodes[j].kind
      /\ \A d, m, c : Edge(nodes, d, m, c) /\ ~(d = p /\ m = n) => Edge(ms, d, m, c)
  BY <1>2 DEF LostDir
<1> HIDE DEF i
<1>5. Void(nodes, ms, p, n)
  BY <1>3, <1>4 DEF Void
<1> QED BY <1>1, <1>3, <1>4, <1>5 DEF Lost, i

(* Nor does unlink where a file has one name.                              *)
LEMMA UnlinkLost ==
  ASSUME FsInv, Singles(nodes), NEW p, NEW n, Unlink(p, n)
  PROVE  Lost(nodes, nodes', p, n, ChildIno(nodes, p, n))
<1> DEFINE i  == ChildIno(nodes, p, n)
           ms == AfterUnlink(nodes, p, n)
<1>1. CanUnlink(nodes, p, n) /\ nodes' = ms /\ Good(nodes, next, used) /\ Tree(nodes)
  BY GoodIs DEF Unlink, FsInv
<1>2. LostName(nodes, ms, p, n)
  BY <1>1, GoodUnlink
<1> HIDE DEF ms
<1>3. Edge(nodes, p, n, i) /\ (\A c : Edge(nodes, p, n, c) => c = i) /\ IsLeaf(nodes, i)
  BY <1>1, OccupiedIs DEF CanUnlink
<1>4. /\ i \notin DOMAIN ms /\ DOMAIN ms \subseteq DOMAIN nodes /\ DOMAIN nodes \ DOMAIN ms \subseteq {i}
      /\ \A j \in DOMAIN ms : ms[j].kind = nodes[j].kind
      /\ \A d, m, c : Edge(nodes, d, m, c) /\ ~(d = p /\ m = n) => Edge(ms, d, m, c)
  BY <1>2, <1>3 DEF LostName, Singles
<1> HIDE DEF i
<1>5. \A x, c : ~Edge(nodes, i, x, c)
  BY <1>1, <1>3 DEF Tree, Shape, EdgesDown, IsDir, IsLeaf
<1>6. Void(nodes, ms, p, n)
  BY <1>3, <1>4, <1>5 DEF Void
<1> QED BY <1>1, <1>3, <1>4, <1>6 DEF Lost, i

(* What a clean-up deletes is the file of the handle.                      *)
LEMMA CleanupIs ==
  ASSUME MountInv, platform = "winfsp", Owned(nodes, handles), NEW h \in DOMAIN handles, WinCleanup(h)
  PROVE  \/ nodes' = nodes
         \/ \E q, m : Lost(nodes, nodes', q, m, handles[h].ino)
<1> DEFINE P == handles[h].path
           i == handles[h].ino
           p == Parent(P)
           n == Last(P)
<1>1. FsInv /\ Singles(nodes) /\ Sound(nodes) /\ OwnFile(nodes, handles[h]) /\ NoSymlinks(nodes)
  BY MountIs DEF MountInv, Owned
<1>2. \/ UNCHANGED vars
      \/ P # << >> /\ i \in DOMAIN nodes /\ (Rmdir(p, n) \/ Unlink(p, n))
  BY DEF WinCleanup, CleanupDelete
<1>3. CASE UNCHANGED vars
  BY <1>3 DEF vars
<1>4. CASE P # << >> /\ i \in DOMAIN nodes /\ (Rmdir(p, n) \/ Unlink(p, n))
  <2>1. Plain(P) /\ Leads(nodes, P, i) /\ p = Resolve(nodes, Front(P), FALSE)
    BY <1>1, <1>4 DEF OwnFile, Parent
  <2> HIDE DEF P, i, p, n
  <2>2. PICK w : Way(nodes, P, Len(P), w) /\ w[Len(P)] = i
    BY <2>1 DEF Leads
  <2>3. Len(P) \in Nat /\ Len(P) - 1 \in Nat /\ n = P[Len(P)]
    BY <1>4, <2>1, PlainIs, FrontWay DEF n
  <2>4. Way(nodes, P, Len(P) - 1, w)
    <3>1. \A k \in 1..Len(P) - 1 : k \in 1..Len(P)
      BY <2>3
    <3> QED BY <2>2, <3>1 DEF Way
  <2>5. w[Len(P) - 1] = p
    BY <1>1, <1>4, <2>1, <2>4, SourceWay
  <2>6. Edge(nodes, p, n, i)
    <3>1. Len(P) \in 1..Len(P)
      BY <2>3
    <3> QED BY <2>2, <2>3, <2>5, <3>1 DEF Way
  <2>7. ChildIno(nodes, p, n) = i
    BY <2>6 DEF Edge, ChildIno
  <2>8. Lost(nodes, nodes', p, n, i)
    BY <1>1, <1>4, <2>7, RmdirLost, UnlinkLost
  <2> QED BY <2>8 DEF i
<1> QED BY <1>2, <1>3, <1>4

(* cb_cleanup.                                                             *)
LEMMA CleanupOwned ==
  ASSUME MountInv, platform = "winfsp", Owned(nodes, handles), NEW h \in DOMAIN handles, WinCleanup(h)
  PROVE  Owned(nodes', handles')
<1>1. DOMAIN handles' \subseteq DOMAIN handles /\ \A g \in DOMAIN handles' : handles'[g] = handles[g]
  BY DEF WinCleanup, Closed
<1>2. CASE nodes' = nodes
  BY <1>1, <1>2 DEF Owned
<1>3. CASE \E q, m : Lost(nodes, nodes', q, m, handles[h].ino)
  <2>1. PICK q, m : Lost(nodes, nodes', q, m, handles[h].ino)
    BY <1>3
  <2>2. /\ Void(nodes, nodes', q, m) /\ DOMAIN nodes' \subseteq DOMAIN nodes
        /\ \A j \in DOMAIN nodes' : nodes'[j].kind = nodes[j].kind
        /\ \A d, n, c : Edge(nodes, d, n, c) /\ ~(d = q /\ n = m) => Edge(nodes', d, n, c)
    BY <2>1 DEF Lost
  <2>3. NoSymlinks(nodes')
    BY <2>2 DEF Owned, NoSymlinks
  <2>4. ASSUME NEW g \in DOMAIN handles PROVE OwnFile(nodes', handles[g])
    <3>1. OwnFile(nodes, handles[g])
      BY DEF Owned
    <3> QED BY <2>2, <3>1, LeadsStill DEF OwnFile
  <2> QED BY <1>1, <2>3, <2>4 DEF Owned
<1> QED BY <1>2, <1>3, CleanupIs

(* cb_rename.                                                              *)
LEMMA RenameOwned ==
  ASSUME MountInv, platform = "winfsp", Owned(nodes, handles), NEW h \in DOMAIN handles,
         NEW to, Plain(to), WinRename(h, to)
  PROVE  Owned(nodes', handles')
<1> DEFINE from == handles[h].path
           p == Parent(from)
           n == Last(from)
           q == Parent(to)
           m == Last(to)
           src == ChildIno(nodes, p, n)
<1>1. /\ Rename(p, n, q, m) /\ from # << >> /\ to # << >>
      /\ p = Resolve(nodes, Front(from), FALSE) /\ q = Resolve(nodes, Front(to), FALSE)
      /\ handles' = [g \in DOMAIN handles |->
                       IF handles[g].ino \in DOMAIN nodes
                         THEN [handles[g] EXCEPT !.path = Followed(handles[g].path, from, to)]
                         ELSE handles[g]]
  BY DEF WinRename, Parent
<1>2. Plain(from) /\ \A g \in DOMAIN handles : OwnFile(nodes, handles[g])
  BY DEF Owned, OwnFile
<1>3. m \in Names
  <2>1. Len(to) \in 1..Len(to) /\ m = to[Len(to)]
    BY <1>1, PlainIs, FrontWay
  <2> QED BY <2>1, PlainIs
<1>4. FsInv /\ Singles(nodes) /\ Sound(nodes) /\ NoSymlinks(nodes)
  BY MountIs DEF MountInv, Owned
<1> HIDE DEF from, p, n, q, m, src
<1>5. Arrived(nodes, nodes', p, n, q, m, src) /\ FsInv'
  BY <1>1, <1>3, <1>4, RenameKeeps DEF Keeps, src
<1>6. Sound(nodes')
  BY <1>5, GoodIs DEF FsInv, Sound
<1>7. Edge(nodes, p, n, src) /\ IsDir(nodes, q) /\ (IsDir(nodes, src) => ~IsAncestorOrSelf(nodes, src, q))
  BY <1>1, <1>4, OccupiedIs DEF Rename, Sound, src
<1>8. \E A : q \in A /\ src \notin A /\ UpClosed(nodes, A)
  BY <1>4, <1>7, AnyAbove DEF FsInv
<1>9. Shifted(nodes, nodes', p, n, q, m, src)
  BY <1>4, <1>5, <1>6, <1>7, <1>8, VoidTarget DEF Shifted
<1>10. NoSymlinks(nodes') /\ \A i \in DOMAIN nodes' : i \in DOMAIN nodes
  BY <1>4, <1>5 DEF Arrived, NoSymlinks
<1>11. ASSUME NEW g \in DOMAIN handles PROVE OwnFile(nodes', handles'[g])
  <2>1. OwnFile(nodes, handles[g]) /\ DOMAIN handles[g] = {"ino", "path", "del"}
    BY <1>2, MountIs
  <2>2. CASE handles[g].ino \in DOMAIN nodes
    <3> DEFINE P == handles[g].path
               F == Followed(P, from, to)
    <3>1. handles'[g] = [handles[g] EXCEPT !.path = F]
      BY <1>1, <2>2
    <3>2. handles'[g].ino = handles[g].ino /\ handles'[g].path = F
      BY <2>1, <3>1
    <3>3. Plain(P) /\ Leads(nodes, P, handles[g].ino)
      BY <2>1, <2>2 DEF OwnFile
    <3>4. Plain(F)
      BY <1>2, <3>3, FollowedIs DEF Followed
    <3>5. ASSUME handles[g].ino \in DOMAIN nodes' PROVE Leads(nodes', F, handles[g].ino)
      BY <1>1, <1>2, <1>9, <3>3, <3>5, FollowedLeads DEF n, m
    <3> HIDE DEF F
    <3> QED BY <3>2, <3>4, <3>5 DEF OwnFile
  <2>3. CASE handles[g].ino \notin DOMAIN nodes
    <3>1. handles'[g] = handles[g]
      BY <1>1, <2>3
    <3> QED BY <1>10, <2>1, <2>3, <3>1 DEF OwnFile
  <2> QED BY <2>2, <2>3
<1>12. DOMAIN handles' = DOMAIN handles
  BY <1>1
<1> QED BY <1>10, <1>11, <1>12 DEF Owned

(* Each WinFSP callback leaves every handle its file's path.               *)
LEMMA WinOwned ==
  ASSUME MountInv, platform = "winfsp", Owned(nodes, handles), Paths \subseteq Seq(Names), WinFsp
  PROVE  Owned(nodes', handles')
<1>1. /\ Limit \in Nat /\ Sound(nodes) /\ \A i \in DOMAIN nodes : nodes[i].len \in Nat
      /\ \A path \in Paths : Plain(path)
  BY MountIs, GoodIs DEF MountInv, FsInv, Plain
<1>2. ASSUME NEW h, NEW path \in Paths, WinOpen(h, path) PROVE Owned(nodes', handles')
  <2> DEFINE i == Resolve(nodes, path, FALSE)
  <2>1. i \in DOMAIN nodes /\ handles' = Opened(h, i, path) /\ nodes' = nodes /\ h \notin DOMAIN handles
    BY <1>2 DEF WinOpen, vars
  <2>2. Plain(path) /\ i # 0
    BY <1>1, <2>1 DEF Sound
  <2>3. Leads(nodes, path, i)
    BY <1>1, <2>2, ResolvesWay DEF Sound, Owned
  <2> HIDE DEF i
  <2>4. /\ DOMAIN handles' = DOMAIN handles \cup {h}
        /\ handles'[h].ino = i /\ handles'[h].path = path
        /\ \A g \in DOMAIN handles : handles'[g] = handles[g]
    BY <2>1 DEF Opened
  <2> QED BY <2>1, <2>2, <2>3, <2>4 DEF Owned, OwnFile
<1>3. ASSUME NEW h, NEW path \in Paths, NEW wantDir \in BOOLEAN, WinCreate(h, path, wantDir)
      PROVE  Owned(nodes', handles')
  <2>1. /\ h \notin DOMAIN handles /\ path # << >> /\ handles' = Opened(h, next, path)
        /\ \/ Allocate(NewDir(Parent(path)), Parent(path), Last(path))
           \/ Allocate(NewFile(0), Parent(path), Last(path))
    BY <1>3 DEF WinCreate, Mkdir, Create
  <2>2. Plain(path)
    BY <1>1
  <2> QED BY <2>1, <2>2, CreateOwned
<1>4. ASSUME NEW i \in DOMAIN nodes, NEW size \in Nat, Setattr(i, size), handles' = handles
      PROVE  Owned(nodes', handles')
  BY <1>4, ResizeOwned DEF Setattr, Truncate
<1>5. ASSUME NEW h, NEW size \in 0..Limit, WinSetSize(h, size) PROVE Owned(nodes', handles')
  <2>1. size \in Nat
    BY <1>1
  <2> QED BY <1>4, <1>5, <2>1 DEF WinSetSize
<1>6. ASSUME NEW h, WinOverwrite(h) PROVE Owned(nodes', handles')
  BY <1>4, <1>6 DEF WinOverwrite
<1>7. ASSUME NEW h, NEW offset \in 0..Limit, WinWrite(h, offset, 1) PROVE Owned(nodes', handles')
  <2> DEFINE i   == handles[h].ino
             end == IF offset + 1 > nodes[i].len THEN offset + 1 ELSE nodes[i].len
  <2>1. i \in DOMAIN nodes /\ nodes[i].kind = "file" /\ Resize(i, end) /\ handles' = handles
    BY <1>7 DEF WinWrite, Write
  <2>2. end \in Nat
    BY <1>1, <2>1
  <2> HIDE DEF i, end
  <2> QED BY <2>1, <2>2, ResizeOwned
<1>8. ASSUME NEW h \in DOMAIN handles, WinCanDelete(h) PROVE Owned(nodes', handles')
  <2>1. nodes' = nodes /\ handles' = [handles EXCEPT ![h].del = TRUE]
    BY <1>8 DEF WinCanDelete, vars
  <2>2. ASSUME NEW g \in DOMAIN handles
        PROVE  handles'[g].ino = handles[g].ino /\ handles'[g].path = handles[g].path
    BY <2>1, MountIs
  <2> QED BY <2>1, <2>2 DEF Owned, OwnFile
<1>9. ASSUME NEW h \in DOMAIN handles, WinCleanup(h) PROVE Owned(nodes', handles')
  BY <1>9, CleanupOwned
<1>10. ASSUME NEW h \in DOMAIN handles, NEW to \in Paths, WinRename(h, to) PROVE Owned(nodes', handles')
  BY <1>1, <1>10, RenameOwned
<1> QED BY <1>2, <1>3, <1>5, <1>6, <1>7, <1>8, <1>9, <1>10 DEF WinFsp

(* What a deletion through a handle removes is the file the handle was     *)
(* opened on, whatever was renamed, replaced or created at its name since, *)
(* when the kernel sends paths without "..".                               *)
THEOREM MountCleanupRemovesOwn ==
  ASSUME Paths \subseteq Seq(Names)
  PROVE  DriversSpec => CleanupRemovesOwn
<1> DEFINE Inv == MountInv /\ platform \in {"winfsp", "fuse"}
           Own == platform = "winfsp" => Owned(nodes, handles)
           Act == \A h \in DOMAIN handles \ DOMAIN handles' :
                    DOMAIN nodes \ DOMAIN nodes' \subseteq {handles[h].ino}
<1>1. DriversInit => Own
  <2> SUFFICES ASSUME DriversInit PROVE Owned(nodes, handles)
    OBVIOUS
  <2>1. DOMAIN nodes = {Root} /\ nodes[Root].kind = "dir" /\ DOMAIN handles = {}
    BY DEF DriversInit, Init, NewDir, NewNode
  <2> QED BY <2>1 DEF Owned, NoSymlinks
<1>2. Inv /\ Own /\ [DriversNext]_dvars => Own'
  <2> SUFFICES ASSUME Inv, Own, [DriversNext]_dvars PROVE Own'
    OBVIOUS
  <2>1. CASE UNCHANGED << vars, platform, handles >>
    BY <2>1 DEF vars
  <2>2. CASE platform = "winfsp" /\ WinFsp /\ UNCHANGED platform
    BY <2>2, WinOwned
  <2>3. CASE platform = "fuse" /\ UNCHANGED platform
    BY <2>3
  <2>4. \/ UNCHANGED << vars, platform, handles >>
        \/ platform = "winfsp" /\ WinFsp /\ UNCHANGED platform
        \/ platform = "fuse" /\ UNCHANGED platform
    BY DEF DriversNext, dvars, StartListing, SendPage
  <2> QED BY <2>1, <2>2, <2>3, <2>4
<1>3. Inv /\ Own /\ [DriversNext]_dvars => [Act]_dvars
  <2> SUFFICES ASSUME Inv, Own, [DriversNext]_dvars, NEW h \in DOMAIN handles, h \notin DOMAIN handles'
               PROVE  DOMAIN nodes \ DOMAIN nodes' \subseteq {handles[h].ino}
    OBVIOUS
  <2>1. CASE nodes' = nodes
    BY <2>1
  <2>2. CASE platform = "winfsp" /\ WinFsp
    <3>1. ASSUME NEW g \in DOMAIN handles, WinCleanup(g)
          PROVE  DOMAIN nodes \ DOMAIN nodes' \subseteq {handles[h].ino}
      <4>1. h = g
        BY <3>1 DEF WinCleanup, Closed
      <4>2. CASE nodes' = nodes
        BY <4>2
      <4>3. CASE \E q, m : Lost(nodes, nodes', q, m, handles[g].ino)
        BY <4>1, <4>3 DEF Lost
      <4> QED BY <2>2, <3>1, <4>2, <4>3, CleanupIs
    <3>2. \E g \in DOMAIN handles : WinCleanup(g)
      <4>1. ASSUME NEW g, NEW i, NEW path, handles' = Opened(g, i, path) PROVE FALSE
        BY <4>1 DEF Opened
      <4>2. ASSUME handles' = handles PROVE FALSE
        BY <4>2
      <4>3. ASSUME NEW g, WinCanDelete(g) PROVE FALSE
        BY <4>3 DEF WinCanDelete
      <4>4. ASSUME NEW g, NEW to, WinRename(g, to) PROVE FALSE
        BY <4>4 DEF WinRename
      <4> QED
        BY <2>2, <4>1, <4>2, <4>3, <4>4 DEF WinFsp, WinOpen, WinCreate, WinSetSize, WinOverwrite, WinWrite
    <3> QED BY <3>1, <3>2
  <2>3. CASE platform = "fuse" /\ Fuse
    <3>1. ASSUME NEW g, NEW i, FuseOpen(g, i) PROVE FALSE
      BY <3>1 DEF FuseOpen
    <3>2. ASSUME NEW g, FuseRelease(g) PROVE nodes' = nodes
      BY <3>2 DEF FuseRelease, vars
    <3>3. handles' # handles
      OBVIOUS
    <3> QED BY <2>1, <2>3, <3>1, <3>2, <3>3 DEF Fuse
  <2>4. handles' # handles
    OBVIOUS
  <2> QED BY <2>1, <2>2, <2>3, <2>4 DEF DriversNext, dvars, StartListing, SendPage
<1>4. Act <=> \A h \in DOMAIN handles \ DOMAIN handles' :
                DOMAIN nodes \ DOMAIN nodes' \subseteq {handles[h].ino}
  OBVIOUS
<1> QED BY <1>1, <1>2, <1>3, <1>4, MountInvariant, PTL DEF DriversSpec, CleanupRemovesOwn

-----------------------------------------------------------------------------
(* A page of a directory. *)

(* The smaller of two numbers.                                             *)
LEMMA MinIs ==
  ASSUME NEW a \in Nat, NEW b \in Nat
  PROVE  Min({a, b}) \in {a, b} /\ Min({a, b}) <= a /\ Min({a, b}) <= b
<1>1. \E x \in {a, b} : \A y \in {a, b} : x <= y
  OBVIOUS
<1>2. Min({a, b}) \in {a, b} /\ \A y \in {a, b} : Min({a, b}) <= y
  BY <1>1 DEF Min
<1> QED BY <1>2

(* What is left of a directory when its first k names have been sent.      *)
Unsent(S, k) == SubSeq(InOrder(S), k + 1, Len(InOrder(S)))

(* The rest of a directory, name by name.                                  *)
LEMMA UnsentIs ==
  ASSUME NEW S \in SUBSET Nat, IsFiniteSet(S), NEW k \in 0..Cardinality(S)
  PROVE  /\ Unsent(S, k) \in Seq(S) /\ Len(Unsent(S, k)) = Cardinality(S) - k
         /\ \A i \in 1..Cardinality(S) - k : Unsent(S, k)[i] = InOrder(S)[k + i]
<1> DEFINE n == Cardinality(S)
           f == InOrder(S)
<1>1. n \in Nat /\ f \in Seq(S) /\ Len(f) = n
  BY InOrderIs
<1> HIDE DEF n, f
<1>2. k \in Nat /\ k <= n
  BY <1>1 DEF n
<1>3. \A i \in k + 1..n : f[i] \in S
  BY <1>1, <1>2
<1>4. /\ SubSeq(f, k + 1, n) \in Seq(S)
      /\ Len(SubSeq(f, k + 1, n)) = IF k + 1 <= n THEN n - (k + 1) + 1 ELSE 0
      /\ \A i \in 1..n - (k + 1) + 1 : SubSeq(f, k + 1, n)[i] = f[k + 1 + i - 1]
  BY <1>1, <1>2, <1>3, SubSeqProperties
<1>5. n - (k + 1) + 1 = n - k /\ \A i \in 1..n - k : k + 1 + i - 1 = k + i
  BY <1>1, <1>2
<1>6. Len(SubSeq(f, k + 1, n)) = n - k
  BY <1>1, <1>2, <1>4
<1> QED BY <1>1, <1>4, <1>5, <1>6 DEF Unsent, f, n

(* A reply sends the names up to some number to; an empty one leaves       *)
(* nothing to send, and so does one that sends all that is left.           *)
LEMMA PageIs ==
  ASSUME NEW S \in SUBSET Nat, IsFiniteSet(S), NEW k \in 0..Cardinality(S)
  PROVE  LET rest == Unsent(S, k)
             page == SubSeq(rest, 1, Min({PageSize, Len(rest)}))
         IN  \E to \in k..Cardinality(S) :
               /\ FirstOf(S, to) \subseteq FirstOf(S, k) \cup ToSet(page)
               /\ Len(page) = to - k
               /\ page = << >> => to = k /\ k = Cardinality(S)
               /\ page # << >> => to # k /\ Last(page) = InOrder(S)[to]
               /\ page = rest => to = Cardinality(S)
<1> DEFINE n    == Cardinality(S)
           f    == InOrder(S)
           rest == Unsent(S, k)
           l    == Min({PageSize, Len(rest)})
           page == SubSeq(rest, 1, l)
           to   == k + l
<1>1. n \in Nat /\ k \in Nat /\ k <= n
  BY InOrderIs
<1>2. rest \in Seq(S) /\ Len(rest) = n - k /\ \A i \in 1..n - k : rest[i] = f[k + i]
  BY UnsentIs
<1>3. \A x : x \in FirstOf(S, k) <=> \E i \in 1..k : f[i] = x
  BY DEF FirstOf
<1>4. \A x : x \in FirstOf(S, to) <=> \E i \in 1..to : f[i] = x
  BY DEF FirstOf
<1> HIDE DEF n, f, rest
<1>5. l \in Nat /\ l <= n - k /\ (l = 0 => n = k)
  BY <1>1, <1>2, MinIs, DriversAssumption
<1> HIDE DEF l
<1>6. to \in k..n /\ to - k = l
  BY <1>1, <1>5
<1>7. /\ page \in Seq(S) /\ Len(page) = l
      /\ \A i \in 1..l : page[i] = f[k + i]
  <2>1. \A i \in 1..l : rest[i] \in S
    BY <1>1, <1>2, <1>5
  <2>2. /\ SubSeq(rest, 1, l) \in Seq(S)
        /\ Len(SubSeq(rest, 1, l)) = IF 1 <= l THEN l - 1 + 1 ELSE 0
        /\ \A i \in 1..l - 1 + 1 : SubSeq(rest, 1, l)[i] = rest[1 + i - 1]
    BY <1>1, <1>2, <1>5, <2>1, SubSeqProperties
  <2>3. l - 1 + 1 = l /\ \A i \in 1..l : 1 + i - 1 = i /\ i \in 1..n - k
    BY <1>1, <1>5
  <2> QED BY <1>2, <1>5, <2>2, <2>3
<1> HIDE DEF page
<1>8. ASSUME NEW x \in FirstOf(S, to) PROVE x \in FirstOf(S, k) \cup ToSet(page)
  <2>1. PICK i \in 1..to : f[i] = x
    BY <1>4
  <2>2. CASE i <= k
    <3>1. i \in 1..k
      BY <1>1, <1>6, <2>2
    <3> QED BY <1>3, <2>1, <3>1
  <2>3. CASE i > k
    <3>1. i - k \in 1..l /\ k + (i - k) = i
      BY <1>1, <1>5, <1>6, <2>3
    <3>2. page[i - k] = x /\ i - k \in DOMAIN page
      BY <1>7, <2>1, <3>1
    <3> QED BY <3>2 DEF ToSet
  <2> QED BY <1>1, <1>6, <2>2, <2>3
<1>9. page = << >> => to = k /\ k = n
  BY <1>1, <1>5, <1>6, <1>7
<1>10. ASSUME page # << >> PROVE to # k /\ Last(page) = f[to]
  <2>1. l # 0
    BY <1>7, <1>10
  <2>2. l \in 1..l /\ to # k
    BY <1>1, <1>5, <2>1
  <2> QED BY <1>7, <2>2 DEF Last
<1>11. page = rest => to = n
  BY <1>1, <1>2, <1>5, <1>7
<1> HIDE DEF to
<1> QED BY <1>6, <1>7, <1>8, <1>9, <1>10, <1>11 DEF page, rest, l, n, f

(* WinFSP: what comes after the last name sent.                            *)
LEMMA AfterMarkerIs ==
  ASSUME NEW S \in SUBSET (Nat \ {0}), IsFiniteSet(S), NEW k \in 0..Cardinality(S)
  PROVE  AfterMarker(InOrder(S), IF k = 0 THEN 0 ELSE InOrder(S)[k]) = Unsent(S, k)
<1> DEFINE n == Cardinality(S)
           f == InOrder(S)
<1>1. /\ n \in Nat /\ k \in Nat /\ k <= n /\ f \in Seq(S) /\ Len(f) = n
      /\ \A i \in 1..n : f[i] \in S
      /\ \A i, j \in 1..n : i < j => f[i] < f[j]
  BY InOrderIs
<1> HIDE DEF n, f
<1>2. CASE k = 0
  <2>1. SubSeq(f, 1, Len(f)) = f
    BY <1>1
  <2> QED BY <1>2, <2>1 DEF AfterMarker, Unsent, f
<1>3. CASE k # 0
  <2>1. k \in 1..n /\ f[k] # 0 /\ f[k] \in Nat
    <3>1. k \in 1..n
      BY <1>1, <1>3
    <3>2. f[k] \in S
      BY <1>1, <3>1
    <3> QED BY <3>1, <3>2
  <2>2. ASSUME NEW j \in 2..n + 1, f[j - 1] = f[k] PROVE j = k + 1
    <3>1. j - 1 \in 1..n /\ j \in Nat
      BY <1>1
    <3>2. ~(f[j - 1] < f[k]) /\ ~(f[k] < f[j - 1])
      BY <2>1, <2>2
    <3>3. ~(j - 1 < k) /\ ~(k < j - 1)
      BY <1>1, <2>1, <3>1, <3>2
    <3> QED BY <1>1, <3>1, <3>3
  <2>3. k + 1 \in 2..n + 1 /\ f[(k + 1) - 1] = f[k]
    BY <1>1, <2>1
  <2>4. (CHOOSE j \in 2..n + 1 : f[j - 1] = f[k]) = k + 1
    BY <2>2, <2>3
  <2>5. Contains(f, f[k])
    BY <1>1, <2>1 DEF Contains
  <2> QED BY <1>1, <1>3, <2>1, <2>4, <2>5 DEF AfterMarker, Unsent, f
<1> QED BY <1>2, <1>3

(* FUSE: what the position hangs on is the names before it.                *)
LEMMA BeforeIs ==
  ASSUME NEW S \in SUBSET Nat, IsFiniteSet(S), NEW k \in 0..Cardinality(S)
  PROVE  ToSet(SubSeq(InOrder(S), 1, Min({k, Len(InOrder(S))}))) = FirstOf(S, k)
<1> DEFINE n == Cardinality(S)
           f == InOrder(S)
           b == SubSeq(f, 1, k)
<1>1. /\ n \in Nat /\ k \in Nat /\ k <= n /\ f \in Seq(S) /\ Len(f) = n
      /\ \A i \in 1..n : f[i] \in S
  BY InOrderIs
<1>2. FirstOf(S, k) = {f[i] : i \in 1..k}
  BY DEF FirstOf
<1> HIDE DEF n, f
<1>3. Min({k, Len(f)}) = k
  BY <1>1, MinIs
<1>4. \A i \in 1..k : f[i] \in S
  BY <1>1
<1>5. /\ b \in Seq(S) /\ Len(b) = IF 1 <= k THEN k - 1 + 1 ELSE 0
      /\ \A i \in 1..k - 1 + 1 : b[i] = f[1 + i - 1]
  BY <1>1, <1>4, SubSeqProperties
<1> HIDE DEF b
<1>6. DOMAIN b = 1..k /\ \A i \in 1..k : b[i] = f[i]
  <2>1. k - 1 + 1 = k /\ \A i \in 1..k : 1 + i - 1 = i
    BY <1>1
  <2>2. Len(b) = k
    BY <1>1, <1>5
  <2> QED BY <1>5, <2>1, <2>2
<1>7. ToSet(b) = FirstOf(S, k)
  BY <1>2, <1>6 DEF ToSet
<1> QED BY <1>3, <1>7 DEF f, b

-----------------------------------------------------------------------------
(* The listing under way ls of a directory with the names S has sent the   *)
(* first k of them: it has shown the names among these that were there all *)
(* along.                                                                  *)
SentTo(pf, ls, S, k) ==
  /\ k \in 0..Cardinality(S)
  /\ ls.at = IF pf = "fuse" THEN k ELSE IF k = 0 THEN 0 ELSE InOrder(S)[k]
  /\ ls.kept \cap FirstOf(S, k) \subseteq ls.seen

Following(pf, ls, S) == ls.kept \subseteq S /\ \E k : SentTo(pf, ls, S, k)

(* It follows the directory still when names come, and when names go that  *)
(* its position does not hang on.                                          *)
LEMMA FollowsOn ==
  ASSUME NEW pf \in {"winfsp", "fuse"}, NEW ls, NEW ms,
         NEW S \in SUBSET (Nat \ {0}), IsFiniteSet(S),
         NEW T \in SUBSET (Nat \ {0}), IsFiniteSet(T),
         Following(pf, ls, S), ms.at = ls.at, ms.seen = ls.seen, ms.kept = ls.kept \ (S \ T),
         (S \ T) \cap (IF pf = "winfsp" THEN {ls.at}
                       ELSE ToSet(SubSeq(InOrder(S), 1, Min({ls.at, Len(InOrder(S))})))) = {}
  PROVE  Following(pf, ms, T)
<1>1. PICK k : SentTo(pf, ls, S, k)
  BY DEF Following
<1>2. /\ k \in 0..Cardinality(S) /\ ls.kept \cap FirstOf(S, k) \subseteq ls.seen
      /\ FirstOf(S, k) \subseteq S /\ ls.kept \subseteq S /\ ms.kept \subseteq T
      /\ \A x \in S, y \in FirstOf(S, k) : x <= y => x \in FirstOf(S, k)
  BY <1>1, FirstIs DEF SentTo, Following
<1>3. CASE pf = "fuse"
  <2>1. ls.at = k
    BY <1>1, <1>3 DEF SentTo
  <2>2. (S \ T) \cap FirstOf(S, k) = {}
    BY <1>2, <1>3, <2>1, BeforeIs
  <2>3. FirstOf(S, k) \subseteq T
    BY <1>2, <2>2
  <2>4. k \in 0..Cardinality(T) /\ FirstOf(T, k) \cap S \subseteq FirstOf(S, k)
    BY <1>2, <2>3, FirstStays
  <2>5. ms.kept \cap FirstOf(T, k) \subseteq ms.seen
    BY <1>2, <2>4
  <2>6. SentTo(pf, ms, T, k)
    BY <1>3, <2>1, <2>4, <2>5 DEF SentTo
  <2> QED BY <1>2, <2>6 DEF Following
<1>4. CASE pf = "winfsp" /\ k = 0
  <2>1. ls.at = 0 /\ FirstOf(T, 0) = {} /\ 0 \in 0..Cardinality(T)
    BY <1>1, <1>4, FS_CardinalityType DEF SentTo, FirstOf
  <2>2. SentTo(pf, ms, T, 0)
    BY <1>4, <2>1 DEF SentTo
  <2> QED BY <1>2, <2>2 DEF Following
<1>5. CASE pf = "winfsp" /\ k # 0
  <2>1. ls.at = InOrder(S)[k] /\ k \in 1..k
    BY <1>1, <1>2, <1>5 DEF SentTo
  <2>2. ls.at \in FirstOf(S, k)
    BY <2>1 DEF FirstOf
  <2>3. ls.at \in T
    BY <1>2, <1>5, <2>2
  <2>4. PICK j \in 1..Cardinality(T) : InOrder(T)[j] = ls.at
    <3>1. \A x \in T : \E i \in 1..Cardinality(T) : InOrder(T)[i] = x
      BY InOrderIs
    <3> QED BY <2>3, <3>1
  <2>5. Cardinality(T) \in Nat /\ j \in 0..Cardinality(T) /\ j # 0
    BY <2>4, FS_CardinalityType
  <2>6. ASSUME NEW x \in FirstOf(T, j), x \in S PROVE x \in FirstOf(S, k)
    <3>1. PICK i \in 1..j : InOrder(T)[i] = x
      BY DEF FirstOf
    <3>2. i = j \/ (i < j /\ i \in 1..Cardinality(T))
      BY <2>5, <3>1
    <3>3. x = ls.at \/ x < ls.at
      BY <2>4, <3>1, <3>2, InOrderIs
    <3>4. x \in Nat /\ ls.at \in Nat
      BY <2>3, <2>6
    <3>5. x <= ls.at
      BY <3>3, <3>4
    <3> QED BY <1>2, <2>2, <2>6, <3>5
  <2>7. SentTo(pf, ms, T, j)
    BY <1>2, <1>5, <2>4, <2>5, <2>6 DEF SentTo
  <2> QED BY <1>2, <2>7 DEF Following
<1> QED BY <1>3, <1>4, <1>5

(* What the next reply sends, and whether it is the last.                  *)
NextPage(pf, ls, S) ==
  LET rest == IF pf = "winfsp" THEN AfterMarker(InOrder(S), ls.at) ELSE AfterOffset(InOrder(S), ls.at)
  IN  SubSeq(rest, 1, Min({PageSize, Len(rest)}))

IsLast(pf, ls, S, page) ==
  IF pf = "winfsp" THEN page = AfterMarker(InOrder(S), ls.at) ELSE page = << >>

(* It follows the directory after a reply, and has shown it all after the  *)
(* last.                                                                   *)
LEMMA FollowsPage ==
  ASSUME NEW pf \in {"winfsp", "fuse"}, NEW ls, NEW ms, NEW page,
         NEW S \in SUBSET (Nat \ {0}), IsFiniteSet(S), Following(pf, ls, S),
         page = NextPage(pf, ls, S), ms.kept = ls.kept, ms.seen = ls.seen \cup ToSet(page),
         ms.at = IF page = << >> THEN ls.at ELSE IF pf = "winfsp" THEN Last(page) ELSE ls.at + Len(page)
  PROVE  Following(pf, ms, S) /\ (IsLast(pf, ls, S, page) => ms.kept \subseteq ms.seen)
<1>1. PICK k : SentTo(pf, ls, S, k)
  BY DEF Following
<1>2. /\ k \in 0..Cardinality(S) /\ ls.kept \cap FirstOf(S, k) \subseteq ls.seen
      /\ ls.kept \subseteq S
      /\ ls.at = IF pf = "fuse" THEN k ELSE IF k = 0 THEN 0 ELSE InOrder(S)[k]
  BY <1>1 DEF SentTo, Following
<1> DEFINE rest == Unsent(S, k)
<1>3. /\ pf = "winfsp" => AfterMarker(InOrder(S), ls.at) = rest
      /\ pf = "fuse" => AfterOffset(InOrder(S), ls.at) = rest
  BY <1>2, AfterMarkerIs DEF AfterOffset, Unsent
<1> HIDE DEF rest
<1>4. /\ page = SubSeq(rest, 1, Min({PageSize, Len(rest)}))
      /\ IsLast(pf, ls, S, page) => page = << >> \/ page = rest
  BY <1>3 DEF NextPage, IsLast
<1>5. PICK to \in k..Cardinality(S) :
               /\ FirstOf(S, to) \subseteq FirstOf(S, k) \cup ToSet(page)
               /\ Len(page) = to - k
               /\ page = << >> => to = k /\ k = Cardinality(S)
               /\ page # << >> => to # k /\ Last(page) = InOrder(S)[to]
               /\ page = rest => to = Cardinality(S)
  BY <1>2, <1>4, PageIs DEF rest
<1>6. /\ Cardinality(S) \in Nat /\ k \in Nat /\ to \in 0..Cardinality(S) /\ to >= k
      /\ k + (to - k) = to
  BY <1>2, FS_CardinalityType
<1>7. ms.at = IF pf = "fuse" THEN to ELSE IF to = 0 THEN 0 ELSE InOrder(S)[to]
  <2>1. CASE page = << >>
    BY <1>2, <1>5, <2>1
  <2>2. CASE page # << >>
    BY <1>2, <1>5, <1>6, <2>2
  <2> QED BY <2>1, <2>2
<1>8. ms.kept \cap FirstOf(S, to) \subseteq ms.seen
  BY <1>2, <1>5
<1>9. SentTo(pf, ms, S, to)
  BY <1>6, <1>7, <1>8 DEF SentTo
<1>10. ASSUME IsLast(pf, ls, S, page) PROVE ms.kept \subseteq ms.seen
  <2>1. to = Cardinality(S)
    BY <1>4, <1>5, <1>10
  <2>2. FirstOf(S, to) = S
    BY <1>6, <2>1, FirstIs
  <2> QED BY <1>2, <1>8, <2>2
<1> QED BY <1>2, <1>9, <1>10 DEF Following

-----------------------------------------------------------------------------
(* The names in a directory are finitely many, and none is 0.              *)
NamesIn(ns) ==
  \A d : IsDir(ns, d) => DOMAIN ns[d].entries \in SUBSET (Nat \ {0}) /\ IsFiniteSet(DOMAIN ns[d].entries)

(* The listing there is, if any: of a directory that was given a number,   *)
(* which it follows while that is there.                                   *)
ListInv ==
  /\ DOMAIN listing = {"state", "dir", "at", "seen", "kept", "shaken"}
  /\ listing.state = "reading" =>
       /\ listing.dir \in 1..next - 1
       /\ IsDir(nodes, listing.dir) /\ ~listing.shaken =>
            Following(platform, listing, DOMAIN nodes[listing.dir].entries)
  /\ ListingComplete

(* Another request.                                                        *)
LEMMA ListWatched ==
  ASSUME platform \in {"winfsp", "fuse"}, platform' = platform, next \in Nat,
         next' \in {next, next + 1}, NamesIn(nodes), NamesIn(nodes'), DirsKept,
         ListInv, listing' = Watched
  PROVE  ListInv'
<1> DEFINE S == DOMAIN nodes[listing.dir].entries
           T == DOMAIN nodes'[listing.dir].entries
<1>1. /\ DOMAIN listing = {"state", "dir", "at", "seen", "kept", "shaken"}
      /\ listing.state = "reading" => listing.dir \in 1..next - 1
      /\ 1..next - 1 \subseteq 1..next' - 1
  <2>1. 1..next - 1 \subseteq 1..next' - 1
    BY NumbersStay
  <2> QED BY <2>1 DEF ListInv
<1>2. CASE listing.state = "done"
  <2>1. listing' = NoList
    BY <1>2 DEF Watched
  <2> QED BY <2>1 DEF NoList, ListInv, ListingComplete
<1>3. CASE listing.state = "reading" /\ IsDir(nodes, listing.dir) /\ IsDir(nodes', listing.dir)
  <2>1. /\ listing' = [listing EXCEPT !.kept = listing.kept \ (S \ T),
                                      !.shaken = listing.shaken \/ (S \ T) \cap Passed # {}]
    BY <1>3 DEF Watched
  <2>2. /\ DOMAIN listing' = DOMAIN listing /\ listing'.state = listing.state
        /\ listing'.dir = listing.dir /\ listing'.at = listing.at
        /\ listing'.seen = listing.seen /\ listing'.kept = listing.kept \ (S \ T)
        /\ ~listing'.shaken => ~listing.shaken /\ (S \ T) \cap Passed = {}
    BY <1>1, <2>1
  <2>3. ASSUME ~listing'.shaken PROVE Following(platform, listing', T)
    <3>1. Following(platform, listing, S)
      BY <1>3, <2>2, <2>3 DEF ListInv
    <3>2. Passed = IF platform = "winfsp" THEN {listing.at}
                   ELSE ToSet(SubSeq(InOrder(S), 1, Min({listing.at, Len(InOrder(S))})))
      BY DEF Passed, Entries
    <3>3. /\ S \in SUBSET (Nat \ {0}) /\ IsFiniteSet(S)
          /\ T \in SUBSET (Nat \ {0}) /\ IsFiniteSet(T)
      BY <1>3 DEF NamesIn
    <3> HIDE DEF S, T
    <3> QED BY <2>2, <2>3, <3>1, <3>2, <3>3, FollowsOn
  <2> QED BY <1>1, <1>3, <2>2, <2>3 DEF ListInv, ListingComplete
<1>4. CASE listing.state # "done" /\ ~(listing.state = "reading" /\ IsDir(nodes, listing.dir) /\ IsDir(nodes', listing.dir))
  <2>1. listing' = listing
    BY <1>4 DEF Watched
  <2>2. ASSUME listing.state = "reading" PROVE ~IsDir(nodes', listing.dir)
    <3>1. listing.dir # next
      BY <1>1, <2>2
    <3> QED BY <1>4, <2>2, <3>1 DEF DirsKept
  <2> QED BY <1>1, <1>4, <2>1, <2>2 DEF ListInv, ListingComplete
<1> QED BY <1>2, <1>3, <1>4

(* The first request for a directory.                                      *)
LEMMA ListStarted ==
  ASSUME platform \in {"winfsp", "fuse"}, NamesIn(nodes), DOMAIN nodes \subseteq 1..next - 1,
         NEW d, StartListing(d)
  PROVE  ListInv'
<1> DEFINE S == DOMAIN nodes[d].entries
<1>1. /\ IsDir(nodes, d) /\ nodes' = nodes /\ next' = next /\ platform' = platform
      /\ listing' = [state |-> "reading", dir |-> d, at |-> 0, seen |-> {}, kept |-> S, shaken |-> FALSE]
  BY DEF StartListing, NoList, vars
<1>2. S \in SUBSET (Nat \ {0}) /\ IsFiniteSet(S) /\ d \in 1..next - 1
  BY <1>1 DEF NamesIn, IsDir
<1>3. /\ DOMAIN listing' = {"state", "dir", "at", "seen", "kept", "shaken"}
      /\ listing'.state = "reading" /\ listing'.dir = d /\ listing'.at = 0
      /\ listing'.kept = S
  BY <1>1
<1> HIDE DEF S
<1>4. 0 \in 0..Cardinality(S) /\ FirstOf(S, 0) = {}
  BY <1>2, FS_CardinalityType DEF FirstOf
<1>5. Following(platform, listing', S)
  BY <1>3, <1>4 DEF Following, SentTo
<1> QED BY <1>1, <1>2, <1>3, <1>5 DEF ListInv, ListingComplete, S

(* The next reply.                                                         *)
LEMMA ListSent ==
  ASSUME platform \in {"winfsp", "fuse"}, NamesIn(nodes), ListInv, SendPage
  PROVE  ListInv'
<1> DEFINE S    == DOMAIN nodes[listing.dir].entries
           page == NextPage(platform, listing, S)
           over == IsLast(platform, listing, S, page)
<1>1. /\ DOMAIN listing = {"state", "dir", "at", "seen", "kept", "shaken"}
      /\ listing.state = "reading" /\ listing.dir \in 1..next - 1
      /\ nodes' = nodes /\ next' = next /\ platform' = platform
  BY DEF ListInv, SendPage, vars
<1>2. CASE ~IsDir(nodes, listing.dir)
  <2>1. listing' = NoList
    BY <1>2 DEF SendPage
  <2> QED BY <2>1 DEF NoList, ListInv, ListingComplete
<1>3. CASE IsDir(nodes, listing.dir)
  <2>1. listing' = [listing EXCEPT
                      !.state = IF over THEN "done" ELSE listing.state,
                      !.seen  = listing.seen \cup ToSet(page),
                      !.at    = IF page = << >> THEN listing.at
                                ELSE IF platform = "winfsp" THEN Last(page)
                                ELSE listing.at + Len(page)]
    BY <1>3 DEF SendPage, Entries, NextPage, IsLast
  <2> HIDE DEF page, over
  <2>2. /\ DOMAIN listing' = DOMAIN listing /\ listing'.dir = listing.dir
        /\ listing'.state = IF over THEN "done" ELSE "reading"
        /\ listing'.seen = listing.seen \cup ToSet(page)
        /\ listing'.kept = listing.kept /\ listing'.shaken = listing.shaken
        /\ listing'.at = IF page = << >> THEN listing.at
                         ELSE IF platform = "winfsp" THEN Last(page)
                         ELSE listing.at + Len(page)
    BY <1>1, <2>1
  <2>3. ASSUME ~listing.shaken
        PROVE  Following(platform, listing', S) /\ (over => listing'.kept \subseteq listing'.seen)
    <3>1. Following(platform, listing, S)
      BY <1>1, <1>3, <2>3 DEF ListInv
    <3>2. S \in SUBSET (Nat \ {0}) /\ IsFiniteSet(S)
      BY <1>3 DEF NamesIn
    <3> HIDE DEF S
    <3> QED BY <2>2, <3>1, <3>2, FollowsPage DEF page, over
  <2> QED BY <1>1, <2>2, <2>3 DEF ListInv, ListingComplete
<1> QED BY <1>2, <1>3

(* A directory of the table has such names.                                *)
LEMMA NamesInTable ==
  ASSUME NEW ns, Table(ns)
  PROVE  NamesIn(ns)
<1> SUFFICES ASSUME NEW d, IsDir(ns, d)
             PROVE  DOMAIN ns[d].entries \in SUBSET (Nat \ {0}) /\ IsFiniteSet(DOMAIN ns[d].entries)
  BY DEF NamesIn
<1>1. ns[d].entries \in EntryMap
  BY DEF Table, Proper, Inode, IsDir
<1> QED BY <1>1, EntryMapIs, FsAssumption

(* A directory read page by page through either driver shows every entry   *)
(* that was there from the first request to the last.                      *)
THEOREM MountListingComplete == DriversSpec => []ListingComplete
<1> DEFINE Mount == MountInv /\ platform \in {"winfsp", "fuse"}
<1>1. DriversInit => ListInv
  BY DEF DriversInit, NoList, ListInv, ListingComplete
<1>2. Mount /\ ListInv /\ [DriversNext]_dvars => ListInv'
  <2> SUFFICES ASSUME Mount, ListInv, [DriversNext]_dvars PROVE ListInv'
    OBVIOUS
  <2>1. /\ NamesIn(nodes) /\ next \in Nat /\ DOMAIN nodes \subseteq 1..next - 1
    BY GoodIs, NamesInTable DEF MountInv, FsInv
  <2>2. MountInv' /\ platform' = platform /\ next' \in {next, next + 1} /\ DirsKept
    BY MountStep
  <2>3. NamesIn(nodes')
    BY <2>2, GoodIs, NamesInTable DEF MountInv, FsInv
  <2>4. CASE listing' = Watched
    BY <2>1, <2>2, <2>3, <2>4, ListWatched
  <2>5. ASSUME NEW d, StartListing(d) PROVE ListInv'
    BY <2>1, <2>5, ListStarted
  <2>6. CASE SendPage
    BY <2>1, <2>6, ListSent
  <2>7. CASE UNCHANGED dvars
    BY <2>7 DEF dvars, vars, ListInv, ListingComplete
  <2> QED BY <2>4, <2>5, <2>6, <2>7 DEF DriversNext
<1>3. ListInv => ListingComplete
  BY DEF ListInv
<1> QED BY <1>1, <1>2, <1>3, MountInvariant, PTL DEF DriversSpec

-----------------------------------------------------------------------------
(* The types of what the drivers keep. *)

MountTyped ==
  /\ DOMAIN handles \subseteq Handles
  /\ \A h \in DOMAIN handles : handles[h] \in Handle
  /\ listing \in Listing

(* A path that follows a rename is one still.                              *)
LEMMA FollowedTyped ==
  ASSUME NEW path \in Comps, NEW old \in Comps, NEW new \in Comps
  PROVE  Followed(path, old, new) \in Comps
<1>1. SubSeq(path, Len(old) + 1, Len(path)) \in Comps
  <2>1. Len(old) + 1 \in Nat \ {0} /\ Len(path) \in Nat
    BY DEF Comps
  <2>2. \A i \in Len(old) + 1..Len(path) : path[i] \in Names \cup {DotDot}
    BY <2>1 DEF Comps
  <2> QED BY <2>1, <2>2, SubSeqProperties DEF Comps
<1>2. new \o SubSeq(path, Len(old) + 1, Len(path)) \in Comps
  BY <1>1 DEF Comps
<1> QED BY <1>2 DEF Followed

(* The handles after a request of WinFSP.                                  *)
LEMMA WinHandlesTyped ==
  ASSUME MountTyped, WinFsp,
         \A h \in DOMAIN handles' : handles'[h].ino \in Inos
  PROVE  DOMAIN handles' \subseteq Handles /\ \A h \in DOMAIN handles' : handles'[h] \in Handle
<1>1. \A path \in Paths : path \in Comps
  BY PathsAssumption
<1>2. ASSUME NEW h \in Handles, NEW i, NEW path \in Paths, handles' = Opened(h, i, path)
      PROVE  DOMAIN handles' \subseteq Handles /\ \A g \in DOMAIN handles' : handles'[g] \in Handle
  <2>1. DOMAIN handles' = DOMAIN handles \cup {h}
    BY <1>2 DEF Opened
  <2>2. handles'[h] = [ino |-> i, path |-> path, del |-> FALSE]
    BY <1>2 DEF Opened
  <2>3. i \in Inos
    BY <2>1, <2>2
  <2>4. handles'[h] \in Handle
    BY <1>1, <2>2, <2>3 DEF Handle
  <2>5. \A g \in DOMAIN handles : g # h => handles'[g] = handles[g]
    BY <1>2 DEF Opened
  <2> QED BY <2>1, <2>4, <2>5 DEF MountTyped
<1>3. ASSUME handles' = handles
      PROVE  DOMAIN handles' \subseteq Handles /\ \A g \in DOMAIN handles' : handles'[g] \in Handle
  BY <1>3 DEF MountTyped
<1>4. ASSUME NEW h \in DOMAIN handles, WinCanDelete(h)
      PROVE  DOMAIN handles' \subseteq Handles /\ \A g \in DOMAIN handles' : handles'[g] \in Handle
  <2>1. handles' = [handles EXCEPT ![h].del = TRUE]
    BY <1>4 DEF WinCanDelete
  <2>2. DOMAIN handles' = DOMAIN handles /\ \A g \in DOMAIN handles : g # h => handles'[g] = handles[g]
    BY <2>1
  <2>3. handles'[h] = [handles[h] EXCEPT !.del = TRUE]
    BY <2>1
  <2>4. handles[h] \in Handle
    BY DEF MountTyped
  <2>5. handles'[h] \in Handle
    BY <2>3, <2>4 DEF Handle
  <2> QED BY <2>2, <2>5 DEF MountTyped
<1>5. ASSUME NEW h, WinCleanup(h)
      PROVE  DOMAIN handles' \subseteq Handles /\ \A g \in DOMAIN handles' : handles'[g] \in Handle
  BY <1>5 DEF WinCleanup, Closed, MountTyped
<1>6. ASSUME NEW h \in DOMAIN handles, NEW to \in Paths, WinRename(h, to)
      PROVE  DOMAIN handles' \subseteq Handles /\ \A g \in DOMAIN handles' : handles'[g] \in Handle
  <2> DEFINE from == handles[h].path
  <2>1. DOMAIN handles' = DOMAIN handles
    BY <1>6 DEF WinRename
  <2>2. ASSUME NEW g \in DOMAIN handles PROVE handles'[g] \in Handle
    <3>1. handles'[g] = IF handles[g].ino \in DOMAIN nodes
                          THEN [handles[g] EXCEPT !.path = Followed(handles[g].path, from, to)]
                          ELSE handles[g]
      BY <1>6 DEF WinRename
    <3>2. handles[g] \in Handle /\ handles[h] \in Handle
      BY DEF MountTyped
    <3>3. Followed(handles[g].path, from, to) \in Comps
      BY <1>1, <3>2, FollowedTyped DEF Handle
    <3> QED BY <3>1, <3>2, <3>3 DEF Handle
  <2> QED BY <2>1, <2>2 DEF MountTyped
<1> QED BY <1>2, <1>3, <1>4, <1>5, <1>6 DEF WinFsp, WinOpen, WinCreate, WinSetSize, WinOverwrite, WinWrite

(* The handles after a request of FUSE.                                    *)
LEMMA FuseHandlesTyped ==
  ASSUME MountTyped, DOMAIN nodes \subseteq Inos, Fuse
  PROVE  DOMAIN handles' \subseteq Handles /\ \A h \in DOMAIN handles' : handles'[h] \in Handle
<1>1. ASSUME NEW h \in Handles, NEW i \in DOMAIN nodes, FuseOpen(h, i)
      PROVE  DOMAIN handles' \subseteq Handles /\ \A g \in DOMAIN handles' : handles'[g] \in Handle
  <2>1. << >> \in Comps
    BY DEF Comps
  <2>2. [ino |-> i, path |-> << >>, del |-> FALSE] \in Handle
    BY <2>1 DEF Handle
  <2>3. DOMAIN handles' = {h} /\ handles'[h] = [ino |-> i, path |-> << >>, del |-> FALSE]
    BY <1>1 DEF FuseOpen, Opened
  <2> QED BY <2>2, <2>3
<1>2. ASSUME NEW h, FuseRelease(h)
      PROVE  DOMAIN handles' \subseteq Handles /\ \A g \in DOMAIN handles' : handles'[g] \in Handle
  BY <1>2 DEF FuseRelease, Closed, MountTyped
<1>3. CASE handles' = handles
  BY <1>3 DEF MountTyped
<1> QED BY <1>1, <1>2, <1>3 DEF Fuse

(* A reply holds names of the directory.                                   *)
LEMMA PageTyped ==
  ASSUME NEW S \in SUBSET Nat, IsFiniteSet(S), NEW at \in Nat,
         NEW rest \in {AfterMarker(InOrder(S), at), AfterOffset(InOrder(S), at)}
  PROVE  LET page == SubSeq(rest, 1, Min({PageSize, Len(rest)}))
         IN  /\ page \in Seq(S) /\ ToSet(page) \subseteq S
             /\ Len(page) \in Nat /\ (page # << >> => Last(page) \in Nat)
<1> DEFINE f == InOrder(S)
           n == Len(f)
           page == SubSeq(rest, 1, Min({PageSize, Len(rest)}))
<1>1. f \in Seq(S) /\ n \in Nat /\ \A i \in 1..n : f[i] \in S
  BY InOrderIs
<1> HIDE DEF f
<1>2. ASSUME NEW m \in Nat, m >= 1 PROVE SubSeq(f, m, n) \in Seq(S)
  <2>1. m \in Int /\ n \in Int /\ \A i \in m..n : f[i] \in S
    BY <1>1, <1>2
  <2> QED BY <2>1, SubSeqProperties
<1>3. rest \in Seq(S)
  <2>1. CASE rest = AfterOffset(f, at)
    <3>1. at + 1 \in Nat /\ at + 1 >= 1
      OBVIOUS
    <3> QED BY <1>2, <2>1, <3>1 DEF AfterOffset
  <2>2. CASE rest = AfterMarker(f, at) /\ Contains(f, at)
    <3>1. PICK i \in 1..n : f[i] = at
      BY <1>1, <2>2 DEF Contains
    <3>2. i + 1 \in 2..n + 1 /\ f[(i + 1) - 1] = at
      BY <1>1, <3>1
    <3> DEFINE c == CHOOSE k \in 2..n + 1 : f[k - 1] = at
    <3>3. c \in 2..n + 1
      BY <3>2
    <3>4. c \in Nat /\ c >= 1
      BY <1>1, <3>3
    <3>5. rest \in {f, SubSeq(f, c, n)}
      BY <2>2 DEF AfterMarker
    <3> HIDE DEF c
    <3> QED BY <1>1, <1>2, <3>4, <3>5
  <2>3. CASE rest = AfterMarker(f, at) /\ ~Contains(f, at)
    <3>1. rest \in {f, << >>}
      BY <2>3 DEF AfterMarker
    <3>2. << >> \in Seq(S)
      OBVIOUS
    <3> QED BY <1>1, <3>1, <3>2
  <2> QED BY <2>1, <2>2, <2>3 DEF f
<1>4. Len(rest) \in Nat /\ \A i \in 1..Len(rest) : rest[i] \in S
  BY <1>3
<1>5. Min({PageSize, Len(rest)}) \in Nat /\ Min({PageSize, Len(rest)}) <= Len(rest)
  BY <1>4, MinIs, DriversAssumption
<1>6. page \in Seq(S)
  <2> DEFINE l == Min({PageSize, Len(rest)})
  <2>1. l \in Nat /\ l <= Len(rest)
    BY <1>5
  <2> HIDE DEF l
  <2>2. l \in Int /\ \A i \in 1..l : rest[i] \in S
    BY <1>4, <2>1
  <2>3. SubSeq(rest, 1, l) \in Seq(S)
    BY <2>2, SubSeqProperties
  <2> QED BY <2>3 DEF l
<1> HIDE DEF page
<1>7. ToSet(page) \subseteq S /\ Len(page) \in Nat
  BY <1>6 DEF ToSet
<1>8. page # << >> => Last(page) \in Nat
  <2>1. page # << >> => Len(page) \in 1..Len(page)
    BY <1>6
  <2>2. page # << >> => page[Len(page)] \in S
    BY <1>6, <2>1
  <2> QED BY <2>2 DEF Last
<1> QED BY <1>6, <1>7, <1>8 DEF page

(* The listing after each kind of step.                                    *)
LEMMA ListTyped ==
  ASSUME MountTyped, platform \in {"winfsp", "fuse"}, DOMAIN nodes \subseteq Inos, Root \in Inos,
         NamesIn(nodes), \A d : IsDir(nodes, d) => DOMAIN nodes[d].entries \subseteq Names,
         \/ listing' = Watched
         \/ \E d \in DOMAIN nodes : StartListing(d)
         \/ SendPage
  PROVE  listing' \in Listing
<1>1. NoList \in Listing
  BY DEF NoList, Listing
<1>2. listing \in Listing
  BY DEF MountTyped
<1>3. CASE listing' = Watched
  <2> DEFINE gone == DOMAIN nodes[listing.dir].entries \ DOMAIN nodes'[listing.dir].entries
             shaken == listing.shaken \/ gone \cap Passed # {}
  <2>1. shaken \in BOOLEAN
    OBVIOUS
  <2>2. listing' \in {NoList, listing, [listing EXCEPT !.kept = listing.kept \ gone, !.shaken = shaken]}
    BY <1>3, Zenon DEF Watched
  <2> HIDE DEF shaken, gone
  <2>3. [listing EXCEPT !.kept = listing.kept \ gone, !.shaken = shaken] \in Listing
    BY <1>2, <2>1 DEF Listing
  <2> QED BY <1>1, <1>2, <2>2, <2>3
<1>4. ASSUME NEW d \in DOMAIN nodes, StartListing(d) PROVE listing' \in Listing
  <2>1. listing' = [NoList EXCEPT !.state = "reading", !.dir = d, !.kept = DOMAIN nodes[d].entries]
    BY <1>4, Zenon DEF StartListing
  <2>2. DOMAIN nodes[d].entries \subseteq Names /\ d \in Inos
    BY <1>4, Zenon DEF StartListing
  <2> QED BY <1>1, <2>1, <2>2 DEF Listing
<1>5. CASE SendPage
  <2> DEFINE S    == DOMAIN nodes[listing.dir].entries
             page == NextPage(platform, listing, S)
             over == IsLast(platform, listing, S, page)
             st   == IF over THEN "done" ELSE listing.state
             at   == IF page = << >> THEN listing.at
                     ELSE IF platform = "winfsp" THEN Last(page)
                     ELSE listing.at + Len(page)
  <2>1. CASE ~IsDir(nodes, listing.dir)
    BY <1>1, <1>5, <2>1 DEF SendPage
  <2>2. CASE IsDir(nodes, listing.dir)
    <3>1. listing' = [listing EXCEPT !.state = st, !.seen = listing.seen \cup ToSet(page), !.at = at]
      BY <1>5, <2>2 DEF SendPage, Entries, NextPage, IsLast
    <3>2. S \in SUBSET Nat /\ IsFiniteSet(S) /\ S \subseteq Names
      BY <2>2 DEF NamesIn
    <3>3. listing.at \in Nat /\ listing.state \in {"none", "reading", "done"}
      BY <1>2 DEF Listing
    <3> HIDE DEF S
    <3>4. ToSet(page) \subseteq S /\ Len(page) \in Nat /\ (page # << >> => Last(page) \in Nat)
      BY <3>2, <3>3, PageTyped DEF NextPage
    <3> HIDE DEF page, over
    <3>5. at \in Nat /\ st \in {"none", "reading", "done"}
      BY <3>3, <3>4
    <3> HIDE DEF at, st
    <3> QED BY <1>2, <3>1, <3>2, <3>4, <3>5 DEF Listing
  <2> QED BY <2>1, <2>2
<1> QED BY <1>3, <1>4, <1>5

(* The numbers handed out are among those there are.                       *)
LEMMA NumbersOut ==
  ASSUME NEW nx \in Nat, nx <= MaxIno + 1
  PROVE  1..nx - 1 \subseteq Inos
<1>1. MaxIno \in Nat
  BY FsAssumption
<1> QED BY <1>1 DEF Inos

(* Handles mean numbers that can be given out, by paths made of names; a   *)
(* listing holds names only.                                               *)
THEOREM MountTypeOK == DriversSpec => []DriversTypeOK
<1> DEFINE Mount == MountInv /\ platform \in {"winfsp", "fuse"}
<1>1. DriversInit => MountTyped
  <2>1. NoList \in Listing
    BY FsAssumption DEF NoList, Listing, Root, Inos
  <2> QED BY <2>1 DEF DriversInit, MountTyped
<1>2. Mount => TypeOK /\ DOMAIN nodes \subseteq Inos /\ Root \in Inos
  <2>1. MountInv => TypeOK
    BY FsTypes DEF MountInv
  <2>2. TypeOK => 1..next - 1 \subseteq Inos
    BY FsAssumption DEF TypeOK, Inos
  <2> QED BY <2>1, <2>2 DEF TypeOK
<1>3. Mount /\ Mount' /\ MountTyped /\ [DriversNext]_dvars => MountTyped'
  <2> SUFFICES ASSUME Mount, Mount', MountTyped, [DriversNext]_dvars PROVE MountTyped'
    OBVIOUS
  <2>1. /\ DOMAIN nodes \subseteq Inos /\ Root \in Inos /\ NamesIn(nodes)
        /\ \A d : IsDir(nodes, d) => DOMAIN nodes[d].entries \subseteq Names
    <3>1. NamesIn(nodes)
      BY GoodIs, NamesInTable DEF MountInv, FsInv
    <3>2. \A i \in DOMAIN nodes : nodes[i] \in Node
      BY <1>2 DEF TypeOK
    <3>3. \A i \in DOMAIN nodes : DOMAIN nodes[i].entries \subseteq Names
      BY <3>2 DEF Node
    <3> QED BY <1>2, <3>1, <3>3 DEF IsDir
  <2>2. \A h \in DOMAIN handles' : handles'[h].ino \in Inos
    <3>1. 1..next' - 1 \subseteq Inos
      <4>1. next' \in Nat /\ next' <= MaxIno + 1
        BY GoodIs DEF MountInv, FsInv
      <4> QED BY <4>1, NumbersOut
    <3> QED BY <3>1 DEF MountInv, HandleOf
  <2>3. listing' \in Listing
    <3>1. CASE UNCHANGED dvars
      BY <3>1 DEF dvars, MountTyped
    <3>2. CASE ~UNCHANGED dvars
      BY <2>1, <3>2, ListTyped DEF DriversNext
    <3> QED BY <3>1, <3>2
  <2>4. DOMAIN handles' \subseteq Handles /\ \A h \in DOMAIN handles' : handles'[h] \in Handle
    <3>1. CASE handles' = handles
      BY <3>1 DEF MountTyped
    <3>2. CASE platform = "winfsp" /\ WinFsp
      BY <2>1, <2>2, <3>2, WinHandlesTyped
    <3>3. CASE platform = "fuse" /\ Fuse
      BY <2>1, <3>3, FuseHandlesTyped
    <3> QED BY <3>1, <3>2, <3>3, Zenon DEF DriversNext, dvars, StartListing, SendPage
  <2> QED BY <2>3, <2>4 DEF MountTyped
<1>4. Mount /\ MountTyped => DriversTypeOK
  BY <1>2 DEF DriversTypeOK, MountTyped
<1> QED BY <1>1, <1>3, <1>4, MountInvariant, PTL DEF DriversSpec

=============================================================================
