------------------------------- MODULE MemFs -------------------------------
(***************************************************************************)
(* The workspace's in-memory filesystem                                    *)
(* (crates/devdev-workspace/src/mem.rs): a table of inodes addressed by    *)
(* number, as the FUSE and WinFSP drivers and the devdev_fs_write tool     *)
(* drive it.  Every operation runs under one mutex, so it is one step; an  *)
(* operation that fails before it changed anything is no step.             *)
(*                                                                         *)
(* Contents are reduced to their length, which is what bytes_used counts;  *)
(* times, modes and owners are left out, and so is the size attribute,     *)
(* which is always the length of the content or of the entry map.          *)
(***************************************************************************)
EXTENDS Naturals, FiniteSets, SequencesExt

CONSTANTS
  Names,     (* entry names validate_name lets through, in the map's order *)
  MaxIno,    (* bound: inode numbers handed out                            *)
  Limit,     (* bytes_limit                                                *)
  MaxLinks,  (* bound: link count of a file or symlink                     *)
  MaxHops,   (* MAX_SYMLINK_HOPS                                           *)
  Targets,   (* the symlink targets there may be                           *)
  Paths      (* the component lists devdev_fs_write and resolve are given  *)

ASSUME FsAssumption ==
  /\ Names \subseteq Nat \ {0}
  /\ MaxIno \in Nat \ {0}
  /\ {Limit, MaxLinks, MaxHops} \subseteq Nat

VARIABLES
  nodes,     (* Fs.inodes                                                  *)
  next,      (* Fs.next_ino                                                *)
  used       (* Fs.bytes_used                                              *)

vars == << nodes, next, used >>

Root     == 1
NoParent == 0                 (* parent is tracked for directories only    *)
Inos     == 1..MaxIno
NoNames  == [n \in {} |-> 0]
DotDot   == 0                 (* the component ".."                        *)

Comps    == Seq(Names \cup {DotDot})

(* A symlink's target is absolute or not and counts as long as it has      *)
(* components.                                                             *)
Target   == [abs : BOOLEAN, comps : Comps]
NoTarget == [abs |-> FALSE, comps |-> << >>]

(* A path without components names no file (split_parent).                 *)
ASSUME PathsAssumption ==
  /\ Targets \subseteq Target
  /\ Paths \subseteq Comps \ {<< >>}

Node == [kind : {"file", "dir", "symlink"}, nlink : Nat, len : Nat,
         parent : 0..MaxIno, target : Target,
         entries : UNION {[S -> Inos] : S \in SUBSET Names}]

TypeOK ==
  /\ next \in 2..MaxIno + 1
  /\ DOMAIN nodes \subseteq 1..next - 1
  /\ Root \in DOMAIN nodes
  /\ nodes = [i \in DOMAIN nodes |-> nodes[i]]
  /\ \A i \in DOMAIN nodes : nodes[i] \in Node
  /\ used \in 0..Limit

NewNode(k, links, l, p, t) ==
  [kind |-> k, nlink |-> links, len |-> l, parent |-> p, target |-> t, entries |-> NoNames]
NewDir(p)     == NewNode("dir", 2, 0, p, NoTarget)
NewFile(l)    == NewNode("file", 1, l, NoParent, NoTarget)
NewSymlink(t) == NewNode("symlink", 1, Len(t.comps), NoParent, t)

IsDir(ns, i)   == i \in DOMAIN ns /\ ns[i].kind = "dir"
IsLeaf(ns, i)  == i \in DOMAIN ns /\ ns[i].kind # "dir"

(* ensure_dir_no_entry, and child_ino where it succeeds.                   *)
Vacant(ns, p, n)   == IsDir(ns, p) /\ n \notin DOMAIN ns[p].entries
Occupied(ns, p, n) == IsDir(ns, p) /\ n \in DOMAIN ns[p].entries
ChildIno(ns, p, n) == ns[p].entries[n]

(* insert_entry and remove_entry on the inode table ns.                    *)
InsertEntry(ns, p, n, i) ==
  [ns EXCEPT ![p].entries = [m \in DOMAIN @ \cup {n} |-> IF m = n THEN i ELSE @[m]]]
RemoveEntry(ns, p, n) ==
  [ns EXCEPT ![p].entries = [m \in DOMAIN @ \ {n} |-> @[m]]]

InsertNode(ns, i, node) == [j \in DOMAIN ns \cup {i} |-> IF j = i THEN node ELSE ns[j]]
RemoveNode(ns, i)       == [j \in DOMAIN ns \ {i} |-> ns[j]]

FitsBefore(add) == used <= Limit   (* mutant: the new bytes are not counted *)
Fits(add) == used + add <= Limit

-----------------------------------------------------------------------------
(* Creation. *)

(* The table with the new inode i named n in p.                            *)
Grown(ns, i, node, p, n) ==
  LET es == InsertEntry(InsertNode(ns, i, node), p, n, i)
  IN  IF node.kind = "dir" THEN [es EXCEPT ![p].nlink = @ + 1] ELSE es

AllocateReusing(node, p, n) ==  (* mutant: a number that is free again is given out *)
  LET i == CHOOSE j \in 1..next : j \notin DOMAIN nodes
  IN  /\ next <= MaxIno
      /\ Vacant(nodes, p, n)
      /\ next' = next + 1
      /\ nodes' = Grown(nodes, i, node, p, n)

Allocate(node, p, n) ==
  /\ next <= MaxIno
  /\ Vacant(nodes, p, n)
  /\ next' = next + 1
  /\ nodes' = Grown(nodes, next, node, p, n)

Mkdir(p, n) ==
  /\ Allocate(NewDir(p), p, n)
  /\ UNCHANGED used

Create(p, n) ==
  /\ Allocate(NewFile(0), p, n)
  /\ UNCHANGED used

Symlink(p, n, t) ==
  /\ Fits(Len(t.comps))
  /\ Allocate(NewSymlink(t), p, n)
  /\ used' = used + Len(t.comps)

Link(i, p, n) ==
  /\ IsLeaf(nodes, i)
  /\ nodes[i].nlink < MaxLinks
  /\ Vacant(nodes, p, n)
  /\ nodes' = [InsertEntry(nodes, p, n, i) EXCEPT ![i].nlink = @ + 1]
  /\ UNCHANGED << next, used >>

-----------------------------------------------------------------------------
(* Removal. *)

RmdirInParent(ns, p, n) ==     (* mutant: the parent keeps its link count *)
  RemoveNode(RemoveEntry(ns, p, n), ChildIno(ns, p, n))

(* What rmdir and unlink leave of the table, and what unlink frees.        *)
AfterRmdir(ns, p, n) ==
  LET gone == RemoveNode(RemoveEntry(ns, p, n), ChildIno(ns, p, n))
  IN  [gone EXCEPT ![p].nlink = @ - 1]

AfterUnlink(ns, p, n) ==
  LET i  == ChildIno(ns, p, n)
      ls == [RemoveEntry(ns, p, n) EXCEPT ![i].nlink = @ - 1]
  IN  IF ls[i].nlink = 0 THEN RemoveNode(ls, i) ELSE ls

FreedByName(ns, p, n) ==       (* mutant: each name frees the bytes *)
  ns[ChildIno(ns, p, n)].len

FreedBy(ns, p, n) ==
  LET i == ChildIno(ns, p, n) IN IF ns[i].nlink <= 1 THEN ns[i].len ELSE 0

CanRmdirAny(ns, p, n) ==       (* mutant: a directory need not be empty *)
  Occupied(ns, p, n) /\ IsDir(ns, ChildIno(ns, p, n))

CanRmdir(ns, p, n) ==
  /\ Occupied(ns, p, n)
  /\ IsDir(ns, ChildIno(ns, p, n))
  /\ ns[ChildIno(ns, p, n)].entries = NoNames

CanUnlink(ns, p, n) == Occupied(ns, p, n) /\ IsLeaf(ns, ChildIno(ns, p, n))

Rmdir(p, n) ==
  /\ CanRmdir(nodes, p, n)
  /\ nodes' = AfterRmdir(nodes, p, n)
  /\ UNCHANGED << next, used >>

Unlink(p, n) ==
  /\ CanUnlink(nodes, p, n)
  /\ nodes' = AfterUnlink(nodes, p, n)
  /\ used' = used - FreedBy(nodes, p, n)
  /\ UNCHANGED next

-----------------------------------------------------------------------------
(* Contents. *)

Resize(i, l) ==
  /\ nodes' = [nodes EXCEPT ![i].len = l]
  /\ used' = (used + l) - nodes[i].len
  /\ UNCHANGED next

Write(i, offset, l) ==
  LET end == IF offset + l > nodes[i].len THEN offset + l ELSE nodes[i].len
  IN  /\ Fits(end - nodes[i].len)
      /\ Resize(i, end)

Truncate(i, size) ==
  /\ size > nodes[i].len => Fits(size - nodes[i].len)
  /\ Resize(i, size)

(* setattr with a size; of the rest of an inode's attributes it changes    *)
(* only what is left out here.                                             *)
Setattr(i, size) == nodes[i].kind = "file" /\ Truncate(i, size)

(* read: how much of what is asked for there is.                           *)
ReadLen(node, offset, size) ==
  IF offset > node.len THEN 0
  ELSE IF offset + size > node.len THEN node.len - offset ELSE size

-----------------------------------------------------------------------------
(* Path resolution. *)

(* Fs.step; 0 stands for any error.                                        *)
Step(ns, i, c) ==
  IF c = DotDot THEN IF ns[i].parent = NoParent THEN Root ELSE ns[i].parent
  ELSE IF Occupied(ns, i, c) THEN ChildIno(ns, i, c) ELSE 0

LinkPathFromRoot(prefix, target) ==  (* mutant: every target is absolute *)
  target.comps

(* What a symlink at the end of prefix is replaced by: an absolute target, *)
(* or a relative one below the path as it was written up to the symlink.   *)
LinkPath(prefix, target) ==
  IF target.abs THEN target.comps ELSE prefix \o target.comps

(* resolve_inner at one depth: where comps leads, 0 after an error.  A      *)
(* symlink on the way, and one at the end that is followed, is resolved    *)
(* as deeper tells.                                                        *)
Along(ns, comps, follow, deeper) ==
  LET at[k \in 0..Len(comps)] ==
        IF k = 0 THEN Root
        ELSE LET to == IF at[k - 1] = 0 THEN 0 ELSE Step(ns, at[k - 1], comps[k])
             IN  IF to # 0 /\ (k < Len(comps) \/ follow) /\ ns[to].kind = "symlink"
                   THEN deeper[LinkPath(SubSeq(comps, 1, k - 1), ns[to].target)]
                   ELSE to
  IN  at[Len(comps)]

(* resolve_inner from depth 0: the inode at a list of components, 0 when   *)
(* there is none or symlinks nest deeper than the limit.                   *)
Resolve(ns, comps, followFinal) ==
  LET inner[depth \in Nat] ==
        [cs \in Comps |-> IF depth > MaxHops THEN 0 ELSE Along(ns, cs, TRUE, inner[depth + 1])]
  IN  Along(ns, comps, followFinal, inner[1])

(* read_path: the length read, in a set that is empty after an error.      *)
ReadPath(ns, comps) ==
  {ReadLen(ns[i], 0, ns[i].len) :
     i \in {j \in DOMAIN ns : ns[j].kind = "file" /\ j = Resolve(ns, comps, TRUE)}}

-----------------------------------------------------------------------------
(* The daemon's own write, devdev_fs_write: mkdir_p of the parent and then *)
(* write_path, under one lock.  Each may fail half-way: directories made   *)
(* stay, and a file is emptied before its new content turns out too long.  *)
(* disk is the table, the next number, the bytes used and the inode        *)
(* reached, 0 after an error.                                              *)

MkdirStep(disk, c) ==
  IF disk.at = 0 THEN disk
  ELSE IF c = DotDot THEN [disk EXCEPT !.at = Step(disk.nodes, disk.at, c)]
  ELSE IF Occupied(disk.nodes, disk.at, c) THEN
         LET i == ChildIno(disk.nodes, disk.at, c)
         IN  [disk EXCEPT !.at = IF IsDir(disk.nodes, i) THEN i ELSE 0]
  ELSE [disk EXCEPT !.nodes = Grown(@, disk.next, NewDir(disk.at), disk.at, c),
                    !.next = @ + 1, !.at = disk.next]

MkdirP(comps) ==
  LET disk[k \in 0..Len(comps)] ==
        IF k = 0 THEN [nodes |-> nodes, next |-> next, used |-> used, at |-> Root]
                 ELSE MkdirStep(disk[k - 1], comps[k])
  IN  disk[Len(comps)]

FileLen(old, l) ==             (* mutant: the file is not emptied first *)
  IF l > old THEN l ELSE old
NewLen(old, l) == l

WritePath(disk, comps, l) ==
  LET p     == Resolve(disk.nodes, Front(comps), TRUE)
      n     == Last(comps)
      i     == ChildIno(disk.nodes, p, n)
      old   == disk.nodes[i].len
      write == [disk EXCEPT !.nodes[i].len = NewLen(old, l), !.at = i,
                            !.used = (disk.used + NewLen(old, l)) - old]
      empty == [disk EXCEPT !.nodes[i].len = 0, !.used = @ - old, !.at = 0]
  IN  IF n = DotDot THEN [disk EXCEPT !.at = 0]
      ELSE IF Occupied(disk.nodes, p, n) THEN
             IF disk.nodes[i].kind # "file" THEN [disk EXCEPT !.at = 0]
             ELSE IF write.used <= Limit THEN write ELSE empty
      ELSE IF IsDir(disk.nodes, p) THEN
             LET fits == disk.used + l <= Limit
                 len  == IF fits THEN l ELSE 0
             IN  [nodes |-> Grown(disk.nodes, disk.next, NewFile(len), p, n),
                  next  |-> disk.next + 1, used |-> disk.used + len,
                  at    |-> IF fits THEN disk.next ELSE 0]
      ELSE [disk EXCEPT !.at = 0]

Written(comps, l) ==
  LET dirs == MkdirP(Front(comps))
  IN  IF dirs.at = 0 THEN dirs ELSE WritePath(dirs, comps, l)

FsWrite(comps, l) ==
  LET disk == Written(comps, l)
  IN  /\ disk.next <= MaxIno + 1
      /\ nodes' = disk.nodes
      /\ next' = disk.next
      /\ used' = disk.used

-----------------------------------------------------------------------------
(* rename *)

(* is_ancestor_or_self climbs the parent pointers for as many steps as     *)
(* there are inodes.                                                       *)
Climb(ns, i) ==
  LET up[k \in 0..MaxIno] == IF k = 0 THEN i ELSE ns[up[k - 1]].parent
  IN  {up[k] : k \in 0..Cardinality(DOMAIN ns)}

IsAncestorDirect(ns, a, d) ==  (* mutant: looks one step up only *)
  a = d \/ ns[d].parent = a

IsAncestorOrSelf(ns, a, d) == a \in Climb(ns, d)

MovedStale(ns, p, n, q, m, src) ==  (* mutant: the parent pointer stays *)
  LET ms == InsertEntry(RemoveEntry(ns, p, n), q, m, src)
  IN  IF ms[src].kind # "dir" \/ p = q THEN ms
      ELSE [ms EXCEPT ![p].nlink = @ - 1, ![q].nlink = @ + 1]

(* The source moves onto a name that is free or has just been made so.     *)
Moved(ns, p, n, q, m, src) ==
  LET ms == InsertEntry(RemoveEntry(ns, p, n), q, m, src)
  IN  IF ms[src].kind # "dir" THEN ms
      ELSE LET ds == [ms EXCEPT ![src].parent = q]
           IN  IF p = q THEN ds
               ELSE [ds EXCEPT ![p].nlink = @ - 1, ![q].nlink = @ + 1]

Rename(p, n, q, m) ==
  LET src == ChildIno(nodes, p, n)
      dst == ChildIno(nodes, q, m)
  IN  /\ << p, n >> # << q, m >>
      /\ Occupied(nodes, p, n)
      /\ IsDir(nodes, q)
      /\ IsDir(nodes, src) => ~IsAncestorOrSelf(nodes, src, q)
      /\ \/ /\ Vacant(nodes, q, m)
            /\ nodes' = Moved(nodes, p, n, q, m, src)
            /\ UNCHANGED used
         \/ /\ Occupied(nodes, q, m) /\ dst = src
            /\ nodes' = RemoveEntry(nodes, p, n)
            /\ UNCHANGED used
         \/ /\ CanRmdir(nodes, q, m) /\ dst # src /\ IsDir(nodes, src)
            /\ nodes' = Moved(AfterRmdir(nodes, q, m), p, n, q, m, src)
            /\ UNCHANGED used
         \/ /\ CanUnlink(nodes, q, m) /\ dst # src /\ IsLeaf(nodes, src)
            /\ nodes' = Moved(AfterUnlink(nodes, q, m), p, n, q, m, src)
            /\ used' = used - FreedBy(nodes, q, m)
      /\ UNCHANGED next

-----------------------------------------------------------------------------
(* from_snapshot: parents are not stored; a directory's is the directory   *)
(* that has an entry for it.                                               *)
RestoredParent(ns, i) ==
  LET holders == {d \in DOMAIN ns : \E n \in DOMAIN ns[d].entries : ns[d].entries[n] = i}
  IN  IF ns[i].kind # "dir" THEN NoParent
      ELSE IF i = Root THEN Root
      ELSE IF holders = {} THEN NoParent
      ELSE CHOOSE d \in holders : TRUE

Restored(ns) == [i \in DOMAIN ns |-> [ns[i] EXCEPT !.parent = RestoredParent(ns, i)]]

Init ==
  /\ nodes = [i \in {Root} |-> NewDir(Root)]
  /\ next = 2
  /\ used = 0

Next ==
  \/ \E p \in DOMAIN nodes, n \in Names :
       \/ Mkdir(p, n) \/ Create(p, n) \/ Rmdir(p, n) \/ Unlink(p, n)
       \/ \E t \in Targets : Symlink(p, n, t)
       \/ \E i \in DOMAIN nodes : Link(i, p, n)
       \/ \E q \in DOMAIN nodes, m \in Names : Rename(p, n, q, m)
  \/ \E i \in DOMAIN nodes : nodes[i].kind = "file" /\
       \/ \E size \in 0..Limit + 1 : Setattr(i, size)
       \/ \E offset \in 0..Limit, l \in 1..Limit + 1 : Write(i, offset, l)
  \/ \E comps \in Paths, l \in 1..Limit + 1 : FsWrite(comps, l)

Spec == Init /\ [][Next]_vars

-----------------------------------------------------------------------------
(* The names of inode i: a directory and an entry of it.                   *)
Holders(ns, i) == {h \in (DOMAIN ns) \X Names :
                     h[2] \in DOMAIN ns[h[1]].entries /\ ns[h[1]].entries[h[2]] = i}

Subdirs(ns, d) == {n \in DOMAIN ns[d].entries : ns[ns[d].entries[n]].kind = "dir"}

(* The lengths of the inodes below number nx, added up.                    *)
Bytes(ns, nx) ==
  LET sum[k \in 0..nx - 1] ==
        IF k = 0 THEN 0 ELSE sum[k - 1] + (IF k \in DOMAIN ns THEN ns[k].len ELSE 0)
  IN  sum[nx - 1]

(* The directories form a tree: each but the root is named once, in the    *)
(* directory its parent pointer says, and climbing from it reaches the     *)
(* root; no entry names an inode that is gone.  No order of renames makes  *)
(* a loop, detaches a directory or leaves a stale parent pointer.          *)
TreeShape ==
  \A i \in DOMAIN nodes :
    /\ \A n \in DOMAIN nodes[i].entries : nodes[i].entries[n] \in DOMAIN nodes \ {Root}
    /\ nodes[i].kind = "dir" =>
         /\ Root \in Climb(nodes, i)
         /\ i # Root => {h[1] : h \in Holders(nodes, i)} = {nodes[i].parent} /\ Cardinality(Holders(nodes, i)) = 1

(* A directory's link count is two and one for each subdirectory; a file   *)
(* or symlink has at least as many links as names, so that it is not freed *)
(* while a name is left.                                                   *)
LinkCounts ==
  \A i \in DOMAIN nodes :
    IF nodes[i].kind = "dir"
      THEN nodes[i].nlink = 2 + Cardinality(Subdirs(nodes, i))
      ELSE nodes[i].nlink >= Cardinality(Holders(nodes, i))

(* bytes_used is the bytes of the files and symlinks there are: no order   *)
(* of links, overwriting renames and failed writes counts any of them      *)
(* twice or not at all.                                                    *)
BytesExact == used = Bytes(nodes, next)

(* A snapshot brings back the filesystem it was taken of, parent pointers  *)
(* included, though it does not store them.                                *)
RestoreIsIdentity == Restored(nodes) = nodes

(* What a walk from the root finds that replaces each symlink it meets by  *)
(* its target, at most hops of them.                                       *)
Walk(ns, comps, hops) ==
  LET walk[i \in Inos, cs \in Comps, left \in Nat] ==
        IF cs = << >> THEN i
        ELSE LET to == Step(ns, i, Head(cs))
             IN  CASE to = 0 -> 0
                   [] to # 0 /\ ns[to].kind # "symlink" -> walk[to, Tail(cs), left]
                   [] OTHER ->
                        IF left = 0 THEN 0
                        ELSE walk[IF ns[to].target.abs THEN Root ELSE i,
                                  ns[to].target.comps \o Tail(cs), left - 1]
  IN  walk[Root, comps, hops]

(* Resolving a path finds what a walk finds, through symlinks to symlinks, *)
(* relative targets below other symlinks and "..": the code resolves a     *)
(* relative target again from the root along the path as it was written.   *)
(* Only past the limit may it give up where a longer walk would not.       *)
ResolveIsWalk ==
  \A comps \in Paths :
    LET found == Resolve(nodes, comps, TRUE)
        w     == Walk(nodes, comps, MaxHops)
    IN  IF w # 0 THEN found = w ELSE found \in {0, Walk(nodes, comps, 4 * MaxHops)}

(* What devdev_fs_write reports as written, fs/read finds at that path     *)
(* with that length, whatever was there before.                            *)
WrittenReadsBack ==
  \A comps \in Paths :
    LET disk == Written(comps, 1)
    IN  disk.at # 0 => ReadPath(disk.nodes, comps) = {1}

=============================================================================
