------------------------------ MODULE Drivers ------------------------------
(***************************************************************************)
(* The mounted workspace: the kernel's requests as the WinFSP driver       *)
(* (driver/winfsp.rs) and the FUSE driver (driver/fuse.rs) turn them into  *)
(* operations of the in-memory filesystem.  One of the two is compiled.    *)
(*                                                                         *)
(* The kernel is external.  It keeps the path of an open WinFSP file up to *)
(* date when it is renamed (the path a callback gets), deletes a file at   *)
(* the clean-up of the handle it was to be deleted through while others    *)
(* stay open (the volume supports POSIX unlink and rename), and never      *)
(* sends a FUSE rename between two names of one file.                      *)
(***************************************************************************)
EXTENDS MemFs, Ordered

CONSTANTS
  Handles,   (* bound: files open at a time                                *)
  PageSize   (* bound: entries of a directory a reply has room for         *)

ASSUME DriversAssumption == PageSize \in Nat \ {0}

VARIABLES
  platform,  (* the driver that was compiled                               *)
  handles,   (* open files: inode number (the FileContext), path, and      *)
             (* whether the clean-up is to delete                          *)
  listing    (* a directory being read page by page                        *)

dvars == << vars, platform, handles, listing >>

Handle  == [ino : Inos, path : Comps, del : BOOLEAN]
NoList  == [state |-> "none", dir |-> Root, at |-> 0, seen |-> {}, kept |-> {}, shaken |-> FALSE]
Listing == [state : {"none", "reading", "done"}, dir : Inos, at : Nat,
            seen : SUBSET Names, kept : SUBSET Names, shaken : BOOLEAN]

(* A handle means a number that a file can have, by a path made of         *)
(* components, and a listing holds names only: no request that failed      *)
(* leaves a handle behind.                                                 *)
DriversTypeOK ==
  /\ TypeOK
  /\ platform \in {"winfsp", "fuse"}
  /\ DOMAIN handles \subseteq Handles
  /\ \A h \in DOMAIN handles : handles[h] \in Handle
  /\ listing \in Listing

Opened(h, i, path) ==
  [g \in DOMAIN handles \cup {h} |->
     IF g = h THEN [ino |-> i, path |-> path, del |-> FALSE] ELSE handles[g]]
Closed(h) == [g \in DOMAIN handles \ {h} |-> handles[g]]

Parent(path) == Resolve(nodes, Front(path), FALSE)

-----------------------------------------------------------------------------
(* WinFSP: files are opened by path and used by inode number. *)

WinOpen(h, path) ==
  /\ h \notin DOMAIN handles
  /\ Resolve(nodes, path, FALSE) \in DOMAIN nodes
  /\ handles' = Opened(h, Resolve(nodes, path, FALSE), path)
  /\ UNCHANGED vars

(* cb_create: a directory when FILE_DIRECTORY_FILE is asked for.           *)
WinCreate(h, path, wantDir) ==
  /\ h \notin DOMAIN handles
  /\ path # << >> /\ Last(path) # DotDot
  /\ IF wantDir THEN Mkdir(Parent(path), Last(path)) ELSE Create(Parent(path), Last(path))
  /\ handles' = Opened(h, next, path)

(* cb_set_file_size, cb_overwrite (a create that replaces a file) and      *)
(* cb_write; all fail once the inode is gone.                              *)
WinSetSize(h, size) ==
  LET i == handles[h].ino
  IN  /\ i \in DOMAIN nodes
      /\ Setattr(i, size)
      /\ UNCHANGED handles

WinOverwrite(h) ==
  LET i == handles[h].ino
  IN  /\ i \in DOMAIN nodes
      /\ Setattr(i, 0)
      /\ UNCHANGED handles

WinWrite(h, offset, l) ==
  LET i == handles[h].ino
  IN  /\ i \in DOMAIN nodes /\ nodes[i].kind = "file"
      /\ Write(i, offset, l)
      /\ UNCHANGED handles

(* cb_can_delete lets the kernel mark the handle.                          *)
WinCanDelete(h) ==
  LET i == handles[h].ino
  IN  /\ ~handles[h].del
      /\ i \in DOMAIN nodes
      /\ nodes[i].entries = NoNames
      /\ handles' = [handles EXCEPT ![h].del = TRUE]
      /\ UNCHANGED vars

CleanupByName(h) ==            (* mutant: the handle's inode is not looked at *)
  LET path == handles[h].path
      p    == Parent(path)
  IN  IF path = << >> \/ p = 0 THEN UNCHANGED vars
      ELSE IF CanRmdir(nodes, p, Last(path)) THEN Rmdir(p, Last(path))
      ELSE IF CanUnlink(nodes, p, Last(path)) THEN Unlink(p, Last(path))
      ELSE UNCHANGED vars

(* What cb_cleanup deletes: the name it is given, if the handle's inode is *)
(* still there, by the operation for the inode's kind; errors are dropped. *)
CleanupDelete(h) ==
  LET path == handles[h].path
      i    == handles[h].ino
      p    == Parent(path)
  IN  IF path = << >> \/ p = 0 \/ i \notin DOMAIN nodes THEN UNCHANGED vars
      ELSE IF nodes[i].kind = "dir"
        THEN IF CanRmdir(nodes, p, Last(path)) THEN Rmdir(p, Last(path)) ELSE UNCHANGED vars
        ELSE IF CanUnlink(nodes, p, Last(path)) THEN Unlink(p, Last(path)) ELSE UNCHANGED vars

(* cb_cleanup, and cb_close, which does nothing.                           *)
WinCleanup(h) ==
  /\ IF handles[h].del THEN CleanupDelete(h) ELSE UNCHANGED vars
  /\ handles' = Closed(h)

(* The kernel's file names after old has become new.                       *)
Followed(path, old, new) ==
  IF IsPrefix(old, path) THEN new \o SubSeq(path, Len(old) + 1, Len(path)) ELSE path

(* cb_rename replaces what is there, whatever the request's replace flag.  *)
WinRename(h, to) ==
  LET from == handles[h].path
  IN  /\ from # << >> /\ to # << >> /\ Last(to) # DotDot
      /\ handles[h].ino \in DOMAIN nodes
      /\ Parent(from) # 0 /\ Parent(to) # 0
      /\ Rename(Parent(from), Last(from), Parent(to), Last(to))
      /\ handles' = [g \in DOMAIN handles |->
                       IF handles[g].ino \in DOMAIN nodes
                         THEN [handles[g] EXCEPT !.path = Followed(@, from, to)]
                         ELSE handles[g]]

WinFsp ==
  \E h \in Handles :
    \/ \E path \in Paths :
         WinOpen(h, path) \/ \E wantDir \in BOOLEAN : WinCreate(h, path, wantDir)
    \/ /\ h \in DOMAIN handles
       /\ \/ \E size \in 0..Limit : WinSetSize(h, size)
          \/ WinOverwrite(h)
          \/ \E offset \in 0..Limit : WinWrite(h, offset, 1)
          \/ WinCanDelete(h)
          \/ WinCleanup(h)
          \/ \E to \in Paths : WinRename(h, to)

-----------------------------------------------------------------------------
(* FUSE: everything goes by inode number; open and release do nothing, and *)
(* a file is gone with its last name, open or not.  One open file at a     *)
(* time is the bound here: opens do not meet.                              *)

FuseOpen(h, i) ==
  /\ DOMAIN handles = {}
  /\ i \in DOMAIN nodes
  /\ handles' = Opened(h, i, << >>)
  /\ UNCHANGED vars

FuseRelease(h) ==
  /\ h \in DOMAIN handles
  /\ handles' = Closed(h)
  /\ UNCHANGED vars

FuseSetattr(i, size) == Setattr(i, size)
FuseWrite(i, offset, l) == nodes[i].kind = "file" /\ Write(i, offset, l)

FuseRename(p, n, q, m) ==
  /\ Occupied(nodes, p, n) /\ Occupied(nodes, q, m) => ChildIno(nodes, p, n) # ChildIno(nodes, q, m)
  /\ Rename(p, n, q, m)

FuseNames(p, n) ==
  \/ Mkdir(p, n) \/ Rmdir(p, n) \/ Create(p, n) \/ Unlink(p, n)
  \/ \E t \in Targets : Symlink(p, n, t)
  \/ \E i \in DOMAIN nodes : Link(i, p, n)
  \/ \E q \in DOMAIN nodes, m \in Names : FuseRename(p, n, q, m)

Fuse ==
  \/ \E h \in Handles : FuseRelease(h) \/ \E i \in DOMAIN nodes : FuseOpen(h, i)
  \/ /\ \/ \E p \in DOMAIN nodes, n \in Names : FuseNames(p, n)
        \/ \E i \in DOMAIN nodes :
             \/ \E size \in 0..Limit : FuseSetattr(i, size)
             \/ \E offset \in 0..Limit : FuseWrite(i, offset, 1)
     /\ UNCHANGED handles

-----------------------------------------------------------------------------
(* Reading a directory, in pages.  "." and ".." always come first and      *)
(* never change; they are left out.                                        *)

(* A directory's entries are a map's, in the order of their names.         *)
Entries(ns, d) == InOrder(DOMAIN ns[d].entries)

(* What is left to send: after the entry of the kernel's marker (WinFSP),  *)
(* which is nothing once that entry is gone, or from the offset the last   *)
(* reply gave (FUSE).                                                      *)
AfterMarker(all, marker) ==
  IF marker = 0 THEN all
  ELSE IF Contains(all, marker)
    THEN SubSeq(all, CHOOSE k \in 2..Len(all) + 1 : all[k - 1] = marker, Len(all))
    ELSE << >>

AfterOffsetSkipping(all, at) ==  (* mutant: an entry too far *)
  SubSeq(all, at + 2, Len(all))
AfterOffset(all, at) == SubSeq(all, at + 1, Len(all))

StartListing(d) ==
  /\ listing.state # "reading"
  /\ IsDir(nodes, d)
  /\ listing' = [NoList EXCEPT !.state = "reading", !.dir = d, !.kept = DOMAIN nodes[d].entries]
  /\ UNCHANGED << vars, platform, handles >>

(* cb_read_directory and readdir fill one reply.  The kernel asks again    *)
(* until WinFSP has sent all or FUSE sends nothing.                        *)
SendPage ==
  /\ listing.state = "reading"
  /\ IF ~IsDir(nodes, listing.dir) THEN listing' = NoList
     ELSE LET all  == Entries(nodes, listing.dir)
              rest == IF platform = "winfsp" THEN AfterMarker(all, listing.at)
                                             ELSE AfterOffset(all, listing.at)
              page == SubSeq(rest, 1, Min({PageSize, Len(rest)}))
              over == IF platform = "winfsp" THEN page = rest ELSE page = << >>
          IN  listing' = [listing EXCEPT
                            !.state = IF over THEN "done" ELSE @,
                            !.seen  = @ \cup ToSet(page),
                            !.at    = IF page = << >> THEN @
                                      ELSE IF platform = "winfsp" THEN Last(page)
                                      ELSE @ + Len(page)]
  /\ UNCHANGED << vars, platform, handles >>

(* The entries the listing has behind it that its position hangs on.       *)
Passed ==
  LET all == Entries(nodes, listing.dir)
  IN  IF platform = "winfsp" THEN {listing.at}
      ELSE ToSet(SubSeq(all, 1, Min({listing.at, Len(all)})))

(* What another request does to the listing under way: which entries have  *)
(* been there all along, and whether one its position hangs on was removed.*)
Watched ==
  IF listing.state = "done" THEN NoList
  ELSE IF listing.state = "reading" /\ IsDir(nodes, listing.dir) /\ IsDir(nodes', listing.dir)
    THEN LET gone == DOMAIN nodes[listing.dir].entries \ DOMAIN nodes'[listing.dir].entries
         IN  [listing EXCEPT !.kept = @ \ gone, !.shaken = @ \/ gone \cap Passed # {}]
    ELSE listing

-----------------------------------------------------------------------------
DriversInit ==
  /\ Init
  /\ platform \in {"winfsp", "fuse"}
  /\ handles = [h \in {} |-> 0]
  /\ listing = NoList

DriversNext ==
  \/ /\ IF platform = "winfsp" THEN WinFsp ELSE Fuse
     /\ listing' = Watched
     /\ UNCHANGED platform
  \/ \E d \in DOMAIN nodes : StartListing(d)
  \/ SendPage

DriversSpec == DriversInit /\ [][DriversNext]_dvars

-----------------------------------------------------------------------------
(* What a deletion through a handle removes is the file the handle was     *)
(* opened on, though the callback deletes by name: after renames, after a  *)
(* file replaced this one or took its name, it removes that or nothing.    *)
CleanupRemovesOwn ==
  [][\A h \in DOMAIN handles \ DOMAIN handles' :
       DOMAIN nodes \ DOMAIN nodes' \subseteq {handles[h].ino}]_dvars

(* A handle whose file is gone never comes to mean another file: nothing   *)
(* written through it lands elsewhere.                                     *)
GoneStaysGone ==
  [][\A h \in DOMAIN handles \cap DOMAIN handles' :
       /\ handles'[h].ino = handles[h].ino
       /\ handles[h].ino \notin DOMAIN nodes => handles[h].ino \notin DOMAIN nodes']_dvars

(* A directory read page by page shows every entry that was there from the *)
(* first request to the last, whatever else came and went, unless an entry *)
(* its position hangs on was removed.                                      *)
ListingComplete ==
  listing.state = "done" /\ ~listing.shaken => listing.kept \subseteq listing.seen

(* Through the mount nothing is left without a name: every inode that      *)
(* still counts against the limit can be reached and removed.              *)
NoOrphans == \A i \in DOMAIN nodes \ {Root} : Holders(nodes, i) # {}

=============================================================================
