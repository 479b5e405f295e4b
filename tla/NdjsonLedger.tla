---------------------------- MODULE NdjsonLedger ----------------------------
(***************************************************************************)
(* The file-backed idempotency ledger                                      *)
(* (crates/devdev-daemon/src/ledger.rs): an append-only file of one JSON   *)
(* line per record and an index of it in memory.                           *)
(*                                                                         *)
(* record() opens, appends and syncs without the lock and takes it only    *)
(* for the index; prune() holds the lock, writes the surviving entries to  *)
(* a temporary file and renames that over the ledger; seen() asks the      *)
(* index.  A crash keeps what was synced and any prefix of the rest.       *)
(***************************************************************************)
EXTENDS Naturals, Sequences, FiniteSets

CONSTANTS
  Keys,            (* ledger keys                                          *)
  Workers,         (* tasks that call record                               *)
  PruneConcurrent, (* may prune run while records are under way?           *)
  TornWrites,      (* may a write stop in the middle of a line?            *)
  MaxTime,         (* bound on the clock                                   *)
  MaxLines,        (* bound on the file's lines                            *)
  MaxCrashes       (* bound on crashes                                     *)

ASSUME LedgerAssumption ==
  /\ PruneConcurrent \in BOOLEAN
  /\ TornWrites \in BOOLEAN
  /\ MaxTime \in Nat
  /\ MaxLines \in Nat
  /\ MaxCrashes \in Nat

VARIABLES
  file,     (* the lines of ledger.ndjson                                  *)
  synced,   (* how many of them have reached the disk                      *)
  index,    (* NdjsonInner.index: the time of each key                     *)
  worker,   (* the record call of each worker; linked: its file is the one *)
            (* the ledger's name stands for, not one that was renamed over *)
  pruner,   (* the prune call, which holds the lock while it is not idle   *)
  up,       (* is the ledger open?                                         *)
  now,      (* the clock, in units of what a prune tells apart             *)
  crashes

vars == << file, synced, index, worker, pruner, up, now, crashes >>

Times   == 0..MaxTime
Timed   == UNION {[S -> Times] : S \in SUBSET Keys}
Entries == [key : Keys, at : Times]
Torn    == [torn |-> "no newline"]      (* the part of a line a write left *)
Garbage == [torn |-> "glued"]           (* such a part and a line after it *)

Idle   == [pc |-> "idle"]
Busy   == [pc : {"open", "write", "sync", "index"}, entry : Entries, linked : BOOLEAN]
NoKeys == [k \in {} |-> 0]

TypeOK ==
  /\ file \in Seq(Entries \cup {Torn, Garbage})
  /\ synced \in 0..Len(file)
  /\ index \in Timed
  /\ worker \in [Workers -> Busy \cup {Idle}]
  /\ pruner \in {Idle} \cup [pc : {"rename", "index"}, survivors : Timed]
  /\ up \in BOOLEAN
  /\ now \in Times
  /\ crashes \in 0..MaxCrashes

With(f, k, t)  == [j \in DOMAIN f \cup {k} |-> IF j = k THEN t ELSE f[j]]

(* What open() makes of a file: the last line of a key counts.             *)
Parsed(lines) ==
  LET at(k) == {n \in DOMAIN lines : lines[n] \in Entries /\ lines[n].key = k}
      last(k) == CHOOSE n \in at(k) : \A m \in at(k) : m <= n
  IN  [k \in {j \in Keys : at(j) # {}} |-> lines[last(k)].at]

Malformed(lines) == \E n \in DOMAIN lines : lines[n] \in {Torn, Garbage}

(* An appended line continues a torn one.                                  *)
AppendLineTruncates(lines, line) == << line >>      (* mutant: opened to truncate *)

AppendLine(lines, line) ==
  IF lines # << >> /\ lines[Len(lines)] = Torn
    THEN [lines EXCEPT ![Len(lines)] = IF line = Torn THEN Torn ELSE Garbage]
    ELSE Append(lines, line)

Recording == {w \in Workers : worker[w] # Idle}

-----------------------------------------------------------------------------
(* record *)

Record(w, k) ==
  /\ up
  /\ worker[w] = Idle
  /\ PruneConcurrent \/ pruner = Idle
  /\ Len(file) + Cardinality(Recording) < MaxLines
  /\ worker' = [worker EXCEPT ![w] =
                  [pc |-> "open", entry |-> [key |-> k, at |-> now], linked |-> FALSE]]
  /\ UNCHANGED << file, synced, index, pruner, up, now, crashes >>

OpenFile(w) ==
  /\ worker[w].pc = "open"
  /\ worker' = [worker EXCEPT ![w] =
                  [pc |-> "write", entry |-> worker[w].entry, linked |-> TRUE]]
  /\ UNCHANGED << file, synced, index, pruner, up, now, crashes >>

(* A write to a file that was renamed over is a write nobody will read.    *)
WriteLine(w) ==
  /\ worker[w].pc = "write"
  /\ \/ /\ worker' = [worker EXCEPT ![w].pc = "sync"]
        /\ file' = IF worker[w].linked THEN AppendLine(file, worker[w].entry) ELSE file
     \/ /\ worker' = [worker EXCEPT ![w] = Idle]       (* an I/O error *)
        /\ file' \in {file} \cup IF TornWrites /\ worker[w].linked
                                   THEN {AppendLine(file, Torn)}
                                   ELSE {}
  /\ UNCHANGED << synced, index, pruner, up, now, crashes >>

SyncNothing(w) ==              (* mutant: the append is not synced *)
  /\ worker[w].pc = "sync"
  /\ worker' = [worker EXCEPT ![w].pc = "index"]
  /\ UNCHANGED << file, synced, index, pruner, up, now, crashes >>

SyncFile(w) ==
  /\ worker[w].pc = "sync"
  /\ \/ /\ worker' = [worker EXCEPT ![w].pc = "index"]
        /\ synced' = IF worker[w].linked THEN Len(file) ELSE synced
     \/ /\ worker' = [worker EXCEPT ![w] = Idle]       (* an I/O error *)
        /\ UNCHANGED synced
  /\ UNCHANGED << file, index, pruner, up, now, crashes >>

InsertKey(w) ==
  /\ worker[w].pc = "index"
  /\ pruner = Idle
  /\ index' = With(index, worker[w].entry.key, worker[w].entry.at)
  /\ worker' = [worker EXCEPT ![w] = Idle]
  /\ UNCHANGED << file, synced, pruner, up, now, crashes >>

-----------------------------------------------------------------------------
(* prune *)

PruneStart(cutoff) ==
  /\ up
  /\ pruner = Idle
  /\ PruneConcurrent \/ Recording = {}
  /\ pruner' = [pc |-> "rename",
                survivors |-> [k \in {j \in DOMAIN index : index[j] >= cutoff} |-> index[k]]]
  /\ UNCHANGED << file, synced, index, worker, up, now, crashes >>

(* The temporary file, written and synced, takes the ledger's name; or one *)
(* of these calls fails, and nothing has changed.                          *)
PruneRename ==
  /\ pruner.pc = "rename"
  /\ \/ /\ file' \in {f \in [1..Cardinality(DOMAIN pruner.survivors) -> Entries] :
                        /\ Parsed(f) = pruner.survivors }
        /\ synced' = Len(file')
        /\ worker' = [w \in Workers |->
                        IF w \in Recording THEN [worker[w] EXCEPT !.linked = FALSE] ELSE Idle]
        /\ pruner' = [pruner EXCEPT !.pc = "index"]
     \/ /\ pruner' = Idle
        /\ UNCHANGED << file, synced, worker >>
  /\ UNCHANGED << index, up, now, crashes >>

PruneIndexToNow ==             (* mutant: survivors are as good as new *)
  /\ pruner.pc = "index"
  /\ index' = [k \in DOMAIN pruner.survivors |-> now]
  /\ pruner' = Idle
  /\ UNCHANGED << file, synced, worker, up, now, crashes >>

PruneIndex ==
  /\ pruner.pc = "index"
  /\ index' = pruner.survivors
  /\ pruner' = Idle
  /\ UNCHANGED << file, synced, worker, up, now, crashes >>

-----------------------------------------------------------------------------
(* Crashes and open. *)

SurvivingFiles ==
  {SubSeq(file, 1, n) : n \in synced..Len(file)}
    \cup IF TornWrites
           THEN {Append(SubSeq(file, 1, n), Torn) : n \in synced..Len(file) - 1}
           ELSE {}

Crash ==
  /\ up
  /\ crashes < MaxCrashes
  /\ crashes' = crashes + 1
  /\ up' = FALSE
  /\ file' \in SurvivingFiles
  /\ synced' = Len(file')
  /\ index' = NoKeys
  /\ worker' = [w \in Workers |-> Idle]
  /\ pruner' = Idle
  /\ UNCHANGED now

(* A malformed line is an error, and the daemon does not start.            *)
Open ==
  /\ ~up
  /\ ~Malformed(file)
  /\ index' = Parsed(file)
  /\ up' = TRUE
  /\ UNCHANGED << file, synced, worker, pruner, now, crashes >>

(* A record is short against the ages a prune tells apart.                 *)
Tick ==
  /\ now < MaxTime
  /\ Recording = {}
  /\ now' = now + 1
  /\ UNCHANGED << file, synced, index, worker, pruner, up, crashes >>

Init ==
  /\ file = << >>
  /\ synced = 0
  /\ index = NoKeys
  /\ worker = [w \in Workers |-> Idle]
  /\ pruner = Idle
  /\ up = TRUE
  /\ now = 0
  /\ crashes = 0

RecordStep(w) == OpenFile(w) \/ WriteLine(w) \/ SyncFile(w) \/ InsertKey(w)

Next ==
  \/ \E w \in Workers : RecordStep(w) \/ \E k \in Keys : Record(w, k)
  \/ (\E cutoff \in Times : cutoff <= now /\ PruneStart(cutoff))
  \/ PruneRename \/ PruneIndex
  \/ Crash \/ Open
  \/ Tick

Spec == Init /\ [][Next]_vars

-----------------------------------------------------------------------------
(* Whatever seen() answers yes for is in the part of the file a crash      *)
(* keeps: an acknowledged record is seen after any restart.                *)
SeenIsDurable ==
  up /\ pruner = Idle =>
    \A k \in DOMAIN index : \E n \in 1..synced :
      file[n] \in Entries /\ file[n].key = k

(* seen(), record(), prune() and restarts as the trait promises them.      *)
FileIsTruth == ~up \/ pruner.pc = "index"
Known == IF FileIsTruth THEN Parsed(file) ELSE index
Limbo == IF FileIsTruth
           THEN {}
           ELSE {worker[w].entry.key : w \in Recording}
                  \cup {k \in DOMAIN Parsed(file) :
                          k \notin DOMAIN index \/ Parsed(file)[k] # index[k]}

Promise == INSTANCE SeenStore WITH known <- Known, limbo <- Limbo
Implements == Promise!Spec

=============================================================================
