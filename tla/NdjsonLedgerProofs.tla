-------------------------- MODULE NdjsonLedgerProofs --------------------------
(***************************************************************************)
(* Proofs about the file-backed ledger, for every set of keys and tasks    *)
(* and every bound: that its file is read back as the trait promises.      *)
(* They are about the ledger as the daemon uses it: prune does not run     *)
(* while records are under way, and a write that fails leaves no part of a *)
(* line.                                                                   *)
(***************************************************************************)
EXTENDS NdjsonLedger, FiniteSetTheorems, TLAPS

FiniteIndex ==
  /\ IsFiniteSet(DOMAIN index)
  /\ pruner # Idle => IsFiniteSet(DOMAIN pruner.survivors)

TypeInv == TypeOK /\ FiniteIndex

(* Nothing runs while the ledger is closed, and prune runs alone.          *)
Alone ==
  /\ ~up => Recording = {} /\ pruner = Idle /\ synced = Len(file)
  /\ pruner # Idle => Recording = {}

(* The lines of a key are in the order of their times.                     *)
InOrder(lines) ==
  \A m, n \in DOMAIN lines :
    m <= n /\ lines[m].key = lines[n].key => lines[m].at <= lines[n].at

FileOrdered ==
  /\ file \in Seq(Entries)
  /\ InOrder(file)
  /\ \A n \in DOMAIN file : file[n].at <= now

(* A record call has its line in the file from its write on, and on the    *)
(* disk when it comes to the index.                                        *)
LineWritten ==
  \A w \in Recording :
    /\ worker[w].entry.at = now
    /\ worker[w].pc # "open" => worker[w].linked
    /\ worker[w].pc = "sync" => \E n \in 1..Len(file) : file[n] = worker[w].entry
    /\ worker[w].pc = "index" => \E n \in 1..synced : file[n] = worker[w].entry

(* Every entry of the index is a line on the disk.                         *)
IndexOnDisk ==
  up /\ pruner.pc # "index" =>
    \A k \in DOMAIN index : \E n \in 1..synced : file[n] = [key |-> k, at |-> index[k]]

Survivors(cutoff) == [k \in {j \in DOMAIN index : index[j] >= cutoff} |-> index[k]]

(* What prune is about to write, and what it wrote.                        *)
Pruning ==
  /\ pruner.pc = "rename" =>
       \E cutoff \in Times : cutoff <= now /\ pruner.survivors = Survivors(cutoff)
  /\ pruner.pc = "index" => pruner.survivors = Parsed(file) /\ synced = Len(file)

LedgerInv == Alone /\ FileOrdered /\ LineWritten /\ IndexOnDisk /\ Pruning

-----------------------------------------------------------------------------
(* Reading a file. *)

(* A set of natural numbers has a least element.                           *)
LEMMA Smallest ==
  ASSUME NEW T \in SUBSET Nat, T # {}
  PROVE  \E x \in T : \A y \in T : x <= y
<1> DEFINE U == {1..x : x \in T}
<1>1. U \subseteq FiniteSubsetsOf(Nat) /\ U # {}
  <2>1. ASSUME NEW x \in T PROVE IsFiniteSet(1..x) /\ 1..x \subseteq Nat
    <3>1. x \in Int /\ 1 \in Int
      OBVIOUS
    <3> QED
      BY <3>1, FS_Interval
  <2> QED
    BY <2>1 DEF FiniteSubsetsOf
<1>2. PICK s \in U : \A t \in U : << t, s >> \notin StrictSubsetOrdering(Nat)
  BY <1>1, FS_StrictSubsetOrderingWellFounded, WFMin
<1>3. PICK x \in T : s = 1..x
  OBVIOUS
<1>4. ASSUME NEW y \in T, y < x PROVE FALSE
  <2>1. 1..y \in SUBSET Nat /\ 1..x \in SUBSET Nat
    OBVIOUS
  <2>2. 1..y \subseteq 1..x /\ 1..y # 1..x
    BY <1>4
  <2>3. 1..y \in U
    OBVIOUS
  <2> HIDE DEF U
  <2>4. << 1..y, 1..x >> \notin StrictSubsetOrdering(Nat)
    BY <1>2, <1>3, <2>3
  <2>5. << 1..y, 1..x >> \in StrictSubsetOrdering(Nat)
    BY <2>1, <2>2, Zenon DEF StrictSubsetOrdering
  <2> QED
    BY <2>4, <2>5
<1> QED
  BY <1>4

(* A bounded one has a greatest.                                           *)
LEMMA Largest ==
  ASSUME NEW n \in Nat, NEW T \in SUBSET (1..n), T # {}
  PROVE  \E x \in T : \A y \in T : y <= x
<1> DEFINE U == {m \in Nat : \A y \in T : y <= m}
<1>1. n \in U
  OBVIOUS
<1>2. PICK m \in U : \A k \in U : m <= k
  BY <1>1, Smallest
<1>3. CASE m \in T
  BY <1>2, <1>3
<1>4. CASE m \notin T
  <2>1. \A y \in T : y <= m - 1
    BY <1>2, <1>4
  <2>2. PICK y \in T : TRUE
    OBVIOUS
  <2>3. m - 1 \in U
    BY <1>2, <2>1, <2>2
  <2> QED
    BY <1>2, <2>3
<1> QED
  BY <1>3, <1>4

(* open() gives each key that has a line the time of its last one.         *)
LEMMA ParsedLast ==
  ASSUME NEW lines \in Seq(Entries)
  PROVE  /\ DOMAIN Parsed(lines) = {lines[n].key : n \in DOMAIN lines}
         /\ \A k \in DOMAIN Parsed(lines) :
              \E n \in DOMAIN lines :
                /\ lines[n].key = k /\ Parsed(lines)[k] = lines[n].at
                /\ \A m \in DOMAIN lines : lines[m].key = k => m <= n
<1> DEFINE at(k) == {n \in DOMAIN lines : lines[n] \in Entries /\ lines[n].key = k}
           last(k) == CHOOSE n \in at(k) : \A m \in at(k) : m <= n
<1>1. DOMAIN lines = 1..Len(lines) /\ Len(lines) \in Nat /\ \A n \in DOMAIN lines : lines[n] \in Entries
  OBVIOUS
<1>2. Parsed(lines) = [k \in {j \in Keys : at(j) # {}} |-> lines[last(k)].at]
  BY DEF Parsed
<1>3. {j \in Keys : at(j) # {}} = {lines[n].key : n \in DOMAIN lines}
  BY <1>1 DEF Entries
<1>4. ASSUME NEW k \in DOMAIN Parsed(lines)
      PROVE  \E n \in DOMAIN lines :
                /\ lines[n].key = k /\ Parsed(lines)[k] = lines[n].at
                /\ \A m \in DOMAIN lines : lines[m].key = k => m <= n
  <2>1. at(k) # {} /\ at(k) \in SUBSET (1..Len(lines)) /\ k \in {j \in Keys : at(j) # {}}
    BY <1>1, <1>2, <1>4
  <2>2. \E n \in at(k) : \A m \in at(k) : m <= n
    <3> HIDE DEF at
    <3> QED
      BY <1>1, <2>1, Largest
  <2>3. last(k) \in at(k) /\ \A m \in at(k) : m <= last(k)
    <3> HIDE DEF at
    <3> QED
      BY <2>2
  <2>4. Parsed(lines)[k] = lines[last(k)].at
    <3> HIDE DEF at, last
    <3> QED
      BY <1>2, <2>1
  <2> HIDE DEF last
  <2> QED
    BY <1>1, <2>3, <2>4
<1> HIDE DEF at, last
<1>5. DOMAIN Parsed(lines) = {lines[n].key : n \in DOMAIN lines}
  BY <1>2, <1>3
<1> QED
  BY <1>4, <1>5

(* So a key is read when it has a line,                                    *)
LEMMA ParsedKeys ==
  ASSUME NEW lines \in Seq(Entries), NEW k
  PROVE  k \in DOMAIN Parsed(lines) <=> \E n \in DOMAIN lines : lines[n].key = k
<1>1. DOMAIN Parsed(lines) = {lines[n].key : n \in DOMAIN lines}
  BY ParsedLast
<1> QED
  BY <1>1

(* and gets the time of the last of them.                                  *)
LEMMA ParsedTime ==
  ASSUME NEW lines \in Seq(Entries), NEW k \in DOMAIN Parsed(lines)
  PROVE  \E n \in DOMAIN lines :
           /\ lines[n].key = k /\ Parsed(lines)[k] = lines[n].at
           /\ \A m \in DOMAIN lines : lines[m].key = k => m <= n
<1>1. \A j \in DOMAIN Parsed(lines) :
        \E n \in DOMAIN lines :
          /\ lines[n].key = j /\ Parsed(lines)[j] = lines[n].at
          /\ \A m \in DOMAIN lines : lines[m].key = j => m <= n
  BY ParsedLast
<1> QED
  BY <1>1

(* What the lines of a file of entries are.                                *)
LEMMA EntryType ==
  ASSUME NEW lines \in Seq(Entries)
  PROVE  /\ DOMAIN lines = 1..Len(lines) /\ Len(lines) \in Nat
         /\ \A n \in DOMAIN lines :
              /\ lines[n].key \in Keys /\ lines[n].at \in Times
              /\ lines[n].key \in DOMAIN Parsed(lines)
              /\ lines[n] = [key |-> lines[n].key, at |-> lines[n].at]
<1>1. DOMAIN lines = 1..Len(lines) /\ Len(lines) \in Nat /\ \A n \in DOMAIN lines : lines[n] \in Entries
  OBVIOUS
<1>2. \A e \in Entries : e.key \in Keys /\ e.at \in Times /\ e = [key |-> e.key, at |-> e.at]
  BY DEF Entries
<1>3. \A n \in DOMAIN lines : lines[n].key \in DOMAIN Parsed(lines)
  BY ParsedKeys
<1> QED
  BY <1>1, <1>2, <1>3

(* What is read of a key is one of its lines.                              *)
LEMMA ParsedLine ==
  ASSUME NEW lines \in Seq(Entries), NEW k \in DOMAIN Parsed(lines)
  PROVE  \E n \in 1..Len(lines) : lines[n] = [key |-> k, at |-> Parsed(lines)[k]]
<1>1. PICK n \in DOMAIN lines : lines[n].key = k /\ Parsed(lines)[k] = lines[n].at
  BY ParsedTime
<1>2. n \in 1..Len(lines) /\ lines[n] = [key |-> lines[n].key, at |-> lines[n].at]
  BY EntryType
<1> QED
  BY <1>1, <1>2

(* It is an index, and a finite one.                                       *)
LEMMA ParsedType ==
  ASSUME NEW lines \in Seq(Entries)
  PROVE  Parsed(lines) \in [DOMAIN Parsed(lines) -> Nat] /\ IsFiniteSet(DOMAIN Parsed(lines)) 
         /\ Parsed(lines) \in Timed
<1>1. /\ DOMAIN lines = 1..Len(lines) /\ Len(lines) \in Nat
      /\ \A n \in DOMAIN lines : lines[n].key \in Keys /\ lines[n].at \in Times
  BY EntryType
<1>2. Parsed(lines) = [k \in DOMAIN Parsed(lines) |-> Parsed(lines)[k]]
  BY DEF Parsed
<1>3. Parsed(lines) \in [DOMAIN Parsed(lines) -> Times]
  BY <1>1, <1>2, ParsedTime
<1>4. DOMAIN Parsed(lines) \subseteq Keys
  BY <1>1, ParsedKeys
<1>5. [n \in 1..Len(lines) |-> lines[n].key] \in Surjection(1..Len(lines), DOMAIN Parsed(lines))
  <2> DEFINE g == [n \in 1..Len(lines) |-> lines[n].key]
  <2>1. DOMAIN Parsed(lines) = {g[n] : n \in 1..Len(lines)}
    <3>1. DOMAIN Parsed(lines) = {lines[n].key : n \in 1..Len(lines)}
      BY <1>1, ParsedLast
    <3>2. \A n \in 1..Len(lines) : g[n] = lines[n].key
      OBVIOUS
    <3> HIDE DEF g
    <3> QED
      BY <3>1, <3>2
  <2>2. g \in [1..Len(lines) -> DOMAIN Parsed(lines)]
    BY <2>1
  <2> HIDE DEF g
  <2>3. \A k \in DOMAIN Parsed(lines) : \E n \in 1..Len(lines) : g[n] = k
    BY <2>1
  <2>4. g \in Surjection(1..Len(lines), DOMAIN Parsed(lines))
    BY <2>2, <2>3 DEF Surjection
  <2> QED
    BY <2>4 DEF g
<1>6. IsFiniteSet(1..Len(lines))
  BY <1>1, FS_Interval
<1>7. IsFiniteSet(DOMAIN Parsed(lines))
  BY <1>5, <1>6, FS_Surjection
<1> QED
  BY <1>3, <1>4, <1>7, LedgerAssumption DEF Timed, Times

(* The last line of a key is what is read of it.                           *)
LEMMA ParsedAt ==
  ASSUME NEW lines \in Seq(Entries), NEW k, NEW n \in DOMAIN lines, lines[n].key = k,
         \A m \in DOMAIN lines : lines[m].key = k => m <= n
  PROVE  Parsed(lines)[k] = lines[n].at
<1>1. k \in DOMAIN Parsed(lines)
  BY ParsedKeys
<1>2. PICK i \in DOMAIN lines : /\ lines[i].key = k /\ Parsed(lines)[k] = lines[i].at
                                /\ \A m \in DOMAIN lines : lines[m].key = k => m <= i
  BY <1>1, ParsedTime, Zenon
<1>3. i <= n /\ n <= i /\ i \in Nat /\ n \in Nat
  BY <1>2
<1>4. i = n
  BY <1>3
<1> QED
  BY <1>2, <1>4, Zenon

(* Two files with the same last line of every key are read alike.          *)
LEMMA ParsedIs ==
  ASSUME NEW lines \in Seq(Entries), NEW f, f \in [DOMAIN f -> Nat],
         DOMAIN f = {lines[n].key : n \in DOMAIN lines},
         \A k \in DOMAIN f : \E n \in DOMAIN lines :
           /\ lines[n].key = k /\ f[k] = lines[n].at
           /\ \A m \in DOMAIN lines : lines[m].key = k => m <= n
  PROVE  Parsed(lines) = f
<1>1. DOMAIN Parsed(lines) = DOMAIN f
  BY ParsedLast
<1>2. ASSUME NEW k \in DOMAIN f PROVE Parsed(lines)[k] = f[k]
  <2>1. PICK n \in DOMAIN lines : /\ lines[n].key = k /\ f[k] = lines[n].at
                                  /\ \A m \in DOMAIN lines : lines[m].key = k => m <= n
    OBVIOUS
  <2>2. Parsed(lines)[k] = lines[n].at
    BY <2>1, ParsedAt
  <2> QED
    BY <2>1, <2>2, Zenon
<1> QED
  BY <1>1, <1>2, ParsedType

(* A line appended is what is read of its key.                             *)
LEMMA ParsedAppend ==
  ASSUME NEW lines \in Seq(Entries), NEW e \in Entries
  PROVE  Parsed(Append(lines, e)) = With(Parsed(lines), e.key, e.at)
<1> DEFINE more == Append(lines, e)
           S == DOMAIN Parsed(lines) \cup {e.key}
           f == With(Parsed(lines), e.key, e.at)
<1>1. /\ more \in Seq(Entries) /\ Len(more) = Len(lines) + 1 /\ DOMAIN more = 1..Len(lines) + 1
      /\ DOMAIN lines = 1..Len(lines) /\ Len(lines) \in Nat
      /\ \A n \in 1..Len(lines) : more[n] = lines[n]
      /\ more[Len(lines) + 1] = e
  OBVIOUS
<1>2. f \in [S -> Nat] /\ DOMAIN f = S
  <2>1. e.at \in Nat
    BY LedgerAssumption DEF Entries, Times
  <2>2. \A k \in DOMAIN Parsed(lines) : Parsed(lines)[k] \in Nat
    BY ParsedType
  <2> QED
    BY <2>1, <2>2 DEF With
<1>3. S = {more[n].key : n \in DOMAIN more}
  <2>1. DOMAIN Parsed(lines) = {lines[n].key : n \in DOMAIN lines}
    BY ParsedKeys
  <2>2. ASSUME NEW k \in S PROVE \E n \in DOMAIN more : k = more[n].key
    BY <1>1, <2>1
  <2>3. ASSUME NEW n \in DOMAIN more PROVE more[n].key \in S
    BY <1>1, <2>1
  <2> QED
    BY <2>2, <2>3
<1>4. ASSUME NEW k \in S
      PROVE  \E n \in DOMAIN more :
               /\ more[n].key = k /\ f[k] = more[n].at
               /\ \A m \in DOMAIN more : more[m].key = k => m <= n
  <2>1. CASE k = e.key
    BY <1>1, <2>1 DEF With
  <2>2. CASE k # e.key
    <3>1. PICK n \in DOMAIN lines :
            /\ lines[n].key = k /\ Parsed(lines)[k] = lines[n].at
            /\ \A m \in DOMAIN lines : lines[m].key = k => m <= n
      BY <2>2, ParsedLast
    <3>2. f[k] = Parsed(lines)[k]
      BY <2>2 DEF With
    <3> QED
      BY <1>1, <2>2, <3>1, <3>2
  <2> QED
    BY <2>1, <2>2
<1>5. /\ more \in Seq(Entries) /\ f \in [DOMAIN f -> Nat]
      /\ DOMAIN f = {more[n].key : n \in DOMAIN more}
      /\ \A k \in DOMAIN f : \E n \in DOMAIN more :
           /\ more[n].key = k /\ f[k] = more[n].at
           /\ \A m \in DOMAIN more : more[m].key = k => m <= n
  <2> HIDE DEF f, S, more
  <2> QED
    BY <1>1, <1>2, <1>3, <1>4
<1> HIDE DEF f, S, more
<1>6. Parsed(more) = f
  BY <1>5, ParsedIs
<1> QED
  BY <1>6 DEF f, more

-----------------------------------------------------------------------------
(* Types. *)

Lines == Entries \cup {Torn, Garbage}

(* A file with a line more.                                                *)
LEMMA AppendLineType ==
  ASSUME NEW lines \in Seq(Lines), NEW line \in Lines
  PROVE  AppendLine(lines, line) \in Seq(Lines) /\ Len(AppendLine(lines, line)) >= Len(lines)
<1>1. Torn \in Lines /\ Garbage \in Lines
  BY DEF Lines
<1>2. CASE lines # << >> /\ lines[Len(lines)] = Torn
  BY <1>1, <1>2 DEF AppendLine
<1>3. CASE ~(lines # << >> /\ lines[Len(lines)] = Torn)
  BY <1>3 DEF AppendLine
<1> QED
  BY <1>2, <1>3

(* What an index is.                                                       *)
LEMMA InTimed ==
  ASSUME NEW f
  PROVE  f \in Timed <=> f \in [DOMAIN f -> Times] /\ DOMAIN f \subseteq Keys
BY DEF Timed

(* An empty index is one.                                                  *)
LEMMA EmptyIndex == NoKeys \in Timed /\ IsFiniteSet(DOMAIN NoKeys)
<1>1. DOMAIN NoKeys = {} /\ NoKeys \in [DOMAIN NoKeys -> Times]
  BY DEF NoKeys
<1> QED
  BY <1>1, InTimed, FS_EmptySet

(* An index with a key more.                                               *)
LEMMA WithType ==
  ASSUME NEW f \in Timed, IsFiniteSet(DOMAIN f), NEW k \in Keys, NEW t \in Times
  PROVE  With(f, k, t) \in Timed /\ IsFiniteSet(DOMAIN With(f, k, t))
<1>1. DOMAIN With(f, k, t) = DOMAIN f \cup {k}
  BY DEF With
<1>2. f \in [DOMAIN f -> Times] /\ DOMAIN f \subseteq Keys
  BY DEF Timed
<1>3. With(f, k, t) \in [DOMAIN f \cup {k} -> Times]
  BY <1>2 DEF With
<1> QED
  BY <1>1, <1>2, <1>3, FS_AddElement, InTimed

(* Types hold at the start.                                                *)
LEMMA InitTypeInv == Init => TypeInv
<1> SUFFICES ASSUME Init PROVE TypeInv
  OBVIOUS
<1> QED
  BY EmptyIndex, LedgerAssumption DEF Init, TypeInv, TypeOK, FiniteIndex, Times, Busy

(* A record call, to its end.                                              *)
LEMMA RecordTypeInv ==
  ASSUME TypeInv, NEW w \in Workers, RecordStep(w) \/ \E k \in Keys : Record(w, k)
  PROVE  TypeInv'
<1> USE DEF TypeInv, TypeOK, FiniteIndex
<1>1. CASE \E k \in Keys : Record(w, k)
  BY <1>1 DEF Record, Busy, Entries
<1>2. ASSUME worker[w].pc # "idle"
      PROVE  worker[w] \in Busy /\ worker[w].entry \in Entries /\ worker[w].linked \in BOOLEAN
  BY <1>2 DEF Idle, Busy
<1>3. CASE OpenFile(w)
  BY <1>2, <1>3 DEF OpenFile, Busy
<1>4. CASE WriteLine(w)
  <2>1. file' \in Seq(Lines) /\ Len(file') >= Len(file)
    BY <1>2, <1>4, AppendLineType DEF WriteLine, Lines
  <2>2. worker' \in [Workers -> Busy \cup {Idle}]
    BY <1>2, <1>4 DEF WriteLine, Busy
  <2> QED
    BY <1>4, <2>1, <2>2 DEF WriteLine, Lines
<1>5. CASE SyncFile(w)
  <2>1. [worker[w] EXCEPT !.pc = "index"] \in Busy
    BY <1>2, <1>5 DEF SyncFile, Busy
  <2>2. worker' \in [Workers -> Busy \cup {Idle}]
    BY <1>5, <2>1 DEF SyncFile
  <2>3. synced' \in 0..Len(file)
    BY <1>5 DEF SyncFile
  <2> QED
    BY <1>5, <2>2, <2>3 DEF SyncFile
<1>6. CASE InsertKey(w)
  <2>1. worker[w].entry.key \in Keys /\ worker[w].entry.at \in Times
    BY <1>2, <1>6 DEF InsertKey, Entries
  <2>2. index' \in Timed /\ IsFiniteSet(DOMAIN index')
    BY <1>6, <2>1, WithType DEF InsertKey
  <2> QED
    BY <1>6, <2>2 DEF InsertKey
<1> QED
  BY <1>1, <1>3, <1>4, <1>5, <1>6 DEF RecordStep

(* Types through a prune.                                                  *)
LEMMA PruneTypeInv ==
  ASSUME TypeInv, (\E cutoff \in Times : PruneStart(cutoff)) \/ PruneRename \/ PruneIndex
  PROVE  TypeInv'
<1> USE DEF TypeInv, TypeOK, FiniteIndex
<1>1. ASSUME NEW cutoff \in Times, PruneStart(cutoff) PROVE TypeInv'
  <2>1. index \in [DOMAIN index -> Times] /\ DOMAIN index \subseteq Keys
    BY DEF Timed
  <2>2. DOMAIN Survivors(cutoff) \subseteq DOMAIN index
    BY DEF Survivors
  <2>3. Survivors(cutoff) \in Timed /\ IsFiniteSet(DOMAIN Survivors(cutoff))
    <3>1. Survivors(cutoff) \in [DOMAIN Survivors(cutoff) -> Times]
      BY <2>1, <2>2 DEF Survivors
    <3> QED
      BY <2>1, <2>2, <3>1, FS_Subset, InTimed
  <2>4. pruner' = [pc |-> "rename", survivors |-> Survivors(cutoff)]
    BY <1>1 DEF PruneStart, Survivors
  <2> HIDE DEF Survivors
  <2> QED
    BY <1>1, <2>3, <2>4 DEF PruneStart
<1>2. CASE PruneRename
  <2>1. /\ pruner \in [pc : {"rename", "index"}, survivors : Timed]
        /\ IsFiniteSet(DOMAIN pruner.survivors) /\ pruner # Idle
    BY <1>2 DEF PruneRename, Idle
  <2>2. CASE pruner' = Idle
    <3>1. [pruner EXCEPT !.pc = "index"].pc = "index" /\ Idle.pc = "idle"
      BY <2>1 DEF Idle
    <3>2. UNCHANGED << file, synced, worker, index, up, now, crashes >>
      BY <1>2, <2>2, <3>1 DEF PruneRename
    <3> QED
      BY <2>2, <3>2
  <2>3. CASE pruner' # Idle
    <3>1. Cardinality(DOMAIN pruner.survivors) \in Nat
      BY <2>1, FS_CardinalityType
    <3>2. file' \in Seq(Entries)
      BY <1>2, <2>3, <3>1 DEF PruneRename
    <3>3. file' \in Seq(Entries \cup {Torn, Garbage})
      BY <3>2
    <3>4. pruner' = [pc |-> "index", survivors |-> pruner.survivors]
      BY <1>2, <2>1, <2>3 DEF PruneRename
    <3>5. worker' \in [Workers -> Busy \cup {Idle}]
      <4>1. worker' = [w \in Workers |->
                         IF w \in Recording THEN [worker[w] EXCEPT !.linked = FALSE] ELSE Idle]
        BY <1>2, <2>3 DEF PruneRename
      <4>2. ASSUME NEW w \in Recording PROVE [worker[w] EXCEPT !.linked = FALSE] \in Busy
        BY <4>2 DEF Recording, Busy
      <4> QED
        BY <4>1, <4>2
    <3> QED
      BY <1>2, <2>1, <2>3, <3>3, <3>4, <3>5 DEF PruneRename
  <2> QED
    BY <2>2, <2>3
<1>3. CASE PruneIndex
  BY <1>3 DEF PruneIndex, Idle
<1> QED
  BY <1>1, <1>2, <1>3

(* Every step keeps the types.                                             *)
LEMMA NextTypeInv == TypeInv /\ [Next]_vars => TypeInv'
<1> SUFFICES ASSUME TypeInv, [Next]_vars PROVE TypeInv'
  OBVIOUS
<1> USE DEF TypeInv, TypeOK, FiniteIndex
<1>1. CASE Crash
  <2>1. NoKeys \in Timed /\ IsFiniteSet(DOMAIN NoKeys)
    BY EmptyIndex
  <2>2. file' \in Seq(Lines)
    <3>1. \A n \in synced..Len(file) : SubSeq(file, 1, n) \in Seq(Lines)
      BY DEF Lines
    <3>2. \A s \in Seq(Lines) : Append(s, Torn) \in Seq(Lines)
      BY DEF Lines
    <3>3. \A n \in synced..Len(file) - 1 : n \in synced..Len(file)
      OBVIOUS
    <3>4. file' \in SurvivingFiles
      BY <1>1 DEF Crash
    <3>5. \/ \E n \in synced..Len(file) : file' = SubSeq(file, 1, n)
          \/ \E n \in synced..Len(file) - 1 : file' = Append(SubSeq(file, 1, n), Torn)
      BY <3>4, Zenon DEF SurvivingFiles
    <3>6. CASE \E n \in synced..Len(file) : file' = SubSeq(file, 1, n)
      BY <3>1, <3>6, Zenon
    <3>7. CASE \E n \in synced..Len(file) - 1 : file' = Append(SubSeq(file, 1, n), Torn)
      <4>1. PICK n \in synced..Len(file) - 1 : file' = Append(SubSeq(file, 1, n), Torn)
        BY <3>7
      <4>2. SubSeq(file, 1, n) \in Seq(Lines)
        BY <3>1, <3>3, Zenon
      <4> QED
        BY <3>2, <4>1, <4>2, Zenon
    <3> QED
      BY <3>5, <3>6, <3>7, Zenon
  <2>3. synced' \in 0..Len(file')
    BY <1>1, <2>2 DEF Crash
  <2>4. crashes' \in 0..MaxCrashes
    BY <1>1, LedgerAssumption DEF Crash
  <2>5. /\ up' = FALSE /\ index' = NoKeys /\ worker' = [w \in Workers |-> Idle]
        /\ pruner' = Idle /\ now' = now
    BY <1>1 DEF Crash
  <2> QED
    BY <2>1, <2>2, <2>3, <2>4, <2>5 DEF Lines
<1>2. CASE Open
  <2>1. file \in Seq(Entries)
    BY <1>2 DEF Open, Malformed
  <2> QED
    BY <1>2, <2>1, ParsedType DEF Open
<1>3. CASE Tick
  BY <1>3, LedgerAssumption DEF Tick, Times
<1>4. CASE UNCHANGED vars
  BY <1>4 DEF vars
<1> QED
  BY <1>1, <1>2, <1>3, <1>4, RecordTypeInv, PruneTypeInv DEF Next

-----------------------------------------------------------------------------
(* The index is on the disk. *)

Careful == PruneConcurrent = FALSE /\ TornWrites = FALSE

(* A torn line is never read as an entry.                                  *)
LEMMA TornIsNoEntry == Torn \notin Entries
<1>1. DOMAIN Torn = {"torn"}
  BY DEF Torn
<1>2. \A e \in Entries : DOMAIN e = {"key", "at"}
  BY DEF Entries
<1> QED
  BY <1>1, <1>2

(* A new ledger is in the invariant.                                       *)
LEMMA InitLedgerInv == Init => LedgerInv
<1> SUFFICES ASSUME Init PROVE LedgerInv
  OBVIOUS
<1>1. DOMAIN index = {} /\ DOMAIN file = {} /\ file \in Seq(Entries)
  BY DEF Init, NoKeys
<1>2. Recording = {} /\ pruner.pc = "idle" /\ up
  BY DEF Init, Recording, Idle
<1> QED
  BY <1>1, <1>2 DEF LedgerInv, Alone, FileOrdered, InOrder, LineWritten, IndexOnDisk, Pruning

(* Lines added or removed behind the synced part disturb no index entry.   *)
LEMMA RecordLedgerInv ==
  ASSUME Careful, TypeInv, LedgerInv, NEW w \in Workers, NEW k \in Keys, Record(w, k)
  PROVE  LedgerInv'
<1> USE DEF TypeInv, TypeOK, LedgerInv
<1>1. pruner = Idle /\ up
  BY DEF Record, Careful
<1>2. worker'[w] = [pc |-> "open", entry |-> [key |-> k, at |-> now], linked |-> FALSE]
  BY DEF Record
<1>3. Recording' = Recording \cup {w} /\ \A v \in Recording \ {w} : worker'[v] = worker[v]
  BY <1>2 DEF Record, Recording, Idle
<1>4. Alone'
  BY <1>1 DEF Record, Alone
<1>5. LineWritten'
  BY <1>2, <1>3 DEF Record, LineWritten
<1>6. FileOrdered' /\ IndexOnDisk'
  BY DEF Record, FileOrdered, InOrder, IndexOnDisk
<1>7. Pruning'
  BY <1>1 DEF Record, Pruning, Idle
<1> QED
  BY <1>4, <1>5, <1>6, <1>7

(* Each step of a record keeps it.                                         *)
LEMMA RecordStepLedgerInv ==
  ASSUME Careful, TypeInv, LedgerInv, NEW w \in Workers, RecordStep(w)
  PROVE  LedgerInv'
<1> USE DEF TypeInv, TypeOK, LedgerInv
<1>1. /\ worker[w] \in Busy /\ worker[w].entry \in Entries /\ w \in Recording
      /\ pruner = Idle /\ up /\ worker[w].entry.at = now
  BY DEF RecordStep, OpenFile, WriteLine, SyncFile, InsertKey, Idle, Busy, Recording, Alone,
         LineWritten
<1>2. pruner.pc = "idle"
  BY <1>1 DEF Idle
<1>3. \A v \in Workers \ {w} : worker'[v] = worker[v]
  BY DEF RecordStep, OpenFile, WriteLine, SyncFile, InsertKey
<1>4. Recording' \subseteq Recording
  BY <1>1, <1>3 DEF Recording
<1>5. Alone' /\ Pruning'
  BY <1>1, <1>2 DEF RecordStep, OpenFile, WriteLine, SyncFile, InsertKey, Alone, Pruning, Idle
<1>6. CASE OpenFile(w)
  <2>1. worker'[w] = [pc |-> "write", entry |-> worker[w].entry, linked |-> TRUE]
    BY <1>6 DEF OpenFile
  <2>2. LineWritten'
    BY <1>1, <1>3, <1>4, <1>6, <2>1 DEF OpenFile, LineWritten
  <2> QED
    BY <1>5, <1>6, <2>2 DEF OpenFile, FileOrdered, InOrder, IndexOnDisk
<1>7. CASE WriteLine(w) /\ file' = file
  <2>1. worker'[w] = Idle
    <3>1. worker[w].linked
      BY <1>1, <1>7 DEF WriteLine, LineWritten
    <3>2. file # << >> => file[Len(file)] # Torn
      BY TornIsNoEntry DEF FileOrdered
    <3>3. AppendLine(file, worker[w].entry) = Append(file, worker[w].entry)
      BY <3>2 DEF AppendLine
    <3>4. Append(file, worker[w].entry) # file
      BY <1>1 DEF FileOrdered
    <3> QED
      BY <1>7, <3>1, <3>3, <3>4 DEF WriteLine
  <2>2. LineWritten'
    BY <1>3, <1>4, <1>7, <2>1 DEF WriteLine, LineWritten, Recording
  <2> QED
    BY <1>5, <1>7, <2>2 DEF WriteLine, FileOrdered, InOrder, IndexOnDisk
<1>8. CASE WriteLine(w) /\ file' # file
  <2>1. /\ file' = AppendLine(file, worker[w].entry)
        /\ worker' = [worker EXCEPT ![w].pc = "sync"]
    BY <1>8 DEF WriteLine, Careful
  <2>2. file # << >> => file[Len(file)] # Torn
    BY TornIsNoEntry DEF FileOrdered
  <2>3. file' = Append(file, worker[w].entry)
    BY <2>1, <2>2 DEF AppendLine
  <2>4. /\ file' \in Seq(Entries) /\ Len(file') = Len(file) + 1 /\ DOMAIN file' = 1..Len(file) + 1
        /\ DOMAIN file = 1..Len(file) /\ Len(file) \in Nat
        /\ \A n \in 1..Len(file) : file'[n] = file[n]
        /\ file'[Len(file) + 1] = worker[w].entry
    BY <1>1, <2>3 DEF FileOrdered
  <2>5. \A n \in DOMAIN file' : file'[n].at <= now
    BY <1>1, <2>4, LedgerAssumption DEF FileOrdered, Times
  <2>6. InOrder(file')
    <3> SUFFICES ASSUME NEW m \in DOMAIN file', NEW n \in DOMAIN file',
                        m <= n, file'[m].key = file'[n].key
                 PROVE  file'[m].at <= file'[n].at
      BY DEF InOrder
    <3>1. CASE n = Len(file) + 1
      BY <1>1, <2>4, <2>5, <3>1
    <3>2. CASE n # Len(file) + 1
      <4>1. m \in 1..Len(file) /\ n \in 1..Len(file)
        BY <2>4, <3>2
      <4> QED
        BY <2>4, <4>1 DEF FileOrdered, InOrder
    <3> QED
      BY <3>1, <3>2
  <2>7. worker'[w].pc = "sync" /\ worker'[w].entry = worker[w].entry
        /\ worker'[w].linked = worker[w].linked
    BY <1>1, <2>1 DEF Busy
  <2>8. LineWritten'
    <3> SUFFICES ASSUME NEW v \in Recording'
                 PROVE  /\ worker'[v].entry.at = now'
                        /\ worker'[v].pc # "open" => worker'[v].linked
                        /\ worker'[v].pc = "sync" => \E n \in 1..Len(file') : file'[n] = worker'[v].entry
                        /\ worker'[v].pc = "index" => \E n \in 1..synced' : file'[n] = worker'[v].entry
      BY DEF LineWritten
    <3>1. now' = now /\ synced' = synced
      BY <1>8 DEF WriteLine
    <3>2. CASE v = w
      BY <1>1, <1>8, <2>4, <2>7, <3>1, <3>2 DEF WriteLine, LineWritten
    <3>3. CASE v # w
      <4>1. v \in Recording /\ worker'[v] = worker[v]
        BY <1>3, <1>4, <3>3 DEF Recording
      <4> QED
        BY <2>4, <3>1, <4>1 DEF LineWritten
    <3> QED
      BY <3>2, <3>3
  <2>9. IndexOnDisk'
    BY <1>8, <2>4 DEF WriteLine, IndexOnDisk
  <2> QED
    BY <1>5, <1>8, <2>4, <2>5, <2>6, <2>8, <2>9 DEF FileOrdered, WriteLine
<1>9. CASE SyncFile(w)
  <2>1. synced' \in {synced, Len(file)} /\ file' = file
    BY <1>9 DEF SyncFile
  <2>2. worker'[w] # Idle => /\ worker'[w].pc = "index" /\ worker'[w].entry = worker[w].entry
                             /\ worker'[w].linked = worker[w].linked /\ synced' = Len(file)
    BY <1>1, <1>9 DEF SyncFile, LineWritten, Busy
  <2>3. LineWritten'
    BY <1>1, <1>3, <1>4, <1>9, <2>1, <2>2 DEF SyncFile, LineWritten, Recording
  <2>4. IndexOnDisk'
    BY <1>9, <2>1 DEF SyncFile, IndexOnDisk
  <2> QED
    BY <1>5, <1>9, <2>3, <2>4 DEF SyncFile, FileOrdered, InOrder
<1>10. CASE InsertKey(w)
  <2> DEFINE e == worker[w].entry
  <2>1. e = [key |-> e.key, at |-> e.at]
    BY <1>1 DEF Entries
  <2>2. \E n \in 1..synced : file[n] = e
    BY <1>1, <1>10 DEF InsertKey, LineWritten
  <2>3. \A j \in DOMAIN index' : index'[j] = IF j = e.key THEN e.at ELSE index[j]
    BY <1>10 DEF InsertKey, With
  <2>4. DOMAIN index' = DOMAIN index \cup {e.key}
    BY <1>10 DEF InsertKey, With
  <2>5. IndexOnDisk'
    <3> HIDE DEF e
    <3> QED
      BY <1>1, <1>2, <1>10, <2>1, <2>2, <2>3, <2>4 DEF InsertKey, IndexOnDisk
  <2>6. LineWritten'
    BY <1>3, <1>4, <1>10 DEF InsertKey, LineWritten, Recording
  <2> QED
    BY <1>5, <1>10, <2>5, <2>6 DEF InsertKey, FileOrdered, InOrder
<1> QED
  BY <1>6, <1>7, <1>8, <1>9, <1>10 DEF RecordStep

(* The file prune writes has one line for each survivor.                   *)
LEMMA OneLineEach ==
  ASSUME NEW lines \in Seq(Entries), IsFiniteSet(DOMAIN Parsed(lines)),
         Len(lines) = Cardinality(DOMAIN Parsed(lines))
  PROVE  \A m, n \in DOMAIN lines : lines[m].key = lines[n].key => m = n
<1> DEFINE g == [n \in 1..Len(lines) |-> lines[n].key]
<1>1. DOMAIN lines = 1..Len(lines) /\ Len(lines) \in Nat
  OBVIOUS
<1>2. \A n \in 1..Len(lines) : g[n] = lines[n].key
  OBVIOUS
<1>3. g \in [1..Len(lines) -> DOMAIN Parsed(lines)]
  BY <1>1, EntryType
<1>4. \A k \in DOMAIN Parsed(lines) : \E n \in 1..Len(lines) : g[n] = k
  <2>1. ASSUME NEW k \in DOMAIN Parsed(lines) PROVE \E n \in DOMAIN lines : lines[n].key = k
    BY ParsedKeys
  <2> QED
    BY <1>1, <1>2, <2>1
<1> HIDE DEF g
<1>5. g \in Surjection(1..Len(lines), DOMAIN Parsed(lines))
  BY <1>3, <1>4 DEF Surjection
<1>6. IsFiniteSet(1..Len(lines)) /\ Cardinality(1..Len(lines)) = Len(lines)
  BY <1>1, FS_Interval
<1>7. g \in Injection(1..Len(lines), DOMAIN Parsed(lines))
  BY <1>5, <1>6, FS_SurjSameCardinalityImpliesInj
<1> QED
  BY <1>1, <1>2, <1>3, <1>7 DEF Injection, IsInjective

(* So what is read of each line is that line.                              *)
LEMMA OneLineRead ==
  ASSUME NEW lines \in Seq(Entries), IsFiniteSet(DOMAIN Parsed(lines)),
         Len(lines) = Cardinality(DOMAIN Parsed(lines)), NEW n \in DOMAIN lines
  PROVE  lines[n].key \in DOMAIN Parsed(lines) /\ Parsed(lines)[lines[n].key] = lines[n].at
<1>1. lines[n].key \in DOMAIN Parsed(lines)
  BY ParsedKeys
<1>2. PICK m \in DOMAIN lines : /\ lines[m].key = lines[n].key
                                /\ Parsed(lines)[lines[n].key] = lines[m].at
  BY <1>1, ParsedTime
<1> QED
  BY <1>1, <1>2, OneLineEach

(* Choosing what a prune leaves keeps it.                                  *)
LEMMA PruneStartLedgerInv ==
  ASSUME Careful, TypeInv, LedgerInv, NEW cutoff \in Times, cutoff <= now, PruneStart(cutoff)
  PROVE  LedgerInv'
<1> USE DEF TypeInv, TypeOK, LedgerInv
<1>1. pruner' = [pc |-> "rename", survivors |-> Survivors(cutoff)]
  BY DEF PruneStart, Survivors
<1>2. Recording = {} /\ up
  BY DEF PruneStart, Careful
<1>3. pruner'.pc = "rename" /\ pruner'.survivors = Survivors(cutoff) /\ Survivors(cutoff)' = Survivors(cutoff)
  BY <1>1 DEF PruneStart, Survivors
<1>4. Recording' = Recording /\ pruner.pc = "idle"
  BY DEF PruneStart, Recording, Idle
<1>5. Alone' /\ LineWritten'
  BY <1>2, <1>4 DEF PruneStart, Alone, LineWritten
<1>6. Pruning'
  <2>1. \E c \in Times : c <= now' /\ pruner'.survivors = Survivors(c)'
    BY <1>3 DEF PruneStart
  <2> QED
    BY <1>3, <2>1 DEF Pruning
<1>7. FileOrdered' /\ IndexOnDisk'
  BY <1>3, <1>4 DEF PruneStart, FileOrdered, InOrder, IndexOnDisk
<1> QED
  BY <1>5, <1>6, <1>7

(* Renaming the pruned file over the old one keeps it.                     *)
LEMMA PruneRenameLedgerInv ==
  ASSUME Careful, TypeInv, LedgerInv, PruneRename
  PROVE  LedgerInv'
<1> USE DEF TypeInv, TypeOK, FiniteIndex, LedgerInv
<1>1. /\ pruner \in [pc : {"rename", "index"}, survivors : Timed] /\ pruner # Idle
      /\ pruner.pc = "rename" /\ Recording = {} /\ up
  BY DEF PruneRename, Idle, Alone
<1>2. CASE UNCHANGED << file, synced, worker >> /\ pruner' = Idle
  <2>1. Recording' = {} /\ pruner'.pc = "idle"
    BY <1>1, <1>2 DEF Recording, Idle
  <2>2. Alone' /\ LineWritten' /\ Pruning'
    BY <1>1, <1>2, <2>1 DEF PruneRename, Alone, LineWritten, Pruning
  <2>3. FileOrdered' /\ IndexOnDisk'
    BY <1>1, <1>2, <2>1 DEF PruneRename, FileOrdered, InOrder, IndexOnDisk
  <2> QED
    BY <2>2, <2>3
<1>3. CASE /\ file' \in {f \in [1..Cardinality(DOMAIN pruner.survivors) -> Entries] :
                           Parsed(f) = pruner.survivors}
           /\ synced' = Len(file')
           /\ worker' = [w \in Workers |->
                           IF w \in Recording THEN [worker[w] EXCEPT !.linked = FALSE] ELSE Idle]
           /\ pruner' = [pruner EXCEPT !.pc = "index"]
  <2>1. Cardinality(DOMAIN pruner.survivors) \in Nat /\ IsFiniteSet(DOMAIN pruner.survivors)
    BY <1>1, FS_CardinalityType
  <2>2. /\ file' \in Seq(Entries) /\ Parsed(file') = pruner.survivors
        /\ Len(file') = Cardinality(DOMAIN pruner.survivors)
    BY <1>3, <2>1
  <2>3. pruner'.pc = "index" /\ pruner'.survivors = pruner.survivors
    BY <1>1, <1>3
  <2>4. Recording' = {}
    BY <1>1, <1>3 DEF Recording
  <2>5. \A m, n \in DOMAIN file' : file'[m].key = file'[n].key => m = n
    BY <2>1, <2>2, OneLineEach
  <2>6. \A n \in DOMAIN file' : file'[n].key \in DOMAIN pruner.survivors
                                /\ pruner.survivors[file'[n].key] = file'[n].at
    BY <2>1, <2>2, OneLineRead
  <2>7. \A k \in DOMAIN pruner.survivors : pruner.survivors[k] <= now
    <3>1. PICK cutoff \in Times : pruner.survivors = Survivors(cutoff)
      BY <1>1 DEF Pruning
    <3>2. \A k \in DOMAIN pruner.survivors : k \in DOMAIN index /\ pruner.survivors[k] = index[k]
      BY <3>1 DEF Survivors
    <3>3. ASSUME NEW k \in DOMAIN index PROVE index[k] <= now
      <4>1. PICK n \in 1..synced : file[n] = [key |-> k, at |-> index[k]]
        BY <1>1 DEF IndexOnDisk
      <4>2. n \in DOMAIN file
        OBVIOUS
      <4> QED
        BY <4>1, <4>2 DEF FileOrdered
    <3> QED
      BY <3>2, <3>3
  <2>8. now' = now /\ up' = up /\ index' = index
    BY DEF PruneRename
  <2>9. InOrder(file')
    BY <2>2, <2>5, EntryType, LedgerAssumption DEF InOrder, Times
  <2>10. FileOrdered'
    BY <2>2, <2>6, <2>7, <2>8, <2>9 DEF FileOrdered
  <2>11. Alone' /\ LineWritten' /\ IndexOnDisk'
    BY <1>1, <2>3, <2>4, <2>8 DEF Alone, LineWritten, IndexOnDisk
  <2>12. Pruning'
    BY <1>3, <2>2, <2>3 DEF Pruning
  <2> QED
    BY <2>10, <2>11, <2>12
<1> QED
  BY <1>2, <1>3 DEF PruneRename

(* Taking the pruned index over keeps it.                                  *)
LEMMA PruneIndexLedgerInv ==
  ASSUME Careful, TypeInv, LedgerInv, PruneIndex
  PROVE  LedgerInv'
<1> USE DEF TypeInv, TypeOK, LedgerInv
<1>1. /\ pruner # Idle /\ Recording = {} /\ up /\ pruner.pc = "index"
      /\ index' = Parsed(file) /\ synced = Len(file) /\ file \in Seq(Entries)
  BY DEF PruneIndex, Idle, Alone, Pruning, FileOrdered
<1>2. Recording' = {} /\ pruner' = Idle /\ pruner'.pc = "idle"
  BY <1>1 DEF PruneIndex, Recording, Idle
<1>3. \A k \in DOMAIN Parsed(file) : \E n \in 1..synced :
        file[n] = [key |-> k, at |-> Parsed(file)[k]]
  <2>1. ASSUME NEW k \in DOMAIN Parsed(file)
        PROVE  \E n \in 1..Len(file) : file[n] = [key |-> k, at |-> Parsed(file)[k]]
    BY <1>1, ParsedLine
  <2> QED
    BY <1>1, <2>1
<1>4. IndexOnDisk'
  BY <1>1, <1>3 DEF PruneIndex, IndexOnDisk
<1>5. Alone' /\ LineWritten' /\ Pruning'
  BY <1>1, <1>2 DEF PruneIndex, Alone, LineWritten, Pruning
<1> QED
  BY <1>4, <1>5 DEF PruneIndex, FileOrdered, InOrder

(* Reopening rebuilds an index that agrees with the file.                  *)
LEMMA OpenLedgerInv ==
  ASSUME Careful, TypeInv, LedgerInv, Open
  PROVE  LedgerInv'
<1> USE DEF TypeInv, TypeOK, LedgerInv
<1>1. /\ Recording = {} /\ pruner = Idle /\ pruner.pc = "idle" /\ ~up
      /\ index' = Parsed(file) /\ synced = Len(file) /\ file \in Seq(Entries)
  BY DEF Open, Idle, Alone, FileOrdered
<1>2. Recording' = {}
  BY <1>1 DEF Open, Recording
<1>3. \A k \in DOMAIN Parsed(file) : \E n \in 1..synced :
        file[n] = [key |-> k, at |-> Parsed(file)[k]]
  <2>1. ASSUME NEW k \in DOMAIN Parsed(file)
        PROVE  \E n \in 1..Len(file) : file[n] = [key |-> k, at |-> Parsed(file)[k]]
    BY <1>1, ParsedLine
  <2> QED
    BY <1>1, <2>1
<1>4. IndexOnDisk'
  BY <1>1, <1>3 DEF Open, IndexOnDisk
<1>5. Alone' /\ LineWritten' /\ Pruning'
  BY <1>1, <1>2 DEF Open, Alone, LineWritten, Pruning
<1> QED
  BY <1>4, <1>5 DEF Open, FileOrdered, InOrder

(* A crash leaves a beginning of the file, with all that was synced.       *)
LEMMA CrashKeeps ==
  ASSUME Careful, TypeInv, LedgerInv, Crash
  PROVE  /\ file' \in Seq(Entries) /\ Len(file') \in synced..Len(file)
         /\ \A n \in 1..Len(file') : file'[n] = file[n]
<1> USE DEF TypeInv, TypeOK, LedgerInv
<1>1. PICK n \in synced..Len(file) : file' = SubSeq(file, 1, n)
  BY DEF Crash, SurvivingFiles, Careful
<1>2. file \in Seq(Entries) /\ n \in 0..Len(file)
  BY DEF FileOrdered
<1> QED
  BY <1>1, <1>2

(* A crash keeps it.                                                       *)
LEMMA CrashLedgerInv ==
  ASSUME Careful, TypeInv, LedgerInv, Crash
  PROVE  LedgerInv'
<1> USE DEF TypeInv, TypeOK, LedgerInv
<1>1. Recording' = {} /\ pruner' = Idle /\ pruner'.pc = "idle" /\ ~up' /\ now' = now
  BY DEF Crash, Recording, Idle
<1>2. /\ file' \in Seq(Entries) /\ DOMAIN file' \subseteq DOMAIN file
      /\ \A n \in DOMAIN file' : file'[n] = file[n]
  <2>1. /\ file' \in Seq(Entries) /\ Len(file') \in synced..Len(file)
        /\ \A n \in 1..Len(file') : file'[n] = file[n]
    BY CrashKeeps, Zenon
  <2>2. /\ DOMAIN file' = 1..Len(file') /\ DOMAIN file = 1..Len(file)
        /\ Len(file) \in Nat /\ Len(file') \in Nat
    BY <2>1
  <2> QED
    BY <2>1, <2>2
<1>3. FileOrdered'
  BY <1>1, <1>2 DEF FileOrdered, InOrder
<1>4. Alone' /\ LineWritten' /\ Pruning' /\ IndexOnDisk'
  BY <1>1 DEF Crash, Alone, LineWritten, Pruning, IndexOnDisk
<1> QED
  BY <1>3, <1>4

(* Time passing keeps it.                                                  *)
LEMMA TickLedgerInv ==
  ASSUME Careful, TypeInv, LedgerInv, Tick
  PROVE  LedgerInv'
<1> USE DEF TypeInv, TypeOK, LedgerInv
<1>1. now' = now + 1 /\ now \in Nat /\ Recording = {} /\ Recording' = {}
  BY LedgerAssumption DEF Tick, Recording, Times
<1>2. FileOrdered'
  <2>1. \A n \in DOMAIN file : file[n].at \in Nat /\ file[n].at <= now
    BY EntryType, LedgerAssumption DEF FileOrdered, Times
  <2> QED
    BY <1>1, <2>1 DEF Tick, FileOrdered, InOrder
<1>3. Pruning'
  <2>1. ASSUME pruner.pc = "rename"
        PROVE  \E cutoff \in Times : cutoff <= now' /\ pruner'.survivors = Survivors(cutoff)'
    <3>1. PICK cutoff \in Times : cutoff <= now /\ pruner.survivors = Survivors(cutoff)
      BY <2>1 DEF Pruning
    <3>2. cutoff <= now'
      BY <1>1, <3>1, LedgerAssumption DEF Times
    <3>3. Survivors(cutoff)' = Survivors(cutoff)
      BY DEF Tick, Survivors
    <3> QED
      BY <3>1, <3>2, <3>3 DEF Tick
  <2> QED
    BY <2>1 DEF Tick, Pruning
<1>4. Alone' /\ LineWritten' /\ IndexOnDisk'
  BY <1>1 DEF Tick, Alone, LineWritten, IndexOnDisk
<1> QED
  BY <1>2, <1>3, <1>4

(* Every step keeps it.                                                    *)
LEMMA NextLedgerInv == Careful /\ TypeInv /\ LedgerInv /\ [Next]_vars => LedgerInv'
<1> SUFFICES ASSUME Careful, TypeInv, LedgerInv, [Next]_vars PROVE LedgerInv'
  OBVIOUS
<1>1. CASE UNCHANGED vars
  BY <1>1 DEF vars, LedgerInv, Alone, FileOrdered, InOrder, LineWritten, IndexOnDisk, Pruning,
              Recording, Survivors
<1> QED
  BY <1>1, RecordLedgerInv, RecordStepLedgerInv, PruneStartLedgerInv, PruneRenameLedgerInv,
     PruneIndexLedgerInv, CrashLedgerInv, OpenLedgerInv, TickLedgerInv DEF Next

(* The type invariant, for every crash, torn write and concurrent prune.   *)
THEOREM LedgerTypeCorrect == Spec => []TypeOK
<1>1. TypeInv => TypeOK
  BY DEF TypeInv
<1> QED
  BY <1>1, InitTypeInv, NextTypeInv, PTL DEF Spec

(* What seen() says yes to is on the disk.                                 *)
THEOREM SeenSurvives ==
  ASSUME Careful
  PROVE  Spec => []SeenIsDurable
<1>1. TypeInv /\ LedgerInv => SeenIsDurable
  <2> SUFFICES ASSUME TypeInv, LedgerInv, up, pruner = Idle, NEW k \in DOMAIN index
               PROVE  \E n \in 1..synced : file[n] \in Entries /\ file[n].key = k
    BY DEF SeenIsDurable
  <2>1. pruner.pc # "index"
    BY DEF Idle
  <2>2. PICK n \in 1..synced : file[n] = [key |-> k, at |-> index[k]]
    BY <2>1 DEF LedgerInv, IndexOnDisk
  <2>3. n \in DOMAIN file /\ file[n] \in Entries
    BY DEF LedgerInv, FileOrdered, TypeInv, TypeOK
  <2> QED
    BY <2>2, <2>3
<1> QED
  BY <1>1, InitTypeInv, NextTypeInv, InitLedgerInv, NextLedgerInv, PTL DEF Spec

-----------------------------------------------------------------------------
(* The ledger keeps the promise of the trait. *)

KeysOf    == {worker[w].entry.key : w \in Recording}
Surprises == {k \in DOMAIN Parsed(file) : k \notin DOMAIN index \/ Parsed(file)[k] # index[k]}

(* While the index rules, what is seen is the index, and what a restart    *)
(* may add is under way or a record that failed.                           *)
LEMMA IndexRules ==
  /\ up /\ pruner.pc # "index" => Known = index /\ Limbo = KeysOf \cup Surprises
  /\ up' /\ pruner'.pc # "index" => Known' = index' /\ Limbo' = KeysOf' \cup Surprises'
BY DEF Known, Limbo, FileIsTruth, KeysOf, Surprises

(* Where the file is the truth, the keys known are those it holds.         *)
LEMMA FileRules ==
  /\ FileIsTruth => Known = Parsed(file) /\ Limbo = {}
  /\ FileIsTruth' => Known' = Parsed(file') /\ Limbo' = {}
BY DEF Known, Limbo

(* A new ledger promises nothing yet.                                      *)
LEMMA PromiseInit == Init => Promise!Init
<1> SUFFICES ASSUME Init PROVE Promise!Init
  OBVIOUS
<1>1. ~FileIsTruth /\ Recording = {}
  BY DEF Init, FileIsTruth, Idle, Recording
<1>2. DOMAIN Parsed(<< >>) = {}
  BY DEF Parsed
<1>3. Known = << >> /\ Limbo = {}
  BY <1>1, <1>2 DEF Init, NoKeys, Known, Limbo
<1> QED
  BY <1>3 DEF Init, Promise!Init

(* A record that begins is one that begins at the store.                   *)
LEMMA RecordKeepsPromise ==
  ASSUME Careful, TypeInv, LedgerInv, TypeInv', LedgerInv',
         NEW w \in Workers, NEW k \in Keys, Record(w, k)
  PROVE  Promise!Begin(k)
<1> USE DEF TypeInv, TypeOK
<1>1. pruner = Idle /\ pruner.pc = "idle" /\ up /\ up' = up /\ pruner' = pruner
  BY DEF Record, Careful, Idle
<1>2. worker'[w] = [pc |-> "open", entry |-> [key |-> k, at |-> now], linked |-> FALSE]
  BY DEF Record
<1>3. Recording' = Recording \cup {w} /\ \A v \in Recording : worker'[v] = worker[v]
  BY <1>2 DEF Record, Recording, Idle
<1>4. KeysOf' = KeysOf \cup {k}
  BY <1>2, <1>3 DEF KeysOf
<1>5. Surprises' = Surprises
  BY DEF Record, Surprises
<1>6. Known = index /\ Known' = index' /\ Limbo = KeysOf \cup Surprises /\ Limbo' = KeysOf' \cup Surprises'
  BY <1>1, IndexRules
<1> QED
  BY <1>4, <1>5, <1>6 DEF Record, Promise!Begin

(* A record call that goes on, fails, or is acknowledged.                  *)
LEMMA RecordStepKeepsPromise ==
  ASSUME Careful, TypeInv, LedgerInv, TypeInv', LedgerInv', NEW w \in Workers, RecordStep(w)
  PROVE  Promise!Next \/ UNCHANGED << Known, Limbo, now >>
<1> DEFINE k == worker[w].entry.key
<1>1. /\ worker[w] \in Busy /\ worker[w].entry \in Entries /\ w \in Recording
      /\ pruner = Idle /\ up /\ worker[w].entry.at = now /\ k \in Keys
      /\ up' = up /\ pruner' = pruner /\ now' = now
  BY DEF RecordStep, OpenFile, WriteLine, SyncFile, InsertKey, Idle, Busy, Recording, Alone,
         LineWritten, TypeInv, TypeOK, LedgerInv, Entries
<1>2. pruner.pc = "idle"
  BY <1>1 DEF Idle
<1>3. /\ \A v \in Workers \ {w} : worker'[v] = worker[v]
      /\ worker'[w] # Idle => worker'[w].entry = worker[w].entry
  <2>1. Idle \notin Busy
    BY DEF Idle, Busy
  <2>2. OpenFile(w) => worker'[w] \in Busy /\ worker'[w].entry = worker[w].entry
    BY <1>1 DEF OpenFile, TypeInv, TypeOK, Busy
  <2> DEFINE at(pc) == [worker[w] EXCEPT !.pc = pc]
  <2>0. \A pc \in {"sync", "index"} : at(pc) \in Busy /\ at(pc).entry = worker[w].entry
    BY <1>1 DEF Busy
  <2>3. WriteLine(w) => worker'[w] = Idle \/ worker'[w] = at("sync")
    BY DEF WriteLine, TypeInv, TypeOK
  <2>4. SyncFile(w) => worker'[w] = Idle \/ worker'[w] = at("index")
    BY DEF SyncFile, TypeInv, TypeOK
  <2>5. InsertKey(w) => worker'[w] = Idle
    BY <1>1 DEF InsertKey, TypeInv, TypeOK
  <2>6. \A v \in Workers \ {w} : worker'[v] = worker[v]
    BY DEF RecordStep, OpenFile, WriteLine, SyncFile, InsertKey, TypeInv, TypeOK
  <2> HIDE DEF at
  <2>7. worker'[w] # Idle => worker'[w] \in Busy /\ worker'[w].entry = worker[w].entry
    <3>1. CASE OpenFile(w)
      BY <2>2, <3>1
    <3>2. CASE WriteLine(w)
      BY <2>0, <2>3, <3>2
    <3>3. CASE SyncFile(w)
      BY <2>0, <2>4, <3>3
    <3>4. CASE InsertKey(w)
      BY <2>5, <3>4
    <3> QED
      BY <3>1, <3>2, <3>3, <3>4 DEF RecordStep
  <2> QED
    BY <2>1, <2>6, <2>7
<1>4. KeysOf' # KeysOf => worker'[w] = Idle /\ KeysOf' = KeysOf \ {k}
  <2>1. CASE worker'[w] # Idle
    BY <1>1, <1>3, <2>1 DEF KeysOf, Recording
  <2>2. CASE worker'[w] = Idle
    <3>1. Recording' = Recording \ {w} /\ \A v \in Recording' : worker'[v] = worker[v]
      BY <1>3, <2>2 DEF Recording
    <3>2. KeysOf' \subseteq KeysOf /\ KeysOf \ {k} \subseteq KeysOf'
      BY <1>1, <3>1 DEF KeysOf
    <3> QED
      BY <2>2, <3>2
  <2> QED
    BY <2>1, <2>2
<1>5. Known = index /\ Known' = index' /\ Limbo = KeysOf \cup Surprises /\ Limbo' = KeysOf' \cup Surprises'
  BY <1>1, <1>2, IndexRules
<1>6. k \in KeysOf
  BY <1>1 DEF KeysOf
<1> HIDE DEF k
<1>7. CASE file' = file /\ index' = index
  <2>1. Surprises' = Surprises
    BY <1>7 DEF Surprises
  <2>2. CASE Limbo' = Limbo
    BY <1>1, <1>5, <1>7, <2>2
  <2>3. CASE Limbo' = Limbo \ {k}
    BY <1>1, <1>5, <1>7, <2>3 DEF Promise!Next, Promise!Fail
  <2> QED
    BY <1>4, <1>5, <2>1, <2>2, <2>3
<1>8. CASE WriteLine(w) /\ file' # file
  <2>1. /\ file' = AppendLine(file, worker[w].entry)
        /\ worker' = [worker EXCEPT ![w].pc = "sync"] /\ index' = index
    BY <1>8 DEF WriteLine, Careful
  <2>2. file \in Seq(Entries)
    BY DEF LedgerInv, FileOrdered
  <2>3. file # << >> => file[Len(file)] # Torn
    BY <2>2, TornIsNoEntry
  <2>4. file' = Append(file, worker[w].entry)
    BY <2>1, <2>3 DEF AppendLine
  <2>5. Parsed(file') = With(Parsed(file), k, now)
    BY <1>1, <2>2, <2>4, ParsedAppend DEF k
  <2>6. /\ DOMAIN Parsed(file') = DOMAIN Parsed(file) \cup {k}
        /\ \A j \in DOMAIN Parsed(file) \ {k} : Parsed(file')[j] = Parsed(file)[j]
    BY <2>5 DEF With
  <2>7. Surprises' \cup {k} = Surprises \cup {k}
    BY <2>1, <2>6 DEF Surprises
  <2>8. worker'[w] # Idle
    BY <1>1, <2>1 DEF Idle, TypeInv, TypeOK, Busy
  <2> QED
    BY <1>1, <1>4, <1>5, <1>6, <2>1, <2>7, <2>8
<1>9. CASE InsertKey(w)
  <2>1. index' = With(index, k, now) /\ file' = file
    BY <1>1, <1>9 DEF InsertKey, k
  <2>2. /\ DOMAIN index' = DOMAIN index \cup {k}
        /\ \A j \in DOMAIN index \ {k} : index'[j] = index[j]
    BY <2>1 DEF With
  <2>3. Surprises' \ {k} = Surprises \ {k}
    BY <2>1, <2>2 DEF Surprises
  <2>4. Limbo' \in {Limbo, Limbo \ {k}}
    BY <1>4, <1>5, <1>6, <2>3
  <2>5. Promise!With(Known, k, now) = With(Known, k, now)
    BY DEF Promise!With, With
  <2>6. Promise!Acknowledge(k)
    BY <1>1, <1>5, <1>6, <2>1, <2>4, <2>5 DEF Promise!Acknowledge
  <2> QED
    BY <1>1, <2>6 DEF Promise!Next
<1> QED
  BY <1>7, <1>8, <1>9 DEF RecordStep, OpenFile, WriteLine, SyncFile

(* A prune takes effect when its file takes the ledger's name.             *)
LEMMA PruneKeepsPromise ==
  ASSUME Careful, TypeInv, LedgerInv, TypeInv', LedgerInv',
         (\E cutoff \in Times : PruneStart(cutoff)) \/ PruneRename \/ PruneIndex
  PROVE  Promise!Next \/ UNCHANGED << Known, Limbo, now >>
<1>1. ASSUME NEW cutoff \in Times, PruneStart(cutoff) PROVE UNCHANGED << Known, Limbo, now >>
  <2>1. /\ pruner.pc = "idle" /\ pruner'.pc = "rename" /\ up /\ up' = up
        /\ index' = index /\ file' = file /\ worker' = worker /\ now' = now
    BY <1>1 DEF PruneStart, Idle
  <2>2. KeysOf' = KeysOf /\ Surprises' = Surprises
    BY <2>1 DEF KeysOf, Surprises, Recording
  <2> QED
    BY <2>1, <2>2, IndexRules
<1>2. CASE PruneRename
  <2>1. /\ pruner \in [pc : {"rename", "index"}, survivors : Timed] /\ pruner # Idle
        /\ pruner.pc = "rename" /\ Recording = {} /\ up
    BY <1>2 DEF PruneRename, Idle, Alone, TypeInv, TypeOK, LedgerInv
  <2>2. Known = index
    BY <2>1, IndexRules
  <2>3. CASE UNCHANGED << file, synced, worker >> /\ pruner' = Idle
    <3>1. pruner'.pc = "idle" /\ UNCHANGED << up, index, now >>
      BY <1>2, <2>3 DEF Idle, PruneRename
    <3>2. KeysOf' = KeysOf /\ Surprises' = Surprises
      BY <2>3, <3>1 DEF KeysOf, Surprises, Recording
    <3> QED
      BY <2>1, <2>3, <3>1, <3>2, IndexRules
  <2>4. CASE /\ file' \in {f \in [1..Cardinality(DOMAIN pruner.survivors) -> Entries] :
                             Parsed(f) = pruner.survivors}
             /\ pruner' = [pruner EXCEPT !.pc = "index"]
    <3>1. FileIsTruth' /\ Parsed(file') = pruner.survivors
      BY <2>1, <2>4 DEF FileIsTruth
    <3>2. Known' = pruner.survivors /\ Limbo' = {}
      BY <3>1 DEF Known, Limbo
    <3>3. PICK cutoff \in Times : cutoff <= now /\ pruner.survivors = Survivors(cutoff)
      BY <2>1 DEF LedgerInv, Pruning
    <3>4. cutoff \in Promise!Times /\ now' = now
      BY <1>2 DEF Times, Promise!Times, PruneRename
    <3>5. Promise!Prune(cutoff)
      BY <2>2, <3>2, <3>3, <3>4 DEF Promise!Prune, Survivors
    <3> QED
      BY <3>3, <3>4, <3>5 DEF Promise!Next
  <2> QED
    BY <1>2, <2>3, <2>4 DEF PruneRename
<1>3. CASE PruneIndex
  <2>1. /\ pruner # Idle /\ Recording = {} /\ pruner.pc = "index" /\ index' = Parsed(file) /\ up
        /\ pruner'.pc = "idle" /\ UNCHANGED << file, worker, up, now >>
    BY <1>3 DEF PruneIndex, Idle, LedgerInv, Alone, Pruning
  <2>2. Known = Parsed(file) /\ Limbo = {}
    BY <2>1 DEF Known, Limbo, FileIsTruth
  <2>3. KeysOf' = {} /\ Surprises' = {}
    BY <2>1 DEF KeysOf, Surprises, Recording
  <2> QED
    BY <2>1, <2>2, <2>3, IndexRules
<1> QED
  BY <1>1, <1>2, <1>3

(* A crash brings to light what was under way, and nothing else.           *)
LEMMA CrashKeepsPromise ==
  ASSUME Careful, TypeInv, LedgerInv, TypeInv', LedgerInv', Crash
  PROVE  Promise!Next
<1> DEFINE S == Limbo \cap DOMAIN Parsed(file')
           g == [k \in S |-> Parsed(file')[k]]
<1>1. /\ file \in Seq(Entries) /\ file' \in Seq(Entries)
      /\ DOMAIN file = 1..Len(file) /\ DOMAIN file' = 1..Len(file')
      /\ Len(file) \in Nat /\ Len(file') \in synced..Len(file) /\ synced \in Nat
      /\ \A n \in DOMAIN file' : n \in DOMAIN file /\ file'[n] = file[n]
      /\ \A n \in 1..synced : n \in DOMAIN file'
  BY CrashKeeps DEF LedgerInv, FileOrdered, TypeInv, TypeOK
<1>2. Known' = Parsed(file') /\ Limbo' = {} /\ now' = now
  BY FileRules DEF Crash, FileIsTruth
<1>3. Parsed(file') \in Timed /\ Parsed(file') \in [DOMAIN Parsed(file') -> Times]
  BY <1>1, ParsedType, InTimed
<1>4. g \in [S -> Promise!Times] /\ S \in SUBSET Limbo /\ DOMAIN g = S
  BY <1>3 DEF Times, Promise!Times
<1>5. CASE FileIsTruth
  <2>1. Len(file') = Len(file)
    <3>1. synced = Len(file)
      BY <1>5 DEF FileIsTruth, Crash, LedgerInv, Pruning
    <3> QED
      BY <1>1, <3>1
  <2>2. file' = file
    BY <1>1, <2>1
  <2>3. Known = Parsed(file) /\ Limbo = {}
    BY <1>5, FileRules
  <2>4. Promise!Surfaced(Known, g) = Known'
    <3>1. \A k \in DOMAIN Known : Promise!Surfaced(Known, g)[k] = Known[k]
      BY <2>3 DEF Promise!Surfaced
    <3>2. Known \in [DOMAIN Known -> Times]
      BY <1>3, <2>2, <2>3
    <3> QED
      BY <1>2, <2>2, <2>3, <3>2 DEF Promise!Surfaced
  <2> HIDE DEF g, S
  <2> QED
    BY <1>2, <1>4, <2>4 DEF Promise!Next, Promise!Restart
<1>6. CASE ~FileIsTruth
  <2>1. Known = index /\ Limbo = KeysOf \cup Surprises /\ index \in [DOMAIN index -> Times]
    BY <1>6, IndexRules, InTimed DEF FileIsTruth, TypeInv, TypeOK
  <2>2. \A k \in DOMAIN index : \E n \in 1..synced : file[n] = [key |-> k, at |-> index[k]]
    BY <1>6 DEF FileIsTruth, LedgerInv, IndexOnDisk
  <2>3. DOMAIN Parsed(file') = DOMAIN index \cup S
    <3>1. ASSUME NEW k \in DOMAIN index PROVE k \in DOMAIN Parsed(file')
      <4>1. PICK n \in 1..synced : file[n] = [key |-> k, at |-> index[k]]
        BY <2>2
      <4>2. n \in DOMAIN file' /\ file'[n].key = k
        BY <1>1, <4>1
      <4> QED
        BY <1>1, <4>2, EntryType
    <3>2. ASSUME NEW k \in DOMAIN Parsed(file'), k \notin DOMAIN index PROVE k \in Limbo
      <4>1. PICK n \in DOMAIN file' : file'[n].key = k
        BY <1>1, ParsedKeys
      <4>2. n \in DOMAIN file /\ file[n].key = k
        BY <1>1, <4>1
      <4>3. k \in DOMAIN Parsed(file)
        BY <1>1, <4>2, EntryType
      <4> QED
        BY <2>1, <3>2, <4>3 DEF Surprises
    <3> QED
      BY <3>1, <3>2
  <2>4. ASSUME NEW k \in DOMAIN index, k \notin S PROVE Parsed(file')[k] = index[k]
    <3>1. k \in DOMAIN Parsed(file') /\ k \notin Limbo
      BY <2>3, <2>4
    <3>2. PICK n \in 1..synced : file[n] = [key |-> k, at |-> index[k]]
      BY <2>2
    <3>3. n \in DOMAIN file /\ n \in DOMAIN file' /\ file'[n] = file[n] /\ file[n].key = k /\ file[n].at = index[k]
      BY <1>1, <3>2
    <3>4. k \in DOMAIN Parsed(file) /\ Parsed(file)[k] = index[k]
      BY <1>1, <2>1, <3>1, <3>3, EntryType DEF Surprises
    <3>5. PICK i \in DOMAIN file' : /\ file'[i].key = k /\ Parsed(file')[k] = file'[i].at
                                    /\ \A m \in DOMAIN file' : file'[m].key = k => m <= i
      BY <1>1, <3>1, ParsedTime
    <3>6. PICK j \in DOMAIN file : /\ file[j].key = k /\ Parsed(file)[k] = file[j].at
                                   /\ \A m \in DOMAIN file : file[m].key = k => m <= j
      BY <1>1, <3>4, ParsedTime
    <3>7. i \in DOMAIN file /\ file'[i] = file[i] /\ n <= i /\ i <= j
      BY <1>1, <3>3, <3>5, <3>6
    <3>8. index[k] <= file[i].at /\ file[i].at <= file[j].at
      BY <3>3, <3>5, <3>6, <3>7 DEF LedgerInv, FileOrdered, InOrder
    <3>9. index[k] \in Nat /\ file[i].at \in Nat
      BY <1>1, <2>1, <3>7, EntryType, LedgerAssumption DEF Times
    <3> QED
      BY <3>4, <3>5, <3>6, <3>7, <3>8, <3>9
  <2>5. Promise!Surfaced(Known, g) = Known'
    <3>1. ASSUME NEW k \in DOMAIN index \cup S
          PROVE  Parsed(file')[k] = IF k \in S THEN g[k] ELSE index[k]
      BY <2>4
    <3>2. Promise!Surfaced(Known, g) = [k \in DOMAIN index \cup S |-> IF k \in S THEN g[k] ELSE index[k]]
      BY <1>4, <2>1 DEF Promise!Surfaced
    <3> HIDE DEF g, S
    <3> QED
      BY <1>2, <1>3, <2>3, <3>1, <3>2
  <2> HIDE DEF g, S
  <2> QED
    BY <1>2, <1>4, <2>5 DEF Promise!Next, Promise!Restart
<1> QED
  BY <1>5, <1>6

(* Every step of the ledger is a step of the store or a stutter.           *)
LEMMA NextKeepsPromise ==
  ASSUME Careful, TypeInv, LedgerInv, TypeInv', LedgerInv', [Next]_vars
  PROVE  [Promise!Next]_(Promise!svars)
<1> SUFFICES Promise!Next \/ UNCHANGED << Known, Limbo, now >>
  BY DEF Promise!svars
<1>1. ASSUME NEW w \in Workers, NEW k \in Keys, Record(w, k) PROVE Promise!Next
  BY <1>1, RecordKeepsPromise DEF Promise!Next
<1>2. CASE Open
  <2>1. FileIsTruth /\ up' /\ pruner'.pc = "idle"
    BY <1>2 DEF Open, FileIsTruth, LedgerInv, Alone, Idle
  <2>2. KeysOf' = {} /\ Surprises' = {} /\ index' = Parsed(file) /\ now' = now
    BY <1>2 DEF Open, KeysOf, Surprises, Recording, LedgerInv, Alone
  <2> QED
    BY <2>1, <2>2, FileRules, IndexRules
<1>3. CASE Tick
  <2>1. UNCHANGED << file, index, worker, up, pruner >> /\ now' = now + 1 /\ now < MaxTime
    BY <1>3 DEF Tick
  <2>2. Known' = Known /\ Limbo' = Limbo
    BY <2>1 DEF Known, Limbo, FileIsTruth, Recording
  <2> QED
    BY <2>1, <2>2 DEF Promise!Next, Promise!Tick
<1>4. CASE UNCHANGED vars
  BY <1>4 DEF vars, Known, Limbo, FileIsTruth, Recording
<1> QED
  BY <1>1, <1>2, <1>3, <1>4, RecordStepKeepsPromise, PruneKeepsPromise, CrashKeepsPromise DEF Next

(* The file, its index and their crashes are what the trait promises: a    *)
(* record that was acknowledged is seen across restarts until it is        *)
(* pruned, and what was not acknowledged comes to light only in a restart. *)
THEOREM LedgerKeepsPromise ==
  ASSUME Careful
  PROVE  Spec => Implements
<1>1. Init /\ [][Next]_vars => [](TypeInv /\ LedgerInv)
  BY InitTypeInv, NextTypeInv, InitLedgerInv, NextLedgerInv, PTL
<1>2. TypeInv /\ LedgerInv /\ TypeInv' /\ LedgerInv' /\ [Next]_vars => [Promise!Next]_(Promise!svars)
  BY NextKeepsPromise
<1> QED
  BY <1>1, <1>2, PromiseInit, PTL DEF Spec, Implements, Promise!Spec

=============================================================================
