-------------------------- MODULE DaemonLifeProofs --------------------------
(***************************************************************************)
(* Proofs about the daemon's life cycle, for any number of daemons,        *)
(* clients and writes.  What depends on the single-instance guard is       *)
(* proved for as long as the guard holds: no start passed it while another *)
(* was between its guard and its PID file, and no probe took a live daemon *)
(* for dead.                                                               *)
(***************************************************************************)
EXTENDS DaemonLife, FiniteSetTheorems, TLAPS

(* Between the join and the stop no background task is left, and a call is *)
(* only served while the daemon runs.                                      *)
Quiet ==
  \A d \in Daemons :
    /\ pc[d] \in {"joined", "cancelled"} => tasks[d] = {}
    /\ call[d] # None => pc[d] \in Running
    /\ pc[d] \in {"off"} \cup Starting => receivers[d] = {}

TypeInv == TypeOK /\ Quiet

Connection == [state : {"idle", "port"} \cup Pending \cup Over,
               at : Daemons \cup {None}, op : Ops \cup {None}]

(* The PID file names the daemon that owns the directory, and nobody owns  *)
(* it while a daemon that passed the guard has not yet written the file.   *)
OwnsPid == \A d \in Daemons : pc[d] \in Owning => pidFile = d

StartsAlone ==
  /\ \A d, e \in Daemons : pc[d] \in Guarded /\ pc[e] \in Guarded => d = e
  /\ \A d, e \in Daemons : pc[d] \in Guarded => pc[e] \notin Owning

OneOwner == OwnsPid /\ StartsAlone

(* The temporary file is that of the daemon that writes it, and its        *)
(* snapshot when it is about to be renamed; what is under the checkpoint's *)
(* name is whole.                                                          *)
TmpIsOwn ==
  \A d \in Daemons :
    /\ pc[d] = "writing" => tmpFile \in Copy /\ tmpFile.by = d
    /\ pc[d] = "written" => tmpFile = [by |-> d, whole |-> TRUE, writes |-> snap[d]]

Decodes == checkpoint # None => checkpoint.whole

(* The acknowledged writes are in memory while the daemon lives, and in    *)
(* its snapshot once it is taken.                                          *)
AckedIsKept ==
  \A d \in Daemons :
    /\ pc[d] \in {"off"} \cup Starting => acked[d] = {}
    /\ Live(d) => acked[d] \subseteq fs[d]
    /\ pc[d] \in {"serialized", "writing", "written"} => acked[d] \subseteq snap[d]

(* A daemon whose checkpoint is in place acknowledges nothing any more,    *)
(* and its checkpoint has all it did acknowledge.                          *)
Done == {"renamed", "pidgone", "failedstop", "ended"}
CheckpointHasAcked ==
  /\ checkpoint # None =>
       /\ pc[checkpoint.by] \in Done
       /\ acked[checkpoint.by] \subseteq checkpoint.writes
  /\ \A d \in Daemons : loaded[d] # None => pc[loaded[d]] \in Done

(* Who started from a checkpoint has what was acknowledged before it.      *)
LoadedHasAcked ==
  \A d \in Daemons : loaded[d] # None => acked[loaded[d]] \subseteq fs[d]

SavedInv ==
  /\ TmpIsOwn /\ Decodes
  /\ AckedIsKept /\ CheckpointHasAcked /\ LoadedHasAcked

(* All this while the guard holds.                                         *)
WhileGuarded == ~unguarded => OneOwner /\ SavedInv

-----------------------------------------------------------------------------
(* Type correctness. *)

(* Types hold at the start.                                                *)
LEMMA InitTypeInv == Init => TypeInv
<1> SUFFICES ASSUME Init PROVE TypeInv
  OBVIOUS
<1>1. TypeOK
  <2>1. client \in [Clients -> Connection]
    BY DEF Init, Connection, Ops, Pending, Over
  <2>2. \A c \in Clients : client[c].state = "idle"
    BY DEF Init
  <2> QED
    BY <2>1, <2>2 DEF Init, TypeOK, Connection, Pending, Saved, Starting, Guarded, Running, Stopping, Ended, Tasks
<1>2. Quiet
  BY DEF Init, Quiet
<1> QED
  BY <1>1, <1>2 DEF TypeInv

(* The end of a process leaves nothing of it that is out of its type.      *)
LEMMA EndTypeInv ==
  ASSUME TypeInv, NEW d \in Daemons, End(d),
         pidFile' \in Daemons \cup {None}, portFile' \in Daemons \cup {None},
         UNCHANGED << tmpFile, checkpoint, client, unguarded >>
  PROVE  TypeInv'
BY DaemonAssumption
   DEF TypeInv, TypeOK, Quiet, End, Starting, Guarded, Running, Stopping, Ended, Tasks

(* Types through the steps that start the daemon.                          *)
LEMMA StartTypeInv ==
  ASSUME TypeInv, NEW d \in Daemons,
         \/ \E errs \in BOOLEAN : CheckPid(d, errs)
         \/ RemoveStale(d) \/ Restore(d, TRUE) \/ Restore(d, FALSE) \/ WritePid(d)
         \/ Bind(d) \/ StartMcp(d) \/ Spawn(d) \/ Wait(d)
  PROVE  TypeInv'
<1> USE DaemonAssumption DEF TypeInv, TypeOK, Quiet, Go, Starting, Guarded, Running, Stopping, Ended, Tasks
<1>1. ASSUME NEW errs \in BOOLEAN, CheckPid(d, errs) PROVE TypeInv'
  <2>1. /\ pc' = [pc EXCEPT ![d] = IF pidFile = None THEN "checked" ELSE "stale"]
           \/ pc' = [pc EXCEPT ![d] = "ended"]
        /\ pc[d] = "off" /\ unguarded' \in BOOLEAN
        /\ UNCHANGED << process, files, client >>
    BY <1>1 DEF CheckPid
  <2> QED
    BY <2>1 DEF process, files
<1>2. ASSUME NEW b \in BOOLEAN, Restore(d, b) PROVE TypeInv'
  <2>1. /\ pc' = [pc EXCEPT ![d] = "restored"] /\ pc[d] = "checked"
        /\ fs' \in [Daemons -> SUBSET Writes] /\ loaded' \in [Daemons -> Daemons \cup {None}]
    BY <1>2 DEF Restore, Saved, Copy
  <2>2. UNCHANGED << snap, receivers, notified, tasks, polling, call, acked, files, client, unguarded >>
    BY <1>2 DEF Restore
  <2> QED
    BY <2>1, <2>2 DEF files
<1>3. CASE WritePid(d)
  BY <1>3 DEF WritePid, process
<1>4. CASE Bind(d)
  BY <1>4 DEF Bind, process
<1>5. CASE StartMcp(d)
  BY <1>5 DEF StartMcp, process, files
<1>6. CASE Spawn(d)
  BY <1>6 DEF Spawn, files, Subscribers
<1>7. CASE Wait(d)
  BY <1>7 DEF Wait, files
<1>8. CASE RemoveStale(d)
  BY <1>8 DEF RemoveStale, process
<1> HIDE DEF TypeInv
<1> QED
  BY <1>1, <1>2, <1>3, <1>4, <1>5, <1>6, <1>7, <1>8, Zenon

(* Types while it runs.                                                    *)
LEMMA RunTypeInv ==
  ASSUME TypeInv, NEW d \in Daemons,
         \/ PollStart(d) \/ PollEnd(d) \/ AgentAnswer(d)
         \/ \E w \in Writes : AgentCall(d, w)
         \/ CtrlC(d) \/ HearShutdown(d) \/ \E t \in Tasks : EndTask(d, t)
  PROVE  TypeInv'
<1> USE DaemonAssumption DEF TypeInv, TypeOK, Quiet, Go, Starting, Guarded, Running, Stopping, Ended, Tasks, Live
<1>1. CASE PollStart(d)
  BY <1>1 DEF PollStart, files
<1>2. CASE PollEnd(d)
  BY <1>2 DEF PollEnd, files
<1>3. CASE AgentAnswer(d)
  BY <1>3 DEF AgentAnswer, files
<1>4. ASSUME NEW w \in Writes, AgentCall(d, w) PROVE TypeInv'
  BY <1>4 DEF AgentCall, McpAccepts, files
<1>5. CASE CtrlC(d)
  BY <1>5 DEF CtrlC, files
<1>6. CASE HearShutdown(d)
  BY <1>6 DEF HearShutdown, process, files
<1>7. ASSUME NEW t \in Tasks, EndTask(d, t) PROVE TypeInv'
  BY <1>7 DEF EndTask, files
<1> QED
  BY <1>1, <1>2, <1>3, <1>4, <1>5, <1>6, <1>7

(* What a daemon writes is a copy, whichever file its bytes are in.        *)
LEMMA WrittenCopy ==
  ASSUME NEW d \in Daemons, snap[d] \in SUBSET Writes, EndWrite(d)
  PROVE  tmpFile' \in Copy \cup {tmpFile} /\ checkpoint' \in Copy \cup {checkpoint}
<1> DEFINE mixed(whole) == [by |-> d, whole |-> whole, writes |-> IF whole THEN snap[d] ELSE {}]
           own == [by |-> d, whole |-> TRUE, writes |-> snap[d]]
<1>1. own \in Copy /\ \A whole \in BOOLEAN : mixed(whole) \in Copy
  BY DEF Copy
<1> HIDE DEF mixed, own
<1>2. \/ tmpFile' = own /\ UNCHANGED checkpoint
      \/ \E whole \in BOOLEAN : \/ tmpFile' = mixed(whole) /\ UNCHANGED checkpoint
                                \/ checkpoint' = mixed(whole) /\ UNCHANGED tmpFile
  BY Zenon DEF EndWrite, mixed, own
<1> QED
  BY <1>1, <1>2

(* Types while it stops.                                                   *)
LEMMA StopTypeInv ==
  ASSUME TypeInv, NEW d \in Daemons,
         \/ Join(d) \/ CancelMcp(d) \/ McpDown(d) \/ Serialize(d) \/ BeginWrite(d)
         \/ EndWrite(d) \/ FailStop(d) \/ RenameTmp(d) \/ RenameNothing(d) \/ RemovePid(d)
  PROVE  TypeInv'
<1> USE DaemonAssumption DEF TypeInv, TypeOK, Quiet, Go, Starting, Guarded, Running, Stopping, Ended, Tasks
<1>1. CASE Join(d)
  BY <1>1 DEF Join, process, files
<1>2. CASE CancelMcp(d)
  BY <1>2 DEF CancelMcp, process, files
<1>3. CASE McpDown(d)
  BY <1>3 DEF McpDown, process, files
<1>4. CASE Serialize(d)
  BY <1>4 DEF Serialize, files
<1>5. CASE BeginWrite(d)
  BY <1>5 DEF BeginWrite, process, Saved, Copy
<1>6. CASE EndWrite(d)
  <2>1. snap[d] \in SUBSET Writes
    OBVIOUS
  <2>2. tmpFile' \in Copy \cup {tmpFile} /\ checkpoint' \in Copy \cup {checkpoint}
    BY <1>6, <2>1, WrittenCopy
  <2>3. tmpFile' \in Saved /\ checkpoint' \in Saved
    BY <2>2 DEF Saved
  <2>4. /\ pc' = [pc EXCEPT ![d] = "written"] /\ pc[d] = "writing"
        /\ UNCHANGED << process, pidFile, portFile, client, unguarded >>
    BY <1>6 DEF EndWrite
  <2> QED
    BY <2>3, <2>4 DEF process
<1>7. CASE FailStop(d)
  BY <1>7 DEF FailStop, process, files
<1>8. CASE RenameTmp(d)
  BY <1>8 DEF RenameTmp, process, Saved
<1>9. CASE RemovePid(d)
  BY <1>9 DEF RemovePid, process
<1>10. CASE RenameNothing(d)
  BY <1>10 DEF RenameNothing, process, files
<1> QED
  BY <1>1, <1>2, <1>3, <1>4, <1>5, <1>6, <1>7, <1>8, <1>9, <1>10

(* A client's step changes only what is known of its own connection.       *)
LEMMA ConnectionTypeInv ==
  ASSUME TypeInv, NEW c \in Clients, NEW r \in Connection, client' = [client EXCEPT ![c] = r],
         r.state \in Pending => r.op # None,
         UNCHANGED << pc, fs, snap, receivers, tasks, polling, call, acked, loaded, files, unguarded >>,
         notified' \in {notified} \cup {[notified EXCEPT ![d] = receivers[d]] : d \in Daemons}
  PROVE  TypeInv'
BY DEF TypeInv, TypeOK, Quiet, Connection, files

(* Types through what clients do.                                          *)
LEMMA ClientTypeInv ==
  ASSUME TypeInv, NEW c \in Clients,
         \/ ReadPort(c) \/ Down(c) \/ AskStatus(c) \/ Redial(c)
         \/ Accept(c) \/ Shutdown(c) \/ Status(c) \/ ConnectionLost(c)
  PROVE  TypeInv'
<1>1. /\ client \in [Clients -> Connection] /\ client[c] \in Connection
      /\ {pidFile, portFile} \subseteq Daemons \cup {None}
  BY DEF TypeInv, TypeOK, Connection
<1> USE DEF Ops, Pending, Over
<1>2. CASE ReadPort(c)
  BY <1>1, <1>2, ConnectionTypeInv DEF ReadPort, process, Connection
<1>3. ASSUME NEW op \in Ops, Dial(c, op) PROVE TypeInv'
  <2>1. op # None
    BY DaemonAssumption
  <2> QED
    BY <1>1, <1>3, <2>1, ConnectionTypeInv DEF Dial, process, Connection
<1>4. CASE Redial(c)
  BY <1>1, <1>4, ConnectionTypeInv DEF Redial, process, Connection
<1>5. CASE Accept(c)
  <2>1. client[c].state = "sent" /\ UNCHANGED << pc, process, files, unguarded >>
        /\ client' = [client EXCEPT ![c] = [client[c] EXCEPT !.state = "accepted"]]
    BY <1>5, Zenon DEF Accept
  <2>2. [client[c] EXCEPT !.state = "accepted"] \in Connection
        /\ [client[c] EXCEPT !.state = "accepted"].op = client[c].op
    BY <1>1 DEF Connection
  <2>3. client[c].op # None
    BY <2>1 DEF TypeInv, TypeOK, Quiet
  <2> QED
    BY <2>1, <2>2, <2>3, ConnectionTypeInv DEF process
<1>6. CASE Shutdown(c)
  <2> DEFINE d == client[c].at
  <2>1. /\ client' = [client EXCEPT ![c] = [client[c] EXCEPT !.state = "ok"]]
        /\ notified' = [notified EXCEPT ![d] = receivers[d]]
        /\ UNCHANGED << pc, fs, snap, receivers, tasks, polling, call, acked, loaded, files, unguarded >>
    BY <1>6, Zenon DEF Shutdown
  <2>2. d \in Daemons \/ notified' = notified
    BY <2>1 DEF TypeInv, TypeOK
  <2>3. [client[c] EXCEPT !.state = "ok"] \in Connection /\ [client[c] EXCEPT !.state = "ok"].state = "ok"
    BY <1>1 DEF Connection
  <2> HIDE DEF d
  <2> QED
    BY <2>1, <2>2, <2>3, ConnectionTypeInv
<1> USE DEF TypeInv, TypeOK, Quiet
<1>7. CASE Status(c)
  BY <1>7 DEF Status, process, files
<1>8. CASE ConnectionLost(c)
  BY <1>8 DEF ConnectionLost, process, files
<1> QED
  BY <1>2, <1>3, <1>4, <1>5, <1>6, <1>7, <1>8 DEF Down, AskStatus

(* Every step keeps the types.                                             *)
LEMMA NextTypeInv == TypeInv /\ [Next]_vars => TypeInv'
<1> SUFFICES ASSUME TypeInv, [Next]_vars PROVE TypeInv'
  OBVIOUS
<1>1. ASSUME NEW d \in Daemons, FailStart(d) \/ Kill(d) \/ Exit(d) PROVE TypeInv'
  <2>1. /\ End(d) /\ UNCHANGED << tmpFile, checkpoint, client, unguarded >>
        /\ pidFile' = pidFile /\ portFile' \in {portFile, None}
    BY <1>1 DEF FailStart, Kill, Exit, files
  <2>2. {pidFile, portFile} \subseteq Daemons \cup {None}
    BY DEF TypeInv, TypeOK
  <2> QED
    BY <2>1, <2>2, EndTypeInv
<1>2. ASSUME NEW d \in Daemons,
             Progress(d) \/ FailStop(d) \/ \E errs \in BOOLEAN : CheckPid(d, errs)
      PROVE  TypeInv'
  BY <1>1, <1>2, StartTypeInv, RunTypeInv, StopTypeInv DEF Progress
<1>3. CASE UNCHANGED vars
  BY <1>3 DEF vars, process, files, TypeInv, TypeOK, Quiet
<1> QED
  BY <1>1, <1>2, <1>3, RunTypeInv, ClientTypeInv DEF Next

(* Every variable keeps its type; what is notified has subscribed, a       *)
(* pending request has a method, and a stopping daemon has neither tasks   *)
(* nor a call: for any daemons, those beside one another included.         *)
THEOREM LifeTypeCorrect == Spec => []TypeOK
<1>1. TypeInv => TypeOK
  BY DEF TypeInv
<1> QED
  BY <1>1, InitTypeInv, NextTypeInv, PTL DEF Spec

-----------------------------------------------------------------------------
(* One owner of the directory. *)

(* At the start nobody owns the PID file.                                  *)
LEMMA InitOneOwner == Init => OneOwner
BY DEF Init, OneOwner, OwnsPid, StartsAlone, Owning, Running, Guarded

(* Steps that move no daemon into or within the guarded part and the part  *)
(* where it owns the directory, and leave the PID file alone.              *)
LEMMA OwnerStutter ==
  ASSUME OneOwner, TypeInv, NEW d \in Daemons, NEW to, pc' = [pc EXCEPT ![d] = to],
         to \in Owning => pc[d] \in Owning,
         to \in Guarded => pc[d] \in Guarded,
         UNCHANGED pidFile
  PROVE  OneOwner'
BY DEF OneOwner, OwnsPid, StartsAlone, TypeInv, TypeOK

(* The guard: who passes it where it holds finds no live daemon, so nobody *)
(* owns the directory, and no other start under way.                       *)
LEMMA GuardOneOwner ==
  ASSUME OneOwner, TypeInv, NEW d \in Daemons, NEW errs \in BOOLEAN, CheckPid(d, errs),
         ~unguarded'
  PROVE  OneOwner'
<1>1. CASE GuardPasses(errs)
  <2>1. /\ pc' = [pc EXCEPT ![d] = IF pidFile = None THEN "checked" ELSE "stale"]
        /\ ~errs /\ (\A e \in Daemons : pc[e] \notin Guarded) /\ UNCHANGED pidFile
    BY <1>1 DEF CheckPid, Go, files
  <2>2. \A e \in Daemons : pc[e] \notin Owning
    BY <1>1, <2>1, DaemonAssumption
       DEF GuardPasses, IsAlive, Live, Ended, OneOwner, OwnsPid, Owning, Running
  <2> QED
    BY <2>1, <2>2 DEF OneOwner, OwnsPid, StartsAlone, TypeInv, TypeOK, Owning, Running
<1>2. CASE ~GuardPasses(errs)
  <2>1. pc' = [pc EXCEPT ![d] = "ended"] /\ UNCHANGED pidFile
    BY <1>2 DEF CheckPid, Go, files
  <2> QED
    BY <2>1, OwnerStutter DEF Owning, Running, Guarded
<1> QED
  BY <1>1, <1>2

(* The PID file is written, and a stale one removed, by the one daemon     *)
(* past the guard, and the owner's by the owner.                           *)
LEMMA PidOneOwner ==
  ASSUME OneOwner, TypeInv, NEW d \in Daemons, RemoveStale(d) \/ WritePid(d) \/ RemovePid(d)
  PROVE  OneOwner'
<1> USE DEF OneOwner, OwnsPid, StartsAlone, Go, Guarded, Owning, Running, TypeInv, TypeOK
<1>1. CASE RemoveStale(d)
  <2>1. \A e \in Daemons : pc[e] \notin Owning
    BY <1>1 DEF RemoveStale
  <2> QED
    BY <1>1, <2>1 DEF RemoveStale
<1>2. CASE WritePid(d)
  <2>1. \A e \in Daemons : pc[e] \notin Owning
    BY <1>2 DEF WritePid
  <2> QED
    BY <1>2, <2>1 DEF WritePid
<1>3. CASE RemovePid(d)
  <2>1. \A e \in Daemons \ {d} : pc[e] \notin Owning
    BY <1>3 DEF RemovePid
  <2> QED
    BY <1>3, <2>1 DEF RemovePid
<1> QED
  BY <1>1, <1>2, <1>3

(* Every step keeps the owner single while the guard holds.                *)
LEMMA NextOneOwner == TypeInv /\ OneOwner /\ [Next]_vars /\ ~unguarded' => OneOwner'
<1> SUFFICES ASSUME TypeInv, OneOwner, [Next]_vars, ~unguarded' PROVE OneOwner'
  OBVIOUS
<1>1. ASSUME NEW d \in Daemons, Progress(d) PROVE OneOwner'
  <2> USE <1>1, OwnerStutter DEF Go, Owning, Running, Guarded
  <2>1. CASE Restore(d, TRUE) \/ Restore(d, FALSE)
    BY <2>1 DEF Restore, files
  <2>2. CASE RemoveStale(d) \/ WritePid(d) \/ RemovePid(d)
    BY <2>2, PidOneOwner
  <2>3. CASE Bind(d) \/ StartMcp(d) \/ Spawn(d) \/ Wait(d) \/ HearShutdown(d)
    BY <2>3 DEF Bind, StartMcp, Spawn, Wait, HearShutdown, files
  <2>4. CASE Join(d) \/ CancelMcp(d) \/ McpDown(d) \/ Serialize(d)
    BY <2>4 DEF Join, CancelMcp, McpDown, Serialize, files
  <2>5. CASE BeginWrite(d) \/ EndWrite(d) \/ RenameTmp(d) \/ RenameNothing(d)
    BY <2>5 DEF BeginWrite, EndWrite, RenameTmp, RenameNothing, files
  <2>6. CASE Exit(d)
    BY <2>6 DEF Exit, End
  <2> QED
    BY <1>1, <2>1, <2>2, <2>3, <2>4, <2>5, <2>6 DEF Progress
<1>2. ASSUME NEW d \in Daemons, FailStart(d) \/ FailStop(d) \/ CtrlC(d) \/ Kill(d) PROVE OneOwner'
  BY <1>2, OwnerStutter
     DEF FailStart, FailStop, CtrlC, Kill, End, Go, files, Owning, Running, Guarded
<1>3. ASSUME UNCHANGED << pc, pidFile >> PROVE OneOwner'
  BY <1>3 DEF OneOwner, OwnsPid, StartsAlone
<1>4. ASSUME NEW d \in Daemons,
             \/ PollStart(d) \/ PollEnd(d) \/ AgentAnswer(d)
             \/ \E w \in Writes : AgentCall(d, w)
             \/ \E t \in Tasks : EndTask(d, t)
      PROVE  OneOwner'
  BY <1>3, <1>4 DEF PollStart, PollEnd, AgentAnswer, AgentCall, EndTask, files
<1>5. ASSUME NEW c \in Clients,
             \/ ReadPort(c) \/ Down(c) \/ AskStatus(c) \/ Redial(c)
             \/ Accept(c) \/ Shutdown(c) \/ Status(c) \/ ConnectionLost(c)
      PROVE  OneOwner'
  BY <1>3, <1>5 DEF ReadPort, Down, AskStatus, Dial, Redial, Accept, Shutdown, Status,
                    ConnectionLost, process, files
<1> QED
  BY <1>1, <1>2, <1>3, <1>4, <1>5, GuardOneOwner DEF Next, vars, files

-----------------------------------------------------------------------------
(* What a checkpoint holds. *)

(* At the start nothing was saved that is not on disk.                     *)
LEMMA InitSavedInv == Init => SavedInv
BY DEF Init, SavedInv, TmpIsOwn, Decodes, AckedIsKept, CheckpointHasAcked, LoadedHasAcked

(* The end of a process: it acknowledges nothing any more, and nobody has  *)
(* loaded anything but from daemons that are done.                         *)
LEMMA EndSavedInv ==
  ASSUME SavedInv, TypeInv, NEW d \in Daemons, End(d), UNCHANGED << tmpFile, checkpoint >>
  PROVE  SavedInv'
<1> USE DEF TypeInv, TypeOK, End
<1>1. TmpIsOwn' /\ Decodes'
  BY DEF SavedInv, TmpIsOwn, Decodes
<1>2. AckedIsKept'
  BY DEF SavedInv, AckedIsKept, Live, Ended, Starting, Guarded
<1>3. CheckpointHasAcked'
  BY DaemonAssumption DEF SavedInv, CheckpointHasAcked, Done, Saved, Copy
<1>4. LoadedHasAcked'
  BY DEF SavedInv, LoadedHasAcked
<1> QED
  BY <1>1, <1>2, <1>3, <1>4 DEF SavedInv

(* Steps of a daemon that change nothing of what it has written or saved,  *)
(* and do not bring it to the rename.                                      *)
LEMMA SavedStutter ==
  ASSUME SavedInv, TypeInv, NEW d \in Daemons,
         \A e \in Daemons \ {d} : pc'[e] = pc[e],
         pc[d] # "ended", pc[d] \in Done => pc'[d] \in Done,
         pc'[d] \in {"off"} \cup Starting => pc[d] \in {"off"} \cup Starting,
         pc'[d] \notin {"serialized", "written"},
         pc'[d] # "writing",
         UNCHANGED << fs, snap, acked, loaded, checkpoint >>,
         UNCHANGED tmpFile
  PROVE  SavedInv'
<1> USE DEF TypeInv, TypeOK
<1>1. TmpIsOwn' /\ Decodes'
  BY DEF SavedInv, TmpIsOwn, Decodes
<1>2. AckedIsKept'
  BY DEF SavedInv, AckedIsKept, Live, Ended, Starting, Guarded
<1>3. CheckpointHasAcked'
  BY DaemonAssumption DEF SavedInv, CheckpointHasAcked, Done, Saved, Copy
<1>4. LoadedHasAcked'
  BY DEF SavedInv, LoadedHasAcked
<1> QED
  BY <1>1, <1>2, <1>3, <1>4 DEF SavedInv

(* A start loads a whole checkpoint of a daemon that is done.              *)
LEMMA RestoreSavedInv ==
  ASSUME SavedInv, TypeInv, NEW d \in Daemons, NEW b \in BOOLEAN, Restore(d, b)
  PROVE  SavedInv'
<1> USE DEF TypeInv, TypeOK, Restore, Go, files
<1>1. TmpIsOwn' /\ Decodes'
  BY DEF SavedInv, TmpIsOwn, Decodes
<1>2. AckedIsKept'
  BY DEF SavedInv, AckedIsKept, Live, Ended, Starting, Guarded
<1>3. CheckpointHasAcked'
  BY DaemonAssumption DEF SavedInv, CheckpointHasAcked, Done, Saved, Copy
<1>4. LoadedHasAcked'
  BY DaemonAssumption DEF SavedInv, LoadedHasAcked, CheckpointHasAcked, Saved, Copy
<1> QED
  BY <1>1, <1>2, <1>3, <1>4 DEF SavedInv

(* A write is in memory before it is acknowledged, and no daemon that is   *)
(* done serves one.                                                        *)
LEMMA AnswerSavedInv ==
  ASSUME SavedInv, TypeInv, NEW d \in Daemons, AgentAnswer(d)
  PROVE  SavedInv'
<1> USE DEF TypeInv, TypeOK, AgentAnswer, files
<1>1. pc[d] \in Running
  BY DEF Quiet
<1>2. TmpIsOwn' /\ Decodes'
  BY DEF SavedInv, TmpIsOwn, Decodes
<1>3. AckedIsKept'
  BY <1>1 DEF SavedInv, AckedIsKept, Running, Starting, Guarded, Live
<1>4. CheckpointHasAcked'
  BY <1>1, DaemonAssumption DEF SavedInv, CheckpointHasAcked, Done, Running, Saved, Copy
<1>5. LoadedHasAcked'
  BY <1>1 DEF SavedInv, LoadedHasAcked, CheckpointHasAcked, Done, Running
<1> QED
  BY <1>2, <1>3, <1>4, <1>5 DEF SavedInv

(* The steps of save_checkpoint.  The temporary file is the owner's alone. *)
LEMMA CheckpointSavedInv ==
  ASSUME SavedInv, TypeInv, OneOwner, NEW d \in Daemons,
         Serialize(d) \/ BeginWrite(d) \/ EndWrite(d) \/ RenameTmp(d)
  PROVE  SavedInv'
<1> USE DEF TypeInv, TypeOK, Go
<1>1. \A e \in Daemons \ {d} : pc[e] \notin {"writing", "written"}
  BY DEF Serialize, BeginWrite, EndWrite, RenameTmp, OneOwner, OwnsPid, Owning
<1>2. CASE Serialize(d)
  <2> USE <1>2 DEF Serialize, files
  <2>1. TmpIsOwn' /\ Decodes'
    BY DEF SavedInv, TmpIsOwn, Decodes
  <2>2. AckedIsKept'
    BY DEF SavedInv, AckedIsKept, Live, Ended, Starting, Guarded
  <2>3. CheckpointHasAcked'
    BY DaemonAssumption DEF SavedInv, CheckpointHasAcked, Done, Saved, Copy
  <2>4. LoadedHasAcked'
    BY DEF SavedInv, LoadedHasAcked
  <2> QED
    BY <2>1, <2>2, <2>3, <2>4 DEF SavedInv
<1>3. CASE BeginWrite(d)
  <2> USE <1>3 DEF BeginWrite, process
  <2>1. TmpIsOwn' /\ Decodes'
    BY <1>1 DEF SavedInv, TmpIsOwn, Decodes, Copy
  <2>2. AckedIsKept'
    BY DEF SavedInv, AckedIsKept, Live, Ended, Starting, Guarded
  <2>3. CheckpointHasAcked'
    BY DaemonAssumption DEF SavedInv, CheckpointHasAcked, Done, Saved, Copy
  <2>4. LoadedHasAcked'
    BY DEF SavedInv, LoadedHasAcked
  <2> QED
    BY <2>1, <2>2, <2>3, <2>4 DEF SavedInv
<1>4. CASE EndWrite(d)
  <2>5. /\ Go(d, "writing", "written") /\ UNCHANGED << process, pidFile, portFile, checkpoint >>
        /\ tmpFile' = [by |-> d, whole |-> TRUE, writes |-> snap[d]]
    BY <1>4, DaemonAssumption DEF EndWrite, SavedInv, TmpIsOwn
  <2> USE <2>5 DEF process
  <2>1. TmpIsOwn' /\ Decodes'
    BY <1>1 DEF SavedInv, TmpIsOwn, Decodes
  <2>2. AckedIsKept'
    BY DEF SavedInv, AckedIsKept, Live, Ended, Starting, Guarded
  <2>3. CheckpointHasAcked'
    BY DaemonAssumption DEF SavedInv, CheckpointHasAcked, Done, Saved, Copy
  <2>4. LoadedHasAcked'
    BY DEF SavedInv, LoadedHasAcked
  <2> QED
    BY <2>1, <2>2, <2>3, <2>4 DEF SavedInv
<1>5. CASE RenameTmp(d)
  <2> USE <1>5 DEF RenameTmp, process
  <2>1. checkpoint' = [by |-> d, whole |-> TRUE, writes |-> snap[d]]
    BY DEF SavedInv, TmpIsOwn
  <2>2. TmpIsOwn' /\ Decodes'
    BY <1>1, <2>1 DEF SavedInv, TmpIsOwn, Decodes
  <2>3. AckedIsKept'
    BY DEF SavedInv, AckedIsKept, Live, Ended, Starting, Guarded
  <2>4. CheckpointHasAcked'
    BY <2>1 DEF SavedInv, CheckpointHasAcked, Done, AckedIsKept
  <2>5. LoadedHasAcked'
    BY DEF SavedInv, LoadedHasAcked
  <2> QED
    BY <2>2, <2>3, <2>4, <2>5 DEF SavedInv
<1> QED
  BY <1>2, <1>3, <1>4, <1>5

(* Every step keeps what was saved.                                        *)
LEMMA NextSavedInv == TypeInv /\ OneOwner /\ SavedInv /\ [Next]_vars => SavedInv'
<1> SUFFICES ASSUME TypeInv, OneOwner, SavedInv, [Next]_vars PROVE SavedInv'
  OBVIOUS
<1>1. ASSUME NEW d \in Daemons, FailStart(d) \/ Kill(d) \/ Exit(d) PROVE SavedInv'
  BY <1>1, EndSavedInv DEF FailStart, Kill, Exit, files
<1>2. ASSUME NEW d \in Daemons,
             \/ \E errs \in BOOLEAN : CheckPid(d, errs)
             \/ RemoveStale(d) \/ WritePid(d) \/ Bind(d) \/ StartMcp(d) \/ Spawn(d) \/ Wait(d)
             \/ CtrlC(d) \/ HearShutdown(d) \/ Join(d) \/ CancelMcp(d) \/ McpDown(d)
             \/ FailStop(d) \/ RenameNothing(d) \/ RemovePid(d)
      PROVE  SavedInv'
  <2> USE DEF Go, Starting, Guarded, Done
  <2>1. ASSUME NEW errs \in BOOLEAN, CheckPid(d, errs) PROVE SavedInv'
    <3>1. /\ \A e \in Daemons \ {d} : pc'[e] = pc[e]
          /\ pc[d] = "off" /\ pc'[d] \in {"stale", "checked", "ended"}
          /\ UNCHANGED << fs, snap, acked, loaded, checkpoint, tmpFile >>
      BY <2>1 DEF CheckPid, process, files, TypeInv, TypeOK
    <3> QED
      BY <3>1, SavedStutter
  <2>2. CASE WritePid(d)
    BY <2>2, SavedStutter DEF WritePid, process
  <2>3. CASE Bind(d)
    BY <2>3, SavedStutter DEF Bind, process
  <2>4. CASE StartMcp(d)
    BY <2>4, SavedStutter DEF StartMcp, process, files
  <2>5. CASE Spawn(d)
    BY <2>5, SavedStutter DEF Spawn, files
  <2>6. CASE Wait(d)
    BY <2>6, SavedStutter DEF Wait, files
  <2>7. CASE CtrlC(d)
    BY <2>7, SavedStutter DEF CtrlC, files
  <2>8. CASE HearShutdown(d)
    BY <2>8, SavedStutter DEF HearShutdown, process, files
  <2>9. CASE Join(d)
    BY <2>9, SavedStutter DEF Join, process, files
  <2>10. CASE CancelMcp(d)
    BY <2>10, SavedStutter DEF CancelMcp, process, files
  <2>11. CASE McpDown(d)
    BY <2>11, SavedStutter DEF McpDown, process, files
  <2>12. CASE FailStop(d) \/ RenameNothing(d)
    <3>1. /\ \A e \in Daemons \ {d} : pc'[e] = pc[e]
          /\ pc[d] \in {"serialized", "writing", "written", "renamed"} /\ pc'[d] = "failedstop"
          /\ UNCHANGED << fs, snap, acked, loaded, checkpoint, tmpFile >>
      BY <2>12 DEF FailStop, RenameNothing, process, files, TypeInv, TypeOK
    <3> QED
      BY <3>1, SavedStutter
  <2>13. CASE RemovePid(d)
    BY <2>13, SavedStutter DEF RemovePid, process
  <2>14. CASE RemoveStale(d)
    BY <2>14, SavedStutter DEF RemoveStale, process
  <2> QED
    BY <1>2, <2>1, <2>2, <2>3, <2>4, <2>5, <2>6, <2>7, <2>8, <2>9, <2>10, <2>11, <2>12, <2>13, <2>14
<1>3. ASSUME UNCHANGED << pc, fs, snap, acked, loaded, tmpFile, checkpoint >> PROVE SavedInv'
  BY <1>3 DEF SavedInv, TmpIsOwn, Decodes, AckedIsKept, CheckpointHasAcked,
              LoadedHasAcked, Live
<1>4. ASSUME NEW d \in Daemons,
             \/ PollStart(d) \/ PollEnd(d)
             \/ \E w \in Writes : AgentCall(d, w)
             \/ \E t \in Tasks : EndTask(d, t)
      PROVE  SavedInv'
  BY <1>3, <1>4 DEF PollStart, PollEnd, AgentCall, EndTask, files
<1>5. ASSUME NEW c \in Clients,
             \/ ReadPort(c) \/ Down(c) \/ AskStatus(c) \/ Redial(c)
             \/ Accept(c) \/ Shutdown(c) \/ Status(c) \/ ConnectionLost(c)
      PROVE  SavedInv'
  BY <1>3, <1>5 DEF ReadPort, Down, AskStatus, Dial, Redial, Accept, Shutdown, Status,
                    ConnectionLost, process, files
<1>6. CASE UNCHANGED vars
  BY <1>3, <1>6 DEF vars, process, files
<1> QED
  BY <1>1, <1>2, <1>4, <1>5, <1>6, RestoreSavedInv, AnswerSavedInv, CheckpointSavedInv
     DEF Next, Progress

-----------------------------------------------------------------------------
(* While the guard holds. *)

(* A guard that failed has failed.                                         *)
LEMMA GuardFailsOnce == TypeInv /\ [Next]_vars /\ unguarded => unguarded'
<1> SUFFICES ASSUME TypeInv, [Next]_vars, unguarded PROVE unguarded'
  OBVIOUS
<1>1. ASSUME NEW d \in Daemons, NEW errs \in BOOLEAN, CheckPid(d, errs) PROVE unguarded'
  BY <1>1 DEF CheckPid
<1>2. ASSUME UNCHANGED unguarded PROVE unguarded'
  BY <1>2
<1> QED
  BY <1>1, <1>2, ZenonT(30)
     DEF Next, vars, Progress, RemoveStale, Restore, WritePid, Bind, StartMcp, FailStart, Spawn, Wait,
         PollStart, PollEnd, AgentCall, AgentAnswer, ReadPort, Down, AskStatus, Dial, Redial, Accept,
         Shutdown, Status, ConnectionLost, CtrlC, HearShutdown, EndTask, Join, CancelMcp, McpDown,
         Serialize, BeginWrite, EndWrite, FailStop, RenameTmp, RenameNothing, RemovePid, Exit, Kill

(* Every step keeps what the guard is for while it holds.                  *)
LEMMA NextWhileGuarded == TypeInv /\ WhileGuarded /\ [Next]_vars => WhileGuarded'
<1> SUFFICES ASSUME TypeInv, WhileGuarded, [Next]_vars, ~unguarded' PROVE OneOwner' /\ SavedInv'
  BY DEF WhileGuarded
<1>1. OneOwner /\ SavedInv
  BY GuardFailsOnce DEF WhileGuarded
<1> QED
  BY <1>1, NextOneOwner, NextSavedInv

(* It is so in every state.                                                *)
LEMMA GuardInvariant == Spec => []WhileGuarded
<1>1. Init => WhileGuarded
  BY InitOneOwner, InitSavedInv DEF WhileGuarded
<1> QED
  BY <1>1, InitTypeInv, NextTypeInv, NextWhileGuarded, PTL DEF Spec

(* Unless a start passed the guard while another was between its guard and *)
(* its PID file, or a probe took a live daemon for dead, at most one       *)
(* daemon is between its PID file and the end of its checkpoint, through   *)
(* kills, failed starts, failed stops and stale files.                     *)
THEOREM OneInstance == Spec => []SingleInstance
<1>1. WhileGuarded => SingleInstance
  <2> SUFFICES ASSUME OneOwner PROVE OneOwns
    BY DEF WhileGuarded, SingleInstance
  <2> DEFINE owners == {d \in Daemons : pc[d] \in Owning}
  <2>1. owners \subseteq {pidFile}
    BY DEF OneOwner, OwnsPid
  <2>2. Cardinality(owners) <= Cardinality({pidFile})
    BY <2>1, FS_Singleton, FS_Subset
  <2> QED
    BY <2>2, FS_Singleton DEF OneOwns
<1> QED
  BY <1>1, GuardInvariant, PTL

(* While the guard holds, the checkpoint decodes wherever daemons were     *)
(* killed or failed while they wrote it.                                   *)
THEOREM CheckpointDecodes == Spec => []CheckpointWhole
<1>1. WhileGuarded => CheckpointWhole
  BY DEF WhileGuarded, SavedInv, Decodes, CheckpointWhole
<1> QED
  BY <1>1, GuardInvariant, PTL

(* While the guard holds, a daemon that started from a checkpoint has      *)
(* every write that the daemon of that checkpoint acknowledged.            *)
THEOREM AcknowledgedComesBack == Spec => []WritesComeBack
<1>1. WhileGuarded => WritesComeBack
  BY DEF WhileGuarded, SavedInv, LoadedHasAcked, WritesComeBack
<1> QED
  BY <1>1, GuardInvariant, PTL

=============================================================================
