----------------------------- MODULE DaemonLife -----------------------------
(***************************************************************************)
(* The daemon's life in its data directory: the composition root run_up    *)
(* (crates/devdev-cli/src/daemon_cli.rs) with Daemon::start and stop       *)
(* (crates/devdev-daemon/src/lib.rs), the PID, port and checkpoint files,  *)
(* the background tasks, the MCP server agents write files through, and    *)
(* clients that ask for a shutdown.  Several daemons are started on one    *)
(* directory; a daemon may be killed at any point.                         *)
(*                                                                         *)
(* A daemon stands for its process: its PID, its port, its memory.  The    *)
(* filesystem is the set of writes it holds (MemFs models it in full).     *)
(***************************************************************************)
EXTENDS Naturals, FiniteSets

CONSTANTS
  Daemons, (* bound: daemons ever started on the directory                 *)
  Clients, (* bound: clients; each has one request at a time               *)
  Writes,  (* the writes agents make                                       *)
  AskBeside, (* bound: whether agents, ticks and clients begin something   *)
             (* new after the guard has failed                             *)
  None

(* A checkpoint file: who wrote it, whether to the end, and what it holds. *)
Copy == [by : Daemons, whole : BOOLEAN, writes : SUBSET Writes]

ASSUME DaemonAssumption ==
  /\ AskBeside \in BOOLEAN
  /\ None \notin Copy
  /\ None \notin Daemons \cup Writes \cup {"down", "status"}

VARIABLES
  pc,        (* where run_up of each daemon is                             *)
  fs,        (* Daemon.fs                                                  *)
  snap,      (* what save_checkpoint serialized                            *)
  receivers, (* the subscribers of the shutdown watch                      *)
  notified,  (* those that have a change to see                            *)
  tasks,     (* background tasks that have not ended                       *)
  polling,   (* the scheduler is inside poll_all_tasks                     *)
  call,      (* the agent's devdev_fs_write the MCP server is serving      *)
  pidFile, portFile, tmpFile, checkpoint,   (* the data directory          *)
  client,    (* each client: its request, and the daemon whose port it has *)
  acked,     (* history: the writes a daemon acknowledged                  *)
  loaded,    (* history: whose checkpoint a daemon started from            *)
  unguarded  (* history: the guard let a start pass while another was      *)
             (* between its guard and its PID file, or took a live daemon  *)
             (* for dead                                                   *)

process == << fs, snap, receivers, notified, tasks, polling, call, acked, loaded >>
files   == << pidFile, portFile, tmpFile, checkpoint >>
vars    == << pc, process, files, client, unguarded >>

(* Past the guard, and the PID file is not written yet.                    *)
Guarded  == {"stale", "checked", "restored"}
Starting == Guarded \cup {"pid", "bound", "mcp"}
Running  == {"spawned", "waiting", "joining", "joined", "cancelled"}
Stopping == {"mcpdown", "serialized", "writing", "written", "renamed", "pidgone", "failedstop"}
Ended    == {"off", "ended"}

(* A request: the methods shutdown and status; whether it is being asked,  *)
(* or how it ended.                                                        *)
Ops     == {"down", "status"}
Pending == {"sent", "accepted"}
Over    == {"ok", "refused", "closed"}

Tasks == {"server", "coordinator", "scheduler"}
Saved == Copy \cup {None}

TypeOK ==
  /\ pc \in [Daemons -> Starting \cup Running \cup Stopping \cup Ended]
  /\ fs \in [Daemons -> SUBSET Writes]
  /\ snap \in [Daemons -> SUBSET Writes]
  /\ receivers \in [Daemons -> SUBSET (Tasks \cup {"main"})]
  /\ notified \in [Daemons -> SUBSET (Tasks \cup {"main"})]
  /\ tasks \in [Daemons -> SUBSET Tasks]
  /\ polling \in [Daemons -> BOOLEAN]
  /\ call \in [Daemons -> Writes \cup {None}]
  /\ {pidFile, portFile} \subseteq Daemons \cup {None}
  /\ tmpFile \in Saved /\ checkpoint \in Saved
  /\ client \in [Clients -> [state : {"idle", "port"} \cup Pending \cup Over,
                             at : Daemons \cup {None}, op : Ops \cup {None}]]
  /\ \A c \in Clients : client[c].state \in Pending => client[c].op # None
  /\ acked \in [Daemons -> SUBSET Writes]
  /\ loaded \in [Daemons -> Daemons \cup {None}]
  /\ unguarded \in BOOLEAN
  /\ \A d \in Daemons : /\ notified[d] \subseteq receivers[d]
                        /\ pc[d] \in Stopping => tasks[d] = {} /\ call[d] = None

Live(d) == pc[d] \notin Ended
Go(d, from, to) == pc[d] = from /\ pc' = [pc EXCEPT ![d] = to]

(* The process ends, and its memory and its tasks with it.                 *)
End(d) ==
  /\ pc' = [pc EXCEPT ![d] = "ended"]
  /\ fs' = [fs EXCEPT ![d] = {}] /\ snap' = [snap EXCEPT ![d] = {}]
  /\ receivers' = [receivers EXCEPT ![d] = {}] /\ notified' = [notified EXCEPT ![d] = {}]
  /\ tasks' = [tasks EXCEPT ![d] = {}] /\ polling' = [polling EXCEPT ![d] = FALSE]
  /\ call' = [call EXCEPT ![d] = None] /\ loaded' = [loaded EXCEPT ![d] = None]
  /\ UNCHANGED acked

-----------------------------------------------------------------------------
(* Daemon::start *)

(* The single-instance guard.  is_alive runs `tasklist` or `kill -0`.  It  *)
(* errs both ways: a probe that cannot run, or is refused, says of a live  *)
(* daemon that it is dead; and a dead daemon's PID may be the number of an *)
(* unrelated process by now.                                               *)
IsAlive(d, errs) == Live(d) # errs

GuardStaleOnly(errs) ==        (* mutant: any PID file counts as stale *)
  TRUE
GuardPasses(errs) == IF pidFile = None THEN TRUE ELSE ~IsAlive(pidFile, errs)

(* Daemons are alike: the next to start is one of those that have not.     *)
CheckPid(d, errs) ==
  /\ pc[d] = "off" /\ d = CHOOSE e \in Daemons : pc[e] = "off"
  /\ pidFile = None => ~errs
  /\ IF GuardPasses(errs)
       THEN /\ Go(d, "off", IF pidFile = None THEN "checked" ELSE "stale")
            /\ unguarded' = (unguarded \/ errs \/ \E e \in Daemons : pc[e] \in Guarded)
       ELSE Go(d, "off", "ended") /\ UNCHANGED unguarded
  /\ UNCHANGED << process, files, client >>

(* The PID file is removed, whoever's it is by now.                        *)
RemoveStale(d) ==
  /\ Go(d, "stale", "checked")
  /\ pidFile' = None
  /\ UNCHANGED << process, portFile, tmpFile, checkpoint, client, unguarded >>

(* With --checkpoint, the checkpoint if there is one.  One that does not   *)
(* decode fails the start (FailStart).                                     *)
Restore(d, fromCheckpoint) ==
  /\ Go(d, "checked", "restored")
  /\ IF fromCheckpoint /\ checkpoint # None
       THEN /\ checkpoint.whole
            /\ fs' = [fs EXCEPT ![d] = checkpoint.writes]
            /\ loaded' = [loaded EXCEPT ![d] = checkpoint.by]
       ELSE UNCHANGED << fs, loaded >>
  /\ UNCHANGED << snap, receivers, notified, tasks, polling, call, acked, files, client, unguarded >>

WritePid(d) ==
  /\ Go(d, "restored", "pid")
  /\ pidFile' = d
  /\ UNCHANGED << process, portFile, tmpFile, checkpoint, client, unguarded >>

-----------------------------------------------------------------------------
(* The rest of run_up, to the point where it waits. *)

(* IpcServer::bind and write_port_file: from here clients can connect.     *)
Bind(d) ==
  /\ Go(d, "pid", "bound")
  /\ portFile' = d
  /\ UNCHANGED << process, pidFile, tmpFile, checkpoint, client, unguarded >>

StartMcp(d) == Go(d, "bound", "mcp") /\ UNCHANGED << process, files, client, unguarded >>

(* An error of any of these steps, or of opening the ledger, ends run_up   *)
(* without undoing what is done: the files stay.                           *)
FailStart(d) ==
  /\ pc[d] \in Starting
  /\ End(d)
  /\ UNCHANGED << files, client, unguarded >>

SubscribersLate == {"server", "scheduler"}  (* mutant: the coordinator subscribes inside its task *)
Subscribers == Tasks

(* Coordinator, scheduler and accept loop are spawned, in this order, each *)
(* with a subscription taken before.                                       *)
Spawn(d) ==
  /\ Go(d, "mcp", "spawned")
  /\ tasks' = [tasks EXCEPT ![d] = Tasks]
  /\ receivers' = [receivers EXCEPT ![d] = Subscribers]
  /\ UNCHANGED << fs, snap, notified, polling, call, acked, loaded, files, client, unguarded >>

(* Only now does run_up itself subscribe.                                  *)
Wait(d) ==
  /\ Go(d, "spawned", "waiting")
  /\ receivers' = [receivers EXCEPT ![d] = @ \cup {"main"}]
  /\ UNCHANGED << fs, snap, notified, tasks, polling, call, acked, loaded, files, client, unguarded >>

-----------------------------------------------------------------------------
(* While it runs. *)

Asks == AskBeside \/ ~unguarded

(* A tick of the scheduler; poll_all_tasks ends in its own time.           *)
PollStart(d) ==
  /\ Asks
  /\ Live(d) /\ "scheduler" \in tasks[d] /\ ~polling[d]
  /\ polling' = [polling EXCEPT ![d] = TRUE]
  /\ UNCHANGED << pc, fs, snap, receivers, notified, tasks, call, acked, loaded, files, client, unguarded >>

PollEnd(d) ==
  /\ Live(d) /\ polling[d]
  /\ polling' = [polling EXCEPT ![d] = FALSE]
  /\ UNCHANGED << pc, fs, snap, receivers, notified, tasks, call, acked, loaded, files, client, unguarded >>

McpAcceptsForever(d) ==        (* mutant: the MCP server is never shut down *)
  pc[d] \in (Running \cup Stopping)
McpAccepts(d) == pc[d] \in Running \ {"cancelled"}

(* An agent calls devdev_fs_write; the file is written under the lock and  *)
(* the call answered.                                                      *)
AgentCall(d, w) ==
  /\ Asks
  /\ McpAccepts(d) /\ call[d] = None /\ w \notin acked[d]
  /\ call' = [call EXCEPT ![d] = w]
  /\ UNCHANGED << pc, fs, snap, receivers, notified, tasks, polling, acked, loaded, files, client, unguarded >>

AgentAnswer(d) ==
  /\ Live(d) /\ call[d] # None
  /\ fs' = [fs EXCEPT ![d] = @ \cup {call[d]}]
  /\ acked' = [acked EXCEPT ![d] = @ \cup {call[d]}]
  /\ call' = [call EXCEPT ![d] = None]
  /\ UNCHANGED << pc, snap, receivers, notified, tasks, polling, loaded, files, client, unguarded >>

(* A client takes the port from the port file, and connects only then: it  *)
(* is refused when nobody listens there any more.                          *)
Listening(d) == Live(d) /\ (pc[d] \in {"bound", "mcp"} \/ "server" \in tasks[d])

ReadPort(c) ==
  /\ Asks
  /\ client[c].state = "idle"
  /\ client' = [client EXCEPT ![c] = [state |-> IF portFile = None THEN "refused" ELSE "port",
                                      at |-> portFile, op |-> None]]
  /\ UNCHANGED << pc, process, files, unguarded >>

Dial(c, op) ==
  /\ Asks
  /\ client[c].state = "port"
  /\ client' = [client EXCEPT ![c] =
                   [state |-> IF Listening(client[c].at) THEN "sent" ELSE "refused",
                    at |-> client[c].at, op |-> op]]
  /\ UNCHANGED << pc, process, files, unguarded >>

Down(c)      == Dial(c, "down")
AskStatus(c) == Dial(c, "status")

(* A client that lives longer than one request, such as the harness of the *)
(* scenarios, keeps the port it read.                                      *)
Redial(c) ==
  /\ Asks
  /\ client[c].state \in Over /\ client[c].at # None
  /\ client' = [client EXCEPT ![c] = [state |-> "port", at |-> client[c].at, op |-> None]]
  /\ UNCHANGED << pc, process, files, unguarded >>

(* server::run accepts and spawns handle_connection, which nobody awaits.  *)
Accept(c) ==
  /\ client[c].state = "sent"
  /\ LET d == client[c].at IN Live(d) /\ "server" \in tasks[d]
  /\ client' = [client EXCEPT ![c].state = "accepted"]
  /\ UNCHANGED << pc, process, files, unguarded >>

(* handle_shutdown: every subscriber there is sees a change.               *)
Shutdown(c) ==
  LET d == client[c].at
  IN  /\ client[c].state = "accepted" /\ client[c].op = "down" /\ Live(d)
      /\ notified' = [notified EXCEPT ![d] = receivers[d]]
      /\ client' = [client EXCEPT ![c].state = "ok"]
      /\ UNCHANGED << pc, fs, snap, receivers, tasks, polling, call, acked, loaded, files, unguarded >>

(* handle_status takes the registry's lock, which a poll holds to its end  *)
(* (a tick here polls one task).                                           *)
Status(c) ==
  LET d == client[c].at
  IN  /\ client[c].state = "accepted" /\ client[c].op = "status" /\ Live(d)
      /\ ~polling[d]
      /\ client' = [client EXCEPT ![c].state = "ok"]
      /\ UNCHANGED << pc, process, files, unguarded >>

(* IpcClient::request reads the end of the stream: "connection closed".    *)
ConnectionLost(c) ==
  /\ \/ client[c].state = "sent" /\ ~Listening(client[c].at)
     \/ client[c].state = "accepted" /\ ~Live(client[c].at)
  /\ client' = [client EXCEPT ![c].state = "closed"]
  /\ UNCHANGED << pc, process, files, unguarded >>

-----------------------------------------------------------------------------
(* Shutting down. *)

CtrlC(d) ==
  /\ Go(d, "waiting", "joining")
  /\ notified' = [notified EXCEPT ![d] = receivers[d]]
  /\ UNCHANGED << fs, snap, receivers, tasks, polling, call, acked, loaded, files, client, unguarded >>

HearShutdown(d) ==
  /\ "main" \in notified[d]
  /\ Go(d, "waiting", "joining")
  /\ UNCHANGED << process, files, client, unguarded >>

EndTask(d, t) ==
  /\ Live(d)
  /\ t \in tasks[d] \cap notified[d]
  /\ t = "scheduler" => ~polling[d]
  /\ tasks' = [tasks EXCEPT ![d] = @ \ {t}]
  /\ UNCHANGED << pc, fs, snap, receivers, notified, polling, call, acked, loaded, files, client, unguarded >>

JoinServer(d) ==               (* mutant: the other two are not awaited *)
  /\ "server" \notin tasks[d]
  /\ Go(d, "joining", "joined")
  /\ UNCHANGED << process, files, client, unguarded >>

Join(d) ==
  /\ tasks[d] = {}
  /\ Go(d, "joining", "joined")
  /\ UNCHANGED << process, files, client, unguarded >>

(* mcp_server.shutdown: no new calls, and the one being served completes.  *)
CancelMcp(d) == Go(d, "joined", "cancelled") /\ UNCHANGED << process, files, client, unguarded >>

McpDown(d) ==
  /\ call[d] = None
  /\ Go(d, "cancelled", "mcpdown")
  /\ UNCHANGED << process, files, client, unguarded >>

(* Daemon::stop: save_checkpoint, then the PID file.                       *)
Serialize(d) ==
  /\ Go(d, "mcpdown", "serialized")
  /\ snap' = [snap EXCEPT ![d] = fs[d]]
  /\ UNCHANGED << fs, receivers, notified, tasks, polling, call, acked, loaded, files, client, unguarded >>

WriteInPlace(d) ==             (* mutant: no temporary file *)
  /\ Go(d, "serialized", "writing")
  /\ checkpoint' = [by |-> d, whole |-> FALSE, writes |-> {}]
  /\ tmpFile' = checkpoint'
  /\ UNCHANGED << process, pidFile, portFile, client, unguarded >>

(* atomic_write.  All daemons use the same temporary file: one that ends   *)
(* its write after another opened or renamed that file has its bytes among *)
(* the other's, wherever the file is by then.                              *)
BeginWrite(d) ==
  /\ Go(d, "serialized", "writing")
  /\ tmpFile' = [by |-> d, whole |-> FALSE, writes |-> {}]
  /\ UNCHANGED << process, pidFile, portFile, checkpoint, client, unguarded >>

EndWrite(d) ==
  /\ Go(d, "writing", "written")
  /\ IF tmpFile # None /\ tmpFile.by = d
       THEN /\ tmpFile' = [by |-> d, whole |-> TRUE, writes |-> snap[d]]
            /\ UNCHANGED checkpoint
       ELSE \E whole \in BOOLEAN :
              LET mixed == [by |-> d, whole |-> whole, writes |-> IF whole THEN snap[d] ELSE {}]
              IN  \/ tmpFile # None /\ tmpFile' = mixed /\ UNCHANGED checkpoint
                  \/ checkpoint # None /\ checkpoint' = mixed /\ UNCHANGED tmpFile
  /\ UNCHANGED << process, pidFile, portFile, client, unguarded >>

(* An error of save_checkpoint, or of removing the PID file, ends stop;    *)
(* what is written of the temporary file stays.                            *)
FailStop(d) ==
  /\ pc[d] \in {"serialized", "writing", "written", "renamed"}
  /\ Go(d, pc[d], "failedstop")
  /\ UNCHANGED << process, files, client, unguarded >>

RenameTmp(d) ==
  /\ tmpFile # None
  /\ Go(d, "written", "renamed")
  /\ checkpoint' = tmpFile
  /\ tmpFile' = None
  /\ UNCHANGED << process, pidFile, portFile, client, unguarded >>

(* Another daemon renamed the temporary file.                              *)
RenameNothing(d) ==
  /\ tmpFile = None
  /\ Go(d, "written", "failedstop")
  /\ UNCHANGED << process, files, client, unguarded >>

RemovePid(d) ==
  /\ Go(d, "renamed", "pidgone")
  /\ pidFile' = None
  /\ UNCHANGED << process, portFile, tmpFile, checkpoint, client, unguarded >>

(* The port file goes last, whoever wrote it, and after a failed           *)
(* checkpoint too.                                                         *)
Exit(d) ==
  /\ pc[d] \in {"pidgone", "failedstop"}
  /\ End(d)
  /\ portFile' = None
  /\ UNCHANGED << pidFile, tmpFile, checkpoint, client, unguarded >>

Kill(d) ==
  /\ Live(d)
  /\ End(d)
  /\ UNCHANGED << files, client, unguarded >>

-----------------------------------------------------------------------------
Init ==
  /\ pc = [d \in Daemons |-> "off"]
  /\ fs = [d \in Daemons |-> {}]
  /\ snap = [d \in Daemons |-> {}]
  /\ receivers = [d \in Daemons |-> {}]
  /\ notified = [d \in Daemons |-> {}]
  /\ tasks = [d \in Daemons |-> {}]
  /\ polling = [d \in Daemons |-> FALSE]
  /\ call = [d \in Daemons |-> None]
  /\ pidFile = None /\ portFile = None /\ tmpFile = None /\ checkpoint = None
  /\ client = [c \in Clients |-> [state |-> "idle", at |-> None, op |-> None]]
  /\ acked = [d \in Daemons |-> {}]
  /\ loaded = [d \in Daemons |-> None]
  /\ unguarded = FALSE

(* What a daemon does of itself once started.                              *)
Progress(d) ==
  \/ RemoveStale(d) \/ Restore(d, TRUE) \/ Restore(d, FALSE) \/ WritePid(d) \/ Bind(d) \/ StartMcp(d)
  \/ Spawn(d) \/ Wait(d) \/ HearShutdown(d) \/ Join(d) \/ CancelMcp(d) \/ McpDown(d)
  \/ Serialize(d) \/ BeginWrite(d) \/ EndWrite(d) \/ RenameTmp(d) \/ RenameNothing(d)
  \/ RemovePid(d) \/ Exit(d)

Next ==
  \/ \E d \in Daemons :
       \/ Progress(d) \/ FailStart(d) \/ FailStop(d) \/ CtrlC(d) \/ Kill(d)
       \/ \E errs \in BOOLEAN : CheckPid(d, errs)
       \/ PollStart(d) \/ PollEnd(d) \/ AgentAnswer(d)
       \/ \E w \in Writes : AgentCall(d, w)
       \/ \E t \in Tasks : EndTask(d, t)
  \/ \E c \in Clients :
       \/ ReadPort(c) \/ Down(c) \/ AskStatus(c) \/ Redial(c)
       \/ Accept(c) \/ Shutdown(c) \/ Status(c) \/ ConnectionLost(c)

Spec == Init /\ [][Next]_vars

(* The runtime keeps a daemon's own steps going, polls and calls end, and  *)
(* the scheduler's select!, which chooses at random, does not choose its   *)
(* tick for ever.  Nobody has to start, call, ask or kill.                 *)
Fairness ==
  /\ \A d \in Daemons :
       /\ WF_vars(Progress(d)) /\ WF_vars(PollEnd(d)) /\ WF_vars(AgentAnswer(d))
       /\ \A t \in Tasks : SF_vars(EndTask(d, t))
  /\ \A c \in Clients : WF_vars(Accept(c)) /\ WF_vars(Shutdown(c))

FairSpec == Spec /\ Fairness

-----------------------------------------------------------------------------
(* Where no start passed the guard while another was between its guard and *)
(* its PID file, and no probe took a live daemon for dead, one daemon owns *)
(* the directory at a time: between its PID file and the end of its        *)
(* checkpoint no other daemon is there, through kills, failed starts and   *)
(* stops, and stale files.                                                 *)
Owning == {"pid", "bound", "mcp", "mcpdown", "serialized", "writing", "written", "renamed"} \cup Running
OneOwns == Cardinality({d \in Daemons : pc[d] \in Owning}) <= 1
SingleInstance == ~unguarded => OneOwns

(* "`devdev up` fails if daemon already running"                           *)
(* (17-daemon-lifecycle.md:23) asks for OneOwns without a condition.  The  *)
(* code does not keep it: nothing makes read_pid and write_pid one step,   *)
(* and is_alive answers false where it cannot ask.                         *)
NeverTwo == OneOwns

(* checkpoint.bin always decodes, wherever a daemon was killed, while the  *)
(* guard held.                                                             *)
CheckpointWhole == ~unguarded /\ checkpoint # None => checkpoint.whole

(* While the guard held, a daemon that started from a checkpoint has every *)
(* write the daemon of that checkpoint acknowledged, to the last one it    *)
(* answered on its way down.                                               *)
WritesComeBack ==
  ~unguarded => \A d \in Daemons : loaded[d] # None => acked[loaded[d]] \subseteq fs[d]

(* Once run_up has heard of the shutdown the process ends: every task it   *)
(* awaits has heard of it too.                                             *)
StopCompletes == \A d \in Daemons : pc[d] = "joining" ~> ~Live(d)

(* A shutdown that was answered with ok stops the daemon.                  *)
DownStops ==
  \A c \in Clients, d \in Daemons :
    client[c] = [state |-> "ok", at |-> d, op |-> "down"] ~> ~Live(d)

(* The port file of a directory with a running daemon leads to it.         *)
Reachable ==
  \A d \in Daemons : pc[d] = "waiting" /\ pidFile = d => portFile = d

=============================================================================
