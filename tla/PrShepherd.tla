----------------------------- MODULE PrShepherd -----------------------------
(***************************************************************************)
(* How a change of a pull request reaches the agent: one RepoWatchTask     *)
(* polls a repository's open PRs, deduplicates them against the ledger and *)
(* publishes events; the event coordinator makes sure that a MonitorPrTask *)
(* exists for each PR it hears of and replays the event to a new one; a    *)
(* ticker polls all tasks under the registry lock; a monitor drains its    *)
(* receiver and prompts the agent with the PR's diff.                      *)
(*                                                                         *)
(* A PR is reduced to the number of its state among the states it goes     *)
(* through: a push, an edit or a reopening is a new one.  StateKey says    *)
(* which of them the ledger can tell apart.                                *)
(***************************************************************************)
EXTENDS Integers, FiniteSets, EventBus

CONSTANTS
  PRs,            (* pull request numbers of the watched repository        *)
  MaxRev,         (* bound: states a PR goes through                       *)
  HeadOf,         (* the head sha of each of those states                  *)
  UpdatedAtMoves, (* does updated_at change with them (GitHub) or is it    *)
                  (* the creation date (Azure DevOps)?                     *)
  Host,           (* the host repo/watch is given, as PrRefs has hosts     *)
  Env,            (* what users and the host do beyond pushing and closing *)
  Faults,         (* which calls may fail, or list other than what is open *)
  MaxFaults,      (* bound: how many do                                    *)
  MaxRestarts,    (* bound: daemon crashes                                 *)
  MaxMonitors     (* bound: monitors alive when a user adds another        *)

Refs == INSTANCE PrRefs WITH Numbers <- PRs

FaultKinds == {"list", "short", "twice", "record", "get", "agent", "panic"}
EnvKinds   == {"reopen", "task_add", "unwatch"}

ASSUME ShepherdAssumption ==
  /\ MaxRev \in Nat \ {0}
  /\ DOMAIN HeadOf = 1..MaxRev
  /\ UpdatedAtMoves \in BOOLEAN
  /\ Refs!FromBrowseHost(Host) # {}
  /\ Env \subseteq EnvKinds
  /\ Faults \subseteq FaultKinds
  /\ MaxFaults \in Nat
  /\ MaxRestarts \in Nat
  /\ MaxMonitors \in Nat

VARIABLES
  host,      (* the PRs as the code host has them                          *)
  ledger,    (* keys recorded in the idempotency ledger; survives a crash  *)
  watcher,   (* the RepoWatchTask: is it active, and its last_seen         *)
  monitors,  (* the MonitorPrTasks of the registry, in creation order      *)
  monIds,    (* monitor_pr_ids: the monitor registered for a PR, 0 if none *)
  rx,        (* bus receivers: 0 the coordinator's, i that of monitor i    *)
  coord,     (* the event coordinator                                      *)
  adding,    (* monitor a task/add call created and has yet to register    *)
  ticker,    (* the polling task: which task it polls and how far it is    *)
  evals,     (* history: prompts answered for each state of a PR           *)
  missed,    (* history: PRs of last_seen that were open when a listing of *)
             (* this session left them out                                 *)
  faults,    (* how many calls did so far                                  *)
  restarts   (* crashes so far                                             *)

vars == << host, ledger, watcher, monitors, monIds, rx, coord, adding,
           ticker, evals, missed, faults, restarts >>

Revs    == 1..MaxRev
NoRev   == 0
Events  == [kind : {"opened", "updated", "closed"}, pr : PRs, rev : 0..MaxRev]
Event(k, p, r) == [kind |-> k, pr |-> p, rev |-> r]

(* pr_state_hash: head_sha and updated_at. *)
StateKey(r) == << HeadOf[r], IF UpdatedAtMoves THEN r ELSE 0 >>
LedgerKey(p, r) == << p, StateKey(r) >>

(* The watched repository's host, and the reference its events carry.      *)
HostId        == CHOOSE id \in Refs!FromBrowseHost(Host) : TRUE
Owner         == IF HostId.kind = "ado" THEN << "org", "project" >> ELSE << "owner" >>
WatchedRef(p) == Refs!Ref(HostId, Owner, << "repo" >>, p)

(* Of what the coordinator writes the new monitor's reference, and of what *)
(* a user may write to task/add.                                           *)
ShortForm(p) == Refs!Shown(WatchedRef(p))
PrUrl(p) ==
  Refs!Url(Host, Owner \o (IF HostId.kind = "ado" THEN << "_git", "repo", "pullrequest", p >>
                                                  ELSE << "repo", "pull", p >>))
Names(text, p) == Refs!Parse(text) = {WatchedRef(p)}

Unseen  == [p \in PRs |-> NoRev]

(* A MonitorPrTask: its PR, whether its PrRef names the right host,        *)
(* whether it completed, last_sha, the diff of its last observation, and   *)
(* (history) the events it was handed.                                     *)
Monitor(p, here) ==
  [pr |-> p, here |-> here, done |-> FALSE, last |-> NoRev, reviewed |-> NoRev, heard |-> {}]
NoEvent    == << >>
IdleCoord  == [pc |-> "recv", ev |-> NoEvent, id |-> 0]
IdleTicker == [pc |-> "idle", mon |-> 0, todo |-> {}, cur |-> Unseen, rev |-> NoRev]

HostStates  == [PRs -> [state : {"absent", "open", "closed"}, rev : Revs]]
LedgerKeys  == {LedgerKey(p, r) : p \in PRs, r \in Revs}
Watchers    == [on : BOOLEAN, seen : [PRs -> 0..MaxRev]]
MonitorTasks == [pr : PRs, here : BOOLEAN, done : BOOLEAN, last : 0..MaxRev, reviewed : 0..MaxRev,
                 heard : SUBSET Events]
Coords(n)   == [pc : {"recv", "ensure", "insert", "replay", "dead"},
                ev : Events \cup {NoEvent}, id : 0..n]
Tickers(n)  == [pc : {"idle", "list", "scan", "drain", "get", "diff", "prompt", "dead"},
                mon : 0..n, todo : SUBSET PRs, cur : [PRs -> 0..MaxRev], rev : 0..MaxRev]

CoordOnEvent   == coord.pc \in {"ensure", "insert", "replay"}
TickerOnMonitor == ticker.pc \in {"drain", "get", "diff", "prompt"}

TypeOK ==
  /\ host \in HostStates
  /\ ledger \subseteq LedgerKeys
  /\ watcher \in Watchers
  /\ monitors \in Seq(MonitorTasks)
  /\ monIds \in [PRs -> 0..Len(monitors)]
  /\ rx \in [0..Len(monitors) -> Receivers(Events)]
  /\ coord \in Coords(Len(monitors))
  /\ CoordOnEvent => coord.ev \in Events
  /\ adding \in 0..Len(monitors)
  /\ ticker \in Tickers(Len(monitors))
  /\ TickerOnMonitor => ticker.mon # 0
  /\ evals \in [PRs -> [Revs -> 0..2]]
  /\ missed \subseteq PRs
  /\ faults \in 0..MaxFaults
  /\ restarts \in 0..MaxRestarts

-----------------------------------------------------------------------------
(* Failures and the registry lock. *)

Fault(kind) ==
  /\ kind \in Faults
  /\ faults < MaxFaults
  /\ faults' = faults + 1

(* A poll holds the registry lock until it returns; a panic drops it.      *)
LockFree == ticker.pc \in {"idle", "dead"}

(* Who still reads the bus.  A monitor that completed keeps its receiver   *)
(* but never reads it again, so it is left out.                            *)
Subscribers == {i \in DOMAIN rx : IF i = 0 THEN coord.pc # "dead" ELSE ~monitors[i].done}

-----------------------------------------------------------------------------
(* The code host. *)

OpenPr(p) ==
  /\ host[p].state = "absent"
  /\ host' = [host EXCEPT ![p].state = "open"]

Push(p) ==
  /\ host[p].state = "open"
  /\ host[p].rev < MaxRev
  /\ host' = [host EXCEPT ![p].rev = @ + 1]

Close(p) ==
  /\ host[p].state = "open"
  /\ host' = [host EXCEPT ![p].state = "closed"]

Reopen(p) ==
  /\ "reopen" \in Env
  /\ host[p].state = "closed"
  /\ host[p].rev < MaxRev
  /\ host' = [host EXCEPT ![p] = [state |-> "open", rev |-> @.rev + 1]]

HostStep ==
  /\ \E p \in PRs : OpenPr(p) \/ Push(p) \/ Close(p) \/ Reopen(p)
  /\ UNCHANGED << ledger, watcher, monitors, monIds, rx, coord, adding,
                  ticker, evals, missed, faults, restarts >>

-----------------------------------------------------------------------------
(* repo/watch and repo/unwatch, from one client at a time. *)

Watch ==
  /\ LockFree
  /\ ~watcher.on
  /\ watcher' = [on |-> TRUE, seen |-> Unseen]
  /\ UNCHANGED << host, ledger, monitors, monIds, rx, coord, adding, ticker,
                  evals, missed, faults, restarts >>

Unwatch ==
  /\ "unwatch" \in Env
  /\ LockFree
  /\ watcher.on
  /\ watcher' = [watcher EXCEPT !.on = FALSE]
  /\ UNCHANGED << host, ledger, monitors, monIds, rx, coord, adding, ticker,
                  evals, missed, faults, restarts >>

(* task/add, with the PR's short form or its URL: the monitor is           *)
(* registered after the registry lock is dropped.  A reference to a PR     *)
(* that is not watched is left out.                                        *)
CreateMonitor(p, here) ==
  /\ LockFree
  /\ monitors' = Append(monitors, Monitor(p, here))
  /\ rx' = [s \in 0..Len(monitors) + 1 |->
              IF s \in DOMAIN rx THEN rx[s] ELSE Subscribed]

TaskAdd(p) ==
  /\ "task_add" \in Env
  /\ adding = 0
  /\ Len(monitors) < MaxMonitors
  /\ \E word \in {ShortForm(p), PrUrl(p)} :
       \E text \in Refs!ExtractPrRef(<< word >>) : Names(text, p)
  /\ CreateMonitor(p, TRUE)
  /\ adding' = Len(monitors) + 1
  /\ UNCHANGED << host, ledger, watcher, monIds, coord, ticker, evals, missed,
                  faults, restarts >>

TaskAddInsert ==
  /\ adding # 0
  /\ monIds' = [monIds EXCEPT ![monitors[adding].pr] = adding]
  /\ adding' = 0
  /\ UNCHANGED << host, ledger, watcher, monitors, rx, coord, ticker, evals,
                  missed, faults, restarts >>

-----------------------------------------------------------------------------
(* RepoWatchTask::poll.  While PRs are listed, and the listed ones looked   *)
(* at one after the other, the host moves on.                              *)

Listed(p) == ticker.cur[p] # NoRev
FirstInSession(p) == watcher.seen[p] = NoRev

(* Mutants: a ledger that knows PRs, not their states; none at all.        *)
AlreadyForgetsHash(p) == \E r \in Revs : LedgerKey(p, r) \in ledger
AlreadyNever(p) == FALSE

Already(p) == LedgerKey(p, ticker.cur[p]) \in ledger

(* list_open_prs.  Any two PRs may be on different pages, so each is read  *)
(* at a moment of its own.                                                 *)
ListOpenPrs ==
  /\ ticker.pc = "idle"
  /\ watcher.on
  /\ ticker' = [IdleTicker EXCEPT !.pc = "list", !.todo = PRs]
  /\ UNCHANGED << host, ledger, watcher, monitors, monIds, rx, coord, adding,
                  evals, missed, faults, restarts >>

ReadListingPartly(p) ==        (* mutant: a page that fails is the last *)
  /\ ticker.pc = "list"
  /\ p \in ticker.todo
  /\ \/ /\ ticker' = [ticker EXCEPT
              !.todo = @ \ {p},
              !.cur[p] = IF host[p].state = "open" THEN host[p].rev ELSE NoRev]
        /\ UNCHANGED faults
     \/ /\ Fault("list")
        /\ ticker' = [ticker EXCEPT !.todo = {}]
  /\ UNCHANGED << host, ledger, watcher, monitors, monIds, rx, coord, adding,
                  evals, missed, restarts >>

(* A listing that succeeds may still lack an open PR ("short"): when PRs   *)
(* before it close between two pages it moves to a page already read; and  *)
(* nothing is read beyond GitHub's tenth page or Azure DevOps' first       *)
(* answer.  HostAdapters has the pages themselves.                         *)
ReadListing(p) ==
  /\ ticker.pc = "list"
  /\ p \in ticker.todo
  /\ \/ /\ ticker' = [ticker EXCEPT
              !.todo = @ \ {p},
              !.cur[p] = IF host[p].state = "open" THEN host[p].rev ELSE NoRev]
        /\ UNCHANGED << missed, faults >>
     \/ /\ host[p].state = "open"
        /\ Fault("short")
        /\ ticker' = [ticker EXCEPT !.todo = @ \ {p}]
        /\ missed' = IF FirstInSession(p) THEN missed ELSE missed \cup {p}
     \/ /\ Fault("list")
        /\ ticker' = IdleTicker
        /\ UNCHANGED missed
  /\ UNCHANGED << host, ledger, watcher, monitors, monIds, rx, coord, adding,
                  evals, restarts >>

EndListing ==
  /\ ticker.pc = "list"
  /\ ticker.todo = {}
  /\ ticker' = [ticker EXCEPT
        !.pc = "scan",
        !.todo = {p \in PRs : Listed(p) \/ ~FirstInSession(p)}]
  /\ UNCHANGED << host, ledger, watcher, monitors, monIds, rx, coord, adding,
                  evals, missed, faults, restarts >>

(* The event is published before its key is recorded; when the record      *)
(* fails the poll ends there and last_seen stays what it was.  A PR that a *)
(* shift of the pages has put into the list twice is looked at twice (with *)
(* one state: a push between its two pages is left out).                   *)
ScanPr(p) ==
  /\ ticker.pc = "scan"
  /\ p \in ticker.todo
  /\ Listed(p)
  /\ \/ /\ Already(p) /\ ~FirstInSession(p)
        /\ ticker' = [ticker EXCEPT !.todo = @ \ {p}]
        /\ UNCHANGED << rx, ledger, faults >>
     \/ /\ FirstInSession(p) \/ ~Already(p)
        /\ rx' = Publish(rx, Subscribers, Event(IF FirstInSession(p) THEN "opened" ELSE "updated",
                                   p, ticker.cur[p]))
        /\ \/ /\ ledger' = ledger \cup {LedgerKey(p, ticker.cur[p])}
              /\ \/ ticker' = [ticker EXCEPT !.todo = @ \ {p}] /\ UNCHANGED faults
                 \/ Fault("twice") /\ UNCHANGED ticker
           \/ /\ ~Already(p)
              /\ Fault("record")
              /\ ticker' = IdleTicker
              /\ UNCHANGED ledger
  /\ UNCHANGED << host, watcher, monitors, monIds, coord, adding, evals,
                  missed, restarts >>

(* PRs of the last poll that are not listed any more, after the others.    *)
ScanClosedSilently(p) ==       (* mutant: gone PRs are just forgotten *)
  /\ ticker.pc = "scan"
  /\ p \in ticker.todo
  /\ \A q \in ticker.todo : ~Listed(q)
  /\ ticker' = [ticker EXCEPT !.todo = @ \ {p}]
  /\ UNCHANGED << host, ledger, watcher, monitors, monIds, rx, coord, adding,
                  evals, missed, faults, restarts >>

ScanClosed(p) ==
  /\ ticker.pc = "scan"
  /\ p \in ticker.todo
  /\ \A q \in ticker.todo : ~Listed(q)
  /\ rx' = Publish(rx, Subscribers, Event("closed", p, NoRev))
  /\ ticker' = [ticker EXCEPT !.todo = @ \ {p}]
  /\ UNCHANGED << host, ledger, watcher, monitors, monIds, coord, adding,
                  evals, missed, faults, restarts >>

ScanDone ==
  /\ ticker.pc = "scan"
  /\ ticker.todo = {}
  /\ watcher' = [watcher EXCEPT !.seen = ticker.cur]
  /\ ticker' = IdleTicker
  /\ UNCHANGED << host, ledger, monitors, monIds, rx, coord, adding, evals,
                  missed, faults, restarts >>

-----------------------------------------------------------------------------
(* spawn_event_coordinator and ensure_monitor_pr_task.  The check of       *)
(* monitor_pr_ids, the creation under the registry lock, the registration  *)
(* and the replay are separate steps.  A lagged receiver ends the loop.    *)
(* The new monitor parses the short form, whatever the host is.            *)

CoordContinue ==               (* mutant: a lagged receiver reads on *)
  /\ coord.pc = "recv"
  /\ rx[0] # Subscribed
  /\ rx' = [rx EXCEPT ![0] = IF @.lagged THEN [@ EXCEPT !.lagged = FALSE] ELSE Pop(@)]
  /\ LET ev == Head(rx[0].buf)
     IN  coord' = IF rx[0].lagged \/ monIds[ev.pr] # 0
                    THEN coord
                    ELSE [coord EXCEPT !.pc = "ensure", !.ev = ev]
  /\ UNCHANGED << host, ledger, watcher, monitors, monIds, adding, ticker,
                  evals, missed, faults, restarts >>

CoordRecv ==
  /\ coord.pc = "recv"
  /\ \/ /\ rx[0].lagged
        /\ coord' = [IdleCoord EXCEPT !.pc = "dead"]
        /\ rx' = [rx EXCEPT ![0] = Subscribed]
     \/ /\ ~rx[0].lagged
        /\ rx[0].buf # << >>
        /\ rx' = [rx EXCEPT ![0] = Pop(@)]
        /\ LET ev == Head(rx[0].buf)
           IN  coord' = IF monIds[ev.pr] # 0
                          THEN coord
                          ELSE [coord EXCEPT !.pc = "ensure", !.ev = ev]
  /\ UNCHANGED << host, ledger, watcher, monitors, monIds, adding, ticker,
                  evals, missed, faults, restarts >>

CoordEnsure ==
  /\ coord.pc = "ensure"
  /\ CreateMonitor(coord.ev.pr, Names(ShortForm(coord.ev.pr), coord.ev.pr))
  /\ coord' = [coord EXCEPT !.pc = "insert", !.id = Len(monitors) + 1]
  /\ UNCHANGED << host, ledger, watcher, monIds, adding, ticker, evals,
                  missed, faults, restarts >>

CoordInsertForgotten ==        (* mutant: the monitor is not registered *)
  /\ coord.pc = "insert"
  /\ coord' = [coord EXCEPT !.pc = "replay"]
  /\ UNCHANGED << host, ledger, watcher, monitors, monIds, rx, adding, ticker,
                  evals, missed, faults, restarts >>

CoordInsert ==
  /\ coord.pc = "insert"
  /\ monIds' = [monIds EXCEPT ![coord.ev.pr] = coord.id]
  /\ coord' = [coord EXCEPT !.pc = "replay"]
  /\ UNCHANGED << host, ledger, watcher, monitors, rx, adding, ticker, evals,
                  missed, faults, restarts >>

CoordNoReplay ==               (* mutant: the new monitor is told nothing *)
  /\ coord.pc = "replay"
  /\ coord' = IdleCoord
  /\ UNCHANGED << host, ledger, watcher, monitors, monIds, rx, adding, ticker,
                  evals, missed, faults, restarts >>

CoordReplay ==
  /\ coord.pc = "replay"
  /\ rx' = Publish(rx, Subscribers, coord.ev)
  /\ coord' = IdleCoord
  /\ UNCHANGED << host, ledger, watcher, monitors, monIds, adding, ticker,
                  evals, missed, faults, restarts >>

-----------------------------------------------------------------------------
(* MonitorPrTask::poll: drain the receiver, and for each event about this  *)
(* PR fetch it and prompt.  An error ends the poll with the event consumed.*)
(* A poll that finds nothing to read changes nothing and is not a step.    *)

Complete(i) ==
  /\ monitors' = [monitors EXCEPT ![i].done = TRUE]
  /\ rx' = [rx EXCEPT ![i] = Subscribed]
  /\ ticker' = IdleTicker

MonPoll(i) ==
  /\ ticker.pc = "idle"
  /\ ~monitors[i].done
  /\ rx[i] # Subscribed
  /\ ticker' = [IdleTicker EXCEPT !.pc = "drain", !.mon = i]
  /\ UNCHANGED << host, ledger, watcher, monitors, monIds, rx, coord, adding,
                  evals, missed, faults, restarts >>

(* matches: is the event about this PR, host included?                     *)
Matches(i, ev) == ev.pr = monitors[i].pr /\ monitors[i].here

MonDrain(i) ==
  /\ ticker.pc = "drain"
  /\ ticker.mon = i
  /\ \/ /\ rx[i] = Subscribed
        /\ ticker' = IdleTicker
        /\ UNCHANGED << rx, monitors >>
     \/ /\ rx[i].lagged
        /\ rx' = [rx EXCEPT ![i].lagged = FALSE]
        /\ UNCHANGED << ticker, monitors >>
     \/ /\ ~rx[i].lagged
        /\ rx[i].buf # << >>
        /\ LET ev == Head(rx[i].buf)
           IN  CASE ~Matches(i, ev) ->
                      /\ rx' = [rx EXCEPT ![i] = Pop(@)]
                      /\ UNCHANGED << ticker, monitors >>
                 [] Matches(i, ev) /\ ev.kind = "closed" ->
                      Complete(i)
                 [] OTHER ->
                      /\ rx' = [rx EXCEPT ![i] = Pop(@)]
                      /\ monitors' = [monitors EXCEPT ![i].last = ev.rev,
                                                      ![i].heard = @ \cup {ev}]
                      /\ ticker' = [ticker EXCEPT !.pc = "get"]
  /\ UNCHANGED << host, ledger, watcher, monIds, coord, adding, evals, missed,
                  faults, restarts >>

(* get_pr: a PR that closed meanwhile completes the task.                  *)
MonGetPr(i) ==
  /\ ticker.pc = "get"
  /\ ticker.mon = i
  /\ \/ /\ host[monitors[i].pr].state = "open"
        /\ ticker' = [ticker EXCEPT !.pc = "diff"]
        /\ UNCHANGED << monitors, rx, faults >>
     \/ /\ host[monitors[i].pr].state # "open"
        /\ Complete(i)
        /\ UNCHANGED faults
     \/ /\ Fault("get")
        /\ ticker' = IdleTicker
        /\ UNCHANGED << monitors, rx >>
  /\ UNCHANGED << host, ledger, watcher, monIds, coord, adding, evals, missed,
                  restarts >>

(* get_pr_diff is another call: the diff is that of the PR as it is then.  *)
FetchedOnce(i) ==              (* mutant: the first diff is kept *)
  IF monitors[i].reviewed # NoRev THEN monitors[i].reviewed ELSE host[monitors[i].pr].rev
FetchedRev(i) == host[monitors[i].pr].rev

MonGetDiff(i) ==
  /\ ticker.pc = "diff"
  /\ ticker.mon = i
  /\ \/ /\ ticker' = [ticker EXCEPT !.pc = "prompt", !.rev = FetchedRev(i)]
        /\ UNCHANGED faults
     \/ /\ Fault("get")
        /\ ticker' = IdleTicker
  /\ UNCHANGED << host, ledger, watcher, monitors, monIds, rx, coord, adding,
                  evals, missed, restarts >>

(* run_prompt.  A reply whose 200th byte is inside a character makes the   *)
(* summary's slice panic, which ends the polling task.                     *)
MonPrompt(i) ==
  /\ ticker.pc = "prompt"
  /\ ticker.mon = i
  /\ \/ /\ Fault("agent")
        /\ ticker' = IdleTicker
        /\ UNCHANGED << monitors, evals >>
     \/ /\ evals' = [evals EXCEPT ![monitors[i].pr][ticker.rev] =
                        IF @ < 2 THEN @ + 1 ELSE @]
        /\ \/ /\ monitors' = [monitors EXCEPT ![i].reviewed = ticker.rev]
              /\ ticker' = [ticker EXCEPT !.pc = "drain", !.rev = NoRev]
              /\ UNCHANGED faults
           \/ /\ Fault("panic")
              /\ ticker' = [IdleTicker EXCEPT !.pc = "dead"]
              /\ UNCHANGED monitors
  /\ UNCHANGED << host, ledger, watcher, monIds, rx, coord, adding, missed,
                  restarts >>

-----------------------------------------------------------------------------
(* A crash loses every task and the bus; run_up builds them anew.          *)

Crash ==
  /\ restarts < MaxRestarts
  /\ restarts' = restarts + 1
  /\ watcher' = [on |-> FALSE, seen |-> Unseen]
  /\ monitors' = << >>
  /\ monIds' = [p \in PRs |-> 0]
  /\ rx' = [s \in {0} |-> Subscribed]
  /\ coord' = IdleCoord
  /\ adding' = 0
  /\ ticker' = IdleTicker
  /\ missed' = {}
  /\ UNCHANGED << host, ledger, evals, faults >>

Init ==
  /\ host = [p \in PRs |-> [state |-> "absent", rev |-> 1]]
  /\ ledger = {}
  /\ watcher = [on |-> FALSE, seen |-> Unseen]
  /\ monitors = << >>
  /\ monIds = [p \in PRs |-> 0]
  /\ rx = [s \in {0} |-> Subscribed]
  /\ coord = IdleCoord
  /\ adding = 0
  /\ ticker = IdleTicker
  /\ evals = [p \in PRs |-> [r \in Revs |-> 0]]
  /\ missed = {}
  /\ faults = 0
  /\ restarts = 0

MonitorStep(i) ==
  MonPoll(i) \/ MonDrain(i) \/ MonGetPr(i) \/ MonGetDiff(i) \/ MonPrompt(i)

ListingStep == EndListing \/ \E p \in PRs : ReadListing(p)

ScanStep == ScanDone \/ \E p \in PRs : ScanPr(p) \/ ScanClosed(p)

Coordinator == CoordRecv \/ CoordEnsure \/ CoordInsert \/ CoordReplay

Next ==
  \/ HostStep
  \/ Watch \/ Unwatch
  \/ (\E p \in PRs : TaskAdd(p)) \/ TaskAddInsert
  \/ ListOpenPrs \/ ListingStep \/ ScanStep
  \/ Coordinator
  \/ \E i \in 1..Len(monitors) : MonitorStep(i)
  \/ Crash

Spec == Init /\ [][Next]_vars

(***************************************************************************)
(* Fairness.  The ticker polls every registered task in each round and a   *)
(* poll that started runs on, so a task that has something to do is polled *)
(* although the lock is often taken (strong fairness per task); the        *)
(* registry mutex is FIFO, so the coordinator gets it as well; agent calls *)
(* end, if only by their timeout.  The user keeps the repository watched.  *)
(***************************************************************************)
Fairness ==
  /\ WF_vars(Watch)
  /\ SF_vars(ListOpenPrs)
  /\ WF_vars(ListingStep)
  /\ WF_vars(ScanStep)
  /\ SF_vars(Coordinator)
  /\ WF_vars(TaskAddInsert)
  /\ \A i \in 1..(Cardinality(PRs) + MaxMonitors) : SF_vars(i <= Len(monitors) /\ MonitorStep(i))

FairSpec == Spec /\ Fairness

-----------------------------------------------------------------------------
(* Safety. *)

CoordHealthy == coord.pc # "dead" /\ ~rx[0].lagged

(* What the watcher has announced and not forgotten: last_seen, and what   *)
(* the poll in progress has already looked at.                             *)
Announced(p) ==
  \/ watcher.seen[p] # NoRev
  \/ ticker.pc = "scan" /\ Listed(p) /\ p \notin ticker.todo

Tracked(p) ==
  \/ monIds[p] # 0
  \/ CoordOnEvent /\ coord.ev.pr = p
  \/ \E ev \in Pending(rx[0]) : ev.pr = p

(* Every PR the watcher has announced has a registered monitor, or the     *)
(* coordinator still holds an event that will give it one: no order of     *)
(* polls, crashes, failed records and coordinator steps leaves a PR        *)
(* announced and forgotten.                                                *)
AnnouncedIsTracked ==
  CoordHealthy => \A p \in PRs : Announced(p) => Tracked(p)

(* Without task/add a PR never gets two monitors in a session, although    *)
(* ensure_monitor_pr_task checks, creates and registers in three steps and *)
(* its own replay comes back to the coordinator.                           *)
OneMonitorPerPr ==
  "task_add" \notin Env =>
    \A i, j \in 1..Len(monitors) : monitors[i].pr = monitors[j].pr => i = j

(* A monitor gives up only on a PR that is closed, or that was open and    *)
(* left out when the watcher, which had it, listed the PRs in this         *)
(* session: neither a stale or replayed PrClosed, nor a failed listing,    *)
(* nor what happens between two pages completes the monitor of an open PR. *)
(* (Where PRs are reopened a monitor gives up on the PR's first closing.)  *)
CompletedMeansClosed ==
  "reopen" \notin Env =>
    \A i \in 1..Len(monitors) :
      monitors[i].done =>
        host[monitors[i].pr].state = "closed" \/ monitors[i].pr \in missed

(* The diff in a prompt is never older than the head_sha the prompt names. *)
DiffNotOlderThanEvent ==
  ticker.pc = "prompt" => ticker.rev >= monitors[ticker.mon].last

(* The coordinator's replay never hands a monitor an event it already had: *)
(* it reaches a monitor that subscribed after the event was published, and *)
(* no other.  (A failed record, a listing that lacks a PR or has it twice, *)
(* a new watcher, a PR that closes again and a user's own monitor do make  *)
(* events come twice.)                                                     *)
EachEventOnce ==
  Faults \cap {"record", "short", "twice"} = {} /\ Env \cap {"unwatch", "reopen", "task_add"} = {} =>
    \A i \in 1..Len(monitors) : \A n \in DOMAIN rx[i].buf :
      LET ev == rx[i].buf[n]
      IN  ev.pr = monitors[i].pr =>
            /\ ev \notin monitors[i].heard
            /\ \A m \in DOMAIN rx[i].buf : m # n => rx[i].buf[m] # ev

Quiescent ==
  /\ ticker.pc = "idle"
  /\ coord.pc = "recv"
  /\ adding = 0
  /\ \A s \in DOMAIN rx : rx[s] = Subscribed

(* When every queue is empty, each PR's latest announced state has been    *)
(* reviewed by its monitor, or the monitor completed: no event is lost in  *)
(* the gap between its publication and the monitor's subscription.         *)
QuiescentReviewed ==
  Quiescent =>
    \A p \in PRs : watcher.seen[p] # NoRev =>
      \E i \in 1..Len(monitors) :
        /\ monitors[i].pr = p
        /\ monitors[i].done \/ monitors[i].reviewed >= watcher.seen[p]

-----------------------------------------------------------------------------
(* What the repository's text promises and plain operation breaks. *)

(* "DevDev never evaluates ... the same exact commit ... twice": yet a     *)
(* monitor prompts for each event with the diff of the moment, so a push   *)
(* between an event and its diff is reviewed again at its own event.       *)
NeverEvaluatedTwice == \A p \in PRs : \A r \in Revs : evals[p][r] <= 1

-----------------------------------------------------------------------------
(* Liveness, when no call fails and no listing lacks an open PR.  (A       *)
(* monitor that gave up on a missed PR stays registered: when the PR is    *)
(* listed again it is announced, and nothing reviews it.)                  *)

(* The last state of a PR that stays open is reviewed in the end.          *)
LastStateReviewed ==
  \A p \in PRs : \A r \in Revs :
    (<>[](host[p] = [state |-> "open", rev |-> r]))
      => <>(evals[p][r] > 0)

(* The monitors of a PR that stays closed complete in the end.             *)
ClosedCompletes ==
  \A p \in PRs :
    (<>[](host[p].state = "closed"))
      => <>[](\A i \in 1..Len(monitors) : monitors[i].pr = p => monitors[i].done)

=============================================================================
