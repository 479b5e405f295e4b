---------------------------- MODULE AgentSessions ----------------------------
(***************************************************************************)
(* How the daemon's prompts get to the agent and its answers back:         *)
(* RouterRunner and handle_send, which keep a session each                 *)
(* (devdev-daemon/src/runner.rs, dispatch.rs), the SessionRouter, and      *)
(* AcpSessionBackend (devdev-cli/src/acp_backend.rs), which starts the     *)
(* agent on first use, makes the calls and routes streamed chunks to the   *)
(* prompt that listens to their session.                                   *)
(*                                                                         *)
(* Monitor tasks prompt from their poll, one at a time and with the task   *)
(* registry locked; the user's messages come from another client.  In a    *)
(* turn the agent may call devdev_tasks_list, which needs that lock.       *)
(***************************************************************************)
EXTENDS AcpClient

CONSTANTS
  Tasks,        (* the clients that are monitor tasks                      *)
  AuthCalled,   (* does authenticate take a call?  The agent advertises a  *)
                (* method and no token is in the environment               *)
  ChunkCap,     (* capacity of a prompt's chunk channel                    *)
  MaxPrompts    (* bound: prompts made by all of them                     *)

ASSUME SessionAssumption ==
  /\ Tasks \subseteq Clients
  /\ AuthCalled \in BOOLEAN
  /\ ChunkCap \in Nat \ {0}
  /\ MaxPrompts \in Nat

VARIABLES
  cell,      (* the OnceCell of the client: empty, being filled, or full   *)
  front,     (* how far each client's prompt is                            *)
  slot,      (* each client's session, 0 while it has none                 *)
  senders,   (* RouterHandler.senders: who listens to each session         *)
  queue,     (* each client's chunk channel                                *)
  text,      (* the chunks its prompt has collected                        *)
  left       (* prompts that may still be made                             *)

svars == << cell, front, slot, senders, queue, text, left >>
vars  == << cvars, svars >>

Fronts == {"idle", "start", "init", "auth", "new", "register", "prompt",
           "return"}

TypeOK ==
  /\ nextId \in Nat \ {0}
  /\ \A c \in Clients : call[c] = NoCall \/ call[c].req \in Requests
  /\ pending \subseteq 1..nextId - 1
  /\ Len(outq) <= OutCap
  /\ writer \in BOOLEAN
  /\ reader \in {"up", "drain", "gone"}
  /\ handlers \cup {stream[n] : n \in DOMAIN stream} \subseteq Messages
  /\ agent \in {"none", "alive", "dead"}
  /\ turns \subseteq Turns
  /\ extras \in 0..MaxExtras
  /\ faults \in 0..MaxFaults
  /\ cell \in {"empty", "filling", "full"}
  /\ front \in [Clients -> Fronts]
  /\ slot \in [Clients -> Nat]
  /\ \A c \in Clients : Len(queue[c]) <= ChunkCap
  /\ left \in 0..MaxPrompts

(* The registry lock is held by the poll of the task that prompts.         *)
RegistryFree == \A t \in Tasks : front[t] = "idle"

Goto(c, pc) == front' = [front EXCEPT ![c] = pc]

-----------------------------------------------------------------------------
(* run_prompt and send: get the session, or create it, and prompt. *)

Begin(c) ==
  /\ front[c] = "idle"
  /\ c \in Tasks => RegistryFree
  /\ left > 0
  /\ left' = left - 1
  /\ Goto(c, "start")
  /\ UNCHANGED << cvars, cell, slot, senders, queue, text >>

(* ensure_started, then create_session if there is none.  One caller fills *)
(* the cell, the others wait for it.                                       *)
EnsureStarted(c) ==
  /\ front[c] = "start"
  /\ \/ /\ cell = "full"
        /\ Goto(c, IF slot[c] = 0 THEN "new" ELSE "register")
        /\ UNCHANGED << cvars, cell >>
     \/ /\ cell = "empty"
        /\ Connect
        /\ cell' = "filling"
        /\ Goto(c, "init")
     \/ /\ cell = "empty"
        /\ Fault("spawn")
        /\ Goto(c, "idle")
        /\ UNCHANGED << nextId, call, pending, outq, writer, reader, handlers,
                        agent, turns, stream, answered, extras, cell >>
  /\ UNCHANGED << slot, senders, queue, text, left >>

MakeCall(c) ==
  /\ front[c] \in {"init", "auth", "new"}
  /\ Start(c, front[c], 0)
  /\ UNCHANGED svars


Started(c) ==
  /\ front[c] \in {"init", "auth"}
  /\ call[c].pc = "ended"
  /\ IF call[c].result = "ok"
       THEN /\ call' = [call EXCEPT ![c] = NoCall]
            /\ IF front[c] = "init" /\ AuthCalled
                 THEN Goto(c, "auth") /\ UNCHANGED cell
                 ELSE Goto(c, "new") /\ cell' = "full"
            /\ UNCHANGED << nextId, pending, outq, writer, reader, handlers,
                            agent, turns, stream, answered >>
       ELSE /\ Disconnect
            /\ cell' = "empty"
            /\ Goto(c, "idle")
  /\ UNCHANGED << extras, faults, slot, senders, queue, text, left >>

(* The agent names a new session; the id of the call serves for its name.  *)
NewSession(c) == call[c].req.id

(* create_session and create_interactive_session; a caller that fails has  *)
(* no session and tries again with its next prompt.                        *)
Created(c) ==
  /\ front[c] = "new"
  /\ call[c].pc = "ended"
  /\ call' = [call EXCEPT ![c] = NoCall]
  /\ IF call[c].result = "ok"
       THEN slot' = [slot EXCEPT ![c] = NewSession(c)] /\ Goto(c, "register")
       ELSE Goto(c, "idle") /\ UNCHANGED slot
  /\ UNCHANGED << nextId, pending, outq, writer, reader, handlers, agent,
                  turns, stream, answered, extras, faults, cell, senders, queue, text,
                  left >>

(* send_prompt *)
Register(c) ==
  /\ front[c] = "register"
  /\ senders' = [senders EXCEPT ![c] = slot[c]]
  /\ Start(c, "prompt", slot[c])
  /\ Goto(c, "prompt")
  /\ UNCHANGED << cell, slot, queue, text, left >>

Collect(c) ==
  /\ front[c] = "prompt"
  /\ queue[c] # << >>
  /\ text' = [text EXCEPT ![c] = @ \cup {Head(queue[c])}]
  /\ queue' = [queue EXCEPT ![c] = Tail(@)]
  /\ UNCHANGED << cvars, cell, front, slot, senders, left >>

Prompted(c) ==
  /\ front[c] = "prompt"
  /\ call[c].pc = "ended"
  /\ text' = [text EXCEPT ![c] = @ \cup {queue[c][n] : n \in DOMAIN queue[c]}]
  /\ queue' = [queue EXCEPT ![c] = << >>]
  /\ Goto(c, "return")
  /\ UNCHANGED << cvars, cell, slot, senders, left >>

Return(c) ==
  /\ front[c] = "return"
  /\ senders' = [senders EXCEPT ![c] = 0]
  /\ queue' = [queue EXCEPT ![c] = << >>]
  /\ text' = [text EXCEPT ![c] = {}]
  /\ call' = [call EXCEPT ![c] = NoCall]
  /\ Goto(c, "idle")
  /\ UNCHANGED << nextId, pending, outq, writer, reader, handlers, agent,
                  turns, stream, answered, extras, faults, cell, slot, left >>

(* on_session_update: the chunk goes to the sender of its session, if it   *)
(* has one and its channel has room.                                       *)
ListenersAny(m) ==             (* mutant: whoever listens *)
  {c \in Clients : senders[c] # 0}

Listeners(m) == {c \in Clients : senders[c] = m.sid}

Handle(m) ==
  /\ m \in handlers
  /\ handlers' = handlers \ {m}
  /\ queue' = [c \in Clients |->
                 IF c \in Listeners(m) /\ Len(queue[c]) < ChunkCap
                   THEN Append(queue[c], m)
                   ELSE queue[c]]
  /\ UNCHANGED << nextId, call, pending, outq, writer, reader, agent, turns,
                  stream, answered, extras, faults, cell, front, slot, senders,
                  text, left >>

-----------------------------------------------------------------------------
(* devdev_tasks_list *)

ListTasks(t) ==
  /\ RegistryFree
  /\ GetTasks(t)
  /\ UNCHANGED svars

-----------------------------------------------------------------------------
Init ==
  /\ Unconnected
  /\ extras = 0
  /\ faults = 0
  /\ cell = "empty"
  /\ front = [c \in Clients |-> "idle"]
  /\ slot = [c \in Clients |-> 0]
  /\ senders = [c \in Clients |-> 0]
  /\ queue = [c \in Clients |-> << >>]
  /\ text = [c \in Clients |-> {}]
  /\ left = MaxPrompts

FrontStep(c) ==
  \/ EnsureStarted(c) \/ MakeCall(c) \/ Started(c) \/ Created(c)
  \/ Register(c) \/ Prompted(c) \/ Return(c)
  \/ CallStep(c) /\ UNCHANGED svars

AgentStep ==
  \/ \E t \in turns :
       \/ \E got \in {"ok", "error"} : Reply(t, got)
       \/ SendChunk(t)
       \/ AskForTasks(t)
  \/ SendGarbage
  \/ Die

Next ==
  \/ \E c \in Clients : Begin(c) \/ FrontStep(c) \/ Collect(c)
  \/ LinkStep /\ UNCHANGED svars
  \/ \E m \in handlers : Handle(m)
  \/ \E t \in turns : ListTasks(t)
  \/ AgentStep /\ UNCHANGED svars

Spec == Init /\ [][Next]_vars

(***************************************************************************)
(* Fairness.  The runtime runs every task that can run, a timeout is a     *)
(* matter of time, and the cell, the registry lock and the channels serve  *)
(* who waits in order (strong fairness).  The agent need not do anything,  *)
(* and nobody has to prompt it.                                            *)
(***************************************************************************)
FairSpec ==
  /\ Spec
  /\ \A c \in Clients : SF_vars(FrontStep(c))
  /\ WF_vars(LinkStep /\ UNCHANGED svars)
  /\ WF_vars(\E m \in handlers : Handle(m))
  /\ SF_vars(\E t \in turns : ListTasks(t))

-----------------------------------------------------------------------------
(* The pending map holds the calls that are under way and no other: none   *)
(* of the ways a call ends, and no order of its end, a reply and the drain *)
(* leaves an entry behind, which would count against max_pending for ever. *)
PendingIsWaiting ==
  pending \subseteq {call[c].req.id : c \in {d \in Clients : InCall(d)}}

(* A call is told that the agent disconnected only if the agent had not    *)
(* answered it: a reply that was written before the process died, or before*)
(* a line that does not parse, reaches its call.                           *)
AnswerNotLost ==
  \A c \in Clients :
    call[c].pc = "ended" /\ call[c].result = "lost" =>
      call[c].req.id \notin answered

(* Sessions multiplexed on one agent stay apart: what a prompt collects    *)
(* belongs to its session.                                                 *)
SessionsApart ==
  \A c \in Clients : \A m \in text[c] : m.sid = slot[c]


(* The agent gets its list of tasks in the end, although the poll that     *)
(* prompted it holds the lock of the list while it waits for the agent.    *)
ToolCallsEnd ==
  (\E t \in turns : t.asked) ~> (\A t \in turns : ~t.asked)

(* What a prompt collects was streamed in its own turn.  (It is not so: a  *)
(* handler that acts late, or a turn that goes on after its prompt timed   *)
(* out, finds the session's next prompt listening.)                        *)
ChunksOfThePrompt ==
  \A c \in Clients :
    front[c] = "prompt" => \A m \in text[c] : m.turn = call[c].req.id

=============================================================================
