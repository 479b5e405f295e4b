------------------------------ MODULE AcpClient ------------------------------
(***************************************************************************)
(* The client's end of the agent protocol                                  *)
(* (crates/devdev-acp/src/client.rs): calls with a timeout, a map of the   *)
(* pending ones, a writer task fed by a bounded channel and a reader task  *)
(* that hands replies to their calls, spawns a handler for each            *)
(* notification, and at the end of the stream wakes every pending call.    *)
(* At the other ends of the pipes is the agent's process.                  *)
(*                                                                         *)
(* This module has the actions; AgentSessions, which makes the calls, has  *)
(* the specification.  Requests that the agent makes of the client are all *)
(* refused by the daemon's handler and change nothing.                     *)
(***************************************************************************)
EXTENDS Naturals, Sequences, FiniteSets

CONSTANTS
  Clients,      (* who makes calls, each one at a time                     *)
  MaxPending,   (* max_pending: bound of the pending map                   *)
  OutCap,       (* capacity of the channel to the writer                   *)
  MaxExtras,    (* bound: chunks and tool calls the agent sends            *)
  AgentFaults,  (* what the agent may do wrong                             *)
  MaxFaults     (* bound: how often it, or its start, goes wrong           *)

ASSUME ClientAssumption ==
  /\ MaxPending \in Nat \ {0}
  /\ OutCap \in Nat \ {0}
  /\ MaxExtras \in Nat
  /\ AgentFaults \subseteq {"spawn", "error", "die", "garbage"}
  /\ MaxFaults \in Nat

VARIABLES
  nextId,    (* the id of the next call                                    *)
  call,      (* each client's call; got is what its oneshot holds          *)
  pending,   (* ids in the pending map                                     *)
  outq,      (* requests on their way to the writer                        *)
  writer,    (* is the writer task running?                                *)
  reader,    (* the reader task: up, about to drain the map, or gone       *)
  handlers,  (* notifications whose handler tasks have yet to act          *)
  agent,     (* the agent's process: none, alive or dead                   *)
  turns,     (* requests the agent has read and not answered               *)
  stream,    (* what the agent has written and the reader has not read     *)
  answered,  (* history: requests answered in a stream that was still good *)
  extras,    (* how many chunks and tool calls it has sent                 *)
  faults     (* how often something went wrong                             *)

cvars == << nextId, call, pending, outq, writer, reader, handlers, agent,
            turns, stream, answered, extras, faults >>

(* A request: its id, its method and the session it is about (0: none).    *)
Methods  == {"init", "auth", "new", "prompt"}
Requests == [id : Nat, method : Methods, sid : Nat]
Got      == {"nothing", "ok", "error", "lost"}
Results  == (Got \ {"nothing"}) \cup {"refused", "broken", "timeout"}
Messages == [kind : {"reply"}, id : Nat, got : {"ok", "error"}]
              \cup [kind : {"chunk"}, turn : Nat, sid : Nat, n : 1..MaxExtras]
              \cup [kind : {"garbage"}]

(* A request in the agent's hands; does it wait for a tool call?           *)
Turns    == [req : Requests, asked : BOOLEAN]
Turn(r)  == [req |-> r, asked |-> FALSE]

NoCall     == [pc |-> "none"]
Call(r)    == [pc |-> "send", req |-> r, got |-> "nothing"]
Ended(r, result) == [pc |-> "ended", req |-> r, result |-> result]
InCall(c)  == call[c].pc \in {"send", "wait", "forget"}
Garbage    == [kind |-> "garbage"]

Fault(kind) ==
  /\ kind \in AgentFaults
  /\ faults < MaxFaults
  /\ faults' = faults + 1

-----------------------------------------------------------------------------
(* connect_process, and the drop of a client that could not be started,    *)
(* which kills its process (kill_on_drop) and so ends its tasks.           *)

Unconnected ==
  /\ nextId = 1
  /\ call = [c \in Clients |-> NoCall]
  /\ pending = {} /\ outq = << >> /\ stream = << >>
  /\ writer = TRUE /\ reader = "up" /\ agent = "none"
  /\ handlers = {} /\ turns = {} /\ answered = {}

Disconnect ==
  /\ nextId' = 1
  /\ call' = [c \in Clients |-> NoCall]
  /\ pending' = {} /\ outq' = << >> /\ stream' = << >>
  /\ writer' = TRUE /\ reader' = "up" /\ agent' = "none"
  /\ handlers' = {} /\ turns' = {} /\ answered' = {}

Connect ==
  /\ agent = "none"
  /\ agent' = "alive"
  /\ UNCHANGED << nextId, call, pending, outq, writer, reader, handlers, turns,
                  stream, answered, extras, faults >>

-----------------------------------------------------------------------------
(* call_with_timeout *)

(* The id is taken and the oneshot's sender put into the map, if it has    *)
(* room.                                                                   *)
Start(c, method, sid) ==
  LET r == [id |-> nextId, method |-> method, sid |-> sid]
  IN  /\ call[c] = NoCall
      /\ nextId' = nextId + 1
      /\ IF Cardinality(pending) >= MaxPending
           THEN /\ call' = [call EXCEPT ![c] = Ended(r, "refused")]
                /\ UNCHANGED pending
           ELSE /\ call' = [call EXCEPT ![c] = Call(r)]
                /\ pending' = pending \cup {r.id}
      /\ UNCHANGED << outq, writer, reader, handlers, agent, turns, stream,
                      answered, extras, faults >>

SendUnbounded(c) ==           (* mutant: an unbounded channel *)
  /\ call[c].pc = "send"
  /\ \/ /\ writer
        /\ outq' = Append(outq, call[c].req)
        /\ call' = [call EXCEPT ![c].pc = "wait"]
        /\ UNCHANGED pending
     \/ /\ ~writer
        /\ pending' = pending \ {call[c].req.id}
        /\ call' = [call EXCEPT ![c] = Ended(@.req, "broken")]
        /\ UNCHANGED outq
  /\ UNCHANGED << nextId, writer, reader, handlers, agent, turns, stream,
                  answered, extras, faults >>

Send(c) ==
  /\ call[c].pc = "send"
  /\ \/ /\ writer
        /\ Len(outq) < OutCap
        /\ outq' = Append(outq, call[c].req)
        /\ call' = [call EXCEPT ![c].pc = "wait"]
        /\ UNCHANGED pending
     \/ /\ ~writer
        /\ pending' = pending \ {call[c].req.id}
        /\ call' = [call EXCEPT ![c] = Ended(@.req, "broken")]
        /\ UNCHANGED outq
  /\ UNCHANGED << nextId, writer, reader, handlers, agent, turns, stream,
                  answered, extras, faults >>

Receive(c) ==
  /\ call[c].pc = "wait"
  /\ call[c].got # "nothing"
  /\ call' = [call EXCEPT ![c] = Ended(@.req, @.got)]
  /\ UNCHANGED << nextId, pending, outq, writer, reader, handlers, agent,
                  turns, stream, answered, extras, faults >>

(* The timeout drops the receiver; then the entry is taken out of the map. *)
TimeOutNever(c) ==            (* mutant: the call waits as long as it takes *)
  /\ call[c].pc = "wait"
  /\ call[c].got = "nothing"
  /\ FALSE
  /\ call' = [call EXCEPT ![c].pc = "forget"]
  /\ UNCHANGED << nextId, pending, outq, writer, reader, handlers, agent,
                  turns, stream, answered, extras, faults >>

TimeOut(c) ==
  /\ call[c].pc = "wait"
  /\ call[c].got = "nothing"
  /\ call' = [call EXCEPT ![c].pc = "forget"]
  /\ UNCHANGED << nextId, pending, outq, writer, reader, handlers, agent,
                  turns, stream, answered, extras, faults >>

ForgetNothing(c) ==            (* mutant: the entry stays in the map *)
  /\ call[c].pc = "forget"
  /\ call' = [call EXCEPT ![c] = Ended(@.req, "timeout")]
  /\ UNCHANGED << nextId, pending, outq, writer, reader, handlers, agent,
                  turns, stream, answered, extras, faults >>

Forget(c) ==
  /\ call[c].pc = "forget"
  /\ pending' = pending \ {call[c].req.id}
  /\ call' = [call EXCEPT ![c] = Ended(@.req, "timeout")]
  /\ UNCHANGED << nextId, outq, writer, reader, handlers, agent, turns, stream,
                  answered, extras, faults >>

-----------------------------------------------------------------------------
(* The writer task.  A write to a process that is gone ends it.            *)
Write ==
  /\ writer
  /\ outq # << >>
  /\ IF agent = "alive"
       THEN /\ outq' = Tail(outq)
            /\ turns' = turns \cup {Turn(Head(outq))}
            /\ UNCHANGED writer
       ELSE /\ writer' = FALSE
            /\ outq' = << >>
            /\ UNCHANGED turns
  /\ UNCHANGED << nextId, call, pending, reader, handlers, agent, stream,
                  answered, extras, faults >>

-----------------------------------------------------------------------------
(* The reader task. *)

(* The oneshots of these calls are sent got; a call that timed out has     *)
(* dropped its receiver.                                                   *)
Woken(ids, got) ==
  [c \in Clients |->
     IF call[c].pc \in {"send", "wait"} /\ call[c].req.id \in ids
       THEN [call[c] EXCEPT !.got = got]
       ELSE call[c]]

(* dispatch_incoming: a reply is handled here and now, a notification by a *)
(* task of its own.  A line that does not parse ends the loop.             *)
Read ==
  /\ reader = "up"
  /\ stream # << >>
  /\ stream' = Tail(stream)
  /\ LET m == Head(stream)
     IN  CASE m.kind = "reply" ->
                /\ call' = Woken({m.id} \cap pending, m.got)
                /\ pending' = pending \ {m.id}
                /\ UNCHANGED << handlers, reader >>
           [] m.kind = "chunk" ->
                /\ handlers' = handlers \cup {m}
                /\ UNCHANGED << call, pending, reader >>
           [] m.kind = "garbage" ->
                /\ reader' = "drain"
                /\ UNCHANGED << call, pending, handlers >>
  /\ UNCHANGED << nextId, outq, writer, agent, turns, answered, extras,
                  faults >>

EndWithProcess ==              (* mutant: the loop ends with the process *)
  /\ reader = "up"
  /\ agent = "dead"
  /\ reader' = "drain"
  /\ UNCHANGED << nextId, call, pending, outq, writer, handlers, agent, turns,
                  stream, answered, extras, faults >>

EndOfStream ==
  /\ reader = "up"
  /\ agent = "dead"
  /\ stream = << >>
  /\ reader' = "drain"
  /\ UNCHANGED << nextId, call, pending, outq, writer, handlers, agent, turns,
                  stream, answered, extras, faults >>

Drain ==
  /\ reader = "drain"
  /\ call' = Woken(pending, "lost")
  /\ pending' = {}
  /\ reader' = "gone"
  /\ UNCHANGED << nextId, outq, writer, handlers, agent, turns, stream,
                  answered, extras, faults >>

-----------------------------------------------------------------------------
(* The agent.  What it writes behind a line that does not parse, or when   *)
(* the reader is gone, nobody reads; it is left out of the stream.  It     *)
(* calls the daemon's tool devdev_tasks_list over a connection of its own. *)

StreamGood == reader = "up" /\ \A n \in DOMAIN stream : stream[n] # Garbage
Written(m) == IF StreamGood THEN Append(stream, m) ELSE stream

Extra ==
  /\ extras < MaxExtras
  /\ extras' = extras + 1

Reply(t, got) ==
  /\ agent = "alive"
  /\ t \in turns
  /\ ~t.asked
  /\ \/ got = "ok" /\ UNCHANGED faults
     \/ got = "error" /\ Fault("error")
  /\ turns' = turns \ {t}
  /\ stream' = Written([kind |-> "reply", id |-> t.req.id, got |-> got])
  /\ answered' = IF StreamGood THEN answered \cup {t.req.id} ELSE answered
  /\ UNCHANGED << nextId, call, pending, outq, writer, reader, handlers, agent,
                  extras >>

SendChunk(t) ==
  /\ agent = "alive"
  /\ t \in turns
  /\ t.req.method = "prompt"
  /\ ~t.asked
  /\ Extra
  /\ stream' = Written([kind |-> "chunk", turn |-> t.req.id, sid |-> t.req.sid,
                        n |-> extras'])
  /\ UNCHANGED << nextId, call, pending, outq, writer, reader, handlers, agent,
                  turns, answered, faults >>

AskForTasks(t) ==
  /\ agent = "alive"
  /\ t \in turns
  /\ t.req.method = "prompt"
  /\ ~t.asked
  /\ Extra
  /\ turns' = (turns \ {t}) \cup {[t EXCEPT !.asked = TRUE]}
  /\ UNCHANGED << nextId, call, pending, outq, writer, reader, handlers, agent,
                  stream, answered, faults >>

GetTasks(t) ==
  /\ t \in turns
  /\ t.asked
  /\ turns' = (turns \ {t}) \cup {Turn(t.req)}
  /\ UNCHANGED << nextId, call, pending, outq, writer, reader, handlers, agent,
                  stream, answered, extras, faults >>

SendGarbage ==
  /\ agent = "alive"
  /\ reader = "up"
  /\ Fault("garbage")
  /\ stream' = Append(stream, Garbage)
  /\ UNCHANGED << nextId, call, pending, outq, writer, reader, handlers, agent,
                  turns, answered, extras >>

Die ==
  /\ agent = "alive"
  /\ Fault("die")
  /\ agent' = "dead"
  /\ turns' = {}
  /\ UNCHANGED << nextId, call, pending, outq, writer, reader, handlers,
                  stream, answered, extras >>

CallStep(c) == Send(c) \/ Receive(c) \/ TimeOut(c) \/ Forget(c)
LinkStep    == Write \/ Read \/ EndOfStream \/ Drain
=============================================================================
