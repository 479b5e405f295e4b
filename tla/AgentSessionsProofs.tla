------------------------- MODULE AgentSessionsProofs -------------------------
(***************************************************************************)
(* Proofs about the agent's client and its sessions, for any number of     *)
(* clients, capacities and faults: the pending map holds only calls under  *)
(* way, a reply that was written is not lost, and sessions stay apart.     *)
(***************************************************************************)
EXTENDS AgentSessions, TLAPS

(* A call under way, and one that has ended.                               *)
Open == [pc : {"send", "wait", "forget"}, req : Requests, got : Got]
Over == [pc : {"ended"}, req : Requests, result : Results]

Chunks == [kind : {"chunk"}, turn : Nat, sid : Nat, n : 1..MaxExtras]

TypeInv ==
  /\ TypeOK
  /\ call \in [Clients -> {NoCall} \cup Open \cup Over]
  /\ outq \in Seq(Requests)
  /\ stream \in Seq(Messages)
  /\ handlers \subseteq Chunks
  /\ senders \in [Clients -> Nat]
  /\ queue \in [Clients -> Seq(Chunks)]
  /\ text \in [Clients -> SUBSET Chunks]

(* Requests have been given their ids, and a prompt is about a session.    *)
Known(r, next) == r.id \in 1..next - 1 /\ (r.method = "prompt" => r.sid # 0)

Traffic ==
  /\ \A c \in Clients : call[c] # NoCall => Known(call[c].req, nextId)
  /\ \A n \in DOMAIN outq : Known(outq[n], nextId)
  /\ \A t \in turns : Known(t.req, nextId)
  /\ answered \subseteq 1..nextId - 1
  /\ \A n \in DOMAIN stream : stream[n].kind = "chunk" => stream[n].sid # 0
  /\ \A m \in handlers : m.sid # 0

(* A call that has been sent its result is no longer in the map, and a     *)
(* prompt that returns has no call under way.                              *)
Waiting ==
  /\ PendingIsWaiting
  /\ \A c \in Clients : call[c] \in Open /\ call[c].got # "nothing" =>
       call[c].req.id \notin pending
  /\ \A c \in Clients : front[c] = "return" => ~InCall(c)

(* The reply to a call that still waits is in the part of the stream that  *)
(* will be read; when reading ends there is none.                          *)
ReplyComing(id) ==
  \E n \in DOMAIN stream :
    /\ stream[n].kind = "reply" /\ stream[n].id = id
    /\ \A m \in 1..n : stream[m] # Garbage

WasLost(c) == \/ call[c] \in Open /\ call[c].got = "lost"
              \/ call[c] \in Over /\ call[c].result = "lost"

Answers ==
  /\ reader = "up" => \A id \in answered \cap pending : ReplyComing(id)
  /\ reader = "drain" => answered \cap pending = {}
  /\ \A c \in Clients : WasLost(c) => reader = "gone" /\ call[c].req.id \notin answered

(* Only a prompt under way listens, and to its own session.                *)
Listening ==
  \A c \in Clients :
    /\ IF front[c] \in {"prompt", "return"}
         THEN senders[c] = slot[c]
         ELSE senders[c] = 0 /\ text[c] = {} /\ queue[c] = << >>
    /\ front[c] \in {"register", "prompt", "return"} => slot[c] # 0
    /\ \A n \in DOMAIN queue[c] : queue[c][n].sid = slot[c]
    /\ \A m \in text[c] : m.sid = slot[c]

AgentInv == TypeInv /\ Traffic /\ Waiting /\ Answers /\ Listening

-----------------------------------------------------------------------------
(* Types. *)

Calls == {NoCall} \cup Open \cup Over

(* The shape of a call tells how far it is.                                *)
LEMMA CallShape ==
  ASSUME NEW k \in Calls
  PROVE  /\ k.pc \in {"send", "wait", "forget"} <=> k \in Open
         /\ k.pc = "ended" <=> k \in Over
         /\ k = NoCall <=> k \notin Open /\ k \notin Over
         /\ k \in Open => k.req \in Requests /\ k.got \in Got
         /\ k \in Over => k.req \in Requests /\ k.result \in Results
<1>1. NoCall.pc = "none" /\ NoCall \notin Open /\ NoCall \notin Over
  BY DEF NoCall, Open, Over
<1>2. \A j \in Open : j.pc \in {"send", "wait", "forget"} /\ j.req \in Requests /\ j.got \in Got
  BY DEF Open
<1>3. \A j \in Over : j.pc = "ended" /\ j.req \in Requests /\ j.result \in Results
  BY DEF Over
<1> QED
  BY <1>1, <1>2, <1>3 DEF Calls

(* What the steps of a call make of it.                                    *)
LEMMA CallNext ==
  ASSUME NEW r \in Requests
  PROVE  /\ Call(r) \in Open /\ Call(r).req = r /\ Call(r).got = "nothing"
         /\ \A result \in Results :
              Ended(r, result) \in Over /\ Ended(r, result).req = r
                /\ Ended(r, result).result = result
BY DEF Call, Ended, Open, Over, Got

(* An open call that moves on or is sent its result stays open.            *)
LEMMA OpenNext ==
  ASSUME NEW k \in Open
  PROVE  /\ \A pc \in {"wait", "forget"} :
              LET j == [k EXCEPT !.pc = pc]
              IN  j \in Open /\ j.req = k.req /\ j.got = k.got
         /\ \A got \in Got :
              LET j == [k EXCEPT !.got = got]
              IN  j \in Open /\ j.req = k.req /\ j.got = got /\ j.pc = k.pc
BY DEF Open

(* The fields of requests and of the agent's turns.                        *)
LEMMA RequestParts ==
  /\ \A r \in Requests : r.id \in Nat /\ r.method \in Methods /\ r.sid \in Nat
  /\ \A t \in Turns : t.req \in Requests /\ t.asked \in BOOLEAN
                      /\ [t EXCEPT !.asked = TRUE] \in Turns
                      /\ [t EXCEPT !.asked = TRUE].req = t.req
  /\ \A r \in Requests : Turn(r) \in Turns /\ Turn(r).req = r
BY DEF Requests, Turns, Turn

(* The kinds of message tell them apart.                                   *)
LEMMA MessageParts ==
  /\ Garbage \in Messages /\ Garbage.kind = "garbage"
  /\ \A m \in Messages : m.kind = "chunk" <=> m \in Chunks
  /\ \A m \in Messages : m.kind = "garbage" <=> m = Garbage
  /\ \A m \in Messages : m.kind = "reply" => m.id \in Nat /\ m.got \in {"ok", "error"}
  /\ \A m \in Messages : m.kind \in {"reply", "chunk", "garbage"}
  /\ Chunks \subseteq Messages
BY DEF Messages, Chunks, Garbage

(* The client that has not been connected has the types.                   *)
LEMMA InitTypeInv == Init => TypeInv
<1> SUFFICES ASSUME Init PROVE TypeInv
  OBVIOUS
<1> QED
  BY ClientAssumption, SessionAssumption
     DEF Init, Unconnected, TypeInv, TypeOK, Fronts, NoCall

(* What the steps of a call, of the tasks of the client and of the agent   *)
(* leave alone.                                                            *)
SessionTypes ==
  /\ cell \in {"empty", "filling", "full"}
  /\ front \in [Clients -> Fronts]
  /\ slot \in [Clients -> Nat]
  /\ \A c \in Clients : Len(queue[c]) <= ChunkCap
  /\ left \in 0..MaxPrompts
  /\ senders \in [Clients -> Nat]
  /\ queue \in [Clients -> Seq(Chunks)]
  /\ text \in [Clients -> SUBSET Chunks]

ClientTypes ==
  /\ nextId \in Nat \ {0}
  /\ call \in [Clients -> Calls]
  /\ pending \subseteq 1..nextId - 1
  /\ outq \in Seq(Requests) /\ Len(outq) <= OutCap
  /\ writer \in BOOLEAN
  /\ reader \in {"up", "drain", "gone"}
  /\ handlers \subseteq Chunks
  /\ stream \in Seq(Messages)
  /\ agent \in {"none", "alive", "dead"}
  /\ turns \subseteq Turns
  /\ extras \in 0..MaxExtras
  /\ faults \in 0..MaxFaults

(* The types are those of the client and those of the sessions.            *)
LEMMA TypesSplit == /\ TypeInv <=> SessionTypes /\ ClientTypes
                    /\ TypeInv' <=> SessionTypes' /\ ClientTypes'
<1>1. ClientTypes => /\ \A c \in Clients : call[c] = NoCall \/ call[c].req \in Requests
                     /\ handlers \cup {stream[n] : n \in DOMAIN stream} \subseteq Messages
  BY CallShape, MessageParts DEF ClientTypes
<1>2. ClientTypes' => /\ \A c \in Clients : call'[c] = NoCall \/ call'[c].req \in Requests
                      /\ handlers' \cup {stream'[n] : n \in DOMAIN stream'} \subseteq Messages
  BY CallShape, MessageParts DEF ClientTypes
<1> QED
  BY <1>1, <1>2 DEF TypeInv, TypeOK, SessionTypes, ClientTypes, Calls

(* Making a call keeps the types.                                          *)
LEMMA StartTypes ==
  ASSUME ClientTypes, NEW c \in Clients, NEW method \in Methods, NEW sid \in Nat,
         Start(c, method, sid)
  PROVE  ClientTypes'
<1> DEFINE r == [id |-> nextId, method |-> method, sid |-> sid]
<1>1. r \in Requests /\ r.id = nextId
  BY DEF Requests, ClientTypes
<1> HIDE DEF r
<1>2. Ended(r, "refused") \in Over /\ Call(r) \in Open
  BY <1>1, CallNext DEF Results
<1>3. \/ call' = [call EXCEPT ![c] = Ended(r, "refused")]
      \/ call' = [call EXCEPT ![c] = Call(r)]
  BY DEF Start, r
<1>4. call' \in [Clients -> Calls]
  BY <1>2, <1>3 DEF ClientTypes, Calls
<1>5. nextId' = nextId + 1 /\ pending' \subseteq pending \cup {nextId}
  BY <1>1 DEF Start, r
<1>6. pending' \subseteq 1..nextId' - 1 /\ nextId' \in Nat \ {0}
  BY <1>5 DEF ClientTypes
<1> QED
  BY <1>4, <1>6 DEF Start, ClientTypes

(* So do sending it, receiving, timing out and forgetting.                 *)
LEMMA CallStepTypes ==
  ASSUME ClientTypes, NEW c \in Clients, CallStep(c)
  PROVE  ClientTypes'
<1>1. call[c] \in Calls
  BY DEF ClientTypes
<1>2. call[c] \in Open
  BY <1>1, CallShape DEF CallStep, Send, Receive, TimeOut, Forget
<1>3. call[c].req \in Requests /\ call[c].got \in Got
  BY <1>1, <1>2, CallShape
<1>4. call'[c] \in Open \cup Over /\ call' \in [Clients -> Calls]
  <2> DEFINE next(pc) == [call[c] EXCEPT !.pc = pc]
  <2>1. \A pc \in {"wait", "forget"} : next(pc) \in Open
    BY <1>2, OpenNext
  <2>2. \A result \in Results : Ended(call[c].req, result) \in Over
    BY <1>3, CallNext
  <2>3. \/ call' = [call EXCEPT ![c] = next("wait")]
        \/ call' = [call EXCEPT ![c] = next("forget")]
        \/ \E result \in Results : call' = [call EXCEPT ![c] = Ended(call[c].req, result)]
    BY <1>3 DEF CallStep, Send, Receive, TimeOut, Forget, Results
  <2> HIDE DEF next
  <2> QED
    BY <2>1, <2>2, <2>3 DEF ClientTypes, Calls
<1>5. pending' \subseteq pending /\ outq' \in Seq(Requests) /\ Len(outq') <= OutCap
  <2>1. \/ outq' = outq
        \/ Len(outq) < OutCap /\ outq' = Append(outq, call[c].req)
    BY DEF CallStep, Send, Receive, TimeOut, Forget
  <2>2. outq' \in Seq(Requests) /\ Len(outq') <= OutCap
    <3>1. outq \in Seq(Requests) /\ Len(outq) <= OutCap /\ OutCap \in Nat
      BY ClientAssumption DEF ClientTypes
    <3>2. CASE outq' = outq
      BY <3>1, <3>2
    <3>3. CASE Len(outq) < OutCap /\ outq' = Append(outq, call[c].req)
      <4> DEFINE r == call[c].req
      <4>1. r \in Requests
        BY <1>3
      <4>2. outq' = Append(outq, r) /\ Len(outq) < OutCap
        BY <3>3
      <4> HIDE DEF r
      <4> QED
        BY <3>1, <4>1, <4>2
    <3> QED
      BY <2>1, <3>2, <3>3
  <2> QED
    BY <2>2 DEF CallStep, Send, Receive, TimeOut, Forget
<1> QED
  BY <1>4, <1>5 DEF CallStep, Send, Receive, TimeOut, Forget, ClientTypes

(* How a call goes on: open with the same result, or over, and then either *)
(* its entry is taken out or it takes the result it was sent.              *)
LEMMA CallStepParts ==
  ASSUME ClientTypes, NEW c \in Clients, CallStep(c)
  PROVE  /\ call[c] \in Open /\ call[c].req \in Requests
         /\ call'[c].req = call[c].req
         /\ \A d \in Clients \ {c} : call'[d] = call[d]
         /\ \/ /\ call'[c] \in Open /\ call'[c].got = call[c].got
               /\ pending' = pending
            \/ /\ call'[c] \in Over /\ call'[c].result # "lost"
               /\ pending' = pending \ {call[c].req.id}
            \/ /\ call'[c] \in Over /\ call'[c].result = call[c].got
               /\ call[c].got # "nothing"
               /\ pending' = pending
<1>1. call[c] \in Open /\ call[c].req \in Requests /\ call[c].got \in Got
  <2>1. call[c] \in Calls /\ call[c].pc \in {"send", "wait", "forget"}
    BY DEF ClientTypes, CallStep, Send, Receive, TimeOut, Forget
  <2> QED
    BY <2>1, CallShape
<1> DEFINE next(pc) == [call[c] EXCEPT !.pc = pc]
<1>2. \/ \E pc \in {"wait", "forget"} : call' = [call EXCEPT ![c] = next(pc)] /\ pending' = pending
      \/ \E result \in Results \ {"lost"} :
           /\ call' = [call EXCEPT ![c] = Ended(call[c].req, result)]
           /\ pending' = pending \ {call[c].req.id}
      \/ /\ call' = [call EXCEPT ![c] = Ended(call[c].req, call[c].got)]
         /\ call[c].got \in Results /\ call[c].got # "nothing"
         /\ pending' = pending
  BY <1>1 DEF CallStep, Send, Receive, TimeOut, Forget, Results, Got
<1>3. \A pc \in {"wait", "forget"} :
        next(pc) \in Open /\ next(pc).req = call[c].req /\ next(pc).got = call[c].got
  BY <1>1, OpenNext
<1> HIDE DEF next
<1>4. \A result \in Results :
        LET over == Ended(call[c].req, result)
        IN  over \in Over /\ over.req = call[c].req /\ over.result = result
  BY <1>1, CallNext
<1> QED
  BY <1>1, <1>2, <1>3, <1>4 DEF ClientTypes

(* So do the writer task and the reader task.                              *)
LEMMA LinkStepTypes ==
  ASSUME ClientTypes, LinkStep
  PROVE  ClientTypes'
<1>1. CASE Write
  <2>1. /\ outq # << >> /\ Head(outq) \in Requests
        /\ Tail(outq) \in Seq(Requests) /\ Len(Tail(outq)) <= OutCap
    BY <1>1, ClientAssumption DEF Write, ClientTypes
  <2>2. Turn(Head(outq)) \in Turns
    BY <2>1, RequestParts
  <2>3. turns' \subseteq Turns
    BY <1>1, <2>2 DEF Write, ClientTypes
  <2>4. outq' \in Seq(Requests) /\ Len(outq') <= OutCap
    <3>1. << >> \in Seq(Requests) /\ Len(<< >>) <= OutCap
      BY ClientAssumption
    <3> QED
      BY <1>1, <2>1, <3>1 DEF Write
  <2> QED
    BY <1>1, <2>3, <2>4 DEF Write, ClientTypes
<1>2. ASSUME NEW ids, NEW got \in Got, call' = Woken(ids, got) PROVE call' \in [Clients -> Calls]
  <2>1. ASSUME NEW c \in Clients PROVE call'[c] \in Calls
    <3>1. call[c] \in Calls
      BY DEF ClientTypes
    <3>2. CASE call[c].pc \in {"send", "wait"} /\ call[c].req.id \in ids
      <4>1. call[c] \in Open
        BY <3>1, <3>2, CallShape
      <4>2. call'[c] = [call[c] EXCEPT !.got = got]
        BY <1>2, <3>2 DEF Woken
      <4> QED
        <5>1. [call[c] EXCEPT !.got = got] \in Open
          BY <4>1, OpenNext, Zenon
        <5> QED
          BY <4>2, <5>1, Zenon DEF Calls
    <3>3. CASE ~(call[c].pc \in {"send", "wait"} /\ call[c].req.id \in ids)
      BY <1>2, <3>1, <3>3 DEF Woken
    <3> QED
      BY <3>2, <3>3
  <2> QED
    BY <1>2, <2>1 DEF Woken
<1>3. CASE Read
  <2>1. /\ stream # << >> /\ Head(stream) \in Messages /\ Tail(stream) \in Seq(Messages)
        /\ stream' = Tail(stream)
    BY <1>3 DEF Read, ClientTypes
  <2>2. CASE Head(stream).kind = "reply"
    <3>1. Head(stream).got \in Got /\ call' = Woken({Head(stream).id} \cap pending, Head(stream).got)
      BY <1>3, <2>1, <2>2, MessageParts DEF Read, Got
    <3>2. call' \in [Clients -> Calls]
      BY <1>2, <3>1
    <3> QED
      BY <1>3, <2>1, <2>2, <3>2 DEF Read, ClientTypes
  <2>3. CASE Head(stream).kind = "chunk"
    <3>1. Head(stream) \in Chunks
      BY <2>1, <2>3, MessageParts
    <3> QED
      BY <1>3, <2>1, <2>3, <3>1 DEF Read, ClientTypes
  <2>4. CASE Head(stream).kind = "garbage"
    BY <1>3, <2>1, <2>4 DEF Read, ClientTypes
  <2> QED
    BY <2>1, <2>2, <2>3, <2>4, MessageParts
<1>4. CASE EndOfStream
  BY <1>4 DEF EndOfStream, ClientTypes
<1>5. CASE Drain
  <2>1. call' \in [Clients -> Calls]
    BY <1>2, <1>5 DEF Drain, Got
  <2> QED
    BY <1>5, <2>1 DEF Drain, ClientTypes
<1> QED
  BY <1>1, <1>3, <1>4, <1>5 DEF LinkStep

(* The faults stay within their bound.                                     *)
LEMMA FaultType == ASSUME faults \in 0..MaxFaults, NEW kind, Fault(kind) PROVE faults' \in 0..MaxFaults
BY ClientAssumption DEF Fault

(* What the agent writes is a message, read or not.                        *)
LEMMA WrittenType ==
  ASSUME ClientTypes, NEW m \in Messages
  PROVE  Written(m) \in Seq(Messages)
BY DEF Written, ClientTypes

(* The agent keeps the types, whatever it does.                            *)
LEMMA AgentStepTypes ==
  ASSUME ClientTypes, AgentStep
  PROVE  ClientTypes'
<1>1. ASSUME NEW t \in turns, NEW got \in {"ok", "error"}, Reply(t, got) PROVE ClientTypes'
  <2>1. t.req.id \in Nat
    BY RequestParts DEF ClientTypes
  <2>2. [kind |-> "reply", id |-> t.req.id, got |-> got] \in Messages
    BY <2>1 DEF Messages
  <2>3. stream' \in Seq(Messages)
    BY <1>1, <2>2, WrittenType DEF Reply
  <2>4. faults' \in 0..MaxFaults
    BY <1>1, FaultType DEF Reply, ClientTypes
  <2> QED
    BY <1>1, <2>3, <2>4 DEF Reply, ClientTypes
<1>2. ASSUME extras \in 0..MaxExtras, Extra PROVE extras' \in 1..MaxExtras
  BY <1>2, ClientAssumption DEF Extra
<1>3. ASSUME NEW t \in turns, SendChunk(t) PROVE ClientTypes'
  <2> DEFINE m == [kind |-> "chunk", turn |-> t.req.id, sid |-> t.req.sid, n |-> extras']
  <2>1. extras' \in 1..MaxExtras /\ t.req.id \in Nat /\ t.req.sid \in Nat
    BY <1>2, <1>3, RequestParts DEF SendChunk, ClientTypes
  <2>2. m \in Messages
    BY <2>1 DEF Messages
  <2> HIDE DEF m
  <2>3. stream' \in Seq(Messages)
    BY <1>3, <2>2, WrittenType DEF SendChunk, m
  <2> QED
    BY <1>3, <2>1, <2>3 DEF SendChunk, ClientTypes
<1>4. ASSUME NEW t \in turns, AskForTasks(t) PROVE ClientTypes'
  <2>1. extras' \in 1..MaxExtras /\ [t EXCEPT !.asked = TRUE] \in Turns
    BY <1>2, <1>4, RequestParts DEF AskForTasks, ClientTypes
  <2>2. turns' \subseteq Turns
    BY <1>4, <2>1 DEF AskForTasks, ClientTypes
  <2> QED
    BY <1>4, <2>1, <2>2 DEF AskForTasks, ClientTypes
<1>5. CASE SendGarbage
  <2>1. stream' \in Seq(Messages)
    BY <1>5, MessageParts DEF SendGarbage, ClientTypes
  <2> QED
    BY <1>5, <2>1, FaultType DEF SendGarbage, ClientTypes
<1>6. CASE Die
  BY <1>6, FaultType DEF Die, ClientTypes
<1> QED
  BY <1>1, <1>3, <1>4, <1>5, <1>6 DEF AgentStep

(* So does the drop of a client that could not be started.                 *)
LEMMA DisconnectTypes ==
  ASSUME ClientTypes, Disconnect, UNCHANGED << extras, faults >>
  PROVE  ClientTypes'
BY ClientAssumption DEF Disconnect, ClientTypes, Calls

(* Prompting keeps the types: each step of run_prompt and send.            *)
LEMMA FrontTypes ==
  ASSUME TypeInv, NEW c \in Clients,
         Begin(c) \/ FrontStep(c) \/ Collect(c)
  PROVE  TypeInv'
<1>1. SessionTypes /\ ClientTypes
  BY TypesSplit
<1>2. ASSUME UNCHANGED cvars PROVE ClientTypes'
  BY <1>1, <1>2 DEF cvars, ClientTypes
<1>3. ASSUME UNCHANGED svars PROVE SessionTypes'
  BY <1>1, <1>3 DEF svars, SessionTypes
<1>4. ASSUME call[c].pc = "ended" PROVE call[c].req.id \in Nat /\ [call EXCEPT ![c] = NoCall] \in [Clients -> Calls]
  <2>1. call[c] \in Calls
    BY <1>1 DEF ClientTypes
  <2>2. call[c].req \in Requests
    BY <1>4, <2>1, CallShape
  <2> QED
    BY <1>1, <2>2, RequestParts DEF ClientTypes, Calls
<1>5. CASE Begin(c)
  <2>1. SessionTypes'
    BY <1>1, <1>5, SessionAssumption DEF Begin, SessionTypes, Goto, Fronts
  <2> QED
    BY <1>2, <1>5, <2>1, TypesSplit DEF Begin
<1>6. CASE EnsureStarted(c)
  <2>1. SessionTypes'
    BY <1>1, <1>6 DEF EnsureStarted, SessionTypes, Goto, Fronts
  <2>2. ClientTypes'
    <3>1. CASE UNCHANGED cvars
      BY <1>2, <3>1
    <3>2. CASE Connect
      BY <1>1, <3>2 DEF Connect, ClientTypes
    <3>3. CASE Fault("spawn") /\ UNCHANGED << nextId, call, pending, outq, writer, reader, handlers,
                                               agent, turns, stream, answered, extras >>
      BY <1>1, <3>3, FaultType DEF ClientTypes
    <3> QED
      BY <1>6, <3>1, <3>2, <3>3 DEF EnsureStarted
  <2> QED
    BY <2>1, <2>2, TypesSplit
<1>7. CASE MakeCall(c)
  <2>1. front[c] \in Methods
    BY <1>7 DEF MakeCall, Methods
  <2> QED
    BY <1>1, <1>3, <1>7, <2>1, StartTypes, TypesSplit DEF MakeCall
<1>8. CASE Started(c)
  <2>1. SessionTypes'
    BY <1>1, <1>8 DEF Started, SessionTypes, Goto, Fronts
  <2>2. CASE Disconnect
    BY <1>1, <1>8, <2>1, <2>2, DisconnectTypes, TypesSplit DEF Started
  <2>3. CASE ~Disconnect
    BY <1>1, <1>4, <1>8, <2>1, <2>3, TypesSplit DEF Started, ClientTypes
  <2> QED
    BY <2>2, <2>3
<1>9. CASE Created(c)
  <2>1. SessionTypes'
    BY <1>1, <1>4, <1>9 DEF Created, SessionTypes, Goto, Fronts, NewSession
  <2>2. ClientTypes'
    BY <1>1, <1>4, <1>9 DEF Created, ClientTypes
  <2> QED
    BY <2>1, <2>2, TypesSplit
<1>10. CASE Register(c)
  <2>1. SessionTypes'
    BY <1>1, <1>10 DEF Register, SessionTypes, Goto, Fronts
  <2>2. slot[c] \in Nat /\ "prompt" \in Methods
    BY <1>1 DEF SessionTypes, Methods
  <2> QED
    BY <1>1, <1>10, <2>1, <2>2, StartTypes, TypesSplit DEF Register
<1>11. CASE Collect(c)
  <2>1. Head(queue[c]) \in Chunks /\ Tail(queue[c]) \in Seq(Chunks) /\ Len(Tail(queue[c])) <= ChunkCap
    BY <1>1, <1>11, SessionAssumption DEF Collect, SessionTypes
  <2>2. SessionTypes'
    BY <1>1, <1>11, <2>1 DEF Collect, SessionTypes
  <2> QED
    BY <1>2, <1>11, <2>2, TypesSplit DEF Collect
<1>12. CASE Prompted(c)
  <2>1. {queue[c][n] : n \in DOMAIN queue[c]} \subseteq Chunks
    BY <1>1 DEF SessionTypes
  <2>2. SessionTypes'
    BY <1>1, <1>12, <2>1, SessionAssumption DEF Prompted, SessionTypes, Goto, Fronts
  <2> QED
    BY <1>2, <1>12, <2>2, TypesSplit DEF Prompted
<1>13. CASE Return(c)
  <2>1. SessionTypes'
    BY <1>1, <1>13, SessionAssumption DEF Return, SessionTypes, Goto, Fronts
  <2>2. ClientTypes'
    BY <1>1, <1>13 DEF Return, ClientTypes, Calls
  <2> QED
    BY <2>1, <2>2, TypesSplit
<1>14. CASE CallStep(c) /\ UNCHANGED svars
  BY <1>1, <1>3, <1>14, CallStepTypes, TypesSplit
<1> QED
  BY <1>5, <1>6, <1>7, <1>8, <1>9, <1>10, <1>11, <1>12, <1>13, <1>14 DEF FrontStep

(* The types are inductive.                                                *)
LEMMA NextTypeInv == TypeInv /\ [Next]_vars => TypeInv'
<1> SUFFICES ASSUME TypeInv, [Next]_vars PROVE TypeInv'
  OBVIOUS
<1>1. SessionTypes /\ ClientTypes
  BY TypesSplit
<1>2. ASSUME UNCHANGED svars PROVE SessionTypes'
  BY <1>1, <1>2 DEF svars, SessionTypes
<1>3. ASSUME NEW m \in handlers, Handle(m) PROVE TypeInv'
  <2>1. m \in Chunks
    BY <1>1 DEF ClientTypes
  <2>2. ASSUME NEW c \in Clients PROVE queue'[c] \in Seq(Chunks) /\ Len(queue'[c]) <= ChunkCap
    BY <1>1, <1>3, <2>1, SessionAssumption DEF Handle, SessionTypes
  <2>3. queue' \in [Clients -> Seq(Chunks)]
    BY <1>3, <2>2 DEF Handle
  <2>4. SessionTypes'
    BY <1>1, <1>3, <2>2, <2>3 DEF Handle, SessionTypes
  <2>5. ClientTypes'
    BY <1>1, <1>3 DEF Handle, ClientTypes
  <2> QED
    BY <2>4, <2>5, TypesSplit
<1>4. ASSUME NEW t \in turns, ListTasks(t) PROVE TypeInv'
  <2>1. Turn(t.req) \in Turns
    BY <1>1, RequestParts DEF ClientTypes
  <2>2. ClientTypes'
    BY <1>1, <1>4, <2>1 DEF ListTasks, GetTasks, ClientTypes
  <2> QED
    BY <1>2, <1>4, <2>2, TypesSplit DEF ListTasks
<1>5. CASE UNCHANGED vars
  <2>1. ClientTypes'
    BY <1>1, <1>5 DEF vars, cvars, ClientTypes
  <2> QED
    BY <1>2, <1>5, <2>1, TypesSplit DEF vars
<1> QED
  BY <1>1, <1>2, <1>3, <1>4, <1>5, FrontTypes, LinkStepTypes, AgentStepTypes, TypesSplit DEF Next

-----------------------------------------------------------------------------
(* What a step of the daemon and its agent is to the client. *)

Untouched == UNCHANGED << nextId, call, pending, outq, reader, handlers, turns,
                          stream, answered >>

(* The end of a call is taken note of.                                     *)
Cleared(c) ==
  /\ call[c].pc = "ended" \/ front[c] = "return"
  /\ call' = [call EXCEPT ![c] = NoCall]
  /\ UNCHANGED << nextId, pending, outq, reader, handlers, turns, stream,
                  answered >>

NewCall(c) ==
  \E method \in Methods, sid \in Nat :
    /\ method = "prompt" => sid # 0
    /\ Start(c, method, sid)

(* Every step leaves the client alone or is one of its own operations.     *)
LEMMA ClientSteps ==
  ASSUME TypeInv, Listening, [Next]_vars
  PROVE  \/ Untouched
         \/ Disconnect
         \/ \E c \in Clients : Cleared(c) \/ NewCall(c) \/ CallStep(c)
         \/ LinkStep
         \/ \E m \in handlers : Handle(m)
         \/ \E t \in turns : GetTasks(t)
         \/ AgentStep
<1>1. ASSUME NEW c \in Clients, FrontStep(c)
      PROVE  Untouched \/ Disconnect \/ Cleared(c) \/ NewCall(c) \/ CallStep(c)
  <2>1. EnsureStarted(c) => Untouched
    BY DEF EnsureStarted, Connect, Untouched, cvars
  <2>2. MakeCall(c) => NewCall(c)
    BY DEF MakeCall, NewCall, Methods
  <2>3. Started(c) => Disconnect \/ Cleared(c)
    BY DEF Started, Cleared
  <2>4. Created(c) => Cleared(c)
    BY DEF Created, Cleared
  <2>5. Register(c) => NewCall(c)
    <3>1. ASSUME Register(c) PROVE slot[c] # 0 /\ slot[c] \in Nat /\ Start(c, "prompt", slot[c])
      BY <3>1 DEF Register, Listening, TypeInv, TypeOK
    <3> QED
      BY <3>1 DEF NewCall, Methods
  <2>6. Prompted(c) => Untouched
    BY DEF Prompted, Untouched, cvars
  <2>7. Return(c) => Cleared(c)
    BY DEF Return, Cleared
  <2> QED
    BY <1>1, <2>1, <2>2, <2>3, <2>4, <2>5, <2>6, <2>7 DEF FrontStep
<1>2. ASSUME NEW c \in Clients, Begin(c) \/ Collect(c) PROVE Untouched
  BY <1>2 DEF Begin, Collect, Untouched, cvars
<1>3. UNCHANGED vars => Untouched
  BY DEF vars, cvars, Untouched
<1> QED
  BY <1>1, <1>2, <1>3 DEF Next, ListTasks

-----------------------------------------------------------------------------
(* Traffic. *)

(* Ids are never given twice, so what is known stays known.                *)
LEMMA KnownStays ==
  ASSUME nextId \in Nat, nextId' \in Nat, nextId <= nextId'
  PROVE  /\ \A r \in Requests : Known(r, nextId) => Known(r, nextId')
         /\ answered \subseteq 1..nextId - 1 => answered \subseteq 1..nextId' - 1
         /\ 1..nextId - 1 \subseteq 1..nextId' - 1
BY RequestParts DEF Known

(* A message is written behind the others, if the stream is good.          *)
LEMMA WrittenParts ==
  ASSUME stream \in Seq(Messages), NEW m \in Messages
  PROVE  /\ Len(Written(m)) >= Len(stream)
         /\ \A n \in DOMAIN stream : n \in DOMAIN Written(m) /\ Written(m)[n] = stream[n]
         /\ \A n \in DOMAIN Written(m) : n \in DOMAIN stream \/ Written(m)[n] = m
         /\ StreamGood => /\ Len(Written(m)) = Len(stream) + 1
                          /\ Written(m)[Len(stream) + 1] = m
BY DEF Written

(* Before the first prompt nothing is on its way.                          *)
LEMMA InitTraffic == Init => Traffic /\ Waiting /\ Answers /\ Listening
<1> SUFFICES ASSUME Init PROVE Traffic /\ Waiting /\ Answers /\ Listening
  OBVIOUS
<1>1. \A c \in Clients : call[c] = NoCall /\ call[c] \notin Open /\ call[c] \notin Over
  <2>1. NoCall \notin Open /\ NoCall \notin Over
    BY DEF NoCall, Open, Over
  <2> QED
    BY <2>1 DEF Init, Unconnected
<1>2. Traffic
  BY <1>1 DEF Init, Unconnected, Traffic
<1>3. Waiting
  BY <1>1 DEF Init, Unconnected, Waiting, PendingIsWaiting
<1>4. Answers
  BY <1>1 DEF Init, Unconnected, Answers, WasLost
<1>5. Listening
  BY DEF Init, Listening
<1> QED
  BY <1>2, <1>3, <1>4, <1>5

(* What is on its way was asked for: requests have ids that were given,    *)
(* and chunks a session.                                                   *)
LEMMA NextTraffic == TypeInv /\ Traffic /\ Listening /\ [Next]_vars => Traffic'
<1> SUFFICES ASSUME TypeInv, Traffic, Listening, [Next]_vars PROVE Traffic'
  OBVIOUS
<1>1. ClientTypes
  BY TypesSplit
<1>2. CASE Untouched
  BY <1>2 DEF Untouched, Traffic, Known
<1>3. CASE Disconnect
  BY <1>3, CallShape DEF Disconnect, Traffic
<1>4. ASSUME NEW c \in Clients, Cleared(c) PROVE Traffic'
  BY <1>1, <1>4 DEF Cleared, Traffic, Known, ClientTypes
<1>5. ASSUME NEW c \in Clients, NewCall(c) PROVE Traffic'
  <2>1. PICK method \in Methods, sid \in Nat :
          (method = "prompt" => sid # 0) /\ Start(c, method, sid)
    BY <1>5 DEF NewCall
  <2> DEFINE r == [id |-> nextId, method |-> method, sid |-> sid]
  <2>2. r \in Requests /\ r.id = nextId /\ r.method = method /\ r.sid = sid
    BY <1>1 DEF Requests, ClientTypes
  <2>3. nextId' = nextId + 1 /\ UNCHANGED << outq, handlers, turns, stream, answered >>
    BY <2>1 DEF Start
  <2>4. \/ call' = [call EXCEPT ![c] = Ended(r, "refused")]
        \/ call' = [call EXCEPT ![c] = Call(r)]
    BY <2>1 DEF Start
  <2> HIDE DEF r
  <2>5. Known(r, nextId')
    BY <1>1, <2>1, <2>2, <2>3 DEF Known, ClientTypes
  <2>6. nextId \in Nat /\ nextId' \in Nat /\ nextId <= nextId'
    BY <1>1, <2>3 DEF ClientTypes
  <2>7. ASSUME NEW d \in Clients, call'[d] # NoCall PROVE Known(call'[d].req, nextId')
    <3>1. CASE d = c
      BY <1>1, <2>2, <2>4, <2>5, <3>1, CallNext DEF ClientTypes, Results
    <3>2. CASE d # c
      <4>1. call'[d] = call[d] /\ call[d] \in Calls
        BY <1>1, <2>4, <3>2 DEF ClientTypes
      <4> QED
        BY <2>6, <2>7, <4>1, KnownStays, CallShape DEF Traffic, Calls
    <3> QED
      BY <3>1, <3>2
  <2>8. \A n \in DOMAIN outq : Known(outq[n], nextId')
    BY <1>1, <2>6, KnownStays DEF Traffic, ClientTypes
  <2>9. \A t \in turns : Known(t.req, nextId')
    BY <1>1, <2>6, KnownStays, RequestParts DEF Traffic, ClientTypes
  <2>10. answered' \subseteq 1..nextId' - 1
    BY <2>3, <2>6, KnownStays DEF Traffic
  <2> QED
    BY <2>3, <2>7, <2>8, <2>9, <2>10 DEF Traffic
<1>6. ASSUME NEW c \in Clients, CallStep(c) PROVE Traffic'
  <2>1. call[c] \in Open /\ call[c].req \in Requests
    BY <1>1, <1>6, CallStepParts
  <2>2. Known(call[c].req, nextId)
    BY <2>1, CallShape DEF Traffic, Calls
  <2>3. call'[c].req = call[c].req /\ \A d \in Clients \ {c} : call'[d] = call[d]
    BY <1>1, <1>6, CallStepParts
  <2>4. UNCHANGED << nextId, handlers, turns, stream, answered >>
    BY <1>6 DEF CallStep, Send, Receive, TimeOut, Forget
  <2>5. outq' = outq \/ outq' = Append(outq, call[c].req)
    BY <1>6 DEF CallStep, Send, Receive, TimeOut, Forget
  <2>6. \A n \in DOMAIN outq' : Known(outq'[n], nextId)
    <3> DEFINE r == call[c].req
    <3>1. outq \in Seq(Requests) /\ \A n \in DOMAIN outq : Known(outq[n], nextId)
      BY <1>1 DEF Traffic, ClientTypes
    <3>2. r \in Requests /\ Known(r, nextId) /\ (outq' = outq \/ outq' = Append(outq, r))
      BY <2>1, <2>2, <2>5
    <3> HIDE DEF r
    <3>3. \A n \in DOMAIN Append(outq, r) : Known(Append(outq, r)[n], nextId)
      BY <3>1, <3>2
    <3> QED
      BY <3>1, <3>2, <3>3, Zenon
  <2> QED
    BY <2>2, <2>3, <2>4, <2>6 DEF Traffic, Known
<1>7. ASSUME NEW ids, NEW got, call' = Woken(ids, got), nextId' = nextId, NEW c \in Clients, call'[c] # NoCall
      PROVE  Known(call'[c].req, nextId')
  <2>1. call[c] \in Calls
    BY <1>1 DEF ClientTypes
  <2>2. CASE call'[c] = call[c]
    BY <1>7, <2>2 DEF Traffic, Known
  <2>3. CASE call'[c] = [call[c] EXCEPT !.got = got] /\ call[c].pc \in {"send", "wait"}
    <3>1. call[c] \in Open /\ call[c] # NoCall
      BY <2>1, <2>3, CallShape
    <3>2. call'[c].req = call[c].req
      BY <2>3, <3>1 DEF Open
    <3> QED
      BY <1>7, <3>1, <3>2 DEF Traffic, Known
  <2> QED
    BY <1>7, <2>2, <2>3 DEF Woken
<1>8. CASE LinkStep
  <2>1. CASE Write
    <3>1. outq # << >> /\ Known(Head(outq), nextId) /\ Head(outq) \in Requests
      BY <1>1, <2>1 DEF Write, ClientTypes, Traffic
    <3>2. \A t \in turns' : Known(t.req, nextId')
      <4> DEFINE u == Turn(Head(outq))
      <4>1. Known(u.req, nextId)
        BY <3>1, RequestParts, Zenon
      <4>2. nextId' = nextId /\ (turns' = turns \/ turns' = turns \cup {u})
        BY <2>1, Zenon DEF Write
      <4>3. \A t \in turns : Known(t.req, nextId)
        BY Zenon DEF Traffic
      <4> HIDE DEF u
      <4>4. \A t \in turns' : t \in turns \/ t = u
        BY <4>2, Zenon
      <4> QED
        BY <4>1, <4>2, <4>3, <4>4, Zenon
    <3>3. \A n \in DOMAIN outq' : Known(outq'[n], nextId)
      <4>1. \A n \in DOMAIN Tail(outq) : n + 1 \in DOMAIN outq /\ Tail(outq)[n] = outq[n + 1]
        BY <1>1, <3>1 DEF ClientTypes
      <4>2. outq' = Tail(outq) \/ outq' = << >>
        BY <2>1 DEF Write
      <4>3. CASE outq' = Tail(outq)
        BY <4>1, <4>3 DEF Traffic
      <4>4. CASE outq' = << >>
        BY <4>4
      <4> QED
        BY <4>2, <4>3, <4>4
    <3> QED
      BY <2>1, <3>2, <3>3 DEF Write, Traffic, Known
  <2>2. CASE Read
    <3>1. /\ Head(stream) \in Messages
          /\ Head(stream).kind = "chunk" => Head(stream).sid # 0
          /\ \A n \in DOMAIN stream' : stream'[n].kind = "chunk" => stream'[n].sid # 0
      BY <1>1, <2>2 DEF Read, ClientTypes, Traffic
    <3>2. \A m \in handlers' : m.sid # 0
      BY <2>2, <3>1, MessageParts DEF Read, Traffic
    <3>3. UNCHANGED << nextId, outq, turns, answered >>
      BY <2>2 DEF Read
    <3>4. \/ call' = call
          \/ call' = Woken({Head(stream).id} \cap pending, Head(stream).got)
      BY <2>2, <3>1, MessageParts DEF Read
    <3>5. \A c \in Clients : call'[c] # NoCall => Known(call'[c].req, nextId')
      BY <1>7, <3>3, <3>4 DEF Traffic, Known
    <3> QED
      BY <3>1, <3>2, <3>3, <3>5 DEF Traffic, Known
  <2>3. CASE EndOfStream
    BY <2>3 DEF EndOfStream, Traffic, Known
  <2>4. CASE Drain
    <3>1. \A c \in Clients : call'[c] # NoCall => Known(call'[c].req, nextId')
      BY <1>7, <2>4 DEF Drain
    <3> QED
      BY <2>4, <3>1 DEF Drain, Traffic, Known
  <2> QED
    BY <1>8, <2>1, <2>2, <2>3, <2>4 DEF LinkStep
<1>9. ASSUME NEW m \in handlers, Handle(m) PROVE Traffic'
  BY <1>9 DEF Handle, Traffic, Known
<1>10. ASSUME NEW t \in turns, GetTasks(t) PROVE Traffic'
  <2>1. \A u \in turns' : Known(u.req, nextId)
    <3> DEFINE v == Turn(t.req)
    <3>1. t.req \in Requests /\ Known(t.req, nextId) /\ \A u \in turns : Known(u.req, nextId)
      BY <1>1, RequestParts, Zenon DEF ClientTypes, Traffic
    <3>2. v.req = t.req
      BY <3>1, RequestParts, Zenon
    <3>3. \A u \in turns' : u \in turns \/ u = v
      BY <1>10, Zenon DEF GetTasks
    <3> HIDE DEF v
    <3> QED
      BY <3>1, <3>2, <3>3, Zenon
  <2> QED
    BY <1>10, <2>1 DEF GetTasks, Traffic, Known
<1>11. CASE AgentStep
  <2>1. ASSUME NEW t \in turns, NEW got \in {"ok", "error"}, Reply(t, got) PROVE Traffic'
    <3> DEFINE m == [kind |-> "reply", id |-> t.req.id, got |-> got]
    <3>1. t.req \in Requests /\ t.req.id \in Nat /\ Known(t.req, nextId)
      BY <1>1, RequestParts DEF ClientTypes, Traffic
    <3>2. m \in Messages /\ m.kind = "reply" /\ stream' = Written(m)
      BY <2>1, <3>1 DEF Messages, Reply
    <3> HIDE DEF m
    <3>3. \A n \in DOMAIN stream' : stream'[n].kind = "chunk" => stream'[n].sid # 0
      BY <1>1, <3>2, WrittenParts DEF ClientTypes, Traffic
    <3>4. answered' \subseteq 1..nextId - 1
      BY <2>1, <3>1 DEF Reply, Traffic, Known
    <3> QED
      BY <2>1, <3>3, <3>4 DEF Reply, Traffic, Known
  <2>2. ASSUME NEW t \in turns, SendChunk(t) PROVE Traffic'
    <3> DEFINE m == [kind |-> "chunk", turn |-> t.req.id, sid |-> t.req.sid, n |-> extras']
    <3>1. t.req \in Requests /\ t.req.id \in Nat /\ t.req.sid \in Nat /\ t.req.sid # 0
      BY <1>1, <2>2, RequestParts DEF ClientTypes, Traffic, SendChunk, Known
    <3>2. extras' \in 1..MaxExtras
      BY <1>1, <2>2, ClientAssumption DEF SendChunk, Extra, ClientTypes
    <3>3. m \in Messages /\ m.sid # 0 /\ stream' = Written(m)
      BY <2>2, <3>1, <3>2 DEF Messages, SendChunk
    <3> HIDE DEF m
    <3>4. \A n \in DOMAIN stream' : stream'[n].kind = "chunk" => stream'[n].sid # 0
      BY <1>1, <3>3, WrittenParts DEF ClientTypes, Traffic
    <3> QED
      BY <2>2, <3>4 DEF SendChunk, Traffic, Known
  <2>3. ASSUME NEW t \in turns, AskForTasks(t) PROVE Traffic'
    <3>1. \A u \in turns' : Known(u.req, nextId)
      <4>1. turns' \subseteq turns \cup {[t EXCEPT !.asked = TRUE]}
        BY <2>3 DEF AskForTasks
      <4>2. [t EXCEPT !.asked = TRUE].req = t.req
        BY <1>1, RequestParts DEF ClientTypes
      <4> QED
        BY <4>1, <4>2 DEF Traffic
    <3> QED
      BY <2>3, <3>1 DEF AskForTasks, Traffic, Known
  <2>4. CASE SendGarbage
    <3>1. \A n \in DOMAIN stream' : (n \in DOMAIN stream /\ stream'[n] = stream[n]) \/ stream'[n] = Garbage
      BY <1>1, <2>4, MessageParts DEF SendGarbage, ClientTypes
    <3>2. \A n \in DOMAIN stream' : stream'[n].kind = "chunk" => stream'[n].sid # 0
      BY <3>1, MessageParts DEF Traffic
    <3> QED
      BY <2>4, <3>2 DEF SendGarbage, Traffic, Known
  <2>5. CASE Die
    BY <2>5 DEF Die, Traffic, Known
  <2> QED
    BY <1>11, <2>1, <2>2, <2>3, <2>4, <2>5 DEF AgentStep
<1> QED
  BY <1>2, <1>3, <1>4, <1>5, <1>6, <1>8, <1>9, <1>10, <1>11, ClientSteps

-----------------------------------------------------------------------------
(* Waiting. *)

(* What a oneshot is sent, and to whom.                                    *)
LEMMA WokenParts ==
  ASSUME ClientTypes, NEW ids, NEW got \in Got, call' = Woken(ids, got), NEW c \in Clients
  PROVE  /\ \/ call'[c] = call[c]
            \/ /\ call[c] \in Open /\ call[c].req.id \in ids
               /\ call'[c] \in Open /\ call'[c].got = got
               /\ call'[c].req = call[c].req
         /\ call'[c] \in Open <=> call[c] \in Open
<1>1. call[c] \in Calls
  BY DEF ClientTypes
<1>2. CASE call[c].pc \in {"send", "wait"} /\ call[c].req.id \in ids
  <2>1. call[c] \in Open
    BY <1>1, <1>2, CallShape
  <2>2. call'[c] = [call[c] EXCEPT !.got = got]
    BY <1>2 DEF Woken
  <2>3. LET j == [call[c] EXCEPT !.got = got]
        IN  j \in Open /\ j.req = call[c].req /\ j.got = got
    BY <2>1, OpenNext
  <2> QED
    BY <1>2, <2>1, <2>2, <2>3
<1>3. CASE ~(call[c].pc \in {"send", "wait"} /\ call[c].req.id \in ids)
  BY <1>3 DEF Woken
<1> QED
  BY <1>2, <1>3

(* A call under way is an open one.                                        *)
LEMMA InCallIsOpen ==
  /\ ClientTypes => \A c \in Clients : InCall(c) <=> call[c] \in Open
  /\ ClientTypes' => \A c \in Clients : InCall(c)' <=> call'[c] \in Open
BY CallShape DEF ClientTypes, InCall

(* The reader's steps, by what they do to the calls.                       *)
LEMMA ReadParts ==
  ASSUME ClientTypes, Read
  PROVE  LET m == Head(stream)
         IN  /\ m \in Messages /\ stream # << >> /\ stream' = Tail(stream)
             /\ \/ /\ m.kind = "reply" /\ m.got \in Got /\ m.got \in {"ok", "error"}
                   /\ call' = Woken({m.id} \cap pending, m.got)
                   /\ pending' = pending \ {m.id} /\ reader' = "up"
                \/ m.kind = "chunk" /\ UNCHANGED << call, pending >> /\ reader' = "up"
                \/ m = Garbage /\ UNCHANGED << call, pending >> /\ reader' = "drain"
             /\ UNCHANGED << nextId, answered >>
<1>1. Head(stream) \in Messages /\ stream # << >>
  BY DEF Read, ClientTypes
<1> QED
  BY <1>1, MessageParts DEF Read, Got

(* Nobody has a call under way while his prompt returns.                   *)
LEMMA NextReturn ==
  ASSUME TypeInv, Waiting, [Next]_vars, NEW c \in Clients, front'[c] = "return"
  PROVE  call'[c] \notin Open
<1>1. ClientTypes /\ front \in [Clients -> Fronts]
  BY TypesSplit DEF SessionTypes
<1>2. front[c] = "return" => call[c] \notin Open
  BY <1>1, InCallIsOpen DEF Waiting
<1>3. call[c].pc = "ended" => call[c] \notin Open
  BY CallShape, <1>1 DEF ClientTypes, Calls, Open
<1>4. NoCall \notin Open
  BY DEF NoCall, Open
<1>5. ASSUME NEW d \in Clients, FrontStep(d) PROVE call'[c] \notin Open
  <2>1. EnsureStarted(d) => front[c] = "return" /\ call' = call
    BY <1>1 DEF EnsureStarted, Connect, Goto, cvars
  <2>2. MakeCall(d) => /\ front[c] = "return" /\ d # c
                       /\ \E j : call' = [call EXCEPT ![d] = j]
    BY <1>1 DEF MakeCall, Start, svars
  <2>3. Started(d) => \/ call'[c] = NoCall
                      \/ front[c] = "return" /\ d # c /\ call' = [call EXCEPT ![d] = NoCall]
    BY <1>1 DEF Started, Goto, Disconnect
  <2>4. Created(d) => front[c] = "return" /\ d # c /\ call' = [call EXCEPT ![d] = NoCall]
    BY <1>1 DEF Created, Goto
  <2>5. Register(d) => /\ front[c] = "return" /\ d # c
                       /\ \E j : call' = [call EXCEPT ![d] = j]
    BY <1>1 DEF Register, Start, Goto
  <2>6. Prompted(d) => /\ call' = call
                       /\ front[c] = "return" \/ call[c].pc = "ended"
    BY <1>1 DEF Prompted, Goto, cvars
  <2>7. Return(d) => front[c] = "return" /\ d # c /\ call' = [call EXCEPT ![d] = NoCall]
    BY <1>1 DEF Return, Goto
  <2>8. CallStep(d) /\ UNCHANGED svars => front[c] = "return" /\ d # c /\ call'[c] = call[c]
    <3>1. ASSUME CallStep(d), UNCHANGED svars
          PROVE  front[c] = "return" /\ d # c /\ call'[c] = call[c]
      BY <1>1, <1>2, <3>1, CallStepParts DEF svars
    <3> QED
      BY <3>1
  <2>9. ASSUME d # c, front[c] = "return", NEW j, call' = [call EXCEPT ![d] = j] PROVE call'[c] \notin Open
    BY <1>1, <1>2, <2>9 DEF ClientTypes
  <2> QED
    BY <1>2, <1>3, <1>4, <1>5, <2>1, <2>2, <2>3, <2>4, <2>5, <2>6, <2>7, <2>8, <2>9 DEF FrontStep
<1>6. ASSUME NEW d \in Clients, Begin(d) \/ Collect(d) PROVE call'[c] \notin Open
  <2>1. front[c] = "return" /\ call' = call
    BY <1>1, <1>6 DEF Begin, Collect, Goto, cvars
  <2> QED
    BY <1>2, <2>1
<1>7. ASSUME LinkStep, UNCHANGED svars PROVE call'[c] \notin Open
  <2>1. \/ call' = call
        \/ \E ids, got : got \in Got /\ call' = Woken(ids, got)
    <3>1. Write \/ EndOfStream => call' = call
      BY DEF Write, EndOfStream
    <3>2. Drain => call' = Woken(pending, "lost") /\ "lost" \in Got
      BY DEF Drain, Got
    <3> QED
      BY <1>1, <1>7, <3>1, <3>2, ReadParts DEF LinkStep
  <2>2. front[c] = "return"
    BY <1>7 DEF svars
  <2> QED
    BY <1>1, <1>2, <2>1, <2>2, WokenParts
<1>8. ASSUME \/ \E m \in handlers : Handle(m)
             \/ \E t \in turns : ListTasks(t)
             \/ AgentStep /\ UNCHANGED svars
             \/ UNCHANGED vars
      PROVE  call'[c] \notin Open
  <2>1. front[c] = "return" /\ call' = call
    BY <1>8 DEF Handle, ListTasks, GetTasks, AgentStep, Reply, SendChunk, AskForTasks, SendGarbage,
                Die, vars, svars, cvars
  <2> QED
    BY <1>2, <2>1
<1> QED
  BY <1>5, <1>6, <1>7, <1>8 DEF Next

Sent(c) == call[c] \in Open /\ call[c].got # "nothing"

(* The two halves of Waiting that speak of the pending map.                *)
MapIsOpen ==
  /\ \A id \in pending : \E c \in Clients : call[c] \in Open /\ call[c].req.id = id
  /\ \A c \in Clients : Sent(c) => call[c].req.id \notin pending

(* Waiting, told by the open calls.                                        *)
LEMMA WaitingParts ==
  /\ ClientTypes => (Waiting <=> /\ MapIsOpen
                                 /\ \A c \in Clients : front[c] = "return" => call[c] \notin Open)
  /\ ClientTypes' => (Waiting' <=> /\ MapIsOpen'
                                   /\ \A c \in Clients : front'[c] = "return" => call'[c] \notin Open)
<1>1. ClientTypes => (Waiting <=> /\ MapIsOpen
                                  /\ \A c \in Clients : front[c] = "return" => call[c] \notin Open)
  BY InCallIsOpen DEF Waiting, PendingIsWaiting, MapIsOpen, Sent
<1>2. ClientTypes' => (Waiting' <=> /\ MapIsOpen'
                                    /\ \A c \in Clients : front'[c] = "return" => call'[c] \notin Open)
  BY InCallIsOpen DEF Waiting, PendingIsWaiting, MapIsOpen, Sent
<1> QED
  BY <1>1, <1>2

(* Every step keeps the map to the calls under way.                        *)
LEMMA NextWaiting ==
  TypeInv /\ Traffic /\ Waiting /\ Listening /\ [Next]_vars => Waiting'
<1> SUFFICES ASSUME TypeInv, Traffic, Waiting, Listening, [Next]_vars PROVE Waiting'
  OBVIOUS
<1>1. ClientTypes /\ ClientTypes'
  BY NextTypeInv, TypesSplit
<1>2. MapIsOpen /\ \A c \in Clients : front[c] = "return" => call[c] \notin Open
  BY <1>1, WaitingParts
<1>3. NoCall \notin Open
  BY DEF NoCall, Open
<1>4. ASSUME UNCHANGED << call, pending >> PROVE MapIsOpen'
  BY <1>2, <1>4 DEF MapIsOpen, Sent
<1>5. ASSUME Disconnect PROVE MapIsOpen'
  BY <1>3, <1>5 DEF Disconnect, MapIsOpen, Sent
<1>6. ASSUME NEW c \in Clients, Cleared(c) PROVE MapIsOpen'
  <2>1. call[c] \notin Open
    BY <1>1, <1>2, <1>6, CallShape DEF Cleared, ClientTypes, Open
  <2>2. call' = [call EXCEPT ![c] = NoCall] /\ pending' = pending
    BY <1>6 DEF Cleared
  <2>3. call'[c] = NoCall /\ \A d \in Clients \ {c} : call'[d] = call[d]
    BY <1>1, <2>2 DEF ClientTypes
  <2> QED
    BY <1>2, <1>3, <2>1, <2>2, <2>3 DEF MapIsOpen, Sent
<1>7. ASSUME NEW c \in Clients, NewCall(c) PROVE MapIsOpen'
  <2>1. PICK method \in Methods, sid \in Nat : Start(c, method, sid)
    BY <1>7 DEF NewCall
  <2> DEFINE r == [id |-> nextId, method |-> method, sid |-> sid]
  <2>2. r \in Requests /\ r.id = nextId
    BY <1>1 DEF Requests, ClientTypes
  <2>3. /\ call[c] = NoCall
        /\ \/ call' = [call EXCEPT ![c] = Ended(r, "refused")] /\ pending' = pending
           \/ call' = [call EXCEPT ![c] = Call(r)] /\ pending' = pending \cup {nextId}
    BY <2>1, <2>2 DEF Start
  <2> HIDE DEF r
  <2>4. \A d \in Clients \ {c} : call'[d] = call[d]
    BY <1>1, <2>3 DEF ClientTypes
  <2>5. Ended(r, "refused") \in Over /\ Ended(r, "refused") \notin Open
    <3>1. \A j \in Over : j \notin Open
      BY CallShape DEF Calls, Open
    <3> QED
      BY <2>2, <3>1, CallNext DEF Results
  <2>6. Call(r) \in Open /\ Call(r).req.id = nextId /\ Call(r).got = "nothing"
    BY <2>2, CallNext
  <2>7. ASSUME NEW d \in Clients \ {c}, Sent(d) PROVE call[d].req.id # nextId
    <3>1. call[d].req.id \in 1..nextId - 1
      BY <1>3, <2>7 DEF Traffic, Sent, Known
    <3> QED
      BY <1>1, <3>1 DEF ClientTypes
  <2>8. CASE call' = [call EXCEPT ![c] = Ended(r, "refused")] /\ pending' = pending
    <3>1. call'[c] = Ended(r, "refused")
      BY <1>1, <2>8 DEF ClientTypes
    <3> QED
      BY <1>2, <1>3, <2>3, <2>4, <2>5, <2>8, <3>1 DEF MapIsOpen, Sent
  <2>9. CASE call' = [call EXCEPT ![c] = Call(r)] /\ pending' = pending \cup {nextId}
    <3>1. call'[c] = Call(r)
      BY <1>1, <2>9 DEF ClientTypes
    <3> QED
      BY <1>2, <1>3, <2>3, <2>4, <2>6, <2>7, <2>9, <3>1 DEF MapIsOpen, Sent
  <2> QED
    BY <2>3, <2>8, <2>9
<1>8. ASSUME NEW c \in Clients, CallStep(c) PROVE MapIsOpen'
  <2>1. \A j \in Over : j \notin Open
    BY CallShape DEF Calls, Open
  <2>2. call[c] \in Open /\ call'[c].req = call[c].req /\ \A d \in Clients \ {c} : call'[d] = call[d]
    BY <1>1, <1>8, CallStepParts
  <2>3. CASE call'[c] \in Open /\ call'[c].got = call[c].got /\ pending' = pending
    BY <1>2, <2>2, <2>3 DEF MapIsOpen, Sent
  <2>4. CASE call'[c] \in Over /\ pending' = pending \ {call[c].req.id}
    BY <1>2, <2>1, <2>2, <2>4 DEF MapIsOpen, Sent
  <2>5. CASE call'[c] \in Over /\ call[c].got # "nothing" /\ pending' = pending
    <3>1. call[c].req.id \notin pending
      BY <1>2, <2>2, <2>5 DEF MapIsOpen, Sent
    <3> QED
      BY <1>2, <2>1, <2>2, <2>5, <3>1 DEF MapIsOpen, Sent
  <2> QED
    BY <1>1, <1>8, <2>3, <2>4, <2>5, CallStepParts
<1>9. ASSUME NEW ids, NEW got \in Got, call' = Woken(ids, got), pending' = pending \ ids
      PROVE  MapIsOpen'
  <2>1. ASSUME NEW c \in Clients
        PROVE  /\ call'[c] \in Open <=> call[c] \in Open
               /\ call[c] \in Open => call'[c].req = call[c].req
               /\ Sent(c)' => Sent(c) \/ call[c].req.id \in ids
    BY <1>1, <1>9, <2>1, WokenParts DEF Sent
  <2>2. \A id \in pending' : \E c \in Clients : call'[c] \in Open /\ call'[c].req.id = id
    BY <1>2, <1>9, <2>1 DEF MapIsOpen
  <2>3. ASSUME NEW c \in Clients, Sent(c)' PROVE call'[c].req.id \notin pending'
    BY <1>2, <1>9, <2>1, <2>3 DEF MapIsOpen, Sent
  <2> QED
    BY <2>2, <2>3 DEF MapIsOpen
<1>10. ASSUME LinkStep PROVE MapIsOpen'
  <2>1. Write \/ EndOfStream => UNCHANGED << call, pending >>
    BY DEF Write, EndOfStream
  <2>2. CASE Drain
    <3>1. "lost" \in Got /\ call' = Woken(pending, "lost") /\ pending' = pending \ pending
      BY <2>2 DEF Drain, Got
    <3> QED
      BY <1>9, <3>1
  <2>3. CASE Read
    <3> DEFINE m == Head(stream)
    <3>1. CASE m.got \in Got /\ call' = Woken({m.id} \cap pending, m.got) /\ pending' = pending \ {m.id}
      <4>1. pending' = pending \ ({m.id} \cap pending)
        BY <3>1
      <4> QED
        BY <1>9, <3>1, <4>1
    <3> QED
      BY <1>1, <1>4, <2>3, <3>1, ReadParts
  <2> QED
    BY <1>4, <1>10, <2>1, <2>2, <2>3 DEF LinkStep
<1>11. ASSUME \/ \E m \in handlers : Handle(m)
              \/ \E t \in turns : GetTasks(t)
              \/ AgentStep \/ Untouched
       PROVE  UNCHANGED << call, pending >>
  BY <1>11 DEF Handle, GetTasks, AgentStep, Reply, SendChunk, AskForTasks, SendGarbage, Die, Untouched
<1>12. MapIsOpen'
  BY <1>4, <1>5, <1>6, <1>7, <1>8, <1>10, <1>11, ClientSteps
<1> QED
  BY <1>1, <1>12, NextReturn, WaitingParts

-----------------------------------------------------------------------------
(* Answers. *)

(* A reply in the part that will be read stays there while the agent       *)
(* writes, and until it is read.                                           *)
LEMMA ComingStays ==
  ASSUME stream \in Seq(Messages), stream' \in Seq(Messages), NEW id, ReplyComing(id),
         \A n \in DOMAIN stream : n \in DOMAIN stream' /\ stream'[n] = stream[n]
  PROVE  ReplyComing(id)'
<1>1. PICK n \in DOMAIN stream : /\ stream[n].kind = "reply" /\ stream[n].id = id
                                 /\ \A m \in 1..n : stream[m] # Garbage
  BY DEF ReplyComing
<1>2. \A m \in 1..n : m \in DOMAIN stream
  OBVIOUS
<1>3. \A m \in 1..n : stream'[m] # Garbage
  BY <1>1, <1>2
<1> QED
  BY <1>1, <1>3 DEF ReplyComing

(* Reading gets the reply closer, or gets it.                              *)
LEMMA ComingRead ==
  ASSUME stream \in Seq(Messages), stream # << >>, stream' = Tail(stream), NEW id, ReplyComing(id)
  PROVE  /\ Head(stream) # Garbage
         /\ (Head(stream).kind = "reply" /\ Head(stream).id = id) \/ ReplyComing(id)'
<1>1. PICK n \in DOMAIN stream : /\ stream[n].kind = "reply" /\ stream[n].id = id
                                 /\ \A m \in 1..n : stream[m] # Garbage
  BY DEF ReplyComing
<1>2. Head(stream) # Garbage
  BY <1>1
<1>3. CASE n = 1
  BY <1>1, <1>2, <1>3
<1>4. CASE n # 1
  <2>1. n - 1 \in DOMAIN stream' /\ stream'[n - 1] = stream[n]
    BY <1>4
  <2>2. \A m \in 1..n - 1 : stream'[m] = stream[m + 1] /\ m + 1 \in 1..n
    BY <1>4
  <2> QED
    BY <1>1, <1>2, <2>1, <2>2 DEF ReplyComing
<1> QED
  BY <1>3, <1>4

(* What a call is told, it is told by its oneshot.                         *)
Told ==
  \A c \in Clients : WasLost(c) => reader = "gone" /\ call[c].req.id \notin answered

Promised ==
  /\ reader = "up" => \A id \in answered \cap pending : ReplyComing(id)
  /\ reader = "drain" => answered \cap pending = {}

(* The replies to calls that wait are coming, and none is left when        *)
(* reading ends.                                                           *)
LEMMA NextPromised ==
  TypeInv /\ Traffic /\ Answers /\ Listening /\ [Next]_vars => Promised'
<1> SUFFICES ASSUME TypeInv, Traffic, Answers, Listening, [Next]_vars PROVE Promised'
  OBVIOUS
<1>1. ClientTypes /\ ClientTypes' /\ Promised
  BY NextTypeInv, TypesSplit DEF Answers, Promised
<1>2. ASSUME UNCHANGED << reader, stream, answered >>, answered \cap pending' \subseteq answered \cap pending
      PROVE  Promised'
  BY <1>1, <1>2 DEF Promised, ReplyComing
<1>3. ASSUME Disconnect PROVE Promised'
  BY <1>3 DEF Disconnect, Promised
<1>4. ASSUME NEW c \in Clients, Cleared(c) \/ NewCall(c) \/ CallStep(c) PROVE Promised'
  <2>1. Cleared(c) => UNCHANGED << reader, stream, answered, pending >>
    BY DEF Cleared
  <2>2. NewCall(c) => /\ UNCHANGED << reader, stream, answered >>
                      /\ pending' \subseteq pending \cup {nextId}
    BY DEF NewCall, Start
  <2>3. CallStep(c) => /\ UNCHANGED << reader, stream, answered >>
                       /\ pending' \subseteq pending
    BY DEF CallStep, Send, Receive, TimeOut, Forget
  <2>4. nextId \notin answered
    BY <1>1 DEF Traffic, ClientTypes
  <2> QED
    BY <1>2, <1>4, <2>1, <2>2, <2>3, <2>4
<1>5. ASSUME LinkStep PROVE Promised'
  <2>1. Write => UNCHANGED << reader, stream, answered, pending >>
    BY DEF Write
  <2>2. CASE Read
    <3> DEFINE m == Head(stream)
    <3>1. /\ m \in Messages /\ stream # << >> /\ stream' = Tail(stream)
          /\ answered' = answered /\ reader = "up"
      BY <1>1, <2>2, ReadParts DEF Read
    <3>2. \A id \in answered \cap pending :
            m # Garbage /\ ((m.kind = "reply" /\ m.id = id) \/ ReplyComing(id)')
      BY <1>1, <3>1, ComingRead DEF Promised, ClientTypes
    <3> HIDE DEF m
    <3>3. \/ m.kind = "reply" /\ pending' = pending \ {m.id} /\ reader' = "up"
          \/ m.kind = "chunk" /\ pending' = pending /\ reader' = "up"
          \/ m = Garbage /\ pending' = pending /\ reader' = "drain"
      BY <1>1, <2>2, ReadParts DEF m
    <3>4. CASE reader' = "up"
      BY <3>1, <3>2, <3>3, <3>4 DEF Promised
    <3>5. CASE m = Garbage /\ pending' = pending /\ reader' = "drain"
      BY <3>1, <3>2, <3>5 DEF Promised
    <3> QED
      BY <3>3, <3>4, <3>5
  <2>3. CASE EndOfStream
    BY <1>1, <2>3 DEF EndOfStream, Promised, ReplyComing
  <2>4. CASE Drain
    BY <2>4 DEF Drain, Promised
  <2> QED
    BY <1>2, <1>5, <2>1, <2>2, <2>3, <2>4 DEF LinkStep
<1>6. ASSUME NEW m \in Messages, stream' = Written(m) \/ stream' = Append(stream, m),
             UNCHANGED << reader, answered, pending >>
      PROVE  Promised'
  <2>1. \A n \in DOMAIN stream : n \in DOMAIN stream' /\ stream'[n] = stream[n]
    <3>1. \A n \in DOMAIN stream : /\ n \in DOMAIN Append(stream, m)
                                   /\ Append(stream, m)[n] = stream[n]
      BY <1>1 DEF ClientTypes
    <3> QED
      BY <1>6, <3>1 DEF Written
  <2>2. \A id : ReplyComing(id) => ReplyComing(id)'
    BY <1>1, <2>1, ComingStays DEF ClientTypes
  <2> QED
    BY <1>1, <1>6, <2>2 DEF Promised
<1>7. ASSUME AgentStep PROVE Promised'
  <2>1. ASSUME NEW t \in turns, NEW got \in {"ok", "error"}, Reply(t, got) PROVE Promised'
    <3> DEFINE m == [kind |-> "reply", id |-> t.req.id, got |-> got]
    <3>1. t.req.id \in Nat
      BY <1>1, RequestParts DEF ClientTypes
    <3>2. m \in Messages /\ m # Garbage /\ m.kind = "reply" /\ m.id = t.req.id /\ stream' = Written(m)
      BY <2>1, <3>1 DEF Messages, Reply, Garbage
    <3>3. UNCHANGED << reader, pending >>
      BY <2>1 DEF Reply
    <3> HIDE DEF m
    <3>4. CASE ~StreamGood
      BY <1>6, <2>1, <3>2, <3>3, <3>4 DEF Reply
    <3>5. CASE StreamGood
      <4>1. \A n \in DOMAIN stream : n \in DOMAIN stream' /\ stream'[n] = stream[n]
        BY <1>1, <3>2, WrittenParts DEF ClientTypes
      <4>2. \A id : ReplyComing(id) => ReplyComing(id)'
        BY <1>1, <4>1, ComingStays DEF ClientTypes
      <4>3. reader = "up" /\ answered' = answered \cup {t.req.id}
        BY <2>1, <3>5 DEF Reply, StreamGood
      <4>4. Len(stream') = Len(stream) + 1 /\ stream'[Len(stream) + 1] = m
        BY <1>1, <3>2, <3>5, WrittenParts DEF ClientTypes
      <4>5. ReplyComing(t.req.id)'
        <5> DEFINE last == Len(stream) + 1
        <5>1. last \in DOMAIN stream' /\ stream'[last] = m
          BY <1>1, <4>4 DEF ClientTypes
        <5>2. \A k \in 1..last : k \in DOMAIN stream \/ k = last
          BY <1>1 DEF ClientTypes
        <5>3. \A k \in 1..last : stream'[k] # Garbage
          BY <3>2, <3>5, <4>1, <5>1, <5>2 DEF StreamGood
        <5> HIDE DEF last
        <5> QED
          BY <3>2, <5>1, <5>3 DEF ReplyComing
      <4> QED
        BY <1>1, <3>3, <4>2, <4>3, <4>5 DEF Promised
    <3> QED
      BY <3>4, <3>5
  <2>2. ASSUME NEW t \in turns, SendChunk(t) PROVE Promised'
    <3> DEFINE m == [kind |-> "chunk", turn |-> t.req.id, sid |-> t.req.sid, n |-> extras']
    <3>1. t.req.id \in Nat /\ t.req.sid \in Nat
      BY <1>1, RequestParts DEF ClientTypes
    <3>3. extras' \in 1..MaxExtras
      BY <1>1, <2>2, ClientAssumption DEF ClientTypes, SendChunk, Extra
    <3>2. m \in Messages /\ stream' = Written(m)
      BY <2>2, <3>1, <3>3 DEF Messages, SendChunk
    <3> HIDE DEF m
    <3> QED
      BY <1>6, <2>2, <3>2 DEF SendChunk
  <2>3. ASSUME NEW t \in turns, AskForTasks(t) PROVE Promised'
    BY <1>2, <2>3 DEF AskForTasks
  <2>4. CASE SendGarbage
    BY <1>6, <2>4, MessageParts DEF SendGarbage
  <2>5. CASE Die
    BY <1>2, <2>5 DEF Die
  <2> QED
    BY <1>7, <2>1, <2>2, <2>3, <2>4, <2>5 DEF AgentStep
<1>8. ASSUME \/ \E m \in handlers : Handle(m)
             \/ \E t \in turns : GetTasks(t)
             \/ Untouched
      PROVE  UNCHANGED << reader, stream, answered, pending >>
  BY <1>8 DEF Handle, GetTasks, Untouched
<1> QED
  BY <1>2, <1>3, <1>4, <1>5, <1>7, <1>8, ClientSteps

(* A call is told of a loss only by the drain, and then had no answer.     *)
LEMMA NextTold ==
  TypeInv /\ Traffic /\ Answers /\ Listening /\ [Next]_vars => Told'
<1> SUFFICES ASSUME TypeInv, Traffic, Answers, Listening, [Next]_vars PROVE Told'
  OBVIOUS
<1>1. ClientTypes /\ ClientTypes' /\ Promised /\ Told
  BY NextTypeInv, TypesSplit DEF Answers, Promised, Told
<1>2. ~(NoCall \in Open) /\ ~(NoCall \in Over) /\ \A j \in Over : j \notin Open
  BY DEF NoCall, Open, Over
<1>3. ASSUME UNCHANGED << reader, answered >>,
             \A c \in Clients : WasLost(c)' => WasLost(c) /\ call'[c].req = call[c].req
      PROVE  Told'
  BY <1>1, <1>3 DEF Told
<1>4. ASSUME UNCHANGED call, reader' = reader \/ reader # "gone",
             answered' = answered \/ reader # "gone"
      PROVE  Told'
  BY <1>1, <1>4 DEF Told, WasLost
<1>5. ASSUME Disconnect PROVE Told'
  BY <1>2, <1>5 DEF Disconnect, Told, WasLost
<1>6. ASSUME NEW c \in Clients, Cleared(c) PROVE Told'
  <2>1. call' = [call EXCEPT ![c] = NoCall] /\ UNCHANGED << reader, answered >>
    BY <1>6 DEF Cleared
  <2> QED
    BY <1>1, <1>2, <1>3, <2>1 DEF ClientTypes, WasLost
<1>7. ASSUME NEW c \in Clients, NewCall(c) PROVE Told'
  <2>1. PICK method \in Methods, sid \in Nat : Start(c, method, sid)
    BY <1>7 DEF NewCall
  <2> DEFINE r == [id |-> nextId, method |-> method, sid |-> sid]
  <2>2. r \in Requests
    BY <1>1 DEF Requests, ClientTypes
  <2>3. /\ UNCHANGED << reader, answered >>
        /\ \/ call' = [call EXCEPT ![c] = Ended(r, "refused")]
           \/ call' = [call EXCEPT ![c] = Call(r)]
    BY <2>1 DEF Start
  <2> HIDE DEF r
  <2>4. Ended(r, "refused") \in Over /\ Ended(r, "refused").result = "refused"
    BY <2>2, CallNext DEF Results
  <2>5. Call(r) \in Open /\ Call(r).got = "nothing"
    BY <2>2, CallNext
  <2>6. \A d \in Clients \ {c} : call'[d] = call[d]
    BY <1>1, <2>3 DEF ClientTypes
  <2>7. call'[c] = Ended(r, "refused") \/ call'[c] = Call(r)
    BY <1>1, <2>3 DEF ClientTypes
  <2>8. ~WasLost(c)'
    BY <1>2, <2>4, <2>5, <2>7 DEF WasLost
  <2> QED
    BY <1>3, <2>3, <2>6, <2>8 DEF WasLost
<1>8. ASSUME NEW c \in Clients, CallStep(c) PROVE Told'
  <2>1. UNCHANGED << reader, answered >>
    BY <1>8 DEF CallStep, Send, Receive, TimeOut, Forget
  <2>2. WasLost(c)' => WasLost(c)
    BY <1>1, <1>2, <1>8, CallStepParts DEF WasLost
  <2> QED
    BY <1>1, <1>3, <1>8, <2>1, <2>2, CallStepParts DEF WasLost
<1>9. ASSUME LinkStep PROVE Told'
  <2>1. Write => UNCHANGED << call, reader, answered >>
    BY DEF Write
  <2>2. CASE Read
    <3> DEFINE m == Head(stream)
    <3>1. reader = "up" /\ answered' = answered
      BY <2>2 DEF Read
    <3>2. CASE UNCHANGED call
      BY <1>4, <3>1, <3>2
    <3>3. CASE m.got \in Got /\ m.got # "lost" /\ call' = Woken({m.id} \cap pending, m.got)
      <4>1. \A c \in Clients : ~WasLost(c)
        BY <1>1, <3>1 DEF Told
      <4>2. \A c \in Clients : ~WasLost(c)'
        <5>1. ASSUME NEW c \in Clients, WasLost(c)' PROVE FALSE
          <6> HIDE DEF m
          <6>1. \/ call'[c] = call[c]
                \/ call'[c] \in Open /\ call'[c].got = m.got
            BY <1>1, <3>3, WokenParts
          <6>2. CASE call'[c] = call[c]
            BY <4>1, <5>1, <6>2 DEF WasLost
          <6>3. CASE call'[c] \in Open /\ call'[c].got = m.got
            BY <1>2, <3>3, <5>1, <6>3 DEF WasLost
          <6> QED
            BY <6>1, <6>2, <6>3
        <5> QED
          BY <5>1
      <4> QED
        BY <4>2 DEF Told
    <3> QED
      BY <1>1, <2>2, <3>2, <3>3, ReadParts
  <2>3. CASE EndOfStream
    BY <1>4, <2>3 DEF EndOfStream
  <2>4. CASE Drain
    <3>1. /\ reader = "drain" /\ reader' = "gone" /\ answered' = answered
          /\ "lost" \in Got /\ call' = Woken(pending, "lost")
      BY <2>4 DEF Drain, Got
    <3>2. \A c \in Clients : ~WasLost(c)
      BY <1>1, <3>1 DEF Told
    <3>3. ASSUME NEW c \in Clients, WasLost(c)' PROVE call'[c].req.id \notin answered
      <4>1. call[c] \in Open /\ call[c].req.id \in pending /\ call'[c].req = call[c].req
        BY <1>1, <3>1, <3>2, <3>3, WokenParts DEF WasLost
      <4> QED
        BY <1>1, <3>1, <4>1 DEF Promised
    <3> QED
      BY <3>1, <3>3 DEF Told
  <2> QED
    BY <1>4, <1>9, <2>1, <2>2, <2>3, <2>4 DEF LinkStep
<1>10. ASSUME AgentStep PROVE Told'
  <2>1. UNCHANGED << call, reader >>
    BY <1>10 DEF AgentStep, Reply, SendChunk, AskForTasks, SendGarbage, Die
  <2>2. answered' = answered \/ reader # "gone"
    BY <1>10 DEF AgentStep, Reply, SendChunk, AskForTasks, SendGarbage, Die, StreamGood
  <2> QED
    BY <1>4, <2>1, <2>2
<1>11. ASSUME \/ \E m \in handlers : Handle(m)
              \/ \E t \in turns : GetTasks(t)
              \/ Untouched
       PROVE  UNCHANGED << call, reader, answered >>
  BY <1>11 DEF Handle, GetTasks, Untouched
<1> QED
  BY <1>4, <1>5, <1>6, <1>7, <1>8, <1>9, <1>10, <1>11, ClientSteps

-----------------------------------------------------------------------------
(* Listening. *)

(* The part of Listening that is about one client.                         *)
Apart(c) ==
  /\ IF front[c] \in {"prompt", "return"}
       THEN senders[c] = slot[c]
       ELSE senders[c] = 0 /\ text[c] = {} /\ queue[c] = << >>
  /\ front[c] \in {"register", "prompt", "return"} => slot[c] # 0
  /\ \A n \in DOMAIN queue[c] : queue[c][n].sid = slot[c]
  /\ \A m \in text[c] : m.sid = slot[c]

(* A step changes the session, the channel and the text of the client that *)
(* takes it, and of no other.                                              *)
Others(c) ==
  \A d \in Clients \ {c} :
    /\ front'[d] = front[d] /\ slot'[d] = slot[d] /\ senders'[d] = senders[d]
    /\ queue'[d] = queue[d] /\ text'[d] = text[d]

(* Who listens, listens to his own session.                                *)
LEMMA NextListening ==
  TypeInv /\ Traffic /\ Listening /\ [Next]_vars => Listening'
<1> SUFFICES ASSUME TypeInv, Traffic, Listening, [Next]_vars PROVE Listening'
  OBVIOUS
<1>1. SessionTypes /\ ClientTypes
  BY TypesSplit
<1>2. ASSUME UNCHANGED << front, slot, senders, queue, text >> PROVE Listening'
  BY <1>2 DEF Listening
<1>3. ASSUME NEW c \in Clients, Others(c), Apart(c)' PROVE Listening'
  <2>1. \A d \in Clients : Apart(d)'
    <3>1. ASSUME NEW d \in Clients \ {c} PROVE Apart(d)'
      BY <1>3, <3>1 DEF Listening, Others, Apart
    <3> QED
      BY <1>3, <3>1
  <2> QED
    BY <2>1 DEF Listening, Apart
<1>4. ASSUME NEW c \in Clients PROVE Apart(c)
  BY DEF Listening, Apart
<1>5. ASSUME NEW c \in Clients, FrontStep(c) PROVE Listening'
  <2>1. CASE EnsureStarted(c)
    <3>1. front[c] = "start" /\ front'[c] \in {"new", "init", "idle", "register"}
          /\ (front'[c] = "register" => slot[c] # 0)
      BY <1>1, <2>1 DEF EnsureStarted, Goto, SessionTypes
    <3>2. Others(c) /\ UNCHANGED << slot, senders, queue, text >>
      BY <1>1, <2>1 DEF EnsureStarted, Goto, Others, SessionTypes
    <3>3. Apart(c)'
      BY <1>4, <3>1, <3>2 DEF Apart
    <3> QED
      BY <1>3, <3>2, <3>3
  <2>2. CASE MakeCall(c)
    BY <1>2, <2>2 DEF MakeCall, svars
  <2>3. CASE Started(c)
    <3>1. front[c] \in {"init", "auth"} /\ front'[c] \in {"auth", "new", "idle"}
      BY <1>1, <2>3 DEF Started, Goto, SessionTypes
    <3>2. Others(c) /\ UNCHANGED << slot, senders, queue, text >>
      BY <1>1, <2>3 DEF Started, Goto, Others, SessionTypes
    <3>3. Apart(c)'
      BY <1>4, <3>1, <3>2 DEF Apart
    <3> QED
      BY <1>3, <3>2, <3>3
  <2>4. CASE Created(c)
    <3>1. call[c].req.id \in Nat \ {0}
      <4>1. call[c] \in Calls /\ call[c].pc = "ended"
        BY <1>1, <2>4 DEF Created, ClientTypes
      <4>2. call[c] # NoCall
        BY <4>1 DEF NoCall
      <4> QED
        BY <1>1, <4>2 DEF Traffic, Known, ClientTypes
    <3>2. \/ /\ slot' = [slot EXCEPT ![c] = call[c].req.id]
             /\ front' = [front EXCEPT ![c] = "register"]
          \/ slot' = slot /\ front' = [front EXCEPT ![c] = "idle"]
      BY <2>4 DEF Created, Goto, NewSession
    <3>3. Others(c)
      BY <1>1, <2>4, <3>2 DEF Created, Others, SessionTypes
    <3>4. front[c] = "new" /\ UNCHANGED << senders, queue, text >>
      BY <2>4 DEF Created
    <3>5. \/ front'[c] = "register" /\ slot'[c] # 0
          \/ front'[c] = "idle"
      BY <1>1, <3>1, <3>2 DEF SessionTypes
    <3>6. Apart(c)'
      BY <1>4, <3>4, <3>5 DEF Apart
    <3> QED
      BY <1>3, <3>3, <3>6
  <2>5. CASE Register(c)
    <3>1. front[c] = "register" /\ front'[c] = "prompt" /\ senders'[c] = slot[c]
      BY <1>1, <2>5 DEF Register, Goto, SessionTypes
    <3>2. Others(c) /\ UNCHANGED << slot, queue, text >>
      BY <1>1, <2>5 DEF Register, Goto, Others, SessionTypes
    <3>3. Apart(c)'
      BY <1>4, <3>1, <3>2 DEF Apart
    <3> QED
      BY <1>3, <3>2, <3>3
  <2>6. CASE Prompted(c)
    <3>1. /\ front[c] = "prompt" /\ front'[c] = "return" /\ queue'[c] = << >>
          /\ text'[c] = text[c] \cup {queue[c][n] : n \in DOMAIN queue[c]}
      BY <1>1, <2>6 DEF Prompted, Goto, SessionTypes
    <3>2. Others(c) /\ UNCHANGED << slot, senders >>
      BY <1>1, <2>6 DEF Prompted, Goto, Others, SessionTypes
    <3>3. \A n \in DOMAIN queue'[c] : queue'[c][n].sid = slot[c]
      BY <3>1
    <3>4. \A m \in text'[c] : m.sid = slot[c]
      BY <1>4, <3>1 DEF Apart
    <3>5. senders[c] = slot[c] /\ slot[c] # 0
      BY <1>4, <3>1 DEF Apart
    <3>6. Apart(c)'
      BY <3>1, <3>2, <3>3, <3>4, <3>5 DEF Apart
    <3> QED
      BY <1>3, <3>2, <3>6
  <2>7. CASE Return(c)
    <3>1. front'[c] = "idle" /\ senders'[c] = 0 /\ queue'[c] = << >> /\ text'[c] = {}
      BY <1>1, <2>7 DEF Return, Goto, SessionTypes
    <3>2. Others(c)
      BY <1>1, <2>7 DEF Return, Goto, Others, SessionTypes
    <3>3. \A n \in DOMAIN queue'[c] : queue'[c][n].sid = slot'[c]
      BY <3>1
    <3>4. Apart(c)'
      BY <3>1, <3>3 DEF Apart
    <3> QED
      BY <1>3, <3>2, <3>4
  <2>8. CASE CallStep(c) /\ UNCHANGED svars
    BY <1>2, <2>8 DEF svars
  <2> QED
    BY <1>5, <2>1, <2>2, <2>3, <2>4, <2>5, <2>6, <2>7, <2>8 DEF FrontStep
<1>6. ASSUME NEW c \in Clients, Begin(c) PROVE Listening'
  <2>1. front[c] = "idle" /\ front'[c] = "start"
    BY <1>1, <1>6 DEF Begin, Goto, SessionTypes
  <2>2. Others(c) /\ UNCHANGED << slot, senders, queue, text >>
    BY <1>1, <1>6 DEF Begin, Goto, Others, SessionTypes
  <2>3. Apart(c)'
    BY <1>4, <2>1, <2>2 DEF Apart
  <2> QED
    BY <1>3, <2>2, <2>3
<1>7. ASSUME NEW c \in Clients, Collect(c) PROVE Listening'
  <2>1. /\ front[c] = "prompt" /\ queue[c] # << >> /\ queue'[c] = Tail(queue[c])
        /\ text'[c] = text[c] \cup {Head(queue[c])}
    BY <1>1, <1>7 DEF Collect, SessionTypes
  <2>2. Others(c) /\ UNCHANGED << front, slot, senders >>
    BY <1>1, <1>7 DEF Collect, Others, SessionTypes
  <2>3. queue[c] \in Seq(Chunks)
    BY <1>1 DEF SessionTypes
  <2>4. /\ 1 \in DOMAIN queue[c] /\ Head(queue[c]) = queue[c][1]
        /\ \A n \in DOMAIN Tail(queue[c]) :
             n + 1 \in DOMAIN queue[c] /\ Tail(queue[c])[n] = queue[c][n + 1]
    BY <2>1, <2>3
  <2>5. Apart(c)'
    BY <1>4, <2>1, <2>2, <2>4 DEF Apart
  <2> QED
    BY <1>3, <2>2, <2>5
<1>8. ASSUME NEW m \in handlers, Handle(m) PROVE Listening'
  <2>1. UNCHANGED << front, slot, senders, text >> /\ m.sid # 0
    BY <1>8 DEF Handle, Traffic
  <2>2. ASSUME NEW c \in Clients PROVE Apart(c)'
    <3>1. CASE queue'[c] = queue[c]
      BY <1>4, <2>1, <3>1 DEF Apart
    <3>2. CASE senders[c] = m.sid /\ queue'[c] = Append(queue[c], m)
      <4>1. front[c] \in {"prompt", "return"} /\ m.sid = slot[c]
        BY <1>4, <2>1, <3>2 DEF Apart
      <4>2. queue[c] \in Seq(Chunks)
        BY <1>1 DEF SessionTypes
      <4>3. \A n \in DOMAIN queue'[c] : (n \in DOMAIN queue[c] /\ queue'[c][n] = queue[c][n]) \/ queue'[c][n] = m
        BY <3>2, <4>2
      <4> QED
        BY <1>4, <2>1, <4>1, <4>3 DEF Apart
    <3> QED
      BY <1>8, <3>1, <3>2 DEF Handle, Listeners
  <2> QED
    BY <2>2 DEF Listening, Apart
<1>9. ASSUME \/ LinkStep /\ UNCHANGED svars
             \/ \E t \in turns : ListTasks(t)
             \/ AgentStep /\ UNCHANGED svars
             \/ UNCHANGED vars
      PROVE  UNCHANGED << front, slot, senders, queue, text >>
  BY <1>9 DEF ListTasks, vars, svars
<1> QED
  BY <1>2, <1>5, <1>6, <1>7, <1>8, <1>9 DEF Next

-----------------------------------------------------------------------------
(* The inductive invariant: the types, what is on its way, and the facts   *)
(* that tie the map, the stream and the sessions to the calls.             *)
THEOREM AgentInvariant == Spec => []AgentInv
<1>1. Init => AgentInv
  BY InitTypeInv, InitTraffic DEF AgentInv
<1>2. AgentInv /\ [Next]_vars => AgentInv'
  <2>1. ASSUME AgentInv, [Next]_vars PROVE Answers'
    BY <2>1, NextPromised, NextTold DEF AgentInv, Answers, Promised, Told
  <2> QED
    BY <2>1, NextTypeInv, NextTraffic, NextWaiting, NextListening DEF AgentInv
<1> QED
  BY <1>1, <1>2, PTL DEF Spec

(* Type correctness, for every number of clients and every capacity; the   *)
(* bounds of the writer's and of the chunks' channels are part of it.      *)
THEOREM AgentTypeCorrect == Spec => []TypeOK
<1>1. AgentInv => TypeOK
  BY DEF AgentInv, TypeInv
<1> QED
  BY <1>1, AgentInvariant, PTL

(* The pending map holds the calls under way and no other, however a call  *)
(* ends: with its reply, the drain, a timeout or a writer that is gone.    *)
THEOREM NoEntryLeaks == Spec => []PendingIsWaiting
<1>1. AgentInv => PendingIsWaiting
  BY DEF AgentInv, Waiting
<1> QED
  BY <1>1, AgentInvariant, PTL

(* A call that is told its agent disconnected had not been answered: what  *)
(* was written before the death or the broken line is read first.          *)
THEOREM WrittenAnswerArrives == Spec => []AnswerNotLost
<1>1. AgentInv => AnswerNotLost
  <2>1. ASSUME AgentInv, NEW c \in Clients, call[c].pc = "ended", call[c].result = "lost"
        PROVE  call[c].req.id \notin answered
    <3>1. call[c] \in Over
      BY <2>1, CallShape DEF AgentInv, TypeInv, Calls
    <3> QED
      BY <2>1, <3>1 DEF AgentInv, Answers, WasLost
  <2> QED
    BY <2>1 DEF AnswerNotLost
<1> QED
  BY <1>1, AgentInvariant, PTL

(* What a prompt collects was streamed in its own session.                 *)
THEOREM SessionsStayApart == Spec => []SessionsApart
<1>1. AgentInv => SessionsApart
  BY DEF AgentInv, Listening, SessionsApart
<1> QED
  BY <1>1, AgentInvariant, PTL

=============================================================================
