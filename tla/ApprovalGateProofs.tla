------------------------- MODULE ApprovalGateProofs -------------------------
(***************************************************************************)
(* Proofs about the approval gate, for every set of asks, every capacity   *)
(* of its channels and every policy: an answer that comes while its ask    *)
(* waits never decides another ask.                                        *)
(***************************************************************************)
EXTENDS ApprovalGate, SequenceTheorems, TLAPS

Elements(s) == {s[n] : n \in DOMAIN s}

Distinct(s) == \A n, m \in DOMAIN s : s[n] = s[m] => n = m

Requested == Elements(reqs)

(* Who is inside the gate: exactly the ask that sends or waits.            *)
Mutex == \A a \in Asks : call[a] \in {"send", "wait"} <=> a \in holder

(* A request is read and shown once, and only for an ask that has sent it. *)
OnceShown ==
  /\ Distinct(reqs)
  /\ Requested \cap shown = {}
  /\ \A a \in Requested \cup shown : call[a] \notin {"new", "lock", "send"}

(* A response not yet taken is the only one, and is meant for the ask that *)
(* waits, whose request has been shown and answered.                       *)
AnswerOfWaiter ==
  /\ Len(resps) <= 1
  /\ resps # << >> =>
       /\ call[resps[1].meant] = "wait"
       /\ resps[1].meant \notin Requested \cup shown
       /\ resps[1].approve = consents[resps[1].meant]

Paired == Mutex /\ OnceShown /\ AnswerOfWaiter

(* Only the Ask policy makes an ask send or wait.                          *)
AskedIfWaiting == \A a \in Asks : call[a] \in {"send", "wait"} => policy = "Ask"

IInv == Paired /\ AskedIfWaiting /\ GrantedWasConsented

-----------------------------------------------------------------------------
(* Sequences of requests. *)

(* Appending a new request keeps requests distinct.                        *)
LEMMA AppendDistinct ==
  ASSUME NEW S, NEW s \in Seq(S), NEW x \in S, Distinct(s), x \notin Elements(s)
  PROVE  Distinct(Append(s, x)) /\ Elements(Append(s, x)) = Elements(s) \cup {x}
<1> DEFINE t == Append(s, x)
<1>1. /\ Len(s) \in Nat /\ DOMAIN s = 1..Len(s) /\ DOMAIN t = 1..Len(s) + 1
      /\ \A n \in 1..Len(s) : t[n] = s[n]
      /\ t[Len(s) + 1] = x
  OBVIOUS
<1> HIDE DEF t
<1>2. \A n \in 1..Len(s) + 1 : n \in 1..Len(s) \/ n = Len(s) + 1
  BY <1>1
<1>3. \A n \in 1..Len(s) : n \in 1..Len(s) + 1
  BY <1>1
<1>4. Len(s) + 1 \in 1..Len(s) + 1
  BY <1>1
<1>5. ASSUME NEW n \in DOMAIN t, NEW m \in DOMAIN t, t[n] = t[m] PROVE n = m
  <2>1. CASE n \in 1..Len(s) /\ m \in 1..Len(s)
    BY <1>1, <1>5, <2>1 DEF Distinct
  <2>2. CASE n = Len(s) + 1 /\ m \in 1..Len(s)
    BY <1>1, <1>5, <2>2 DEF Elements
  <2>3. CASE n \in 1..Len(s) /\ m = Len(s) + 1
    BY <1>1, <1>5, <2>3 DEF Elements
  <2> QED BY <1>1, <1>2, <1>5, <2>1, <2>2, <2>3
<1>6. \A n \in DOMAIN t : t[n] \in Elements(s) \cup {x}
  BY <1>1, <1>2 DEF Elements
<1>7. \A n \in DOMAIN s : s[n] \in Elements(t)
  BY <1>1, <1>3 DEF Elements
<1>8. x \in Elements(t)
  BY <1>1, <1>4 DEF Elements
<1> QED BY <1>5, <1>6, <1>7, <1>8 DEF Distinct, Elements, t

(* Reading a request leaves the others, and it is not among them.          *)
LEMMA TailDistinct ==
  ASSUME NEW S, NEW s \in Seq(S), s # << >>, Distinct(s)
  PROVE  /\ Tail(s) \in Seq(S) /\ Len(Tail(s)) <= Len(s) /\ Head(s) \in S
         /\ Distinct(Tail(s))
         /\ Elements(Tail(s)) \subseteq Elements(s)
         /\ Head(s) \in Elements(s) \ Elements(Tail(s))
<1> DEFINE t == Tail(s)
<1>1. /\ Len(s) \in Nat /\ Len(s) >= 1 /\ DOMAIN s = 1..Len(s)
      /\ DOMAIN t = 1..Len(s) - 1 /\ t \in Seq(S) /\ Len(t) = Len(s) - 1
      /\ \A n \in 1..Len(s) - 1 : t[n] = s[n + 1]
      /\ Head(s) = s[1] /\ Head(s) \in S
  OBVIOUS
<1> HIDE DEF t
<1>2. \A n \in 1..Len(s) - 1 : n + 1 \in 1..Len(s) /\ n + 1 # 1
  BY <1>1
<1>3. 1 \in 1..Len(s)
  BY <1>1
<1>4. ASSUME NEW n \in DOMAIN t, NEW m \in DOMAIN t, t[n] = t[m] PROVE n = m
  <2>1. n + 1 \in DOMAIN s /\ m + 1 \in DOMAIN s /\ s[n + 1] = s[m + 1]
    BY <1>1, <1>2, <1>4
  <2>2. n + 1 = m + 1
    BY <2>1, Zenon DEF Distinct
  <2> QED BY <1>1, <2>2
<1>5. \A n \in DOMAIN t : t[n] \in Elements(s) /\ t[n] # s[1]
  <2>1. ASSUME NEW n \in DOMAIN t PROVE t[n] = s[n + 1] /\ n + 1 \in DOMAIN s /\ n + 1 # 1
    BY <1>1, <1>2
  <2>2. 1 \in DOMAIN s
    BY <1>1, <1>3
  <2> QED BY <2>1, <2>2, Zenon DEF Elements, Distinct
<1>6. s[1] \in Elements(s)
  BY <1>1, <1>3 DEF Elements
<1> QED BY <1>1, <1>4, <1>5, <1>6 DEF Distinct, Elements, t

(* A channel with one response at most: taking it leaves nothing.          *)
LEMMA OnlyOne ==
  ASSUME NEW S, NEW s \in Seq(S), s # << >>, Len(s) <= 1
  PROVE  Len(s) = 1 /\ Head(s) = s[1] /\ Tail(s) = << >> /\ s[1] \in S
<1>1. Len(s) \in Nat /\ Len(s) # 0
  OBVIOUS
<1>2. Len(s) = 1
  BY <1>1
<1>3. Head(s) = s[1] /\ s[1] \in S
  BY <1>2
<1>4. Tail(s) \in Seq(S) /\ Len(Tail(s)) = 0
  BY <1>2
<1>5. Tail(s) = << >>
  BY <1>4, EmptySeq
<1> QED BY <1>2, <1>3, <1>5

-----------------------------------------------------------------------------
(* The invariant. *)

(* The gate starts in the invariant.                                       *)
LEMMA InitIInv == Init => TypeOK /\ IInv
<1> SUFFICES ASSUME Init PROVE TypeOK /\ IInv
  OBVIOUS
<1>1. reqs = << >> /\ resps = << >> /\ Len(reqs) = 0 /\ Len(resps) = 0 /\ DOMAIN reqs = {}
  BY DEF Init
<1>2. TypeOK
  BY <1>1, GateAssumption DEF Init, TypeOK, Outcomes
<1>3. Requested = {} /\ Distinct(reqs)
  BY <1>1 DEF Requested, Elements, Distinct
<1> QED
  BY <1>1, <1>2, <1>3
     DEF Init, IInv, Paired, Mutex, OnceShown, AnswerOfWaiter, AskedIfWaiting, GrantedWasConsented

(* Every step keeps the types: no channel outgrows its capacity and the    *)
(* mutex has one holder at most.                                           *)
LEMMA TypeStep == TypeOK /\ [Next]_vars => TypeOK'
<1> SUFFICES ASSUME TypeOK, [Next]_vars PROVE TypeOK'
  OBVIOUS
<1> DEFINE R == [meant : Asks, approve : BOOLEAN]
<1>T. /\ reqs \in Seq(Asks) /\ Len(reqs) <= ReqCap /\ Len(reqs) \in Nat
      /\ resps \in Seq(R) /\ Len(resps) <= RespCap /\ Len(resps) \in Nat
      /\ call \in [Asks -> {"new", "lock", "send", "wait"} \cup Outcomes]
      /\ holder \in {{}} \cup {{a} : a \in Asks}
  BY DEF TypeOK
<1>1. ASSUME NEW a \in Asks, Ask(a) PROVE TypeOK'
  BY <1>1, <1>T DEF Ask, TypeOK
<1>2. ASSUME NEW a \in Asks, Enter(a) PROVE TypeOK'
  BY <1>2, <1>T DEF Enter, Return, TypeOK, Outcomes
<1>3. ASSUME NEW a \in Asks, SendRequest(a) PROVE TypeOK'
  BY <1>3, <1>T, GateAssumption DEF SendRequest, TypeOK
<1>4. ASSUME NEW a \in Asks, Receive(a) PROVE TypeOK'
  <2>1. Tail(resps) \in Seq(R) /\ Len(Tail(resps)) <= RespCap
    BY <1>4, <1>T, GateAssumption DEF Receive
  <2>2. call' \in [Asks -> {"new", "lock", "send", "wait"} \cup Outcomes]
    BY <1>4, <1>T DEF Receive, Return, Outcomes
  <2>3. holder' \in {{}} \cup {{b} : b \in Asks}
    BY <1>4, <1>T DEF Receive, Return
  <2> QED BY <1>4, <2>1, <2>2, <2>3 DEF Receive, TypeOK
<1>5. ASSUME NEW a \in Asks, TimeOut(a) PROVE TypeOK'
  BY <1>5, <1>T DEF TimeOut, Return, TypeOK, Outcomes
<1>6. CASE ShowRequest
  <2>1. Tail(reqs) \in Seq(Asks) /\ Len(Tail(reqs)) <= ReqCap /\ Head(reqs) \in Asks
    BY <1>6, <1>T, GateAssumption DEF ShowRequest
  <2> QED BY <1>6, <2>1 DEF ShowRequest, TypeOK
<1>7. ASSUME NEW a \in Asks, Answer(a) PROVE TypeOK'
  <2>1. [meant |-> a, approve |-> consents[a]] \in R
    BY DEF TypeOK
  <2>2. resps' \in Seq(R) /\ Len(resps') <= RespCap
    BY <1>7, <1>T, <2>1, GateAssumption DEF Answer
  <2> QED BY <1>7, <2>2 DEF Answer, TypeOK
<1>8. CASE UNCHANGED vars
  BY <1>8 DEF vars, TypeOK
<1> QED BY <1>1, <1>2, <1>3, <1>4, <1>5, <1>6, <1>7, <1>8 DEF Next, GateStep

(* The gate's types, the one place in its mutex and the capacity of its    *)
(* channels included.                                                      *)
THEOREM GateTypeCorrect == Spec => []TypeOK
BY InitIInv, TypeStep, PTL DEF Spec

(* Every step keeps the invariant, as long as no answer comes late.        *)
LEMMA StepIInv == ~LateAnswers /\ TypeOK /\ IInv /\ [Next]_vars => IInv'
<1> SUFFICES ASSUME ~LateAnswers, TypeOK, IInv, [Next]_vars PROVE IInv'
  OBVIOUS
<1> USE DEF IInv
<1>T. /\ reqs \in Seq(Asks) /\ Len(reqs) <= ReqCap /\ Len(reqs) \in Nat
      /\ resps \in Seq([meant : Asks, approve : BOOLEAN]) /\ Len(resps) <= RespCap
      /\ Len(resps) \in Nat
      /\ call \in [Asks -> {"new", "lock", "send", "wait"} \cup Outcomes]
      /\ holder \in {{}} \cup {{a} : a \in Asks}
      /\ consents \in [Asks -> BOOLEAN] /\ shown \in SUBSET Asks
  BY DEF TypeOK
<1>U. resps # << >> =>
        /\ Len(resps) = 1 /\ Head(resps) = resps[1] /\ Tail(resps) = << >>
        /\ resps[1] \in [meant : Asks, approve : BOOLEAN]
        /\ call[resps[1].meant] = "wait"
  <2> DEFINE R == [meant : Asks, approve : BOOLEAN]
  <2>1. ASSUME resps # << >>
        PROVE  /\ Len(resps) = 1 /\ Head(resps) = resps[1] /\ Tail(resps) = << >>
               /\ resps[1] \in R
    <3>1. Len(resps) <= 1 /\ resps \in Seq(R)
      BY <1>T DEF Paired, AnswerOfWaiter
    <3> HIDE DEF R
    <3> QED BY <2>1, <3>1, OnlyOne
  <2>2. resps # << >> => call[resps[1].meant] = "wait"
    BY DEF Paired, AnswerOfWaiter
  <2> QED BY <2>1, <2>2
<1>W. \A a, b \in Asks :
        call[a] \in {"send", "wait"} /\ call[b] \in {"send", "wait"} => a = b
  BY <1>T DEF Paired, Mutex
<1>1. ASSUME NEW a \in Asks, Ask(a) PROVE IInv'
  <2>2. Mutex' /\ AskedIfWaiting' /\ GrantedWasConsented'
    BY <1>1, <1>T DEF Ask, Paired, Mutex, AskedIfWaiting, GrantedWasConsented
  <2>3. OnceShown'
    BY <1>1, <1>T DEF Ask, Paired, OnceShown, Requested
  <2>4. AnswerOfWaiter'
    BY <1>1, <1>T, <1>U DEF Ask, Paired, AnswerOfWaiter, Requested
  <2> QED BY <2>2, <2>3, <2>4 DEF Paired
<1>2. ASSUME NEW a \in Asks, Enter(a) PROVE IInv'
  <2>2. Mutex' /\ AskedIfWaiting' /\ GrantedWasConsented'
    BY <1>2, <1>T DEF Enter, Return, Paired, Mutex, AskedIfWaiting, GrantedWasConsented
  <2>3. OnceShown'
    <3>1. call[a] = "lock" /\ reqs' = reqs /\ shown' = shown
      BY <1>2 DEF Enter
    <3>2. \A b \in Asks : b # a => call'[b] = call[b]
      BY <1>2, <1>T DEF Enter, Return
    <3>3. a \notin Requested \cup shown
      BY <3>1 DEF Paired, OnceShown
    <3>4. Requested \cup shown \subseteq Asks
      BY <1>T DEF Requested, Elements
    <3> QED BY <3>1, <3>2, <3>3, <3>4 DEF Paired, OnceShown, Requested
  <2>4. AnswerOfWaiter'
    BY <1>2, <1>T, <1>U DEF Enter, Return, Paired, AnswerOfWaiter, Requested
  <2> QED BY <2>2, <2>3, <2>4 DEF Paired
<1>3. ASSUME NEW a \in Asks, SendRequest(a) PROVE IInv'
  <2>1. /\ call[a] = "send" /\ reqs' = Append(reqs, a) /\ call' = [call EXCEPT ![a] = "wait"]
        /\ Len(reqs) < ReqCap
        /\ UNCHANGED << policy, holder, resps, shown, consents >>
    BY <1>3 DEF SendRequest
  <2>3. Mutex' /\ AskedIfWaiting' /\ GrantedWasConsented'
    BY <2>1, <1>T DEF Paired, Mutex, AskedIfWaiting, GrantedWasConsented
  <2>4. a \notin Requested \cup shown
    BY <2>1 DEF Paired, OnceShown
  <2>5. Distinct(reqs') /\ Requested' = Requested \cup {a}
    <3>1. Distinct(reqs) /\ a \notin Elements(reqs) /\ reqs \in Seq(Asks)
      BY <2>4, <1>T DEF Paired, OnceShown, Requested
    <3>2. Distinct(Append(reqs, a)) /\ Elements(Append(reqs, a)) = Elements(reqs) \cup {a}
      BY <3>1, AppendDistinct
    <3> QED BY <2>1, <3>2 DEF Requested
  <2>6. OnceShown'
    BY <2>1, <2>4, <2>5, <1>T DEF Paired, OnceShown
  <2>7. resps = << >>
    BY <2>1, <1>U, <1>W
  <2>8. AnswerOfWaiter'
    BY <2>1, <2>7, <1>T DEF AnswerOfWaiter
  <2> QED BY <2>3, <2>6, <2>8 DEF Paired
<1>4. ASSUME NEW a \in Asks, Receive(a) PROVE IInv'
  <2>1. /\ call[a] = "wait" /\ resps # << >> /\ resps' = Tail(resps)
        /\ call' = [call EXCEPT ![a] = IF Head(resps).approve THEN "granted" ELSE "rejected"]
        /\ holder' = holder \ {a}
        /\ UNCHANGED << policy, reqs, shown, consents >>
    BY <1>4 DEF Receive, Return
  <2>2. resps' = << >> /\ resps[1].meant = a /\ resps[1].approve = consents[a]
    <3>1. resps[1].meant \in Asks
      BY <1>U, <2>1
    <3> QED BY <1>U, <1>W, <2>1, <3>1 DEF Paired, AnswerOfWaiter
  <2>4. Mutex' /\ AskedIfWaiting'
    BY <2>1, <1>T DEF Paired, Mutex, AskedIfWaiting
  <2>5. GrantedWasConsented'
    BY <2>1, <2>2, <1>U, <1>T DEF GrantedWasConsented, AskedIfWaiting
  <2>6. OnceShown'
    BY <2>1, <1>T DEF Paired, OnceShown, Requested
  <2>7. AnswerOfWaiter'
    BY <2>2 DEF AnswerOfWaiter
  <2> QED BY <2>4, <2>5, <2>6, <2>7 DEF Paired
<1>5. ASSUME NEW a \in Asks, TimeOut(a) PROVE IInv'
  <2>1. /\ call[a] = "wait" /\ resps = << >> /\ resps' = << >>
        /\ call' = [call EXCEPT ![a] = "timeout"]
        /\ holder' = holder \ {a}
        /\ UNCHANGED << policy, reqs, shown, consents >>
    BY <1>5 DEF TimeOut, Return
  <2>3. Mutex' /\ AskedIfWaiting' /\ GrantedWasConsented'
    BY <2>1, <1>T DEF Paired, Mutex, AskedIfWaiting, GrantedWasConsented
  <2>4. OnceShown'
    BY <2>1, <1>T DEF Paired, OnceShown, Requested
  <2>5. AnswerOfWaiter'
    BY <2>1 DEF AnswerOfWaiter
  <2> QED BY <2>3, <2>4, <2>5 DEF Paired
<1>6. CASE ShowRequest
  <2>1. /\ reqs # << >> /\ reqs' = Tail(reqs) /\ shown' = shown \cup {Head(reqs)}
        /\ UNCHANGED << policy, call, holder, resps, consents >>
    BY <1>6 DEF ShowRequest
  <2>2. /\ reqs' \in Seq(Asks) /\ Len(reqs') <= Len(reqs) /\ Head(reqs) \in Asks
        /\ Distinct(reqs')
        /\ Requested' \subseteq Requested
        /\ Head(reqs) \in Requested \ Requested'
    BY <2>1, <1>T, TailDistinct DEF Paired, OnceShown, Requested
  <2>4. Mutex' /\ AskedIfWaiting' /\ GrantedWasConsented'
    BY <2>1 DEF Paired, Mutex, AskedIfWaiting, GrantedWasConsented
  <2>5. OnceShown'
    BY <2>1, <2>2 DEF Paired, OnceShown
  <2>6. AnswerOfWaiter'
    BY <2>1, <2>2 DEF Paired, AnswerOfWaiter
  <2> QED BY <2>4, <2>5, <2>6 DEF Paired
<1>7. ASSUME NEW a \in Asks, Answer(a) PROVE IInv'
  <2> DEFINE answer == [meant |-> a, approve |-> consents[a]]
  <2>1. /\ a \in shown /\ call[a] = "wait" /\ Len(resps) < RespCap
        /\ shown' = shown \ {a} /\ resps' = Append(resps, answer)
        /\ UNCHANGED << policy, call, holder, reqs, consents >>
    BY <1>7 DEF Answer
  <2>2. resps = << >>
    <3>1. SUFFICES ASSUME resps # << >> PROVE FALSE
      OBVIOUS
    <3>2. resps[1].meant = a
      BY <1>U, <1>W, <2>1, <3>1
    <3> QED BY <2>1, <3>1, <3>2 DEF Paired, AnswerOfWaiter
  <2>3. answer \in [meant : Asks, approve : BOOLEAN]
    BY <1>T
  <2>4. answer.meant = a /\ answer.approve = consents[a]
    OBVIOUS
  <2> HIDE DEF answer
  <2>5. Len(resps') = 1 /\ resps'[1] = answer /\ resps' \in Seq([meant : Asks, approve : BOOLEAN])
    BY <2>1, <2>2, <2>3
  <2>7. Mutex' /\ AskedIfWaiting' /\ GrantedWasConsented'
    BY <2>1 DEF Paired, Mutex, AskedIfWaiting, GrantedWasConsented
  <2>8. OnceShown' /\ a \notin Requested'
    BY <2>1 DEF Paired, OnceShown, Requested
  <2>9. AnswerOfWaiter'
    BY <2>1, <2>4, <2>5, <2>8 DEF AnswerOfWaiter
  <2> QED BY <2>7, <2>8, <2>9 DEF Paired
<1>8. CASE UNCHANGED vars
  BY <1>8 DEF vars, TypeOK, Paired, Mutex, OnceShown, AnswerOfWaiter, Requested,
              AskedIfWaiting, GrantedWasConsented
<1> QED BY <1>1, <1>2, <1>3, <1>4, <1>5, <1>6, <1>7, <1>8 DEF Next, GateStep

(* As long as no answer comes late, an action goes ahead only with the     *)
(* user's consent to that very action, although no answer names it: the    *)
(* mutex held from the request to its answer is enough to pair them.       *)
THEOREM ConsentIsForThisAction == ASSUME ~LateAnswers PROVE Spec => []GrantedWasConsented
<1>1. IInv => GrantedWasConsented
  BY DEF IInv
<1>2. TypeOK /\ IInv /\ [Next]_vars => IInv'
  BY StepIInv
<1> QED BY <1>1, <1>2, InitIInv, GateTypeCorrect, PTL DEF Spec

=============================================================================
