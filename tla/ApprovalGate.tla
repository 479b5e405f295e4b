---------------------------- MODULE ApprovalGate ----------------------------
(***************************************************************************)
(* The approval gate between the agent's devdev_ask tool and the user      *)
(* (crates/devdev-tasks/src/approval.rs; its callers in                    *)
(* devdev-daemon/src/mcp/provider.rs and dispatch.rs).                     *)
(*                                                                         *)
(* An ask takes the gate's mutex for as long as request_approval runs.     *)
(* Under the Ask policy that sends a request into a bounded channel and    *)
(* takes the first response that comes out of another one, or times out.   *)
(* A response's id plays no part: approval_response sends them all as      *)
(* "a-1".  The front end, at the other end of both channels, shows the     *)
(* requests and sends back what the user says.                             *)
(***************************************************************************)
EXTENDS Naturals, Sequences

CONSTANTS
  Asks,         (* the devdev_ask calls the agents make                    *)
  Policies,     (* policies the daemon may be started with                 *)
  ReqCap,       (* capacity of the request channel                         *)
  RespCap,      (* capacity of the response channel                        *)
  LateAnswers   (* may the user answer an ask that has ended?              *)

ASSUME GateAssumption ==
  /\ Policies \subseteq {"Ask", "AutoApprove", "DryRun"}
  /\ ReqCap \in Nat \ {0}
  /\ RespCap \in Nat \ {0}
  /\ LateAnswers \in BOOLEAN

VARIABLES
  policy,   (* the gate's policy, fixed at construction                    *)
  call,     (* how far each ask is, and how it ended                       *)
  holder,   (* the ask inside the gate's mutex, if any                     *)
  reqs,     (* requests no front end has read yet                          *)
  resps,    (* responses the gate has not taken, each with (history) the   *)
            (* ask the user meant                                          *)
  shown,    (* the asks the user sees and has not answered                 *)
  consents  (* does the user consent to this ask's action?                 *)

vars == << policy, call, holder, reqs, resps, shown, consents >>

Outcomes == {"granted", "rejected", "timeout", "dryrun"}

TypeOK ==
  /\ policy \in Policies
  /\ call \in [Asks -> {"new", "lock", "send", "wait"} \cup Outcomes]
  /\ holder \in {{}} \cup {{a} : a \in Asks}
  /\ reqs \in Seq(Asks) /\ Len(reqs) <= ReqCap
  /\ resps \in Seq([meant : Asks, approve : BOOLEAN]) /\ Len(resps) <= RespCap
  /\ shown \in SUBSET Asks
  /\ consents \in [Asks -> BOOLEAN]

(* The call returns and the mutex guard is dropped.                        *)
Return(a, outcome) ==
  /\ call' = [call EXCEPT ![a] = outcome]
  /\ holder' = holder \ {a}

(* DaemonToolProvider::ask waits for the mutex.                            *)
Ask(a) ==
  /\ call[a] = "new"
  /\ call' = [call EXCEPT ![a] = "lock"]
  /\ UNCHANGED << policy, holder, reqs, resps, shown, consents >>

EnterAnyway(a) ==              (* mutant: the gate is shared, not locked *)
  /\ call[a] = "lock"
  /\ policy = "Ask"
  /\ call' = [call EXCEPT ![a] = "send"]
  /\ holder' = holder \cup {a}
  /\ UNCHANGED << policy, reqs, resps, shown, consents >>

(* Inside it, only the Ask policy needs the user.                          *)
Enter(a) ==
  /\ call[a] = "lock"
  /\ holder = {}
  /\ \/ /\ policy = "Ask"
        /\ call' = [call EXCEPT ![a] = "send"]
        /\ holder' = holder \cup {a}
     \/ policy = "AutoApprove" /\ Return(a, "granted")
     \/ policy = "DryRun" /\ Return(a, "dryrun")
  /\ UNCHANGED << policy, reqs, resps, shown, consents >>

SendAndLeave(a) ==             (* mutant: the mutex guards the send only *)
  /\ call[a] = "send"
  /\ Len(reqs) < ReqCap
  /\ reqs' = Append(reqs, a)
  /\ call' = [call EXCEPT ![a] = "wait"]
  /\ holder' = {}
  /\ UNCHANGED << policy, resps, shown, consents >>

(* The send waits for room without a timeout.                              *)
SendRequest(a) ==
  /\ call[a] = "send"
  /\ Len(reqs) < ReqCap
  /\ reqs' = Append(reqs, a)
  /\ call' = [call EXCEPT ![a] = "wait"]
  /\ UNCHANGED << policy, holder, resps, shown, consents >>

Receive(a) ==
  /\ call[a] = "wait"
  /\ resps # << >>
  /\ resps' = Tail(resps)
  /\ Return(a, IF Head(resps).approve THEN "granted" ELSE "rejected")
  /\ UNCHANGED << policy, reqs, shown, consents >>

TimeOutHolding(a) ==           (* mutant: an ask that timed out stays in *)
  /\ call[a] = "wait"
  /\ resps = << >>
  /\ call' = [call EXCEPT ![a] = "timeout"]
  /\ UNCHANGED << policy, holder, reqs, resps, shown, consents >>

(* timeout() looks at the channel before it looks at the clock.            *)
TimeOut(a) ==
  /\ call[a] = "wait"
  /\ resps = << >>
  /\ Return(a, "timeout")
  /\ UNCHANGED << policy, reqs, resps, shown, consents >>

ShowRequest ==
  /\ reqs # << >>
  /\ reqs' = Tail(reqs)
  /\ shown' = shown \cup {Head(reqs)}
  /\ UNCHANGED << policy, call, holder, resps, consents >>

(* approval_response: the user answers an ask that is shown.               *)
Answer(a) ==
  /\ a \in shown
  /\ LateAnswers \/ call[a] = "wait"
  /\ Len(resps) < RespCap
  /\ shown' = shown \ {a}
  /\ resps' = Append(resps, [meant |-> a, approve |-> consents[a]])
  /\ UNCHANGED << policy, call, holder, reqs, consents >>

Init ==
  /\ policy \in Policies
  /\ call = [a \in Asks |-> "new"]
  /\ holder = {}
  /\ reqs = << >>
  /\ resps = << >>
  /\ shown = {}
  /\ consents \in [Asks -> BOOLEAN]

GateStep(a) == Enter(a) \/ SendRequest(a) \/ Receive(a) \/ TimeOut(a)

Next ==
  \/ \E a \in Asks : Ask(a) \/ GateStep(a) \/ Answer(a)
  \/ ShowRequest

Spec == Init /\ [][Next]_vars

(***************************************************************************)
(* Fairness.  Tokio's mutex is fair, so an ask that waits for it gets it   *)
(* although others come back (strong fairness); the clock runs.  Nobody    *)
(* has to read a request or to answer it: the daemon itself never does.    *)
(***************************************************************************)
FairSpec == Spec /\ \A a \in Asks : SF_vars(GateStep(a))

-----------------------------------------------------------------------------
(* Under the Ask policy an action goes ahead only if the user consented to *)
(* that action, not to another one, although answers carry no usable id;   *)
(* under DryRun none does.                                                 *)
GrantedWasConsented ==
  \A a \in Asks : call[a] = "granted" =>
    \/ policy = "Ask" /\ consents[a]
    \/ policy = "AutoApprove"

(* Every ask ends: a user who never answers delays it, and the asks queued *)
(* behind it, by no more than the timeouts, as long as the request channel *)
(* has room.                                                               *)
AskEnds == \A a \in Asks : call[a] = "lock" ~> call[a] \in Outcomes

=============================================================================
