------------------------------ MODULE SeenStore ------------------------------
(***************************************************************************)
(* What the IdempotencyLedger trait promises                               *)
(* (crates/devdev-tasks/src/ledger.rs): a durable answer to "have we seen  *)
(* this state before?".  A key that was recorded is seen, across restarts, *)
(* until a prune whose cutoff is later than its time.  A record that was   *)
(* interrupted or failed may come out either way, but only a restart       *)
(* brings it to light.                                                     *)
(***************************************************************************)
EXTENDS Naturals

CONSTANTS
  Keys,        (* ledger keys                                              *)
  MaxTime      (* bound on the clock                                       *)

VARIABLES
  known,       (* the time of each key that is seen                        *)
  limbo,       (* keys whose record began and was not acknowledged         *)
  now          (* the clock, in units of what a prune tells apart          *)

svars == << known, limbo, now >>

Times == 0..MaxTime
Timed == UNION {[S -> Times] : S \in SUBSET Keys}

Seen(k) == k \in DOMAIN known

(* The keys of f, and k at time t.                                         *)
With(f, k, t) == [j \in DOMAIN f \cup {k} |-> IF j = k THEN t ELSE f[j]]

(* f, overridden by g on a part of limbo.                                  *)
Surfaced(f, g) == [j \in DOMAIN f \cup DOMAIN g |-> IF j \in DOMAIN g THEN g[j] ELSE f[j]]

Begin(k) ==
  /\ limbo' = limbo \cup {k}
  /\ UNCHANGED << known, now >>

(* Other records of the same key may still be under way.                   *)
Acknowledge(k) ==
  /\ k \in limbo
  /\ known' = With(known, k, now)
  /\ limbo' \in {limbo, limbo \ {k}}
  /\ UNCHANGED now

Fail(k) ==
  /\ limbo' = limbo \ {k}
  /\ UNCHANGED << known, now >>

Prune(cutoff) ==
  /\ known' = [k \in {j \in DOMAIN known : known[j] >= cutoff} |-> known[k]]
  /\ limbo' = {}
  /\ UNCHANGED now

Restart ==
  /\ \E S \in SUBSET limbo : \E g \in [S -> Times] : known' = Surfaced(known, g)
  /\ limbo' = {}
  /\ UNCHANGED now

Tick == now < MaxTime /\ now' = now + 1 /\ UNCHANGED << known, limbo >>

Init == known = << >> /\ limbo = {} /\ now = 0

Next ==
  \/ \E k \in Keys : Begin(k) \/ Acknowledge(k) \/ Fail(k)
  \/ \E cutoff \in Times : cutoff <= now /\ Prune(cutoff)
  \/ Restart
  \/ Tick

Spec == Init /\ [][Next]_svars

=============================================================================
