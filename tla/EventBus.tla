------------------------------ MODULE EventBus ------------------------------
(***************************************************************************)
(* The daemon's event bus: a bounded broadcast channel                     *)
(* (crates/devdev-tasks/src/events.rs, a wrapper of tokio's broadcast).    *)
(*                                                                         *)
(* A receiver is the sequence of events it has not read yet and a flag     *)
(* that says the channel overwrote some of them.  The flag is what the     *)
(* next read reports as Lagged; the read after it continues with the       *)
(* oldest event still retained.                                            *)
(***************************************************************************)
EXTENDS Naturals, Sequences

CONSTANT BusCap        (* CHANNEL_CAPACITY: events retained for a receiver *)

ASSUME BusCapAssumption == BusCap \in Nat \ {0}

Receivers(Events) ==
  {r \in [buf : Seq(Events), lagged : BOOLEAN] : Len(r.buf) <= BusCap}

(* A new subscriber sees only what is published after it subscribed.       *)
Subscribed == [buf |-> << >>, lagged |-> FALSE]

OfferUnbounded(r, ev) ==       (* mutant: nothing is ever overwritten *)
  [r EXCEPT !.buf = Append(@, ev)]

(* A receiver that is BusCap events behind loses its oldest one.           *)
Offer(r, ev) ==
  IF Len(r.buf) < BusCap
    THEN [r EXCEPT !.buf = Append(@, ev)]
    ELSE [buf |-> Append(Tail(r.buf), ev), lagged |-> TRUE]

(* Every subscriber in subs is offered the event; having none is no failure. *)
Publish(rxs, subs, ev) ==
  [s \in DOMAIN rxs |-> IF s \in subs THEN Offer(rxs[s], ev) ELSE rxs[s]]

Pop(r) == [r EXCEPT !.buf = Tail(@)]

Pending(r) == {r.buf[n] : n \in DOMAIN r.buf}

=============================================================================
