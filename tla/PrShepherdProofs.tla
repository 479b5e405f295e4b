-------------------------- MODULE PrShepherdProofs --------------------------
(***************************************************************************)
(* Proofs about the PR shepherd, for every set of PRs and every bound:     *)
(* type correctness, that a PR has one monitor, and that an announced PR   *)
(* is never forgotten; that events are true of the code host, so that a    *)
(* monitor gives up only on a closed PR and reviews no diff older than its *)
(* event; and that the coordinator's replay hands no monitor an event      *)
(* twice.                                                                  *)
(***************************************************************************)
EXTENDS PrShepherd, TLAPS

-----------------------------------------------------------------------------
(* The event bus. *)

(* Offering an event keeps a receiver within the channel's capacity.       *)
LEMMA OfferType ==
  ASSUME NEW E, NEW r \in Receivers(E), NEW ev \in E
  PROVE  Offer(r, ev) \in Receivers(E)
<1> USE BusCapAssumption
<1>1. /\ r = [buf |-> r.buf, lagged |-> r.lagged]
      /\ r.buf \in Seq(E) /\ r.lagged \in BOOLEAN /\ Len(r.buf) <= BusCap
  BY DEF Receivers
<1>2. CASE Len(r.buf) < BusCap
  <2>1. Append(r.buf, ev) \in Seq(E) /\ Len(Append(r.buf, ev)) = Len(r.buf) + 1
    BY <1>1
  <2>2. Offer(r, ev) = [buf |-> Append(r.buf, ev), lagged |-> r.lagged]
    BY <1>1, <1>2 DEF Offer
  <2> QED BY <1>1, <1>2, <2>1, <2>2 DEF Receivers
<1>3. CASE ~(Len(r.buf) < BusCap)
  <2>1. r.buf # << >>
    BY <1>1, <1>3
  <2>2. /\ Append(Tail(r.buf), ev) \in Seq(E)
        /\ Len(Append(Tail(r.buf), ev)) = Len(r.buf)
    BY <1>1, <2>1
  <2>3. Offer(r, ev) = [buf |-> Append(Tail(r.buf), ev), lagged |-> TRUE]
    BY <1>3 DEF Offer
  <2> QED BY <1>1, <2>2, <2>3 DEF Receivers
<1> QED BY <1>2, <1>3

(* Publishing is offering to some of the receivers.                        *)
LEMMA PublishType ==
  ASSUME NEW E, NEW D, NEW rxs \in [D -> Receivers(E)], NEW subs, NEW ev \in E
  PROVE  Publish(rxs, subs, ev) \in [D -> Receivers(E)]
BY OfferType DEF Publish

(* Reading removes one event.                                              *)
LEMMA PopType ==
  ASSUME NEW E, NEW r \in Receivers(E), r.buf # << >>
  PROVE  /\ Pop(r) \in Receivers(E)
         /\ Pop(r).lagged = r.lagged
         /\ Head(r.buf) \in E
<1>1. /\ r = [buf |-> r.buf, lagged |-> r.lagged]
      /\ r.buf \in Seq(E) /\ r.lagged \in BOOLEAN /\ Len(r.buf) <= BusCap
  BY DEF Receivers
<1>2. Tail(r.buf) \in Seq(E) /\ Len(Tail(r.buf)) = Len(r.buf) - 1 /\ Head(r.buf) \in E
  BY <1>1
<1>3. Pop(r) = [buf |-> Tail(r.buf), lagged |-> r.lagged]
  <2>1. r = [buf |-> r.buf, lagged |-> r.lagged]
    BY <1>1
  <2>2. \A t : [r EXCEPT !.buf = t] = [buf |-> t, lagged |-> r.lagged]
    BY <2>1
  <2> QED BY <2>2, Zenon DEF Pop
<1> QED BY BusCapAssumption, <1>1, <1>2, <1>3 DEF Receivers

(* A new subscriber has nothing to read.                                   *)
LEMMA SubscribedType == ASSUME NEW E PROVE Subscribed \in Receivers(E)
BY BusCapAssumption DEF Subscribed, Receivers

(* As long as the receiver does not lag, an offer loses nothing.           *)
LEMMA OfferKeeps ==
  ASSUME NEW E, NEW r \in Receivers(E), NEW ev \in E, ~Offer(r, ev).lagged
  PROVE  /\ ~r.lagged
         /\ Pending(Offer(r, ev)) = Pending(r) \cup {ev}
<1>1. /\ r = [buf |-> r.buf, lagged |-> r.lagged]
      /\ r.buf \in Seq(E) /\ r.lagged \in BOOLEAN /\ Len(r.buf) <= BusCap
  BY DEF Receivers
<1>2. Len(r.buf) < BusCap
  BY DEF Offer
<1>3. Offer(r, ev) = [buf |-> Append(r.buf, ev), lagged |-> r.lagged]
  BY <1>1, <1>2 DEF Offer
<1>4. /\ DOMAIN Append(r.buf, ev) = 1..Len(r.buf) + 1
      /\ \A n \in 1..Len(r.buf) : Append(r.buf, ev)[n] = r.buf[n]
      /\ Append(r.buf, ev)[Len(r.buf) + 1] = ev
      /\ DOMAIN r.buf = 1..Len(r.buf) /\ Len(r.buf) \in Nat
  BY <1>1
<1>5. 1..Len(r.buf) + 1 = (1..Len(r.buf)) \cup {Len(r.buf) + 1}
  BY <1>4
<1> DEFINE buf2 == Append(r.buf, ev)
<1>6. Pending(Offer(r, ev)) = {buf2[n] : n \in 1..Len(r.buf) + 1}
  <2>1. Offer(r, ev).buf = buf2
    BY <1>3
  <2>2. DOMAIN buf2 = 1..Len(r.buf) + 1
    BY <1>4
  <2> HIDE DEF buf2
  <2> QED BY <2>1, <2>2, Zenon DEF Pending
<1>7. Pending(r) = {r.buf[n] : n \in 1..Len(r.buf)}
  BY <1>4, Zenon DEF Pending
<1>8. ASSUME NEW n \in 1..Len(r.buf) + 1 PROVE buf2[n] \in Pending(r) \cup {ev}
  <2>1. CASE n \in 1..Len(r.buf)
    <3>1. buf2[n] = r.buf[n]
      BY <1>4, <2>1
    <3> QED BY <1>7, <2>1, <3>1
  <2>2. CASE n = Len(r.buf) + 1
    BY <1>4, <2>2
  <2> QED BY <1>5, <2>1, <2>2
<1>9. ASSUME NEW n \in 1..Len(r.buf) PROVE r.buf[n] \in Pending(Offer(r, ev))
  <2>1. r.buf[n] = buf2[n] /\ n \in 1..Len(r.buf) + 1
    BY <1>4, <1>5
  <2> QED BY <1>6, <2>1
<1>10. ev \in Pending(Offer(r, ev))
  <2>1. Len(r.buf) + 1 \in 1..Len(r.buf) + 1
    BY <1>4
  <2> QED BY <1>4, <1>6, <2>1
<1>11. ~r.lagged
  BY <1>3
<1> HIDE DEF buf2
<1>12. Pending(Offer(r, ev)) \subseteq Pending(r) \cup {ev}
  BY <1>6, <1>8, Zenon
<1>13. Pending(r) \subseteq Pending(Offer(r, ev))
  BY <1>7, <1>9, Zenon
<1> QED BY <1>10, <1>11, <1>12, <1>13, Zenon

(* What is read is what was pending.                                       *)
LEMMA PopPending ==
  ASSUME NEW E, NEW r \in Receivers(E), r.buf # << >>
  PROVE  Pending(r) = Pending(Pop(r)) \cup {Head(r.buf)}
<1>1. /\ r = [buf |-> r.buf, lagged |-> r.lagged]
      /\ r.buf \in Seq(E)
  BY DEF Receivers
<1>2. Pop(r).buf = Tail(r.buf)
  BY <1>1 DEF Pop
<1>3. /\ DOMAIN r.buf = 1..Len(r.buf) /\ Len(r.buf) \in Nat /\ Len(r.buf) >= 1
      /\ DOMAIN Tail(r.buf) = 1..Len(r.buf) - 1
      /\ \A n \in 1..Len(r.buf) - 1 : Tail(r.buf)[n] = r.buf[n + 1]
      /\ Head(r.buf) = r.buf[1]
  BY <1>1
<1> DEFINE rest == Tail(r.buf)
<1>4. Pending(r) = {r.buf[n] : n \in 1..Len(r.buf)}
  BY <1>3 DEF Pending
<1>5. Pending(Pop(r)) = {rest[n] : n \in 1..Len(r.buf) - 1}
  BY <1>2, <1>3 DEF Pending
<1>6. ASSUME NEW n \in 1..Len(r.buf)
      PROVE  r.buf[n] \in Pending(Pop(r)) \cup {Head(r.buf)}
  <2>1. CASE n = 1
    BY <1>3, <2>1
  <2>2. CASE n # 1
    <3>1. n - 1 \in 1..Len(r.buf) - 1 /\ (n - 1) + 1 = n
      BY <1>3, <2>2
    <3>2. rest[n - 1] = r.buf[n]
      BY <1>3, <3>1
    <3> QED BY <1>5, <3>1, <3>2
  <2> QED BY <2>1, <2>2
<1>7. ASSUME NEW n \in 1..Len(r.buf) - 1 PROVE rest[n] \in Pending(r)
  <2>1. n + 1 \in 1..Len(r.buf) /\ rest[n] = r.buf[n + 1]
    BY <1>3
  <2> QED BY <1>4, <2>1
<1>8. Head(r.buf) \in Pending(r)
  BY <1>3, <1>4
<1> HIDE DEF rest
<1>9. Pending(Pop(r)) \subseteq Pending(r)
  BY <1>5, <1>7, Zenon
<1>10. Pending(r) \subseteq Pending(Pop(r)) \cup {Head(r.buf)}
  BY <1>4, <1>6, Zenon
<1> QED BY <1>8, <1>9, <1>10, Zenon

-----------------------------------------------------------------------------
(* Type correctness. *)

(* The bus with one more receiver, the registry with one more monitor.     *)
LEMMA CreateMonitorType ==
  ASSUME TypeOK, NEW p \in PRs, NEW here \in BOOLEAN, CreateMonitor(p, here)
  PROVE  /\ Len(monitors) \in Nat
         /\ Len(monitors') = Len(monitors) + 1
         /\ monitors' \in Seq(MonitorTasks)
         /\ rx' \in [0..Len(monitors') -> Receivers(Events)]
<1>1. Monitor(p, here) \in MonitorTasks
  BY ShepherdAssumption DEF Monitor, NoRev, MonitorTasks
<1>2. monitors \in Seq(MonitorTasks) /\ rx \in [0..Len(monitors) -> Receivers(Events)]
  BY DEF TypeOK
<1>3. monitors' = Append(monitors, Monitor(p, here))
  BY DEF CreateMonitor
<1>4. monitors' \in Seq(MonitorTasks) /\ Len(monitors') = Len(monitors) + 1 /\ Len(monitors) \in Nat
  BY <1>1, <1>2, <1>3
<1>5. rx' \in [0..Len(monitors') -> Receivers(Events)]
  BY <1>2, <1>4, SubscribedType DEF CreateMonitor
<1> QED BY <1>4, <1>5

(* What grows with the registry keeps its type when it grows.              *)
LEMMA GrowType ==
  ASSUME NEW n \in Nat
  PROVE  /\ \A f \in [PRs -> 0..n] : f \in [PRs -> 0..n + 1]
         /\ \A c \in Coords(n) : c \in Coords(n + 1)
         /\ \A t \in Tickers(n) : t \in Tickers(n + 1)
         /\ \A k \in 0..n : k \in 0..n + 1
<1>1. \A k \in 0..n : k \in 0..n + 1
  OBVIOUS
<1>2. \A f \in [PRs -> 0..n] : f \in [PRs -> 0..n + 1]
  BY <1>1
<1>3. \A c \in Coords(n) : c \in Coords(n + 1)
  BY <1>1 DEF Coords
<1>4. \A t \in Tickers(n) : t \in Tickers(n + 1)
  BY <1>1 DEF Tickers
<1> QED BY <1>1, <1>2, <1>3, <1>4

(* The idle states have their types.                                       *)
LEMMA IdleType ==
  ASSUME NEW n \in Nat
  PROVE  /\ IdleTicker \in Tickers(n) /\ IdleTicker.pc = "idle"
         /\ IdleCoord \in Coords(n) /\ IdleCoord.pc = "recv"
         /\ Unseen \in [PRs -> 0..MaxRev]
<1>1. Unseen \in [PRs -> 0..MaxRev]
  BY ShepherdAssumption DEF Unseen, NoRev
<1>2. IdleTicker \in Tickers(n) /\ IdleTicker.pc = "idle"
  BY <1>1, ShepherdAssumption DEF IdleTicker, Tickers, NoRev
<1>3. IdleCoord \in Coords(n) /\ IdleCoord.pc = "recv"
  BY DEF IdleCoord, Coords
<1> QED BY <1>1, <1>2, <1>3

(* Records keep their types when a field takes a value of its type.        *)
LEMMA UpdateType ==
  ASSUME NEW n \in Nat
  PROVE  /\ \A w \in Watchers : [w EXCEPT !.on = FALSE] \in Watchers
         /\ \A t \in Tickers(n) : \A S \in SUBSET PRs : [t EXCEPT !.todo = S] \in Tickers(n)
         /\ \A t \in Tickers(n) : [t EXCEPT !.pc = "get"] \in Tickers(n)
         /\ \A t \in Tickers(n) : [t EXCEPT !.pc = "diff"] \in Tickers(n)
         /\ \A t \in Tickers(n) : [t EXCEPT !.pc = "dead"] \in Tickers(n)
         /\ \A t \in Tickers(n) : \A r \in 0..MaxRev :
              [t EXCEPT !.pc = "prompt", !.rev = r] \in Tickers(n)
         /\ \A t \in Tickers(n) : \A r \in 0..MaxRev :
              [t EXCEPT !.pc = "drain", !.rev = r] \in Tickers(n)
         /\ \A t \in Tickers(n) : \A i \in 0..n :
              [t EXCEPT !.pc = "drain", !.mon = i] \in Tickers(n)
         /\ \A t \in Tickers(n) : \A S \in SUBSET PRs :
              /\ [t EXCEPT !.pc = "list", !.todo = S] \in Tickers(n)
              /\ [t EXCEPT !.pc = "scan", !.todo = S] \in Tickers(n)
         /\ \A t \in Tickers(n) : \A f \in [PRs -> 0..MaxRev] : \A S \in SUBSET PRs :
              [t EXCEPT !.todo = S, !.cur = f] \in Tickers(n)
         /\ \A c \in Coords(n) : \A ev \in Events :
              [c EXCEPT !.pc = "ensure", !.ev = ev] \in Coords(n)
         /\ \A c \in Coords(n) : \A i \in 0..n :
              [c EXCEPT !.pc = "insert", !.id = i] \in Coords(n)
         /\ \A c \in Coords(n) : [c EXCEPT !.pc = "dead"] \in Coords(n)
         /\ \A c \in Coords(n) : [c EXCEPT !.pc = "replay"] \in Coords(n)
         /\ \A m \in MonitorTasks : [m EXCEPT !.done = TRUE] \in MonitorTasks
         /\ \A m \in MonitorTasks : \A r \in 0..MaxRev :
              [m EXCEPT !.reviewed = r] \in MonitorTasks
         /\ \A m \in MonitorTasks : \A ev \in Events :
              [m EXCEPT !.last = ev.rev, !.heard = @ \cup {ev}] \in MonitorTasks
<1>1. \A w \in Watchers : [w EXCEPT !.on = FALSE] \in Watchers
  BY Zenon DEF Watchers
<1>2. ASSUME NEW t \in Tickers(n)
      PROVE  /\ \A S \in SUBSET PRs : [t EXCEPT !.todo = S] \in Tickers(n)
             /\ [t EXCEPT !.pc = "get"] \in Tickers(n)
             /\ [t EXCEPT !.pc = "diff"] \in Tickers(n)
             /\ [t EXCEPT !.pc = "dead"] \in Tickers(n)
  BY Zenon DEF Tickers
<1>3. ASSUME NEW t \in Tickers(n)
      PROVE  /\ \A r \in 0..MaxRev : [t EXCEPT !.pc = "prompt", !.rev = r] \in Tickers(n)
             /\ \A r \in 0..MaxRev : [t EXCEPT !.pc = "drain", !.rev = r] \in Tickers(n)
             /\ \A i \in 0..n : [t EXCEPT !.pc = "drain", !.mon = i] \in Tickers(n)
  BY Zenon DEF Tickers
<1>4. ASSUME NEW t \in Tickers(n), NEW f \in [PRs -> 0..MaxRev], NEW S \in SUBSET PRs
      PROVE  /\ [t EXCEPT !.pc = "list", !.todo = S] \in Tickers(n)
             /\ [t EXCEPT !.pc = "scan", !.todo = S] \in Tickers(n)
             /\ [t EXCEPT !.todo = S, !.cur = f] \in Tickers(n)
  BY Zenon DEF Tickers
<1>5. ASSUME NEW c \in Coords(n)
      PROVE  /\ \A ev \in Events : [c EXCEPT !.pc = "ensure", !.ev = ev] \in Coords(n)
             /\ \A i \in 0..n : [c EXCEPT !.pc = "insert", !.id = i] \in Coords(n)
             /\ [c EXCEPT !.pc = "dead"] \in Coords(n)
             /\ [c EXCEPT !.pc = "replay"] \in Coords(n)
  BY Zenon DEF Coords
<1>6. ASSUME NEW m \in MonitorTasks
      PROVE  [m EXCEPT !.done = TRUE] \in MonitorTasks
  BY Zenon DEF MonitorTasks
<1>7. ASSUME NEW m \in MonitorTasks
      PROVE  \A r \in 0..MaxRev : [m EXCEPT !.reviewed = r] \in MonitorTasks
  BY DEF MonitorTasks
<1>8. ASSUME NEW m \in MonitorTasks, NEW ev \in Events
      PROVE  [m EXCEPT !.last = ev.rev, !.heard = @ \cup {ev}] \in MonitorTasks
  <2>1. ev.rev \in 0..MaxRev
    BY DEF Events
  <2>2. m.heard \cup {ev} \in SUBSET Events
    BY DEF MonitorTasks
  <2> QED BY <2>1, <2>2, Zenon DEF MonitorTasks
<1>9. \A t \in Tickers(n) : \A S \in SUBSET PRs :
        /\ [t EXCEPT !.pc = "list", !.todo = S] \in Tickers(n)
        /\ [t EXCEPT !.pc = "scan", !.todo = S] \in Tickers(n)
  <2>1. Unseen \in [PRs -> 0..MaxRev]
    BY IdleType
  <2> QED BY <1>4, <2>1, Zenon
<1>10. \A t \in Tickers(n) : \A f \in [PRs -> 0..MaxRev] : \A S \in SUBSET PRs :
         [t EXCEPT !.todo = S, !.cur = f] \in Tickers(n)
  BY <1>4, Zenon
<1> QED BY <1>1, <1>2, <1>3, <1>5, <1>6, <1>7, <1>8, <1>9, <1>10, Zenon

(* Publishing, reading and subscribing anew keep the bus well-typed.       *)
LEMMA BusType ==
  ASSUME TypeOK
  PROVE  /\ Len(monitors) \in Nat
         /\ \A subs : \A ev \in Events :
              Publish(rx, subs, ev) \in [0..Len(monitors) -> Receivers(Events)]
         /\ \A i \in 0..Len(monitors) :
              /\ [rx EXCEPT ![i] = Subscribed] \in [0..Len(monitors) -> Receivers(Events)]
              /\ [rx EXCEPT ![i].lagged = FALSE] \in [0..Len(monitors) -> Receivers(Events)]
              /\ rx[i].buf # << >> =>
                   /\ [rx EXCEPT ![i] = Pop(@)] \in [0..Len(monitors) -> Receivers(Events)]
                   /\ Head(rx[i].buf) \in Events

<1>1. monitors \in Seq(MonitorTasks) /\ rx \in [0..Len(monitors) -> Receivers(Events)]
  BY DEF TypeOK
<1>2. Len(monitors) \in Nat
  BY <1>1
<1>3. ASSUME NEW subs, NEW ev \in Events
      PROVE  Publish(rx, subs, ev) \in [0..Len(monitors) -> Receivers(Events)]
  BY <1>1, PublishType
<1>4. ASSUME NEW i \in 0..Len(monitors)
      PROVE  /\ [rx EXCEPT ![i] = Subscribed] \in [0..Len(monitors) -> Receivers(Events)]
             /\ [rx EXCEPT ![i].lagged = FALSE] \in [0..Len(monitors) -> Receivers(Events)]
             /\ rx[i].buf # << >> =>
                  /\ [rx EXCEPT ![i] = Pop(@)] \in [0..Len(monitors) -> Receivers(Events)]
                  /\ Head(rx[i].buf) \in Events
  <2>1. rx[i] \in Receivers(Events)
    BY <1>1
  <2>2. [rx EXCEPT ![i] = Subscribed] \in [0..Len(monitors) -> Receivers(Events)]
    BY <1>1, SubscribedType
  <2>3. [rx[i] EXCEPT !.lagged = FALSE] \in Receivers(Events)
    BY <2>1 DEF Receivers
  <2>4. [rx EXCEPT ![i].lagged = FALSE] \in [0..Len(monitors) -> Receivers(Events)]
    BY <1>1, <2>3
  <2>5. ASSUME rx[i].buf # << >>
        PROVE  /\ [rx EXCEPT ![i] = Pop(@)] \in [0..Len(monitors) -> Receivers(Events)]
               /\ Head(rx[i].buf) \in Events
    BY <1>1, <2>1, <2>5, PopType
  <2> QED BY <2>2, <2>4, <2>5
<1> QED BY <1>2, <1>3, <1>4

(* What the steps of a listing do to the list in progress.                 *)
LEMMA ListingMoves ==
  ASSUME TypeOK
  PROVE  /\ ListOpenPrs =>
              /\ ticker.pc = "idle" /\ ticker'.pc = "list"
              /\ ticker'.cur = Unseen /\ ticker'.todo = PRs
              /\ ticker' \in Tickers(Len(monitors))
         /\ \A p \in PRs : ReadListing(p) =>
              /\ ticker.pc = "list" /\ ticker' \in Tickers(Len(monitors))
              /\ \/ ticker' = IdleTicker
                 \/ /\ ticker'.pc = "list" /\ ticker'.todo = ticker.todo \ {p}
                    /\ \A q \in PRs \ {p} : ticker'.cur[q] = ticker.cur[q]
                    /\ \/ ticker'.cur[p] = IF host[p].state = "open" THEN host[p].rev ELSE NoRev
                       \/ /\ ticker'.cur[p] = ticker.cur[p] /\ "short" \in Faults
                          /\ watcher.seen[p] # NoRev => p \in missed'
         /\ EndListing =>
              /\ ticker.pc = "list" /\ ticker.todo = {} /\ ticker'.pc = "scan"
              /\ ticker'.cur = ticker.cur
              /\ ticker'.todo = {p \in PRs : ticker.cur[p] # NoRev \/ watcher.seen[p] # NoRev}
              /\ ticker' \in Tickers(Len(monitors))
<1> DEFINE N == Len(monitors)
<1>1. /\ ticker \in Tickers(N) /\ N \in Nat /\ ticker.cur \in [PRs -> 0..MaxRev]
      /\ ticker.todo \in SUBSET PRs
  <2>1. monitors \in Seq(MonitorTasks) /\ ticker \in Tickers(N)
    BY DEF TypeOK
  <2> QED BY <2>1 DEF Tickers
<1>2. /\ IdleTicker \in Tickers(N) /\ IdleTicker.cur = Unseen /\ PRs \in SUBSET PRs
  BY <1>1, IdleType DEF IdleTicker
<1>3. ASSUME ListOpenPrs
      PROVE  /\ ticker.pc = "idle" /\ ticker'.pc = "list"
             /\ ticker'.cur = Unseen /\ ticker'.todo = PRs
             /\ ticker' \in Tickers(N)
  <2>1. ticker' = [IdleTicker EXCEPT !.pc = "list", !.todo = PRs] /\ ticker.pc = "idle"
    BY <1>3 DEF ListOpenPrs
  <2>2. ticker'.pc = "list" /\ ticker'.cur = Unseen /\ ticker'.todo = PRs
    BY <2>1, Zenon DEF IdleTicker
  <2>3. ticker' \in Tickers(N)
    BY <1>1, <1>2, <2>1, UpdateType, Zenon
  <2> QED BY <2>1, <2>2, <2>3
<1>4. ASSUME NEW p \in PRs, ReadListing(p)
      PROVE  /\ ticker.pc = "list" /\ ticker' \in Tickers(N)
             /\ \/ ticker' = IdleTicker
                \/ /\ ticker'.pc = "list" /\ ticker'.todo = ticker.todo \ {p}
                   /\ \A q \in PRs \ {p} : ticker'.cur[q] = ticker.cur[q]
                   /\ \/ ticker'.cur[p] = IF host[p].state = "open" THEN host[p].rev ELSE NoRev
                      \/ /\ ticker'.cur[p] = ticker.cur[p] /\ "short" \in Faults
                         /\ watcher.seen[p] # NoRev => p \in missed'
  <2> DEFINE r == IF host[p].state = "open" THEN host[p].rev ELSE NoRev
             f == [ticker.cur EXCEPT ![p] = r]
             S == ticker.todo \ {p}
  <2>1. ticker.pc = "list" /\ S \in SUBSET PRs
    BY <1>1, <1>4 DEF ReadListing
  <2>2. f \in [PRs -> 0..MaxRev] /\ f[p] = r /\ \A q \in PRs \ {p} : f[q] = ticker.cur[q]
    <3>1. r \in 0..MaxRev
      <4>1. host[p].rev \in Revs
        BY Zenon DEF TypeOK, HostStates
      <4> QED BY <4>1, ShepherdAssumption DEF Revs, NoRev
    <3> HIDE DEF r
    <3> QED BY <1>1, <3>1
  <2> HIDE DEF S
  <2>3. \/ ticker' = IdleTicker
        \/ ticker' = [ticker EXCEPT !.todo = S, !.cur = f]
        \/ /\ ticker' = [ticker EXCEPT !.todo = S] /\ "short" \in Faults
           /\ missed' = IF watcher.seen[p] = NoRev THEN missed ELSE missed \cup {p}
    BY <1>4, Zenon DEF ReadListing, Fault, FirstInSession, S
  <2> HIDE DEF f
  <2>4. CASE ticker' = [ticker EXCEPT !.todo = S, !.cur = f]
    <3>1. ticker' \in Tickers(N)
      BY <1>1, <2>1, <2>2, <2>4, UpdateType, Zenon
    <3>2. ticker'.pc = ticker.pc /\ ticker'.todo = S /\ ticker'.cur = f
      BY <1>1, <2>4, Zenon DEF Tickers
    <3> QED BY <2>1, <2>2, <3>1, <3>2 DEF S
  <2>5. CASE /\ ticker' = [ticker EXCEPT !.todo = S] /\ "short" \in Faults
             /\ missed' = IF watcher.seen[p] = NoRev THEN missed ELSE missed \cup {p}
    <3>1. ticker' \in Tickers(N)
      BY <1>1, <2>1, <2>5, UpdateType, Zenon
    <3>2. ticker'.pc = ticker.pc /\ ticker'.todo = S /\ ticker'.cur = ticker.cur
      BY <1>1, <2>5, Zenon DEF Tickers
    <3> QED BY <2>1, <2>5, <3>1, <3>2 DEF S
  <2> QED BY <1>2, <2>1, <2>3, <2>4, <2>5
<1>5. ASSUME EndListing
      PROVE  /\ ticker.pc = "list" /\ ticker.todo = {} /\ ticker'.pc = "scan"
             /\ ticker'.cur = ticker.cur
             /\ ticker'.todo = {p \in PRs : ticker.cur[p] # NoRev \/ watcher.seen[p] # NoRev}
             /\ ticker' \in Tickers(N)
  <2> DEFINE S == {p \in PRs : ticker.cur[p] # NoRev \/ watcher.seen[p] # NoRev}
  <2>1. S \in SUBSET PRs
    OBVIOUS
  <2>2. /\ ticker' = [ticker EXCEPT !.pc = "scan", !.todo = S]
        /\ ticker.pc = "list" /\ ticker.todo = {}
    BY <1>5 DEF EndListing, Listed, FirstInSession
  <2> HIDE DEF S
  <2>3. ticker' \in Tickers(N)
    BY <1>1, <2>1, <2>2, UpdateType, Zenon
  <2>4. ticker'.pc = "scan" /\ ticker'.todo = S /\ ticker'.cur = ticker.cur
    BY <1>1, <2>2, Zenon DEF Tickers
  <2> QED BY <2>2, <2>3, <2>4 DEF S
<1> QED
  BY <1>3, <1>4, <1>5

(* Every step keeps the types.                                             *)
LEMMA TypeStep == TypeOK /\ [Next]_vars => TypeOK'
<1> SUFFICES ASSUME TypeOK, [Next]_vars PROVE TypeOK'
  OBVIOUS
<1> DEFINE N == Len(monitors)
<1>N. N \in Nat /\ monitors \in Seq(MonitorTasks)
  BY DEF TypeOK
<1>1. CASE HostStep
  <2>1. host' \in HostStates
    <3>1. ASSUME NEW p \in PRs, host[p].rev < MaxRev
          PROVE  host[p].rev + 1 \in Revs
      BY <3>1, ShepherdAssumption DEF TypeOK, HostStates, Revs
    <3>2. PICK p \in PRs : OpenPr(p) \/ Push(p) \/ Close(p) \/ Reopen(p)
      BY <1>1 DEF HostStep
    <3> DEFINE H == [state : {"absent", "open", "closed"}, rev : Revs]
    <3>3. host \in [PRs -> H] /\ host[p] \in H
      BY DEF TypeOK, HostStates
    <3>4. CASE OpenPr(p) \/ Close(p)
      <4>1. [host[p] EXCEPT !.state = "open"] \in H /\ [host[p] EXCEPT !.state = "closed"] \in H
        BY <3>3
      <4> HIDE DEF H
      <4> QED BY <3>3, <3>4, <4>1, Zenon DEF OpenPr, Close, HostStates, H
    <3>5. CASE Push(p)
      <4>1. [host[p] EXCEPT !.rev = @ + 1] \in H
        BY <3>1, <3>3, <3>5 DEF Push
      <4> HIDE DEF H
      <4> QED BY <3>3, <3>5, <4>1, Zenon DEF Push, HostStates, H
    <3>6. CASE Reopen(p)
      <4>1. [state |-> "open", rev |-> host[p].rev + 1] \in H
        BY <3>1, <3>3, <3>6 DEF Reopen
      <4> HIDE DEF H
      <4> QED BY <3>3, <3>6, <4>1, Zenon DEF Reopen, HostStates, H
    <3> QED BY <3>2, <3>4, <3>5, <3>6
  <2> QED BY <1>1, <2>1 DEF HostStep, TypeOK, CoordOnEvent, TickerOnMonitor
<1>2. CASE Watch \/ Unwatch
  <2>1. watcher' \in Watchers
    <3>1. Unseen \in [PRs -> 0..MaxRev]
      BY <1>N, IdleType
    <3>2. [on |-> TRUE, seen |-> Unseen] \in Watchers
      BY <3>1 DEF Watchers
    <3> QED BY <1>2, <1>N, <3>2, UpdateType, Zenon DEF Watch, Unwatch, TypeOK
  <2> QED BY <1>2, <2>1 DEF Watch, Unwatch, TypeOK, CoordOnEvent, TickerOnMonitor
<1>3. ASSUME NEW p \in PRs, TaskAdd(p) PROVE TypeOK'
  <2>1. CreateMonitor(p, TRUE)
    BY <1>3 DEF TaskAdd
  <2>2. /\ Len(monitors') = N + 1
        /\ monitors' \in Seq(MonitorTasks)
        /\ rx' \in [0..Len(monitors') -> Receivers(Events)]
    BY <2>1, CreateMonitorType
  <2>3. /\ monIds' \in [PRs -> 0..N + 1] /\ coord' \in Coords(N + 1)
        /\ ticker' \in Tickers(N + 1) /\ adding' \in 0..N + 1
    BY <1>3, <1>N, GrowType DEF TaskAdd, TypeOK
  <2> QED BY <1>3, <2>2, <2>3 DEF TaskAdd, TypeOK, CoordOnEvent, TickerOnMonitor
<1>4. CASE TaskAddInsert
  <2>1. monIds' \in [PRs -> 0..N]
    BY <1>4 DEF TaskAddInsert, TypeOK
  <2> QED BY <1>4, <1>N, <2>1 DEF TaskAddInsert, TypeOK, CoordOnEvent, TickerOnMonitor
<1>5. CASE ListOpenPrs \/ EndListing
  <2>1. ticker' \in Tickers(N) /\ ticker'.pc \in {"list", "scan"}
    BY <1>5, ListingMoves
  <2> QED
    BY <1>5, <2>1 DEF ListOpenPrs, EndListing, TypeOK, CoordOnEvent, TickerOnMonitor
<1>20. ASSUME NEW p \in PRs, ReadListing(p) PROVE TypeOK'
  <2>1. ticker' \in Tickers(N) /\ ticker'.pc \in {"idle", "list"}
    BY <1>20, <1>N, IdleType, ListingMoves
  <2>2. faults' \in 0..MaxFaults
    BY <1>20, ShepherdAssumption DEF ReadListing, TypeOK, Fault
  <2>3. missed' \subseteq PRs
    BY <1>20 DEF ReadListing, TypeOK
  <2> QED BY <1>20, <2>1, <2>2, <2>3 DEF ReadListing, TypeOK, CoordOnEvent, TickerOnMonitor
<1>6. ASSUME NEW p \in PRs, ScanPr(p) PROVE TypeOK'
  <2>1. ticker.cur[p] \in 0..MaxRev /\ (Listed(p) => ticker.cur[p] \in Revs)
    BY ShepherdAssumption DEF TypeOK, Tickers, Listed, NoRev, Revs
  <2>2. \A k \in {"opened", "updated"} : Event(k, p, ticker.cur[p]) \in Events
    BY <2>1 DEF Event, Events
  <2>3. rx' \in [0..N -> Receivers(Events)]
    <3>1. CASE rx' = rx
      BY <3>1 DEF TypeOK
    <3>2. ASSUME NEW k \in {"opened", "updated"},
                 rx' = Publish(rx, Subscribers, Event(k, p, ticker.cur[p]))
          PROVE  rx' \in [0..N -> Receivers(Events)]
      BY <2>2, <3>2, BusType, Zenon
    <3>3. \/ rx' = rx
          \/ \E k \in {"opened", "updated"} :
               rx' = Publish(rx, Subscribers, Event(k, p, ticker.cur[p]))
      BY <1>6, Zenon DEF ScanPr
    <3> QED BY <3>1, <3>2, <3>3, Zenon
  <2>4. ticker' \in Tickers(N) /\ ticker'.pc \in {"idle", "scan"}
    <3>1. \/ ticker' = IdleTicker \/ ticker' = [ticker EXCEPT !.todo = @ \ {p}]
          \/ ticker' = ticker
      BY <1>6, Zenon DEF ScanPr
    <3>2. ticker \in Tickers(N) /\ ticker.pc = "scan" /\ ticker.todo \ {p} \in SUBSET PRs
      BY <1>6 DEF ScanPr, TypeOK, Tickers
    <3>3. [ticker EXCEPT !.todo = @ \ {p}] \in Tickers(N)
      BY <1>N, <3>2, UpdateType, Zenon
    <3>4. [ticker EXCEPT !.todo = @ \ {p}].pc = "scan"
      BY <3>2, Zenon DEF Tickers
    <3> QED BY <1>N, <3>1, <3>2, <3>3, <3>4, IdleType, Zenon
  <2>5. ledger' \subseteq LedgerKeys
    BY <1>6, <2>1 DEF ScanPr, TypeOK, LedgerKeys
  <2>6. faults' \in 0..MaxFaults
    BY <1>6, ShepherdAssumption DEF ScanPr, TypeOK, Fault
  <2> QED BY <1>6, <2>3, <2>4, <2>5, <2>6 DEF ScanPr, TypeOK, CoordOnEvent, TickerOnMonitor
<1>7. ASSUME NEW p \in PRs, ScanClosed(p) PROVE TypeOK'
  <2>1. Event("closed", p, NoRev) \in Events
    BY ShepherdAssumption DEF Event, Events, NoRev
  <2>2. rx' \in [0..N -> Receivers(Events)]
    BY <1>7, <2>1, BusType, Zenon DEF ScanClosed
  <2>3. ticker' \in Tickers(N) /\ ticker'.pc = "scan"
    BY <1>7 DEF ScanClosed, TypeOK, Tickers
  <2> QED BY <1>7, <2>2, <2>3 DEF ScanClosed, TypeOK, CoordOnEvent, TickerOnMonitor
<1>8. CASE ScanDone
  <2>1. watcher' \in Watchers
    BY <1>8 DEF ScanDone, TypeOK, Watchers, Tickers
  <2> QED BY <1>8, <1>N, <2>1, IdleType DEF ScanDone, TypeOK, CoordOnEvent, TickerOnMonitor
<1>9. CASE CoordRecv
  <2>1. rx' \in [0..N -> Receivers(Events)]
    <3>1. 0 \in 0..N
      BY <1>N
    <3>2. \/ rx' = [rx EXCEPT ![0] = Subscribed]
          \/ rx[0].buf # << >> /\ rx' = [rx EXCEPT ![0] = Pop(@)]
      BY <1>9, Zenon DEF CoordRecv
    <3>3. [rx EXCEPT ![0] = Subscribed] \in [0..N -> Receivers(Events)]
      BY <3>1, BusType, Zenon
    <3>4. rx[0].buf # << >> => [rx EXCEPT ![0] = Pop(@)] \in [0..N -> Receivers(Events)]
      BY <3>1, BusType, Zenon
    <3> QED BY <3>2, <3>3, <3>4, Zenon
  <2>2. coord' \in Coords(N) /\ (CoordOnEvent' => coord'.ev \in Events)
    <3>1. 0 \in 0..N
      BY <1>N
    <3>2. rx[0].buf # << >> => Head(rx[0].buf) \in Events
      BY <3>1, BusType
    <3>3. coord \in Coords(N) /\ IdleCoord \in Coords(N)
      BY <1>N, IdleType DEF TypeOK
    <3>4. CASE coord' = coord
      BY <3>3, <3>4 DEF TypeOK, CoordOnEvent
    <3>5. CASE coord' = [IdleCoord EXCEPT !.pc = "dead"]
      <4>1. coord'.pc = "dead"
        BY <3>5 DEF IdleCoord
      <4> QED BY <1>N, <3>3, <3>5, <4>1, UpdateType DEF CoordOnEvent
    <3>6. ASSUME rx[0].buf # << >>,
                 coord' = [coord EXCEPT !.pc = "ensure", !.ev = Head(rx[0].buf)]
          PROVE  coord' \in Coords(N) /\ coord'.ev \in Events
      <4>1. coord' \in Coords(N)
        BY <1>N, <3>2, <3>3, <3>6, UpdateType, Zenon
      <4>2. coord'.ev = Head(rx[0].buf)
        BY <3>3, <3>6, Zenon DEF Coords
      <4> QED BY <3>2, <3>6, <4>1, <4>2
    <3> QED BY <1>9, <3>4, <3>5, <3>6, Zenon DEF CoordRecv
  <2> QED BY <1>9, <2>1, <2>2 DEF CoordRecv, TypeOK, TickerOnMonitor
<1>10. CASE CoordEnsure
  <2> DEFINE Here == Names(ShortForm(coord.ev.pr), coord.ev.pr)
  <2>1. coord.ev.pr \in PRs /\ CreateMonitor(coord.ev.pr, Here) /\ Here \in BOOLEAN
    BY <1>10 DEF CoordEnsure, TypeOK, CoordOnEvent, Events, Names
  <2>2. /\ Len(monitors') = N + 1
        /\ monitors' \in Seq(MonitorTasks)
        /\ rx' \in [0..Len(monitors') -> Receivers(Events)]
    BY <2>1, CreateMonitorType
  <2>3. coord' \in Coords(N + 1) /\ (CoordOnEvent' => coord'.ev \in Events)
    <3>1. coord \in Coords(N + 1) /\ N + 1 \in Nat /\ N + 1 \in 0..N + 1
      BY <1>N, GrowType DEF TypeOK
    <3>2. coord' = [coord EXCEPT !.pc = "insert", !.id = N + 1]
      BY <1>10 DEF CoordEnsure
    <3>3. coord' \in Coords(N + 1)
      BY <3>1, <3>2, UpdateType, Zenon
    <3>4. coord'.ev = coord.ev
      BY <3>1, <3>2, Zenon DEF Coords
    <3> QED BY <1>10, <3>3, <3>4 DEF CoordEnsure, TypeOK, CoordOnEvent
  <2>4. /\ monIds' \in [PRs -> 0..N + 1]
        /\ ticker' \in Tickers(N + 1) /\ adding' \in 0..N + 1
    BY <1>10, <1>N, GrowType DEF CoordEnsure, TypeOK
  <2> QED BY <1>10, <2>2, <2>3, <2>4 DEF CoordEnsure, TypeOK, TickerOnMonitor
<1>11. CASE CoordInsert
  <2>1. monIds' \in [PRs -> 0..N]
    BY <1>11 DEF CoordInsert, TypeOK, Coords
  <2>2. coord' \in Coords(N) /\ (CoordOnEvent' => coord'.ev \in Events)
    BY <1>11 DEF CoordInsert, TypeOK, Coords, CoordOnEvent
  <2> QED BY <1>11, <2>1, <2>2 DEF CoordInsert, TypeOK, TickerOnMonitor
<1>12. CASE CoordReplay
  <2>1. rx' \in [0..N -> Receivers(Events)]
    BY <1>12, BusType, Zenon DEF CoordReplay, TypeOK, CoordOnEvent
  <2> QED BY <1>12, <1>N, <2>1, IdleType DEF CoordReplay, TypeOK, CoordOnEvent, TickerOnMonitor
<1>13. ASSUME NEW i \in 1..Len(monitors), MonPoll(i) PROVE TypeOK'
  <2>1. ticker' \in Tickers(N) /\ (TickerOnMonitor' => ticker'.mon # 0)
    <3>1. IdleTicker \in Tickers(N) /\ i \in 0..N /\ i # 0
      BY <1>N, IdleType
    <3>2. ticker' = [IdleTicker EXCEPT !.pc = "drain", !.mon = i]
      BY <1>13 DEF MonPoll
    <3>3. ticker'.mon = i
      BY <3>2, Zenon DEF IdleTicker
    <3> QED BY <1>N, <3>1, <3>2, <3>3, UpdateType, Zenon
  <2> QED BY <1>13, <2>1 DEF MonPoll, TypeOK, CoordOnEvent
<1>14. ASSUME NEW i \in 1..Len(monitors), MonDrain(i) PROVE TypeOK'
  <2>1. i \in 0..N /\ rx[i].buf \in Seq(Events)
    BY <1>N DEF TypeOK, Receivers
  <2>2. rx' \in [0..N -> Receivers(Events)]
    <3>1. \/ rx' = rx
          \/ rx' = [rx EXCEPT ![i] = Subscribed]
          \/ rx' = [rx EXCEPT ![i].lagged = FALSE]
          \/ rx[i].buf # << >> /\ rx' = [rx EXCEPT ![i] = Pop(@)]
      BY <1>14, Zenon DEF MonDrain, Complete
    <3>2. rx \in [0..N -> Receivers(Events)]
      BY DEF TypeOK
    <3>3. /\ [rx EXCEPT ![i] = Subscribed] \in [0..N -> Receivers(Events)]
          /\ [rx EXCEPT ![i].lagged = FALSE] \in [0..N -> Receivers(Events)]
      BY <2>1, BusType, Zenon
    <3>4. rx[i].buf # << >> => [rx EXCEPT ![i] = Pop(@)] \in [0..N -> Receivers(Events)]
      BY <2>1, BusType, Zenon
    <3> QED BY <3>1, <3>2, <3>3, <3>4, Zenon
  <2>3. monitors' \in Seq(MonitorTasks) /\ Len(monitors') = N
    <3>1. monitors[i] \in MonitorTasks
      BY <1>N
    <3>2. [monitors[i] EXCEPT !.done = TRUE] \in MonitorTasks
      BY <1>N, <3>1, UpdateType, Zenon
    <3>3. ASSUME NEW ev \in Events
          PROVE  [monitors[i] EXCEPT !.last = ev.rev, !.heard = @ \cup {ev}] \in MonitorTasks
      BY <1>N, <3>1, UpdateType, Zenon
    <3>4. rx[i].buf # << >> => Head(rx[i].buf) \in Events
      BY <2>1
    <3>5. CASE monitors' = monitors
      BY <1>N, <3>5
    <3>6. CASE monitors' = [monitors EXCEPT ![i].done = TRUE]
      BY <1>N, <3>2, <3>6
    <3>7. ASSUME rx[i].buf # << >>,
                 monitors' = [monitors EXCEPT ![i].last = Head(rx[i].buf).rev,
                                              ![i].heard = @ \cup {Head(rx[i].buf)}]
          PROVE  monitors' \in Seq(MonitorTasks) /\ Len(monitors') = N
      <4> DEFINE ev == Head(rx[i].buf)
                 m  == [monitors[i] EXCEPT !.last = ev.rev, !.heard = @ \cup {ev}]
      <4>1. m \in MonitorTasks
        BY <3>3, <3>4, <3>7
      <4>2. monitors' = [monitors EXCEPT ![i] = m]
        <5>1. monitors' = [monitors EXCEPT ![i].last = Head(rx[i].buf).rev,
                                           ![i].heard = @ \cup {Head(rx[i].buf)}]
          BY <3>7
        <5> QED BY <5>1, Zenon
      <4> HIDE DEF m
      <4> QED BY <1>N, <4>1, <4>2
    <3>8. \/ monitors' = monitors
          \/ monitors' = [monitors EXCEPT ![i].done = TRUE]
          \/ /\ rx[i].buf # << >>
             /\ monitors' = [monitors EXCEPT ![i].last = Head(rx[i].buf).rev,
                                             ![i].heard = @ \cup {Head(rx[i].buf)}]
      BY <1>14, Zenon DEF MonDrain, Complete
    <3> QED BY <3>5, <3>6, <3>7, <3>8, Zenon
  <2>4. ticker' \in Tickers(N) /\ (TickerOnMonitor' => ticker'.mon # 0)
    <3>1. /\ ticker \in Tickers(N) /\ ticker.pc = "drain" /\ ticker.mon = i
          /\ TickerOnMonitor /\ i # 0
      BY <1>14, <1>N DEF MonDrain, TypeOK, TickerOnMonitor
    <3>2. ticker' = ticker \/ ticker' = IdleTicker \/ ticker' = [ticker EXCEPT !.pc = "get"]
      BY <1>14, Zenon DEF MonDrain, Complete
    <3>3. [ticker EXCEPT !.pc = "get"] \in Tickers(N)
      BY <1>N, <3>1, UpdateType, Zenon
    <3>4. [ticker EXCEPT !.pc = "get"].mon = i
      BY <3>1, Zenon DEF Tickers
    <3>5. CASE ticker' = IdleTicker
      BY <1>N, <3>5, IdleType DEF TickerOnMonitor
    <3> QED BY <3>1, <3>2, <3>3, <3>4, <3>5, Zenon
  <2> QED BY <1>14, <2>2, <2>3, <2>4 DEF MonDrain, TypeOK, CoordOnEvent
<1>15. ASSUME NEW i \in 1..Len(monitors), MonGetPr(i) PROVE TypeOK'
  <2>1. rx' \in [0..N -> Receivers(Events)]
    <3>1. rx' = rx \/ rx' = [rx EXCEPT ![i] = Subscribed]
      BY <1>15, Zenon DEF MonGetPr, Complete
    <3>2. rx \in [0..N -> Receivers(Events)] /\ i \in 0..N
      BY <1>N DEF TypeOK
    <3> QED BY <3>1, <3>2, BusType, Zenon
  <2>2. monitors' \in Seq(MonitorTasks) /\ Len(monitors') = N
    <3>1. [monitors[i] EXCEPT !.done = TRUE] \in MonitorTasks
      <4>1. monitors[i] \in MonitorTasks
        BY <1>N
      <4> QED BY <1>N, <4>1, UpdateType, Zenon
    <3>2. CASE monitors' = monitors
      BY <1>N, <3>2
    <3>3. CASE monitors' = [monitors EXCEPT ![i].done = TRUE]
      BY <1>N, <3>1, <3>3
    <3> QED BY <1>15, <3>2, <3>3, Zenon DEF MonGetPr, Complete
  <2>3. ticker' \in Tickers(N) /\ (TickerOnMonitor' => ticker'.mon # 0)
    <3>1. ticker \in Tickers(N) /\ ticker.mon = i /\ i # 0
      BY <1>15, <1>N DEF MonGetPr, TypeOK
    <3>2. ticker' = IdleTicker \/ ticker' = [ticker EXCEPT !.pc = "diff"]
      BY <1>15, Zenon DEF MonGetPr, Complete
    <3>3. [ticker EXCEPT !.pc = "diff"] \in Tickers(N)
      BY <1>N, <3>1, UpdateType, Zenon
    <3>4. [ticker EXCEPT !.pc = "diff"].mon = i
      BY <3>1, Zenon DEF Tickers
    <3>5. CASE ticker' = IdleTicker
      BY <1>N, <3>5, IdleType DEF TickerOnMonitor
    <3> QED BY <3>1, <3>2, <3>3, <3>4, <3>5, Zenon
  <2>4. faults' \in 0..MaxFaults
    BY <1>15, ShepherdAssumption DEF MonGetPr, TypeOK, Fault
  <2> QED BY <1>15, <2>1, <2>2, <2>3, <2>4 DEF MonGetPr, TypeOK, CoordOnEvent
<1>16. ASSUME NEW i \in 1..Len(monitors), MonGetDiff(i) PROVE TypeOK'
  <2>1. FetchedRev(i) \in 0..MaxRev
    <3>1. monitors[i] \in MonitorTasks
      BY <1>N
    <3>2. monitors[i].pr \in PRs
      BY <3>1 DEF MonitorTasks
    <3>3. host[monitors[i].pr].rev \in Revs
      BY <3>2, Zenon DEF TypeOK, HostStates
    <3> QED BY <3>3, ShepherdAssumption DEF FetchedRev, Revs
  <2>2. ticker' \in Tickers(N) /\ (TickerOnMonitor' => ticker'.mon # 0)
    <3>1. ticker \in Tickers(N) /\ ticker.mon = i /\ i # 0
      BY <1>16, <1>N DEF MonGetDiff, TypeOK
    <3>2. ticker' = IdleTicker \/ ticker' = [ticker EXCEPT !.pc = "prompt", !.rev = FetchedRev(i)]
      BY <1>16, Zenon DEF MonGetDiff
    <3>3. [ticker EXCEPT !.pc = "prompt", !.rev = FetchedRev(i)] \in Tickers(N)
      BY <1>N, <2>1, <3>1, UpdateType, Zenon
    <3>4. [ticker EXCEPT !.pc = "prompt", !.rev = FetchedRev(i)].mon = i
      BY <3>1, Zenon DEF Tickers
    <3>5. CASE ticker' = IdleTicker
      BY <1>N, <3>5, IdleType DEF TickerOnMonitor
    <3> QED BY <3>1, <3>2, <3>3, <3>4, <3>5, Zenon
  <2>3. faults' \in 0..MaxFaults
    BY <1>16, ShepherdAssumption DEF MonGetDiff, TypeOK, Fault
  <2> QED BY <1>16, <2>2, <2>3 DEF MonGetDiff, TypeOK, CoordOnEvent
<1>17. ASSUME NEW i \in 1..Len(monitors), MonPrompt(i) PROVE TypeOK'
  <2>1. ticker.rev \in 0..MaxRev
    BY DEF TypeOK, Tickers
  <2>2. monitors' \in Seq(MonitorTasks) /\ Len(monitors') = N
    <3>1. [monitors[i] EXCEPT !.reviewed = ticker.rev] \in MonitorTasks
      <4>1. monitors[i] \in MonitorTasks
        BY <1>N
      <4> QED BY <1>N, <2>1, <4>1, UpdateType, Zenon
    <3>2. CASE monitors' = monitors
      BY <1>N, <3>2
    <3>3. CASE monitors' = [monitors EXCEPT ![i].reviewed = ticker.rev]
      BY <1>N, <3>1, <3>3
    <3> QED BY <1>17, <3>2, <3>3, Zenon DEF MonPrompt
  <2>3. evals' \in [PRs -> [Revs -> 0..2]]
    <3>1. CASE evals' = evals
      BY <3>1 DEF TypeOK
    <3>2. CASE evals' = [evals EXCEPT ![monitors[i].pr][ticker.rev] = IF @ < 2 THEN @ + 1 ELSE @]
      <4>1. ASSUME NEW f \in [Revs -> 0..2], NEW x
            PROVE  [f EXCEPT ![x] = IF f[x] < 2 THEN f[x] + 1 ELSE f[x]] \in [Revs -> 0..2]
        <5> DEFINE v == IF f[x] < 2 THEN f[x] + 1 ELSE f[x]
        <5>1. x \in Revs => v \in 0..2
          <6>1. x \in Revs => f[x] \in 0..2
            OBVIOUS
          <6> QED BY <6>1
        <5> HIDE DEF v
        <5>2. [f EXCEPT ![x] = v] \in [Revs -> 0..2]
          BY <5>1, Zenon
        <5> QED BY <5>2, Zenon DEF v
      <4>2. evals' = [evals EXCEPT ![monitors[i].pr] =
                        [evals[monitors[i].pr] EXCEPT ![ticker.rev] =
                           IF evals[monitors[i].pr][ticker.rev] < 2
                             THEN evals[monitors[i].pr][ticker.rev] + 1
                             ELSE evals[monitors[i].pr][ticker.rev]]]
        BY <3>2, Zenon
      <4>3. monitors[i].pr \in PRs
        <5>1. monitors[i] \in MonitorTasks
          BY <1>N
        <5> QED BY <5>1 DEF MonitorTasks
      <4> QED BY <4>1, <4>2, <4>3, Zenon DEF TypeOK
    <3> QED BY <1>17, <3>1, <3>2 DEF MonPrompt
  <2>4. ticker' \in Tickers(N) /\ (TickerOnMonitor' => ticker'.mon # 0)
    <3>1. ticker \in Tickers(N) /\ IdleTicker \in Tickers(N) /\ NoRev \in 0..MaxRev
      BY <1>N, IdleType, ShepherdAssumption DEF TypeOK, NoRev
    <3>2. CASE ticker' = IdleTicker
      BY <1>N, <3>2, IdleType DEF TickerOnMonitor
    <3>3. CASE ticker' = [ticker EXCEPT !.pc = "drain", !.rev = NoRev]
      <4>1. ticker' \in Tickers(N)
        BY <1>N, <3>1, <3>3, UpdateType, Zenon
      <4>2. ticker'.mon = ticker.mon
        <5>1. ticker \in Tickers(N) /\ ticker.mon = i
          BY <1>17, <3>1 DEF MonPrompt
        <5>2. [ticker EXCEPT !.pc = "drain", !.rev = NoRev].mon = i
          BY <5>1, Zenon DEF Tickers
        <5> QED BY <3>3, <5>1, <5>2, Zenon
      <4> QED BY <1>17, <4>1, <4>2 DEF MonPrompt, TypeOK, TickerOnMonitor
    <3>4. CASE ticker' = [IdleTicker EXCEPT !.pc = "dead"]
      <4>1. ticker'.pc = "dead"
        BY <3>4 DEF IdleTicker
      <4> QED BY <1>N, <3>1, <3>4, <4>1, UpdateType DEF TickerOnMonitor
    <3> QED BY <1>17, <3>2, <3>3, <3>4, Zenon DEF MonPrompt
  <2>5. faults' \in 0..MaxFaults
    BY <1>17, ShepherdAssumption DEF MonPrompt, TypeOK, Fault
  <2> QED BY <1>17, <2>2, <2>3, <2>4, <2>5 DEF MonPrompt, TypeOK, CoordOnEvent
<1>18. CASE Crash
  <2>1. /\ monitors' \in Seq(MonitorTasks) /\ Len(monitors') = 0
        /\ rx' \in [0..Len(monitors') -> Receivers(Events)]
    BY <1>18, SubscribedType DEF Crash
  <2>2. watcher' \in Watchers
    BY <1>18, IdleType DEF Crash, Watchers
  <2>3. ticker' \in Tickers(0) /\ ticker'.pc = "idle" /\ coord' \in Coords(0) /\ coord'.pc = "recv"
    BY <1>18, IdleType DEF Crash
  <2>4. monIds' \in [PRs -> 0..0] /\ adding' \in 0..0
    BY <1>18 DEF Crash
  <2>5. restarts' \in 0..MaxRestarts
    BY <1>18, ShepherdAssumption DEF Crash, TypeOK
  <2> QED BY <1>18, <2>1, <2>2, <2>3, <2>4, <2>5 DEF Crash, TypeOK, CoordOnEvent, TickerOnMonitor
<1>19. CASE UNCHANGED vars
  BY <1>19 DEF vars, TypeOK, CoordOnEvent, TickerOnMonitor
<1> QED
  BY <1>1, <1>2, <1>3, <1>4, <1>5, <1>6, <1>7, <1>8, <1>9, <1>10, <1>11, <1>12,
     <1>13, <1>14, <1>15, <1>16, <1>17, <1>18, <1>19, <1>20
     DEF Next, ListingStep, ScanStep, Coordinator, MonitorStep

(* The state stays within its types: in particular no queue outgrows the   *)
(* channel and no index names a monitor that is not there.                 *)
THEOREM TypeCorrect == Spec => []TypeOK
<1>1. Init => TypeOK
  <2> SUFFICES ASSUME Init PROVE TypeOK
    OBVIOUS
  <2>1. monitors \in Seq(MonitorTasks) /\ Len(monitors) = 0
    BY DEF Init
  <2>2. rx \in [0..Len(monitors) -> Receivers(Events)]
    BY <2>1, SubscribedType DEF Init
  <2>3. host \in HostStates /\ evals \in [PRs -> [Revs -> 0..2]]
    BY ShepherdAssumption DEF Init, HostStates, Revs
  <2>4. watcher \in Watchers /\ ledger \subseteq LedgerKeys
    BY IdleType DEF Init, Watchers
  <2>5. ticker \in Tickers(0) /\ ticker.pc = "idle" /\ coord \in Coords(0) /\ coord.pc = "recv"
    BY IdleType DEF Init
  <2>6. /\ monIds \in [PRs -> 0..0] /\ adding \in 0..0 /\ missed \subseteq PRs
        /\ faults \in 0..MaxFaults /\ restarts \in 0..MaxRestarts
    BY ShepherdAssumption DEF Init
  <2> QED BY <2>1, <2>2, <2>3, <2>4, <2>5, <2>6 DEF TypeOK, CoordOnEvent, TickerOnMonitor
<1> QED BY <1>1, TypeStep, PTL DEF Spec

-----------------------------------------------------------------------------
(* One monitor for a PR. *)

(* The coordinator has created monitor i and has yet to register it.       *)
Registering(i) ==
  coord.pc = "insert" /\ coord.id = i /\ coord.ev.pr = monitors[i].pr

(* What makes OneMonitorPerPr inductive: every monitor is the one          *)
(* registered for its PR, but for the one the coordinator is creating, and *)
(* that one's PR has none.                                                 *)
Registered ==
  "task_add" \notin Env =>
    /\ adding = 0
    /\ coord.pc \in {"ensure", "insert"} => monIds[coord.ev.pr] = 0
    /\ \A i \in 1..Len(monitors) : monIds[monitors[i].pr] = i \/ Registering(i)

(* A step that creates no monitor and completes, updates or leaves the     *)
(* ones there are keeps their PRs.                                         *)
LEMMA SamePrs ==
  ASSUME TypeOK, NEW i \in 1..Len(monitors),
         MonitorStep(i)
  PROVE  /\ Len(monitors') = Len(monitors)
         /\ \A j \in 1..Len(monitors) : monitors'[j].pr = monitors[j].pr
         /\ UNCHANGED << monIds, coord, adding, watcher >>
         /\ rx'[0] = rx[0]
         /\ {ticker.pc, ticker'.pc} \cap {"list", "scan"} = {}
<1>1. /\ monitors \in Seq(MonitorTasks) /\ rx \in [0..Len(monitors) -> Receivers(Events)]
      /\ ticker \in Tickers(Len(monitors)) /\ Len(monitors) \in Nat
  BY DEF TypeOK
<1>2. \A j \in 1..Len(monitors) : monitors[j] \in MonitorTasks
  BY <1>1
<1>3. UNCHANGED << monIds, coord, adding, watcher >>
  BY DEF MonitorStep, MonPoll, MonDrain, MonGetPr, MonGetDiff, MonPrompt
<1>4. \/ monitors' = monitors
      \/ \E m : m.pr = monitors[i].pr /\ monitors' = [monitors EXCEPT ![i] = m]
  <2>1. \/ monitors' = monitors
        \/ monitors' = [monitors EXCEPT ![i].done = TRUE]
        \/ \E ev : monitors' = [monitors EXCEPT ![i].last = ev.rev, ![i].heard = @ \cup {ev}]
        \/ monitors' = [monitors EXCEPT ![i].reviewed = ticker.rev]
    BY Zenon DEF MonitorStep, MonPoll, MonDrain, MonGetPr, MonGetDiff, MonPrompt, Complete
  <2>2. CASE monitors' = [monitors EXCEPT ![i].done = TRUE]
    <3>1. [monitors[i] EXCEPT !.done = TRUE].pr = monitors[i].pr
      BY <1>2, Zenon DEF MonitorTasks
    <3> QED BY <2>2, <3>1, Zenon
  <2>3. ASSUME NEW ev,
               monitors' = [monitors EXCEPT ![i].last = ev.rev, ![i].heard = @ \cup {ev}]
        PROVE  \E m : m.pr = monitors[i].pr /\ monitors' = [monitors EXCEPT ![i] = m]
    <3>1. [monitors[i] EXCEPT !.last = ev.rev, !.heard = @ \cup {ev}].pr = monitors[i].pr
      BY <1>2, Zenon DEF MonitorTasks
    <3>2. monitors' = [monitors EXCEPT ![i] =
                         [monitors[i] EXCEPT !.last = ev.rev, !.heard = @ \cup {ev}]]
      BY <2>3, Zenon
    <3> QED BY <3>1, <3>2, Zenon
  <2>4. CASE monitors' = [monitors EXCEPT ![i].reviewed = ticker.rev]
    <3>1. [monitors[i] EXCEPT !.reviewed = ticker.rev].pr = monitors[i].pr
      BY <1>2, Zenon DEF MonitorTasks
    <3> QED BY <2>4, <3>1, Zenon
  <2> QED BY <2>1, <2>2, <2>3, <2>4, Zenon
<1>5. /\ Len(monitors') = Len(monitors)
      /\ \A j \in 1..Len(monitors) : monitors'[j].pr = monitors[j].pr
  <2>1. CASE monitors' = monitors
    BY <2>1
  <2>2. ASSUME NEW m, m.pr = monitors[i].pr, monitors' = [monitors EXCEPT ![i] = m]
        PROVE  /\ Len(monitors') = Len(monitors)
               /\ \A j \in 1..Len(monitors) : monitors'[j].pr = monitors[j].pr
    BY <1>1, <2>2
  <2> QED BY <1>4, <2>1, <2>2
<1>6. rx'[0] = rx[0]
  <2>1. i # 0 /\ 0 \in DOMAIN rx
    BY <1>1
  <2>2. \/ rx' = rx
        \/ \E r : rx' = [rx EXCEPT ![i] = r]
    BY Zenon DEF MonitorStep, MonPoll, MonDrain, MonGetPr, MonGetDiff, MonPrompt, Complete
  <2> QED BY <2>1, <2>2
<1>7. IdleTicker.pc = "idle" /\ ticker.pc \notin {"list", "scan"}
  BY IdleType DEF MonitorStep, MonPoll, MonDrain, MonGetPr, MonGetDiff, MonPrompt, IdleTicker
<1>8. ticker'.pc \notin {"list", "scan"}
  <2>1. \/ ticker' = ticker \/ ticker' = IdleTicker
        \/ \E x \in {"get", "diff", "prompt", "drain", "dead"} : ticker'.pc = x
    BY <1>1, Zenon
       DEF MonitorStep, MonPoll, MonDrain, MonGetPr, MonGetDiff, MonPrompt, Complete, Tickers, IdleTicker
  <2> QED BY <1>7, <2>1
<1> QED BY <1>3, <1>5, <1>6, <1>7, <1>8

(* Every step keeps Registered.                                            *)
LEMMA RegisteredStep == TypeOK /\ Registered /\ [Next]_vars => Registered'
<1> SUFFICES ASSUME TypeOK, Registered, [Next]_vars, "task_add" \notin Env
             PROVE  /\ adding' = 0
                    /\ (coord.pc \in {"ensure", "insert"} => monIds[coord.ev.pr] = 0)'
                    /\ (\A i \in 1..Len(monitors) :
                          monIds[monitors[i].pr] = i \/ Registering(i))'
  BY DEF Registered
<1> DEFINE N == Len(monitors)
<1>N. /\ N \in Nat /\ monitors \in Seq(MonitorTasks) /\ coord \in Coords(N)
      /\ \A i \in 1..N : monitors[i].pr \in PRs
      /\ monIds \in [PRs -> 0..N]
  <2>1. N \in Nat /\ monitors \in Seq(MonitorTasks)
    BY DEF TypeOK
  <2>2. \A i \in 1..N : monitors[i] \in MonitorTasks
    BY <2>1
  <2>3. \A i \in 1..N : monitors[i].pr \in PRs
    BY <2>2 DEF MonitorTasks
  <2> QED BY <2>1, <2>3 DEF TypeOK
<1>R. /\ adding = 0
      /\ coord.pc \in {"ensure", "insert"} => monIds[coord.ev.pr] = 0
      /\ \A i \in 1..N : monIds[monitors[i].pr] = i \/ Registering(i)
  BY DEF Registered
<1>1. CASE UNCHANGED << monitors, monIds, coord, adding >>
  BY <1>1, <1>R DEF Registering
<1>2. ASSUME NEW p \in PRs, TaskAdd(p) PROVE FALSE
  BY <1>2 DEF TaskAdd
<1>3. CASE TaskAddInsert
  BY <1>3, <1>R DEF TaskAddInsert
<1>4. CASE CoordRecv
  <2>1. \/ coord' = coord
        \/ coord' = [IdleCoord EXCEPT !.pc = "dead"]
        \/ \E ev : monIds[ev.pr] = 0 /\ coord' = [coord EXCEPT !.pc = "ensure", !.ev = ev]
    BY <1>4, Zenon DEF CoordRecv
  <2>2. coord'.pc \in {"ensure", "insert"} => monIds[coord'.ev.pr] = 0
    <3>1. CASE coord' = coord
      BY <1>R, <3>1
    <3>2. CASE coord' = [IdleCoord EXCEPT !.pc = "dead"]
      BY <3>2 DEF IdleCoord
    <3>3. ASSUME NEW ev, monIds[ev.pr] = 0, coord' = [coord EXCEPT !.pc = "ensure", !.ev = ev]
          PROVE  monIds[coord'.ev.pr] = 0
      <4>1. coord'.ev = ev
        BY <1>N, <3>3, Zenon DEF Coords
      <4> QED BY <3>3, <4>1
    <3> QED BY <2>1, <3>1, <3>2, <3>3
  <2>3. \A i \in 1..N : monIds[monitors[i].pr] = i
    BY <1>4, <1>R DEF CoordRecv, Registering
  <2> QED BY <1>4, <1>R, <2>2, <2>3 DEF CoordRecv
<1>5. CASE CoordEnsure
  <2> DEFINE Here == Names(ShortForm(coord.ev.pr), coord.ev.pr)
  <2>1. /\ coord.ev.pr \in PRs
        /\ monitors' = Append(monitors, Monitor(coord.ev.pr, Here))
        /\ coord' = [coord EXCEPT !.pc = "insert", !.id = N + 1]
        /\ UNCHANGED << monIds, adding >>
        /\ coord.pc = "ensure"
    BY <1>5 DEF CoordEnsure, CreateMonitor, TypeOK, CoordOnEvent, Events
  <2>2. coord'.pc = "insert" /\ coord'.id = N + 1 /\ coord'.ev = coord.ev
    BY <1>N, <2>1, Zenon DEF Coords
  <2>3. Len(monitors') = N + 1 /\ monitors'[N + 1].pr = coord.ev.pr
    <3>1. Monitor(coord.ev.pr, Here).pr = coord.ev.pr
      BY DEF Monitor
    <3> QED BY <1>N, <2>1, <3>1
  <2>4. \A i \in 1..N : monIds[monitors[i].pr] = i /\ monitors'[i] = monitors[i]
    BY <1>N, <1>R, <2>1 DEF Registering
  <2>5. \A i \in 1..N + 1 : i = N + 1 \/ i \in 1..N
    BY <1>N
  <2> QED BY <1>R, <2>1, <2>2, <2>3, <2>4, <2>5 DEF Registering
<1>6. CASE CoordInsert
  <2>1. /\ monIds' = [monIds EXCEPT ![coord.ev.pr] = coord.id]
        /\ coord.pc = "insert" /\ coord'.pc = "replay"
        /\ UNCHANGED << monitors, adding >>
    BY <1>6, <1>N DEF CoordInsert, Coords
  <2>2. ASSUME NEW i \in 1..N PROVE monIds'[monitors[i].pr] = i
    <3>1. CASE monIds[monitors[i].pr] = i
      <4>1. monitors[i].pr # coord.ev.pr
        BY <1>N, <1>R, <2>1, <3>1
      <4> QED BY <1>N, <2>1, <3>1, <4>1
    <3>2. CASE Registering(i)
      BY <1>N, <2>1, <3>2 DEF Registering
    <3> QED BY <1>R, <3>1, <3>2
  <2> QED BY <1>R, <2>1, <2>2
<1>7. CASE CoordReplay
  <2>1. coord'.pc = "recv" /\ coord.pc = "replay" /\ UNCHANGED << monitors, monIds, adding >>
    BY <1>7 DEF CoordReplay, IdleCoord
  <2> QED BY <1>R, <2>1 DEF Registering
<1>8. ASSUME NEW i \in 1..N, MonitorStep(i)
      PROVE  /\ adding' = 0
             /\ (coord.pc \in {"ensure", "insert"} => monIds[coord.ev.pr] = 0)'
             /\ (\A j \in 1..Len(monitors) : monIds[monitors[j].pr] = j \/ Registering(j))'
  BY <1>8, <1>R, SamePrs DEF Registering
<1>9. CASE Crash
  <2>1. Len(monitors') = 0 /\ adding' = 0 /\ coord'.pc = "recv"
    BY <1>9 DEF Crash, IdleCoord
  <2> QED BY <2>1
<1>10. CASE HostStep \/ Watch \/ Unwatch \/ ListOpenPrs \/ ListingStep \/ ScanStep
  BY <1>1, <1>10
     DEF HostStep, Watch, Unwatch, ListOpenPrs, ListingStep, ReadListing, EndListing, ScanStep,
         ScanPr, ScanClosed, ScanDone
<1>11. CASE UNCHANGED vars
  BY <1>1, <1>11 DEF vars
<1> QED
  BY <1>2, <1>3, <1>4, <1>5, <1>6, <1>7, <1>8, <1>9, <1>10, <1>11 DEF Next, Coordinator

(* Without task/add, no PR has two monitors: although the coordinator      *)
(* checks, creates and registers in three steps, and its own replay and    *)
(* every later event of the PR come back to it.                            *)
THEOREM SingleMonitor == Spec => []OneMonitorPerPr
<1>1. Init => Registered
  BY DEF Init, Registered, IdleCoord
<1>2. TypeOK /\ Registered => OneMonitorPerPr
  <2> SUFFICES ASSUME TypeOK, Registered, "task_add" \notin Env,
                      NEW i \in 1..Len(monitors), NEW j \in 1..Len(monitors),
                      monitors[i].pr = monitors[j].pr
               PROVE  i = j
    BY DEF OneMonitorPerPr
  <2>1. Len(monitors) \in Nat
    BY DEF TypeOK
  <2> QED BY <2>1 DEF Registered, Registering
<1> QED BY <1>1, <1>2, RegisteredStep, TypeCorrect, PTL DEF Spec

-----------------------------------------------------------------------------
(* An announced PR is not forgotten. *)

(* What makes AnnouncedIsTracked inductive: a replay is only due for a PR  *)
(* whose monitor is registered, and an insertion registers a real one.     *)
Tracking ==
  /\ coord.pc = "insert" => coord.id # 0
  /\ coord.pc = "replay" => monIds[coord.ev.pr] # 0
  /\ AnnouncedIsTracked

(* What is published to a coordinator that does not come to lag is pending *)
(* for it, with all that was.                                              *)
LEMMA PublishTracks ==
  ASSUME TypeOK, NEW ev \in Events, rx' = Publish(rx, Subscribers, ev),
         UNCHANGED coord, CoordHealthy'
  PROVE  /\ CoordHealthy
         /\ Pending(rx'[0]) = Pending(rx[0]) \cup {ev}
<1>1. rx \in [0..Len(monitors) -> Receivers(Events)] /\ 0 \in 0..Len(monitors)
  <2>1. monitors \in Seq(MonitorTasks)
    BY DEF TypeOK
  <2>2. Len(monitors) \in Nat
    BY <2>1
  <2> QED BY <2>2 DEF TypeOK
<1>2. 0 \in Subscribers
  BY <1>1 DEF Subscribers, CoordHealthy
<1>3. rx'[0] = Offer(rx[0], ev)
  BY <1>1, <1>2 DEF Publish
<1>4. ~rx[0].lagged /\ Pending(rx'[0]) = Pending(rx[0]) \cup {ev}
  BY <1>1, <1>3, OfferKeeps DEF CoordHealthy
<1> QED BY <1>4 DEF CoordHealthy

(* A step after which the coordinator knows no less and the watcher has    *)
(* announced no more keeps every announced PR tracked.                     *)
LEMMA TrackedStays ==
  ASSUME AnnouncedIsTracked,
         UNCHANGED << monIds, coord >>,
         CoordHealthy' => CoordHealthy /\ Pending(rx[0]) \subseteq Pending(rx'[0]),
         CoordHealthy' => \A p \in PRs : Announced(p)' => Announced(p) \/ Tracked(p)'
  PROVE  AnnouncedIsTracked'
<1> SUFFICES ASSUME CoordHealthy', NEW p \in PRs, Announced(p)' PROVE Tracked(p)'
  BY DEF AnnouncedIsTracked
<1>1. CASE Announced(p)
  <2>1. Tracked(p)
    BY <1>1 DEF AnnouncedIsTracked
  <2> QED BY <2>1 DEF Tracked, CoordOnEvent
<1>2. CASE Tracked(p)'
  BY <1>2
<1> QED BY <1>1, <1>2

(* Every step keeps Tracking.                                              *)
LEMMA TrackingStep == TypeOK /\ TypeOK' /\ Tracking /\ [Next]_vars => Tracking'
<1> SUFFICES ASSUME TypeOK, TypeOK', Tracking, [Next]_vars PROVE Tracking'
  OBVIOUS
<1> DEFINE N == Len(monitors)
<1>N. /\ N \in Nat /\ coord \in Coords(N) /\ monIds \in [PRs -> 0..N]
      /\ rx \in [0..N -> Receivers(Events)] /\ 0 \in 0..N
  <2>1. monitors \in Seq(MonitorTasks)
    BY DEF TypeOK
  <2>2. N \in Nat
    BY <2>1
  <2> QED BY <2>2 DEF TypeOK
<1>T. /\ coord.pc = "insert" => coord.id # 0
      /\ coord.pc = "replay" => monIds[coord.ev.pr] # 0
      /\ AnnouncedIsTracked
  BY DEF Tracking
<1>1. ASSUME UNCHANGED << monIds, coord >>,
             rx'[0] = rx[0],
             \A p \in PRs : Announced(p)' => Announced(p)
      PROVE  Tracking'
  BY <1>1, <1>T, TrackedStays DEF CoordHealthy, Tracking
<1>2. CASE HostStep \/ Unwatch
  <2>1. watcher'.seen = watcher.seen /\ UNCHANGED << ticker, monIds, coord, rx >>
    BY <1>2, Zenon DEF HostStep, Unwatch, TypeOK, Watchers
  <2> QED BY <1>1, <2>1 DEF Announced, Listed
<1>3. CASE Watch
  <2>1. \A p \in PRs : ~Announced(p)'
    BY <1>3 DEF Watch, Announced, Unseen, LockFree
  <2> QED BY <1>1, <1>3, <2>1 DEF Watch
<1>4. ASSUME NEW p \in PRs, TaskAdd(p) PROVE Tracking'
  <2>1. rx'[0] = rx[0]
    BY <1>4, <1>N DEF TaskAdd, CreateMonitor
  <2> QED BY <1>1, <1>4, <2>1 DEF TaskAdd, Announced, Listed
<1>5. CASE TaskAddInsert
  <2>1. /\ monIds' = [monIds EXCEPT ![monitors[adding].pr] = adding] /\ adding # 0
        /\ UNCHANGED << coord, rx, watcher, ticker >>
    BY <1>5 DEF TaskAddInsert
  <2>2. \A p \in PRs : monIds[p] # 0 => monIds'[p] # 0
    BY <1>N, <2>1
  <2>3. coord.pc = "replay" => coord.ev.pr \in PRs
    BY DEF TypeOK, CoordOnEvent, Events
  <2>4. AnnouncedIsTracked'
    BY <1>T, <2>1, <2>2 DEF AnnouncedIsTracked, CoordHealthy, Announced, Listed, Tracked, CoordOnEvent
  <2> QED BY <1>T, <2>1, <2>2, <2>3, <2>4 DEF Tracking
<1>6. CASE ListOpenPrs \/ ListingStep
  <2>1. UNCHANGED << watcher, monIds, coord, rx >>
    BY <1>6 DEF ListOpenPrs, ListingStep, ReadListing, EndListing
  <2>2. ticker'.pc = "scan" => \A p \in PRs : Listed(p)' => p \in ticker'.todo
    <3>1. IdleTicker.pc # "scan"
      BY DEF IdleTicker
    <3> QED BY <1>6, <3>1, ListingMoves DEF ListingStep, Listed
  <2> QED BY <1>1, <2>1, <2>2 DEF Announced
<1>7. ASSUME NEW p \in PRs, ScanPr(p) PROVE Tracking'
  <2>1. /\ ticker.pc = "scan" /\ Listed(p) /\ UNCHANGED << watcher, coord, monIds >>
        /\ ticker' = [ticker EXCEPT !.todo = @ \ {p}] \/ ticker' = IdleTicker \/ ticker' = ticker
    BY <1>7 DEF ScanPr
  <2>2. \A q \in PRs : Announced(q)' => q = p \/ Announced(q)
    <3>1. CASE ticker' = [ticker EXCEPT !.todo = @ \ {p}]
      <4>1. ticker'.cur = ticker.cur /\ ticker'.todo = ticker.todo \ {p}
        BY <3>1, Zenon DEF TypeOK, Tickers
      <4> QED BY <2>1, <4>1 DEF Announced, Listed
    <3>2. CASE ticker' = IdleTicker
      BY <2>1, <3>2 DEF Announced, IdleTicker
    <3>3. CASE ticker' = ticker
      BY <2>1, <3>3 DEF Announced, Listed
    <3> QED BY <2>1, <3>1, <3>2, <3>3
  <2>3. CASE rx' = rx /\ ~FirstInSession(p)
    <3>1. Announced(p)
      BY <2>3 DEF FirstInSession, Announced
    <3> QED BY <1>1, <2>1, <2>2, <2>3, <3>1
  <2>4. ASSUME NEW ev \in Events, ev.pr = p, rx' = Publish(rx, Subscribers, ev)
        PROVE  Tracking'
    <3>1. CoordHealthy' => CoordHealthy /\ Pending(rx'[0]) = Pending(rx[0]) \cup {ev}
      BY <2>1, <2>4, PublishTracks
    <3>2. CoordHealthy' => Tracked(p)'
      BY <2>4, <3>1 DEF Tracked
    <3>3. AnnouncedIsTracked'
      BY <1>T, <2>1, <2>2, <3>1, <3>2, TrackedStays
    <3> QED BY <1>T, <2>1, <3>3 DEF Tracking
  <2>5. ticker.cur[p] \in 0..MaxRev
    BY DEF TypeOK, Tickers
  <2>6. \A k \in {"opened", "updated"} :
          Event(k, p, ticker.cur[p]) \in Events /\ Event(k, p, ticker.cur[p]).pr = p
    BY <2>5 DEF Event, Events
  <2>7. \/ rx' = rx /\ ~FirstInSession(p)
        \/ \E k \in {"opened", "updated"} :
             rx' = Publish(rx, Subscribers, Event(k, p, ticker.cur[p]))
    BY <1>7, Zenon DEF ScanPr
  <2> QED BY <2>3, <2>4, <2>6, <2>7, Zenon
<1>8. ASSUME NEW p \in PRs, ScanClosed(p) PROVE Tracking'
  <2>1. /\ ticker.pc = "scan" /\ p \in ticker.todo /\ \A q \in ticker.todo : ~Listed(q)
        /\ UNCHANGED << watcher, coord, monIds >>
        /\ ticker' = [ticker EXCEPT !.todo = @ \ {p}]
        /\ rx' = Publish(rx, Subscribers, Event("closed", p, NoRev))
    BY <1>8 DEF ScanClosed
  <2>2. Event("closed", p, NoRev) \in Events
    BY ShepherdAssumption DEF Event, Events, NoRev
  <2>3. ticker'.cur = ticker.cur /\ ticker'.todo = ticker.todo \ {p} /\ ticker'.pc = ticker.pc
    BY <2>1, Zenon DEF TypeOK, Tickers
  <2>4. \A q \in PRs : Announced(q)' => Announced(q)
    BY <2>1, <2>3 DEF Announced, Listed
  <2>5. CoordHealthy' => CoordHealthy /\ Pending(rx[0]) \subseteq Pending(rx'[0])
    BY <2>1, <2>2, PublishTracks
  <2>6. AnnouncedIsTracked'
    BY <1>T, <2>1, <2>4, <2>5, TrackedStays
  <2> QED BY <1>T, <2>1, <2>6 DEF Tracking
<1>9. CASE ScanDone
  <2>1. \A p \in PRs : Announced(p)' => Announced(p)
    <3>1. watcher'.seen = ticker.cur /\ ticker'.pc = "idle" /\ ticker.pc = "scan" /\ ticker.todo = {}
      BY <1>9 DEF ScanDone, TypeOK, Watchers, IdleTicker
    <3> QED BY <3>1 DEF Announced, Listed
  <2> QED BY <1>1, <1>9, <2>1 DEF ScanDone
<1>10. CASE CoordRecv
  <2>1. CASE rx[0].lagged
    <3>1. coord'.pc = "dead"
      BY <1>10, <2>1, Zenon DEF CoordRecv, IdleCoord
    <3> QED BY <3>1 DEF Tracking, AnnouncedIsTracked, CoordHealthy
  <2>2. CASE ~rx[0].lagged
    <3> DEFINE ev == Head(rx[0].buf)
    <3>1. /\ coord.pc = "recv" /\ rx[0].buf # << >> /\ rx' = [rx EXCEPT ![0] = Pop(@)]
          /\ coord' = IF monIds[ev.pr] # 0 THEN coord ELSE [coord EXCEPT !.pc = "ensure", !.ev = ev]
          /\ UNCHANGED << monIds, watcher, ticker >>
      BY <1>10, <2>2 DEF CoordRecv
    <3>2. rx[0] \in Receivers(Events) /\ rx'[0] = Pop(rx[0])
      BY <1>N, <3>1
    <3>3. Pending(rx[0]) = Pending(rx'[0]) \cup {ev}
      BY <3>1, <3>2, PopPending
    <3>4. CASE monIds[ev.pr] # 0
      <4>1. \A p \in PRs : Tracked(p) => Tracked(p)'
        BY <3>1, <3>3, <3>4 DEF Tracked, CoordOnEvent
      <4>2. \A p \in PRs : Announced(p)' => Announced(p)
        BY <3>1 DEF Announced, Listed
      <4>3. CoordHealthy
        BY <2>2, <3>1 DEF CoordHealthy
      <4> QED BY <1>T, <3>1, <3>4, <4>1, <4>2, <4>3 DEF Tracking, AnnouncedIsTracked
    <3>5. CASE monIds[ev.pr] = 0
      <4>1. coord'.pc = "ensure" /\ coord'.ev = ev
        <5>1. coord' = [coord EXCEPT !.pc = "ensure", !.ev = ev]
          BY <3>1, <3>5
        <5> QED BY <1>N, <5>1, Zenon DEF Coords
      <4>2. \A p \in PRs : Tracked(p) => Tracked(p)'
        BY <3>1, <3>3, <4>1 DEF Tracked, CoordOnEvent
      <4>3. \A p \in PRs : Announced(p)' => Announced(p)
        BY <3>1 DEF Announced, Listed
      <4>4. CoordHealthy
        BY <2>2, <3>1 DEF CoordHealthy
      <4> QED BY <1>T, <4>1, <4>2, <4>3, <4>4 DEF Tracking, AnnouncedIsTracked
    <3> QED BY <3>4, <3>5
  <2> QED BY <2>1, <2>2
<1>11. CASE CoordEnsure
  <2>1. /\ rx'[0] = rx[0] /\ coord.pc = "ensure"
        /\ coord' = [coord EXCEPT !.pc = "insert", !.id = N + 1]
        /\ UNCHANGED << monIds, watcher, ticker >>
    BY <1>11, <1>N DEF CoordEnsure, CreateMonitor
  <2>2. coord'.pc = "insert" /\ coord'.id # 0 /\ coord'.ev = coord.ev
    BY <1>N, <2>1 DEF Coords
  <2> QED BY <1>T, <2>1, <2>2
          DEF Tracking, AnnouncedIsTracked, CoordHealthy, Announced, Listed, Tracked, CoordOnEvent
<1>12. CASE CoordInsert
  <2>1. /\ monIds' = [monIds EXCEPT ![coord.ev.pr] = coord.id] /\ coord.pc = "insert"
        /\ coord'.pc = "replay" /\ coord'.ev = coord.ev
        /\ UNCHANGED << rx, watcher, ticker >>
    BY <1>12, <1>N DEF CoordInsert, Coords
  <2>2. coord.ev.pr \in PRs /\ coord.id # 0
    BY <1>T, <2>1 DEF TypeOK, CoordOnEvent, Events
  <2>3. monIds'[coord.ev.pr] # 0 /\ \A p \in PRs : monIds[p] # 0 => monIds'[p] # 0
    BY <1>N, <2>1, <2>2
  <2> QED BY <1>T, <2>1, <2>3
          DEF Tracking, AnnouncedIsTracked, CoordHealthy, Announced, Listed, Tracked, CoordOnEvent
<1>13. CASE CoordReplay
  <2>1. /\ coord.pc = "replay" /\ coord.ev \in Events /\ coord'.pc = "recv"
        /\ rx' = Publish(rx, Subscribers, coord.ev) /\ UNCHANGED << monIds, watcher, ticker >>
    BY <1>13 DEF CoordReplay, IdleCoord, TypeOK, CoordOnEvent
  <2>2. ASSUME CoordHealthy'
        PROVE  CoordHealthy /\ Pending(rx[0]) \subseteq Pending(rx'[0])
    <3>1. 0 \in Subscribers /\ rx'[0] = Offer(rx[0], coord.ev)
      BY <1>N, <2>1 DEF Subscribers, Publish
    <3> QED BY <1>N, <2>1, <2>2, <3>1, OfferKeeps DEF CoordHealthy
  <2> QED BY <1>T, <2>1, <2>2
          DEF Tracking, AnnouncedIsTracked, Announced, Listed, Tracked, CoordOnEvent
<1>14. ASSUME NEW i \in 1..N, MonitorStep(i) PROVE Tracking'
  <2>1. /\ UNCHANGED << monIds, coord, watcher >> /\ rx'[0] = rx[0]
        /\ ticker'.pc # "scan" /\ ticker.pc # "scan"
    BY <1>14, SamePrs, Zenon
  <2> QED BY <1>1, <2>1 DEF Announced
<1>15. CASE Crash
  <2>1. coord'.pc = "recv" /\ \A p \in PRs : ~Announced(p)'
    BY <1>15 DEF Crash, IdleCoord, IdleTicker, Unseen, Announced
  <2> QED BY <2>1 DEF Tracking, AnnouncedIsTracked
<1>16. CASE UNCHANGED vars
  BY <1>1, <1>16 DEF vars, Announced, Listed
<1> QED
  BY <1>2, <1>3, <1>4, <1>5, <1>6, <1>7, <1>8, <1>9, <1>10, <1>11, <1>12, <1>13,
     <1>14, <1>15, <1>16 DEF Next, Coordinator, ScanStep

(* As long as the coordinator has not lagged behind the bus, every PR the  *)
(* watcher has announced has a monitor or an event on its way to give it   *)
(* one: whatever the order of polls, replays, failed records, task/adds    *)
(* and crashes, and for every number of PRs and capacity of the channel.   *)
THEOREM NothingForgotten == Spec => []AnnouncedIsTracked
<1>1. Init => Tracking
  BY DEF Init, Tracking, AnnouncedIsTracked, Announced, IdleCoord, IdleTicker, Unseen
<1>2. Tracking => AnnouncedIsTracked
  BY DEF Tracking
<1> QED BY <1>1, <1>2, TrackingStep, TypeCorrect, PTL DEF Spec

-----------------------------------------------------------------------------
(* What events say. *)

ReopenFree == "reopen" \notin Env

(* A monitor may give up on this PR.                                       *)
Gone(p) == host[p].state = "closed" \/ p \in missed

(* What an event says, of a code host that has moved on since.             *)
Truth(ev) ==
  /\ ev.rev <= host[ev.pr].rev
  /\ host[ev.pr].state # "absent"
  /\ ReopenFree /\ ev.kind = "closed" => Gone(ev.pr)

(* last_seen and the list of the poll in progress were the host's; a PR    *)
(* that dropped out of the list is closed, or the listing missed it.       *)
WatcherTrue ==
  \A p \in PRs :
    /\ watcher.seen[p] <= host[p].rev /\ ticker.cur[p] <= host[p].rev
    /\ watcher.seen[p] # NoRev \/ ticker.cur[p] # NoRev => host[p].state # "absent"
    /\ ticker.pc = "list" /\ p \notin ticker.todo =>
         (ReopenFree /\ watcher.seen[p] # NoRev /\ ~Listed(p) => Gone(p))
    /\ ticker.pc = "scan" =>
         /\ p \in ticker.todo => watcher.seen[p] # NoRev \/ Listed(p)
         /\ ReopenFree /\ watcher.seen[p] # NoRev /\ ~Listed(p) => Gone(p)

NewsTrue ==
  /\ \A s \in DOMAIN rx : \A ev \in Pending(rx[s]) : Truth(ev)
  /\ CoordOnEvent => Truth(coord.ev)

MonitorTrue(i) ==
  /\ monitors[i].last <= host[monitors[i].pr].rev
  /\ ReopenFree /\ monitors[i].done => Gone(monitors[i].pr)

MonitorsTrue ==
  /\ \A i \in 1..Len(monitors) : MonitorTrue(i)
  /\ ticker.pc = "get" => host[monitors[ticker.mon].pr].state # "absent"
  /\ ticker.pc = "prompt" => ticker.rev >= monitors[ticker.mon].last

NewsInv == WatcherTrue /\ NewsTrue /\ MonitorsTrue

-----------------------------------------------------------------------------
(* The setting of EachEventOnce. *)
Plain == Faults \cap {"record", "short", "twice"} = {} /\ Env \cap {"unwatch", "reopen", "task_add"} = {}

(* The watcher will not publish this event again in its session.           *)
Spent(ev) ==
  CASE ev.kind = "opened" ->
         \/ Announced(ev.pr)
         \/ /\ host[ev.pr].state = "closed"
            /\ ~(ticker.pc = "list" /\ Listed(ev.pr))
            /\ ~(ticker.pc = "scan" /\ Listed(ev.pr) /\ ev.pr \in ticker.todo)
    [] ev.kind = "updated" -> LedgerKey(ev.pr, ev.rev) \in ledger
    [] ev.kind = "closed" ->
         /\ host[ev.pr].state = "closed"
         /\ IF ticker.pc = "scan"
              THEN ev.pr \notin ticker.todo /\ ~Listed(ev.pr)
              ELSE watcher.seen[ev.pr] = NoRev /\ ~(ticker.pc = "list" /\ Listed(ev.pr))

NewsSpent ==
  /\ missed = {}
  /\ ~watcher.on => watcher.seen = Unseen /\ ticker.pc \notin {"list", "scan"}
  /\ \A s \in DOMAIN rx : \A ev \in Pending(rx[s]) : Spent(ev)
  /\ CoordOnEvent => Spent(coord.ev)
  /\ \A i \in 1..Len(monitors) : \A ev \in monitors[i].heard : Spent(ev)

(* A receiver of a monitor of PR p that has heard some events.             *)
NoRepeat(r, p, heard) ==
  \A n \in DOMAIN r.buf : r.buf[n].pr = p =>
    /\ r.buf[n] \notin heard
    /\ \A m \in DOMAIN r.buf : m # n => r.buf[m] # r.buf[n]

Told(i, ev) == ev \in Pending(rx[i]) \cup monitors[i].heard

(* What the coordinator is about to replay, no monitor of the PR was told. *)
ReplayIsNews ==
  /\ \A i \in 1..Len(monitors) : NoRepeat(rx[i], monitors[i].pr, monitors[i].heard)
  /\ CoordOnEvent =>
       \A i \in 1..Len(monitors) : monitors[i].pr = coord.ev.pr => ~Told(i, coord.ev)

OnceInv == Plain => Registered /\ NewsSpent /\ ReplayIsNews

-----------------------------------------------------------------------------
(* How a step moves events and changes monitors. *)

(* The event a step of the watcher's poll publishes.                       *)
ScanNews(ev) ==
  \E p \in PRs :
    \/ /\ ScanPr(p)
       /\ FirstInSession(p) \/ ~Already(p)
       /\ ev = Event(IF FirstInSession(p) THEN "opened" ELSE "updated", p, ticker.cur[p])
    \/ ScanClosed(p) /\ ev = Event("closed", p, NoRev)

Replays(ev) == CoordReplay /\ ev = coord.ev

(* What a step makes of a receiver's queue.                                *)
Flow(s) ==
  \/ rx'[s].buf = rx[s].buf
  \/ rx'[s] = Subscribed
  \/ rx[s].buf # << >> /\ rx'[s] = Pop(rx[s])
  \/ \E ev \in Events : (ScanNews(ev) \/ Replays(ev)) /\ rx'[s] = Offer(rx[s], ev)

(* A monitor takes the event at the head of its queue to heart, or gives   *)
(* up, or is left as it was but for the diff it reviewed.                  *)
Same(i) ==
  /\ monitors'[i].last = monitors[i].last /\ monitors'[i].done = monitors[i].done
  /\ monitors'[i].heard = monitors[i].heard

Hears(i) ==
  LET ev == Head(rx[i].buf)
  IN  /\ rx[i].buf # << >> /\ rx'[i] = Pop(rx[i])
      /\ ev.pr = monitors[i].pr
      /\ monitors'[i].last = ev.rev /\ monitors'[i].done = monitors[i].done
      /\ monitors'[i].heard = monitors[i].heard \cup {ev}

GivesUp(i) ==
  /\ rx'[i] = Subscribed
  /\ monitors'[i].last = monitors[i].last /\ monitors'[i].heard = monitors[i].heard
  /\ \/ ticker.pc = "get" /\ ticker.mon = i /\ host[monitors[i].pr].state # "open"
     \/ \E ev \in Pending(rx[i]) : ev.kind = "closed" /\ ev.pr = monitors[i].pr

(* The registry grows by at most one monitor, which was told nothing.      *)
Joins ==
  \/ Len(monitors') = Len(monitors) /\ DOMAIN rx' = DOMAIN rx
  \/ LET n == Len(monitors) + 1
     IN  /\ Len(monitors') = n
         /\ DOMAIN rx' = 0..n
         /\ rx'[n] = Subscribed
         /\ monitors'[n].last = NoRev /\ ~monitors'[n].done /\ monitors'[n].heard = {}
         /\ \/ "task_add" \in Env
            \/ coord.pc = "ensure" /\ monitors'[n].pr = coord.ev.pr

(* Facts of the types that are used over and over.                         *)
LEMMA Shapes ==
  ASSUME TypeOK
  PROVE  /\ Len(monitors) \in Nat /\ monitors \in Seq(MonitorTasks)
         /\ DOMAIN rx = 0..Len(monitors)
         /\ \A s \in DOMAIN rx : rx[s] \in Receivers(Events)
         /\ \A i \in 1..Len(monitors) :
              /\ monitors[i] \in MonitorTasks /\ monitors[i].pr \in PRs
              /\ monitors[i].last \in Nat /\ monitors[i].heard \subseteq Events
              /\ monitors[i].done \in BOOLEAN
         /\ \A p \in PRs : /\ host[p].rev \in Nat /\ watcher.seen[p] \in Nat
                           /\ ticker.cur[p] \in Nat
                           /\ host[p].state \in {"absent", "open", "closed"}
         /\ TickerOnMonitor => ticker.mon \in 1..Len(monitors)
         /\ ticker.rev \in Nat
         /\ CoordOnEvent => coord.ev \in Events
<1>1. Len(monitors) \in Nat /\ monitors \in Seq(MonitorTasks)
  BY DEF TypeOK
<1>2. \A i \in 1..Len(monitors) : monitors[i] \in MonitorTasks
  BY <1>1
<1>3. \A i \in 1..Len(monitors) : /\ monitors[i].pr \in PRs
                                  /\ monitors[i].last \in Nat /\ monitors[i].heard \subseteq Events
                                  /\ monitors[i].done \in BOOLEAN
  BY <1>2, ShepherdAssumption DEF MonitorTasks
<1>4. \A p \in PRs : /\ host[p].rev \in Nat /\ watcher.seen[p] \in Nat
                     /\ ticker.cur[p] \in Nat
                     /\ host[p].state \in {"absent", "open", "closed"}
  BY ShepherdAssumption DEF TypeOK, HostStates, Watchers, Tickers, Revs
<1>5. ticker.mon \in 0..Len(monitors) /\ ticker.rev \in Nat
  BY ShepherdAssumption DEF TypeOK, Tickers
<1>6. TickerOnMonitor => ticker.mon \in 1..Len(monitors)
  BY <1>1, <1>5 DEF TypeOK
<1> QED
  BY <1>1, <1>2, <1>3, <1>4, <1>5, <1>6 DEF TypeOK

(* An event has a PR, a kind and a state.                                  *)
LEMMA EventParts ==
  /\ \A ev \in Events : /\ ev.pr \in PRs /\ ev.rev \in Nat
                        /\ ev.kind \in {"opened", "updated", "closed"}
  /\ \A p \in PRs, r \in 0..MaxRev : \A k \in {"opened", "updated", "closed"} :
       LET ev == Event(k, p, r)
       IN  ev \in Events /\ ev.kind = k /\ ev.pr = p /\ ev.rev = r
BY ShepherdAssumption DEF Events, Event

(* What is pending is an event; offering adds one, reading takes one away. *)
LEMMA QueueParts ==
  ASSUME NEW r \in Receivers(Events)
  PROVE  /\ Pending(r) \subseteq Events
         /\ Pending(Subscribed) = {}
         /\ r.buf # << >> => /\ Head(r.buf) \in Pending(r)
                             /\ Pending(Pop(r)) \subseteq Pending(r)
         /\ \A ev : Pending(Offer(r, ev)) \subseteq Pending(r) \cup {ev}
<1>1. r.buf \in Seq(Events) /\ r = [buf |-> r.buf, lagged |-> r.lagged]
  BY DEF Receivers
<1>2. Pending(r) \subseteq Events
  BY <1>1 DEF Pending
<1>3. Pending(Subscribed) = {}
  BY DEF Pending, Subscribed
<1>4. r.buf # << >> => /\ Head(r.buf) \in Pending(r)
                       /\ Pending(Pop(r)) \subseteq Pending(r)
  BY PopPending
<1>5. ASSUME NEW ev PROVE Pending(Offer(r, ev)) \subseteq Pending(r) \cup {ev}
  <2>1. ASSUME NEW q \in Seq(Events)
        PROVE  {Append(q, ev)[n] : n \in DOMAIN Append(q, ev)} \subseteq {q[n] : n \in DOMAIN q} \cup {ev}
    OBVIOUS
  <2>2. CASE Len(r.buf) < BusCap
    <3>1. Offer(r, ev).buf = Append(r.buf, ev)
      BY <1>1, <2>2 DEF Offer
    <3> QED BY <1>1, <2>1, <3>1 DEF Pending
  <2>3. CASE ~(Len(r.buf) < BusCap)
    <3>1. r.buf # << >> /\ Tail(r.buf) \in Seq(Events)
      BY <1>1, <2>3, BusCapAssumption
    <3>2. Offer(r, ev).buf = Append(Tail(r.buf), ev)
      BY <1>1, <2>3 DEF Offer
    <3>3. {Tail(r.buf)[n] : n \in DOMAIN Tail(r.buf)} \subseteq {r.buf[n] : n \in DOMAIN r.buf}
      BY <1>1, <3>1
    <3> QED BY <1>1, <2>1, <3>1, <3>2, <3>3 DEF Pending
  <2> QED BY <2>2, <2>3
<1> QED
  BY <1>2, <1>3, <1>4, <1>5

(* A step of a monitor's poll.                                             *)
LEMMA PollFlow ==
  ASSUME TypeOK, NEW i \in 1..Len(monitors), MonitorStep(i)
  PROVE  /\ Len(monitors') = Len(monitors) /\ DOMAIN rx' = DOMAIN rx
         /\ \A s \in DOMAIN rx : Flow(s)
         /\ \A j \in 1..Len(monitors) : /\ monitors'[j].pr = monitors[j].pr
                                        /\ Same(j) \/ Hears(j) \/ GivesUp(j)
         /\ coord' = coord
<1> DEFINE N == Len(monitors)
<1>1. /\ N \in Nat /\ monitors \in Seq(MonitorTasks) /\ DOMAIN rx = 0..N
      /\ \A s \in DOMAIN rx : rx[s] \in Receivers(Events)
      /\ monitors[i] \in MonitorTasks /\ i \in DOMAIN rx /\ i \in DOMAIN monitors
      /\ rx \in [0..N -> Receivers(Events)]
  BY Shapes DEF TypeOK
<1>2. ASSUME NEW m \in MonitorTasks, monitors' = [monitors EXCEPT ![i] = m]
      PROVE  /\ Len(monitors') = N /\ monitors'[i] = m
             /\ \A j \in 1..N : j # i => monitors'[j] = monitors[j]
  BY <1>1, <1>2
<1>3. ASSUME NEW r, rx' = [rx EXCEPT ![i] = r]
      PROVE  /\ DOMAIN rx' = DOMAIN rx /\ rx'[i] = r
             /\ \A s \in DOMAIN rx : s # i => Flow(s)
  BY <1>1, <1>3 DEF Flow
<1>4. coord' = coord
  BY DEF MonitorStep, MonPoll, MonDrain, MonGetPr, MonGetDiff, MonPrompt
<1>5. ASSUME UNCHANGED << rx, monitors >>
      PROVE  /\ Len(monitors') = N /\ DOMAIN rx' = DOMAIN rx
             /\ \A s \in DOMAIN rx : Flow(s)
             /\ \A j \in 1..N : monitors'[j].pr = monitors[j].pr /\ Same(j)
  BY <1>5 DEF Flow, Same
<1>6. ASSUME UNCHANGED monitors, NEW r, rx' = [rx EXCEPT ![i] = r],
             r.buf = rx[i].buf \/ (rx[i].buf # << >> /\ r = Pop(rx[i]))
      PROVE  /\ Len(monitors') = N /\ DOMAIN rx' = DOMAIN rx
             /\ \A s \in DOMAIN rx : Flow(s)
             /\ \A j \in 1..N : monitors'[j].pr = monitors[j].pr /\ Same(j)
  <2>1. Flow(i)
    BY <1>3, <1>6 DEF Flow
  <2> QED
    BY <1>3, <1>6, <2>1 DEF Same
<1>7. ASSUME Complete(i),
             \/ ticker.pc = "get" /\ ticker.mon = i /\ host[monitors[i].pr].state # "open"
             \/ \E ev \in Pending(rx[i]) : ev.kind = "closed" /\ ev.pr = monitors[i].pr
      PROVE  /\ Len(monitors') = N /\ DOMAIN rx' = DOMAIN rx
             /\ \A s \in DOMAIN rx : Flow(s)
             /\ \A j \in 1..N : monitors'[j].pr = monitors[j].pr /\ (Same(j) \/ GivesUp(j))
  <2> DEFINE m == [monitors[i] EXCEPT !.done = TRUE]
  <2>1. m \in MonitorTasks /\ m.pr = monitors[i].pr /\ m.last = monitors[i].last
        /\ m.heard = monitors[i].heard
    BY <1>1 DEF MonitorTasks
  <2>2. monitors' = [monitors EXCEPT ![i] = m] /\ rx' = [rx EXCEPT ![i] = Subscribed]
    BY <1>7, Zenon DEF Complete
  <2> HIDE DEF m
  <2>3. Len(monitors') = N /\ monitors'[i] = m /\ \A j \in 1..N : j # i => monitors'[j] = monitors[j]
    BY <1>2, <2>1, <2>2
  <2>4. DOMAIN rx' = DOMAIN rx /\ rx'[i] = Subscribed /\ \A s \in DOMAIN rx : s # i => Flow(s)
    BY <1>3, <2>2
  <2>5. GivesUp(i)
    BY <1>7, <2>1, <2>3, <2>4 DEF GivesUp
  <2> QED
    BY <2>1, <2>3, <2>4, <2>5 DEF Flow, Same
<1>8. CASE MonPoll(i)
  BY <1>4, <1>5, <1>8 DEF MonPoll
<1>9. CASE MonDrain(i)
  <2>1. CASE UNCHANGED << rx, monitors >>
    BY <1>4, <1>5, <2>1
  <2>2. CASE rx' = [rx EXCEPT ![i].lagged = FALSE] /\ UNCHANGED monitors
    <3>1. [rx[i] EXCEPT !.lagged = FALSE].buf = rx[i].buf
      BY <1>1 DEF Receivers
    <3>2. rx' = [rx EXCEPT ![i] = [rx[i] EXCEPT !.lagged = FALSE]]
      BY <2>2, Zenon
    <3> QED BY <1>4, <1>6, <2>2, <3>1, <3>2
  <2>3. CASE ~rx[i].lagged /\ rx[i].buf # << >>
    <3> DEFINE ev == Head(rx[i].buf)
    <3>1. ev \in Events /\ ev \in Pending(rx[i])
      BY <1>1, <2>3, QueueParts
    <3>2. CASE rx' = [rx EXCEPT ![i] = Pop(@)] /\ UNCHANGED monitors
      <4>1. rx' = [rx EXCEPT ![i] = Pop(rx[i])]
        BY <3>2, Zenon
      <4> QED BY <1>4, <1>6, <2>3, <3>2, <4>1
    <3>3. CASE Matches(i, ev) /\ ev.kind = "closed" /\ Complete(i)
      BY <1>4, <1>7, <3>1, <3>3 DEF Matches
    <3>4. CASE /\ Matches(i, ev)
               /\ rx' = [rx EXCEPT ![i] = Pop(@)]
               /\ monitors' = [monitors EXCEPT ![i].last = ev.rev, ![i].heard = @ \cup {ev}]
      <4> DEFINE m == [monitors[i] EXCEPT !.last = ev.rev, !.heard = @ \cup {ev}]
      <4>1. monitors' = [monitors EXCEPT ![i] = m]
        BY <3>4, Zenon
      <4>2. m \in MonitorTasks /\ m.pr = monitors[i].pr /\ m.last = ev.rev
            /\ m.done = monitors[i].done /\ m.heard = monitors[i].heard \cup {ev}
        <5>1. \A e \in Events : /\ [monitors[i] EXCEPT !.last = e.rev, !.heard = @ \cup {e}] \in MonitorTasks
                                /\ [monitors[i] EXCEPT !.last = e.rev, !.heard = @ \cup {e}].pr = monitors[i].pr
                                /\ [monitors[i] EXCEPT !.last = e.rev, !.heard = @ \cup {e}].last = e.rev
                                /\ [monitors[i] EXCEPT !.last = e.rev, !.heard = @ \cup {e}].done = monitors[i].done
                                /\ [monitors[i] EXCEPT !.last = e.rev, !.heard = @ \cup {e}].heard
                                      = monitors[i].heard \cup {e}
          <6>1. ASSUME NEW e \in Events PROVE e.rev \in 0..MaxRev /\ monitors[i].heard \cup {e} \in SUBSET Events
            BY <1>1 DEF Events, MonitorTasks
          <6> QED BY <1>1, <6>1 DEF MonitorTasks
        <5> QED BY <3>1, <5>1
      <4>3. rx' = [rx EXCEPT ![i] = Pop(rx[i])]
        BY <3>4, Zenon
      <4> HIDE DEF m
      <4>4. Len(monitors') = N /\ monitors'[i] = m /\ \A j \in 1..N : j # i => monitors'[j] = monitors[j]
        BY <1>2, <4>1, <4>2
      <4>5. DOMAIN rx' = DOMAIN rx /\ rx'[i] = Pop(rx[i]) /\ \A s \in DOMAIN rx : s # i => Flow(s)
        BY <1>3, <4>3
      <4>6. Hears(i) /\ Flow(i)
        BY <2>3, <3>4, <4>2, <4>4, <4>5 DEF Hears, Flow, Matches
      <4> QED
        BY <1>4, <4>2, <4>4, <4>5, <4>6 DEF Same
    <3>5. \/ rx' = [rx EXCEPT ![i] = Pop(@)] /\ UNCHANGED monitors
          \/ Matches(i, ev) /\ ev.kind = "closed" /\ Complete(i)
          \/ /\ Matches(i, ev)
             /\ rx' = [rx EXCEPT ![i] = Pop(@)]
             /\ monitors' = [monitors EXCEPT ![i].last = ev.rev, ![i].heard = @ \cup {ev}]
          \/ UNCHANGED << rx, monitors >>
          \/ rx' = [rx EXCEPT ![i].lagged = FALSE] /\ UNCHANGED monitors
      BY <1>9, Zenon DEF MonDrain
    <3> HIDE DEF ev
    <3> QED
      BY <2>1, <2>2, <3>2, <3>3, <3>4, <3>5
  <2> QED
    BY <1>9, <2>1, <2>2, <2>3 DEF MonDrain
<1>10. CASE MonGetPr(i)
  BY <1>4, <1>5, <1>7, <1>10 DEF MonGetPr
<1>11. CASE MonGetDiff(i)
  BY <1>4, <1>5, <1>11 DEF MonGetDiff
<1>12. CASE MonPrompt(i)
  <2>1. CASE UNCHANGED monitors
    BY <1>4, <1>5, <1>12, <2>1 DEF MonPrompt
  <2>2. CASE monitors' = [monitors EXCEPT ![i].reviewed = ticker.rev] /\ UNCHANGED rx
    <3> DEFINE m == [monitors[i] EXCEPT !.reviewed = ticker.rev]
    <3>1. ticker.rev \in 0..MaxRev
      BY DEF TypeOK, Tickers
    <3>2. m \in MonitorTasks /\ m.pr = monitors[i].pr /\ m.last = monitors[i].last
          /\ m.done = monitors[i].done /\ m.heard = monitors[i].heard
      BY <1>1, <3>1 DEF MonitorTasks
    <3>3. monitors' = [monitors EXCEPT ![i] = m]
      BY <2>2, Zenon
    <3> HIDE DEF m
    <3>4. Len(monitors') = N /\ monitors'[i] = m /\ \A j \in 1..N : j # i => monitors'[j] = monitors[j]
      BY <1>2, <3>2, <3>3
    <3> QED
      BY <1>4, <2>2, <3>2, <3>4 DEF Flow, Same
  <2> QED
    BY <1>12, <2>1, <2>2 DEF MonPrompt
<1> QED
  BY <1>8, <1>9, <1>10, <1>11, <1>12 DEF MonitorStep

(* A step that creates a monitor.                                          *)
LEMMA JoinFlow ==
  ASSUME TypeOK, NEW p \in PRs, NEW here \in BOOLEAN, CreateMonitor(p, here),
         "task_add" \in Env \/ (coord.pc = "ensure" /\ p = coord.ev.pr)
  PROVE  /\ Joins
         /\ \A s \in DOMAIN rx : Flow(s)
         /\ \A j \in 1..Len(monitors) : monitors'[j] = monitors[j]
<1> DEFINE N == Len(monitors)
<1>1. N \in Nat /\ monitors \in Seq(MonitorTasks) /\ DOMAIN rx = 0..N
  BY Shapes
<1> DEFINE m == Monitor(p, here)
<1>2. /\ m \in MonitorTasks /\ m.pr = p /\ m.last = NoRev /\ ~m.done /\ m.heard = {}
  BY ShepherdAssumption DEF Monitor, NoRev, MonitorTasks
<1>3. monitors' = Append(monitors, m)
  BY DEF CreateMonitor
<1> HIDE DEF m
<1>4. Len(monitors') = N + 1 /\ monitors'[N + 1] = m /\ \A j \in 1..N : monitors'[j] = monitors[j]
  BY <1>1, <1>2, <1>3
<1>5. /\ DOMAIN rx' = 0..N + 1 /\ rx'[N + 1] = Subscribed
      /\ \A s \in DOMAIN rx : rx'[s] = rx[s]
  BY <1>1 DEF CreateMonitor
<1> QED
  BY <1>2, <1>4, <1>5 DEF Joins, Flow

(* Every step but a crash.                                                 *)
LEMMA StepFlow ==
  ASSUME TypeOK, [Next]_vars
  PROVE  \/ Crash
         \/ /\ Joins
            /\ \A s \in DOMAIN rx : Flow(s)
            /\ \A j \in 1..Len(monitors) : /\ monitors'[j].pr = monitors[j].pr
                                           /\ Same(j) \/ Hears(j) \/ GivesUp(j)
<1> DEFINE Flows == /\ Joins
                    /\ \A s \in DOMAIN rx : Flow(s)
                    /\ \A j \in 1..Len(monitors) : /\ monitors'[j].pr = monitors[j].pr
                                                   /\ Same(j) \/ Hears(j) \/ GivesUp(j)
<1>1. /\ DOMAIN rx = 0..Len(monitors) /\ Len(monitors) \in Nat
      /\ \A s \in DOMAIN rx : rx[s] \in Receivers(Events)
      /\ CoordOnEvent => coord.ev \in Events /\ coord.ev.pr \in PRs
  BY Shapes, EventParts
<1>2. ASSUME UNCHANGED << rx, monitors >> PROVE Flows
  BY <1>2 DEF Joins, Flow, Same
<1>3. ASSUME NEW ev \in Events, ScanNews(ev) \/ Replays(ev), rx' = Publish(rx, Subscribers, ev),
             UNCHANGED monitors
      PROVE  Flows
  <2>1. DOMAIN rx' = DOMAIN rx
    BY <1>3 DEF Publish
  <2>2. ASSUME NEW s \in DOMAIN rx PROVE Flow(s)
    BY <1>3 DEF Publish, Flow
  <2> QED
    BY <1>3, <2>1, <2>2 DEF Joins, Same
<1>4. ASSUME NEW p \in PRs, NEW here \in BOOLEAN, CreateMonitor(p, here),
             "task_add" \in Env \/ (coord.pc = "ensure" /\ p = coord.ev.pr)
      PROVE  Flows
  BY <1>4, JoinFlow DEF Same
<1>5. ASSUME NEW p \in PRs, ScanPr(p) PROVE Flows
  <2>1. ticker.cur[p] \in 0..MaxRev
    BY DEF TypeOK, Tickers
  <2> DEFINE ev == Event(IF FirstInSession(p) THEN "opened" ELSE "updated", p, ticker.cur[p])
  <2>2. ev \in Events
    BY <2>1, EventParts
  <2>3. \/ UNCHANGED << rx, monitors >>
        \/ /\ FirstInSession(p) \/ ~Already(p)
           /\ rx' = Publish(rx, Subscribers, ev) /\ UNCHANGED monitors
    BY <1>5 DEF ScanPr
  <2>4. FirstInSession(p) \/ ~Already(p) => ScanNews(ev)
    BY <1>5 DEF ScanNews
  <2> HIDE DEF ev
  <2> QED
    BY <1>2, <1>3, <2>2, <2>3, <2>4
<1>6. ASSUME NEW p \in PRs, ScanClosed(p) PROVE Flows
  <2>1. Event("closed", p, NoRev) \in Events
    BY ShepherdAssumption, EventParts DEF NoRev
  <2>2. ScanNews(Event("closed", p, NoRev))
    BY <1>6 DEF ScanNews
  <2>3. rx' = Publish(rx, Subscribers, Event("closed", p, NoRev)) /\ UNCHANGED monitors
    BY <1>6 DEF ScanClosed
  <2> QED
    BY <1>3, <2>1, <2>2, <2>3
<1>7. ASSUME CoordRecv PROVE Flows
  <2>1. ASSUME NEW r, rx' = [rx EXCEPT ![0] = r], r = Subscribed \/ (rx[0].buf # << >> /\ r = Pop(rx[0]))
        PROVE  DOMAIN rx' = DOMAIN rx /\ \A s \in DOMAIN rx : Flow(s)
    BY <1>1, <2>1 DEF Flow
  <2>2. \/ rx' = [rx EXCEPT ![0] = Subscribed]
        \/ rx[0].buf # << >> /\ rx' = [rx EXCEPT ![0] = Pop(rx[0])]
    BY <1>7, Zenon DEF CoordRecv
  <2>3. monitors' = monitors
    BY <1>7 DEF CoordRecv
  <2> QED
    BY <2>1, <2>2, <2>3 DEF Joins, Same
<1>8. ASSUME CoordEnsure PROVE Flows
  <2>1. coord.pc = "ensure" /\ coord.ev.pr \in PRs
    BY <1>1, <1>8 DEF CoordEnsure, CoordOnEvent
  <2>2. Names(ShortForm(coord.ev.pr), coord.ev.pr) \in BOOLEAN
    BY DEF Names
  <2>3. CreateMonitor(coord.ev.pr, Names(ShortForm(coord.ev.pr), coord.ev.pr))
    BY <1>8 DEF CoordEnsure
  <2> QED
    BY <1>4, <2>1, <2>2, <2>3
<1>9. ASSUME CoordReplay PROVE Flows
  <2>1. coord.ev \in Events
    BY <1>1, <1>9 DEF CoordReplay, CoordOnEvent
  <2> QED
    BY <1>3, <1>9, <2>1 DEF CoordReplay, Replays
<1>10. ASSUME NEW p \in PRs, TaskAdd(p) PROVE Flows
  <2>1. CreateMonitor(p, TRUE) /\ "task_add" \in Env
    BY <1>10 DEF TaskAdd
  <2> QED
    BY <1>4, <2>1
<1>11. ASSUME NEW i \in 1..Len(monitors), MonitorStep(i) PROVE Flows
  BY <1>11, PollFlow DEF Joins
<1>12. ASSUME HostStep \/ Watch \/ Unwatch \/ TaskAddInsert \/ ListOpenPrs \/ ListingStep
              \/ ScanDone \/ CoordInsert \/ UNCHANGED vars
       PROVE  UNCHANGED << rx, monitors >>
  BY <1>12
     DEF HostStep, Watch, Unwatch, TaskAddInsert, ListOpenPrs, ListingStep, ReadListing, EndListing,
         ScanDone, CoordInsert, vars
<1> HIDE DEF Flows
<1>13. ScanStep \/ Coordinator => Flows
  BY <1>2, <1>5, <1>6, <1>7, <1>8, <1>9, <1>12 DEF ScanStep, Coordinator
<1>14. Crash \/ Flows
  BY <1>2, <1>10, <1>11, <1>12, <1>13 DEF Next
<1> QED
  BY <1>14 DEF Flows

-----------------------------------------------------------------------------
(* What events say is true. *)

(* The host only moves on.                                                 *)
LEMMA HostForward ==
  ASSUME TypeOK, [Next]_vars, NEW p \in PRs
  PROVE  /\ host[p].rev <= host'[p].rev
         /\ host[p].state # "absent" => host'[p].state # "absent"
         /\ ReopenFree /\ host[p].state = "closed" => host'[p].state = "closed"
<1>1. CASE host' = host
  <2>1. host[p].rev \in Nat
    BY Shapes
  <2> QED BY <1>1, <2>1
<1>2. CASE HostStep
  <2>1. PICK q \in PRs : OpenPr(q) \/ Push(q) \/ Close(q) \/ Reopen(q)
    BY <1>2 DEF HostStep
  <2> DEFINE H == [state : {"absent", "open", "closed"}, rev : Revs]
  <2>2. host \in [PRs -> H] /\ host[q] \in H /\ host[p].rev \in Nat
    BY Shapes DEF TypeOK, HostStates
  <2>3. ASSUME NEW h, host'[q] = h, \A x \in PRs \ {q} : host'[x] = host[x],
               host[q].rev <= h.rev, h.state # "absent",
               ReopenFree /\ host[q].state = "closed" => h.state = "closed"
        PROVE  /\ host[p].rev <= host'[p].rev
               /\ host[p].state # "absent" => host'[p].state # "absent"
               /\ ReopenFree /\ host[p].state = "closed" => host'[p].state = "closed"
    <3>1. CASE p = q
      BY <2>3, <3>1
    <3>2. CASE p # q
      BY <2>2, <2>3, <3>2
    <3> QED BY <3>1, <3>2
  <2>9. ASSUME NEW h, host' = [host EXCEPT ![q] = h]
        PROVE  host'[q] = h /\ \A x \in PRs \ {q} : host'[x] = host[x]
    <3> HIDE DEF H
    <3> QED BY <2>2, <2>9
  <2>4. host[q].rev \in Nat
    BY Shapes
  <2>5. CASE OpenPr(q)
    <3> DEFINE h == [host[q] EXCEPT !.state = "open"]
    <3>1. host' = [host EXCEPT ![q] = h] /\ host[q].state = "absent"
      BY <2>5, Zenon DEF OpenPr
    <3>2. h.state = "open"
          /\ h.rev = host[q].rev
      BY <2>2
    <3> HIDE DEF h
    <3>3. host'[q] = h /\ \A x \in PRs \ {q} : host'[x] = host[x]
      BY <2>9, <3>1
    <3>4. host[q].rev <= h.rev
      BY <2>4, <3>2
    <3> QED BY <2>3, <3>1, <3>2, <3>3, <3>4
  <2>6. CASE Push(q)
    <3> DEFINE h == [host[q] EXCEPT !.rev = @ + 1]
    <3>1. host' = [host EXCEPT ![q] = h] /\ host[q].state = "open"
      BY <2>6, Zenon DEF Push
    <3>2. h.state = host[q].state
          /\ h.rev = host[q].rev + 1
      BY <2>2
    <3> HIDE DEF h
    <3>3. host'[q] = h /\ \A x \in PRs \ {q} : host'[x] = host[x]
      BY <2>9, <3>1
    <3>4. host[q].rev <= h.rev
      BY <2>4, <3>2
    <3> QED BY <2>3, <3>1, <3>2, <3>3, <3>4
  <2>7. CASE Close(q)
    <3> DEFINE h == [host[q] EXCEPT !.state = "closed"]
    <3>1. host' = [host EXCEPT ![q] = h]
      BY <2>7, Zenon DEF Close
    <3>2. h.state = "closed"
          /\ h.rev = host[q].rev
      BY <2>2
    <3> HIDE DEF h
    <3>3. host'[q] = h /\ \A x \in PRs \ {q} : host'[x] = host[x]
      BY <2>9, <3>1
    <3>4. host[q].rev <= h.rev
      BY <2>4, <3>2
    <3> QED BY <2>3, <3>1, <3>2, <3>3, <3>4
  <2>8. CASE Reopen(q)
    <3> DEFINE h == [state |-> "open", rev |-> host[q].rev + 1]
    <3>1. host' = [host EXCEPT ![q] = h] /\ ~ReopenFree
      BY <2>8, Zenon DEF Reopen, ReopenFree
    <3>2. h.state = "open" /\ h.rev = host[q].rev + 1
      OBVIOUS
    <3> HIDE DEF h
    <3>3. host'[q] = h /\ \A x \in PRs \ {q} : host'[x] = host[x]
      BY <2>9, <3>1, Zenon
    <3>4. host[q].rev <= h.rev
      BY <2>4, <3>2
    <3> QED BY <2>3, <3>1, <3>2, <3>3, <3>4
  <2> QED BY <2>1, <2>5, <2>6, <2>7, <2>8
<1>3. HostStep \/ host' = host
  BY Zenon DEF Next, Watch, Unwatch, TaskAdd, TaskAddInsert, ListOpenPrs, ListingStep, ReadListing,
         EndListing, ScanStep, ScanPr, ScanClosed, ScanDone, Coordinator, CoordRecv, CoordEnsure,
         CoordInsert, CoordReplay, MonitorStep, MonPoll, MonDrain, MonGetPr, MonGetDiff, MonPrompt,
         Crash, vars
<1> QED
  BY <1>1, <1>2, <1>3

(* What is gone stays so, as long as the session lasts.                    *)
LEMMA GoneStays ==
  ASSUME TypeOK, [Next]_vars, ~Crash, ReopenFree, NEW p \in PRs, Gone(p)
  PROVE  Gone(p)'
<1>1. missed \subseteq missed'
  <2>1. UNCHANGED missed \/ \E q \in PRs : ReadListing(q)
    BY Zenon DEF Next, HostStep, Watch, Unwatch, TaskAdd, TaskAddInsert, ListOpenPrs, ListingStep,
           EndListing, ScanStep, ScanPr, ScanClosed, ScanDone, Coordinator, CoordRecv, CoordEnsure,
           CoordInsert, CoordReplay, MonitorStep, MonPoll, MonDrain, MonGetPr, MonGetDiff,
           MonPrompt, vars
  <2>2. ASSUME NEW q \in PRs, ReadListing(q) PROVE missed' \in {missed, missed \cup {q}}
    BY <2>2, Zenon DEF ReadListing
  <2> QED BY <2>1, <2>2
<1> QED
  BY <1>1, HostForward DEF Gone

(* What was true stays true.                                               *)
LEMMA TruthStays ==
  ASSUME TypeOK, TypeOK', [Next]_vars, ~Crash, NEW ev \in Events, Truth(ev)
  PROVE  Truth(ev)'
<1>1. ev.pr \in PRs /\ ev.rev \in Nat
  BY EventParts
<1>2. host[ev.pr].rev \in Nat /\ host'[ev.pr].rev \in Nat
  <2>1. host[ev.pr].rev \in Nat
    BY <1>1, Shapes, Zenon
  <2>2. host'[ev.pr].rev \in Revs
    BY <1>1, Zenon DEF TypeOK, HostStates
  <2> QED BY <2>1, <2>2, ShepherdAssumption DEF Revs
<1>3. ReopenFree /\ Gone(ev.pr) => Gone(ev.pr)'
  BY <1>1, GoneStays
<1> QED
  BY <1>1, <1>2, <1>3, HostForward DEF Truth

(* The poll of the watcher, as far as last_seen and the list go.           *)
LEMMA PollMoves ==
  ASSUME TypeOK, [Next]_vars
  PROVE  \/ UNCHANGED watcher.seen /\ UNCHANGED << ticker.cur, ticker.pc, ticker.todo >>
         \/ /\ ticker'.pc \notin {"list", "scan"}
            /\ \A p \in PRs : ticker'.cur[p] \in {NoRev, ticker.cur[p]}
            /\ \A p \in PRs : watcher'.seen[p] \in {NoRev, watcher.seen[p]}
         \/ /\ ticker.pc = "scan" /\ ticker'.pc \notin {"list", "scan"} /\ ticker.todo = {}
            /\ watcher'.seen = ticker.cur /\ ticker'.cur = Unseen
         \/ /\ ticker'.pc = "list" /\ ticker'.cur = Unseen /\ ticker'.todo = PRs
            /\ watcher' = watcher
         \/ \E p \in PRs :
              /\ ReadListing(p) /\ ticker.pc = "list" /\ ticker'.pc = "list"
              /\ watcher' = watcher /\ ticker'.todo = ticker.todo \ {p}
              /\ \A q \in PRs \ {p} : ticker'.cur[q] = ticker.cur[q]
              /\ \/ ticker'.cur[p] = IF host[p].state = "open" THEN host[p].rev ELSE NoRev
                 \/ /\ ticker'.cur[p] = ticker.cur[p]
                    /\ watcher.seen[p] # NoRev => p \in missed'
         \/ /\ ticker.pc = "list" /\ ticker.todo = {} /\ ticker'.pc = "scan"
            /\ ticker'.cur = ticker.cur /\ watcher' = watcher
            /\ ticker'.todo = {p \in PRs : ticker.cur[p] # NoRev \/ watcher.seen[p] # NoRev}
         \/ /\ ticker.pc = "scan" /\ ticker'.pc = "scan" /\ ticker'.cur = ticker.cur
            /\ watcher' = watcher /\ ticker'.todo \subseteq ticker.todo
<1>1. ticker \in Tickers(Len(monitors)) /\ watcher \in Watchers
  BY DEF TypeOK
<1>2. IdleTicker.cur = Unseen /\ IdleTicker.pc = "idle" /\ \A p \in PRs : Unseen[p] = NoRev
  BY DEF IdleTicker, Unseen
<1>3. CASE UNCHANGED << watcher, ticker >>
  BY <1>3
<1>4. CASE Unwatch
  <2>1. watcher'.seen = watcher.seen /\ UNCHANGED ticker
    BY <1>1, <1>4, Zenon DEF Unwatch, Watchers
  <2> QED BY <2>1
<1>5. CASE Watch
  <2>1. watcher'.seen = Unseen /\ ticker' = ticker /\ ticker.pc \notin {"list", "scan"}
    BY <1>5 DEF Watch, LockFree
  <2> QED BY <1>2, <2>1
<1>6. CASE Crash
  <2>1. watcher'.seen = Unseen /\ ticker' = IdleTicker
    BY <1>6 DEF Crash
  <2> QED BY <1>2, <2>1
<1>7. ASSUME NEW i \in 1..Len(monitors), MonitorStep(i)
      PROVE  /\ ticker'.pc \notin {"list", "scan"}
             /\ \A p \in PRs : ticker'.cur[p] \in {NoRev, ticker.cur[p]}
             /\ watcher' = watcher
  <2>1. ticker'.pc \notin {"list", "scan"} /\ watcher' = watcher
    BY <1>7, SamePrs
  <2>2. ticker'.cur \in {Unseen, ticker.cur}
    <3>1. IdleTicker \in [pc : {"idle"}, mon : {0}, todo : {{}}, cur : {Unseen}, rev : {NoRev}]
      BY DEF IdleTicker
    <3>2. \A i1, x, r1 : /\ [IdleTicker EXCEPT !.pc = x, !.mon = i1].cur = Unseen
                        /\ [IdleTicker EXCEPT !.pc = x].cur = Unseen
                        /\ [ticker EXCEPT !.pc = x].cur = ticker.cur
                        /\ [ticker EXCEPT !.pc = x, !.rev = r1].cur = ticker.cur
      BY <1>1, <3>1, Zenon DEF Tickers
    <3>3. \/ ticker' = ticker \/ ticker' = IdleTicker
          \/ \E x, i1 : ticker' = [IdleTicker EXCEPT !.pc = x, !.mon = i1]
          \/ \E x : ticker' = [IdleTicker EXCEPT !.pc = x]
          \/ \E x : ticker' = [ticker EXCEPT !.pc = x]
          \/ \E x, r1 : ticker' = [ticker EXCEPT !.pc = x, !.rev = r1]
      BY <1>7, Zenon DEF MonitorStep, MonPoll, MonDrain, MonGetPr, MonGetDiff, MonPrompt, Complete
    <3>4. CASE ticker' = ticker \/ ticker' = IdleTicker
      BY <1>2, <3>4, Zenon
    <3>5. CASE \E x, i1 : ticker' = [IdleTicker EXCEPT !.pc = x, !.mon = i1]
      BY <3>2, <3>5, Zenon
    <3>6. CASE \E x : ticker' = [IdleTicker EXCEPT !.pc = x]
      BY <3>2, <3>6, Zenon
    <3>7. CASE \E x : ticker' = [ticker EXCEPT !.pc = x]
      BY <3>2, <3>7, Zenon
    <3>8. CASE \E x, r1 : ticker' = [ticker EXCEPT !.pc = x, !.rev = r1]
      <4>1. PICK x, r1 : ticker' = [ticker EXCEPT !.pc = x, !.rev = r1]
        BY <3>8
      <4>2. [ticker EXCEPT !.pc = x, !.rev = r1].cur = ticker.cur
        BY <1>1, Zenon DEF Tickers
      <4> QED BY <4>1, <4>2, Zenon
    <3> QED BY <3>3, <3>4, <3>5, <3>6, <3>7, <3>8, Zenon
  <2> QED BY <1>2, <2>1, <2>2
<1>8. CASE ScanDone
  <2>1. ticker' = IdleTicker /\ watcher' = [watcher EXCEPT !.seen = ticker.cur]
        /\ ticker.pc = "scan" /\ ticker.todo = {}
    BY <1>8 DEF ScanDone
  <2>2. watcher'.seen = ticker.cur
    BY <1>1, <2>1 DEF Watchers
  <2> QED BY <1>2, <2>1, <2>2
<1>9. ASSUME NEW p \in PRs, ScanPr(p) \/ ScanClosed(p)
      PROVE  /\ watcher' = watcher /\ ticker.pc = "scan"
             /\ \/ ticker' = IdleTicker
                \/ /\ ticker'.pc = "scan" /\ ticker'.cur = ticker.cur
                   /\ ticker'.todo \subseteq ticker.todo
  <2>1. /\ watcher' = watcher /\ ticker.pc = "scan"
        /\ \/ ticker' = IdleTicker \/ ticker' = ticker
           \/ ticker' = [ticker EXCEPT !.todo = ticker.todo \ {p}]
    BY <1>9 DEF ScanPr, ScanClosed
  <2> QED BY <1>1, <2>1 DEF Tickers
<1>10. ListOpenPrs \/ EndListing \/ (\E p \in PRs : ReadListing(p)) => watcher' = watcher
  BY DEF ListOpenPrs, EndListing, ReadListing
<1>12. CASE ListOpenPrs
  BY <1>10, <1>12, ListingMoves
<1>13. CASE EndListing
  BY <1>10, <1>13, ListingMoves
<1>14. ASSUME NEW p \in PRs, ReadListing(p)
       PROVE  /\ watcher' = watcher
              /\ \/ ticker' = IdleTicker
                 \/ /\ ticker.pc = "list" /\ ticker'.pc = "list"
                    /\ ticker'.todo = ticker.todo \ {p}
                    /\ \A q \in PRs \ {p} : ticker'.cur[q] = ticker.cur[q]
                    /\ \/ ticker'.cur[p] = IF host[p].state = "open" THEN host[p].rev ELSE NoRev
                       \/ /\ ticker'.cur[p] = ticker.cur[p]
                          /\ watcher.seen[p] # NoRev => p \in missed'
  BY <1>10, <1>14, ListingMoves
<1>15. ASSUME ticker' = IdleTicker, watcher' = watcher
       PROVE  /\ ticker'.pc \notin {"list", "scan"}
              /\ \A p \in PRs : ticker'.cur[p] \in {NoRev, ticker.cur[p]}
              /\ \A p \in PRs : watcher'.seen[p] \in {NoRev, watcher.seen[p]}
  BY <1>2, <1>15
<1>11. HostStep \/ TaskAddInsert \/ Coordinator \/ UNCHANGED vars \/ (\E p \in PRs : TaskAdd(p))
        => UNCHANGED << watcher, ticker >>
  BY DEF HostStep, TaskAddInsert, Coordinator, CoordRecv, CoordEnsure, CoordInsert, CoordReplay,
         TaskAdd, vars
<1> QED
  BY <1>3, <1>4, <1>5, <1>6, <1>7, <1>8, <1>9, <1>11, <1>12, <1>13, <1>14, <1>15
     DEF Next, ListingStep, ScanStep

(* Where the events come from that are pending after a step.               *)
LEMMA NewsFrom ==
  ASSUME TypeOK, TypeOK', [Next]_vars, NEW s \in DOMAIN rx', NEW ev \in Pending(rx'[s])
  PROVE  /\ ev \in Events
         /\ \/ s \in DOMAIN rx /\ ev \in Pending(rx[s])
            \/ ScanNews(ev)
            \/ Replays(ev) /\ CoordOnEvent
<1>1. /\ Len(monitors) \in Nat /\ DOMAIN rx = 0..Len(monitors)
      /\ \A x \in DOMAIN rx : rx[x] \in Receivers(Events)
  BY Shapes
<1>2. rx'[s] \in Receivers(Events)
  BY DEF TypeOK
<1>3. ev \in Events
  BY <1>2, QueueParts
<1>4. ~Crash
  <2>1. Crash => rx'[s] = Subscribed
    BY DEF Crash
  <2> QED BY <1>2, <2>1, QueueParts
<1>5. Joins /\ \A x \in DOMAIN rx : Flow(x)
  BY <1>4, StepFlow
<1>6. s \in DOMAIN rx
  <2>1. rx'[s] # Subscribed
    BY <1>2, QueueParts
  <2> QED BY <1>1, <1>5, <2>1 DEF Joins
<1>7. Flow(s) /\ rx[s] \in Receivers(Events)
  BY <1>1, <1>5, <1>6
<1>8. CASE rx'[s].buf = rx[s].buf
  BY <1>3, <1>6, <1>8 DEF Pending
<1>9. CASE rx'[s] = Subscribed
  BY <1>7, <1>9, QueueParts
<1>10. CASE rx[s].buf # << >> /\ rx'[s] = Pop(rx[s])
  BY <1>3, <1>6, <1>7, <1>10, QueueParts
<1>11. ASSUME NEW e \in Events, ScanNews(e) \/ Replays(e), rx'[s] = Offer(rx[s], e)
       PROVE  (s \in DOMAIN rx /\ ev \in Pending(rx[s])) \/ ScanNews(ev) \/ (Replays(ev) /\ CoordOnEvent)
  <2>1. ev \in Pending(rx[s]) \/ ev = e
    BY <1>7, <1>11, QueueParts
  <2>2. Replays(ev) => CoordOnEvent
    BY DEF Replays, CoordReplay, CoordOnEvent
  <2> QED BY <1>6, <1>11, <2>1, <2>2
<1> QED
  BY <1>3, <1>7, <1>8, <1>9, <1>10, <1>11 DEF Flow

(* And the one the coordinator holds.                                      *)
LEMMA CoordFrom ==
  ASSUME TypeOK, [Next]_vars, CoordOnEvent'
  PROVE  \/ /\ CoordRecv /\ rx[0].buf # << >> /\ coord'.ev = Head(rx[0].buf)
            /\ coord'.ev \in Pending(rx[0]) /\ monIds[coord'.ev.pr] = 0
            /\ coord.pc = "recv" /\ coord'.pc = "ensure"
         \/ CoordOnEvent /\ coord'.ev = coord.ev
<1>1. /\ coord \in Coords(Len(monitors)) /\ 0 \in DOMAIN rx
      /\ rx[0] \in Receivers(Events)
  <2>1. 0 \in 0..Len(monitors) /\ DOMAIN rx = 0..Len(monitors)
    BY Shapes
  <2>2. rx[0] \in Receivers(Events)
    BY <2>1, Shapes, Zenon
  <2> QED BY <2>1, <2>2, Zenon DEF TypeOK
<1>2. coord' = coord => CoordOnEvent /\ coord'.ev = coord.ev
  BY DEF CoordOnEvent
<1>3. CASE CoordRecv
  <2>1. coord' # [IdleCoord EXCEPT !.pc = "dead"]
    BY DEF CoordOnEvent, IdleCoord
  <2>2. \/ coord' = coord
        \/ /\ rx[0].buf # << >> /\ monIds[Head(rx[0].buf).pr] = 0
           /\ coord' = [coord EXCEPT !.pc = "ensure", !.ev = Head(rx[0].buf)]
    BY <1>3, <2>1 DEF CoordRecv
  <2>3. coord' # coord => coord'.pc = "ensure" /\ coord'.ev = Head(rx[0].buf)
    BY <1>1, <2>2, Zenon DEF Coords
  <2>4. rx[0].buf # << >> => Head(rx[0].buf) \in Pending(rx[0])
    BY <1>1, QueueParts
  <2>5. coord.pc = "recv"
    BY <1>3 DEF CoordRecv
  <2> QED BY <1>2, <1>3, <2>2, <2>3, <2>4, <2>5
<1>4. CASE CoordEnsure \/ CoordInsert
  BY <1>1, <1>4 DEF CoordEnsure, CoordInsert, CoordOnEvent, Coords
<1>5. CASE CoordReplay \/ Crash
  BY <1>5 DEF CoordReplay, Crash, IdleCoord, CoordOnEvent
<1>6. coord' = coord \/ CoordRecv \/ CoordEnsure \/ CoordInsert \/ CoordReplay \/ Crash
  BY Zenon DEF Next, HostStep, Watch, Unwatch, TaskAdd, TaskAddInsert, ListOpenPrs, ListingStep,
         ReadListing, EndListing, ScanStep, ScanPr, ScanClosed, ScanDone, Coordinator, MonitorStep,
         MonPoll, MonDrain, MonGetPr, MonGetDiff, MonPrompt, vars
<1> QED
  BY <1>2, <1>3, <1>4, <1>5, <1>6

(* Who makes a monitor's poll look its PR up, or prompt.                   *)
LEMMA LooksUp ==
  ASSUME TypeOK, [Next]_vars, ticker'.pc \in {"get", "prompt"}
  PROVE  \/ UNCHANGED << ticker, monitors >>
         \/ \E i \in 1..Len(monitors) :
              /\ MonDrain(i) /\ ticker'.pc = "get" /\ ticker'.mon = i
              /\ rx[i].buf # << >> /\ Head(rx[i].buf).pr = monitors[i].pr
         \/ \E i \in 1..Len(monitors) :
              /\ MonGetDiff(i) /\ ticker'.pc = "prompt" /\ ticker'.mon = i
              /\ ticker'.rev = host[monitors[i].pr].rev /\ UNCHANGED << host, monitors >>
<1>1. ticker \in Tickers(Len(monitors))
  BY DEF TypeOK
<1>2. IdleTicker.pc = "idle"
  BY DEF IdleTicker
<1>3. ASSUME NEW i \in 1..Len(monitors), MonitorStep(i)
      PROVE  \/ UNCHANGED << ticker, monitors >>
             \/ /\ MonDrain(i) /\ ticker'.pc = "get" /\ ticker'.mon = i
                /\ rx[i].buf # << >> /\ Head(rx[i].buf).pr = monitors[i].pr
             \/ /\ MonGetDiff(i) /\ ticker'.pc = "prompt" /\ ticker'.mon = i
                /\ ticker'.rev = host[monitors[i].pr].rev /\ UNCHANGED << host, monitors >>
  <2>1. ~MonPoll(i)
    <3>1. [IdleTicker EXCEPT !.pc = "drain", !.mon = i].pc = "drain"
      BY DEF IdleTicker
    <3> QED BY <3>1 DEF MonPoll
  <2>2. CASE MonDrain(i)
    <3>1. ticker' # IdleTicker
      BY <1>2
    <3>2. \/ UNCHANGED << ticker, monitors >>
          \/ /\ rx[i].buf # << >> /\ Matches(i, Head(rx[i].buf))
             /\ ticker' = [ticker EXCEPT !.pc = "get"] /\ ticker.mon = i
      BY <2>2, <3>1, Zenon DEF MonDrain, Complete
    <3>3. ticker' = [ticker EXCEPT !.pc = "get"] => ticker'.pc = "get" /\ ticker'.mon = ticker.mon
      BY <1>1, Zenon DEF Tickers
    <3> QED BY <2>2, <3>2, <3>3 DEF Matches
  <2>3. ~MonGetPr(i)
    <3>1. [ticker EXCEPT !.pc = "diff"].pc = "diff"
      BY <1>1 DEF Tickers
    <3> QED BY <1>2, <3>1 DEF MonGetPr, Complete
  <2>4. CASE MonGetDiff(i)
    <3>1. /\ ticker' = [ticker EXCEPT !.pc = "prompt", !.rev = host[monitors[i].pr].rev]
          /\ ticker.mon = i /\ UNCHANGED << host, monitors >>
      BY <1>2, <2>4 DEF MonGetDiff, FetchedRev
    <3>2. ticker'.pc = "prompt" /\ ticker'.mon = i /\ ticker'.rev = host[monitors[i].pr].rev
      BY <1>1, <3>1 DEF Tickers
    <3> QED BY <2>4, <3>1, <3>2
  <2>5. ~MonPrompt(i)
    <3>1. /\ [ticker EXCEPT !.pc = "drain", !.rev = NoRev].pc = "drain"
          /\ [IdleTicker EXCEPT !.pc = "dead"].pc = "dead"
      BY <1>1 DEF Tickers, IdleTicker
    <3> QED BY <1>2, <3>1 DEF MonPrompt
  <2> QED BY <1>3, <2>1, <2>2, <2>3, <2>4, <2>5 DEF MonitorStep
<1>4. ASSUME NEW p \in PRs, ScanPr(p) \/ ScanClosed(p) PROVE FALSE
  <2>1. /\ ticker.pc = "scan"
        /\ \/ ticker' = IdleTicker \/ ticker' = ticker
           \/ ticker' = [ticker EXCEPT !.todo = ticker.todo \ {p}]
    BY <1>4 DEF ScanPr, ScanClosed
  <2> QED BY <1>1, <1>2, <2>1 DEF Tickers
<1>5. ~ScanDone /\ ~Crash
  BY <1>2 DEF ScanDone, Crash
<1>6. ~ListOpenPrs /\ ~ListingStep
  BY <1>2, ListingMoves DEF ListingStep
<1>7. ~CoordEnsure /\ \A p \in PRs : ~TaskAdd(p)
  <2>1. CoordEnsure \/ (\E p \in PRs : TaskAdd(p)) => LockFree /\ ticker' = ticker
    BY DEF CoordEnsure, TaskAdd, CreateMonitor
  <2> QED BY <2>1 DEF LockFree
<1>8. HostStep \/ Watch \/ Unwatch \/ TaskAddInsert \/ CoordRecv \/ CoordInsert \/ CoordReplay
       \/ UNCHANGED vars => UNCHANGED << ticker, monitors >>
  BY DEF HostStep, Watch, Unwatch, TaskAddInsert, CoordRecv, CoordInsert, CoordReplay, vars
<1> QED
  BY <1>3, <1>4, <1>5, <1>6, <1>7, <1>8 DEF Next, ScanStep, Coordinator

(* What the poll in progress publishes is so.                              *)
LEMMA ScanNewsTrue ==
  ASSUME TypeOK, WatcherTrue, NEW ev, ScanNews(ev)
  PROVE  Truth(ev)
<1>1. PICK p \in PRs :
        \/ ScanPr(p) /\ ev = Event(IF FirstInSession(p) THEN "opened" ELSE "updated", p, ticker.cur[p])
        \/ ScanClosed(p) /\ ev = Event("closed", p, NoRev)
  BY DEF ScanNews
<1>2. ticker.cur[p] \in 0..MaxRev /\ NoRev \in 0..MaxRev
  BY ShepherdAssumption DEF TypeOK, Tickers, NoRev
<1>3. CASE ScanPr(p) /\ ev = Event(IF FirstInSession(p) THEN "opened" ELSE "updated", p, ticker.cur[p])
  <2>1. ev.pr = p /\ ev.rev = ticker.cur[p] /\ ev.kind # "closed"
    BY <1>2, <1>3, EventParts
  <2>2. ticker.cur[p] # NoRev
    BY <1>3 DEF ScanPr, Listed
  <2> QED BY <2>1, <2>2 DEF Truth, WatcherTrue
<1>4. CASE ScanClosed(p) /\ ev = Event("closed", p, NoRev)
  <2>1. ev.pr = p /\ ev.rev = NoRev
    BY <1>2, <1>4, EventParts
  <2>2. ticker.pc = "scan" /\ p \in ticker.todo /\ ~Listed(p)
    BY <1>4 DEF ScanClosed
  <2>3. host[p].rev \in Nat
    BY Shapes
  <2> QED BY <2>1, <2>2, <2>3 DEF Truth, WatcherTrue, NoRev
<1> QED
  BY <1>1, <1>3, <1>4

(* Every step keeps what the watcher knows true.                           *)
LEMMA WatcherStep == TypeOK /\ TypeOK' /\ WatcherTrue /\ [Next]_vars => WatcherTrue'
<1> SUFFICES ASSUME TypeOK, TypeOK', WatcherTrue, [Next]_vars, NEW p \in PRs
             PROVE  /\ watcher'.seen[p] <= host'[p].rev /\ ticker'.cur[p] <= host'[p].rev
                    /\ watcher'.seen[p] # NoRev \/ ticker'.cur[p] # NoRev => host'[p].state # "absent"
                    /\ ticker'.pc = "list" /\ p \notin ticker'.todo =>
                         (ReopenFree /\ watcher'.seen[p] # NoRev /\ ~Listed(p)' => Gone(p)')
                    /\ ticker'.pc = "scan" =>
                         /\ p \in ticker'.todo => watcher'.seen[p] # NoRev \/ Listed(p)'
                         /\ ReopenFree /\ watcher'.seen[p] # NoRev /\ ~Listed(p)' => Gone(p)'
  BY DEF WatcherTrue
<1>1. /\ host[p].rev <= host'[p].rev
      /\ host[p].state # "absent" => host'[p].state # "absent"
      /\ ~Crash /\ ReopenFree /\ Gone(p) => Gone(p)'
  BY HostForward, GoneStays
<1>2. /\ watcher.seen[p] <= host[p].rev /\ ticker.cur[p] <= host[p].rev
      /\ watcher.seen[p] # NoRev \/ ticker.cur[p] # NoRev => host[p].state # "absent"
      /\ ticker.pc = "list" /\ p \notin ticker.todo =>
           (ReopenFree /\ watcher.seen[p] # NoRev /\ ~Listed(p) => Gone(p))
      /\ ticker.pc = "scan" =>
           /\ p \in ticker.todo => watcher.seen[p] # NoRev \/ Listed(p)
           /\ ReopenFree /\ watcher.seen[p] # NoRev /\ ~Listed(p) => Gone(p)
  BY DEF WatcherTrue
<1>9. ticker'.pc \in {"list", "scan"} => ~Crash
  BY DEF Crash, IdleTicker
<1>3. /\ host[p].rev \in Nat /\ watcher.seen[p] \in Nat /\ ticker.cur[p] \in Nat
      /\ host[p].state \in {"absent", "open", "closed"}
      /\ host'[p].rev \in Nat /\ host[p].rev # NoRev /\ NoRev = 0
  <2>1. /\ host[p].rev \in Nat /\ watcher.seen[p] \in Nat /\ ticker.cur[p] \in Nat
        /\ host[p].state \in {"absent", "open", "closed"}
    BY Shapes, Zenon
  <2>2. host[p].rev \in Revs /\ host'[p].rev \in Revs
    BY Zenon DEF TypeOK, HostStates
  <2> QED BY <2>1, <2>2, ShepherdAssumption DEF Revs, NoRev
<1>4. CASE UNCHANGED watcher.seen /\ UNCHANGED << ticker.cur, ticker.pc, ticker.todo >>
  BY <1>1, <1>2, <1>3, <1>4, <1>9 DEF Listed
<1>5. CASE /\ ticker'.pc \notin {"list", "scan"} /\ ticker'.cur[p] \in {NoRev, ticker.cur[p]}
           /\ watcher'.seen[p] \in {NoRev, watcher.seen[p]}
  BY <1>1, <1>2, <1>3, <1>5
<1>6. CASE /\ ticker'.pc \notin {"list", "scan"}
           /\ watcher'.seen = ticker.cur /\ ticker'.cur = Unseen
  BY <1>1, <1>2, <1>3, <1>6 DEF Unseen
<1>10. CASE /\ ticker'.pc = "list" /\ ticker'.cur = Unseen /\ ticker'.todo = PRs
            /\ watcher' = watcher
  BY <1>1, <1>2, <1>3, <1>10 DEF Unseen
<1>7. ASSUME NEW q \in PRs, ReadListing(q), ticker.pc = "list", ticker'.pc = "list",
             watcher' = watcher, ticker'.todo = ticker.todo \ {q},
             \A x \in PRs \ {q} : ticker'.cur[x] = ticker.cur[x],
             \/ ticker'.cur[q] = IF host[q].state = "open" THEN host[q].rev ELSE NoRev
             \/ /\ ticker'.cur[q] = ticker.cur[q]
                /\ watcher.seen[q] # NoRev => q \in missed'
      PROVE  /\ watcher'.seen[p] <= host'[p].rev /\ ticker'.cur[p] <= host'[p].rev
             /\ watcher'.seen[p] # NoRev \/ ticker'.cur[p] # NoRev => host'[p].state # "absent"
             /\ p \notin ticker'.todo =>
                  (ReopenFree /\ watcher'.seen[p] # NoRev /\ ~Listed(p)' => Gone(p)')
  <2>1. host' = host
    BY <1>7 DEF ReadListing
  <2>2. CASE p # q
    BY <1>1, <1>2, <1>7, <1>9, <2>1, <2>2 DEF Listed
  <2>3. CASE p = q /\ ticker'.cur[q] = IF host[q].state = "open" THEN host[q].rev ELSE NoRev
    BY <1>2, <1>3, <1>7, <2>1, <2>3 DEF Listed, Gone
  <2>4. CASE /\ p = q /\ ticker'.cur[q] = ticker.cur[q]
             /\ watcher.seen[q] # NoRev => q \in missed'
    BY <1>2, <1>3, <1>7, <2>1, <2>4 DEF Listed, Gone
  <2> QED BY <1>7, <2>2, <2>3, <2>4
<1>11. CASE /\ ticker.pc = "list" /\ ticker.todo = {} /\ ticker'.pc = "scan"
            /\ ticker'.cur = ticker.cur /\ watcher' = watcher
            /\ ticker'.todo = {x \in PRs : ticker.cur[x] # NoRev \/ watcher.seen[x] # NoRev}
  BY <1>1, <1>2, <1>3, <1>9, <1>11 DEF Listed
<1>8. CASE /\ ticker.pc = "scan" /\ ticker'.pc = "scan" /\ ticker'.cur = ticker.cur
           /\ watcher' = watcher /\ ticker'.todo \subseteq ticker.todo
  BY <1>1, <1>2, <1>3, <1>8, <1>9 DEF Listed
<1> QED
  BY <1>4, <1>5, <1>6, <1>7, <1>8, <1>10, <1>11, PollMoves

(* Every step keeps the news true.                                         *)
LEMMA NewsStep == TypeOK /\ TypeOK' /\ WatcherTrue /\ NewsTrue /\ [Next]_vars => NewsTrue'
<1> SUFFICES ASSUME TypeOK, TypeOK', WatcherTrue, NewsTrue, [Next]_vars PROVE NewsTrue'
  OBVIOUS
<1>1. CoordOnEvent => coord.ev \in Events
  BY Shapes
<1>2. ASSUME NEW s \in DOMAIN rx', NEW ev \in Pending(rx'[s]) PROVE Truth(ev)'
  <2>1. ev \in Events
    BY <1>2, NewsFrom
  <2>2. Truth(ev)
    BY <1>2, NewsFrom, ScanNewsTrue DEF NewsTrue, Replays
  <2>3. ~Crash
    <3>1. Crash => rx'[s] = Subscribed
      BY DEF Crash
    <3> QED BY <1>2, <3>1, SubscribedType, QueueParts
  <2> QED BY <2>1, <2>2, <2>3, TruthStays
<1>3. ASSUME CoordOnEvent' PROVE Truth(coord.ev)'
  <2>1. coord'.ev \in Events /\ 0 \in DOMAIN rx
    BY <1>3, Shapes DEF TypeOK
  <2>2. Truth(coord'.ev)
    BY <1>3, <2>1, CoordFrom DEF NewsTrue
  <2>3. \A ev \in Events : Truth(ev) => Truth(ev)'
    <3>1. ~Crash
      BY <1>3 DEF Crash, IdleCoord, CoordOnEvent
    <3> QED BY <3>1, TruthStays
  <2>4. PICK ev \in Events : ev = coord'.ev
    BY <2>1
  <2>5. Truth(ev)'
    BY <2>2, <2>3, <2>4
  <2> QED BY <2>4, <2>5 DEF Truth, Gone
<1> QED
  BY <1>2, <1>3 DEF NewsTrue

(* Every step keeps the monitors true.                                     *)
LEMMA MonitorsStep ==
  TypeOK /\ TypeOK' /\ NewsTrue /\ MonitorsTrue /\ [Next]_vars => MonitorsTrue'
<1> SUFFICES ASSUME TypeOK, TypeOK', NewsTrue, MonitorsTrue, [Next]_vars PROVE MonitorsTrue'
  OBVIOUS
<1> DEFINE N == Len(monitors)
<1>1. /\ N \in Nat /\ DOMAIN rx = 0..N
      /\ \A s \in DOMAIN rx : rx[s] \in Receivers(Events)
      /\ \A i \in 1..N : monitors[i].pr \in PRs /\ monitors[i].last \in Nat
      /\ \A p \in PRs : host[p].rev \in Nat /\ host[p].state \in {"absent", "open", "closed"}
      /\ TickerOnMonitor => ticker.mon \in 1..N
  BY Shapes
<1>2. /\ Len(monitors') \in Nat
      /\ \A i \in 1..Len(monitors') : monitors'[i].pr \in PRs
      /\ \A p \in PRs : host'[p].rev \in Nat
  <2>1. Len(monitors') \in Nat /\ \A i \in 1..Len(monitors') : monitors'[i] \in MonitorTasks
    BY DEF TypeOK
  <2>2. \A p \in PRs : host'[p].rev \in Nat
    <3>1. \A p \in PRs : host'[p].rev \in Revs
      BY Zenon DEF TypeOK, HostStates
    <3> QED BY <3>1, ShepherdAssumption DEF Revs
  <2> QED BY <2>1, <2>2 DEF MonitorTasks
<1>3. \A p \in PRs : /\ host[p].rev <= host'[p].rev
                     /\ host[p].state # "absent" => host'[p].state # "absent"
                     /\ ReopenFree /\ host[p].state = "closed" => host'[p].state = "closed"
  BY HostForward
<1>4. ASSUME NEW i \in 1..N PROVE MonitorTrue(i)
  BY <1>4 DEF MonitorsTrue
<1>5. CASE Crash
  <2>1. monitors' = << >> /\ ticker'.pc = "idle"
    BY <1>5 DEF Crash, IdleTicker
  <2> QED BY <2>1 DEF MonitorsTrue
<1>6. CASE ~Crash
  <2>1. /\ Joins
        /\ \A j \in 1..N : monitors'[j].pr = monitors[j].pr /\ (Same(j) \/ Hears(j) \/ GivesUp(j))
    BY <1>6, StepFlow
  <2>2. ASSUME NEW i \in 1..N PROVE MonitorTrue(i)'
    <3> DEFINE p == monitors[i].pr
    <3>1. /\ p \in PRs /\ monitors'[i].pr = p /\ monitors[i].last \in Nat
          /\ host[p].rev \in Nat /\ host'[p].rev \in Nat
          /\ host[p].state \in {"absent", "open", "closed"}
      BY <1>1, <1>2, <2>1
    <3>2. /\ host[p].rev <= host'[p].rev
          /\ ReopenFree /\ Gone(p) => Gone(p)'
      BY <1>3, <1>6, <3>1, GoneStays
    <3>3. /\ monitors[i].last <= host[p].rev
          /\ ReopenFree /\ monitors[i].done => Gone(p)
      BY <1>4 DEF MonitorTrue
    <3>7. Gone(p)' => Gone(monitors[i].pr)'
      BY <3>1 DEF Gone
    <3>4. CASE Same(i)
      BY <3>1, <3>2, <3>3, <3>4, <3>7 DEF Same, MonitorTrue
    <3>5. CASE Hears(i)
      <4>1. /\ rx[i] \in Receivers(Events) /\ i \in DOMAIN rx /\ rx[i].buf # << >>
        BY <1>1, <3>5 DEF Hears
      <4>2. PICK ev \in Events : ev = Head(rx[i].buf) /\ ev \in Pending(rx[i])
        BY <4>1, QueueParts
      <4>3. ev.pr = p /\ monitors'[i].last = ev.rev /\ monitors'[i].done = monitors[i].done
        BY <3>5, <4>2 DEF Hears
      <4>4. ev.rev <= host[p].rev /\ ev.rev \in Nat
        BY <4>1, <4>2, <4>3, EventParts DEF NewsTrue, Truth
      <4> QED
        BY <3>1, <3>2, <3>3, <3>7, <4>3, <4>4 DEF MonitorTrue
    <3>6. CASE GivesUp(i)
      <4>1. ReopenFree => Gone(p)
        <5>1. CASE ticker.pc = "get" /\ ticker.mon = i /\ host[p].state # "open"
          BY <3>1, <5>1 DEF MonitorsTrue, Gone
        <5>2. CASE \E ev \in Pending(rx[i]) : ev.kind = "closed" /\ ev.pr = p
          BY <1>1, <5>2 DEF NewsTrue, Truth
        <5> QED BY <3>6, <5>1, <5>2 DEF GivesUp
      <4>2. monitors'[i].last = monitors[i].last
        BY <3>6 DEF GivesUp
      <4> QED BY <3>1, <3>2, <3>3, <3>7, <4>1, <4>2 DEF MonitorTrue
    <3> QED BY <2>1, <3>4, <3>5, <3>6
  <2>3. ASSUME NEW i \in 1..Len(monitors'), i \notin 1..N PROVE MonitorTrue(i)'
    <3>1. i = N + 1 /\ monitors'[i].last = NoRev /\ ~monitors'[i].done
      BY <1>1, <2>1, <2>3 DEF Joins
    <3>2. host'[monitors'[i].pr].rev \in Nat
      BY <1>2
    <3> QED BY <3>1, <3>2 DEF MonitorTrue, NoRev
  <2>4. ASSUME ticker'.pc \in {"get", "prompt"}
        PROVE  /\ ticker'.pc = "get" => host'[monitors'[ticker'.mon].pr].state # "absent"
               /\ ticker'.pc = "prompt" => ticker'.rev >= monitors'[ticker'.mon].last
    <3>1. CASE UNCHANGED << ticker, monitors >>
      <4>1. ticker.mon \in 1..N
        BY <1>1, <2>4, <3>1 DEF TickerOnMonitor
      <4> QED BY <1>1, <1>3, <3>1, <4>1 DEF MonitorsTrue
    <3>2. ASSUME NEW i \in 1..N, MonDrain(i), ticker'.pc = "get", ticker'.mon = i,
                 rx[i].buf # << >>, Head(rx[i].buf).pr = monitors[i].pr
          PROVE  host'[monitors'[i].pr].state # "absent"
      <4>1. rx[i] \in Receivers(Events) /\ i \in DOMAIN rx /\ monitors[i].pr \in PRs
        BY <1>1
      <4>2. Head(rx[i].buf) \in Pending(rx[i])
        BY <3>2, <4>1, QueueParts
      <4>3. host[monitors[i].pr].state # "absent"
        BY <3>2, <4>1, <4>2 DEF NewsTrue, Truth
      <4> QED BY <1>3, <2>1, <4>1, <4>3
    <3>3. ASSUME NEW i \in 1..N, MonGetDiff(i), ticker'.mon = i, 
                 ticker'.rev = host[monitors[i].pr].rev, UNCHANGED << host, monitors >>
          PROVE  ticker'.rev >= monitors'[i].last
      BY <1>1, <1>4, <3>3 DEF MonitorTrue
    <3> QED
      BY <2>4, <3>1, <3>2, <3>3, LooksUp
  <2> QED
    BY <1>2, <2>2, <2>3, <2>4 DEF MonitorsTrue
<1> QED
  BY <1>5, <1>6

(* What events, watcher and monitors say is true of the code host, in      *)
(* every reachable state.                                                  *)
THEOREM NewsIsTrue == Spec => []NewsInv
<1>1. Init => NewsInv
  <2> SUFFICES ASSUME Init PROVE NewsInv
    OBVIOUS
  <2>1. WatcherTrue
    <3>1. /\ watcher.seen = Unseen /\ ticker.cur = Unseen /\ ticker.pc = "idle"
          /\ \A p \in PRs : host[p].rev = 1 /\ Unseen[p] = 0
      BY DEF Init, IdleTicker, Unseen, NoRev
    <3> QED BY <3>1 DEF WatcherTrue, NoRev
  <2>2. NewsTrue
    BY DEF Init, IdleCoord, NewsTrue, CoordOnEvent, Pending, Subscribed
  <2>3. MonitorsTrue
    BY DEF Init, IdleTicker, MonitorsTrue
  <2> QED BY <2>1, <2>2, <2>3 DEF NewsInv
<1>2. TypeOK /\ TypeOK' /\ NewsInv /\ [Next]_vars => NewsInv'
  BY WatcherStep, NewsStep, MonitorsStep DEF NewsInv
<1> QED
  BY <1>1, <1>2, TypeCorrect, PTL DEF Spec

(* A monitor gives up only on a PR that is closed, or that was open when   *)
(* this session's listing left it out.                                     *)
THEOREM NoneGivesUpEarly == Spec => []CompletedMeansClosed
<1>1. NewsInv => CompletedMeansClosed
  BY DEF NewsInv, MonitorsTrue, MonitorTrue, CompletedMeansClosed, ReopenFree, Gone
<1> QED
  BY <1>1, NewsIsTrue, PTL

(* The agent is never shown a diff older than the event it is about.       *)
THEOREM DiffIsFresh == Spec => []DiffNotOlderThanEvent
<1>1. NewsInv => DiffNotOlderThanEvent
  BY DEF NewsInv, MonitorsTrue, DiffNotOlderThanEvent
<1> QED
  BY <1>1, NewsIsTrue, PTL

-----------------------------------------------------------------------------
(* Each event reaches a monitor once. *)

(* The watcher's poll when no record fails, every listing has each open PR *)
(* once, and no one stops the watch.                                       *)
LEMMA PlainPoll ==
  ASSUME TypeOK, Plain, NewsSpent, [Next]_vars, ~Crash
  PROVE  /\ ~watcher'.on => watcher'.seen = Unseen /\ ticker'.pc \notin {"list", "scan"}
         /\ \/ UNCHANGED watcher.seen /\ UNCHANGED << ticker.cur, ticker.pc, ticker.todo >>
            \/ /\ ticker.pc # "scan" /\ ticker'.pc \notin {"list", "scan"}
               /\ watcher'.seen = watcher.seen
            \/ /\ ticker.pc = "scan" /\ ticker'.pc \notin {"list", "scan"} /\ ticker.todo = {}
               /\ watcher'.seen = ticker.cur
            \/ /\ ticker.pc # "scan" /\ ticker'.pc = "list" /\ watcher'.seen = watcher.seen
               /\ ticker'.cur = Unseen
            \/ /\ ticker.pc = "list" /\ ticker'.pc = "list" /\ watcher'.seen = watcher.seen
               /\ \A p \in PRs : \/ ticker'.cur[p] = ticker.cur[p]
                                 \/ host[p].state = "open"
                                 \/ ticker'.cur[p] = NoRev
            \/ /\ ticker.pc = "list" /\ ticker'.pc = "scan" /\ watcher'.seen = watcher.seen
               /\ ticker'.cur = ticker.cur
               /\ ticker'.todo = {p \in PRs : ticker.cur[p] # NoRev \/ watcher.seen[p] # NoRev}
            \/ /\ ticker.pc = "scan" /\ ticker'.pc = "scan" /\ ticker'.cur = ticker.cur
               /\ watcher'.seen = watcher.seen /\ ticker'.todo \subseteq ticker.todo
<1>1. ticker \in Tickers(Len(monitors)) /\ watcher \in Watchers
  BY DEF TypeOK
<1>2. ~watcher.on => watcher.seen = Unseen /\ ticker.pc \notin {"list", "scan"}
  BY DEF NewsSpent
<1>3. CASE UNCHANGED << watcher, ticker >>
  BY <1>2, <1>3
<1>4. CASE Watch
  <2>1. /\ watcher' = [on |-> TRUE, seen |-> Unseen] /\ ticker' = ticker /\ ~watcher.on
    BY <1>4 DEF Watch
  <2>2. watcher'.on /\ watcher'.seen = watcher.seen
    BY <1>2, <2>1
  <2> QED BY <2>1, <2>2
<1>5. ~Unwatch
  BY DEF Unwatch, Plain
<1>6. ASSUME NEW i \in 1..Len(monitors), MonitorStep(i)
      PROVE  /\ watcher' = watcher
             /\ ticker.pc # "scan" /\ ticker'.pc \notin {"list", "scan"}
  <2>1. watcher' = watcher /\ ticker'.pc \notin {"list", "scan"}
    BY <1>6, SamePrs
  <2>2. ticker.pc # "scan"
    BY <1>6 DEF MonitorStep, MonPoll, MonDrain, MonGetPr, MonGetDiff, MonPrompt
  <2> QED BY <2>1, <2>2
<1>7. CASE ScanDone
  <2>1. /\ ticker' = IdleTicker /\ watcher' = [watcher EXCEPT !.seen = ticker.cur]
        /\ ticker.pc = "scan" /\ ticker.todo = {}
    BY <1>7 DEF ScanDone
  <2>2. watcher'.seen = ticker.cur /\ watcher'.on = watcher.on /\ ticker'.pc = "idle"
    BY <1>1, <2>1, Zenon DEF Watchers, IdleTicker
  <2> QED BY <1>2, <2>1, <2>2
<1>8. ASSUME NEW p \in PRs, ScanPr(p) \/ ScanClosed(p)
      PROVE  /\ watcher' = watcher /\ ticker.pc = "scan" /\ ticker'.pc = "scan"
             /\ ticker'.cur = ticker.cur /\ ticker'.todo = ticker.todo \ {p}
  <2>1. /\ watcher' = watcher /\ ticker.pc = "scan"
        /\ ticker' = [ticker EXCEPT !.todo = ticker.todo \ {p}]
    BY <1>8 DEF ScanPr, ScanClosed, Fault, Plain
  <2> QED BY <1>1, <2>1 DEF Tickers
<1>9. CASE ListOpenPrs
  <2>1. watcher' = watcher /\ watcher.on
    BY <1>9 DEF ListOpenPrs
  <2> QED BY <1>9, <2>1, ListingMoves
<1>13. CASE EndListing
  <2>1. watcher' = watcher
    BY <1>13 DEF EndListing
  <2> QED BY <1>2, <1>13, <2>1, ListingMoves
<1>14. ASSUME NEW p \in PRs, ReadListing(p)
       PROVE  /\ ~watcher'.on => watcher'.seen = Unseen /\ ticker'.pc \notin {"list", "scan"}
              /\ ticker.pc = "list" /\ watcher'.seen = watcher.seen
              /\ \/ ticker'.pc \notin {"list", "scan"}
                 \/ /\ ticker'.pc = "list"
                    /\ \A q \in PRs : \/ ticker'.cur[q] = ticker.cur[q]
                                      \/ host[q].state = "open"
                                      \/ ticker'.cur[q] = NoRev
  <2>1. watcher' = watcher
    BY <1>14 DEF ReadListing
  <2>2. IdleTicker.pc = "idle"
    BY DEF IdleTicker
  <2> QED BY <1>2, <1>14, <2>1, <2>2, ListingMoves
<1>10. HostStep \/ TaskAddInsert \/ Coordinator \/ UNCHANGED vars \/ (\E p \in PRs : TaskAdd(p))
        => UNCHANGED << watcher, ticker >>
  BY DEF HostStep, TaskAddInsert, Coordinator, CoordRecv, CoordEnsure, CoordInsert, CoordReplay,
         TaskAdd, vars
<1>11. ASSUME NEW p \in PRs, ScanPr(p) \/ ScanClosed(p)
       PROVE  /\ ~watcher'.on => watcher'.seen = Unseen /\ ticker'.pc \notin {"list", "scan"}
              /\ ticker.pc = "scan" /\ ticker'.pc = "scan" /\ ticker'.cur = ticker.cur
              /\ watcher'.seen = watcher.seen /\ ticker'.todo \subseteq ticker.todo
  BY <1>2, <1>8, <1>11
<1>12. ASSUME NEW i \in 1..Len(monitors), MonitorStep(i)
       PROVE  /\ ~watcher'.on => watcher'.seen = Unseen /\ ticker'.pc \notin {"list", "scan"}
              /\ ticker.pc # "scan" /\ ticker'.pc \notin {"list", "scan"} /\ watcher'.seen = watcher.seen
  BY <1>2, <1>6, <1>12
<1> QED
  BY <1>3, <1>4, <1>5, <1>7, <1>9, <1>10, <1>11, <1>12, <1>13, <1>14 DEF Next, ListingStep, ScanStep

(* Once an event is spent it stays so, as long as the session lasts.       *)
LEMMA SpentStays ==
  ASSUME TypeOK, Plain, WatcherTrue, NewsSpent, [Next]_vars, ~Crash,
         NEW ev \in Events, Spent(ev)
  PROVE  Spent(ev)'
<1> DEFINE p == ev.pr
<1>1. p \in PRs /\ ev.kind \in {"opened", "updated", "closed"}
  BY EventParts
<1>2. ReopenFree
  BY DEF Plain, ReopenFree
<1>3. host[p].state = "closed" => host'[p].state = "closed"
  BY <1>1, <1>2, HostForward
<1>4. ticker.pc = "scan" =>
        /\ p \in ticker.todo => watcher.seen[p] # NoRev \/ Listed(p)
        /\ watcher.seen[p] # NoRev /\ ~Listed(p) => host[p].state = "closed"
  BY <1>1, <1>2 DEF WatcherTrue, NewsSpent, Gone
<1>5. CASE ev.kind = "opened"
  <2>1. \/ Announced(p)
        \/ /\ host[p].state = "closed" /\ ~(ticker.pc = "list" /\ Listed(p))
           /\ ~(ticker.pc = "scan" /\ Listed(p) /\ p \in ticker.todo)
    BY <1>5 DEF Spent
  <2>2. \/ Announced(p)'
        \/ /\ host'[p].state = "closed" /\ ~(ticker.pc = "list" /\ Listed(p))'
           /\ ~(ticker.pc = "scan" /\ Listed(p) /\ p \in ticker.todo)'
    BY <1>1, <1>3, <1>4, <2>1, PlainPoll DEF Announced, Listed, Unseen
  <2> QED BY <1>5, <2>2 DEF Spent
<1>6. CASE ev.kind = "updated"
  <2>1. ledger \subseteq ledger'
    BY Zenon DEF Next, HostStep, Watch, Unwatch, TaskAdd, TaskAddInsert, ListOpenPrs, ListingStep,
           ReadListing, EndListing, ScanStep, ScanPr, ScanClosed, ScanDone, Coordinator, CoordRecv,
           CoordEnsure, CoordInsert, CoordReplay, MonitorStep, MonPoll, MonDrain, MonGetPr,
           MonGetDiff, MonPrompt, Crash, vars
  <2>2. LedgerKey(p, ev.rev) \in ledger
    BY <1>6 DEF Spent
  <2>3. LedgerKey(p, ev.rev) \in ledger'
    BY <2>1, <2>2, Zenon
  <2> QED BY <1>6, <2>3 DEF Spent
<1>7. CASE ev.kind = "closed"
  <2>1. /\ host[p].state = "closed"
        /\ IF ticker.pc = "scan" THEN p \notin ticker.todo /\ ~Listed(p)
             ELSE watcher.seen[p] = NoRev /\ ~(ticker.pc = "list" /\ Listed(p))
    BY <1>7 DEF Spent
  <2>2. /\ host'[p].state = "closed"
        /\ IF ticker'.pc = "scan" THEN p \notin ticker'.todo /\ ~Listed(p)'
             ELSE watcher'.seen[p] = NoRev /\ ~(ticker'.pc = "list" /\ Listed(p)')
    BY <1>1, <1>3, <2>1, PlainPoll DEF Listed, Unseen
  <2> QED BY <1>7, <2>2 DEF Spent
<1> QED
  BY <1>1, <1>5, <1>6, <1>7

(* The poll publishes no spent event, and what it publishes is spent.      *)
LEMMA ScanSpends ==
  ASSUME TypeOK, Plain, WatcherTrue, NewsSpent, NEW ev \in Events, ScanNews(ev)
  PROVE  ~Spent(ev) /\ Spent(ev)'
<1>1. PICK p \in PRs :
        \/ /\ ScanPr(p) /\ (FirstInSession(p) \/ ~Already(p))
           /\ ev = Event(IF FirstInSession(p) THEN "opened" ELSE "updated", p, ticker.cur[p])
        \/ ScanClosed(p) /\ ev = Event("closed", p, NoRev)
  BY DEF ScanNews
<1>2. /\ ticker.cur[p] \in 0..MaxRev /\ NoRev \in 0..MaxRev
      /\ ticker \in Tickers(Len(monitors))
  BY ShepherdAssumption DEF TypeOK, Tickers, NoRev
<1>3. ReopenFree /\ Faults \cap {"record", "twice"} = {} /\ missed = {}
  BY DEF Plain, ReopenFree, NewsSpent
<1>4. ticker.pc = "scan" /\ p \in ticker.todo /\ host' = host
  BY <1>1 DEF ScanPr, ScanClosed
<1>5. ticker'.pc = "scan" /\ ticker'.cur = ticker.cur /\ ticker'.todo = ticker.todo \ {p}
  <2>1. ticker' = [ticker EXCEPT !.todo = ticker.todo \ {p}]
    BY <1>1, <1>3 DEF ScanPr, ScanClosed, Fault
  <2> QED BY <1>2, <1>4, <2>1 DEF Tickers
<1>6. CASE /\ ScanPr(p) /\ (FirstInSession(p) \/ ~Already(p))
           /\ ev = Event(IF FirstInSession(p) THEN "opened" ELSE "updated", p, ticker.cur[p])
  <2>1. ev.pr = p /\ ev.rev = ticker.cur[p]
        /\ ev.kind = IF FirstInSession(p) THEN "opened" ELSE "updated"
    BY <1>2, <1>6, EventParts
  <2>2. Listed(p)
    BY <1>6 DEF ScanPr
  <2>3. CASE FirstInSession(p)
    <3>1. ~Announced(p) /\ Announced(p)'
      BY <1>4, <1>5, <2>2, <2>3 DEF Announced, FirstInSession, Listed
    <3>2. ev.kind = "opened"
      BY <2>1, <2>3
    <3> QED BY <1>4, <2>1, <2>2, <3>1, <3>2 DEF Spent
  <2>4. CASE ~FirstInSession(p)
    <3>1. LedgerKey(p, ticker.cur[p]) \notin ledger
      BY <1>6, <2>4 DEF Already
    <3>2. LedgerKey(p, ticker.cur[p]) \in ledger'
      BY <1>3, <1>6, <2>4, <3>1 DEF ScanPr, Fault, Already
    <3>3. ev.kind = "updated"
      BY <2>1, <2>4
    <3> QED BY <2>1, <3>1, <3>2, <3>3 DEF Spent
  <2> QED BY <2>3, <2>4
<1>7. CASE ScanClosed(p) /\ ev = Event("closed", p, NoRev)
  <2>1. ev.pr = p /\ ev.kind = "closed"
    BY <1>2, <1>7, EventParts
  <2>2. ~Listed(p)
    BY <1>4, <1>7 DEF ScanClosed
  <2>3. host[p].state = "closed"
    BY <1>3, <1>4, <2>2 DEF WatcherTrue, Gone
  <2> QED BY <1>4, <1>5, <2>1, <2>2, <2>3 DEF Spent, Listed
<1> QED
  BY <1>1, <1>6, <1>7

(* Every step keeps what was published spent.                              *)
LEMMA NewsSpentStep ==
  TypeOK /\ TypeOK' /\ Plain /\ WatcherTrue /\ NewsSpent /\ [Next]_vars => NewsSpent'
<1> SUFFICES ASSUME TypeOK, TypeOK', Plain, WatcherTrue, NewsSpent, [Next]_vars PROVE NewsSpent'
  OBVIOUS
<1>1. CASE Crash
  <2>1. /\ watcher'.seen = Unseen /\ ticker'.pc = "idle" /\ monitors' = << >>
        /\ ~CoordOnEvent' /\ rx' = [s \in {0} |-> Subscribed]
    BY <1>1 DEF Crash, IdleTicker, IdleCoord, CoordOnEvent
  <2>2. \A s \in DOMAIN rx' : Pending(rx'[s]) = {}
    BY <2>1 DEF Pending, Subscribed
  <2>3. missed' = {}
    BY <1>1 DEF Crash
  <2> QED BY <2>1, <2>2, <2>3 DEF NewsSpent
<1>2. CASE ~Crash
  <2>1. ~watcher'.on => watcher'.seen = Unseen /\ ticker'.pc \notin {"list", "scan"}
    BY <1>2, PlainPoll
  <2>7. missed' = {}
    <3>1. "short" \notin Faults /\ missed = {}
      BY DEF Plain, NewsSpent
    <3>2. missed' = missed
      BY <1>2, <3>1, Zenon
         DEF Next, HostStep, Watch, Unwatch, TaskAdd, TaskAddInsert, ListOpenPrs, ListingStep,
             ReadListing, Fault, EndListing, ScanStep, ScanPr, ScanClosed, ScanDone, Coordinator,
             CoordRecv, CoordEnsure, CoordInsert, CoordReplay, MonitorStep, MonPoll, MonDrain,
             MonGetPr, MonGetDiff, MonPrompt, vars
    <3> QED BY <3>1, <3>2
  <2>2. \A ev \in Events : Spent(ev) => Spent(ev)'
    BY <1>2, SpentStays
  <2>3. /\ Len(monitors) \in Nat /\ DOMAIN rx = 0..Len(monitors)
        /\ \A s \in DOMAIN rx : rx[s] \in Receivers(Events)
        /\ \A i \in 1..Len(monitors) : monitors[i].heard \subseteq Events
    BY Shapes
  <2>4. ASSUME NEW s \in DOMAIN rx', NEW ev \in Pending(rx'[s]) PROVE Spent(ev)'
    <3>1. /\ ev \in Events
          /\ \/ s \in DOMAIN rx /\ ev \in Pending(rx[s])
             \/ ScanNews(ev)
             \/ Replays(ev) /\ CoordOnEvent
      BY <2>4, NewsFrom
    <3>2. Spent(ev) \/ Spent(ev)'
      BY <3>1, ScanSpends DEF NewsSpent, Replays
    <3> QED BY <2>2, <3>1, <3>2
  <2>5. ASSUME CoordOnEvent' PROVE Spent(coord.ev)'
    <3>1. PICK ev \in Events : ev = coord'.ev
      BY <2>5 DEF TypeOK
    <3>2. 0 \in DOMAIN rx
      BY <2>3
    <3>3. Spent(ev)
      BY <2>5, <3>1, <3>2, CoordFrom DEF NewsSpent
    <3>4. Spent(ev)'
      BY <2>2, <3>3
    <3> QED BY <3>1, <3>4 DEF Spent, Announced, Listed, LedgerKey
  <2>6. ASSUME NEW i \in 1..Len(monitors'), NEW ev \in monitors'[i].heard PROVE Spent(ev)'
    <3>1. Joins /\ \A j \in 1..Len(monitors) : Same(j) \/ Hears(j) \/ GivesUp(j)
      BY <1>2, StepFlow
    <3>2. i \in 1..Len(monitors)
      BY <2>3, <2>6, <3>1 DEF Joins
    <3>3. CASE ev \in monitors[i].heard
      BY <2>2, <2>3, <3>2, <3>3 DEF NewsSpent
    <3>4. CASE ev \notin monitors[i].heard
      <4>1. Hears(i)
        BY <2>6, <3>1, <3>2, <3>4 DEF Same, GivesUp
      <4>2. ev = Head(rx[i].buf) /\ rx[i].buf # << >> /\ i \in DOMAIN rx
        BY <2>3, <2>6, <3>2, <3>4, <4>1 DEF Hears
      <4>3. ev \in Pending(rx[i]) /\ ev \in Events
        BY <2>3, <4>2, QueueParts
      <4> QED BY <2>2, <4>2, <4>3 DEF NewsSpent
    <3> QED BY <3>3, <3>4
  <2> QED
    BY <2>1, <2>4, <2>5, <2>6, <2>7 DEF NewsSpent
<1> QED
  BY <1>1, <1>2

(* Offering what a monitor was not told, or what is not about its PR.      *)
LEMMA NoRepeatOffer ==
  ASSUME NEW r \in Receivers(Events), NEW p, NEW heard, NoRepeat(r, p, heard),
         NEW ev, ev.pr = p => ev \notin Pending(r) \cup heard
  PROVE  NoRepeat(Offer(r, ev), p, heard)
<1>1. r.buf \in Seq(Events) /\ r = [buf |-> r.buf, lagged |-> r.lagged]
  BY DEF Receivers
<1>2. ASSUME NEW q \in Seq(Events),
             \A n \in DOMAIN q : q[n] \in Pending(r),
             \A n \in DOMAIN q : q[n].pr = p =>
               /\ q[n] \notin heard
               /\ \A m \in DOMAIN q : m # n => q[m] # q[n],
             Offer(r, ev).buf = Append(q, ev)
      PROVE  NoRepeat(Offer(r, ev), p, heard)
  <2> DEFINE b == Append(q, ev)
  <2>1. /\ DOMAIN b = 1..Len(q) + 1 /\ DOMAIN q = 1..Len(q) /\ Len(q) \in Nat
        /\ b[Len(q) + 1] = ev /\ \A n \in DOMAIN q : b[n] = q[n]
    BY <1>2
  <2> HIDE DEF b
  <2>2. ASSUME NEW n \in DOMAIN b, b[n].pr = p
        PROVE  b[n] \notin heard /\ \A m \in DOMAIN b : m # n => b[m] # b[n]
    <3>1. CASE n = Len(q) + 1
      BY <1>2, <2>1, <2>2, <3>1
    <3>2. CASE n \in DOMAIN q
      <4>1. b[n] = q[n] /\ q[n] # ev
        BY <1>2, <2>1, <2>2, <3>2
      <4> QED BY <1>2, <2>1, <2>2, <3>2, <4>1
    <3> QED BY <2>1, <3>1, <3>2
  <2>3. Offer(r, ev).buf = b
    BY <1>2 DEF b
  <2> QED BY <2>2, <2>3 DEF NoRepeat
<1>3. CASE Len(r.buf) < BusCap
  <2>1. Offer(r, ev).buf = Append(r.buf, ev)
    BY <1>1, <1>3 DEF Offer
  <2> QED BY <1>1, <1>2, <2>1 DEF NoRepeat, Pending
<1>4. CASE ~(Len(r.buf) < BusCap)
  <2> DEFINE q == Tail(r.buf)
  <2>1. r.buf # << >> /\ q \in Seq(Events) /\ Len(r.buf) \in Nat
    BY <1>1, <1>4, BusCapAssumption
  <2>2. DOMAIN q = 1..Len(r.buf) - 1 /\ \A n \in DOMAIN q : q[n] = r.buf[n + 1] /\ n + 1 \in DOMAIN r.buf
    BY <1>1, <2>1
  <2>3. Offer(r, ev).buf = Append(q, ev)
    BY <1>1, <1>4 DEF Offer
  <2> HIDE DEF q
  <2>4. \A n \in DOMAIN q : q[n] \in Pending(r)
    BY <2>2 DEF Pending
  <2>5. ASSUME NEW n \in DOMAIN q, q[n].pr = p
        PROVE  q[n] \notin heard /\ \A m \in DOMAIN q : m # n => q[m] # q[n]
    BY <2>1, <2>2, <2>5 DEF NoRepeat
  <2> QED BY <1>2, <2>1, <2>3, <2>4, <2>5
<1> QED
  BY <1>3, <1>4

(* Reading the head of the queue, and counting it as heard.                *)
LEMMA NoRepeatPop ==
  ASSUME NEW r \in Receivers(Events), NEW p, NEW heard, NoRepeat(r, p, heard), r.buf # << >>
  PROVE  /\ NoRepeat(Pop(r), p, heard)
         /\ NoRepeat(Pop(r), p, heard \cup {Head(r.buf)})
<1> DEFINE q == Tail(r.buf)
<1>1. r.buf \in Seq(Events) /\ Pop(r).buf = q /\ Len(r.buf) \in Nat \ {0}
  BY DEF Receivers, Pop
<1>2. /\ DOMAIN q = 1..Len(r.buf) - 1 /\ Head(r.buf) = r.buf[1] /\ 1 \in DOMAIN r.buf
      /\ \A n \in DOMAIN q : q[n] = r.buf[n + 1] /\ n + 1 \in DOMAIN r.buf /\ n + 1 # 1
  BY <1>1
<1> HIDE DEF q
<1>3. ASSUME NEW n \in DOMAIN q, q[n].pr = p
      PROVE  q[n] \notin heard \cup {Head(r.buf)} /\ \A m \in DOMAIN q : m # n => q[m] # q[n]
  BY <1>1, <1>2, <1>3 DEF NoRepeat
<1> QED
  BY <1>1, <1>3 DEF NoRepeat

(* Every step keeps each monitor's queue free of what it was told, and the *)
(* replay free of what any monitor of the PR was told.                     *)
LEMMA ReplayStep ==
  TypeOK /\ TypeOK' /\ Plain /\ WatcherTrue /\ Registered /\ NewsSpent /\ ReplayIsNews /\ [Next]_vars
    => ReplayIsNews'
<1> SUFFICES ASSUME TypeOK, TypeOK', Plain, WatcherTrue, Registered, NewsSpent, ReplayIsNews,
                    [Next]_vars
             PROVE  ReplayIsNews'
  OBVIOUS
<1> DEFINE N == Len(monitors)
<1>1. /\ N \in Nat /\ DOMAIN rx = 0..N
      /\ \A s \in DOMAIN rx : rx[s] \in Receivers(Events)
      /\ \A i \in 1..N : i \in DOMAIN rx
  BY Shapes
<1>2. CASE Crash
  <2>1. monitors' = << >> /\ ~CoordOnEvent'
    BY <1>2 DEF Crash, IdleCoord, CoordOnEvent
  <2> QED BY <2>1 DEF ReplayIsNews
<1>3. CASE ~Crash
  <2>1. /\ Joins
        /\ \A s \in DOMAIN rx : Flow(s)
        /\ \A j \in 1..N : monitors'[j].pr = monitors[j].pr /\ (Same(j) \/ Hears(j) \/ GivesUp(j))
    BY <1>3, StepFlow
  <2>2. \A p, heard : NoRepeat(Subscribed, p, heard)
    BY DEF NoRepeat, Subscribed
  <2>3. ASSUME NEW i \in 1..N PROVE NoRepeat(rx'[i], monitors'[i].pr, monitors'[i].heard)
    <3> DEFINE r == rx[i]
               p == monitors[i].pr
               heard == monitors[i].heard
    <3>1. NoRepeat(r, p, heard)
      BY DEF ReplayIsNews
    <3>2. r \in Receivers(Events) /\ monitors'[i].pr = p
      BY <1>1, <2>1
    <3>3. CASE Hears(i)
      BY <3>1, <3>2, <3>3, NoRepeatPop DEF Hears
    <3>4. CASE rx'[i] = Subscribed
      BY <2>2, <3>4
    <3>5. CASE Same(i) /\ rx'[i] # Subscribed
      <4>1. monitors'[i].heard = heard
        BY <3>5 DEF Same
      <4>2. CASE rx'[i].buf = r.buf
        BY <3>1, <3>2, <4>1, <4>2 DEF NoRepeat
      <4>3. CASE r.buf # << >> /\ rx'[i] = Pop(r)
        BY <3>1, <3>2, <4>1, <4>3, NoRepeatPop
      <4>4. ASSUME NEW ev \in Events, ScanNews(ev) \/ Replays(ev), rx'[i] = Offer(r, ev)
            PROVE  NoRepeat(rx'[i], p, heard)
        <5>1. CASE ScanNews(ev)
          <6>1. ~Spent(ev)
            BY <5>1, ScanSpends
          <6>2. ev \notin Pending(r) \cup heard
            BY <1>1, <6>1 DEF NewsSpent
          <6> QED BY <3>1, <3>2, <4>4, <6>2, NoRepeatOffer
        <5>2. CASE Replays(ev)
          <6>1. CoordOnEvent /\ ev = coord.ev
            BY <5>2 DEF Replays, CoordReplay, CoordOnEvent
          <6>2. ev.pr = p => ev \notin Pending(r) \cup heard
            BY <6>1 DEF ReplayIsNews, Told
          <6> QED BY <3>1, <3>2, <4>4, <6>2, NoRepeatOffer
        <5> QED BY <4>4, <5>1, <5>2
      <4>5. Flow(i)
        BY <1>1, <2>1
      <4> QED
        BY <3>2, <3>5, <4>1, <4>2, <4>3, <4>4, <4>5 DEF Flow
    <3> QED
      BY <2>1, <3>3, <3>4, <3>5 DEF GivesUp
  <2>4. ASSUME NEW i \in 1..Len(monitors'), i \notin 1..N
        PROVE  rx'[i] = Subscribed /\ monitors'[i].heard = {}
    BY <1>1, <2>1, <2>4 DEF Joins
  <2>5. ASSUME CoordOnEvent', NEW i \in 1..Len(monitors'), monitors'[i].pr = coord'.ev.pr
        PROVE  coord'.ev \notin Pending(rx'[i]) \cup monitors'[i].heard
    <3>1. CASE i \in 1..N
      <4>1. CASE CoordRecv /\ monIds[coord'.ev.pr] = 0 /\ coord.pc = "recv"
        <5>1. monitors[i].pr = coord'.ev.pr
          BY <2>1, <2>5, <3>1
        <5> QED BY <1>1, <3>1, <4>1, <5>1 DEF Registered, Registering, Plain
      <4>2. CASE CoordOnEvent /\ coord'.ev = coord.ev
        <5> DEFINE ev == coord.ev
        <5>1. ev \notin Pending(rx[i]) \cup monitors[i].heard
          BY <2>1, <2>5, <3>1, <4>2 DEF ReplayIsNews, Told
        <5>2. ev \notin Pending(rx'[i])
          <6>1. ev \in Events
            BY <4>2, Shapes
          <6>2. ~ScanNews(ev)
            BY <4>2, <6>1, ScanSpends DEF NewsSpent
          <6>3. ~Replays(ev)
            <7>1. CoordReplay => ~CoordOnEvent'
              BY DEF CoordReplay, CoordOnEvent, IdleCoord
            <7> QED BY <2>5, <7>1 DEF Replays
          <6>4. i \in DOMAIN rx'
            BY <1>1, <2>1, <3>1 DEF Joins
          <6> QED BY <5>1, <6>2, <6>3, <6>4, NewsFrom
        <5>3. ev \notin monitors'[i].heard
          <6>1. CASE Hears(i)
            <7>1. rx[i] \in Receivers(Events) /\ rx[i].buf # << >>
              BY <1>1, <3>1, <6>1 DEF Hears
            <7>2. Head(rx[i].buf) \in Pending(rx[i])
              BY <7>1, QueueParts
            <7> QED BY <5>1, <6>1, <7>2 DEF Hears
          <6>2. CASE Same(i) \/ GivesUp(i)
            BY <5>1, <6>2 DEF Same, GivesUp
          <6> QED BY <2>1, <3>1, <6>1, <6>2
        <5> QED BY <4>2, <5>2, <5>3
      <4> QED
        BY <2>5, <4>1, <4>2, CoordFrom
    <3>2. CASE i \notin 1..N
      BY <2>4, <3>2, SubscribedType, QueueParts
    <3> QED BY <3>1, <3>2
  <2> QED
    BY <2>2, <2>3, <2>4, <2>5 DEF ReplayIsNews, Told
<1> QED
  BY <1>2, <1>3

(* When no record fails, every listing has each open PR once, no PR is     *)
(* reopened and neither a user's monitor nor a second watch interferes,    *)
(* nothing is published or replayed to a monitor that was told it.         *)
THEOREM ReplaysAreNews == Spec => []OnceInv
<1>1. Init => OnceInv
  <2> SUFFICES ASSUME Init PROVE OnceInv
    OBVIOUS
  <2>1. Registered
    BY DEF Init, Registered, IdleCoord
  <2>2. NewsSpent
    BY DEF Init, IdleCoord, IdleTicker, NewsSpent, CoordOnEvent, Pending, Subscribed
  <2>3. ReplayIsNews
    BY DEF Init, IdleCoord, ReplayIsNews, CoordOnEvent
  <2> QED BY <2>1, <2>2, <2>3 DEF OnceInv
<1>2. TypeOK /\ TypeOK' /\ NewsInv /\ OnceInv /\ [Next]_vars => OnceInv'
  BY RegisteredStep, NewsSpentStep, ReplayStep DEF NewsInv, OnceInv, Plain
<1> QED
  BY <1>1, <1>2, TypeCorrect, NewsIsTrue, PTL DEF Spec

(* A monitor is never handed an event a second time: the coordinator's     *)
(* replay reaches a monitor that subscribed after the event was published, *)
(* and no other.                                                           *)
THEOREM NoEventTwice == Spec => []EachEventOnce
<1>1. OnceInv => EachEventOnce
  BY DEF OnceInv, Plain, ReplayIsNews, NoRepeat, EachEventOnce
<1> QED
  BY <1>1, ReplaysAreNews, PTL

=============================================================================
