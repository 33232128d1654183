-------------------------- MODULE ProtectionOrders --------------------------
(***************************************************************************)
(* The protective orders of one btc_eth position: the hard stop, the two   *)
(* take-profit legs and the trailing stop of the tail, in three places     *)
(* that nothing keeps in step: the order book of the exchange (orders,     *)
(* held), the slots of the position object in memory (objs, cur) and the   *)
(* rows of the condition_orders table (field row of an order).             *)
(*                                                                         *)
(* One asyncio process runs the cycle update_positions, position sync,     *)
(* signal; a close that empties the position starts a detached clean-up    *)
(* that runs beside the next steps of the cycle on the same object.  The   *)
(* exchange may trigger an order between any two calls, a call may fail,   *)
(* and the process may stop and start again.                               *)
(*                                                                         *)
(* The quantity is counted in thirds of a full position (TP1, TP2, tail).  *)
(***************************************************************************)
EXTENDS Naturals, Sequences, FiniteSets

CONSTANTS
    MaxCancels,   \* cancel_retry.max_retries
    MaxRounds,    \* protection_retry.max_retries
    MaxEntries,   \* bound: positions opened in a behaviour
    MaxOrders,    \* bound: conditional orders placed in a behaviour
    MaxEvents,    \* bound: positions, failed calls and stops together
    Failing       \* the kinds of call that may fail

ASSUME ProtectionAssumption ==
    /\ {MaxCancels, MaxRounds, MaxEntries, MaxOrders, MaxEvents}
         \subseteq Nat \ {0}
    /\ Failing \subseteq {"place", "row", "lost", "cancel", "sweep", "position",
                          "partial", "startup"}

Full == 3
Legs == <<"stop", "tp1", "tp2", "trail">>   \* order of the clean-up
Leg == {Legs[k] : k \in 1..4}
Required == {"stop", "tp1", "tp2"}          \* the legs protection asks for

None == 0

VARIABLES
    held,      \* quantity of the position on the exchange
    entries,   \* positions opened so far; the last one is the current one
    orders,    \* every order accepted by the exchange, in that order
    objs,      \* PositionState objects created so far
    cur,       \* index of the object in self.positions, or None
    pc,        \* where the process is
    job,       \* its local variables there
    cleaners,  \* runs of _cleanup_position_orders that are under way
    faults,    \* failed calls and stops so far
    unswept,   \* entries one of whose cancel-all calls failed (history)
    torn       \* entries one of whose closes filled in part (history)

vars == <<held, entries, orders, objs, cur, pc, job, cleaners, faults,
          unswept, torn>>
past == <<unswept, torn>>

NoJob == [why |-> "none", q |-> 0, todo |-> {}, next |-> "none"]

Bounded == entries + faults < MaxEvents

\* A call of this kind fails.
Fails(kind) ==
    /\ kind \in Failing
    /\ Bounded
    /\ faults' = faults + 1

Works == faults' = faults

Lesser(a, b) == IF a < b THEN a ELSE b

Quantity(leg) == IF leg = "stop" THEN Full ELSE 1

-----------------------------------------------------------------------------
(* Orders, rows and slots.                                                 *)

Live(i) == orders[i].fate = "live"
OpenRows == {i \in DOMAIN orders : orders[i].row = "OPEN"}

\* Rows of one order_type: the trailing stop is recorded as a STOP_LOSS.
StopRows == {i \in OpenRows : orders[i].leg \in {"stop", "trail"}}
TpRows(leg) == {i \in OpenRows : orders[i].leg = leg}
RowsOf(leg) == IF leg = "stop" THEN StopRows ELSE TpRows(leg)

First(S) == IF S = {} THEN None ELSE CHOOSE i \in S : \A j \in S : i <= j

\* entry: the position it was made for; None when it was found, not opened.
NewObject(q, entry) ==
    [entry |-> entry, initial |-> q, qty |-> q,
     slot |-> [l \in Leg |-> None], tp1 |-> FALSE, tp2 |-> FALSE,
     pending |-> TRUE, rounds |-> 0, cancelPending |-> FALSE,
     fails |-> [l \in Leg |-> 0]]

Obj == objs[cur]
Open == cur # None /\ Obj.qty > 0

\* Seeded fault: complete as soon as the hard stop is placed.
CompleteWithStop(obj) == obj.slot["stop"] # None

\* protection_complete: decided by the slots alone.
Complete(obj) == \A l \in Required : obj.slot[l] # None

\* Seeded fault: a round places every leg again.
MissingAll(obj) == Required

Missing(obj) == {l \in Required : obj.slot[l] = None}

\* A cancel of the object failed and is to be tried again.
Failed(obj) == \E l \in Leg : obj.fails[l] > 0
Emptied(obj) == \A l \in Leg : obj.slot[l] = None

Update(o, new) == objs' = [objs EXCEPT ![o] = new]

\* Orders leave the book: they fill, the clean-up cancels them, a new
\* trailing stop replaces them, or all of the symbol is swept.
Gone(S, fate) ==
    [i \in DOMAIN orders |->
        IF i \in S THEN [orders[i] EXCEPT !.fate = fate] ELSE orders[i]]

\* cancel_all_algo_orders: every order of the symbol goes.  The rows stay.
Sweep == orders' = Gone({i \in DOMAIN orders : Live(i)}, "swept")

-----------------------------------------------------------------------------
Init ==
    /\ held = 0 /\ entries = 0 /\ orders = <<>> /\ objs = <<>>
    /\ cur = None /\ pc = "monitor" /\ job = NoJob /\ cleaners = {}
    /\ faults = 0 /\ unswept = {} /\ torn = {}

(* The exchange: an order is triggered and fills.  It only reduces, and it *)
(* does not ask which position it was placed for.                          *)
Trigger(i) ==
    /\ Live(i) /\ held > 0
    /\ held' = held - Lesser(Quantity(orders[i].leg), held)
    /\ orders' = Gone({i}, "executed")
    /\ UNCHANGED <<entries, objs, cur, pc, job, cleaners, faults, past>>

-----------------------------------------------------------------------------
(* Placing orders: job.todo are the legs, in the order of Legs, job.next   *)
(* what follows.                                                           *)

Goto(label) == pc' = label /\ job' = NoJob
PlaceThen(todo, next) ==
    /\ pc' = "place"
    /\ job' = [NoJob EXCEPT !.todo = todo, !.next = next]

To(label, obj) == Update(cur, obj) /\ Goto(label)

\* The end of a round (replenish_protection_round).
Judged(obj) ==
    [obj EXCEPT !.pending = ~Complete(obj),
                !.rounds = IF Complete(obj) THEN 0 ELSE @]

\* One round of replenishment: count it and place what is missing.
StartRound(obj, next) ==
    IF Missing(obj) = {} THEN To(next, Judged(obj))
    ELSE /\ Update(cur, [obj EXCEPT !.rounds = @ + 1])
         /\ PlaceThen(Missing(obj), next)

\* What follows the last of the orders: apply_protection_order_ids and
\* the first round for a new position, the verdict for a round.
AllPlaced(obj) ==
    CASE job.next = "entry" ->
           IF Complete(obj)
           THEN Update(cur, [obj EXCEPT !.pending = FALSE]) /\ Goto("monitor")
           ELSE StartRound(obj, "monitor")
      [] job.next \in {"monitor", "sync"} ->
           Update(cur, Judged(obj)) /\ Goto(job.next)
      [] job.next = "time" -> Update(cur, obj) /\ Goto("time")

\* _place_conditional_order_and_record: the row is written after the order
\* is accepted; an answer that never arrives leaves neither slot nor row.
\* Beyond MaxOrders the exchange refuses.
Place ==
    /\ pc = "place"
    /\ LET leg == Legs[First({k \in 1..4 : Legs[k] \in job.todo})]
           rest == job.todo \ {leg}
           order(row) == [leg |-> leg, entry |-> entries, fate |-> "live",
                          row |-> row]
           Go(obj) == IF rest = {} THEN AllPlaced(obj)
                      ELSE /\ Update(cur, obj) /\ pc' = pc
                           /\ job' = [job EXCEPT !.todo = rest]
       IN \/ /\ Len(orders) < MaxOrders /\ Works
             /\ orders' = Append(orders, order("OPEN"))
             /\ Go([Obj EXCEPT !.slot[leg] = Len(orders) + 1])
          \/ /\ Len(orders) < MaxOrders /\ Fails("row")
             /\ orders' = Append(orders, order("none"))
             /\ Go([Obj EXCEPT !.slot[leg] = Len(orders) + 1])
          \/ /\ Len(orders) < MaxOrders /\ Fails("lost")
             /\ orders' = Append(orders, order("none"))
             /\ Go(Obj)
          \/ /\ IF Len(orders) < MaxOrders THEN Fails("place") ELSE Works
             /\ Go(Obj) /\ UNCHANGED orders
    /\ UNCHANGED <<held, entries, cur, cleaners, past>>

\* _open_new_position, from the fill on.  Bound: only on a flat symbol.
Enter ==
    /\ pc = "signal" /\ held = 0 /\ entries < MaxEntries /\ Bounded
    /\ entries' = entries + 1
    /\ held' = Full
    /\ objs' = Append(IF cleaners = {} THEN <<>> ELSE objs,
                      NewObject(Full, entries'))
    /\ cur' = Len(objs')
    /\ PlaceThen(Required, "entry")
    /\ UNCHANGED <<orders, cleaners, faults, past>>

NoSignal ==
    /\ pc = "signal"
    /\ Goto("monitor")
    /\ UNCHANGED <<held, entries, orders, objs, cur, cleaners, faults, past>>

RetryProtection ==
    /\ pc = "replenish"
    /\ StartRound(Obj, "sync")
    /\ UNCHANGED <<held, entries, orders, cur, cleaners, faults, past>>

-----------------------------------------------------------------------------
(* Clean-up of an object: its filled slots one by one, in the order of     *)
(* Legs.  The identifier is read before the call, the slot is cleared      *)
(* after it (_cleanup_position_orders, _cancel_single_order_with_retry).   *)

\* Seeded fault: the clean-up follows the record of the symbol, not the
\* object it was started for.
CleanCurrent(who, o, obj, k) ==
    LET now == IF cur = None THEN obj ELSE Obj
        S == {j \in k + 1 .. 4 : now.slot[Legs[j]] # None}
    IN IF S = {} THEN {}
       ELSE {[who |-> who, o |-> o, k |-> First(S),
              id |-> now.slot[Legs[First(S)]]]}

CleanAfter(who, o, obj, k) ==
    LET S == {j \in k + 1 .. 4 : obj.slot[Legs[j]] # None}
    IN IF S = {} THEN {}
       ELSE {[who |-> who, o |-> o, k |-> First(S),
              id |-> obj.slot[Legs[First(S)]]]}

\* What the last lines of _cleanup_position_orders do to cancel_pending.
Ended(obj) ==
    [obj EXCEPT !.cancelPending = @ /\ ~(Emptied(obj) /\ ~Failed(obj))]

\* The end of update_positions, from one of its steps on: retry_pending_
\* cancellations, the two halves of cleanup_residual_orders, the rounds.
\* A step with nothing to do is left without an await.
Tailing == <<"retry", "residual", "rest", "replenish">>

\* retry_protection_pending, for an interval of one cycle.
Due(obj) == obj.qty > 0 /\ obj.pending /\ obj.rounds < MaxRounds

Wanted(obj) ==
    (IF obj.cancelPending /\ Failed(obj) THEN {1} ELSE {})
    \cup (IF obj.qty > 0 THEN {}
          ELSE IF ~obj.cancelPending THEN {2}
          ELSE IF ~Failed(obj) THEN {3} ELSE {})
    \cup (IF Due(obj) THEN {4} ELSE {})

From(k, obj) ==
    LET S == {j \in Wanted(obj) : j >= k}
    IN To(IF S = {} THEN "sync" ELSE Tailing[First(S)], obj)

Leave(obj) == From(1, obj)

\* self.positions loses the record; it lives on while a task uses it.
Forget(left) == cur' = None /\ objs' = IF left = {} THEN <<>> ELSE objs

\* A clean-up of the main process has ended: what its caller does then.
CleanEnds(caller, obj, left) ==
    CASE caller = "retry" -> From(2, obj) /\ UNCHANGED cur
      [] caller = "residual" /\ Failed(obj) ->
           From(3, [obj EXCEPT !.cancelPending = TRUE]) /\ UNCHANGED cur
      [] caller = "residual" /\ ~Failed(obj) -> Forget(left) /\ Goto("sync")
      [] caller = "rest" ->
           /\ From(4, [obj EXCEPT !.cancelPending = Failed(obj)])
           /\ UNCHANGED cur

CleanUp ==
    /\ pc \in {"retry", "residual", "rest"}
    /\ LET c == CleanAfter("main", cur, Obj, 0)
       IN /\ cleaners' = cleaners \cup c
          /\ IF c = {} THEN CleanEnds(pc, Ended(Obj), cleaners)
             ELSE /\ pc' = "clean" /\ job' = [NoJob EXCEPT !.next = pc]
                  /\ UNCHANGED <<objs, cur>>
    /\ UNCHANGED <<held, entries, orders, faults, past>>

Cleared(obj, leg) ==
    [obj EXCEPT !.slot[leg] = None, !.fails[leg] = 0]

\* Seeded fault: one retry more than allowed.
CountedOnceMore(obj, leg) ==
    IF obj.fails[leg] >= MaxCancels THEN Cleared(obj, leg)
    ELSE [obj EXCEPT !.fails[leg] = @ + 1]

\* _handle_cancel_retry: count, and give the order up at MaxCancels.
Counted(obj, leg) ==
    IF obj.fails[leg] + 1 >= MaxCancels THEN Cleared(obj, leg)
    ELSE [obj EXCEPT !.fails[leg] = @ + 1]

\* One cancel of a clean-up.  The others run only where the process awaits.
Clean(c) ==
    LET leg == Legs[c.k]
        After(obj) ==
            LET rest == CleanAfter(c.who, c.o, obj, c.k)
                left == (cleaners \ {c}) \cup rest
            IN /\ cleaners' = left
               /\ IF rest = {} /\ c.who = "main"
                  THEN CleanEnds(job.next, Ended(obj), left)
                  ELSE /\ Update(c.o, IF rest = {} THEN Ended(obj) ELSE obj)
                       /\ UNCHANGED <<pc, job, cur>>
    IN /\ pc \notin {"retry", "residual", "rest"}
       /\ \/ /\ Works
             /\ After(Cleared(objs[c.o], leg))
             /\ \/ /\ orders[c.id].fate # "executed"
                   /\ orders' = IF Live(c.id) THEN Gone({c.id}, "cancelled")
                                ELSE orders
                \/ /\ orders[c.id].fate = "executed"
                   /\ \E row \in {orders[c.id].row, "EXECUTED"} :
                         orders' = [orders EXCEPT ![c.id].row = row]
          \/ /\ Fails("cancel")
             /\ After(Counted(objs[c.o], leg))
             /\ UNCHANGED orders
       /\ UNCHANGED <<held, entries, past>>

-----------------------------------------------------------------------------
(* Closing part or all of the position from software (_close_position).    *)

StartClose(why, q) ==
    /\ pc' = "close_sync" /\ job' = [NoJob EXCEPT !.why = why, !.q = q]

\* What each caller does with the answer.
Return(ok, obj) ==
    LET took1 == [obj EXCEPT !.tp1 = @ \/ ok]
        took2 == [obj EXCEPT !.tp2 = @ \/ ok]
    IN CASE job.why = "TP1" /\ ok /\ obj.qty > 0 -> To("take", took1)
         [] job.why = "TP1" /\ ~ok -> To("trail", obj)
         [] job.why = "TP2" /\ obj.qty > 0 -> To("trail", took2)
         [] job.why = "TRAIL" /\ obj.qty > 0 ->  \* _rebuild_remaining_...
              IF obj.tp2 THEN To("time", obj)
              ELSE Update(cur, obj) /\ PlaceThen({"stop", "tp2"}, "time")
         [] job.why = "TIME" /\ obj.qty > 0 -> Leave(took1)
         [] OTHER -> Leave(IF job.why = "TP2" THEN took2
                           ELSE IF job.why \in {"TP1", "TIME"} THEN took1
                           ELSE obj)

\* _sync_position_with_exchange, when the exchange answers.
Synced(obj) == [obj EXCEPT !.qty = held]

CloseSync ==
    /\ pc = "close_sync"
    /\ \/ /\ Works /\ held = 0
          /\ Return(TRUE, Synced(Obj))
       \/ /\ Works /\ held > 0
          /\ Update(cur, Synced(Obj))
          /\ pc' = "close_sweep" /\ UNCHANGED job
       \/ /\ Fails("position")
          /\ pc' = "close_sweep" /\ UNCHANGED <<objs, job>>
    /\ UNCHANGED <<held, entries, orders, cur, cleaners, past>>

\* _cancel_symbol_conditional_orders: the close goes on when it fails.
CloseSweep ==
    /\ pc = "close_sweep"
    /\ \/ Works /\ Sweep /\ UNCHANGED past
       \/ /\ Fails("sweep") /\ UNCHANGED <<orders, torn>>
          /\ unswept' = unswept \cup {entries}
    /\ pc' = "close_order"
    /\ UNCHANGED <<held, entries, objs, cur, job, cleaners>>

\* The limit orders of one close: sold is what they sell in all, filled
\* whether the code counts the close as done.  Without a fault all or
\* nothing; a partial fill is tried again for the full quantity, and an
\* order that is no longer listed counts as filled.
CloseOrder(sold, filled) ==
    /\ pc = "close_order" /\ held > 0 /\ sold <= held
    /\ LET q == Lesser(job.q, Obj.qty)
           obj == [Obj EXCEPT !.qty = @ - q, !.cancelPending = (Obj.qty = q)]
       IN /\ \/ /\ Works /\ UNCHANGED torn
                /\ sold = IF filled THEN Lesser(q, held) ELSE 0
             \/ /\ Fails("partial")
                /\ filled => sold < Lesser(q, held)
                /\ torn' = torn \cup {entries}
          /\ IF filled
             THEN /\ Return(TRUE, obj)
                  /\ cleaners' = IF obj.qty > 0 THEN cleaners
                       ELSE cleaners \cup CleanAfter("task", cur, obj, 0)
             ELSE Return(FALSE, Obj) /\ UNCHANGED cleaners
    /\ held' = held - sold
    /\ UNCHANGED <<entries, orders, cur, unswept>>

\* Rejected as reduce-only: an order of the book has closed the position.
CloseRejected ==
    /\ pc = "close_order" /\ held = 0 /\ Works
    /\ Sweep
    /\ Return(TRUE, Synced(Obj))
    /\ UNCHANGED <<held, entries, cur, cleaners, past>>

-----------------------------------------------------------------------------
(* The cycle: update_positions, one symbol.                                *)

Step(from, to) ==
    /\ pc = from /\ Goto(to)
    /\ UNCHANGED <<held, entries, orders, objs, cur, cleaners, faults, past>>

Closing(from, why, q) ==
    /\ pc = from /\ Open /\ StartClose(why, q)
    /\ UNCHANGED <<held, entries, orders, objs, cur, cleaners, faults, past>>

\* No price for it, or no position left.
LeaveAt(label) ==
    /\ pc = label
    /\ IF cur = None THEN Goto("sync") /\ UNCHANGED objs ELSE Leave(Obj)
    /\ UNCHANGED <<held, entries, orders, cur, cleaners, faults, past>>

NoPosition == LeaveAt("monitor")

\* _check_liquidation_warning: all of it or a part.
Liquidation ==
    \/ Closing("monitor", "LIQ", 1)
    \/ Closing("monitor", "LIQ", Obj.qty)

\* _check_partial_take_profit: the levels already taken are inferred from
\* the quantity that is left.
Inferred(obj) ==
    IF obj.qty = 0 THEN [obj EXCEPT !.tp1 = TRUE, !.tp2 = TRUE]
    ELSE [obj EXCEPT !.tp1 = @ \/ 3 * obj.qty <= 2 * obj.initial,
                     !.tp2 = @ \/ 3 * obj.qty <= obj.initial]

TakeSync ==
    /\ pc = "monitor" /\ Open
    /\ \E obj \in {Synced(Obj), Obj} :
          /\ IF obj = Synced(Obj) THEN Works ELSE Fails("position")
          /\ LET new == Inferred(obj)
             IN IF new.qty > 0 THEN To("take", new) ELSE Leave(new)
    /\ UNCHANGED <<held, entries, orders, cur, cleaners, past>>

TakeTp1 == Closing("take", "TP1", 1) /\ ~Obj.tp1
TakeTp2 == Closing("take", "TP2", 1) /\ Obj.tp1 /\ ~Obj.tp2
TakeNone == Step("take", "trail")

\* Cancel the trailing stop; the slot is emptied whatever the answer.
CancelTrail ==
    LET i == Obj.slot["trail"]
    IN /\ Update(cur, [Obj EXCEPT !.slot["trail"] = None])
       /\ \/ i = None /\ Works /\ UNCHANGED orders
          \/ /\ i # None /\ Works
             /\ orders' = IF Live(i) THEN Gone({i}, "replaced") ELSE orders
          \/ i # None /\ Fails("cancel") /\ UNCHANGED orders

\* _handle_trailing_trigger: cancel, close the tail, rebuild the rest.
TrailTriggered ==
    /\ pc = "trail" /\ Open
    /\ CancelTrail /\ StartClose("TRAIL", 1)
    /\ UNCHANGED <<held, entries, cur, cleaners, past>>

\* _sync_trailing_stop_order: a better stop price.
TrailImproved ==
    /\ pc = "trail" /\ Open
    /\ CancelTrail /\ PlaceThen({"trail"}, "time")
    /\ UNCHANGED <<held, entries, cur, cleaners, past>>

TrailNone == Step("trail", "time")

TimeStop == Closing("time", "TIME", 1) /\ ~Obj.tp1
TimeNone == LeaveAt("time")

\* _sync_positions_with_exchange: forget what the exchange does not hold.
SyncPositions ==
    /\ pc = "sync"
    /\ \/ /\ Works
          /\ Goto(IF held = 0 THEN "signal" ELSE "monitor")
          /\ IF held = 0 THEN Forget(cleaners) ELSE UNCHANGED <<objs, cur>>
       \/ /\ Fails("position")
          /\ Goto("monitor") /\ UNCHANGED <<objs, cur>>
    /\ UNCHANGED <<held, entries, orders, cleaners, past>>

-----------------------------------------------------------------------------
(* A stop of the process and the start that follows (main.py, initialize). *)

Stop ==
    /\ entries > 0 /\ Bounded /\ faults' = faults + 1
    /\ cur' = None /\ objs' = <<>> /\ cleaners' = {}
    /\ Goto("start")
    /\ UNCHANGED <<held, entries, orders, past>>

\* The startup clean-up takes these orders off the book and closes these rows.
Purge(gone, closed) ==
    orders' = [i \in DOMAIN orders |->
        [orders[i] EXCEPT
           !.fate = IF i \in gone /\ @ = "live" THEN "swept" ELSE @,
           !.row = IF i \in closed THEN "CANCELED" ELSE @]]

\* _do_startup_orphan_cleanup.  The question for the positions may fail; the
\* sweep of the symbol may, and after it some of the single cancels; the rows
\* are closed whatever the exchange said, unless the database fails or the
\* time is up (_startup_orphan_cleanup).
StartupSweep ==
    /\ pc = "start" /\ Goto("adopt")
    /\ IF held > 0 \/ OpenRows = {} THEN Works /\ UNCHANGED orders
       ELSE \/ Works /\ Purge(DOMAIN orders, OpenRows)
            \/ /\ Fails("startup")
               /\ \E gone \in (SUBSET OpenRows) \cup {DOMAIN orders},
                     closed \in SUBSET OpenRows : Purge(gone, closed)
    /\ UNCHANGED <<held, entries, objs, cur, cleaners, past>>

\* _build_adopted_position_state: the oldest rows become the slots.
Adopted ==
    LET stops == StopRows
    IN [NewObject(held, None) EXCEPT
          !.pending = FALSE,
          !.slot = [stop  |-> First(stops), tp1 |-> First(TpRows("tp1")),
                    tp2   |-> First(TpRows("tp2")),
                    trail |-> First(stops \ {First(stops)})]]

Adoptable == /\ held > 0 /\ StopRows # {}
             /\ Cardinality(TpRows("tp1")) = 1
             /\ Cardinality(TpRows("tp2")) = 1

Adopt ==
    /\ pc = "adopt" /\ Adoptable
    /\ objs' = Append(objs, Adopted) /\ cur' = Len(objs) + 1
    /\ Goto("ensure")
    /\ UNCHANGED <<held, entries, orders, cleaners, faults, past>>

\* Not adoptable, a question failed, or the price has already reached TP1.
AdoptNot == Step("adopt", "ensure")

\* _ensure_position_protection: a leg whose row is open counts as placed.
\* A position with all three and no object stays without one.
Ensure ==
    /\ pc = "ensure"
    /\ LET has(l) == \/ cur # None /\ Obj.slot[l] # None
                     \/ RowsOf(l) # {}
           todo == {l \in Required : ~has(l)}
           slots == [l \in Leg |-> IF l = "trail" THEN None
                                   ELSE First(RowsOf(l))]
       IN IF held = 0 \/ todo = {}
          THEN Goto("monitor") /\ UNCHANGED <<objs, cur>>
          ELSE /\ cur = None
               /\ objs' = Append(objs, [NewObject(held, None)
                                        EXCEPT !.slot = slots])
               /\ cur' = Len(objs) + 1
               /\ PlaceThen(todo, "monitor")
    /\ UNCHANGED <<held, entries, orders, cleaners, faults, past>>

-----------------------------------------------------------------------------
Cycle ==
    \/ NoPosition \/ Liquidation \/ TakeSync \/ TakeTp1 \/ TakeTp2
    \/ TakeNone \/ TrailTriggered \/ TrailImproved \/ TrailNone
    \/ TimeStop \/ TimeNone \/ CleanUp \/ \E c \in cleaners : Clean(c)
    \/ RetryProtection \/ SyncPositions \/ Enter \/ NoSignal \/ Place

Close ==
    \/ CloseSync \/ CloseSweep \/ CloseRejected
    \/ \E sold \in 0..Full, filled \in BOOLEAN : CloseOrder(sold, filled)

Startup == StartupSweep \/ Adopt \/ AdoptNot \/ Ensure

Process == Cycle \/ Close \/ Startup

Exchange == \E i \in DOMAIN orders : Trigger(i)

Strategy == Process \/ Exchange \/ Stop

-----------------------------------------------------------------------------
(* What protection promises.                                               *)

\* Every order, object and clean-up is well formed, the counters stay at
\* their limits, and the process works on an object only where the code has
\* one (all of the module).
Order == [leg: Leg, entry: 1..MaxEntries,
          fate: {"live", "executed", "cancelled", "replaced", "swept"},
          row: {"none", "OPEN", "CANCELED", "EXECUTED"}]
Object == [entry: 0..MaxEntries, initial: 1..Full, qty: 0..Full,
           slot: [Leg -> 0..MaxOrders], tp1: BOOLEAN, tp2: BOOLEAN,
           pending: BOOLEAN, rounds: 0..MaxRounds, cancelPending: BOOLEAN,
           fails: [Leg -> 0..MaxCancels - 1]]
Job == [why: {"none", "LIQ", "TP1", "TP2", "TRAIL", "TIME"}, q: 0..Full,
        todo: SUBSET Leg,
        next: {"none", "entry", "monitor", "sync", "time", "retry",
               "residual", "rest"}]
Cleaner == [who: {"main", "task"}, o: Nat, k: 1..4, id: 1..MaxOrders]

Idle == {"monitor", "sync", "signal", "start", "adopt", "ensure"}
Working == {"place", "retry", "residual", "rest", "clean", "replenish",
            "take", "trail", "time", "close_sync", "close_sweep",
            "close_order"}

TypeOK ==
    /\ held \in 0..Full /\ entries \in 0..MaxEntries
    /\ orders \in Seq(Order) /\ Len(orders) <= MaxOrders
    /\ objs \in Seq(Object) /\ cur \in 0..Len(objs)
    /\ pc \in Idle \cup Working /\ job \in Job
    /\ cleaners \subseteq Cleaner
    /\ \A c \in cleaners : c.o \in DOMAIN objs /\ c.id \in DOMAIN orders
    /\ pc \in Working => cur # None

\* protection_pending of a position the process has opened is down only
\* when each required leg has been placed and nothing but the market or the
\* close's own sweep took it since
\* (protection_retry.py: protection_complete, replenish_missing_protection).
FlagHonest ==
    Open /\ ~Obj.pending /\ Obj.entry = entries =>
        \A l \in Required :
            LET i == Obj.slot[l]
            IN /\ i # None
               /\ orders[i].fate \in {"live", "executed", "swept"}

\* Retries and rebuilds never leave two recorded orders of one required leg
\* of one position on the book, unless a sweep that was to clear the way
\* for them failed (_close_position goes on without it).
OneLiveLeg ==
    \A i, j \in DOMAIN orders :
        /\ Live(i) /\ Live(j) /\ orders[i].row = "OPEN"
        /\ orders[j].row = "OPEN"
        /\ orders[i].leg = orders[j].leg /\ orders[i].leg # "trail"
        /\ orders[i].entry = orders[j].entry
        /\ orders[i].entry \notin unswept
        => i = j

\* A sweep of the position failed and a close of it filled in part: only then
\* may the process take a position for closed that is not, with orders of it
\* still on the book.
Doubtful == entries \in unswept /\ entries \in torn

\* Seen from outside, the process does what OrderBook allows: above all, no
\* clean-up, detached or not, takes away an order of the position now held
\* unless that position is doubtful, and a row is closed at the start only
\* when the symbol is flat.
Book == INSTANCE OrderBook WITH up <- pc # "start", doubtful <- Doubtful
ImplementsBook == Book!Spec

\* A position that is taken over at the start with all its protection
\* recorded has it on the book (strategy.py: _adopt_untracked_exchange_
\* positions).
AdoptedIsProtected ==
    pc = "ensure" /\ cur # None =>
        \A l \in Required :
            orders[Obj.slot[l]].fate \in {"live", "executed"}

Spec == Init /\ [][Strategy]_vars
=============================================================================
