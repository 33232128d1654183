--------------------------- MODULE OrphanCleanup ---------------------------
(***************************************************************************)
(* The orphan clean-up job of the tuner beside a strategy that behaves as  *)
(* OrderBook says: a scheduled task of another process that reads the open *)
(* rows, asks the exchange for its positions and then cancels, one by one, *)
(* the orders of a symbol it believes is flat.  The strategy, the exchange *)
(* and a restart may come between any two of these steps.                  *)
(***************************************************************************)
EXTENDS OrderBook

CONSTANTS
    MaxFaults,  \* bound: cancels that fail or stay unconfirmed
    Blind       \* the question for the positions may fail

ASSUME CleanupAssumption == MaxFaults \in Nat /\ Blind \in BOOLEAN

VARIABLES
    phase,   \* where the job is
    listed,  \* the open rows it read, less those it has dealt with
    aged,    \* positions whose trades are older than the look-back
    faults   \* such cancels so far

job == <<phase, listed, aged, faults>>
vars == <<book, job>>

CleanupInit ==
    /\ Init
    /\ phase = "idle" /\ listed = {} /\ aged = 0 /\ faults = 0

\* The state of the strategy goes stale only while its process is down.
Stale == ~up

\* Seeded fault: the look-back has no end.
EverTraded == entries > 0

\* _strategy_has_position: a trade of the last 7 days, closed or not.
StrategyHasPosition == aged < entries

Week ==
    /\ aged < entries /\ aged' = aged + 1
    /\ UNCHANGED <<book, phase, listed, faults>>

\* get_open_orders.
ListRows ==
    /\ phase = "idle" /\ OpenRows # {}
    /\ phase' = "listed" /\ listed' = OpenRows
    /\ UNCHANGED <<book, aged, faults>>

\* What is judged an orphan stays listed; otherwise the pass ends.
Judge(verdict) ==
    /\ phase' = verdict
    /\ listed' = IF verdict = "idle" THEN {} ELSE listed
    /\ UNCHANGED <<book, aged, faults>>

\* Seeded fault: an open position does not stop a stale strategy's clean-up.
AskIgnoringHeld ==
    phase = "listed" /\ Judge(IF Stale THEN "stale"
                              ELSE IF held > 0 THEN "idle" ELSE "flat")

\* _get_exchange_positions and the scenarios: a symbol that is held is left
\* alone, and so is one that cannot be judged, unless the strategy is stale.
AskPositions ==
    /\ phase = "listed"
    /\ \/ Judge(IF held > 0 THEN "idle" ELSE IF Stale THEN "stale" ELSE "flat")
       \/ Blind /\ Judge(IF Stale THEN "stale" ELSE "idle")

\* Seeded fault: the row is closed although the second cancel succeeds too.
CancelUnverified(i) ==
    \/ Live(i) /\ With(i, "removed", "CANCELED") /\ faults' = faults
    \/ /\ faults < MaxFaults /\ faults' = faults + 1
       /\ With(i, orders[i].fate, "CANCELED")

\* _cancel_order: a second cancel verifies the first, and the row is closed
\* only when the exchange no longer knows the order; -2021 says it filled.
\* The first cancel may fail; so may the second or the update of the row after
\* the first has taken the order off the book.
CancelOrder(i) ==
    \/ Live(i) /\ With(i, "removed", "CANCELED") /\ faults' = faults
    \/ /\ ~Live(i) /\ faults' = faults
       /\ \E row \in {"CANCELED", "EXECUTED"} :
             /\ row = "EXECUTED" => orders[i].fate = "executed"
             /\ With(i, orders[i].fate, row)
    \/ /\ faults < MaxFaults /\ faults' = faults + 1
       /\ \/ UNCHANGED orders
          \/ Live(i) /\ With(i, "removed", orders[i].row)

\* Scenario A (stale) does not ask for recent trades, scenario B does.
Handle(i) ==
    /\ phase \in {"flat", "stale"} /\ i \in listed
    /\ IF phase = "flat" /\ StrategyHasPosition
       THEN UNCHANGED <<orders, faults>>
       ELSE CancelOrder(i)
    /\ listed' = listed \ {i}
    /\ UNCHANGED <<held, entries, up, doubtful, phase, aged>>

Finish == phase \in {"flat", "stale"} /\ listed = {} /\ Judge("idle")

Job == ListRows \/ AskPositions \/ Finish \/ \E i \in listed : Handle(i)

Next == (Strategy /\ UNCHANGED job) \/ Job \/ Week

CleanupSpec == CleanupInit /\ [][Next]_vars
FairSpec == CleanupSpec /\ WF_vars(Job) /\ WF_vars(Week)

-----------------------------------------------------------------------------
\* The state of both is well formed (all of the module).
Fates == {"live", "executed", "cancelled", "replaced", "swept", "removed"}
Rows == {"none", "OPEN", "CANCELED", "EXECUTED"}
Order == [leg: Leg, entry: Nat, fate: Fates, row: Rows]

TypeOK ==
    /\ held \in 0..Full /\ entries \in Nat /\ up \in BOOLEAN
    /\ doubtful \in BOOLEAN
    /\ orders \in Seq(Order)
    /\ phase \in {"idle", "listed", "flat", "stale"}
    /\ listed \subseteq DOMAIN orders
    /\ aged \in 0..entries /\ faults \in Nat

\* The job never takes an order off the book that was placed for the
\* position now held, although one may be opened between the question and
\* the cancel (execute, _cancel_order).
SparesHeld ==
    [][\A i \in DOMAIN orders :
         Live(i) /\ orders'[i].fate = "removed" => ~Protects(i)]_vars

\* The job closes a row as cancelled only when its order is off the book, so
\* that a live order keeps the row by which it can be found again
\* (_cancel_order, mark_order_canceled).
RowsKept ==
    [][Job => \A i \in DOMAIN orders :
         orders[i].row = "OPEN" /\ orders'[i].row = "CANCELED"
         => orders'[i].fate # "live"]_vars

Orphan(i) == held = 0 /\ i \in OpenRows /\ Live(i)

\* A recorded order that outlives its position does not stay so: it is taken
\* off the book or fills, or the symbol is put to use again, or a start of
\* the strategy has lost its row (execute).
OrphansCleared == \A i \in 1..MaxOrders : Orphan(i) ~> ~Orphan(i)
=============================================================================
