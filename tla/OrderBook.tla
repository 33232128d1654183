----------------------------- MODULE OrderBook -----------------------------
(***************************************************************************)
(* What a btc_eth strategy promises about the conditional orders of one    *)
(* symbol, seen from outside its process: which orders it places and takes *)
(* away, and which rows of condition_orders it closes.  ProtectionOrders   *)
(* implements it; OrphanCleanup runs the tuner's job beside it.            *)
(***************************************************************************)
EXTENDS Naturals, Sequences, FiniteSets

CONSTANTS
    Leg,         \* the kinds of order placed
    MaxEntries,  \* bound: positions opened in a behaviour
    MaxOrders    \* bound: conditional orders placed in a behaviour

VARIABLES
    held,     \* quantity of the position on the exchange, in thirds
    entries,  \* positions opened so far; the last one is the current one
    orders,   \* every order accepted by the exchange, in that order
    up,       \* the process of the strategy is running
    doubtful  \* a sweep of the position failed and a close of it filled in
              \* part: the process may take it for closed

book == <<held, entries, orders, up, doubtful>>

ASSUME BookAssumption ==
    /\ Leg \subseteq {"stop", "tp1", "tp2", "trail"}
    /\ MaxEntries \in Nat /\ MaxOrders \in Nat

Full == 3
Quantity(leg) == IF leg = "stop" THEN Full ELSE 1

Live(i) == orders[i].fate = "live"
OpenRows == {i \in DOMAIN orders : orders[i].row = "OPEN"}

\* The order was placed for the position that is held now.
Protects(i) == held > 0 /\ orders[i].entry = entries

With(i, fate, row) ==
    orders' = [orders EXCEPT ![i].fate = fate, ![i].row = row]

Init == held = 0 /\ entries = 0 /\ orders = <<>> /\ up = TRUE
        /\ doubtful = FALSE

\* A position is opened (_open_new_position).
Open ==
    /\ up /\ held = 0 /\ entries < MaxEntries
    /\ entries' = entries + 1 /\ held' = Full /\ doubtful' = FALSE
    /\ UNCHANGED <<orders, up>>

\* An order is placed for the current position; its row is written unless
\* the answer was lost.
Place(leg, row) ==
    /\ up /\ entries > 0 /\ Len(orders) < MaxOrders
    /\ orders' = Append(orders, [leg |-> leg, entry |-> entries,
                                 fate |-> "live", row |-> row])
    /\ UNCHANGED <<held, entries, up, doubtful>>

\* The exchange triggers an order, whatever position it was placed for.
Fill(i) ==
    /\ Live(i) /\ held > 0
    /\ held' = IF held > Quantity(orders[i].leg)
               THEN held - Quantity(orders[i].leg) ELSE 0
    /\ With(i, "executed", orders[i].row)
    /\ UNCHANGED <<entries, up, doubtful>>

\* The position is reduced from software (_close_position).
Reduce(q) ==
    /\ up /\ q \in 0..held
    /\ held' = held - q
    /\ doubtful' \in {doubtful, TRUE}
    /\ UNCHANGED <<entries, orders, up>>

\* A clean-up cancels an order, never one that protects the position.
Withdraw(i) ==
    /\ up /\ Live(i) /\ (Protects(i) => doubtful)
    /\ With(i, "cancelled", orders[i].row)
    /\ UNCHANGED <<held, entries, up, doubtful>>

\* A trailing stop makes room for a better one, or for the close.  Both
\* kinds of stop have rows of one type, and after a restart the process may
\* take the hard stop for the trailing one.
Replace(i) ==
    /\ up /\ Live(i) /\ orders[i].leg \in {"stop", "trail"}
    /\ With(i, "replaced", orders[i].row)
    /\ UNCHANGED <<held, entries, up, doubtful>>

Swept(order) ==
    [order EXCEPT !.fate = IF @ = "live" THEN "swept" ELSE @]

\* The close of a position sweeps the symbol first; the rows stay open.
Sweep ==
    /\ up
    /\ orders' = [i \in DOMAIN orders |-> Swept(orders[i])]
    /\ UNCHANGED <<held, entries, up, doubtful>>

\* The clean-up found an executed order and says so in its row.
Reconcile(i) ==
    /\ up /\ orders[i].fate = "executed" /\ With(i, "executed", "EXECUTED")
    /\ UNCHANGED <<held, entries, up, doubtful>>

Stop == up' = FALSE /\ UNCHANGED <<held, entries, orders, doubtful>>

Purge(gone, closed) ==
    orders' = [i \in DOMAIN orders |->
        [orders[i] EXCEPT
           !.fate = IF i \in gone /\ @ = "live" THEN "swept" ELSE @,
           !.row = IF i \in closed THEN "CANCELED" ELSE @]]

\* A start of the process; orders and rows of a flat symbol may go.
Start ==
    /\ ~up /\ up' = TRUE
    /\ UNCHANGED <<held, entries, doubtful>>
    /\ \/ UNCHANGED orders
       \/ /\ held = 0
          /\ \E gone \in SUBSET DOMAIN orders, closed \in SUBSET OpenRows :
                Purge(gone, closed)

Strategy ==
    \/ Open \/ Sweep \/ Stop \/ Start
    \/ \E leg \in Leg, row \in {"OPEN", "none"} : Place(leg, row)
    \/ \E q \in 0..Full : Reduce(q)
    \/ \E i \in DOMAIN orders :
         Fill(i) \/ Withdraw(i) \/ Replace(i) \/ Reconcile(i)

\* A step of the process that leaves the book as it is costs no search for
\* an action of the strategy.
Move == book' # book /\ Strategy

Spec == Init /\ [][Move]_book
=============================================================================
