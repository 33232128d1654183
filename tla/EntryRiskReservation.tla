------------------------ MODULE EntryRiskReservation ------------------------
(***************************************************************************)
(* The durable reservations of the reduced-risk policy (account-wide).     *)
(* An entry intent of btc_eth_aggressive reserves margin in                *)
(* trading.entry_risk_reservation before anything is sent, is marked       *)
(* submitting before the POST, and keeps its margin, its slot and its      *)
(* symbol claim until a reconciliation has seen the order final and the    *)
(* symbol flat.  One advisory lock per account serialises reservations,    *)
(* submissions, reconciliations and policy activations; the exchange, the  *)
(* capital allocator and the clock do not take it.                         *)
(*                                                                         *)
(* A worker is a task that runs the entry sequence: the strategy process,  *)
(* and the old container while a deployment replaces it.  A transaction is *)
(* one step, except that the exchange reads of reconcile and the POST of   *)
(* the submission happen while the lock is held: what reconcile releases   *)
(* is freed when its transaction commits, and is rolled back when the pass *)
(* is refused, fails or dies.  Amounts are margins.                        *)
(***************************************************************************)
EXTENDS Integers, FiniteSetsExt

CONSTANTS
  Worker, NoWorker,
  Symbol,
  Intent, NoIntent, \* an intent is a signal's identity, its client order id
  SymbolOf,         \* [Intent -> Symbol]
  Margin,           \* [Intent -> Nat \ {0}], the margin of the sized entry
  Legacy,           \* [Symbol -> Nat], positions older than the policy
  Candidate,        \* the policies that may be activated: mode and cap
  Allocation,       \* the monthly allocations that may be published
  MaxSlots,         \* max_concurrent_positions
  MaxRevision,      \* bound on the policy revisions
  Expiry,           \* whether the policy in force may expire
  Others,           \* whether others may rest entry orders in the account
  LostConnection    \* whether the session that holds the lock may be lost

ASSUME NamesAssumption == NoWorker \notin Worker /\ NoIntent \notin Intent
ASSUME IntentAssumption ==
  /\ SymbolOf \in [Intent -> Symbol]
  /\ Margin \in [Intent -> Nat \ {0}]
  /\ Legacy \in [Symbol -> Nat]
ASSUME PolicyAssumption ==
  /\ Candidate \subseteq [mode : {"reduced", "monitor_only"}, cap : Nat]
  /\ Allocation \subseteq Nat
  /\ MaxSlots \in Nat
  /\ MaxRevision \in Nat
  /\ Expiry \in BOOLEAN /\ Others \in BOOLEAN /\ LostConnection \in BOOLEAN

VARIABLES
  policy,     \* the active policy: revision (0: none), mode, cap, live
  allocation, \* the strategy's active monthly allocation
  state,      \* each intent's reservation
  revision,   \* the policy revision each reservation was made under
  claimed,    \* symbols whose claim row belongs to the strategy
  lock,       \* the worker whose transaction holds the account lock
  order,      \* each intent's order on the exchange
  sent,       \* how often each intent's order was posted
  held,       \* margin of the exchange position in each symbol
  foreign,    \* whether an entry order rests that no reservation knows
  pc,         \* where each worker stands
  intent,     \* the intent of its signal
  seen,       \* what its snapshot saw; the revision it began under
  todo,       \* reservations its reconciliation has still to look at
  row,        \* the reservation whose order it has found final
  freed       \* what it has released and not committed

rules == <<policy, allocation>>
exchange == <<order, sent, held, foreign>>
book == <<state, revision, claimed>>
pass == <<todo, row, freed>>
worker == <<pc, intent, seen, pass>>
vars == <<rules, book, lock, exchange, worker>>

PC == {"idle", "reconcile", "row", "holdings", "slots", "reserve", "reserved",
       "cleared", "authorize", "sending", "flat"}
State == {"none", "reserved", "submitting", "released"}
NothingSeen == [revision |-> 0, holdings |-> 0, allocation |-> 0, owned |-> {}]

-----------------------------------------------------------------------------
Retained(i) == state[i] \in {"reserved", "submitting"}
Unreleased == {i \in Intent : Retained(i)}
RetainedIn(x) == {i \in Unreleased : SymbolOf[i] = x}
Owned == {x \in Symbol : held[x] > 0}
SumMargin(I) == MapThenSumSet(LAMBDA i : Margin[i], I)
Holdings == MapThenSumSet(LAMBDA x : held[x], Symbol)
Lower(a, b) == IF a <= b THEN a ELSE b

InForce == policy.revision > 0 /\ policy.live /\ policy.mode = "reduced"

Init ==
  /\ policy = [revision |-> 0, mode |-> "monitor_only", cap |-> 0,
               live |-> FALSE]
  /\ allocation \in Allocation
  /\ state = [i \in Intent |-> "none"]
  /\ revision = [i \in Intent |-> 0]
  /\ claimed = {}
  /\ lock = NoWorker
  /\ order = [i \in Intent |-> "none"]
  /\ sent = [i \in Intent |-> 0]
  /\ held = Legacy
  /\ foreign = FALSE
  /\ pc = [w \in Worker |-> "idle"]
  /\ intent = [w \in Worker |-> NoIntent]
  /\ seen = [w \in Worker |-> NothingSeen]
  /\ todo = [w \in Worker |-> {}]
  /\ row = [w \in Worker |-> NoIntent]
  /\ freed = [w \in Worker |-> {}]

Goto(w, label) == pc' = [pc EXCEPT ![w] = label]
Forget(w) == seen' = [seen EXCEPT ![w] = NothingSeen]
Unlock(w) == lock' = IF lock = w THEN NoWorker ELSE lock

-----------------------------------------------------------------------------
(* The policy, the allocation and the clock.                               *)

\* activate_policies: a compare-and-set of the revision under the lock.
Activate(c) ==
  /\ policy.revision < MaxRevision
  /\ lock = NoWorker
  /\ policy' = [revision |-> policy.revision + 1, mode |-> c.mode,
                cap |-> c.cap, live |-> TRUE]
  /\ UNCHANGED <<allocation, book, lock, exchange, worker>>

Expire ==
  /\ Expiry /\ policy.live
  /\ policy' = [policy EXCEPT !.live = FALSE]
  /\ UNCHANGED <<allocation, book, lock, exchange, worker>>

\* The allocator publishes without the account lock.
Allocate(a) ==
  /\ allocation' = a
  /\ a # allocation
  /\ UNCHANGED <<policy, book, lock, exchange, worker>>

\* The ownership protocol claims a symbol and releases or expires its row; the
\* trigger protect_reserved_entry_claim keeps the row of a reservation.
Claim(x) ==
  /\ claimed' = claimed \cup {x}
  /\ x \notin claimed
  /\ UNCHANGED <<rules, state, revision, lock, exchange, worker>>

Unclaim(x) ==
  /\ x \in claimed
  /\ RetainedIn(x) = {}
  /\ claimed' = claimed \ {x}
  /\ UNCHANGED <<rules, state, revision, lock, exchange, worker>>

-----------------------------------------------------------------------------
(* prepare_aggressive_entry.                                               *)

\* A signal arrives under a policy in force.
Begin(w, i) ==
  /\ pc[w] = "idle"
  /\ InForce
  /\ Goto(w, "reconcile")
  /\ intent' = [intent EXCEPT ![w] = i]
  /\ seen' = [seen EXCEPT ![w].revision = policy.revision]
  /\ UNCHANGED <<rules, book, lock, exchange, pass>>

\* A signal that already carries its reservation skips the preparation.
Resume(w) ==
  /\ pc[w] = "idle" /\ intent[w] # NoIntent
  /\ InForce
  /\ state[intent[w]] = "reserved" /\ revision[intent[w]] = policy.revision
  /\ Goto(w, "reserved")
  /\ UNCHANGED <<rules, book, lock, exchange, intent, seen, pass>>

\* Seeded fault: only intents that were not submitted are listed.
ReconcileUnsent(w) ==
  /\ pc[w] = "reconcile"
  /\ lock = NoWorker
  /\ lock' = w
  /\ todo' = [todo EXCEPT ![w] = {i \in Intent : state[i] = "reserved"}]
  /\ Goto(w, "row")
  /\ UNCHANGED <<rules, book, exchange, intent, seen, row, freed>>

\* reconcile takes the lock and lists the reservations.
Reconcile(w) ==
  /\ pc[w] = "reconcile"
  /\ lock = NoWorker
  /\ lock' = w
  /\ todo' = [todo EXCEPT ![w] = Unreleased]
  /\ Goto(w, "row")
  /\ UNCHANGED <<rules, book, exchange, intent, seen, row, freed>>

\* The order is looked up first and is final, then ...
ReadOrder(w, i) ==
  /\ pc[w] = "row"
  /\ i \in todo[w]
  /\ order[i] = "final"
  /\ todo' = [todo EXCEPT ![w] = @ \ {i}]
  /\ row' = [row EXCEPT ![w] = i]
  /\ Goto(w, "flat")
  /\ UNCHANGED <<rules, book, lock, exchange, intent, seen, freed>>

InSymbol(x) == {i \in Intent : SymbolOf[i] = x}

Release(w, i) ==
  /\ freed' = [freed EXCEPT ![w] = @ \cup {i}]
  /\ row' = [row EXCEPT ![w] = NoIntent]
  /\ Goto(w, "row")
  /\ UNCHANGED <<rules, book, lock, exchange, intent, seen, todo>>

\* Seeded fault: a final order without open orders is taken for flat.
ReleaseFinal(w) ==
  /\ pc[w] = "flat"
  /\ \A i \in InSymbol(SymbolOf[row[w]]) : order[i] # "open"
  /\ Release(w, row[w])

\* ... the symbol is flat and has no order left: the reservation is released,
\* in the transaction of the pass.
ReadFlat(w) ==
  /\ pc[w] = "flat"
  /\ LET x == SymbolOf[row[w]] IN
       /\ held[x] = 0
       /\ \A i \in InSymbol(x) : order[i] # "open"
  /\ Release(w, row[w])

\* Otherwise, or when a read fails, the reservation stays.
KeepRow(w) ==
  /\ \/ pc[w] = "row" /\ \E i \in todo[w] : todo' = [todo EXCEPT ![w] = @ \ {i}]
     \/ pc[w] = "flat" /\ UNCHANGED todo
  /\ row' = [row EXCEPT ![w] = NoIntent]
  /\ Goto(w, "row")
  /\ UNCHANGED <<rules, book, lock, exchange, intent, seen, freed>>

\* Every listed reservation has been looked at and no unknown entry order
\* rests in the account: the releases of the pass are committed together,
\* with the claim rows of their symbols.
EndReconcile(w) ==
  /\ pc[w] = "row"
  /\ todo[w] = {}
  /\ ~foreign
  /\ state' = [i \in Intent |-> IF i \in freed[w] THEN "released"
                                ELSE state[i]]
  /\ claimed' = claimed \ {SymbolOf[i] : i \in freed[w]}
  /\ freed' = [freed EXCEPT ![w] = {}]
  /\ Unlock(w)
  /\ Goto(w, "holdings")
  /\ UNCHANGED <<rules, revision, exchange, intent, seen, todo, row>>

\* The snapshot is taken without the lock: first the margin in use, ...
ReadHoldings(w) ==
  /\ pc[w] = "holdings"
  /\ seen' = [seen EXCEPT ![w].holdings = Holdings]
  /\ Goto(w, "slots")
  /\ UNCHANGED <<rules, book, lock, exchange, intent, pass>>

\* ... then the allocation and the symbols with a position.
ReadSlots(w) ==
  /\ pc[w] = "slots"
  /\ seen' = [seen EXCEPT ![w].allocation = allocation, ![w].owned = Owned]
  /\ Goto(w, "reserve")
  /\ UNCHANGED <<rules, book, lock, exchange, intent, pass>>

Book(w, i) ==
  /\ state' = [state EXCEPT ![i] = "reserved"]
  /\ revision' = [revision EXCEPT ![i] = policy.revision]
  /\ Goto(w, "reserved")
  /\ Forget(w)
  /\ UNCHANGED <<rules, claimed, lock, exchange, intent, pass>>

\* Seeded fault: only the symbols with a position occupy a slot.
SlotsOfPositions(w, i) ==
  Cardinality(seen[w].owned \cup {SymbolOf[i]}) <= MaxSlots

\* The slots and the ceiling that a new reservation must respect.
SlotsFree(w, i) ==
  Cardinality(seen[w].owned \cup {SymbolOf[j] : j \in Unreleased \cup {i}})
    <= MaxSlots

\* Seeded fault: the allocation of the snapshot is not read again.
CapOfSnapshot(w) == Lower(seen[w].allocation, policy.cap)

Cap(w) == Lower(Lower(seen[w].allocation, allocation), policy.cap)

Affordable(w, i) ==
  seen[w].holdings + SumMargin(Unreleased) + Margin[i] <= Cap(w)

Authorized(w) == InForce /\ policy.revision = seen[w].revision

\* Seeded fault: an unresolved intent in the symbol is not looked for.
ReserveBeside(w) ==
  LET i == intent[w] IN
  /\ pc[w] = "reserve" /\ lock = NoWorker /\ Authorized(w)
  /\ state[i] = "none" /\ SlotsFree(w, i) /\ Affordable(w, i)
  /\ SymbolOf[i] \in claimed
  /\ Book(w, i)

\* RiskPolicyStore.reserve, one transaction under the lock.
Reserve(w) ==
  LET i == intent[w] IN
  /\ pc[w] = "reserve"
  /\ lock = NoWorker
  /\ Authorized(w)
  /\ state[i] = "none"
  /\ RetainedIn(SymbolOf[i]) = {}
  /\ SlotsFree(w, i)
  /\ Affordable(w, i)
  /\ SymbolOf[i] \in claimed
  /\ Book(w, i)

-----------------------------------------------------------------------------
(* The rest of _place_entry_order and submit_aggressive_entry.             *)

\* The last look at the exchange position.
CheckFlat(w) ==
  /\ pc[w] = "reserved"
  /\ held[SymbolOf[intent[w]]] = 0
  /\ Goto(w, "cleared")
  /\ UNCHANGED <<rules, book, lock, exchange, intent, seen, pass>>

Marked(w, i) ==
  /\ lock = NoWorker
  /\ InForce /\ revision[i] = policy.revision
  /\ state' = [state EXCEPT ![i] = "submitting"]
  /\ Goto(w, "authorize")
  /\ UNCHANGED <<rules, revision, claimed, lock, exchange, intent, seen, pass>>

\* Seeded fault: an intent that was already submitted is marked again.
MarkAgain(w) ==
  /\ pc[w] = "cleared" /\ Retained(intent[w])
  /\ Marked(w, intent[w])

\* First transaction of submitting: the intent leaves the state reserved.
MarkSubmitting(w) ==
  /\ pc[w] = "cleared" /\ state[intent[w]] = "reserved"
  /\ Marked(w, intent[w])

\* Seeded fault: the policy is not looked at again.
AuthorizeUnseen(w) ==
  /\ pc[w] = "authorize"
  /\ lock = NoWorker
  /\ lock' = w
  /\ Goto(w, "sending")
  /\ UNCHANGED <<rules, book, exchange, intent, seen, pass>>

\* Second transaction: the policy is still the one reserved under, and the
\* lock stays held through the POST.
Authorize(w) ==
  /\ pc[w] = "authorize"
  /\ lock = NoWorker
  /\ InForce /\ revision[intent[w]] = policy.revision
  /\ lock' = w
  /\ Goto(w, "sending")
  /\ UNCHANGED <<rules, book, exchange, intent, seen, pass>>

\* The POST is accepted, whether or not its answer arrives, or refused.
Send(w) ==
  LET i == intent[w] IN
  /\ pc[w] = "sending"
  /\ sent' = [sent EXCEPT ![i] = @ + 1]
  /\ \E outcome \in {"open", "none"} : order' = [order EXCEPT ![i] = outcome]
  /\ Unlock(w)
  /\ Forget(w)
  /\ Goto(w, "idle")
  /\ UNCHANGED <<rules, book, held, foreign, intent, pass>>

\* In the loop over the reservations every error is caught (KeepRow).
InLoop(w) == pc[w] = "flat" \/ (pc[w] = "row" /\ todo[w] # {})

\* A refusal, an error or a failed check ends the entry; the transaction in
\* progress, if any, is rolled back with every release of its pass.  Only the
\* loss of its session ends the loop of a pass.
GiveUp(w) ==
  /\ pc[w] # "idle"
  /\ InLoop(w) => LostConnection
  /\ Goto(w, "idle")
  /\ Unlock(w)
  /\ Forget(w)
  /\ todo' = [todo EXCEPT ![w] = {}]
  /\ row' = [row EXCEPT ![w] = NoIntent]
  /\ freed' = [freed EXCEPT ![w] = {}]
  /\ UNCHANGED <<rules, book, exchange, intent>>

\* The process dies: the signal is lost, the reservation is not.
Crash(w) ==
  /\ intent[w] # NoIntent
  /\ Goto(w, "idle")
  /\ Unlock(w)
  /\ intent' = [intent EXCEPT ![w] = NoIntent]
  /\ Forget(w)
  /\ todo' = [todo EXCEPT ![w] = {}]
  /\ row' = [row EXCEPT ![w] = NoIntent]
  /\ freed' = [freed EXCEPT ![w] = {}]
  /\ UNCHANGED <<rules, book, exchange>>

\* The database session ends while the request is on its way.
LoseSession(w) ==
  /\ LostConnection
  /\ pc[w] = "sending"
  /\ lock = w
  /\ lock' = NoWorker
  /\ UNCHANGED <<rules, book, exchange, worker>>

-----------------------------------------------------------------------------
(* The exchange.                                                           *)

\* An order ends, filled for q: fully, in part or not at all.
Finish(i, q) ==
  /\ order[i] = "open"
  /\ order' = [order EXCEPT ![i] = "final"]
  /\ held' = [held EXCEPT ![SymbolOf[i]] = @ + q]
  /\ UNCHANGED <<rules, book, lock, sent, foreign, worker>>

\* A position is closed, by protection or by the strategy.
Close(x) ==
  /\ held[x] > 0
  /\ held' = [held EXCEPT ![x] = 0]
  /\ UNCHANGED <<rules, book, lock, order, sent, foreign, worker>>

\* Somebody else's entry order, unknown to the reservations, rests or is gone.
OtherOrder ==
  /\ Others
  /\ foreign' = ~foreign
  /\ UNCHANGED <<rules, book, lock, order, sent, held, worker>>

-----------------------------------------------------------------------------
Prepare(w) ==
  \/ \E i \in Intent : Begin(w, i) \/ ReadOrder(w, i)
  \/ Resume(w) \/ Reconcile(w) \/ ReadFlat(w) \/ KeepRow(w) \/ EndReconcile(w)
  \/ ReadHoldings(w) \/ ReadSlots(w) \/ Reserve(w)

Submit(w) ==
  CheckFlat(w) \/ MarkSubmitting(w) \/ Authorize(w) \/ Send(w)

Next ==
  \/ \E w \in Worker : Prepare(w) \/ Submit(w) \/ GiveUp(w) \/ Crash(w)
                       \/ LoseSession(w)
  \/ \E c \in Candidate : Activate(c)
  \/ \E a \in Allocation : Allocate(a)
  \/ \E x \in Symbol : Claim(x) \/ Unclaim(x) \/ Close(x)
  \/ \E i \in Intent : \E q \in 0..Margin[i] : Finish(i, q)
  \/ Expire \/ OtherOrder

Spec == Init /\ [][Next]_vars

-----------------------------------------------------------------------------
(* Properties.                                                             *)

\* The snapshots seen[w] are what ReadHoldings and ReadSlots take from these.
TypeOK ==
  /\ policy \in [revision : Nat, mode : {"reduced", "monitor_only"}, cap : Nat,
                 live : BOOLEAN]
  /\ allocation \in Nat
  /\ state \in [Intent -> State]
  /\ revision \in [Intent -> Nat]
  /\ claimed \subseteq Symbol
  /\ lock \in Worker \cup {NoWorker}
  /\ order \in [Intent -> {"none", "open", "final"}]
  /\ sent \in [Intent -> Nat]
  /\ held \in [Symbol -> Nat]
  /\ foreign \in BOOLEAN
  /\ pc \in [Worker -> PC]
  /\ intent \in [Worker -> Intent \cup {NoIntent}]
  /\ todo \in [Worker -> SUBSET Intent]
  /\ row \in [Worker -> Intent \cup {NoIntent}]
  /\ freed \in [Worker -> SUBSET Intent]

\* An order that may still fill, and the position it left, are covered by one
\* reservation that was marked submitting before the POST, and by the claim
\* row of the symbol: reconcile never releases what may still be there.
ExposureReserved ==
  /\ \A i \in Intent : order[i] = "open" => state[i] = "submitting"
  /\ \A x \in Symbol : held[x] > Legacy[x] =>
       \E i \in RetainedIn(x) : order[i] = "final"
  /\ \A i \in Unreleased : SymbolOf[i] \in claimed

\* A symbol has at most one unresolved intent, whoever reserves concurrently.
OneIntentPerSymbol ==
  \A i, j \in Unreleased : SymbolOf[i] = SymbolOf[j] => i = j

\* An intent is posted at most once, whatever is retried or restarted.
PostedOnce == \A i \in Intent : sent[i] <= 1

\* A post carries the authority of the policy it was reserved under: no other
\* revision was activated in between, and the policy allows reduced entries.
PostedUnderItsPolicy ==
  [][\A i \in Intent : sent'[i] > sent[i] =>
       revision[i] = policy.revision /\ policy.mode = "reduced"]_vars

\* When a reservation is made, the margin actually on the exchange and all that
\* may still be put there stay within the allocation and the policy's ceiling
\* of that moment, although the snapshot is older than the transaction.
Pending == {i \in Unreleased : order[i] # "final"}
CeilingHolds ==
  [][Unreleased' \subseteq Unreleased \/
     (Holdings + SumMargin(Pending))' <= Lower(allocation, policy.cap)]_vars

\* The symbols with a position or an unresolved intent fit the slots.
SlotsHold ==
  Cardinality(Owned \cup {SymbolOf[i] : i \in Unreleased}) <= MaxSlots

-----------------------------------------------------------------------------
\* New signals keep arriving while the policy is in force, no step of an entry
\* hangs, and the process does not die again and again.  Reads fail, and passes
\* are refused or fail, but no order and no symbol remains unread for ever, and
\* not every pass that released a reservation fails when it ends; nothing is
\* owed about the policy, the orders, the positions or the orders of others.
Fairness ==
  \A w \in Worker :
    /\ SF_vars(\E i \in Intent : Begin(w, i))
    /\ WF_vars(pc[w] # "idle" /\ (Prepare(w) \/ Submit(w) \/ GiveUp(w)))
    /\ SF_vars(Reconcile(w))
    /\ \A i \in Intent :
         /\ SF_vars(ReadOrder(w, i))
         /\ SF_vars(row[w] = i /\ ReadFlat(w))
         /\ SF_vars(i \in freed[w] /\ EndReconcile(w))
    /\ <>[][~Crash(w)]_vars
FairSpec == Spec /\ Fairness

\* While a policy stays in force and no unknown entry order rests, a reservation
\* whose order is final and whose symbol is flat is eventually released: it
\* does not keep margin, slot and symbol for ever, although a pass that fails
\* after the loop, or whose process dies, takes its releases back.
Settled(i) == order[i] = "final" /\ held[SymbolOf[i]] = 0
SettledReleased ==
  \A i \in Intent :
    Retained(i) /\ Settled(i) ~> ~Retained(i) \/ ~InForce \/ foreign
=============================================================================
