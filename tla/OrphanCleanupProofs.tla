------------------------ MODULE OrphanCleanupProofs ------------------------
(***************************************************************************)
(* The clean-up job spares the position that is held, for every number of  *)
(* positions, orders and failed cancels, unless it acts on a stale state   *)
(* without an answer to its question for the positions (Blind).            *)
(***************************************************************************)
EXTENDS OrphanCleanup, TLAPS

\* An order is of a position that has been opened.
Owned == \A i \in DOMAIN orders : orders[i].entry <= entries

\* The job has been told that the symbol is flat.
Answered == phase = "flat" \/ (phase = "stale" /\ ~Blind)

\* What is left on the list after the answer protects nothing any more.
Judged == Answered => \A i \in listed : ~Protects(i)

Inv == TypeOK /\ Owned /\ Judged

-----------------------------------------------------------------------------
(* What the operators on the book do to orders and their entries.          *)

\* The orders after a step are as many, of the same legs and positions.
SameOrders ==
    /\ orders' \in Seq(Order)
    /\ DOMAIN orders' = DOMAIN orders
    /\ \A i \in DOMAIN orders : orders'[i].entry = orders[i].entry

LEMMA WithKeeps ==
    ASSUME orders \in Seq(Order), NEW i \in DOMAIN orders,
           NEW fate \in Fates, NEW row \in Rows, With(i, fate, row)
    PROVE  SameOrders
<1>1. orders' = [orders EXCEPT ![i] =
                    [orders[i] EXCEPT !.fate = fate, !.row = row]]
  BY DEF With
<1>2. orders[i] \in Order
  OBVIOUS
<1>3. [orders[i] EXCEPT !.fate = fate, !.row = row] \in Order
  BY <1>2 DEF Order
<1>4. [orders[i] EXCEPT !.fate = fate, !.row = row].entry = orders[i].entry
  BY <1>2 DEF Order
<1> QED
  BY <1>1, <1>3, <1>4 DEF SameOrders

\* A sweep, and a start, change fates and rows alone.
SameExcept(o, p) ==
    /\ p \in Order /\ p.leg = o.leg /\ p.entry = o.entry

LEMMA MapsKeep ==
    ASSUME orders \in Seq(Order), DOMAIN orders' = DOMAIN orders,
           orders' = [i \in DOMAIN orders |-> orders'[i]],
           \A i \in DOMAIN orders : SameExcept(orders[i], orders'[i])
    PROVE  SameOrders
<1>1. DOMAIN orders = 1..Len(orders) /\ Len(orders) \in Nat
  OBVIOUS
<1>2. orders' \in [1..Len(orders) -> Order]
  BY <1>1 DEF SameExcept
<1> QED
  BY <1>1, <1>2 DEF SameOrders, SameExcept

LEMMA SweepKeeps == ASSUME Inv, Sweep PROVE SameOrders
<1>1. orders \in Seq(Order) /\ \A i \in DOMAIN orders : orders[i] \in Order
  BY DEF Inv, TypeOK
<1>2. \A o \in Order : SameExcept(o, Swept(o))
  BY DEF SameExcept, Swept, Order, Fates
<1>3. orders' = [i \in DOMAIN orders |-> Swept(orders[i])]
  BY DEF Sweep
<1>4. \A i \in DOMAIN orders : SameExcept(orders[i], orders'[i])
  BY <1>1, <1>2, <1>3
<1>5. /\ DOMAIN orders' = DOMAIN orders
      /\ orders' = [i \in DOMAIN orders |-> orders'[i]]
  BY <1>3
<1> QED
  BY <1>1, <1>4, <1>5, MapsKeep

LEMMA StartKeeps == ASSUME Inv, Start PROVE SameOrders
<1>1. orders \in Seq(Order) /\ \A i \in DOMAIN orders : orders[i] \in Order
  BY DEF Inv, TypeOK
<1>2. CASE UNCHANGED orders
  BY <1>1, <1>2 DEF SameOrders
<1>3. ASSUME NEW gone, NEW closed, Purge(gone, closed)
      PROVE  SameOrders
  <2>1. \A i \in DOMAIN orders : SameExcept(orders[i], orders'[i])
    <3> TAKE i \in DOMAIN orders
    <3> DEFINE o == orders[i]
               fate == IF i \in gone /\ o.fate = "live" THEN "swept"
                       ELSE o.fate
               row == IF i \in closed THEN "CANCELED" ELSE o.row
    <3>1. o \in Order /\ orders'[i] = [o EXCEPT !.fate = fate, !.row = row]
      BY <1>1, <1>3 DEF Order, Purge
    <3>2. fate \in Fates /\ row \in Rows
      BY <1>1 DEF Order, Fates, Rows
    <3> HIDE DEF o, fate, row
    <3>3. SameExcept(o, [o EXCEPT !.fate = fate, !.row = row])
      BY <3>1, <3>2 DEF SameExcept, Order
    <3> QED
      BY <3>1, <3>3 DEF o
  <2>2. /\ DOMAIN orders' = DOMAIN orders
        /\ orders' = [i \in DOMAIN orders |-> orders'[i]]
    BY <1>3 DEF Purge
  <2> QED
    BY <1>1, <2>1, <2>2, MapsKeep
<1> QED
  BY <1>2, <1>3 DEF Start

-----------------------------------------------------------------------------
(* The invariant.                                                          *)

\* A step that keeps the orders, opens nothing and leaves the job alone.
LEMMA Quiet ==
    ASSUME Inv, SameOrders, UNCHANGED job, entries' = entries,
           held' \in 0..Full, held = 0 => held' = 0, up' \in BOOLEAN,
           doubtful' \in BOOLEAN
    PROVE  Inv'
<1>1. TypeOK'
  BY DEF Inv, TypeOK, SameOrders, job
<1>2. Owned'
  BY DEF Inv, Owned, SameOrders
<1>3. Judged'
  <2> SUFFICES ASSUME Answered, NEW i \in listed
               PROVE  ~Protects(i)'
    BY DEF Judged, Answered, job
  <2>1. ~Protects(i) /\ i \in DOMAIN orders
    BY DEF Inv, Judged, TypeOK
  <2>2. orders'[i].entry = orders[i].entry
    BY <2>1 DEF SameOrders
  <2> QED
    BY <2>1, <2>2 DEF Protects, Inv, TypeOK
<1> QED
  BY <1>1, <1>2, <1>3 DEF Inv

LEMMA OrderAt ==
    ASSUME TypeOK, NEW i \in DOMAIN orders
    PROVE  /\ orders[i].entry \in Nat
           /\ orders[i].fate \in Fates /\ orders[i].row \in Rows
<1>1. orders[i] \in Order
  BY DEF TypeOK
<1> QED
  BY <1>1 DEF Order

LEMMA Unchanged == ASSUME Inv, UNCHANGED orders PROVE SameOrders
  BY DEF Inv, TypeOK, SameOrders

\* No step of the strategy disturbs the invariant.
LEMMA StrategyKeepsInv ==
    ASSUME Inv, Strategy, UNCHANGED job
    PROVE  Inv'
<1>1. CASE Open
  <2> \A i \in DOMAIN orders : orders[i].entry \in Nat
    BY OrderAt DEF Inv
  <2>1. TypeOK'
    <3>1. doubtful' \in BOOLEAN
      BY <1>1 DEF Open
    <3> QED
      BY <1>1, <3>1 DEF Open, Inv, TypeOK, job, Full
  <2>2. \A i \in DOMAIN orders : orders[i].entry < entries'
    BY <1>1 DEF Open, Inv, Owned, TypeOK
  <2>3. Owned'
    BY <1>1, <2>2 DEF Open, Owned, Inv, TypeOK
  <2>4. Judged'
    BY <1>1, <2>2 DEF Open, Judged, Answered, Protects, Inv, TypeOK, job
  <2> QED
    BY <2>1, <2>3, <2>4 DEF Inv
<1>2. CASE Sweep
  BY <1>2, SweepKeeps, Quiet DEF Sweep, Inv, TypeOK
<1>3. CASE Stop
  BY <1>3, Unchanged, Quiet DEF Stop, Inv, TypeOK
<1>4. CASE Start
  BY <1>4, StartKeeps, Quiet DEF Start, Inv, TypeOK
<1>5. ASSUME NEW leg \in Leg, NEW row \in {"OPEN", "none"}, Place(leg, row)
      PROVE  Inv'
  <2> DEFINE o == [leg |-> leg, entry |-> entries, fate |-> "live",
                   row |-> row]
  <2>1. o \in Order /\ o.entry = entries
    BY DEF Order, Fates, Rows, Inv, TypeOK
  <2>2. orders' = Append(orders, o) /\ orders \in Seq(Order)
    BY <1>5 DEF Place, Inv, TypeOK
  <2> HIDE DEF o
  <2>3. /\ orders' \in Seq(Order) /\ DOMAIN orders \subseteq DOMAIN orders'
        /\ \A i \in DOMAIN orders : orders'[i] = orders[i]
        /\ \A i \in DOMAIN orders' : i \in DOMAIN orders \/ orders'[i] = o
    BY <2>1, <2>2
  <2>4. TypeOK'
    BY <1>5, <2>3 DEF Place, Inv, TypeOK, job
  <2>5. Owned'
    BY <1>5, <2>1, <2>3 DEF Place, Inv, TypeOK, Owned
  <2>6. Judged'
    BY <1>5, <2>3 DEF Place, Inv, TypeOK, Judged, Answered, Protects, job
  <2> QED
    BY <2>4, <2>5, <2>6 DEF Inv
<1>6. ASSUME NEW q \in 0..Full, Reduce(q)
      PROVE  Inv'
  <2>1. doubtful' \in BOOLEAN
    BY <1>6 DEF Reduce, Inv, TypeOK
  <2>2. UNCHANGED <<entries, orders, up>> /\ held' = held - q /\ q \in 0..held
    BY <1>6 DEF Reduce
  <2>3. held' \in 0..Full /\ (held = 0 => held' = 0) /\ up' \in BOOLEAN
    BY <2>2 DEF Inv, TypeOK, Full
  <2> QED
    BY <2>1, <2>2, <2>3, Unchanged, Quiet
<1>7. ASSUME NEW i \in DOMAIN orders, Fill(i)
      PROVE  Inv'
  <2>1. orders[i].row \in Rows
    BY OrderAt DEF Inv
  <2>2. SameOrders
    BY <1>7, <2>1, WithKeeps DEF Fill, Inv, TypeOK, Fates
  <2> QED
    BY <1>7, <2>2, Quiet DEF Fill, Inv, TypeOK, Full, Quantity
<1>8. ASSUME NEW i \in DOMAIN orders, Withdraw(i) \/ Replace(i)
      PROVE  Inv'
  <2>1. orders[i].row \in Rows
    BY OrderAt DEF Inv
  <2>2. SameOrders
    BY <1>8, <2>1, WithKeeps DEF Withdraw, Replace, Inv, TypeOK, Fates
  <2> QED
    BY <1>8, <2>2, Quiet DEF Withdraw, Replace, Inv, TypeOK
<1>9. ASSUME NEW i \in DOMAIN orders, Reconcile(i)
      PROVE  Inv'
  <2>1. SameOrders
    BY <1>9, WithKeeps DEF Reconcile, Inv, TypeOK, Fates, Rows
  <2> QED
    BY <1>9, <2>1, Quiet DEF Reconcile, Inv, TypeOK
<1> QED
  BY <1>1, <1>2, <1>3, <1>4, <1>5, <1>6, <1>7, <1>8, <1>9 DEF Strategy

\* Nor does a step of the job.
LEMMA JobKeepsInv ==
    ASSUME Inv, Job
    PROVE  Inv'
<1>1. CASE ListRows
  <2>1. OpenRows \subseteq DOMAIN orders
    BY DEF OpenRows
  <2> QED
    BY <1>1, <2>1 DEF ListRows, Inv, TypeOK, Owned, Judged, Answered, book
<1>2. CASE AskPositions \/ Finish
  <2>1. PICK verdict \in {"idle", "flat", "stale"} :
          /\ Judge(verdict)
          /\ held = 0 \/ verdict = "idle" \/ (verdict = "stale" /\ Blind)
    BY <1>2 DEF AskPositions, Finish, Inv, TypeOK, Full
  <2>2. TypeOK' /\ Owned'
    BY <2>1 DEF Judge, Inv, TypeOK, Owned, book
  <2>3. Judged'
    BY <2>1 DEF Judge, Inv, TypeOK, Judged, Answered, Protects, book
  <2> QED
    BY <2>2, <2>3 DEF Inv
<1>3. ASSUME NEW i \in listed, Handle(i)
      PROVE  Inv'
  <2>1. /\ i \in DOMAIN orders
        /\ orders[i].fate \in Fates /\ orders[i].row \in Rows
    BY OrderAt DEF Inv, TypeOK
  <2>2. CASE UNCHANGED <<orders, faults>>
    BY <1>3, <2>2 DEF Handle, Inv, TypeOK, Owned, Judged, Answered, Protects
  <2>3. CASE CancelOrder(i)
    <3>1. SameOrders
      BY <2>1, <2>3, WithKeeps, Unchanged
         DEF CancelOrder, Inv, TypeOK, Fates, Rows
    <3>2. faults' \in Nat
      BY <2>3 DEF CancelOrder, Inv, TypeOK
    <3>3. TypeOK' /\ Owned'
      BY <1>3, <3>1, <3>2 DEF Handle, SameOrders, Inv, TypeOK, Owned
    <3>4. Judged'
      <4> SUFFICES ASSUME Answered, NEW j \in listed
                   PROVE  ~Protects(j)'
        BY <1>3 DEF Judged, Answered, Handle
      <4>1. ~Protects(j) /\ j \in DOMAIN orders
        BY DEF Inv, Judged, TypeOK
      <4> QED
        BY <1>3, <3>1, <4>1 DEF Protects, SameOrders, Handle
    <3> QED
      BY <3>3, <3>4 DEF Inv
  <2> QED
    BY <1>3, <2>2, <2>3 DEF Handle
<1> QED
  BY <1>1, <1>2, <1>3 DEF Job

LEMMA InvInductive == CleanupSpec => []Inv
<1>1. CleanupInit => Inv
  <2> SUFFICES ASSUME CleanupInit PROVE Inv
    OBVIOUS
  <2>1. doubtful \in BOOLEAN /\ up \in BOOLEAN
    BY DEF Init, CleanupInit
  <2>2. TypeOK
    BY <2>1 DEF Init, CleanupInit, TypeOK, Full
  <2>3. Owned /\ Judged
    BY DEF Init, CleanupInit, Owned, Judged, Answered, Protects
  <2> QED
    BY <2>2, <2>3 DEF Inv
<1>2. Inv /\ [Next]_vars => Inv'
  <2> SUFFICES ASSUME Inv, [Next]_vars PROVE Inv'
    OBVIOUS
  <2>1. CASE Strategy /\ UNCHANGED job
    BY <2>1, StrategyKeepsInv
  <2>2. CASE Job
    BY <2>2, JobKeepsInv
  <2>3. CASE Week
    BY <2>3 DEF Week, Inv, TypeOK, Owned, Judged, Answered, Protects, book
  <2>4. CASE UNCHANGED vars
    BY <2>4
    DEF vars, book, job, Inv, TypeOK, Owned, Judged, Answered, Protects
  <2> QED
    BY <2>1, <2>2, <2>3, <2>4 DEF Next
<1> QED
  BY <1>1, <1>2, PTL DEF CleanupSpec
-----------------------------------------------------------------------------
(* The properties of the job.                                              *)

\* What With does to each order.
LEMMA WithAt ==
    ASSUME orders \in Seq(Order), NEW i \in DOMAIN orders,
           NEW fate, NEW row, With(i, fate, row)
    PROVE  /\ orders'[i].fate = fate /\ orders'[i].row = row
           /\ \A j \in DOMAIN orders : j # i => orders'[j] = orders[j]
<1>1. orders' = [orders EXCEPT ![i] =
                    [orders[i] EXCEPT !.fate = fate, !.row = row]]
  BY DEF With
<1>2. orders[i] \in Order
  OBVIOUS
<1>3. LET o == [orders[i] EXCEPT !.fate = fate, !.row = row]
      IN o.fate = fate /\ o.row = row
  BY <1>2 DEF Order
<1> QED
  BY <1>1, <1>3

\* No step of the strategy removes an order the way the job does.
LEMMA StrategyRemovesNone ==
    ASSUME Inv, Strategy, NEW k \in DOMAIN orders, Live(k)
    PROVE  orders'[k].fate # "removed"
<1> USE DEF Live
<1>1. orders \in Seq(Order) /\ orders[k] \in Order
  BY DEF Inv, TypeOK
<1>2. CASE UNCHANGED orders
  BY <1>2
<1>3. CASE Sweep
  BY <1>1, <1>3 DEF Sweep, Swept, Order
<1>4. CASE Start
  <2>1. ASSUME NEW gone, NEW closed, Purge(gone, closed)
        PROVE  orders'[k].fate # "removed"
    BY <1>1, <2>1 DEF Order, Purge
  <2> QED
    BY <1>2, <1>4, <2>1 DEF Start
<1>5. ASSUME NEW leg \in Leg, NEW row \in {"OPEN", "none"}, Place(leg, row)
      PROVE  orders'[k].fate # "removed"
  BY <1>1, <1>5 DEF Place
<1>6. ASSUME NEW i \in DOMAIN orders,
             Fill(i) \/ Withdraw(i) \/ Replace(i) \/ Reconcile(i)
      PROVE  orders'[k].fate # "removed"
  <2>1. PICK fate, row : With(i, fate, row) /\ fate # "removed"
    BY <1>6 DEF Fill, Withdraw, Replace, Reconcile
  <2> QED
    BY <1>1, <2>1, WithAt
<1> QED
  BY <1>2, <1>3, <1>4, <1>5, <1>6 DEF Strategy, Open, Stop, Reduce

\* The state of the job and of the book stays well formed (OrphanCleanup).
THEOREM TypeCorrect == CleanupSpec => []TypeOK
<1>1. Inv => TypeOK
  BY DEF Inv
<1> QED
  BY <1>1, InvInductive, PTL

\* Only a job that acts on a stale state without an answer takes an order of
\* the position that is held off the book, whatever comes between its steps
\* (orphan_cleanup.py: execute).
THEOREM SparedUnlessBlind ==
  CleanupSpec => [][\A i \in DOMAIN orders :
    Live(i) /\ orders'[i].fate = "removed"
      => ~Protects(i) \/ (Blind /\ phase = "stale")]_vars
<1> DEFINE Spares == \A i \in DOMAIN orders :
                  Live(i) /\ orders'[i].fate = "removed"
                    => ~Protects(i) \/ (Blind /\ phase = "stale")
<1>1. Inv /\ [Next]_vars => [Spares]_vars
  <2> SUFFICES ASSUME Inv, [Next]_vars, NEW k \in DOMAIN orders,
                      Live(k), orders'[k].fate = "removed"
               PROVE  ~Protects(k) \/ (Blind /\ phase = "stale")
    OBVIOUS
  <2>1. orders'[k] # orders[k]
    BY DEF Live
  <2>2. ~Strategy
    BY StrategyRemovesNone
  <2>3. PICK i \in listed : Handle(i) /\ CancelOrder(i)
    BY <2>1, <2>2 DEF Next, Job, Week, ListRows, AskPositions, Finish, Judge,
                      Handle, vars, book
  <2>4. i \in DOMAIN orders /\ orders \in Seq(Order)
    BY DEF Inv, TypeOK
  <2>5. \E fate, row : With(i, fate, row)
    BY <2>1, <2>3 DEF CancelOrder
  <2>6. k = i
    BY <2>1, <2>4, <2>5, WithAt
  <2> QED
    BY <2>3, <2>6 DEF Handle, Inv, Judged, Answered
<1>2. [Spares]_vars => [\A i \in DOMAIN orders :
        Live(i) /\ orders'[i].fate = "removed"
          => ~Protects(i) \/ (Blind /\ phase = "stale")]_vars
  OBVIOUS
<1> QED
  BY <1>1, <1>2, InvInductive, PTL DEF CleanupSpec

\* If the exchange answers, the job takes no order of the position that is
\* held off the book (orphan_cleanup.py: execute).
THEOREM HeldSpared == ASSUME Blind = FALSE PROVE CleanupSpec => SparesHeld
<1> DEFINE Unless == \A i \in DOMAIN orders :
                  Live(i) /\ orders'[i].fate = "removed"
                    => ~Protects(i) \/ (Blind /\ phase = "stale")
           Spares == \A i \in DOMAIN orders :
                  Live(i) /\ orders'[i].fate = "removed" => ~Protects(i)
<1>1. [Unless]_vars => [Spares]_vars
  OBVIOUS
<1>2. CleanupSpec => [][Unless]_vars
  BY SparedUnlessBlind
<1>3. [][Spares]_vars => SparesHeld
  BY DEF SparesHeld
<1> QED
  BY <1>1, <1>2, <1>3, PTL

\* A row is closed as cancelled only when its order is off the book
\* (orphan_cleanup.py: _cancel_order), whether or not the exchange answers.
THEOREM RowsAreKept == CleanupSpec => RowsKept
<1> DEFINE Keeps == Job => \A i \in DOMAIN orders :
                  orders[i].row = "OPEN" /\ orders'[i].row = "CANCELED"
                  => orders'[i].fate # "live"
<1>1. Inv /\ [Next]_vars => [Keeps]_vars
  <2> SUFFICES ASSUME Inv, Job, NEW k \in DOMAIN orders,
                      orders[k].row = "OPEN", orders'[k].row = "CANCELED"
               PROVE  orders'[k].fate # "live"
    OBVIOUS
  <2>1. orders'[k] # orders[k]
    OBVIOUS
  <2>2. PICK i \in listed : CancelOrder(i)
    BY <2>1 DEF Job, ListRows, AskPositions, Finish, Judge, Handle, book
  <2>3. i \in DOMAIN orders /\ orders \in Seq(Order)
    BY DEF Inv, TypeOK
  <2>4. PICK fate, row : With(i, fate, row) /\ fate # "live"
    BY <2>1, <2>2 DEF CancelOrder, Live
  <2>5. k = i
    BY <2>1, <2>3, <2>4, WithAt
  <2> QED
    BY <2>3, <2>4, <2>5, WithAt
<1> QED
  BY <1>1, InvInductive, PTL DEF CleanupSpec, RowsKept
=============================================================================
