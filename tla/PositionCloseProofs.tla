------------------------- MODULE PositionCloseProofs -------------------------
(***************************************************************************)
(* Proofs about PositionClose, for any position, targets, step, number of  *)
(* rounds and faults.                                                      *)
(***************************************************************************)
EXTENDS PositionClose, TLAPS

-----------------------------------------------------------------------------
(* Arithmetic of the step size.                                            *)

\* Rounding to the step moves a quantity down, or up, by less than a step.
LEMMA Rounding ==
  ASSUME NEW q \in Nat
  PROVE  /\ Floor(q) \in Nat /\ Floor(q) <= q /\ q < Floor(q) + Step
         /\ Ceiling(q) \in Nat
<1> DEFINE d(x) == x \div Step
<1>1. Step \in Nat /\ Step > 0
  BY QuantityAssumption
<1>2. \A x \in Nat : d(x) \in Nat /\ d(x) * Step <= x /\ x < d(x) * Step + Step
  BY <1>1, Z3
<1>3. \A a \in Nat : a * Step \in Nat
  BY <1>1, Z3
<1> QED
  BY <1>1, <1>2, <1>3 DEF Floor, Ceiling

-----------------------------------------------------------------------------
(* The close orders.                                                       *)

\* No two close orders share an identity, and none has that of the order
\* that is being submitted.
Identities ==
  /\ \A o, p \in orders : o.id = p.id => o = p
  /\ \A o \in orders :
       /\ o.id[1] <= stage
       /\ o.id[1] = stage =>
            /\ pc # "start"
            /\ o.id[2] >= rounds
            /\ pc = "submit" => o.id[2] > rounds

\* What is counted has been executed, the order being waited for on top.
Counted ==
  /\ closed <= own
  /\ pc = "wait" => \A o \in Mine : closed + o.done <= own

\* A success has been seen: executed quantities and positions only move on.
Successes ==
  /\ outcome = "filled" => pc \in {"ended", "settled"}
  /\ SuccessReached

\* hrs closes in one stage, and forgets a position only at the end.
Managed ==
  /\ caller = "hrs" => stage = 2
  /\ caller = "hrs" /\ pc # "settled" => tracked
  /\ GuardKeepsPosition

IInv == TypeOK /\ Identities /\ Counted /\ Successes /\ Managed

LEMMA InitIInv == Init => IInv
<1> SUFFICES ASSUME Init PROVE IInv
  OBVIOUS
<1>1. TypeOK
  <2>1. /\ caller \in Callers /\ asked \in Targets /\ pos \in 0..Position
        /\ rounds \in 0..MaxRetries + 1 /\ stage \in 1..2
    BY QuantityAssumption, CallAssumption DEF Init
  <2>2. /\ protected \in BOOLEAN /\ tracked \in BOOLEAN
        /\ micro \in BOOLEAN /\ retried \in BOOLEAN
    BY DEF Init
  <2> QED
    BY <2>1, <2>2 DEF Init, TypeOK, PC, Outcome
<1>2. Identities /\ Counted
  BY DEF Init, Identities, Counted, Mine
<1>3. Successes /\ Managed
  BY DEF Init, Successes, SuccessReached, Managed, GuardKeepsPosition,
    RetryPathKept
<1> QED
  BY <1>1, <1>2, <1>3 DEF IInv

LEMMA NextIInv == IInv /\ [Next]_vars => IInv'
<1> SUFFICES ASSUME IInv, [Next]_vars PROVE IInv'
  OBVIOUS
<1> USE QuantityAssumption, CallAssumption
    DEF IInv, TypeOK, Identities, Counted, Successes, SuccessReached, Managed,
        GuardKeepsPosition, RetryPathKept, PC, Outcome, Mine, request, task,
        exchange, call, End
<1>1. CASE FillClose
  <2>0. PICK o \in orders : \E q \in 1..Lower(o.left, pos) : Executed(o, q)
    BY <1>1 DEF FillClose
  <2>1. PICK q \in 1..Lower(o.left, pos) : Executed(o, q)
    BY <2>0
  <2>2. /\ q \in Nat /\ q <= o.left /\ q <= pos
        /\ o \in [id : (1..2) \X Nat, left : Nat, done : Nat]
    BY <2>1 DEF Lower
  <2> DEFINE filled == [id |-> o.id, left |-> o.left - q, done |-> o.done + q]
  <2>3. /\ orders' = (orders \ {o}) \cup {filled}
        /\ own' = own + q /\ pos' = pos - q
        /\ UNCHANGED <<protected, pc, task, call, tracked>>
    BY <2>1 DEF Executed
  <2>4. /\ filled \in [id : (1..2) \X Nat, left : Nat, done : Nat]
        /\ filled.id = o.id /\ filled.done = o.done + q
    BY <2>2
  <2>5. TypeOK'
    BY <2>2, <2>3, <2>4
  <2>6. Identities'
    BY <2>3, <2>4
  <2>7. Counted'
    BY <2>2, <2>3, <2>4
  <2> QED
    BY <2>2, <2>3, <2>5, <2>6, <2>7
<1>2. CASE FillProtection
  BY <1>2 DEF FillProtection
<1>3. CASE Start
  <2>1. Lower(asked, pos) \in Nat /\ Floor(Lower(asked, pos)) \in Nat
    BY Rounding DEF Lower
  <2>2. Ceiling(pos) \in Nat
    BY Rounding
  <2>3. TypeOK'
    <3>1. micro' \in BOOLEAN /\ retried' \in BOOLEAN
      BY <1>3 DEF Start
    <3> QED
      BY <1>3, <2>1, <2>2, <3>1 DEF Start
  <2>4. Identities' /\ Counted' /\ Managed'
    BY <1>3 DEF Start
  <2>5. Successes'
    BY <1>3, <2>1 DEF Start
  <2> QED
    BY <2>3, <2>4, <2>5
<1>4. CASE Round
  <2>1. CASE rounds > 0 /\ closed < target /\ Remaining > 0
    <3>1. Remaining \in Nat
      BY <2>1, Rounding DEF Remaining, Lower
    <3>2. TypeOK'
      <4>1. retried' \in BOOLEAN
        BY <1>4, <2>1 DEF Round
      <4>2. rounds' = rounds - 1 /\ rounds > 0
        BY <1>4, <2>1 DEF Round
      <4>3. rounds' \in 0..MaxRetries + 1
        BY <4>2
      <4> QED
        BY <1>4, <2>1, <3>1, <4>1, <4>3 DEF Round
    <3>3. Identities' /\ Counted' /\ Successes' /\ Managed'
      BY <1>4, <2>1 DEF Round
    <3> QED
      BY <3>2, <3>3
  <2>2. CASE ~(rounds > 0 /\ closed < target /\ Remaining > 0)
    BY <1>4, <2>2 DEF Round
  <2> QED
    BY <2>1, <2>2
<1>5. CASE Submit
  BY <1>5 DEF Submit, Accepted
<1>6. CASE Reject
  BY <1>6 DEF Reject
<1>7. CASE SubmitUnknown
  BY <1>7 DEF SubmitUnknown, Accepted
<1>8. CASE Wait
  BY <1>8 DEF Wait
<1>9. CASE WaitUnknown
  BY <1>9 DEF WaitUnknown
<1>10. CASE Confirm
  BY <1>10 DEF Confirm
<1>11. CASE Finalize
  BY <1>11 DEF Finalize, Reached
<1>12. CASE Raise
  BY <1>12 DEF Raise
<1>13. CASE SecondStage
  BY <1>13 DEF SecondStage
<1>14. CASE SettleNewCoin
  BY <1>14 DEF SettleNewCoin
<1>15. CASE SettleHrs
  <2>1. TypeOK'
    <3>1. protected' \in BOOLEAN /\ tracked' \in BOOLEAN
      BY <1>15 DEF SettleHrs
    <3> QED
      BY <1>15, <3>1 DEF SettleHrs
  <2>2. Identities' /\ Counted' /\ Successes'
    BY <1>15 DEF SettleHrs
  <2>3. Managed'
    BY <1>15 DEF SettleHrs
  <2> QED
    BY <2>1, <2>2, <2>3
<1>16. CASE UNCHANGED vars
  BY <1>16 DEF vars
<1> QED
  BY <1>1, <1>2, <1>3, <1>4, <1>5, <1>6, <1>7, <1>8, <1>9, <1>10, <1>11,
     <1>12, <1>13, <1>14, <1>15, <1>16 DEF Next, Work

\* Every variable keeps its type.
THEOREM TypeCorrect == Spec => []TypeOK
BY InitIInv, NextIInv, PTL DEF Spec, IInv

\* Nothing is counted as closed that the close orders have not executed.
THEOREM CountTrue == Spec => []CountedIsDone
<1>1. IInv => CountedIsDone
  BY DEF IInv, Counted, CountedIsDone
<1> QED
  BY InitIInv, NextIInv, <1>1, PTL DEF Spec

\* A success is never reported for what is still open.
THEOREM SuccessTrue == Spec => []SuccessReached
<1>1. IInv => SuccessReached
  BY DEF IInv, Successes
<1> QED
  BY InitIInv, NextIInv, <1>1, PTL DEF Spec

\* The guard of hrs keeps every position that a close has left open.
THEOREM GuardTrue == Spec => []GuardKeepsPosition
<1>1. IInv => GuardKeepsPosition
  BY DEF IInv, Managed
<1> QED
  BY InitIInv, NextIInv, <1>1, PTL DEF Spec

-----------------------------------------------------------------------------
(* How much one call closes.  Of the executed quantity, what is neither    *)
(* counted nor executed by the order of this round was executed by an      *)
(* order whose result stayed unknown.                                      *)

NoStray == \A o \in orders \ Mine : o.done = 0
Taken == own - before

OneCall ==
  /\ before <= own
  /\ target <= asked
  /\ (\A o \in orders : o.done = 0) =>
       /\ pc = "start" => own = before
       /\ pc \in {"round", "submit", "wait", "confirm", "final"} =>
            Taken = closed
  /\ pc = "submit" /\ ~micro => closed + qty <= target
  /\ NoStray =>
       /\ micro => Taken + pos < Step
       /\ pc = "wait" => \A o \in Mine : Taken = closed + o.done
       /\ \A o \in Mine : o.done + o.left = qty
       /\ ~micro => /\ Taken <= target
                    /\ \A o \in Mine : Taken + o.left <= target

Bounded == asked >= Step => OneCall

LEMMA InitBounded == Init => Bounded
BY QuantityAssumption DEF Init, Bounded, OneCall, Taken, Mine, NoStray

LEMMA NextBounded == IInv /\ IInv' /\ Bounded /\ [Next]_vars => Bounded'
<1> SUFFICES ASSUME IInv, IInv', Bounded, [Next]_vars, asked' >= Step
             PROVE  OneCall'
  BY DEF Bounded
<1> USE QuantityAssumption, CallAssumption
    DEF IInv, TypeOK, Mine, request, task, exchange, call, End, Taken
<1>0. asked' = asked
  BY DEF Next, FillClose, FillProtection, Executed, Work, Start,
    Round, Submit, Reject, SubmitUnknown, Wait, WaitUnknown, Confirm, Finalize,
    Raise, SecondStage, SettleNewCoin, SettleHrs, vars
<1>a. OneCall
  BY <1>0 DEF Bounded
<1> USE <1>a DEF OneCall, NoStray
<1>1. CASE FillClose
  <2>0. PICK o \in orders : \E q \in 1..Lower(o.left, pos) : Executed(o, q)
    BY <1>1 DEF FillClose
  <2>1. PICK q \in 1..Lower(o.left, pos) : Executed(o, q)
    BY <2>0
  <2>2. /\ q \in Nat /\ q > 0 /\ q <= o.left /\ q <= pos
        /\ o \in [id : (1..2) \X Nat, left : Nat, done : Nat]
    BY <2>1 DEF Lower
  <2> DEFINE filled == [id |-> o.id, left |-> o.left - q, done |-> o.done + q]
  <2>3. /\ orders' = (orders \ {o}) \cup {filled}
        /\ own' = own + q /\ pos' = pos - q
        /\ UNCHANGED <<protected, pc, task, call, tracked>>
    BY <2>1 DEF Executed
  <2>4. filled.id = o.id /\ filled.done = o.done + q /\ filled.left = o.left - q
    OBVIOUS
  <2>5. filled \in orders' /\ filled.done > 0
    BY <2>2, <2>3, <2>4
  <2>6. CASE o \in Mine
    <3>1. /\ \A p \in Mine : p = o
          /\ filled \in Mine'
          /\ \A p \in Mine' : p = filled
          /\ (orders \ Mine)' = orders \ Mine
      BY <2>3, <2>4, <2>6 DEF Identities
    <3> QED
      BY <2>2, <2>3, <2>4, <2>5, <3>1
  <2>7. CASE o \notin Mine
    <3>1. filled \in (orders \ Mine)'
      BY <2>3, <2>4, <2>5, <2>7
    <3> QED
      BY <2>2, <2>3, <2>5, <3>1
  <2> QED
    BY <2>6, <2>7
<1>2. CASE FillProtection
  BY <1>2 DEF FillProtection
<1>3. CASE Start
  <2> DEFINE low == Lower(asked, pos)
  <2>1. low \in Nat /\ low <= asked /\ low <= pos /\ (low = asked \/ low = pos)
    BY DEF Lower
  <2>2. Floor(low) \in Nat /\ Floor(low) <= low /\ low < Floor(low) + Step
    BY <2>1, Rounding
  <2>3. asked >= Step
    BY <1>0
  <2>4. /\ target' = Floor(low) /\ closed' = 0
        /\ UNCHANGED <<own, orders, pos, asked, before, stage>>
        /\ pc = "start" /\ pc' \in {"round", "submit", "ended"}
    BY <1>3 DEF Start
  <2>5. micro' /\ pc' # "ended" => pos' < Step
    <3>1. CASE pos = 0
      BY <2>4, <3>1
    <3>2. CASE pos > 0 /\ Floor(low) > 0
      <4>1. pos # 0 /\ target' # 0
        BY <2>4, <3>2
      <4> QED
        BY <1>3, <4>1, Zenon DEF Start
    <3>3. CASE pos > 0 /\ Floor(low) = 0
      BY <2>1, <2>2, <2>3, <2>4, <3>3
    <3> QED
      BY <2>2, <3>1, <3>2, <3>3
  <2>6. pc' = "submit" => micro'
    BY <1>3 DEF Start
  <2>7. Mine = {}
    BY <2>4 DEF Identities
  <2>8. Mine' = {}
    <3>1. \A o \in orders : o.id[1] # stage
      BY <2>4 DEF Identities
    <3> QED
      BY <2>4, <3>1
  <2>9. pc' = "ended" => pos = 0 /\ UNCHANGED micro
    BY <1>3, <2>4 DEF Start
  <2>10. NoStray' => own = before
    BY <2>4, <2>7, <2>8
  <2>11. ASSUME NoStray', micro' PROVE Taken' + pos' < Step
    <3>1. own = before /\ own \in Nat /\ pos \in Nat /\ Step > 0
      BY <2>10, <2>11
    <3>2. own' = own /\ before' = before /\ pos' = pos
      BY <2>4
    <3>3. CASE pc' = "ended"
      BY <2>9, <3>1, <3>2, <3>3
    <3>4. CASE pc' # "ended"
      BY <2>5, <2>11, <3>1, <3>2, <3>4
    <3> QED
      BY <3>3, <3>4
  <2>12. (\A o \in orders : o.done = 0) => own = before
    BY <2>4
  <2> QED
    BY <2>1, <2>2, <2>4, <2>6, <2>8, <2>10, <2>11, <2>12
<1>4. CASE Round
  <2>1. CASE rounds > 0 /\ closed < target /\ Remaining > 0
    <3> DEFINE low == Lower(target - closed, pos)
    <3>1. low \in Nat /\ low <= target - closed
      BY <2>1 DEF Lower
    <3>2. /\ qty' = Floor(low) /\ rounds' = rounds - 1 /\ pc' = "submit"
          /\ UNCHANGED <<exchange, task, target, closed, micro>>
          /\ pc = "round"
      BY <1>4, <2>1 DEF Round, Remaining
    <3>3. Floor(low) \in Nat /\ Floor(low) <= low
      BY <3>1, Rounding
    <3>4. Mine' = {}
      BY <1>4, <3>2 DEF Identities
    <3>5. NoStray' => NoStray /\ \A o \in orders : o.done = 0
      BY <3>2, <3>4
    <3> QED
      BY <3>1, <3>2, <3>3, <3>4, <3>5
  <2>2. CASE ~(rounds > 0 /\ closed < target /\ Remaining > 0)
    BY <1>4, <2>2 DEF Round
  <2> QED
    BY <2>1, <2>2
<1>5. ASSUME pc = "submit", pc' \in {"wait", "confirm"}, Accepted,
             UNCHANGED <<pos, own, task, call>>
      PROVE  OneCall'
  <2> DEFINE new == [id |-> <<stage, rounds>>, left |-> qty, done |-> 0]
  <2>1. orders' = orders \cup {new}
    BY <1>5 DEF Accepted
  <2>2. Mine = {}
    BY <1>5 DEF Identities
  <2>3. new.id = <<stage, rounds>> /\ new.left = qty /\ new.done = 0
    OBVIOUS
  <2>4. Mine' = {new} /\ (orders \ Mine)' = orders
    BY <1>5, <2>1, <2>2, <2>3
  <2>5. NoStray' => \A o \in orders : o.done = 0
    BY <2>4
  <2> QED
    BY <1>5, <2>1, <2>2, <2>3, <2>4, <2>5
<1>6. CASE Submit
  BY <1>5, <1>6 DEF Submit
<1>6a. CASE SubmitUnknown
  <2>1. CASE Accepted
    BY <1>5, <1>6a, <2>1 DEF SubmitUnknown
  <2>2. CASE UNCHANGED orders
    BY <1>6a, <2>2 DEF SubmitUnknown
  <2> QED
    BY <1>6a, <2>1, <2>2 DEF SubmitUnknown
<1>7. CASE Reject
  BY <1>7 DEF Reject
<1>8. CASE Wait
  <2>1. PICK o \in Mine : closed' = closed + o.done
    BY <1>8 DEF Wait
  <2>2. /\ orders' = orders \ Mine /\ pc = "wait" /\ pc' = "confirm"
        /\ UNCHANGED <<pos, own, task, target, qty, micro, rounds>>
    BY <1>8 DEF Wait
  <2>3. /\ Mine' = {} /\ orders' = orders \ Mine
        /\ (orders \ Mine)' = orders \ Mine
    BY <2>2
  <2> QED
    BY <2>1, <2>2, <2>3
<1>9. CASE WaitUnknown
  <2>1. PICK o \in Mine : closed' \in {closed, closed + o.done}
    BY <1>9 DEF WaitUnknown
  <2>2. /\ pc = "wait" /\ pc' = "confirm"
        /\ UNCHANGED <<pos, orders, own, task, target, qty, micro, rounds>>
    BY <1>9 DEF WaitUnknown
  <2>3. Mine' = Mine /\ o \in orders /\ o.done \in Nat
    BY <2>2
  <2> QED
    BY <2>1, <2>2, <2>3
<1>10. CASE Confirm
  BY <1>10 DEF Confirm
<1>11. CASE Finalize
  BY <1>11 DEF Finalize
<1>12. CASE Raise
  BY <1>12 DEF Raise
<1>13. CASE SecondStage
  <2>1. /\ stage = 1 /\ stage' = 2 /\ before' = own /\ pc' = "start"
        /\ UNCHANGED <<request, exchange, call>>
    BY <1>13 DEF SecondStage
  <2>2. \A o \in orders : o.id[1] <= 1
    BY <2>1 DEF Identities
  <2>3. Mine' = {}
    BY <2>1, <2>2
  <2>4. NoStray' => NoStray
    BY <2>1, <2>3
  <2> QED
    BY <2>1, <2>3, <2>4
<1>14. CASE SettleNewCoin \/ SettleHrs
  BY <1>14 DEF SettleNewCoin, SettleHrs
<1>15. CASE UNCHANGED vars
  BY <1>15 DEF vars
<1> QED
  BY <1>1, <1>2, <1>3, <1>4, <1>6, <1>7, <1>8, <1>9, <1>10, <1>11, <1>12,
     <1>13, <1>14, <1>15, <1>6a DEF Next, Work

\* A call asked for at least a step takes no more off the position than it was
\* asked for, unless an order whose result stayed unknown has executed.
THEOREM NoOverClose == Spec => []NeverOverCloses
<1>1. IInv /\ Bounded => NeverOverCloses
  <2> SUFFICES ASSUME IInv, OneCall, ~StrayExecuted, asked >= Step
               PROVE  own - before <= asked
    BY DEF Bounded, NeverOverCloses
  <2>1. NoStray
    BY DEF NoStray, StrayExecuted, IInv, TypeOK
  <2>2. Step \in Nat /\ asked \in Nat
    BY QuantityAssumption DEF IInv, TypeOK
  <2> QED
    BY <2>1, <2>2 DEF OneCall, Taken, IInv, TypeOK
<1> QED
  BY InitIInv, NextIInv, InitBounded, NextBounded, <1>1, PTL DEF Spec
=============================================================================
