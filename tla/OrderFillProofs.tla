---------------------------- MODULE OrderFillProofs ----------------------------
(***************************************************************************)
(* What OrderFill promises, for every size, every number of final reads    *)
(* and every failure of the requests.  The properties are not inductive:   *)
(* they speak of the end of the wait, and the proof has to know what the   *)
(* task has read before.  Seen says that a read never runs ahead of the    *)
(* order, and Truthful that a final answer, once read, stays the order's   *)
(* state, because a final order does not change.                           *)
(***************************************************************************)
EXTENDS OrderFill, TLAPS

Waiting == {"poll", "cancel", "read"}

\* r is a view of the order: no more than it has filled, and if it names a
\* final status, the order as it is for good.
ViewOf(r) ==
  /\ r.executed <= order.executed
  /\ r.status \in Known => Final(order) /\ r = Build(order)

Seen == ViewOf(confirmed)
Truthful == ViewOf(result)

\* A read is only tried while one is left.
ReadsLeft == pc = "read" => left > 0

\* Nothing is returned before the end, and nothing by an exception.
NoEarlyResult == pc \in Waiting \cup {"raised"} => result = Nothing

Decided ==
  /\ pc = "entered" => result.executed > 0
  /\ pc = "abandoned" /\ result.status \in Known => result.executed = 0

ConfirmedKept ==
  preserve /\ pc \notin Waiting => confirmed.executed <= result.executed

IInv ==
  /\ TypeOK /\ ReadsLeft /\ Seen /\ Truthful
  /\ NoEarlyResult /\ Decided /\ ConfirmedKept

-----------------------------------------------------------------------------
(* The order and its views.                                                *)

\* What _build_result makes of an order is a result and a view of the order.
LEMMA BuildIsView ==
  ASSUME order \in OrderState
  PROVE  Build(order) \in Result /\ ViewOf(Build(order))
BY SizeAssumption DEF Build, OrderState, Result, ViewOf, Known, Final

\* Losing the status of a view leaves a view.
LEMMA UnknownIsView ==
  ASSUME TypeOK, Seen
  PROVE  /\ Unknown \in Result /\ ViewOf(Unknown)
         /\ Unknown.executed = confirmed.executed
BY DEF TypeOK, Seen, ViewOf, Unknown, Result, Known

\* Returning nothing is always a view.
LEMMA NothingIsView ==
  ASSUME order \in OrderState
  PROVE  Nothing \in Result /\ ViewOf(Nothing)
BY SizeAssumption DEF Nothing, Result, ViewOf, Known, OrderState

\* The order only grows, and when it is final it stays as it is: whatever was
\* a view of it remains one.
LEMMA ViewsLast ==
  ASSUME order \in OrderState, order' \in OrderState,
         Final(order) => order' = order,
         order.executed <= order'.executed,
         NEW r \in Result, ViewOf(r)
  PROVE  ViewOf(r)'
<1>1. order.executed \in Nat /\ order'.executed \in Nat /\ r.executed \in Nat
  BY SizeAssumption DEF OrderState, Result
<1>2. r.executed <= order'.executed
  BY <1>1 DEF ViewOf
<1>3. r.status \in Known => order' = order /\ Final(order) /\ r = Build(order)
  BY DEF ViewOf
<1> QED
  BY <1>2, <1>3 DEF ViewOf, Final, Build

\* Filling, ending or cancelling an open order respects that.
LEMMA OrderGrows ==
  ASSUME TypeOK, Fill \/ End \/ Cancel
  PROVE  /\ order' \in OrderState
         /\ Final(order) => order' = order
         /\ order.executed <= order'.executed
<1> USE SizeAssumption DEF TypeOK, OrderState, Final
<1>1. CASE Fill
  <2>1. PICK q \in order.executed + 1..Size :
          order' = [status |-> IF q = Size THEN "filled" ELSE "open",
                    executed |-> q]
    BY <1>1 DEF Fill
  <2> QED
    BY <1>1, <2>1 DEF Fill
<1>2. CASE End
  BY <1>2 DEF End
<1>3. CASE Cancel
  BY <1>3 DEF Cancel
<1> QED
  BY <1>1, <1>2, <1>3

\* What the last read makes of a view is a view, and under preserve_confirmed
\* never less than what a poll has seen.
LEMMA SettledIsView ==
  ASSUME TypeOK, Seen, NEW r \in Result, ViewOf(r)
  PROVE  /\ Settled(r) \in Result /\ ViewOf(Settled(r))
         /\ preserve => confirmed.executed <= Settled(r).executed
<1>1. confirmed.executed \in Nat /\ r.executed \in Nat
  BY SizeAssumption DEF TypeOK, Result
<1>2. CASE preserve /\ r.executed < confirmed.executed
  BY <1>1, <1>2, UnknownIsView DEF Settled
<1>3. CASE ~(preserve /\ r.executed < confirmed.executed)
  BY <1>1, <1>3 DEF Settled
<1> QED
  BY <1>2, <1>3

-----------------------------------------------------------------------------
(* The invariant is inductive.                                             *)

\* A step of the exchange, or the cancel, which leaves what was read alone.
LEMMA OrderStep ==
  ASSUME IInv, order' \in OrderState, Final(order) => order' = order,
         order.executed <= order'.executed,
         UNCHANGED <<preserve, confirmed, result>>
  PROVE  Seen' /\ Truthful'
<1>1. ViewOf(confirmed)' /\ ViewOf(result)'
  <2>1. confirmed \in Result /\ result \in Result /\ order \in OrderState
    BY DEF IInv, TypeOK
  <2>2. ViewOf(confirmed) /\ ViewOf(result)
    BY DEF IInv, Seen, Truthful
  <2>3. \A r \in Result : ViewOf(r) =>
          /\ r.executed <= order'.executed
          /\ r.status \in Known => Final(order') /\ r = Build(order')
    BY <2>1, ViewsLast DEF ViewOf, Final, Build
  <2> QED
    BY <2>1, <2>2, <2>3 DEF ViewOf, Final, Build
<1> QED
  BY <1>1 DEF Seen, Truthful

\* The wait returns a view that keeps what preserve_confirmed has confirmed.
LEMMA ReturnStep ==
  ASSUME IInv, NEW r \in Result, ViewOf(r),
         preserve => confirmed.executed <= r.executed,
         Return(r), UNCHANGED <<preserve, order, confirmed>>,
         left' \in 0..Attempts
  PROVE  IInv'
<1>1. TypeOK'
  BY DEF IInv, TypeOK, Return, PC
<1>2. Seen' /\ Truthful'
  BY DEF IInv, Seen, Truthful, ViewOf, Final, Build, Return
<1>3. ReadsLeft' /\ NoEarlyResult' /\ Decided'
  BY DEF Return, ReadsLeft, NoEarlyResult, Decided, Waiting
<1>4. ConfirmedKept'
  BY DEF Return, ConfirmedKept
<1> QED
  BY <1>1, <1>2, <1>3, <1>4 DEF IInv

\* A request that fails returns what is known, or ends the wait with an
\* exception.
LEMMA FailStep ==
  ASSUME IInv, pc \in Waiting, NEW r \in Result, ViewOf(r),
         r.executed = confirmed.executed, Fail(r)
  PROVE  IInv'
<1>1. CASE preserve
  <2>1. confirmed.executed <= r.executed
    BY SizeAssumption DEF IInv, TypeOK, Result
  <2> QED
    BY <1>1, <2>1, ReturnStep DEF Fail, IInv, TypeOK
<1>2. CASE ~preserve
  <2>1. pc' = "raised" /\ UNCHANGED <<preserve, order, confirmed, result, left>>
    BY <1>2 DEF Fail
  <2>2. TypeOK' /\ ReadsLeft' /\ NoEarlyResult' /\ Decided' /\ ConfirmedKept'
    BY <1>2, <2>1
    DEF IInv, TypeOK, PC, ReadsLeft, NoEarlyResult, Decided, ConfirmedKept,
        Waiting
  <2>3. Seen' /\ Truthful'
    BY <2>1 DEF IInv, Seen, Truthful, ViewOf, Final, Build
  <2> QED
    BY <2>2, <2>3 DEF IInv
<1> QED
  BY <1>1, <1>2

LEMMA Inductive ==
  /\ Init => IInv
  /\ IInv /\ [Next]_vars => IInv'
<1>1. ASSUME Init PROVE IInv
  <2>1. order \in OrderState /\ preserve \in Preserve
    BY <1>1 DEF Init
  <2>2. TypeOK
    BY <1>1, <2>1, BuildIsView, NothingIsView, AttemptsAssumption
    DEF Init, TypeOK, PC
  <2>3. Seen /\ Truthful
    BY <1>1, <2>1, BuildIsView, NothingIsView DEF Init, Seen, Truthful
  <2>4. ReadsLeft /\ NoEarlyResult /\ Decided /\ ConfirmedKept
    BY <1>1 DEF Init, ReadsLeft, NoEarlyResult, Decided, ConfirmedKept, Waiting
  <2> QED
    BY <2>2, <2>3, <2>4 DEF IInv
<1>2. ASSUME IInv, [Next]_vars PROVE IInv'
  <2>1. /\ TypeOK /\ ReadsLeft /\ Seen /\ Truthful
        /\ NoEarlyResult /\ Decided /\ ConfirmedKept
    BY <1>2 DEF IInv
  <2>2. order \in OrderState /\ confirmed \in Result /\ result \in Result
        /\ left \in 0..Attempts
    BY <2>1 DEF TypeOK
  <2>3. Build(order) \in Result /\ ViewOf(Build(order))
    BY <2>2, BuildIsView
  <2>4. confirmed.executed \in Nat /\ order.executed \in Nat
        /\ confirmed.executed <= order.executed
        /\ Build(order).executed = order.executed
    BY <2>1, <2>2, SizeAssumption DEF Seen, ViewOf, Result, OrderState, Build
  <2>5. CASE Fill \/ End
    <3>1. /\ order' \in OrderState
          /\ Final(order) => order' = order
          /\ order.executed <= order'.executed
      BY <2>1, <2>5, OrderGrows
    <3>2. UNCHANGED wait
      BY <2>5 DEF Fill, End
    <3>3. Seen' /\ Truthful'
      BY <1>2, <3>1, <3>2, OrderStep DEF wait
    <3>4. TypeOK' /\ ReadsLeft' /\ NoEarlyResult' /\ Decided' /\ ConfirmedKept'
      BY <2>1, <3>1, <3>2
      DEF wait, TypeOK, ReadsLeft, NoEarlyResult, Decided, ConfirmedKept
    <3> QED
      BY <3>3, <3>4 DEF IInv
  <2>6. CASE Poll
    <3>1. confirmed' \in Result /\ ViewOf(confirmed')
      BY <2>1, <2>2, <2>3, <2>6 DEF Poll, Seen
    <3>2. confirmed'.executed = order.executed
      BY <2>4, <2>6 DEF Poll
    <3>3. Seen'
      BY <2>6, <3>1 DEF Poll, Seen, ViewOf, Final, Build
    <3>4. CASE Final(order)
      <4>1. pc' = "done" /\ result' = Build(order)
        BY <2>6, <3>4 DEF Poll, Return
      <4>2. TypeOK' /\ Truthful'
        BY <2>1, <2>3, <2>6, <3>1, <4>1
        DEF Poll, TypeOK, PC, Truthful, ViewOf, Final, Build
      <4>3. ReadsLeft' /\ NoEarlyResult' /\ Decided' /\ ConfirmedKept'
        BY <2>4, <3>2, <4>1
        DEF ReadsLeft, NoEarlyResult, Decided, ConfirmedKept, Waiting
      <4> QED
        BY <3>3, <4>2, <4>3 DEF IInv
    <3>5. CASE ~Final(order)
      <4>1. UNCHANGED <<pc, result, order, preserve, left>> /\ pc = "poll"
        BY <2>6, <3>5 DEF Poll
      <4>2. TypeOK' /\ Truthful'
        BY <2>1, <3>1, <4>1 DEF TypeOK, Truthful, ViewOf, Final, Build
      <4>3. ReadsLeft' /\ NoEarlyResult' /\ Decided' /\ ConfirmedKept'
        BY <2>1, <4>1
        DEF ReadsLeft, NoEarlyResult, Decided, ConfirmedKept, Waiting
      <4> QED
        BY <3>3, <4>2, <4>3 DEF IInv
    <3> QED
      BY <3>4, <3>5
  <2>7. CASE PollFails
    BY <1>2, <2>1, <2>2, <2>7, FailStep DEF PollFails, Waiting, Seen
  <2>8. CASE Timeout
    <3>1. TypeOK' /\ ReadsLeft' /\ NoEarlyResult' /\ Decided' /\ ConfirmedKept'
      BY <2>1, <2>8
      DEF Timeout, TypeOK, PC, ReadsLeft, NoEarlyResult, Decided,
          ConfirmedKept, Waiting
    <3>2. Seen' /\ Truthful'
      BY <2>1, <2>8 DEF Timeout, Seen, Truthful, ViewOf, Final, Build
    <3> QED
      BY <3>1, <3>2 DEF IInv
  <2>9. CASE Cancel
    <3>1. /\ order' \in OrderState
          /\ Final(order) => order' = order
          /\ order.executed <= order'.executed
      BY <2>1, <2>9, OrderGrows
    <3>2. Seen' /\ Truthful'
      BY <1>2, <2>9, <3>1, OrderStep DEF Cancel
    <3>3. TypeOK' /\ ReadsLeft' /\ NoEarlyResult' /\ Decided' /\ ConfirmedKept'
      BY <2>1, <2>9, <3>1, AttemptsAssumption
      DEF Cancel, TypeOK, PC, ReadsLeft, NoEarlyResult, Decided,
          ConfirmedKept, Waiting
    <3> QED
      BY <3>2, <3>3 DEF IInv
  <2>10. CASE CancelFails
    BY <1>2, <2>1, <2>10, UnknownIsView, FailStep DEF CancelFails, Waiting
  <2>11. CASE Read
    <3>1. /\ Settled(Build(order)) \in Result /\ ViewOf(Settled(Build(order)))
          /\ preserve => confirmed.executed <= Settled(Build(order)).executed
      BY <2>1, <2>3, SettledIsView
    <3> QED
      BY <1>2, <2>2, <2>11, <3>1, ReturnStep DEF Read
  <2>12. CASE ReadMissing
    <3>1. /\ Settled(Nothing) \in Result /\ ViewOf(Settled(Nothing))
          /\ preserve => confirmed.executed <= Settled(Nothing).executed
      BY <2>1, <2>2, NothingIsView, SettledIsView
    <3>2. left - 1 \in 0..Attempts
      BY <2>1, <2>2, <2>12, AttemptsAssumption DEF ReadsLeft, ReadMissing
    <3>3. CASE left > 1
      <4>1. /\ pc = "read" /\ left' = left - 1
            /\ UNCHANGED <<preserve, order, pc, confirmed, result>>
        BY <2>12, <3>3 DEF ReadMissing
      <4>2. /\ TypeOK' /\ ReadsLeft'
            /\ NoEarlyResult' /\ Decided' /\ ConfirmedKept'
        BY <2>1, <3>2, <3>3, <4>1
        DEF TypeOK, ReadsLeft, NoEarlyResult, Decided, ConfirmedKept, Waiting
      <4>3. Seen' /\ Truthful'
        BY <2>1, <4>1 DEF Seen, Truthful, ViewOf, Final, Build
      <4> QED
        BY <4>2, <4>3 DEF IInv
    <3>4. CASE ~(left > 1)
      <4>1. /\ Return(Settled(Nothing)) /\ left' = left - 1
            /\ UNCHANGED <<preserve, order, confirmed>>
        BY <2>12, <3>4 DEF ReadMissing
      <4> QED
        BY <1>2, <3>1, <3>2, <4>1, ReturnStep
    <3> QED
      BY <3>3, <3>4
  <2>13. CASE ReadFails
    BY <1>2, <2>1, <2>13, UnknownIsView, FailStep DEF ReadFails, Waiting
  <2>14. CASE Decide
    <3>1. UNCHANGED <<preserve, order, confirmed, result, left>>
          /\ pc \in {"done", "raised"}
      BY <2>14 DEF Decide
    <3>2. TypeOK' /\ Seen' /\ Truthful'
      BY <2>1, <2>14, <3>1
      DEF Decide, TypeOK, PC, Seen, Truthful, ViewOf, Final, Build
    <3>3. Decided'
      BY <2>1, <2>2, <2>14, SizeAssumption
      DEF Decide, Decided, ReadsLeft, NoEarlyResult, Nothing, Result, Known
    <3>4. ReadsLeft' /\ NoEarlyResult' /\ ConfirmedKept'
      BY <2>1, <2>14
      DEF Decide, ReadsLeft, NoEarlyResult, ConfirmedKept, Waiting
    <3> QED
      BY <3>2, <3>3, <3>4 DEF IInv
  <2>15. CASE UNCHANGED vars
    BY <1>2, <2>15
    DEF vars, wait, IInv, TypeOK, Seen, Truthful, ViewOf, Final, Build,
        ReadsLeft, NoEarlyResult, Decided, ConfirmedKept
  <2> QED
    BY <1>2, <2>5, <2>6, <2>7, <2>8, <2>9, <2>10, <2>11, <2>12, <2>13, <2>14,
       <2>15
    DEF Next, Exchange, Wait
<1> QED
  BY <1>1, <1>2

LEMMA Invariant == Spec => []IInv
<1>1. Init => IInv
  BY Inductive
<1>2. IInv /\ [Next]_vars => IInv'
  BY Inductive
<1> QED
  BY <1>1, <1>2, PTL DEF Spec

-----------------------------------------------------------------------------
(* The properties.                                                         *)

\* Every value of the model has its type, whatever the size of the order and
\* the number of reads.
THEOREM TypeCorrect == Spec => []TypeOK
<1>1. IInv => TypeOK
  BY DEF IInv
<1> QED
  BY <1>1, Invariant, PTL

\* A known result is the truth about an order that no longer changes: no fill
\* slips in between the cancel, the last read and the decision.
THEOREM ResultTrue == Spec => []ResultExact
<1>1. IInv => ResultExact
  BY SizeAssumption
  DEF IInv, TypeOK, OrderState, Truthful, ViewOf, ResultExact, Build, Final
<1> QED
  BY <1>1, Invariant, PTL

\* With preserve_confirmed no fill a poll has seen is lost and none is
\* invented, whatever fails.
THEOREM FillsAreKept == Spec => []KnownFillsKept
<1>1. ASSUME IInv PROVE KnownFillsKept
  <2>1. confirmed.executed \in Nat /\ result.executed \in Nat
        /\ order.executed \in Nat
    BY <1>1, SizeAssumption DEF IInv, TypeOK, Result, OrderState
  <2>2. result.executed <= order.executed
    BY <1>1 DEF IInv, Truthful, ViewOf
  <2>3. preserve /\ pc \notin Waiting => confirmed.executed <= result.executed
    BY <1>1 DEF IInv, ConfirmedKept
  <2> QED
    BY <2>1, <2>2, <2>3 DEF KnownFillsKept, FillsKept, Waiting
<1> QED
  BY <1>1, Invariant, PTL

\* A position opened on a known result is what the order has left, and an
\* entry given up on a known result has left nothing.
THEOREM EntryTrue == Spec => []EntryMatchesOrder
<1>1. ASSUME IInv PROVE EntryMatchesOrder
  <2>1. SUFFICES ASSUME pc \in {"entered", "abandoned"}, result.status \in Known
                 PROVE  /\ Final(order)
                        /\ order.executed =
                             IF pc = "entered" THEN result.executed ELSE 0
    BY DEF EntryMatchesOrder
  <2>2. Final(order) /\ result = Build(order)
    BY <1>1, <2>1 DEF IInv, Truthful, ViewOf
  <2>3. result.executed = order.executed
    BY <2>2 DEF Build
  <2>4. pc = "abandoned" => result.executed = 0
    BY <1>1, <2>1 DEF IInv, Decided
  <2> QED
    BY <2>1, <2>2, <2>3, <2>4
<1> QED
  BY <1>1, Invariant, PTL
=============================================================================
