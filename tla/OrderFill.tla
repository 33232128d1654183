------------------------------ MODULE OrderFill ------------------------------
(***************************************************************************)
(* An entry order and the task that waits for it: wait_order_final_state   *)
(* polls the order until it is final or the deadline passes, then cancels  *)
(* it and reads the final executed quantity; place_and_wait_entry_order    *)
(* opens a position with what was executed or gives the entry up.          *)
(* The exchange goes on between any two requests: the order may fill in    *)
(* part, fill, expire or be rejected, and a query may not see it yet (the  *)
(* account's visibility delay, answered with -2013) or fail.               *)
(* preserve is preserve_confirmed: btc_eth_aggressive keeps the largest    *)
(* fill it has read, the other strategies do not.                          *)
(***************************************************************************)
EXTENDS Integers

CONSTANTS
  Size,     \* quantity of the order
  Attempts, \* number of reads after the cancel
  Preserve, \* the values of preserve_confirmed that are looked at
  Faults    \* the failures of requests, a subset of FaultKind

FaultKind == {"hidden", "error"}

ASSUME SizeAssumption == Size \in Nat \ {0}
ASSUME AttemptsAssumption == Attempts \in Nat \ {0}
ASSUME FaultsAssumption ==
  Preserve \subseteq BOOLEAN /\ Faults \subseteq FaultKind

VARIABLES
  preserve,  \* preserve_confirmed of this call
  order,     \* the order on the exchange
  pc,        \* where the waiting task stands
  confirmed, \* the best result the poll has seen
  result,    \* what the wait returns
  left       \* final reads still to be tried

wait == <<preserve, pc, confirmed, result, left>>
vars == <<order, wait>>

PC == {"poll", "cancel", "read", "done", "raised", "entered", "abandoned"}
Known == {"FILLED", "PARTIAL", "UNFILLED"}
Result == [status : Known \cup {"UNKNOWN"}, executed : 0..Size]
Nothing == [status |-> "UNKNOWN", executed |-> 0]

\* NEW and PARTIALLY_FILLED; then FILLED, and CANCELED, EXPIRED or REJECTED.
OrderState ==
  {o \in [status : {"open", "filled", "ended"}, executed : 0..Size] :
     o.status = "filled" <=> o.executed = Size}

Final(o) == o.status # "open"

\* _build_result
Build(o) ==
  [status |-> CASE o.status = "open" -> "UNKNOWN"
                [] o.status = "filled" -> "FILLED"
                [] OTHER -> IF o.executed > 0 THEN "PARTIAL" ELSE "UNFILLED",
   executed |-> o.executed]

\* The response to the POST is a first view of the order.
Init ==
  /\ preserve \in Preserve
  /\ order \in OrderState
  /\ pc = "poll"
  /\ confirmed = IF preserve THEN Build(order) ELSE Nothing
  /\ result = Nothing
  /\ left = 0

-----------------------------------------------------------------------------
(* The exchange.                                                           *)

Fill ==
  /\ order.status = "open"
  /\ \E q \in order.executed + 1..Size :
       order' = [status |-> IF q = Size THEN "filled" ELSE "open",
                 executed |-> q]
  /\ UNCHANGED wait

\* The order expires or is rejected.
End ==
  /\ order.status = "open"
  /\ order' = [order EXCEPT !.status = "ended"]
  /\ UNCHANGED wait

-----------------------------------------------------------------------------
(* The wait.                                                               *)

Return(r) == pc' = "done" /\ result' = r

\* A request fails: preserve_confirmed returns what is known, otherwise the
\* exception ends the wait.
Fail(r) ==
  /\ "error" \in Faults
  /\ IF preserve THEN Return(r) ELSE pc' = "raised" /\ UNCHANGED result
  /\ UNCHANGED <<preserve, order, confirmed, left>>

\* A poll sees the order; one that does not is a stuttering step.
Poll ==
  /\ pc = "poll"
  /\ confirmed' = IF order.executed > confirmed.executed
                  THEN Build(order) ELSE confirmed
  /\ IF Final(order) THEN Return(Build(order)) ELSE UNCHANGED <<pc, result>>
  /\ UNCHANGED <<preserve, order, left>>

PollFails == pc = "poll" /\ Fail(confirmed)

\* Seeded fault: the deadline only counts while nothing is filled.
TimeoutUnfilled ==
  /\ pc = "poll"
  /\ confirmed.executed = 0
  /\ pc' = "cancel"
  /\ UNCHANGED <<preserve, order, confirmed, result, left>>

\* The deadline passes.
Timeout ==
  /\ pc = "poll"
  /\ pc' = "cancel"
  /\ UNCHANGED <<preserve, order, confirmed, result, left>>

\* Seeded fault: the order that was cancelled is not read again.
CancelAndReturn ==
  /\ pc = "cancel"
  /\ order' = [order EXCEPT !.status = IF Final(order) THEN @ ELSE "ended"]
  /\ Return(IF Final(order) THEN Build(order)
            ELSE [status |-> "UNFILLED", executed |-> confirmed.executed])
  /\ UNCHANGED <<preserve, confirmed, left>>

\* _cancel_quietly: the order is cancelled, or is not there any more (-2011);
\* an order that is not visible yet is answered the same way.
Cancel ==
  /\ pc = "cancel"
  /\ \/ order' = [order EXCEPT !.status = IF Final(order) THEN @ ELSE "ended"]
     \/ "hidden" \in Faults /\ UNCHANGED order
  /\ pc' = "read"
  /\ left' = Attempts
  /\ UNCHANGED <<preserve, confirmed, result>>

Unknown == [confirmed EXCEPT !.status = "UNKNOWN"]

CancelFails ==
  /\ pc = "cancel"
  /\ Fail(Unknown)

\* Seeded fault: the last read replaces what the polls have seen.
LastRead(r) == r

\* The last look at the order; a smaller fill than the confirmed one is not
\* believed under preserve_confirmed.
Settled(r) ==
  IF preserve /\ r.executed < confirmed.executed THEN Unknown ELSE r

Read ==
  /\ pc = "read"
  /\ Return(Settled(Build(order)))
  /\ UNCHANGED <<preserve, order, confirmed, left>>

ReadMissing ==
  /\ pc = "read"
  /\ "hidden" \in Faults
  /\ left' = left - 1
  /\ IF left > 1 THEN UNCHANGED <<pc, result>> ELSE Return(Settled(Nothing))
  /\ UNCHANGED <<preserve, order, confirmed>>

ReadFails == pc = "read" /\ Fail(Unknown)

-----------------------------------------------------------------------------
(* The entry.                                                              *)

\* Seeded fault: only an order that filled completely opens a position.
DecideFilled ==
  /\ pc \in {"done", "raised"}
  /\ pc' = IF pc = "done" /\ result.status = "FILLED"
           THEN "entered" ELSE "abandoned"
  /\ UNCHANGED <<preserve, order, confirmed, result, left>>

\* A fill becomes a position of the executed quantity; without one the entry
\* is given up, whatever the status.  An exception gives it up, too.
Decide ==
  /\ pc \in {"done", "raised"}
  /\ pc' = IF pc = "done" /\ result.executed > 0 THEN "entered" ELSE "abandoned"
  /\ UNCHANGED <<preserve, order, confirmed, result, left>>

-----------------------------------------------------------------------------
Exchange == Fill \/ End
Wait ==
  \/ Poll \/ PollFails \/ Timeout
  \/ Cancel \/ CancelFails
  \/ Read \/ ReadMissing \/ ReadFails
  \/ Decide

Next == Exchange \/ Wait
Spec == Init /\ [][Next]_vars

\* The deadline passes, and the requests after it are answered or fail.  No
\* poll need see the order, and the exchange owes nothing.
Fairness ==
  /\ WF_vars(Timeout)
  /\ WF_vars(Cancel \/ CancelFails)
  /\ WF_vars(Read \/ ReadMissing \/ ReadFails)
  /\ WF_vars(Decide)
FairSpec == Spec /\ Fairness

-----------------------------------------------------------------------------
(* Properties.                                                             *)

TypeOK ==
  /\ preserve \in Preserve
  /\ order \in OrderState
  /\ pc \in PC
  /\ confirmed \in Result
  /\ result \in Result
  /\ left \in 0..Attempts

\* A known result is the truth about an order that can no longer change, the
\* races of the cancel with a fill included (R06-F2, F3, F4).
ResultExact ==
  pc = "done" /\ result.status \in Known =>
    /\ Final(order)
    /\ result.executed = order.executed
    /\ result.status = "FILLED" <=> order.executed = Size
    /\ result.status = "UNFILLED" <=> order.executed = 0

\* A fill that a poll has seen is not lost by a later read or failure, and no
\* fill is invented: what an order filled is never dropped (R06-F4).
FillsKept ==
  pc \notin {"poll", "cancel", "read"} =>
    result.executed \in confirmed.executed..order.executed

\* With preserve_confirmed the code keeps that promise whatever fails.
KnownFillsKept == preserve => FillsKept

\* Unless the result is unknown or a request failed, the position opened is
\* the one the order has left, an entry given up has left none, and nothing
\* can fill after the decision.
EntryMatchesOrder ==
  pc \in {"entered", "abandoned"} /\ result.status \in Known =>
    /\ Final(order)
    /\ order.executed = IF pc = "entered" THEN result.executed ELSE 0

\* Every wait ends, whatever the order does.
WaitEnds == pc = "poll" ~> pc \in {"entered", "abandoned"}
=============================================================================
