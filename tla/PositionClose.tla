---------------------------- MODULE PositionClose ----------------------------
(***************************************************************************)
(* Closing a position: close_remaining reads the position, submits a       *)
(* reduce-only order for what is still to be closed, waits for it, counts  *)
(* what it executed, looks at the position again and goes on for a bounded *)
(* number of rounds.  hrs calls it once and then cleans up behind a guard; *)
(* new_coin calls it with a limit order and, unless that succeeded, again  *)
(* with a market order, and then forgets the position.                     *)
(* Meanwhile the exchange fills the close orders and the protective orders *)
(* of the same position.  Quantities are units of which Step make the      *)
(* symbol's smallest order, and a position is counted in the direction     *)
(* that is being closed.                                                   *)
(***************************************************************************)
EXTENDS Integers

CONSTANTS
  Position,  \* quantity of the position when the close begins
  Targets,   \* the quantities that are asked to be closed
  Step,      \* stepSize of the symbol
  MaxRetries,
  Callers,   \* the strategies that close, of Strategy
  CancelConditional, \* cancel_conditional_on_reject
  Faults     \* the failures injected, a subset of FaultKind

Strategy == {"hrs", "new_coin"}
FaultKind == {"reject", "unknown", "error"}

ASSUME QuantityAssumption ==
  Position \in Nat \ {0} /\ Step \in Nat \ {0} /\ Targets \subseteq Nat \ {0}
ASSUME CallAssumption ==
  /\ MaxRetries \in Nat
  /\ Callers \subseteq Strategy
  /\ CancelConditional \in BOOLEAN
ASSUME FaultsAssumption == Faults \subseteq FaultKind

VARIABLES
  caller,    \* the strategy that closes
  asked,     \* the quantity it asks for
  pos,       \* the position on the exchange
  protected, \* its protective orders are in place
  orders,    \* close orders on the exchange: quantity left and executed
  own,       \* quantity the close orders have executed
  pc,        \* where the close stands
  stage,     \* new_coin: 1 limit, 2 market
  before,    \* quantity executed before this call
  target,    \* quantity this call has to close
  closed,    \* quantity this call has counted
  qty,       \* quantity of the order being submitted
  micro,     \* whether the call is clearing a micro position
  retried,   \* whether this submission was rejected before
  rounds,    \* rounds left
  outcome,   \* what the call returns
  tracked    \* the strategy still manages the position

request == <<caller, asked>>
task == <<caller, asked, stage, before>>
exchange == <<pos, protected, orders, own>>
call == <<target, closed, qty, micro, retried, rounds, outcome>>
vars == <<task, exchange, pc, call, tracked>>

PC == {"start", "round", "submit", "wait", "confirm", "final", "ended",
       "settled"}
Outcome == {"none", "filled", "partial", "failed", "raised"}

Lower(a, b) == IF a <= b THEN a ELSE b
Floor(q) == (q \div Step) * Step
Ceiling(q) == ((q + Step - 1) \div Step) * Step

Init ==
  /\ caller \in Callers
  /\ asked \in Targets
  /\ pos = Position
  /\ protected = TRUE
  /\ orders = {}
  /\ own = 0
  /\ pc = "start"
  /\ stage \in IF caller = "new_coin" THEN {1, 2} ELSE {2}
  /\ before = 0
  /\ target = 0
  /\ closed = 0
  /\ qty = 0
  /\ micro = FALSE
  /\ retried = FALSE
  /\ rounds = 0
  /\ outcome = "none"
  /\ tracked = TRUE

-----------------------------------------------------------------------------
(* The exchange.                                                           *)

Executed(o, q) ==
  /\ orders' = (orders \ {o}) \cup
       {[id |-> o.id, left |-> o.left - q, done |-> o.done + q]}
  /\ own' = own + q
  /\ pos' = pos - q
  /\ UNCHANGED <<protected, pc, task, call, tracked>>

\* A reduce-only order never executes more than the position.
FillClose ==
  \E o \in orders : \E q \in 1..Lower(o.left, pos) : Executed(o, q)

\* A stop loss or take profit fills.
FillProtection ==
  /\ protected
  /\ \E q \in 1..pos : pos' = pos - q
  /\ UNCHANGED <<protected, orders, own, pc, task, call, tracked>>

-----------------------------------------------------------------------------
(* close_remaining.                                                        *)

End(result) == pc' = "ended" /\ outcome' = result

\* The target is bounded by the position that is read and floored to Step;
\* what is left of a target below Step is cleared as a micro position.
Start ==
  /\ pc = "start"
  /\ closed' = 0
  /\ retried' = FALSE
  /\ rounds' = MaxRetries + 1
  /\ target' = Floor(Lower(asked, pos))
  /\ \/ /\ pos = 0
        /\ End("filled")
        /\ UNCHANGED <<qty, micro>>
     \/ /\ pos > 0 /\ target' > 0
        /\ pc' = "round"
        /\ micro' = FALSE
        /\ UNCHANGED <<qty, outcome>>
     \/ /\ pos > 0 /\ target' = 0
        /\ pc' = "submit"
        /\ micro' = TRUE
        /\ qty' = Ceiling(pos)
        /\ UNCHANGED outcome
  /\ UNCHANGED <<exchange, task, tracked>>

\* Seeded fault: every round submits the target again.
RemainingOfTarget == Floor(Lower(target, pos))

\* The quantity of the next order, from the position as it is now.
Remaining == Floor(Lower(target - closed, pos))

\* Seeded fault: the rounds are not counted.
RoundForever ==
  /\ pc = "round"
  /\ IF closed < target /\ Remaining > 0
       THEN pc' = "submit" /\ qty' = Remaining
       ELSE pc' = "final" /\ UNCHANGED qty
  /\ UNCHANGED <<exchange, task, target, closed, micro, retried, rounds,
                 outcome, tracked>>

Round ==
  /\ pc = "round"
  /\ IF rounds > 0 /\ closed < target /\ Remaining > 0
       THEN /\ pc' = "submit"
            /\ qty' = Remaining
            /\ rounds' = rounds - 1
            /\ retried' = FALSE
       ELSE /\ pc' = "final"
            /\ UNCHANGED <<qty, rounds, retried>>
  /\ UNCHANGED <<exchange, task, target, closed, micro, outcome, tracked>>

Accepted ==
  orders' = orders \cup
    {[id |-> <<stage, rounds>>, left |-> qty, done |-> 0]}

\* The exchange accepts the order.
Submit ==
  /\ pc = "submit"
  /\ Accepted
  /\ pc' = "wait"
  /\ UNCHANGED <<pos, protected, own, task, call, tracked>>

\* The order is refused.  The first -2022 cancels the symbol's protective
\* orders, as far as that succeeds, and submits again; any other refusal ends
\* the round.
Reject ==
  /\ "reject" \in Faults
  /\ pc = "submit"
  /\ \/ /\ pc' = "confirm"
        /\ UNCHANGED <<protected, retried>>
     \/ /\ ~retried
        /\ retried' = TRUE
        /\ protected' \in {protected, protected /\ ~CancelConditional}
        /\ UNCHANGED pc
  /\ UNCHANGED <<pos, orders, own, task, target, closed, qty, micro, rounds,
                 outcome, tracked>>

\* The result of the POST stays unknown, accepted or not: it is not sent
\* again, the next look at the position decides.
SubmitUnknown ==
  /\ "unknown" \in Faults
  /\ pc = "submit"
  /\ Accepted \/ UNCHANGED orders
  /\ pc' = "confirm"
  /\ UNCHANGED <<pos, protected, own, task, call, tracked>>

Mine == {o \in orders : o.id = <<stage, rounds>>}

\* wait_order_final_state: the order fills or is cancelled, and its executed
\* quantity is counted (OrderFill!ResultExact).
Wait ==
  /\ pc = "wait"
  /\ orders' = orders \ Mine
  /\ \E o \in Mine : closed' = closed + o.done
  /\ pc' = "confirm"
  /\ UNCHANGED <<pos, protected, own, task, target, qty, micro, retried,
                 rounds, outcome, tracked>>

\* The order stays invisible or open (OrderFill, status UNKNOWN).
WaitUnknown ==
  /\ "unknown" \in Faults
  /\ pc = "wait"
  /\ \E o \in Mine : closed' \in {closed, closed + o.done}
  /\ pc' = "confirm"
  /\ UNCHANGED <<exchange, task, target, qty, micro, retried, rounds, outcome,
                 tracked>>

\* _confirm_flat after each order.
Confirm ==
  /\ pc = "confirm"
  /\ pc' = IF pos = 0 \/ micro THEN "final" ELSE "round"
  /\ UNCHANGED <<exchange, task, call, tracked>>

\* Seeded fault: the position alone decides.
ReachedByPosition == pos <= Step

\* The target is reached and the position agrees.
Reached ==
  IF micro THEN pos = 0 ELSE closed >= target /\ pos <= Step

\* _finalize_outcome, and the end of _zero_micro_position.
Finalize ==
  /\ pc = "final"
  /\ End(IF Reached THEN "filled"
         ELSE IF closed > 0 /\ ~micro THEN "partial" ELSE "failed")
  /\ UNCHANGED <<exchange, task, target, closed, qty, micro, retried, rounds,
                 tracked>>

\* A request raises, and the caller catches the exception.
Raise ==
  /\ "error" \in Faults
  /\ pc \notin {"ended", "settled"}
  /\ End("raised")
  /\ UNCHANGED <<exchange, task, target, closed, qty, micro, retried, rounds,
                 tracked>>

-----------------------------------------------------------------------------
(* The callers.                                                            *)

\* new_coin: the limit order did not succeed, and a second call with the same
\* target goes to the market.
SecondStage ==
  /\ pc = "ended"
  /\ stage = 1
  /\ outcome \notin {"filled", "raised"}
  /\ stage' = 2
  /\ before' = own
  /\ pc' = "start"
  /\ UNCHANGED <<request, exchange, call, tracked>>

Over == pc = "ended" /\ (stage = 2 \/ outcome \in {"filled", "raised"})

\* new_coin's time stop and trailing stop forget the position afterwards,
\* whatever came of the close, and the emergency stop also cancels its
\* conditional orders.
SettleNewCoin ==
  /\ Over
  /\ caller = "new_coin"
  /\ pc' = "settled"
  /\ tracked' = FALSE
  /\ protected' \in {protected, FALSE}
  /\ UNCHANGED <<pos, orders, own, task, call>>

\* Seeded fault: the guard takes an accepted close for a finished one.
SettleAccepted ==
  /\ Over
  /\ caller = "hrs"
  /\ pc' = "settled"
  /\ tracked' = (outcome = "raised")
  /\ protected' = (protected /\ outcome = "raised")
  /\ UNCHANGED <<pos, orders, own, task, call>>

\* hrs: _finalize_close_if_filled cancels the protection and drops the position
\* only after success; a partial close tries to protect the remainder anew.
SettleHrs ==
  /\ Over
  /\ caller = "hrs"
  /\ pc' = "settled"
  /\ \/ /\ outcome = "filled"
        /\ tracked' = FALSE
        /\ protected' = FALSE
     \/ /\ outcome = "partial"
        /\ protected' \in BOOLEAN
        /\ UNCHANGED tracked
     \/ /\ outcome \in {"failed", "raised"}
        /\ UNCHANGED <<tracked, protected>>
  /\ UNCHANGED <<pos, orders, own, task, call>>

-----------------------------------------------------------------------------
Work ==
  \/ Start \/ Round \/ Submit \/ Reject \/ SubmitUnknown
  \/ Wait \/ WaitUnknown \/ Confirm \/ Finalize \/ Raise
  \/ SecondStage \/ SettleNewCoin \/ SettleHrs

Next == FillClose \/ FillProtection \/ Work
Spec == Init /\ [][Next]_vars

\* The task runs on; every wait ends (OrderFill!WaitEnds).
FairSpec == Spec /\ WF_vars(Work)

-----------------------------------------------------------------------------
(* Properties.                                                             *)

TypeOK ==
  /\ caller \in Callers /\ asked \in Targets
  /\ pos \in 0..Position
  /\ protected \in BOOLEAN /\ tracked \in BOOLEAN
  /\ orders \subseteq [id : (1..2) \X Nat, left : Nat, done : Nat]
  /\ own \in Nat /\ before \in Nat
  /\ pc \in PC
  /\ stage \in 1..2
  /\ target \in Nat /\ closed \in Nat /\ qty \in Nat
  /\ micro \in BOOLEAN /\ retried \in BOOLEAN
  /\ rounds \in 0..MaxRetries + 1
  /\ outcome \in Outcome

\* An order whose result stayed unknown has executed.
StrayExecuted == \E o \in orders \ Mine : o.done > 0

\* However often one call of close_remaining submits, and whatever fills
\* meanwhile, its orders take no more off the position than the call was asked
\* for, which is at least a step, unless an order whose result stayed unknown
\* executed as well (R03-F1, F2).  It speaks of one call: new_coin makes two
\* with the same target, and both together may take more (FallbackTakesRest).
NeverOverCloses ==
  asked >= Step => own - before <= asked \/ StrayExecuted

\* R03-F4: the market fallback submits only what is left of the target, so that
\* both stages together take no more than was asked.  new_coin does not keep
\* it: no run checks it.
FallbackTakesRest == asked >= Step => own <= asked \/ StrayExecuted

\* The count never claims more than the close orders really executed, unknown
\* results and cancel races included.
CountedIsDone == closed <= own

\* A success is real: nothing but a rest below the step is left, or the
\* position was already gone (R03-F5).
SuccessReached ==
  outcome = "filled" => pos = 0 \/ (own >= target /\ pos <= Step)

\* A position that a close has left open is still managed, so that the next
\* cycle tries again (R03-F5, R04-F3).
RetryPathKept == pc = "settled" /\ pos > Step => tracked

\* The guard of hrs keeps that promise.
GuardKeepsPosition == caller = "hrs" => RetryPathKept

\* Every close ends and reaches its caller's guard.
CloseEnds == pc = "start" ~> pc = "settled"
=============================================================================
