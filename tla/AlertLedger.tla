------------------------------ MODULE AlertLedger ------------------------------
(***************************************************************************)
(* What the delivery of alerts promises: an alert that was taken on stays  *)
(* owed until the channel took it. Only advice, never a fact, may be       *)
(* given up before that.                                                   *)
(***************************************************************************)
CONSTANT Fact  \* the alerts that state what has happened

VARIABLES
  owed,  \* alerts taken on and not settled
  told   \* alerts the channel has taken, at least once

Init == owed = {} /\ told = {}

TakeOn(e) == owed' = owed \cup {e} /\ UNCHANGED told

Tell(e) == told' = told \cup {e} /\ UNCHANGED owed

Settle(e) == e \in told /\ owed' = owed \ {e} /\ UNCHANGED told

GiveUp(S) == S \cap Fact = {} /\ owed' = owed \ S /\ UNCHANGED told

Next ==
  \/ \E e \in owed' : TakeOn(e)
  \/ \E e \in owed : Tell(e) \/ Settle(e)
  \/ \E S \in SUBSET owed : GiveUp(S)

Spec == Init /\ [][Next]_<<owed, told>>
=============================================================================
