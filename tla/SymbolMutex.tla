----------------------------- MODULE SymbolMutex -----------------------------
(***************************************************************************)
(* What the ownership protocol promises for one symbol of the shared       *)
(* account, whatever the mechanism: as long as the protection of every     *)
(* entry is intact, a strategy becomes engaged in the symbol only while no *)
(* other is, and engagements end one at a time.                            *)
(***************************************************************************)
CONSTANT Strategy
VARIABLES holders, intact

mutex == <<holders, intact>>

Init == holders = {} /\ intact = TRUE

Acquire(s) == holders = {} /\ holders' = {s}

Quit(s) == s \in holders /\ holders' = holders \ {s}

Keep == intact' /\ intact /\ \E s \in Strategy : Acquire(s) \/ Quit(s)

\* From then on nothing is promised.
Break == intact' = FALSE /\ holders' \in SUBSET Strategy

Next == Keep \/ Break

Spec == Init /\ [][Next]_mutex
=============================================================================
