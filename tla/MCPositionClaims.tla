-------------------------- MODULE MCPositionClaims --------------------------
(* Small instances of PositionClaims for TLC. *)
EXTENDS PositionClaims

CONSTANTS btc_eth, aggressive, new_coin

\* competing_record_names left empty: every other strategy competes.
AllCompete == [s \in Strategy |-> {}]

\* The deployed lists: the two BTC/ETH strategies name each other, new_coin
\* names nobody and so competes with everybody.
Deployed == [s \in Strategy |->
  CASE s = btc_eth -> {aggressive}
    [] s = aggressive -> {btc_eth}
    [] OTHER -> {}]

=============================================================================
