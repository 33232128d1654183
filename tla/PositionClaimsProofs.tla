------------------------ MODULE PositionClaimsProofs ------------------------
(***************************************************************************)
(* Proofs about PositionClaims, for any set of strategies, any lists, any  *)
(* lease, any faults and any bounds.  The first part is what a reservation *)
(* guarantees unconditionally; mutual exclusion of all strategies builds   *)
(* on it and holds for as long as no entry has lost its protection.        *)
(***************************************************************************)
EXTENDS PositionClaims, TLAPS

-----------------------------------------------------------------------------
(* Type correctness, under every fault.                                    *)

LEMMA InitTypeOK == Init => TypeOK
BY BoundsAssumption DEF Init, TypeOK, StateOK, PC, Entering, Reason

LEMMA NextStateOK == StateOK /\ [Next]_vars => StateOK'
<1> SUFFICES ASSUME StateOK, [Next]_vars PROVE StateOK'
  OBVIOUS
<1> USE DEF StateOK, PC, Entering, Reason, Lease, Forever, Goto, Release,
     ledger, Mishap, MishapOf
<1>1. ASSUME NEW s \in Strategy, CheckAuthority(s) PROVE StateOK'
  BY <1>1 DEF CheckAuthority
<1>2. ASSUME NEW s \in Strategy, CheckClaim(s) PROVE StateOK'
  BY <1>2 DEF CheckClaim
<1>3. ASSUME NEW s \in Strategy, ClaimAtomic(s) PROVE StateOK'
  BY <1>3, BoundsAssumption DEF ClaimAtomic, Unexpired
<1>4. ASSUME NEW s \in Strategy, Recheck(s) PROVE StateOK'
  BY <1>4 DEF Recheck
<1>5. ASSUME NEW s \in Strategy, Abandon(s) PROVE StateOK'
  BY <1>5 DEF Abandon
<1>6. ASSUME NEW s \in Strategy, PlaceOrder(s) PROVE StateOK'
  BY <1>6 DEF PlaceOrder
<1>7. ASSUME NEW s \in Strategy, LogOrder(s) PROVE StateOK'
  BY <1>7 DEF LogOrder
<1>8. ASSUME NEW s \in Strategy, SeeFill(s) PROVE StateOK'
  BY <1>8 DEF SeeFill
<1>9. ASSUME NEW s \in Strategy, CancelUnfilled(s) PROVE StateOK'
  BY <1>9 DEF CancelUnfilled, Mine
<1>10. ASSUME NEW s \in Strategy, LoseOrder(s) PROVE StateOK'
  BY <1>10 DEF LoseOrder
<1>11. ASSUME NEW s \in Strategy, MarkTerminal(s) PROVE StateOK'
  BY <1>11 DEF MarkTerminal
<1>12. ASSUME NEW s \in Strategy, ReleaseRow(s) PROVE StateOK'
  BY <1>12 DEF ReleaseRow
<1>13. ASSUME NEW s \in Strategy, CleanupExpired(s) PROVE StateOK'
  BY <1>13 DEF CleanupExpired, Unexpired
<1>14. ASSUME NEW s \in Strategy, Retire(s) PROVE StateOK'
  BY <1>14 DEF Retire
<1>15. ASSUME NEW s \in Strategy, CloseUntracked(s) PROVE StateOK'
  BY <1>15 DEF CloseUntracked
<1>16. ASSUME NEW s \in Strategy, ExchangeClose(s) PROVE StateOK'
  BY <1>16 DEF ExchangeClose
<1>17. ASSUME NEW s \in Strategy, Crash(s) PROVE StateOK'
  BY <1>17 DEF Crash
<1>18. ASSUME NEW s \in Strategy, Boot(s) PROVE StateOK'
  BY <1>18 DEF Boot
<1>19. CASE Fill
  BY <1>19 DEF Fill
<1>20. CASE Tick
  BY <1>20, BoundsAssumption DEF Tick, Aged
<1>21. CASE UNCHANGED vars
  BY <1>21 DEF vars
<1>22. ASSUME NEW s \in Strategy, Prepare(s) PROVE StateOK'
  BY <1>22 DEF Prepare
<1>23. ASSUME NEW s \in Strategy, Reserve(s) PROVE StateOK'
  BY <1>23, BoundsAssumption DEF Reserve
<1>24. ASSUME NEW s \in Strategy, CheckFlat(s) PROVE StateOK'
  BY <1>24 DEF CheckFlat
<1>25. ASSUME NEW s \in Strategy, Settle(s) PROVE StateOK'
  BY <1>25 DEF Settle
<1> QED
  BY <1>1, <1>2, <1>3, <1>4, <1>5, <1>6, <1>7, <1>8, <1>9, <1>10, <1>11,
     <1>12, <1>13, <1>14, <1>15, <1>16, <1>17, <1>18, <1>19, <1>20, <1>21,
     <1>22, <1>23, <1>24, <1>25
  DEF Next, Open, Close

\* The history is a truth value and stays false once it is.
LEMMA IntactTyped ==
  ASSUME intact \in BOOLEAN, [Next]_vars
  PROVE  intact' \in BOOLEAN /\ (intact' => intact)
<1> USE DEF Mishap, MishapOf, ledger
<1>1. ASSUME NEW s \in Strategy, Open(s)
      PROVE  intact' \in BOOLEAN /\ (intact' => intact)
  BY <1>1 DEF Open, CheckAuthority, CheckClaim, ClaimAtomic, Recheck, Abandon,
    Prepare, Reserve, CheckFlat, PlaceOrder, LogOrder, SeeFill,
    CancelUnfilled, LoseOrder
<1>2. ASSUME NEW s \in Strategy, Close(s)
      PROVE  intact' \in BOOLEAN /\ (intact' => intact)
  BY <1>2 DEF Close, MarkTerminal, ReleaseRow, CleanupExpired, Retire,
    CloseUntracked, Settle
<1>3. ASSUME NEW s \in Strategy, ExchangeClose(s) \/ Crash(s) \/ Boot(s)
      PROVE  intact' \in BOOLEAN /\ (intact' => intact)
  <2>1. CASE Crash(s)
    BY <2>1 DEF Crash
  <2>2. CASE ExchangeClose(s) \/ Boot(s)
    BY <2>2 DEF ExchangeClose, Boot
  <2> QED BY <1>3, <2>1, <2>2
<1>4. CASE Fill \/ Tick \/ UNCHANGED vars
  <2>1. CASE Tick
    BY <2>1 DEF Tick
  <2>2. CASE Fill \/ UNCHANGED vars
    BY <2>2 DEF Fill, vars
  <2> QED BY <1>4, <2>1, <2>2
<1> QED BY <1>1, <1>2, <1>3, <1>4 DEF Next

LEMMA NextTypeOK == TypeOK /\ [Next]_vars => TypeOK'
BY NextStateOK, IntactTyped DEF TypeOK

\* Every reachable state is well typed, whatever fails.
THEOREM TypeCorrect == Spec => []TypeOK
BY InitTypeOK, NextTypeOK, PTL DEF Spec

-----------------------------------------------------------------------------
(* The reservation is made in one transaction with its row and outlives    *)
(* whatever happens to the process, so it protects what the records and    *)
(* the lease do not.                                                       *)

\* The trigger: a reservation has its row.
ReservedRow ==
  /\ \A s \in Strategy : reserved[s] # "none" => s \in Reserving /\ HasRow(s)
  /\ \A c \in claims : c.left = Forever => reserved[c.owner] # "none"
  /\ \A c \in claims : reserved[c.owner] # "none" => c.left = Forever

\* Only a reserving strategy passes the steps of the reservation.
ReservingOnly ==
  \A s \in Strategy :
    /\ pc[s] \in {"prepared", "reserved", "cleared"} => s \in Reserving
    /\ pc[s] \in {"reserved", "cleared"} => reserved[s] # "none"

\* reserve refuses a symbol with an unresolved reservation of anyone's.
SoleReservation ==
  \A s, t \in Strategy : reserved[s] # "none" /\ reserved[t] # "none" => s = t

\* The reservation of an order in the market is not resolved.
ExposedReserved == \A s \in Reserving : Exposed(s) => reserved[s] = "sent"

RInv == /\ TypeOK
        /\ ReservedRow
        /\ ReservingOnly
        /\ SoleReservation
        /\ ExposedReserved

LEMMA InitRInv == Init => RInv
BY InitTypeOK, BoundsAssumption
DEF Init, RInv, ReservedRow, ReservingOnly, SoleReservation, ExposedReserved,
  Exposed, OrdersOf, HasRow

\* Steps that start no exposure and leave rows and reservations alone.
LEMMA QuietRInv ==
  ASSUME RInv, TypeOK', UNCHANGED <<claims, reserved>>,
         orders' \subseteq orders, pos' \subseteq pos,
         \A s \in Strategy :
           /\ pc'[s] \in {"reserved", "cleared"} =>
                pc[s] \in {"reserved", "cleared"}
           /\ pc'[s] = "prepared" => s \in Reserving
  PROVE  RInv'
<1>1. ReservedRow' /\ SoleReservation'
  BY DEF RInv, ReservedRow, HasRow, SoleReservation
<1>2. ReservingOnly'
  BY DEF RInv, ReservingOnly
<1>3. ExposedReserved'
  BY DEF RInv, ExposedReserved, Exposed, OrdersOf
<1> QED
  BY <1>1, <1>2, <1>3 DEF RInv

\* A transaction that drops rows without a reservation drops no other.
LEMMA RowsRInv ==
  ASSUME RInv, TypeOK', UNCHANGED <<reserved, orders, pos>>,
         claims' \subseteq claims,
         \A c \in claims : reserved[c.owner] # "none" => c \in claims',
         \A s \in Strategy :
           /\ pc'[s] \in {"reserved", "cleared"} =>
                pc[s] \in {"reserved", "cleared"}
           /\ pc'[s] = "prepared" => s \in Reserving
  PROVE  RInv'
<1>1. ReservedRow'
  BY DEF RInv, ReservedRow, HasRow
<1>2. SoleReservation' /\ ExposedReserved'
  BY DEF RInv, SoleReservation, ExposedReserved, Exposed, OrdersOf
<1>3. ReservingOnly'
  BY DEF RInv, ReservingOnly
<1> QED
  BY <1>1, <1>2, <1>3 DEF RInv

\* Only Reserve, PlaceOrder, Settle, ClaimAtomic, Fill and Tick do more.
LEMMA NextRInv == RInv /\ [Next]_vars => RInv'
<1> SUFFICES ASSUME RInv, [Next]_vars PROVE RInv'
  OBVIOUS
<1>0. TypeOK /\ TypeOK'
  BY NextTypeOK DEF RInv
<1> USE <1>0 DEF TypeOK, StateOK, PC, Goto, Release, ledger
<1> DEFINE Moves == \A s \in Strategy :
             /\ pc'[s] \in {"reserved", "cleared"} =>
                  pc[s] \in {"reserved", "cleared"}
             /\ pc'[s] = "prepared" => s \in Reserving
           Quiet == /\ UNCHANGED <<claims, reserved>>
                    /\ orders' \subseteq orders /\ pos' \subseteq pos
                    /\ Moves
           Rows == /\ UNCHANGED <<reserved, orders, pos>>
                   /\ claims' \subseteq claims
                   /\ \A c \in claims :
                        reserved[c.owner] # "none" => c \in claims'
                   /\ Moves
<1>1. Quiet => RInv'
  BY QuietRInv
<1>2. Rows => RInv'
  BY RowsRInv
<1>3. \A s \in Strategy : pc[s] = "prepared" => s \in Reserving
  BY DEF RInv, ReservingOnly
<1>4. \A c \in claims : reserved[c.owner] # "none" => c \in Unexpired
  BY BoundsAssumption DEF RInv, ReservedRow, Unexpired, Forever
<1>5. ASSUME NEW s \in Strategy,
             \/ CheckAuthority(s) \/ CheckClaim(s) \/ Recheck(s) \/ Abandon(s)
             \/ Prepare(s) \/ CheckFlat(s) \/ LogOrder(s)
      PROVE  Quiet
  <2>1. CASE CheckAuthority(s) \/ CheckClaim(s) \/ Recheck(s)
    BY <1>3, <2>1 DEF CheckAuthority, CheckClaim, Recheck
  <2>2. CASE Abandon(s) \/ Prepare(s)
    BY <1>3, <2>2 DEF Abandon, Prepare
  <2>3. CASE CheckFlat(s)
    BY <1>3, <2>3 DEF CheckFlat
  <2>4. CASE LogOrder(s)
    BY <1>3, <2>4 DEF LogOrder
  <2> QED
    BY <1>5, <2>1, <2>2, <2>3, <2>4
<1>6. ASSUME NEW s \in Strategy,
             \/ SeeFill(s) \/ CancelUnfilled(s) \/ LoseOrder(s)
             \/ MarkTerminal(s) \/ Retire(s) \/ CloseUntracked(s)
             \/ ExchangeClose(s) \/ Crash(s) \/ Boot(s)
      PROVE  Quiet
  BY <1>3, <1>6 DEF SeeFill, CancelUnfilled, LoseOrder, MarkTerminal, Retire,
    CloseUntracked, ExchangeClose, Crash, Boot
<1>7. ASSUME NEW s \in Strategy, ReleaseRow(s) \/ CleanupExpired(s)
      PROVE  Rows
  <2>1. CASE ReleaseRow(s)
    BY <1>3, <2>1 DEF ReleaseRow
  <2>2. CASE CleanupExpired(s)
    BY <1>3, <1>4, <2>2 DEF CleanupExpired, Unexpired
  <2> QED
    BY <1>7, <2>1, <2>2
<1>8. ASSUME NEW s \in Strategy, ClaimAtomic(s) PROVE RInv'
  <2>1. UNCHANGED <<reserved, orders, pos>> /\ Moves
    BY <1>3, <1>8 DEF ClaimAtomic
  <2>2. CASE claims' = Unexpired \/ UNCHANGED claims
    BY <1>2, <1>4, <2>1, <2>2 DEF Unexpired
  <2>3. CASE Unexpired = {} /\ claims' = {[owner |-> s, left |-> TTL]}
    <3>1. \A t \in Strategy : reserved[t] = "none"
      BY <1>4, <2>3 DEF RInv, ReservedRow, HasRow
    <3>2. ReservedRow'
      BY <2>1, <2>3, <3>1, BoundsAssumption DEF ReservedRow, HasRow, Forever
    <3>3. ReservingOnly' /\ SoleReservation' /\ ExposedReserved'
      BY <2>1 DEF RInv, ReservingOnly, SoleReservation, ExposedReserved,
        Exposed, OrdersOf
    <3> QED
      BY <3>2, <3>3 DEF RInv
  <2> QED
    BY <1>8, <2>2, <2>3 DEF ClaimAtomic
<1>9. ASSUME NEW s \in Strategy, Reserve(s) PROVE RInv'
  <2>1. /\ pc[s] = "prepared" /\ pc' = [pc EXCEPT ![s] = "reserved"]
        /\ \A t \in Strategy : reserved[t] = "none"
        /\ reserved' = [reserved EXCEPT ![s] = "unsent"]
        /\ HasRow(s) /\ s \in Reserving
        /\ UNCHANGED <<orders, pos>>
    BY <1>3, <1>9 DEF Reserve
  <2>2. claims' = {IF c.owner = s THEN [c EXCEPT !.left = Forever] ELSE c :
                     c \in claims}
    BY <1>9 DEF Reserve
  <2>3. HasRow(s)'
    <3>1. PICK c \in claims : c.owner = s
      BY <2>1 DEF HasRow
    <3>2. [c EXCEPT !.left = Forever] \in claims'
      BY <2>2, <3>1
    <3> QED
      BY <3>1, <3>2 DEF HasRow
  <2>4. \A c \in claims' : \/ c.owner = s /\ c.left = Forever
                           \/ c.owner # s /\ c \in claims
    BY <2>2
  <2>5. ReservedRow'
    BY <2>1, <2>3, <2>4 DEF RInv, ReservedRow
  <2>6. ReservingOnly' /\ SoleReservation'
    BY <2>1 DEF RInv, ReservingOnly, SoleReservation
  <2>7. ExposedReserved'
    BY <2>1 DEF RInv, ExposedReserved, Exposed, OrdersOf
  <2> QED
    BY <2>5, <2>6, <2>7 DEF RInv
<1>10. ASSUME NEW s \in Strategy, PlaceOrder(s) PROVE RInv'
  <2>1. /\ reserved' = [reserved EXCEPT
                          ![s] = IF s \in Reserving THEN "sent" ELSE @]
        /\ s \in Reserving => reserved[s] # "none"
        /\ orders' = orders \cup {[id |-> placed + 1, owner |-> s]}
        /\ UNCHANGED <<claims, pos>> /\ Moves
    <3>1. s \in Reserving => reserved[s] # "none"
      BY <1>10 DEF PlaceOrder, RInv, ReservingOnly
    <3>2. Moves
      BY <1>3, <1>10 DEF PlaceOrder
    <3> QED
      BY <1>10, <3>1, <3>2 DEF PlaceOrder
  <2>2. \A t \in Strategy : reserved'[t] = "none" <=> reserved[t] = "none"
    BY <2>1
  <2>3. ReservedRow'
    BY <2>1, <2>2 DEF RInv, ReservedRow, HasRow
  <2>4. ReservingOnly' /\ SoleReservation'
    BY <2>1, <2>2 DEF RInv, ReservingOnly, SoleReservation
  <2>5. ExposedReserved'
    BY <2>1, ReservingAssumption DEF RInv, ExposedReserved, Exposed, OrdersOf
  <2> QED
    BY <2>3, <2>4, <2>5 DEF RInv
<1>11. ASSUME NEW s \in Strategy, Settle(s) PROVE RInv'
  <2>1. /\ reserved' = [reserved EXCEPT ![s] = "none"]
        /\ claims' = {c \in claims : c.owner # s}
        /\ orders = {} /\ pos = {} /\ UNCHANGED <<orders, pos, pc>>
        /\ pc[s] \in {"idle", "granted"}
    BY <1>11 DEF Settle
  <2>2. ReservedRow'
    BY <2>1 DEF RInv, ReservedRow, HasRow
  <2>3. ReservingOnly' /\ SoleReservation'
    BY <2>1 DEF RInv, ReservingOnly, SoleReservation
  <2>4. ExposedReserved'
    BY <2>1 DEF ExposedReserved, Exposed, OrdersOf
  <2> QED
    BY <2>2, <2>3, <2>4 DEF RInv
<1>12. CASE Fill
  <2>1. PICK o \in orders : orders' = orders \ {o} /\ pos' = pos \cup {o.owner}
    BY <1>12 DEF Fill
  <2>2. UNCHANGED <<claims, reserved, pc>>
    BY <1>12 DEF Fill
  <2>3. \A s \in Strategy : Exposed(s)' => Exposed(s)
    BY <2>1 DEF Exposed, OrdersOf
  <2>4. ExposedReserved'
    BY <2>2, <2>3, ReservingAssumption DEF RInv, ExposedReserved
  <2>5. ReservedRow' /\ ReservingOnly' /\ SoleReservation'
    BY <2>2 DEF RInv, ReservedRow, HasRow, ReservingOnly, SoleReservation
  <2> QED
    BY <2>4, <2>5 DEF RInv
<1>13. CASE Tick
  <2>1. /\ UNCHANGED <<reserved, orders, pos, pc>>
        /\ claims' = {[c EXCEPT !.left = Aged(@)] : c \in claims}
    BY <1>13 DEF Tick
  <2>2. \A c \in claims : /\ [c EXCEPT !.left = Aged(@)].owner = c.owner
                          /\ [c EXCEPT !.left = Aged(@)].left = Aged(c.left)
                          /\ Aged(c.left) = Forever <=> c.left = Forever
    BY BoundsAssumption DEF Aged, Forever, Lease
  <2>3. \A c \in claims' : \E d \in claims :
          c.owner = d.owner /\ (c.left = Forever <=> d.left = Forever)
    BY <2>1, <2>2
  <2>4. ASSUME NEW s \in Strategy, HasRow(s) PROVE HasRow(s)'
    <3>1. PICK c \in claims : c.owner = s
      BY <2>4 DEF HasRow
    <3>2. [c EXCEPT !.left = Aged(@)] \in claims'
      BY <2>1
    <3> QED
      BY <2>2, <3>1, <3>2 DEF HasRow
  <2>5. ReservedRow'
    BY <2>1, <2>3, <2>4 DEF RInv, ReservedRow
  <2>6. ReservingOnly' /\ SoleReservation' /\ ExposedReserved'
    BY <2>1 DEF RInv, ReservingOnly, SoleReservation, ExposedReserved,
      Exposed, OrdersOf
  <2> QED
    BY <2>5, <2>6 DEF RInv
<1>14. CASE UNCHANGED vars
  <2>1. Quiet
    BY <1>3, <1>14 DEF vars
  <2> QED
    BY <1>1, <2>1
<1> HIDE <1>0 DEF TypeOK, StateOK, PC, Goto, Release, ledger, Moves, Quiet, Rows
<1> QED
  BY <1>1, <1>2, <1>5, <1>6, <1>7, <1>8, <1>9, <1>10, <1>11, <1>12, <1>13,
     <1>14 DEF Next, Open, Close

\* The order or the position of a reserving strategy keeps its row in the table.
LEMMA ReservedCovered ==
  RInv => \A s \in Reserving : Exposed(s) => \E c \in Unexpired : c.owner = s
BY ReservingAssumption, BoundsAssumption
DEF RInv, ExposedReserved, ReservedRow, HasRow, Unexpired, Forever

LEMMA OnlyClaimAdmits ==
  ASSUME TypeOK, [Next]_vars,
         NEW t \in Strategy, pc[t] = "claim", pc'[t] = "recheck"
  PROVE  ClaimAtomic(t)
<1> USE DEF TypeOK, StateOK, PC, Entering, Goto, Release
<1>1. ASSUME NEW s \in Strategy, Open(s) PROVE ClaimAtomic(t)
  BY <1>1 DEF Open, CheckAuthority, CheckClaim, ClaimAtomic, Recheck, Abandon,
    Prepare, Reserve, CheckFlat, PlaceOrder, LogOrder, SeeFill,
    CancelUnfilled, LoseOrder
<1>2. ASSUME NEW s \in Strategy, Close(s) PROVE FALSE
  BY <1>2 DEF Close, MarkTerminal, ReleaseRow, CleanupExpired, Retire,
    CloseUntracked, Settle
<1>3. ASSUME NEW s \in Strategy, ExchangeClose(s) \/ Crash(s) \/ Boot(s)
      PROVE FALSE
  BY <1>3 DEF ExchangeClose, Crash, Boot
<1>4. CASE Fill \/ Tick \/ UNCHANGED vars
  BY <1>4 DEF Fill, Tick, vars
<1> QED
  BY <1>1, <1>2, <1>3, <1>4 DEF Next

\* Whatever fails, failed reads and restarts included: as long as a reserving
\* strategy has an order or a position, no claim of a rival is granted.
THEOREM ReservedBlocks ==
  Spec => [][\A s \in Reserving, t \in Strategy :
               Exposed(s) /\ Blocking(s, t) /\ pc[t] = "claim"
                 => pc'[t] # "recheck"]_vars
<1> DEFINE Blocks == \A s \in Reserving, t \in Strategy :
                       Exposed(s) /\ Blocking(s, t) /\ pc[t] = "claim"
                         => pc'[t] # "recheck"
<1>1. RInv /\ [Next]_vars => [Blocks]_vars
  <2> SUFFICES ASSUME RInv, [Next]_vars, NEW s \in Reserving,
                      NEW t \in Strategy, Exposed(s), Blocking(s, t),
                      pc[t] = "claim", pc'[t] = "recheck"
               PROVE  FALSE
    OBVIOUS
  <2>1. ClaimAtomic(t)
    BY OnlyClaimAdmits DEF RInv
  <2>2. PICK c \in Unexpired : c.owner = s
    BY ReservedCovered
  <2>3. s # t
    BY DEF Blocking
  <2> QED
    BY <2>1, <2>2, <2>3 DEF ClaimAtomic, Goto, RInv, TypeOK, StateOK
<1>2. [Blocks]_vars => [\A s \in Reserving, t \in Strategy :
                          Exposed(s) /\ Blocking(s, t) /\ pc[t] = "claim"
                            => pc'[t] # "recheck"]_vars
  OBVIOUS
<1> QED
  BY InitRInv, NextRInv, <1>1, <1>2, PTL DEF Spec

\* Whatever fails, two strategies that enter with reservations never have an
\* order or a position in the symbol together.
THEOREM ReservedAlone ==
  Spec => [](\A s, t \in Reserving : Exposed(s) /\ Exposed(t) => s = t)
<1>1. RInv => \A s, t \in Reserving : Exposed(s) /\ Exposed(t) => s = t
  BY ReservingAssumption DEF RInv, ExposedReserved, SoleReservation
<1> QED
  BY InitRInv, NextRInv, <1>1, PTL DEF Spec

\* An unexpired row ends only with its strategy's release or with the proof
\* that its reservation is over, and only a reservation prolongs it.
THEOREM LeaseKept == Spec => LeaseHonoured
<1> DEFINE Stays(c) == \E d \in claims' :
                         /\ d.owner = c.owner
                         /\ \/ d.left \in {c.left, c.left - 1}
                            \/ reserved'[c.owner] = "unsent"
           Released(s) == /\ reserved[s] = "none"
                          /\ pc[s] = "unclaim" /\ pc'[s] = "idle"
           Settled(s) == /\ reserved[s] = "sent" /\ reserved'[s] = "none"
                         /\ ~Exposed(s)
           Kept == \A c \in Unexpired :
                     Stays(c) \/ Released(c.owner) \/ Settled(c.owner)
<1>1. TypeOK /\ [Next]_vars => [Kept]_vars
  <2> SUFFICES ASSUME TypeOK, [Next]_vars, NEW c \in Unexpired
               PROVE  Stays(c) \/ Released(c.owner) \/ Settled(c.owner)
    OBVIOUS
  <2> USE DEF TypeOK, StateOK, Lease, Forever, Goto, Release, ledger
  <2>1. c \in claims /\ c.left > 0 /\ c.left \in Nat /\ c.owner \in Strategy
    BY BoundsAssumption DEF Unexpired
  <2>2. c \in claims' => Stays(c)
    OBVIOUS
  <2>3. ASSUME NEW s \in Strategy, ClaimAtomic(s) PROVE c \in claims'
    BY <2>1, <2>3 DEF ClaimAtomic, Unexpired
  <2>4. ASSUME NEW s \in Strategy, ReleaseRow(s)
        PROVE  c \in claims' \/ Released(c.owner)
    BY <2>1, <2>4 DEF ReleaseRow, PC
  <2>5. ASSUME NEW s \in Strategy, CleanupExpired(s) PROVE c \in claims'
    BY <2>1, <2>5 DEF CleanupExpired
  <2>6. ASSUME NEW s \in Strategy, Reserve(s) PROVE Stays(c)
    <3>1. CASE c.owner = s
      <4>1. [c EXCEPT !.left = TTL + 1] \in claims'
        BY <2>1, <2>6, <3>1 DEF Reserve
      <4>2. [c EXCEPT !.left = TTL + 1].owner = c.owner
        BY <2>1
      <4>3. reserved'[c.owner] = "unsent"
        BY <2>1, <2>6, <3>1 DEF Reserve
      <4> QED
        BY <4>1, <4>2, <4>3
    <3>2. CASE c.owner # s
      BY <2>1, <2>6, <3>2 DEF Reserve
    <3> QED
      BY <3>1, <3>2
  <2>7. ASSUME NEW s \in Strategy, Settle(s)
        PROVE  c \in claims' \/ Settled(c.owner)
    BY <2>1, <2>7 DEF Settle, Exposed, OrdersOf
  <2>8. CASE Tick
    <3>1. [c EXCEPT !.left = Aged(@)] \in claims'
      BY <2>1, <2>8 DEF Tick
    <3>2. /\ [c EXCEPT !.left = Aged(@)].owner = c.owner
          /\ [c EXCEPT !.left = Aged(@)].left = Aged(c.left)
      BY <2>1
    <3>3. Aged(c.left) \in {c.left, c.left - 1}
      BY DEF Aged
    <3> QED
      BY <3>1, <3>2, <3>3
  <2>9. CASE UNCHANGED claims
    BY <2>1, <2>9
  <2>10. ASSUME NEW s \in Strategy, Open(s)
         PROVE  UNCHANGED claims \/ ClaimAtomic(s) \/ Reserve(s)
    BY <2>10 DEF Open, CheckAuthority, CheckClaim, Recheck, Abandon, Prepare,
      CheckFlat, PlaceOrder, LogOrder, SeeFill, CancelUnfilled, LoseOrder
  <2>11. ASSUME NEW s \in Strategy, Close(s)
         PROVE  \/ UNCHANGED claims
                \/ ReleaseRow(s) \/ CleanupExpired(s) \/ Settle(s)
    BY <2>11 DEF Close, MarkTerminal, Retire, CloseUntracked
  <2>12. ASSUME \/ \E s \in Strategy :
                       ExchangeClose(s) \/ Crash(s) \/ Boot(s)
                \/ Fill \/ UNCHANGED vars
         PROVE  UNCHANGED claims
    BY <2>12 DEF ExchangeClose, Crash, Boot, Fill, vars
  <2> HIDE DEF Stays, Released, Settled
  <2> QED
    BY <2>2, <2>3, <2>4, <2>5, <2>6, <2>7, <2>8, <2>9, <2>10, <2>11, <2>12
       DEF Next
<1>2. [Kept]_vars => [\A c \in Unexpired :
         LET s == c.owner IN
         \/ \E d \in claims' :
               /\ d.owner = s
               /\ d.left \in {c.left, c.left - 1} \/ reserved'[s] = "unsent"
         \/ reserved[s] = "none" /\ pc[s] = "unclaim" /\ pc'[s] = "idle"
         \/ reserved[s] = "sent" /\ reserved'[s] = "none" /\ ~Exposed(s)]_vars
  OBVIOUS
<1> QED
  BY TypeCorrect, <1>1, <1>2, PTL DEF Spec, LeaseHonoured

-----------------------------------------------------------------------------
(* The inductive invariant behind mutual exclusion.  A strategy in its     *)
(* window is protected by its row, one past it by its record, a reserving  *)
(* one by its reservation; rows and records each have a single owner.      *)

SingleRow == \A c, d \in claims : c = d

\* A reservation lasts at least as long as its order is waited for.
WaitReserved ==
  \A s \in Reserving : pc[s] \in {"log", "wait"} => reserved[s] # "none"

KInv == RInv /\ SingleRow /\ WaitReserved

\* A strategy without reservation has a row that has not expired until its
\* entry record is due.
WindowHasRow ==
  \A s \in Strategy \ Reserving : pc[s] \in Window =>
    \E c \in Unexpired : c.owner = s

SingleAuthority == \A r, q \in records : r.owner = q.owner

\* A reserving strategy may lose its row before it reserves: it is not
\* sheltered any more, and Reserve will refuse it.
Sheltered(s) ==
  pc[s] \in Entering \cup {"log"} /\ (s \in Reserving => HasRow(s))

\* Once granted, a strategy finds nobody else's record.
GrantedAlone ==
  \A s \in Strategy : Sheltered(s) => \A r \in records : r.owner = s

\* An order rests only while its strategy waits for it, and a position is
\* either still awaited or registered.
OrdersAwaited ==
  \A o \in orders : o.owner \notin Reserving =>
    /\ pc[o.owner] \in {"log", "wait"}
    /\ o.id = myOrder[o.owner]
    /\ o.owner \notin pos
PositionsKnown ==
  \A s \in pos \ Reserving :
    pc[s] \in {"log", "wait"} \/ (pc[s] = "idle" /\ s \in tracked)

EngagedRecorded ==
  \A s \in Strategy \ Reserving : pc[s] = "wait" \/ s \in pos =>
    pc[s] = "log" \/ RecordsOf(s) # {}

SoleEngagement ==
  \A s, t \in Strategy : Engaged(s) /\ Engaged(t) => s = t

Safe ==
  /\ WindowHasRow
  /\ SingleAuthority
  /\ GrantedAlone
  /\ OrdersAwaited
  /\ PositionsKnown
  /\ EngagedRecorded
  /\ SoleEngagement

IInv == KInv /\ (intact => Safe)

LEMMA InitIInv == Init => IInv
<1> SUFFICES ASSUME Init PROVE IInv
  OBVIOUS
<1> USE DEF Init
<1>1. KInv
  BY InitRInv, ReservingAssumption DEF KInv, SingleRow, WaitReserved
<1>2. WindowHasRow /\ GrantedAlone
  BY DEF WindowHasRow, Window, Entering, GrantedAlone, Sheltered
<1>3. SingleAuthority /\ OrdersAwaited /\ PositionsKnown /\ EngagedRecorded
  BY DEF SingleAuthority, OrdersAwaited, PositionsKnown, EngagedRecorded
<1>4. SoleEngagement
  BY DEF SoleEngagement, Engaged, Committed, Exposed, OrdersOf
<1> QED BY <1>1, <1>2, <1>3, <1>4 DEF IInv, Safe

LEMMA NextKInv == KInv /\ [Next]_vars => KInv'
<1> SUFFICES ASSUME KInv, [Next]_vars PROVE SingleRow' /\ WaitReserved'
  BY NextRInv DEF KInv
<1>a. /\ TypeOK /\ ReservingOnly /\ ReservedRow /\ SoleReservation
      /\ SingleRow /\ WaitReserved
  BY DEF KInv, RInv
<1> USE <1>a, ReservingAssumption
    DEF TypeOK, StateOK, PC, Goto, Release, ledger, SingleRow, WaitReserved
<1>1. ASSUME NEW s \in Strategy, Open(s) PROVE SingleRow' /\ WaitReserved'
  <2>1. CASE CheckAuthority(s) \/ CheckClaim(s) \/ Recheck(s) \/ Abandon(s)
             \/ Prepare(s) \/ CheckFlat(s)
    BY <2>1 DEF CheckAuthority, CheckClaim, Recheck, Abandon, Prepare,
      CheckFlat
  <2>2. CASE LogOrder(s) \/ SeeFill(s) \/ CancelUnfilled(s) \/ LoseOrder(s)
    BY <2>2 DEF LogOrder, SeeFill, CancelUnfilled, LoseOrder
  <2>3. CASE ClaimAtomic(s)
    BY <2>3 DEF ClaimAtomic, Unexpired
  <2>4. CASE Reserve(s)
    BY <2>4 DEF Reserve
  <2>5. CASE PlaceOrder(s)
    <3>1. /\ claims' = claims
          /\ s \in Reserving => reserved'[s] = "sent"
          /\ \A t \in Strategy \ {s} :
               pc'[t] = pc[t] /\ reserved'[t] = reserved[t]
      BY <2>5 DEF PlaceOrder
    <3> QED BY <3>1
  <2> QED BY <1>1, <2>1, <2>2, <2>3, <2>4, <2>5 DEF Open
<1>2. ASSUME NEW s \in Strategy, Close(s) PROVE SingleRow' /\ WaitReserved'
  <2>1. CASE Settle(s)
    BY <2>1 DEF Settle
  <2>2. CASE MarkTerminal(s) \/ ReleaseRow(s) \/ CleanupExpired(s)
    BY <2>2 DEF MarkTerminal, ReleaseRow, CleanupExpired, Unexpired
  <2>3. CASE Retire(s) \/ CloseUntracked(s)
    BY <2>3 DEF Retire, CloseUntracked
  <2> QED BY <1>2, <2>1, <2>2, <2>3 DEF Close
<1>3. ASSUME NEW s \in Strategy, ExchangeClose(s) \/ Crash(s) \/ Boot(s)
      PROVE  SingleRow' /\ WaitReserved'
  BY <1>3 DEF ExchangeClose, Crash, Boot
<1>4. CASE Fill \/ UNCHANGED vars
  BY <1>4 DEF Fill, vars
<1>5. CASE Tick
  BY <1>5 DEF Tick
<1> QED BY <1>1, <1>2, <1>3, <1>4, <1>5 DEF Next

\* Whoever is engaged with a reservation has a row.
LEMMA ReservedEngaged ==
  ASSUME KInv, NEW s \in Reserving, Engaged(s)
  PROVE  reserved[s] # "none" /\ HasRow(s)
<1>1. s \in Strategy
  BY ReservingAssumption
<1>2. reserved[s] # "none"
  BY <1>1 DEF KInv, RInv, ReservingOnly, WaitReserved, ExposedReserved, Engaged,
    Committed
<1> QED BY <1>1, <1>2 DEF KInv, RInv, ReservedRow

\* Whoever is sheltered has a row, so only one strategy is.
LEMMA ShelteredRow ==
  ASSUME KInv, Safe, NEW s \in Strategy, Sheltered(s) PROVE HasRow(s)
BY DEF KInv, RInv, ReservingOnly, Safe, WindowHasRow, Sheltered, HasRow, Window,
  Unexpired

\* A strategy with a row and no foreign record is engaged alone.
LEMMA EngagedAlone ==
  ASSUME KInv, Safe, NEW s \in Strategy, HasRow(s), records = RecordsOf(s),
         NEW t \in Strategy, Engaged(t)
  PROVE  t = s
<1>1. ASSUME HasRow(t) PROVE t = s
  BY <1>1 DEF KInv, SingleRow, HasRow
<1>2. CASE t \in Reserving
  BY <1>1, <1>2, ReservedEngaged
<1>3. CASE t \notin Reserving
  <2>1. \/ pc[t] \in {"granted", "log"}
        \/ pc[t] = "wait" \/ t \in pos
    BY <1>3 DEF Engaged, Committed, Exposed, OrdersOf, Safe, OrdersAwaited
  <2>2. CASE pc[t] \in {"granted", "log"}
    BY <1>1, <1>3, <2>2, ShelteredRow DEF Sheltered, Entering
  <2>3. CASE pc[t] = "wait" \/ t \in pos
    BY <1>3, <2>2, <2>3 DEF Safe, EngagedRecorded, RecordsOf
  <2> QED BY <2>1, <2>2, <2>3
<1> QED BY <1>2, <1>3

LEMMA IntactBefore ==
  ASSUME TypeOK, [Next]_vars, intact' PROVE intact
BY IntactTyped DEF TypeOK, StateOK

\* try_claim_symbol goes on with a row, unless that is a mishap.
LEMMA RowAfterClaim ==
  ASSUME TypeOK, NEW s \in Strategy, ClaimAtomic(s), intact',
         s \notin Reserving, pc'[s] = "recheck"
  PROVE  \E c \in Unexpired' : c.owner = s
<1>1. pc'[s] # "idle" /\ ~Goto(s, "idle")
  BY DEF Goto, TypeOK, StateOK
<1>2. CASE Unexpired = {} /\ claims' = {[owner |-> s, left |-> TTL]}
  <2>1. [owner |-> s, left |-> TTL] \in claims'
    BY <1>2
  <2> QED BY <2>1, BoundsAssumption DEF Unexpired
<1>3. CASE /\ claims' = Unexpired
           /\ MishapOf(s, \A c \in Unexpired : c.owner # s)
  <2>1. PICK c \in Unexpired : c.owner = s
    BY <1>3 DEF MishapOf, Mishap
  <2>2. c \in claims' /\ c.left > 0
    BY <1>3, <2>1 DEF Unexpired
  <2> QED BY <2>1, <2>2 DEF Unexpired
<1> QED BY <1>1, <1>2, <1>3 DEF ClaimAtomic

LEMMA NextSafe ==
  ASSUME KInv, KInv', Safe, intact', [Next]_vars PROVE Safe'
<1>a. TypeOK /\ ReservedRow /\ ReservingOnly /\ SingleRow /\ WaitReserved
  BY DEF KInv, RInv
<1> USE <1>a
    DEF TypeOK, StateOK, PC, Safe, WindowHasRow, Sheltered, HasRow, Committed,
        Entering, SingleAuthority, GrantedAlone, OrdersAwaited, PositionsKnown,
        EngagedRecorded, SoleEngagement, Engaged, Exposed, OrdersOf, RecordsOf,
        Window, Unexpired, Goto, Release, ledger, Mishap, MishapOf
<1>1. ASSUME NEW s \in Strategy, CheckAuthority(s) PROVE Safe'
  BY <1>1 DEF CheckAuthority
<1>2. ASSUME NEW s \in Strategy, CheckClaim(s) PROVE Safe'
  BY <1>2 DEF CheckClaim
<1>3. ASSUME NEW s \in Strategy, ClaimAtomic(s) PROVE Safe'
  <2>1. /\ pc[s] = "claim"
        /\ pc' = [pc EXCEPT ![s] = "idle"] \/ pc' = [pc EXCEPT ![s] = "recheck"]
        /\ UNCHANGED <<records, orders, pos, reason, myOrder, tracked>>
    BY <1>3 DEF ClaimAtomic
  <2>2. \/ claims' = Unexpired \/ UNCHANGED claims
        \/ Unexpired = {} /\ claims' = {[owner |-> s, left |-> TTL]}
    BY <1>3 DEF ClaimAtomic
  <2>3. \A t \in Strategy \ {s} : HasRow(t)' => HasRow(t)
    BY <2>2
  <2>4. \A c \in Unexpired : c \in Unexpired'
    BY <2>2
  <2>5. s \notin Reserving /\ pc'[s] = "recheck" =>
          \E c \in Unexpired' : c.owner = s
    BY <1>3, RowAfterClaim
  <2>6. WindowHasRow'
    BY <2>1, <2>4, <2>5
  <2>7. GrantedAlone'
    BY <2>1, <2>3
  <2>8. OrdersAwaited' /\ PositionsKnown' /\ EngagedRecorded'
    BY <2>1
  <2>9. SoleEngagement' /\ SingleAuthority'
    BY <2>1
  <2> QED BY <2>6, <2>7, <2>8, <2>9
<1>4. ASSUME NEW s \in Strategy, Recheck(s) PROVE Safe'
  <2>1. /\ pc[s] = "recheck"
        /\ UNCHANGED <<claims, records, orders, pos, tracked, reserved>>
    BY <1>4 DEF Recheck
  <2>2. CASE Release(s, "authority_conflict", "unclaim")
    BY <2>1, <2>2
  <2>3. CASE /\ Goto(s, "granted") /\ records = RecordsOf(s)
             /\ UNCHANGED <<reason, myOrder>>
    <3>1. ASSUME s \notin Reserving, NEW t \in Strategy, Engaged(t)
          PROVE  t = s
      <4>1. HasRow(s)
        BY <2>1, <3>1
      <4> QED BY <2>3, <3>1, <4>1, EngagedAlone
    <3>2. SoleEngagement'
      BY <2>1, <2>3, <3>1
    <3>3. WindowHasRow' /\ GrantedAlone' /\ SingleAuthority'
      BY <2>1, <2>3
    <3>4. OrdersAwaited' /\ PositionsKnown' /\ EngagedRecorded'
      BY <2>1, <2>3
    <3> QED BY <3>2, <3>3, <3>4
  <2> QED BY <1>4, <2>2, <2>3 DEF Recheck
<1>5. ASSUME NEW s \in Strategy, Abandon(s) PROVE Safe'
  BY <1>5 DEF Abandon
<1>6. ASSUME NEW s \in Strategy, PlaceOrder(s) PROVE Safe'
  <2>1. /\ pc[s] = IF s \in Reserving THEN "cleared" ELSE "granted"
        /\ orders' = orders \cup {[id |-> placed + 1, owner |-> s]}
        /\ UNCHANGED <<claims, records, pos, tracked>>
    BY <1>6 DEF PlaceOrder
  <2>2. \/ /\ Goto(s, "log") /\ myOrder' = [myOrder EXCEPT ![s] = placed + 1]
        \/ /\ s \in Reserving
           /\ Goto(s, "mark") /\ myOrder' = [myOrder EXCEPT ![s] = 0]
    BY <1>6 DEF PlaceOrder
  <2>3. Engaged(s)
    BY <2>1
  <2>4. \A t \in Strategy \ {s} : Engaged(t)' => Engaged(t)
    BY <2>1, <2>2
  <2>5. SoleEngagement'
    BY <2>3, <2>4
  <2>6. WindowHasRow' /\ GrantedAlone' /\ SingleAuthority'
    BY <2>1, <2>2
  <2>7. OrdersAwaited'
    BY <2>1, <2>2
  <2>8. PositionsKnown' /\ EngagedRecorded'
    BY <2>1, <2>2
  <2> QED BY <2>5, <2>6, <2>7, <2>8
<1>7. ASSUME NEW s \in Strategy, LogOrder(s) PROVE Safe'
  <2>1. /\ UNCHANGED <<claims, orders, pos, reason, myOrder, tracked>>
        /\ pc[s] = "log" /\ pc' = [pc EXCEPT ![s] = "wait"]
    BY <1>7 DEF LogOrder
  <2>2. \/ \E r : r.owner = s /\ records' = records \cup {r}
        \/ s \in Reserving /\ UNCHANGED records
    BY <1>7 DEF LogOrder
  <2>3. Sheltered(s)
    BY <2>1 DEF WaitReserved, ReservedRow
  <2>4. ASSUME NEW t \in Strategy, Sheltered(t)' PROVE FALSE
    <3>1. t # s /\ Sheltered(t)
      BY <2>1, <2>4
    <3>2. HasRow(s) /\ HasRow(t)
      BY <2>3, <3>1, ShelteredRow
    <3> QED BY <3>1, <3>2 DEF SingleRow
  <2>5. SingleAuthority' /\ GrantedAlone'
    BY <2>2, <2>3, <2>4
  <2>6. EngagedRecorded'
    BY <2>1, <2>2
  <2>7. SoleEngagement' /\ WindowHasRow'
    BY <2>1
  <2>8. OrdersAwaited' /\ PositionsKnown'
    BY <2>1
  <2> QED BY <2>5, <2>6, <2>7, <2>8
<1>8. ASSUME NEW s \in Strategy, SeeFill(s) PROVE Safe'
  BY <1>8 DEF SeeFill, Mine
<1>9. ASSUME NEW s \in Strategy, CancelUnfilled(s) PROVE Safe'
  <2>1. /\ pc[s] = "wait" /\ pc' = [pc EXCEPT ![s] = "mark"]
        /\ myOrder' = [myOrder EXCEPT ![s] = 0]
        /\ UNCHANGED <<claims, pos, tracked>>
        /\ orders' = {o \in orders : o.id # myOrder[s]}
        /\ Mine(s) # {} /\ records' \subseteq records
    BY <1>9 DEF CancelUnfilled, Mine
  <2>2. ASSUME NEW t \in Strategy, t # s PROVE ~Engaged(t)
    BY <2>1, <2>2
  <2>3. s \notin Reserving => s \notin pos /\ \A o \in orders' : o.owner # s
    BY <2>1, <2>2 DEF Mine
  <2>4. OrdersAwaited' /\ PositionsKnown' /\ EngagedRecorded'
    BY <2>1, <2>2, <2>3
  <2>5. WindowHasRow' /\ SingleAuthority' /\ GrantedAlone'
    BY <2>1
  <2>6. SoleEngagement'
    BY <2>1, <2>2
  <2> QED BY <2>4, <2>5, <2>6
<1>10. ASSUME NEW s \in Strategy, LoseOrder(s) PROVE Safe'
  <2>1. /\ s \notin Reserving => ~Exposed(s)
        /\ pc[s] = "wait" /\ pc' = [pc EXCEPT ![s] = "mark"]
        /\ myOrder' = [myOrder EXCEPT ![s] = 0]
        /\ UNCHANGED <<claims, records, orders, pos, tracked>>
    BY <1>10 DEF LoseOrder
  <2>2. WindowHasRow' /\ SingleAuthority' /\ GrantedAlone'
    BY <2>1
  <2>3. OrdersAwaited' /\ PositionsKnown'
    BY <2>1
  <2>4. EngagedRecorded' /\ SoleEngagement'
    BY <2>1
  <2> QED BY <2>2, <2>3, <2>4
<1>11. ASSUME NEW s \in Strategy, MarkTerminal(s) PROVE Safe'
  BY <1>11 DEF MarkTerminal, LatestOf
<1>12. ASSUME NEW s \in Strategy, ReleaseRow(s) PROVE Safe'
  BY <1>12 DEF ReleaseRow
<1>13. ASSUME NEW s \in Strategy, CleanupExpired(s) PROVE Safe'
  BY <1>13 DEF CleanupExpired
<1>14. ASSUME NEW s \in Strategy, Retire(s) PROVE Safe'
  <2>1. /\ pc[s] = "idle" /\ s \in tracked \ pos
        /\ tracked' = tracked \ {s}
        /\ pc' = [pc EXCEPT ![s] = "mark"]
        /\ myOrder' = [myOrder EXCEPT ![s] = 0]
        /\ UNCHANGED <<claims, records, orders, pos>>
    BY <1>14 DEF Retire
  <2>2. WindowHasRow' /\ SingleAuthority' /\ GrantedAlone'
    BY <2>1
  <2>3. OrdersAwaited' /\ PositionsKnown'
    BY <2>1
  <2>4. EngagedRecorded' /\ SoleEngagement'
    BY <2>1
  <2> QED BY <2>2, <2>3, <2>4
<1>15. ASSUME NEW s \in Strategy, CloseUntracked(s) PROVE Safe'
  BY <1>15 DEF CloseUntracked
<1>16. ASSUME NEW s \in Strategy, ExchangeClose(s) PROVE Safe'
  BY <1>16 DEF ExchangeClose
<1>17. ASSUME NEW s \in Strategy, Crash(s) PROVE Safe'
  <2>1. /\ s \notin Reserving => ~Exposed(s)
        /\ pc' = [pc EXCEPT ![s] = "boot"] /\ tracked' = tracked \ {s}
        /\ myOrder' = [myOrder EXCEPT ![s] = 0]
        /\ UNCHANGED <<claims, records, orders, pos>>
    BY <1>17 DEF Crash
  <2>2. WindowHasRow' /\ SingleAuthority' /\ GrantedAlone'
    BY <2>1
  <2>3. OrdersAwaited' /\ PositionsKnown'
    BY <2>1
  <2>4. EngagedRecorded' /\ SoleEngagement'
    BY <2>1
  <2> QED BY <2>2, <2>3, <2>4
<1>18. ASSUME NEW s \in Strategy, Boot(s) PROVE Safe'
  BY <1>18 DEF Boot
<1>19. CASE Fill
  <2>1. PICK o \in orders : orders' = orders \ {o} /\ pos' = pos \cup {o.owner}
    BY <1>19 DEF Fill
  <2>2. UNCHANGED <<claims, records, pc, reason, myOrder, tracked, reserved>>
    BY <1>19 DEF Fill
  <2>3. \A p \in orders' : p.owner \notin Reserving => p.owner # o.owner
    BY <2>1
  <2>4. \A t \in Strategy : Engaged(t)' => Engaged(t)
    BY <2>1, <2>2
  <2>5. OrdersAwaited' /\ PositionsKnown' /\ EngagedRecorded'
    BY <2>1, <2>2, <2>3
  <2>6. WindowHasRow' /\ SingleAuthority' /\ GrantedAlone'
    BY <2>2
  <2>7. SoleEngagement'
    BY <2>4
  <2> QED BY <2>5, <2>6, <2>7
<1>20. CASE Tick
  <2>1. /\ UNCHANGED <<records, orders, pos, pc, reason, myOrder, tracked>>
        /\ claims' = {[c EXCEPT !.left = Aged(@)] : c \in claims}
        /\ \A c \in claims : ~/\ c.owner \notin Reserving
                              /\ pc[c.owner] \in Window
                              /\ c.left = 1
    BY <1>20 DEF Tick
  <2>2. ASSUME NEW c \in claims
        PROVE  /\ [c EXCEPT !.left = Aged(@)].owner = c.owner
               /\ [c EXCEPT !.left = Aged(@)].left = Aged(c.left)
               /\ [c EXCEPT !.left = Aged(@)] \in claims'
               /\ c.left > 0 /\ c.left # 1 => Aged(c.left) > 0
    <3>1. c.left \in Lease
      OBVIOUS
    <3>2. c.left > 0 /\ c.left # 1 => Aged(c.left) > 0
      BY <3>1, BoundsAssumption DEF Aged, Lease, Forever
    <3> QED BY <2>1, <3>2
  <2>3. \A t \in Strategy : HasRow(t)' => HasRow(t)
    BY <2>1, <2>2
  <2>4. WindowHasRow'
    <3> SUFFICES ASSUME NEW t \in Strategy \ Reserving, pc[t] \in Window
                 PROVE  \E d \in Unexpired' : d.owner = t
      BY <2>1
    <3>1. PICK c \in claims : c.owner = t /\ c.left > 0
      OBVIOUS
    <3>2. c.left # 1
      BY <2>1, <3>1
    <3>3. /\ [c EXCEPT !.left = Aged(@)] \in claims'
          /\ [c EXCEPT !.left = Aged(@)].owner = t
          /\ [c EXCEPT !.left = Aged(@)].left > 0
      BY <2>2, <3>1, <3>2
    <3> QED BY <3>3
  <2>5. GrantedAlone' /\ SingleAuthority'
    BY <2>1, <2>3
  <2>6. OrdersAwaited' /\ PositionsKnown' /\ EngagedRecorded' /\ SoleEngagement'
    BY <2>1
  <2> QED BY <2>4, <2>5, <2>6
<1>21. CASE UNCHANGED vars
  BY <1>21 DEF vars
<1>22. ASSUME NEW s \in Strategy, Prepare(s) PROVE Safe'
  BY <1>22 DEF Prepare
<1>23. ASSUME NEW s \in Strategy, Reserve(s) PROVE Safe'
  <2>1. /\ pc[s] = "prepared" /\ pc' = [pc EXCEPT ![s] = "reserved"]
        /\ UNCHANGED <<records, orders, pos, reason, myOrder, tracked>>
        /\ HasRow(s) /\ s \in Reserving
        /\ claims' = {IF c.owner = s THEN [c EXCEPT !.left = Forever] ELSE c :
                        c \in claims}
    BY <1>23 DEF Reserve, ReservingOnly
  <2>2. records = RecordsOf(s)
    BY <2>1
  <2>3. ASSUME NEW t \in Strategy, Engaged(t) PROVE t = s
    BY <2>1, <2>2, <2>3, EngagedAlone
  <2>4. SoleEngagement'
    BY <2>1, <2>3
  <2>5. \A t \in Strategy : HasRow(t)' => HasRow(t)
    BY <2>1
  <2>6. \A t \in Strategy \ {s} : \A c \in Unexpired :
          c.owner = t => c \in Unexpired'
    BY <2>1
  <2>7. WindowHasRow' /\ GrantedAlone' /\ SingleAuthority'
    BY <2>1, <2>5, <2>6
  <2>8. OrdersAwaited' /\ PositionsKnown' /\ EngagedRecorded'
    BY <2>1
  <2> QED BY <2>4, <2>7, <2>8
<1>24. ASSUME NEW s \in Strategy, CheckFlat(s) PROVE Safe'
  BY <1>24 DEF CheckFlat
<1>25. ASSUME NEW s \in Strategy, Settle(s) PROVE Safe'
  <2>1. /\ claims' = {c \in claims : c.owner # s}
        /\ UNCHANGED <<records, orders, pos, pc, reason, myOrder, tracked>>
        /\ s \in Reserving
    BY <1>25 DEF Settle, ReservedRow
  <2>2. WindowHasRow' /\ GrantedAlone'
    BY <2>1
  <2>3. SingleAuthority' /\ OrdersAwaited' /\ PositionsKnown'
        /\ EngagedRecorded' /\ SoleEngagement'
    BY <2>1
  <2> QED BY <2>2, <2>3
<1> QED
  BY <1>1, <1>2, <1>3, <1>4, <1>5, <1>6, <1>7, <1>8, <1>9, <1>10, <1>11,
     <1>12, <1>13, <1>14, <1>15, <1>16, <1>17, <1>18, <1>19, <1>20, <1>21,
     <1>22, <1>23, <1>24, <1>25
  DEF Next, Open, Close

LEMMA NextIInv == IInv /\ [Next]_vars => IInv'
<1> SUFFICES ASSUME IInv, [Next]_vars PROVE IInv'
  OBVIOUS
<1>1. KInv /\ KInv' /\ TypeOK
  BY NextKInv DEF IInv, KInv, RInv
<1>2. ASSUME intact' PROVE Safe'
  <2>1. intact
    BY <1>1, <1>2, IntactBefore
  <2>2. Safe
    BY <2>1 DEF IInv
  <2> QED BY <1>1, <1>2, <2>2, NextSafe
<1> QED BY <1>1, <1>2 DEF IInv

-----------------------------------------------------------------------------
(* Mutual exclusion, for every deployment and up to the first mishap.      *)

\* As long as no entry has lost its protection, two rivals are never engaged
\* in the symbol together.
THEOREM Exclusion == Spec => []MutualExclusion
<1>1. IInv => MutualExclusion
  BY DEF IInv, Safe, SoleEngagement, MutualExclusion, Rivals
<1> QED
  BY InitIInv, NextIInv, <1>1, PTL DEF Spec

\* Up to the same point an order or a position is visible to the other
\* strategies; that of a strategy with a reservation always is.
THEOREM Visibility == Spec => []ExposureVisible
<1>1. IInv => ExposureVisible
  <2> SUFFICES ASSUME IInv, intact, NEW s \in Strategy, Exposed(s),
                      RecordsOf(s) = {}
               PROVE  /\ pc[s] = "log" \/ s \in Reserving
                      /\ \E c \in Unexpired : c.owner = s
    BY DEF ExposureVisible
  <2>1. CASE s \in Reserving
    BY <2>1, ReservedCovered DEF IInv, KInv
  <2>2. CASE s \notin Reserving
    <3>1. pc[s] = "log"
      BY <2>2 DEF IInv, KInv, RInv, TypeOK, StateOK, Safe, Exposed, OrdersOf,
        OrdersAwaited, EngagedRecorded
    <3> QED BY <2>2, <3>1 DEF IInv, Safe, WindowHasRow, Window
  <2> QED BY <2>1, <2>2
<1> QED
  BY InitIInv, NextIInv, <1>1, PTL DEF Spec

\* Only the second look at the authority and the reservation engage a strategy.
LEMMA OnlyAdmissionEngages ==
  ASSUME KInv, Safe, intact', [Next]_vars,
         NEW t \in Strategy, ~Engaged(t), Engaged(t)'
  PROVE  Recheck(t) \/ Reserve(t)
<1>a. TypeOK /\ ReservingOnly
  BY DEF KInv, RInv
<1> USE <1>a
    DEF TypeOK, StateOK, PC, Entering, Engaged, Committed, Exposed, OrdersOf,
        Goto, Release, ledger
<1>1. ASSUME NEW s \in Strategy, Open(s) PROVE Recheck(t) \/ Reserve(t)
  <2>1. CASE CheckAuthority(s) \/ CheckClaim(s) \/ ClaimAtomic(s)
    BY <2>1 DEF CheckAuthority, CheckClaim, ClaimAtomic
  <2>2. CASE Recheck(s) \/ Reserve(s)
    <3>1. /\ UNCHANGED <<orders, pos>>
          /\ \A u \in Strategy \ {s} : pc'[u] = pc[u]
      BY <2>2 DEF Recheck, Reserve
    <3>2. t = s
      BY <3>1
    <3> QED BY <2>2, <3>2
  <2>3. CASE Abandon(s) \/ Prepare(s) \/ CheckFlat(s)
    BY <2>3 DEF Abandon, Prepare, CheckFlat
  <2>4. CASE PlaceOrder(s)
    <3>1. /\ pc[s] = IF s \in Reserving THEN "cleared" ELSE "granted"
          /\ orders' = orders \cup {[id |-> placed + 1, owner |-> s]}
          /\ UNCHANGED pos
          /\ \A u \in Strategy \ {s} : pc'[u] = pc[u]
      BY <2>4 DEF PlaceOrder
    <3>2. t # s
      BY <3>1
    <3> QED BY <3>1, <3>2
  <2>5. CASE LogOrder(s) \/ SeeFill(s)
    BY <2>5 DEF LogOrder, SeeFill
  <2>6. CASE CancelUnfilled(s) \/ LoseOrder(s)
    BY <2>6 DEF CancelUnfilled, LoseOrder, Mine
  <2> QED BY <1>1, <2>1, <2>2, <2>3, <2>4, <2>5, <2>6 DEF Open
<1>2. ASSUME NEW s \in Strategy, Close(s) PROVE FALSE
  BY <1>2 DEF Close, MarkTerminal, ReleaseRow, CleanupExpired, Retire,
    CloseUntracked, Settle
<1>3. ASSUME NEW s \in Strategy, ExchangeClose(s) \/ Crash(s) \/ Boot(s)
      PROVE FALSE
  BY <1>3 DEF ExchangeClose, Crash, Boot
<1>4. CASE Fill
  BY <1>4 DEF Fill
<1>5. CASE Tick \/ UNCHANGED vars
  BY <1>5 DEF Tick, vars
<1> QED
  BY <1>1, <1>2, <1>3, <1>4, <1>5 DEF Next

\* The protocol implements the abstract mutex, whatever fails: while the
\* protection is intact, a step that engages a strategy starts with nobody
\* engaged, and at most one engagement ends in a step.
THEOREM Refinement == Spec => ImplementsMutex
<1> DEFINE Holders == {s \in Strategy : Engaged(s)}
<1>1. Init => Mutex!Init
  BY DEF Init, Mutex!Init, Engaged, Committed, Exposed, OrdersOf
<1>2. ASSUME IInv, IInv', [Next]_vars, intact', Holders' # Holders
      PROVE  \E s \in Strategy : Mutex!Acquire(s) \/ Mutex!Quit(s)
  <2>0. KInv /\ Safe /\ Safe'
    <3>1. intact
      BY <1>2, IntactBefore DEF IInv, KInv, RInv
    <3> QED BY <1>2, <3>1 DEF IInv
  <2>1. \A s, t \in Strategy :
          /\ s \in Holders /\ t \in Holders => s = t
          /\ s \in Holders' /\ t \in Holders' => s = t
    BY <2>0 DEF Safe, SoleEngagement, Engaged, Committed, Exposed, OrdersOf
  <2>2. CASE \E t \in Strategy : t \in Holders' \ Holders
    <3>1. PICK t \in Strategy : t \in Holders' \ Holders
      BY <2>2
    <3>2. Recheck(t) \/ Reserve(t)
      <4>1. ~Engaged(t) /\ Engaged(t)'
        BY <3>1
      <4> QED
        BY <1>2, <2>0, <4>1, OnlyAdmissionEngages
    <3>3. ASSUME NEW s \in Holders PROVE s \in Holders'
      <4>1. s # t
        BY <3>1
      <4> QED
        BY <3>2, <4>1, <2>0 DEF Recheck, Reserve, Release, Goto, Engaged,
          Committed, Exposed, OrdersOf, KInv, RInv, TypeOK, StateOK
    <3>4. Holders = {} /\ Holders' = {t}
      BY <2>1, <3>1, <3>3
    <3> QED
      BY <3>4 DEF Mutex!Acquire
  <2>3. CASE \A t \in Strategy : t \notin Holders' \ Holders
    <3>0. Holders \subseteq Strategy /\ Holders' \subseteq Holders
      BY <2>3
    <3>1. PICK s \in Strategy : s \in Holders /\ s \notin Holders'
      BY <1>2, <3>0
    <3>2. Holders = {s}
      BY <2>1, <3>0, <3>1
    <3>3. Holders' = {}
      BY <3>0, <3>1, <3>2
    <3> QED
      BY <3>2, <3>3 DEF Mutex!Quit
  <2> QED
    BY <2>2, <2>3
<1>3. IInv /\ IInv' /\ [Next]_vars => [Mutex!Next]_(Mutex!mutex)
  <2> SUFFICES ASSUME IInv, IInv', [Next]_vars PROVE [Mutex!Next]_(Mutex!mutex)
    OBVIOUS
  <2>1. TypeOK /\ intact \in BOOLEAN /\ intact' \in BOOLEAN
    BY DEF IInv, KInv, RInv, TypeOK, StateOK
  <2>2. CASE ~intact'
    <3>1. intact' = FALSE
      BY <2>1, <2>2
    <3>2. Holders' \in SUBSET Strategy
      OBVIOUS
    <3> QED BY <3>1, <3>2 DEF Mutex!Next, Mutex!Break
  <2>3. CASE intact' /\ Holders' = Holders
    <3>1. intact
      BY <2>1, <2>3, IntactBefore
    <3>2. UNCHANGED intact
      BY <2>1, <2>3, <3>1
    <3> QED BY <2>3, <3>2 DEF Mutex!mutex
  <2>4. CASE intact' /\ Holders' # Holders
    <3>1. intact
      BY <2>1, <2>4, IntactBefore
    <3> QED BY <1>2, <2>4, <3>1 DEF Mutex!Next, Mutex!Keep
  <2> QED BY <2>2, <2>3, <2>4
<1>4. Spec => Mutex!Init /\ [][Mutex!Next]_(Mutex!mutex)
  BY InitIInv, NextIInv, <1>1, <1>3, PTL DEF Spec
<1>5. Mutex!Init /\ [][Mutex!Next]_(Mutex!mutex) <=> ImplementsMutex
  BY DEF ImplementsMutex, Mutex!Spec
<1> QED BY <1>4, <1>5
=============================================================================
