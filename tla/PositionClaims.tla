--------------------------- MODULE PositionClaims ---------------------------
(***************************************************************************)
(* Several strategies trade one shared exchange account.  Before a         *)
(* strategy opens a position in a symbol it must win the symbol:           *)
(*   - trading.position_claims holds at most one live row per symbol, a    *)
(*     lease with a time to live that covers the opening window;           *)
(*   - trading.trade_records is the authority once the entry order has     *)
(*     been logged: the owner is the strategy of the latest open record.   *)
(* A strategy under the reduced-risk policy also takes a durable           *)
(* reservation before it submits: it turns its row into one that never     *)
(* expires, a database trigger keeps the row for as long as the            *)
(* reservation lasts, and the reservation ends only when the exchange      *)
(* proves the order final and the symbol flat.                             *)
(* The module follows one symbol: lock key, row and records are all        *)
(* selected by symbol, so symbols do not interact.  A strategy process     *)
(* runs its opening sequence in one asyncio task, so it has one program    *)
(* counter; different strategies are different operating-system processes  *)
(* and interleave at every database or exchange call.                      *)
(*                                                                         *)
(* Time is counted in ticks.  TTL is claim_ttl_minutes in ticks; nothing    *)
(* bounds the time from the claim to the entry record, so that the lease   *)
(* may run out in between.  Faults selects which failures the environment  *)
(* may inject.                                                             *)
(***************************************************************************)
EXTENDS Integers, FiniteSets

CONSTANTS
  Strategy,   \* record names of the strategies that share the account
  NoOwner,    \* the None that an ownership query returns
  Competing,  \* [Strategy -> SUBSET Strategy], competing_record_names
  Reserving,  \* the strategies that enter with a risk reservation
  TTL,        \* lifetime of a claim row, in ticks
  MaxOrders,  \* bound on the entry orders ever placed
  MaxCrashes, \* bound on process crashes
  Faults      \* the failures injected, a subset of FaultKind

FaultKind == {"read", "claim", "release", "log", "unknown", "crash"}

ASSUME NoOwnerAssumption == NoOwner \notin Strategy
ASSUME CompetingAssumption == Competing \in [Strategy -> SUBSET Strategy]
ASSUME ReservingAssumption == Reserving \subseteq Strategy
ASSUME BoundsAssumption ==
  /\ TTL \in Nat \ {0}
  /\ MaxOrders \in Nat
  /\ MaxCrashes \in Nat
ASSUME FaultsAssumption == Faults \subseteq FaultKind

VARIABLES
  claims,   \* live rows (PENDING or ACTIVE) with the ticks left to expires_at
  records,  \* open entry records, ordered by seq (executed_at, id)
  orders,   \* entry orders resting on the exchange
  pos,      \* strategies whose fill is still an open exchange position
  pc,       \* where each strategy's opening or releasing task stands
  reason,   \* the reason passed to release_claim
  myOrder,  \* the order the strategy waits for, 0 when none
  tracked,  \* strategies that have the symbol in self.positions
  reserved, \* each strategy's risk reservation: none, unsent or sent
  placed,   \* number of entry orders placed so far
  logged,   \* the id of the last entry record
  crashes,  \* number of crashes so far
  intact    \* no entry so far has lost the protection of row and record

ledger == <<reserved, placed, logged, crashes, intact>>
vars == <<claims, records, orders, pos, pc, reason, myOrder, tracked, ledger>>

\* A granted entry passes the steps of the reservation, if it needs one.
Entering == {"granted", "prepared", "reserved", "cleared"}
PC == {"idle", "claimcheck", "claim", "recheck", "log", "wait", "mark",
       "unclaim", "boot"} \cup Entering
\* open_failed stands for open_exception and micro_zeroed as well: all three
\* mark the latest record.
Reason == {"none", "authority_conflict", "open_failed", "position_closed"}

Window == {"recheck", "log"} \cup Entering

\* expires_at = 'infinity', the lease of a reserved row.
Forever == TTL + 1
Lease == 0..Forever

-----------------------------------------------------------------------------
(* What the ownership queries return.                                      *)

\* _is_owner_blocking: does this owner keep strategy s from opening?
Blocking(owner, s) ==
  /\ owner \notin {NoOwner, s}
  /\ Competing[s] = {} \/ owner \in Competing[s]

\* _open_entry_sql(False): the strategy of the latest open entry record.
AuthorityOwner ==
  IF records = {} THEN {NoOwner}
  ELSE {r.owner : r \in {q \in records : \A p \in records : p.seq <= q.seq}}

Unexpired == {c \in claims : c.left > 0}

\* _CLAIM_SELECT_ACTIVE_SQL of position_ownership: only unexpired rows.
ClaimOwner ==
  IF Unexpired = {} THEN {NoOwner} ELSE {c.owner : c \in Unexpired}

\* A read that fails is swallowed and reported as "no owner".
Reads(owners) == owners \cup (IF "read" \in Faults THEN {NoOwner} ELSE {})

RecordsOf(s) == {r \in records : r.owner = s}
OrdersOf(s) == {o \in orders : o.owner = s}
HasRow(s) == \E c \in claims : c.owner = s
Exposed(s) == s \in pos \/ OrdersOf(s) # {}

-----------------------------------------------------------------------------
Init ==
  /\ claims = {}
  /\ records = {}
  /\ orders = {}
  /\ pos = {}
  /\ pc = [s \in Strategy |-> "idle"]
  /\ reason = [s \in Strategy |-> "none"]
  /\ myOrder = [s \in Strategy |-> 0]
  /\ tracked = {}
  /\ placed = 0
  /\ logged = 0
  /\ crashes = 0
  /\ intact = TRUE
  /\ reserved = [s \in Strategy |-> "none"]

\* Nothing reads intact but the properties: it is the history of the events
\* that leave an entry without the protection the protocol counts on.
Mishap(b) == IF b THEN intact' = FALSE ELSE UNCHANGED intact
\* The same, of a strategy that has no reservation to fall back on.
MishapOf(s, b) == Mishap(s \notin Reserving /\ b)

Goto(s, label) == pc' = [pc EXCEPT ![s] = label]

\* Enter release_claim with the given reason.
Release(s, why, label) ==
  /\ Goto(s, label)
  /\ reason' = [reason EXCEPT ![s] = why]
  /\ myOrder' = [myOrder EXCEPT ![s] = 0]

-----------------------------------------------------------------------------
(* The opening sequence: is_symbol_owned_by_other, then try_claim_symbol.  *)
(* A refusal that changes nothing is a stuttering step.                    *)

CheckAuthority(s) ==
  /\ pc[s] = "idle"
  /\ s \notin tracked
  /\ placed < MaxOrders
  /\ \E owner \in Reads(AuthorityOwner) : ~Blocking(owner, s)
  /\ Goto(s, "claimcheck")
  /\ UNCHANGED <<claims, records, orders, pos, reason, myOrder, tracked, ledger>>

CheckClaim(s) ==
  /\ pc[s] = "claimcheck"
  /\ \E owner \in Reads(ClaimOwner) :
       Goto(s, IF Blocking(owner, s) THEN "idle" ELSE "claim")
  /\ UNCHANGED <<claims, records, orders, pos, reason, myOrder, tracked, ledger>>

\* claim_position_atomic: one transaction under the symbol's advisory lock.
\* Expired rows are released first; what is left decides.
ClaimAtomic(s) ==
  /\ pc[s] = "claim"
  /\ \/ /\ \E c \in Unexpired : c.owner # s /\ Blocking(c.owner, s)
        /\ claims' = Unexpired
        /\ Goto(s, "idle")
        /\ UNCHANGED intact
     \/ \* own row: reused as it is; foreign row that does not compete: the
        \* unique index refuses the insert and try_claim_symbol goes on
        /\ Unexpired # {}
        /\ \A c \in Unexpired : ~Blocking(c.owner, s)
        /\ claims' = Unexpired
        /\ Goto(s, "recheck")
        /\ MishapOf(s, \A c \in Unexpired : c.owner # s)
     \/ /\ Unexpired = {}
        /\ claims' = {[owner |-> s, left |-> TTL]}
        /\ Goto(s, "recheck")
        /\ UNCHANGED intact
     \/ \* lock timeout or database error: the transaction rolls back
        /\ "claim" \in Faults
        /\ Goto(s, "idle")
        /\ UNCHANGED <<claims, intact>>
  /\ UNCHANGED <<records, orders, pos, reason, myOrder, tracked, reserved,
                 placed, logged, crashes>>

\* Seeded fault: the claim alone admits the entry.
GrantOnClaim(s) ==
  /\ pc[s] = "recheck"
  /\ Goto(s, "granted")
  /\ UNCHANGED <<claims, records, orders, pos, reason, myOrder, tracked, ledger>>

\* The second look at the authority, after the claim.
Recheck(s) ==
  /\ pc[s] = "recheck"
  /\ \E owner \in Reads(AuthorityOwner) :
       IF Blocking(owner, s)
         THEN Release(s, "authority_conflict", "unclaim") /\ UNCHANGED intact
         ELSE /\ Goto(s, "granted")
              /\ Mishap(records # RecordsOf(s))
              /\ UNCHANGED <<reason, myOrder>>
  /\ UNCHANGED <<claims, records, orders, pos, tracked, reserved, placed,
                 logged, crashes>>

-----------------------------------------------------------------------------
(* The entry order.                                                        *)

\* _place_entry_order gives up before an order is sent (policy, limits,
\* leverage), or raises before the request reaches the exchange.
Abandon(s) ==
  /\ pc[s] \in Entering
  /\ Release(s, "open_failed", "mark")
  /\ UNCHANGED <<claims, records, orders, pos, tracked, ledger>>

\* prepare_aggressive_entry finds no foreign entry order in the account.
Prepare(s) ==
  /\ pc[s] = "granted"
  /\ s \in Reserving
  /\ \A o \in orders : o.owner = s
  /\ Goto(s, "prepared")
  /\ UNCHANGED <<claims, records, orders, pos, reason, myOrder, tracked, ledger>>

\* RiskPolicyStore.reserve: the symbol has no unresolved reservation and the
\* strategy still has its row, which now never expires.
Reserve(s) ==
  /\ pc[s] = "prepared"
  /\ \A t \in Strategy : reserved[t] = "none"
  /\ HasRow(s)
  /\ claims' = {IF c.owner = s THEN [c EXCEPT !.left = Forever] ELSE c :
                  c \in claims}
  /\ reserved' = [reserved EXCEPT ![s] = "unsent"]
  /\ Goto(s, "reserved")
  /\ UNCHANGED <<records, orders, pos, reason, myOrder, tracked, placed,
                 logged, crashes, intact>>

\* The last look at the exchange: a position nobody remembers ends the entry.
CheckFlat(s) ==
  /\ pc[s] = "reserved"
  /\ IF pos = {} THEN Goto(s, "cleared") /\ UNCHANGED <<reason, myOrder>>
                ELSE Release(s, "open_failed", "mark")
  /\ UNCHANGED <<claims, records, orders, pos, tracked, ledger>>

\* The POST of place_order is accepted; with the "unknown" fault its answer
\* may be lost, place_order raises and open_new_position releases.
PlaceOrder(s) ==
  /\ pc[s] = IF s \in Reserving THEN "cleared" ELSE "granted"
  /\ placed < MaxOrders
  /\ placed' = placed + 1
  /\ orders' = orders \cup {[id |-> placed + 1, owner |-> s]}
  /\ reserved' = [reserved EXCEPT ![s] = IF s \in Reserving THEN "sent" ELSE @]
  /\ \/ /\ Goto(s, "log")
        /\ myOrder' = [myOrder EXCEPT ![s] = placed + 1]
        /\ UNCHANGED <<reason, intact>>
     \/ /\ "unknown" \in Faults
        /\ Release(s, "open_failed", "mark")
        /\ MishapOf(s, TRUE)
  /\ UNCHANGED <<claims, records, pos, tracked, logged, crashes>>

\* place_order logs the order; log_order swallows its own failures.
LogOrder(s) ==
  /\ pc[s] = "log"
  /\ \/ /\ logged' = logged + 1
        /\ records' = records \cup
             {[seq |-> logged + 1, owner |-> s, order |-> myOrder[s]]}
        /\ UNCHANGED intact
     \/ /\ "log" \in Faults
        /\ MishapOf(s, TRUE)
        /\ UNCHANGED <<logged, records>>
  /\ Goto(s, "wait")
  /\ UNCHANGED <<claims, orders, pos, reason, myOrder, tracked, reserved,
                 placed, crashes>>

Mine(s) == {o \in orders : o.id = myOrder[s]}

\* The exchange fills a resting entry order.
Fill ==
  /\ \E o \in orders : orders' = orders \ {o} /\ pos' = pos \cup {o.owner}
  /\ UNCHANGED <<claims, records, pc, reason, myOrder, tracked, ledger>>

\* wait_order_final_state reports a fill; the position is registered.
SeeFill(s) ==
  /\ pc[s] = "wait"
  /\ Mine(s) = {}
  /\ tracked' = tracked \cup {s}
  /\ Goto(s, "idle")
  /\ myOrder' = [myOrder EXCEPT ![s] = 0]
  /\ UNCHANGED <<claims, records, orders, pos, reason, ledger>>

\* Seeded fault: the record is marked although the cancel lost the race and
\* the order is still resting.
MarkBeforeCancel(s) ==
  /\ pc[s] = "wait"
  /\ records' = {r \in records : r.order # myOrder[s]}
  /\ Release(s, "open_failed", "mark")
  /\ UNCHANGED <<claims, orders, pos, tracked, ledger>>

\* Timeout: cancel_order removes the order and marks its record CANCELED.
CancelUnfilled(s) ==
  /\ pc[s] = "wait"
  /\ Mine(s) # {}
  /\ orders' = orders \ Mine(s)
  /\ \/ records' = {r \in records : r.order # myOrder[s]}
     \/ "release" \in Faults /\ UNCHANGED records
  /\ Release(s, "open_failed", "mark")
  /\ UNCHANGED <<claims, pos, tracked, ledger>>

\* The order is invisible or the API raises: the outcome is UNKNOWN, which
\* place_and_wait_entry_order treats as "no fill".
LoseOrder(s) ==
  /\ "unknown" \in Faults
  /\ pc[s] = "wait"
  /\ Release(s, "open_failed", "mark")
  /\ MishapOf(s, Exposed(s))
  /\ UNCHANGED <<claims, records, orders, pos, tracked, reserved, placed,
                 logged, crashes>>

-----------------------------------------------------------------------------
(* release_claim: first the terminal mark of the entry records, then the   *)
(* claim row; the failure of either is logged and ignored.                 *)

LatestOf(s) == {r \in RecordsOf(s) : \A q \in RecordsOf(s) : q.seq <= r.seq}

\* Seeded fault: a reason without an entry in the table of terminal states.
MarkOnlyFailures(s) ==
  /\ pc[s] = "mark"
  /\ records' = records \ (IF reason[s] = "position_closed"
                           THEN {} ELSE LatestOf(s))
  /\ Goto(s, "unclaim")
  /\ UNCHANGED <<claims, orders, pos, reason, myOrder, tracked, ledger>>

MarkTerminal(s) ==
  /\ pc[s] = "mark"
  /\ \/ records' = records \ (IF reason[s] = "position_closed"
                              THEN RecordsOf(s) ELSE LatestOf(s))
     \/ "release" \in Faults /\ UNCHANGED records
  /\ Goto(s, "unclaim")
  /\ UNCHANGED <<claims, orders, pos, reason, myOrder, tracked, ledger>>

\* Seeded fault: the release is not restricted to the strategy's own row.
ReleaseAnyRow(s) ==
  /\ pc[s] = "unclaim"
  /\ claims' = {}
  /\ Goto(s, "idle")
  /\ reason' = [reason EXCEPT ![s] = "none"]
  /\ UNCHANGED <<records, orders, pos, myOrder, tracked, ledger>>

\* The trigger protect_reserved_entry_claim puts a reserved row back.
ReleaseRow(s) ==
  /\ pc[s] = "unclaim"
  /\ \/ claims' = {c \in claims : c.owner # s \/ reserved[s] # "none"}
     \/ "release" \in Faults /\ UNCHANGED claims
  /\ Goto(s, "idle")
  /\ reason' = [reason EXCEPT ![s] = "none"]
  /\ UNCHANGED <<records, orders, pos, myOrder, tracked, ledger>>

\* RiskPolicyStore.reconcile, run at the next entry in any symbol: the order
\* is final, and neither a position nor an order is left in the symbol.  An
\* intent that was never sent has no order to be found, so it stays.
Settle(s) ==
  /\ pc[s] \in {"idle", "granted"}
  /\ reserved[s] = "sent"
  /\ orders = {} /\ pos = {}
  /\ reserved' = [reserved EXCEPT ![s] = "none"]
  /\ claims' = {c \in claims : c.owner # s}
  /\ UNCHANGED <<records, orders, pos, pc, reason, myOrder, tracked, placed,
                 logged, crashes, intact>>

\* Seeded fault: the cleanup only reaches rows of the strategy that runs it,
\* and a strategy that crashed and owns nothing does not run it.
CleanupOwn(s) ==
  /\ pc[s] = "idle"
  /\ s \in tracked
  /\ claims' = {c \in claims : c.owner # s \/ c.left > 0}
  /\ UNCHANGED <<records, orders, pos, pc, reason, myOrder, tracked, ledger>>

\* cleanup_expired_claims, run by every strategy's main loop.
CleanupExpired(s) ==
  /\ pc[s] = "idle"
  /\ claims # Unexpired
  /\ claims' = Unexpired
  /\ UNCHANGED <<records, orders, pos, pc, reason, myOrder, tracked, ledger>>

-----------------------------------------------------------------------------
(* The end of a position.                                                  *)

\* A protection order or the strategy's own close order flattens it.
ExchangeClose(s) ==
  /\ s \in pos
  /\ pos' = pos \ {s}
  /\ UNCHANGED <<claims, records, orders, pc, reason, myOrder, tracked, ledger>>

\* The main loop finds the position gone, forgets it and releases.
Retire(s) ==
  /\ pc[s] = "idle"
  /\ s \in tracked \ pos
  /\ tracked' = tracked \ {s}
  /\ Release(s, "position_closed", "mark")
  /\ UNCHANGED <<claims, records, orders, pos, ledger>>

\* _enforce_allocation_holdings closes an owned position nobody tracks.
CloseUntracked(s) ==
  /\ pc[s] = "idle"
  /\ s \in pos \ tracked
  /\ s \in Reads(AuthorityOwner)
  /\ pos' = pos \ {s}
  /\ Release(s, "position_closed", "mark")
  /\ UNCHANGED <<claims, records, orders, tracked, ledger>>

-----------------------------------------------------------------------------
(* Crash and restart: memory is lost, the database and the exchange keep   *)
(* what they have.                                                         *)

Crash(s) ==
  /\ "crash" \in Faults
  /\ crashes < MaxCrashes
  /\ pc[s] # "boot"
  /\ crashes' = crashes + 1
  /\ tracked' = tracked \ {s}
  /\ Release(s, "none", "boot")
  /\ MishapOf(s, Exposed(s))
  /\ UNCHANGED <<claims, records, orders, pos, reserved, placed, logged>>

\* Startup adopts an exchange position whose latest open record is its own,
\* unless its protection is incomplete or its price unknown.
Boot(s) ==
  /\ pc[s] = "boot"
  /\ \/ pos # {} /\ s \in AuthorityOwner /\ tracked' = tracked \cup {s}
     \/ UNCHANGED tracked
  /\ Goto(s, "idle")
  /\ UNCHANGED <<claims, records, orders, pos, reason, myOrder, ledger>>

Aged(left) == IF left \in 1..TTL THEN left - 1 ELSE left

\* One tick of time; the row of an entry that is still in its window may
\* expire with it.
Tick ==
  /\ \E c \in claims : c.left \in 1..TTL
  /\ claims' = {[c EXCEPT !.left = Aged(@)] : c \in claims}
  /\ Mishap(\E c \in claims : /\ c.owner \notin Reserving
                             /\ pc[c.owner] \in Window
                             /\ c.left = 1)
  /\ UNCHANGED <<records, orders, pos, pc, reason, myOrder, tracked, reserved,
                 placed, logged, crashes>>

-----------------------------------------------------------------------------
Open(s) ==
  \/ CheckAuthority(s) \/ CheckClaim(s) \/ ClaimAtomic(s) \/ Recheck(s)
  \/ Abandon(s) \/ Prepare(s) \/ Reserve(s) \/ CheckFlat(s)
  \/ PlaceOrder(s) \/ LogOrder(s)
  \/ SeeFill(s) \/ CancelUnfilled(s) \/ LoseOrder(s)

Close(s) ==
  \/ MarkTerminal(s) \/ ReleaseRow(s) \/ CleanupExpired(s)
  \/ Retire(s) \/ CloseUntracked(s) \/ Settle(s)

Next ==
  \/ \E s \in Strategy : Open(s) \/ Close(s) \/ ExchangeClose(s)
                         \/ Crash(s) \/ Boot(s)
  \/ Fill
  \/ Tick

Spec == Init /\ [][Next]_vars

\* A running process keeps executing its task; its main loop comes round to the
\* cleanup again and again, however many entries it tries; time passes.  No
\* signal, reconciliation, fill, close or crash is owed.
Proceed(s) ==
  \/ CheckClaim(s) \/ ClaimAtomic(s) \/ Recheck(s) \/ Abandon(s)
  \/ Prepare(s) \/ Reserve(s) \/ CheckFlat(s) \/ PlaceOrder(s)
  \/ LogOrder(s) \/ SeeFill(s) \/ CancelUnfilled(s)
  \/ LoseOrder(s) \/ MarkTerminal(s) \/ ReleaseRow(s) \/ Boot(s)

Fairness ==
  /\ WF_vars(Tick)
  /\ \A s \in Strategy : /\ WF_vars(Proceed(s))
                         /\ SF_vars(CleanupExpired(s))
                         /\ WF_vars(Retire(s))

FairSpec == Spec /\ Fairness

-----------------------------------------------------------------------------
(* Properties.                                                             *)

StateOK ==
  /\ claims \subseteq [owner : Strategy, left : Lease]
  /\ records \subseteq [seq : Nat \ {0}, owner : Strategy, order : Nat]
  /\ orders \subseteq [id : Nat \ {0}, owner : Strategy]
  /\ pos \subseteq Strategy
  /\ pc \in [Strategy -> PC]
  /\ reason \in [Strategy -> Reason]
  /\ myOrder \in [Strategy -> Nat]
  /\ tracked \subseteq Strategy
  /\ placed \in Nat
  /\ logged \in Nat
  /\ crashes \in Nat
  /\ reserved \in [Strategy -> {"none", "unsent", "sent"}]

TypeOK == StateOK /\ intact \in BOOLEAN

Rivals(s, t) == s # t /\ Blocking(t, s) /\ Blocking(s, t)

\* A strategy is engaged in the symbol from its final admission, the grant or
\* the reservation, until its order and its position are gone.
Committed(s) ==
  pc[s] \in IF s \in Reserving THEN {"reserved", "cleared"} ELSE {"granted"}
Engaged(s) == Committed(s) \/ pc[s] \in {"log", "wait"} \/ Exposed(s)

\* Two strategies that exclude each other are never engaged in the symbol at
\* the same time: open_new_position's promise for the shared account.  Failing
\* claims, releases and first looks do no harm, nor does anything that happens
\* to a strategy with a reservation after its grant; what does is Mishap.
MutualExclusion ==
  intact => \A s, t \in Strategy : Rivals(s, t) => ~(Engaged(s) /\ Engaged(t))

\* A row that has not expired leaves the table only through its own
\* strategy's release_claim or, if reserved, through its own reconciliation
\* after the order and the position are gone: neither cleanup, nor a rival's
\* claim or release, nor a restart takes it, and only a reservation extends
\* the lease.
LeaseHonoured ==
  [][\A c \in Unexpired :
       LET s == c.owner IN
       \/ \E d \in claims' :
             /\ d.owner = s
             /\ d.left \in {c.left, c.left - 1} \/ reserved'[s] = "unsent"
       \/ reserved[s] = "none" /\ pc[s] = "unclaim" /\ pc'[s] = "idle"
       \/ reserved[s] = "sent" /\ reserved'[s] = "none" /\ ~Exposed(s)]_vars

\* The protocol implements the abstract mutex on the engaged strategies.
Mutex == INSTANCE SymbolMutex WITH holders <- {s \in Strategy : Engaged(s)}
ImplementsMutex == Mutex!Spec

\* Every exposed strategy is visible to its rivals: an order or a position is
\* covered by an open record or, until it is logged, by an unexpired row; with
\* a reservation the row is enough.
ExposureVisible ==
  intact => \A s \in Strategy : Exposed(s) =>
    \/ RecordsOf(s) # {}
    \/ /\ pc[s] = "log" \/ s \in Reserving
       /\ \E c \in Unexpired : c.owner = s

\* A claim never outlives its lease: every row without a reservation is
\* eventually released, even if its strategy crashed or its order was lost
\* (AC3, the claim half).
RowReclaimed ==
  \A s \in Strategy : HasRow(s) /\ reserved[s] = "none"
                       ~> ~HasRow(s) \/ reserved[s] # "none"

Residue(s) == RecordsOf(s) # {} /\ ~Engaged(s)

\* Whatever else fails, as long as no process has died an entry or a position
\* that is over takes its open record with it.
ResidueOnlyByCrash ==
  \A s \in Strategy : Residue(s) ~> ~Residue(s) \/ crashes > 0

-----------------------------------------------------------------------------
(* What the documents promise and the code does not keep: README, section 3. *)

\* Two rivals are never both past the grant with their order still to be
\* logged: at most one of the concurrent claims succeeds.
Admitted(s) == pc[s] \in Entering \cup {"log"}
ExclusiveGrant ==
  \A s, t \in Strategy : Rivals(s, t) => ~(Admitted(s) /\ Admitted(t))

\* The row of a strategy that is not in the symbol does not keep the others
\* out for ever (AC3, for reserved rows).
IdleRowReclaimed ==
  \A s \in Strategy : HasRow(s) /\ ~Engaged(s) ~> ~HasRow(s) \/ Engaged(s)

\* A strategy that holds neither order nor position eventually holds no open
\* record either, so that it stops keeping its rivals out (AC2, AC3).
ResidueClears == \A s \in Strategy : Residue(s) ~> ~Residue(s)

\* An order whose outcome is not known keeps its claim: the row of a strategy
\* that is still exposed is not released.
UnknownKeepsClaim ==
  [][\A s \in Strategy : Exposed(s) /\ pc[s] = "unclaim" /\ HasRow(s) =>
       \E c \in claims' : c.owner = s]_vars
=============================================================================
