-------------------------- MODULE EntryRiskProofs --------------------------
(***************************************************************************)
(* Proofs about EntryRiskReservation, for any set of workers, intents and  *)
(* symbols, any policies, and a database session that may be lost.         *)
(***************************************************************************)
EXTENDS EntryRiskReservation, FiniteSetTheorems, TLAPS

-----------------------------------------------------------------------------
(* The inductive invariant.                                                *)

Busy == \A w \in Worker : pc[w] # "idle" => intent[w] \in Intent

\* While a reconciliation holds the lock, what it has still to look at is
\* retained, and so is the reservation whose order it found final.
ReconcileLocked ==
  \A w \in Worker :
    /\ pc[w] \in {"row", "flat"} =>
         /\ lock = w
         /\ \A i \in todo[w] : Retained(i)
    /\ pc[w] = "flat" =>
         /\ row[w] \in Intent \ todo[w]
         /\ Retained(row[w])
         /\ order[row[w]] = "final"

\* What a pass has released and not committed is still retained; nothing can
\* reach its symbol any more.
FreedFlat ==
  \A w \in Worker : \A i \in freed[w] :
    /\ pc[w] \in {"row", "flat"}
    /\ Retained(i)
    /\ order[i] = "final"
    /\ held[SymbolOf[i]] = 0

\* An order exists only for an intent marked submitting before.
OrdersMarked ==
  \A i \in Intent :
    /\ order[i] = "open" => state[i] = "submitting"
    /\ order[i] = "final" => state[i] \in {"submitting", "released"}
    /\ state[i] \in {"none", "reserved"} => sent[i] = 0

\* An intent on its way to the POST is marked, unsent, and in one hand only.
OnItsWay(w) == pc[w] \in {"authorize", "sending"}
SentOnce ==
  /\ \A i \in Intent : sent[i] <= 1
  /\ \A i \in Intent : sent[i] = 0 => order[i] = "none"
  /\ \A w \in Worker : OnItsWay(w) =>
       state[intent[w]] = "submitting" /\ sent[intent[w]] = 0
  /\ \A v, w \in Worker :
       OnItsWay(v) /\ OnItsWay(w) /\ intent[v] = intent[w] => v = w

IInv ==
  /\ TypeOK
  /\ Busy
  /\ ReconcileLocked
  /\ FreedFlat
  /\ OrdersMarked
  /\ SentOnce
  /\ OneIntentPerSymbol
  /\ ExposureReserved

LEMMA InitIInv == Init => IInv
<1> SUFFICES ASSUME Init PROVE IInv
  OBVIOUS
<1> USE IntentAssumption, NamesAssumption, PolicyAssumption DEF Init
<1>1. TypeOK
  BY DEF TypeOK, State, PC
<1>2. Busy /\ ReconcileLocked /\ FreedFlat
  BY DEF Busy, ReconcileLocked, FreedFlat
<1>3. OrdersMarked /\ SentOnce
  BY DEF OrdersMarked, SentOnce, OnItsWay
<1>4. OneIntentPerSymbol /\ ExposureReserved
  BY DEF OneIntentPerSymbol, ExposureReserved, Unreleased, RetainedIn, Retained
<1> QED
  BY <1>1, <1>2, <1>3, <1>4 DEF IInv

LEMMA NextIInv == IInv /\ [Next]_vars => IInv'
<1> SUFFICES ASSUME IInv, [Next]_vars PROVE IInv'
  OBVIOUS
<1> USE IntentAssumption, NamesAssumption, PolicyAssumption
    DEF IInv, TypeOK, State, PC, Busy, ReconcileLocked, FreedFlat, OrdersMarked,
        SentOnce, OnItsWay, OneIntentPerSymbol, ExposureReserved, Unreleased,
        RetainedIn, Retained, Goto, Unlock, Forget, rules, exchange, book,
        worker, pass
<1>1. ASSUME NEW w \in Worker, Resume(w) PROVE IInv'
  BY <1>1 DEF Resume
<1>2. ASSUME NEW w \in Worker, Reconcile(w) PROVE IInv'
  BY <1>2 DEF Reconcile
<1>3. ASSUME NEW w \in Worker, ReadFlat(w) PROVE IInv'
  BY <1>3 DEF ReadFlat, Release
<1>4. ASSUME NEW w \in Worker, KeepRow(w) PROVE IInv'
  BY <1>4 DEF KeepRow
<1>5. ASSUME NEW w \in Worker, EndReconcile(w) PROVE IInv'
  <2>1. /\ pc[w] = "row" /\ lock = w
        /\ pc' = [pc EXCEPT ![w] = "holdings"]
        /\ lock' = NoWorker
        /\ freed' = [freed EXCEPT ![w] = {}]
        /\ state' = [i \in Intent |-> IF i \in freed[w] THEN "released"
                                      ELSE state[i]]
        /\ claimed' = claimed \ {SymbolOf[i] : i \in freed[w]}
        /\ UNCHANGED <<policy, allocation, revision, intent, todo, row>>
        /\ UNCHANGED <<order, sent, held, foreign>>
    BY <1>5 DEF EndReconcile
  <2>2. freed[w] \subseteq Unreleased
    BY <2>1
  <2>3. \A v \in Worker : v # w => pc[v] \notin {"row", "flat"}
    BY <2>1
  <2>4. TypeOK' /\ Busy'
    BY <2>1
  <2>5. ReconcileLocked' /\ FreedFlat'
    BY <2>1, <2>3
  <2>6. OrdersMarked' /\ SentOnce'
    BY <2>1, <2>2
  <2>7. Unreleased' = Unreleased \ freed[w]
    BY <2>1
  <2>8. OneIntentPerSymbol'
    BY <2>7
  <2>9. ExposureReserved'
    <3>1. \A i \in Intent : order[i] = "open" => i \notin freed[w]
      BY <2>1
    <3>2. ASSUME NEW x \in Symbol, held[x] > Legacy[x]
          PROVE  \E i \in RetainedIn(x)' : order[i] = "final"
      <4>1. PICK i \in RetainedIn(x) : order[i] = "final"
        BY <3>2
      <4>2. i \notin freed[w]
        BY <3>2, <4>1
      <4> QED
        BY <2>7, <4>1, <4>2
    <3>3. ASSUME NEW i \in Unreleased' PROVE SymbolOf[i] \in claimed'
      <4>1. i \in Unreleased /\ i \notin freed[w]
        BY <2>7, <3>3
      <4>2. \A j \in freed[w] : SymbolOf[j] # SymbolOf[i]
        BY <2>2, <4>1
      <4> QED
        BY <2>1, <4>1, <4>2
    <3> QED
      BY <2>1, <3>1, <3>2, <3>3
  <2> QED
    BY <2>4, <2>5, <2>6, <2>8, <2>9
<1>6. ASSUME NEW w \in Worker, ReadHoldings(w) PROVE IInv'
  BY <1>6 DEF ReadHoldings
<1>7. ASSUME NEW w \in Worker, ReadSlots(w) PROVE IInv'
  BY <1>7 DEF ReadSlots
<1>8. ASSUME NEW w \in Worker, Reserve(w) PROVE IInv'
  BY <1>8 DEF Reserve, Book
<1>9. ASSUME NEW w \in Worker, CheckFlat(w) PROVE IInv'
  BY <1>9 DEF CheckFlat
<1>10. ASSUME NEW w \in Worker, MarkSubmitting(w) PROVE IInv'
  BY <1>10 DEF MarkSubmitting, Marked
<1>11. ASSUME NEW w \in Worker, Authorize(w) PROVE IInv'
  BY <1>11 DEF Authorize
<1>12. ASSUME NEW w \in Worker, Send(w) PROVE IInv'
  BY <1>12 DEF Send
<1>13. ASSUME NEW w \in Worker, GiveUp(w) PROVE IInv'
  BY <1>13 DEF GiveUp
<1>14. ASSUME NEW w \in Worker, Crash(w) PROVE IInv'
  BY <1>14 DEF Crash
<1>15. ASSUME NEW w \in Worker, LoseSession(w) PROVE IInv'
  BY <1>15 DEF LoseSession
<1>16. ASSUME NEW w \in Worker, NEW i \in Intent, Begin(w, i) PROVE IInv'
  BY <1>16 DEF Begin, InForce
<1>17. ASSUME NEW w \in Worker, NEW i \in Intent, ReadOrder(w, i) PROVE IInv'
  BY <1>17 DEF ReadOrder
<1>18. ASSUME NEW c \in Candidate, Activate(c) PROVE IInv'
  BY <1>18 DEF Activate
<1>19. ASSUME NEW a \in Allocation, Allocate(a) PROVE IInv'
  BY <1>19 DEF Allocate
<1>20. ASSUME NEW x \in Symbol, Claim(x) PROVE IInv'
  BY <1>20 DEF Claim
<1>21. ASSUME NEW x \in Symbol, Unclaim(x) PROVE IInv'
  BY <1>21 DEF Unclaim
<1>22. ASSUME NEW x \in Symbol, Close(x) PROVE IInv'
  BY <1>22 DEF Close
<1>23. ASSUME NEW i \in Intent, NEW q \in 0..Margin[i], Finish(i, q)
       PROVE  IInv'
  <2>1. /\ UNCHANGED <<policy, allocation, book, lock, sent, foreign, pc>>
        /\ UNCHANGED <<intent, todo, row, freed>>
        /\ order[i] = "open" /\ order' = [order EXCEPT ![i] = "final"]
        /\ held' = [held EXCEPT ![SymbolOf[i]] = held[SymbolOf[i]] + q]
    BY <1>23 DEF Finish
  <2>2. q \in Nat
    OBVIOUS
  <2>3. TypeOK'
    BY <2>1, <2>2
  <2>4. Busy' /\ ReconcileLocked' /\ OrdersMarked' /\ OneIntentPerSymbol'
    BY <2>1
  <2>5. SentOnce'
    BY <2>1
  <2>7. FreedFlat'
    <3>1. \A w \in Worker : \A j \in freed[w] : SymbolOf[j] # SymbolOf[i]
      BY <2>1
    <3> QED
      BY <2>1, <3>1
  <2>6. ExposureReserved'
    <3>1. \A j \in Intent : order'[j] = "open" => state'[j] = "submitting"
      BY <2>1
    <3>2. ASSUME NEW x \in Symbol, held'[x] > Legacy[x]
          PROVE  \E j \in RetainedIn(x)' : order'[j] = "final"
      <4>1. CASE x = SymbolOf[i]
        BY <2>1, <4>1
      <4>2. CASE x # SymbolOf[i]
        <5>1. PICK j \in RetainedIn(x) : order[j] = "final"
          BY <2>1, <3>2, <4>2
        <5> QED
          BY <2>1, <5>1
      <4> QED
        BY <4>1, <4>2
    <3> QED
      BY <2>1, <3>1, <3>2
  <2> QED
    BY <2>3, <2>4, <2>5, <2>6, <2>7
<1>24. CASE Expire
  <2>1. UNCHANGED <<allocation, book, lock, exchange, worker>>
    BY <1>24 DEF Expire
  <2>2. policy' = [policy EXCEPT !.live = FALSE]
    BY <1>24 DEF Expire
  <2>3. policy' \in [revision : Nat, mode : {"reduced", "monitor_only"},
                    cap : Nat, live : BOOLEAN]
    BY <2>2
  <2> QED
    BY <2>1, <2>3
<1>26. CASE OtherOrder
  BY <1>26 DEF OtherOrder
<1>25. CASE UNCHANGED vars
  BY <1>25 DEF vars
<1> QED
  BY <1>1, <1>2, <1>3, <1>4, <1>5, <1>6, <1>7, <1>8, <1>9, <1>10, <1>11,
     <1>12, <1>13, <1>14, <1>15, <1>16, <1>17, <1>18, <1>19, <1>20, <1>21,
     <1>22, <1>23, <1>24, <1>25, <1>26
  DEF Next, Prepare, Submit

-----------------------------------------------------------------------------
\* Every variable keeps its type, whatever is activated, lost or restarted.
THEOREM TypeCorrect == Spec => []TypeOK
BY InitIInv, NextIInv, PTL DEF Spec, IInv

\* What is on the exchange is covered by a reservation and its claim row.
THEOREM ExposureCovered == Spec => []ExposureReserved
BY InitIInv, NextIInv, PTL DEF Spec, IInv

\* Concurrent reservations leave at most one unresolved intent in a symbol.
THEOREM OneIntent == Spec => []OneIntentPerSymbol
BY InitIInv, NextIInv, PTL DEF Spec, IInv

\* Retries, restarts and concurrent workers never post an intent twice.
THEOREM NoSecondPost == Spec => []PostedOnce
<1>1. IInv => PostedOnce
  BY DEF IInv, SentOnce, PostedOnce
<1> QED
  BY InitIInv, NextIInv, <1>1, PTL DEF Spec

-----------------------------------------------------------------------------
(* While the session that holds the lock lives, a post is made under the   *)
(* policy of its reservation.                                              *)

SessionsLast == ~LostConnection

\* Between the authorisation and the POST nobody can activate a policy.
SendLocked ==
  \A w \in Worker : pc[w] = "sending" =>
    /\ lock = w \/ LostConnection
    /\ lock = w => /\ revision[intent[w]] = policy.revision
                   /\ policy.mode = "reduced"

LEMMA NextSendLocked == IInv /\ SendLocked /\ [Next]_vars => SendLocked'
<1> SUFFICES ASSUME IInv, SendLocked, [Next]_vars PROVE SendLocked'
  OBVIOUS
<1> USE NamesAssumption
    DEF IInv, TypeOK, PC, Busy, SentOnce, OnItsWay, OrdersMarked,
        SendLocked, Goto, Unlock, Forget, rules, exchange, book, worker, pass
<1>1. ASSUME NEW w \in Worker, Resume(w) PROVE SendLocked'
  BY <1>1 DEF Resume
<1>2. ASSUME NEW w \in Worker, Reconcile(w) PROVE SendLocked'
  BY <1>2 DEF Reconcile
<1>3. ASSUME NEW w \in Worker, ReadFlat(w) PROVE SendLocked'
  BY <1>3 DEF ReadFlat, Release
<1>4. ASSUME NEW w \in Worker, KeepRow(w) PROVE SendLocked'
  BY <1>4 DEF KeepRow
<1>5. ASSUME NEW w \in Worker, EndReconcile(w) PROVE SendLocked'
  BY <1>5 DEF EndReconcile
<1>6. ASSUME NEW w \in Worker, ReadHoldings(w) PROVE SendLocked'
  BY <1>6 DEF ReadHoldings
<1>7. ASSUME NEW w \in Worker, ReadSlots(w) PROVE SendLocked'
  BY <1>7 DEF ReadSlots
<1>8. ASSUME NEW w \in Worker, Reserve(w) PROVE SendLocked'
  BY <1>8 DEF Reserve, Book
<1>9. ASSUME NEW w \in Worker, CheckFlat(w) PROVE SendLocked'
  BY <1>9 DEF CheckFlat
<1>10. ASSUME NEW w \in Worker, MarkSubmitting(w) PROVE SendLocked'
  BY <1>10 DEF MarkSubmitting, Marked
<1>11. ASSUME NEW w \in Worker, Authorize(w) PROVE SendLocked'
  BY <1>11 DEF Authorize, InForce
<1>12. ASSUME NEW w \in Worker, Send(w) PROVE SendLocked'
  BY <1>12 DEF Send
<1>13. ASSUME NEW w \in Worker, GiveUp(w) PROVE SendLocked'
  BY <1>13 DEF GiveUp
<1>14. ASSUME NEW w \in Worker, Crash(w) PROVE SendLocked'
  BY <1>14 DEF Crash
<1>15. ASSUME NEW w \in Worker, LoseSession(w) PROVE SendLocked'
  BY <1>15 DEF LoseSession
<1>16. ASSUME NEW w \in Worker, NEW i \in Intent, Begin(w, i)
       PROVE SendLocked'
  BY <1>16 DEF Begin
<1>17. ASSUME NEW w \in Worker, NEW i \in Intent, ReadOrder(w, i)
       PROVE SendLocked'
  BY <1>17 DEF ReadOrder
<1>18. ASSUME NEW c \in Candidate, Activate(c) PROVE SendLocked'
  BY <1>18 DEF Activate
<1>19. ASSUME NEW a \in Allocation, Allocate(a) PROVE SendLocked'
  BY <1>19 DEF Allocate
<1>20. ASSUME NEW x \in Symbol, Claim(x) PROVE SendLocked'
  BY <1>20 DEF Claim
<1>21. ASSUME NEW x \in Symbol, Unclaim(x) PROVE SendLocked'
  BY <1>21 DEF Unclaim
<1>22. ASSUME NEW x \in Symbol, Close(x) PROVE SendLocked'
  BY <1>22 DEF Close
<1>23. ASSUME NEW i \in Intent, NEW q \in 0..Margin[i], Finish(i, q)
       PROVE SendLocked'
  BY <1>23 DEF Finish
<1>24. CASE Expire
  BY <1>24 DEF Expire
<1>26. CASE OtherOrder
  BY <1>26 DEF OtherOrder
<1>25. CASE UNCHANGED vars
  BY <1>25 DEF vars
<1> QED
  BY <1>1, <1>2, <1>3, <1>4, <1>5, <1>6, <1>7, <1>8, <1>9, <1>10, <1>11,
     <1>12, <1>13, <1>14, <1>15, <1>16, <1>17, <1>18, <1>19, <1>20, <1>21,
     <1>22, <1>23, <1>24, <1>25, <1>26
  DEF Next, Prepare, Submit

LEMMA InitSendLocked == Init => SendLocked
BY DEF Init, SendLocked

\* Only Send posts an order, the one of its worker's intent.
LEMMA OnlySendPosts ==
  ASSUME IInv, [Next]_vars, NEW i \in Intent, sent'[i] > sent[i]
  PROVE  \E w \in Worker : Send(w) /\ intent[w] = i
<1> USE DEF IInv, TypeOK, exchange
<1>1. ASSUME NEW w \in Worker, Send(w), intent[w] # i PROVE FALSE
  BY <1>1 DEF Send
<1>2. CASE UNCHANGED sent
  BY <1>2
<1>3. ASSUME NEW w \in Worker, Prepare(w) PROVE UNCHANGED sent
  BY <1>3 DEF Prepare, Resume, Reconcile, ReadFlat, Release, KeepRow,
    EndReconcile, ReadHoldings, ReadSlots, Reserve, Book, Begin, ReadOrder
<1>4. ASSUME NEW w \in Worker,
             \/ CheckFlat(w) \/ MarkSubmitting(w) \/ Authorize(w)
             \/ GiveUp(w) \/ Crash(w) \/ LoseSession(w)
      PROVE  UNCHANGED sent
  BY <1>4 DEF CheckFlat, MarkSubmitting, Marked, Authorize, GiveUp, Crash,
    LoseSession
<1>5. ASSUME \/ \E c \in Candidate : Activate(c)
             \/ \E a \in Allocation : Allocate(a)
             \/ \E x \in Symbol : Claim(x) \/ Unclaim(x) \/ Close(x)
             \/ \E j \in Intent : \E q \in 0..Margin[j] : Finish(j, q)
             \/ Expire \/ OtherOrder \/ UNCHANGED vars
      PROVE  UNCHANGED sent
  BY <1>5 DEF Activate, Allocate, Claim, Unclaim, Close, Finish, Expire,
    OtherOrder, vars
<1> QED
  BY <1>1, <1>2, <1>3, <1>4, <1>5 DEF Next, Submit

\* The activation lock keeps every other revision out: a request sent while
\* its transaction is alive carries the policy in force, even if sessions may
\* be lost (one that goes on after its session died is what is excepted).
THEOREM PolicyWhileLocked ==
  Spec => [][\A w \in Worker : Send(w) /\ lock = w =>
               /\ revision[intent[w]] = policy.revision
               /\ policy.mode = "reduced"]_vars
<1>1. SendLocked => \A w \in Worker : Send(w) /\ lock = w =>
                      /\ revision[intent[w]] = policy.revision
                      /\ policy.mode = "reduced"
  BY DEF SendLocked, Send
<1> QED
  BY InitIInv, NextIInv, InitSendLocked, NextSendLocked, <1>1, PTL DEF Spec

\* If the session lives as long as the request, every order is posted under
\* the policy it was reserved under.
THEOREM PolicyAtPost ==
  ASSUME SessionsLast
  PROVE  Spec => PostedUnderItsPolicy
<1>1. IInv /\ SendLocked /\ [Next]_vars =>
        [\A i \in Intent : sent'[i] > sent[i] =>
           revision[i] = policy.revision /\ policy.mode = "reduced"]_vars
  <2> SUFFICES ASSUME IInv, SendLocked, [Next]_vars,
                      NEW i \in Intent, sent'[i] > sent[i]
               PROVE  revision[i] = policy.revision /\ policy.mode = "reduced"
    OBVIOUS
  <2>1. PICK w \in Worker : Send(w) /\ intent[w] = i
    BY OnlySendPosts
  <2> QED
    BY <2>1, SessionsLast DEF SessionsLast, SendLocked, Send
<1> QED
  BY InitIInv, NextIInv, InitSendLocked, NextSendLocked, <1>1, PTL
  DEF Spec, PostedUnderItsPolicy

-----------------------------------------------------------------------------
(* The slots.  The snapshot of a worker is older than its transaction; the *)
(* symbols that have got a position since are those of unresolved intents, *)
(* which the transaction counts under the lock.                            *)

FiniteSymbols == IsFiniteSet(Symbol)
LegacyFits == Cardinality({x \in Symbol : Legacy[x] > 0}) <= MaxSlots

Taken == {SymbolOf[i] : i \in Unreleased}
Fields == {"revision", "holdings", "allocation", "owned"}

SnapshotCovers ==
  \A w \in Worker :
       /\ w \in DOMAIN seen
       /\ DOMAIN seen[w] = Fields
       /\ seen[w].owned \subseteq Symbol
       /\ pc[w] = "reserve" => Owned \subseteq seen[w].owned \cup Taken

\* What each group of steps leaves alone.
LEMMA QuietSteps ==
  ASSUME [Next]_vars
  PROVE  \/ \E w \in Worker :
              Reserve(w) \/ EndReconcile(w) \/ MarkSubmitting(w) \/ Send(w)
         \/ \E i \in Intent : \E q \in 0..Margin[i] : Finish(i, q)
         \/ \E x \in Symbol : Close(x)
         \/ UNCHANGED <<state, order, held>>
<1> USE DEF rules, exchange, book, worker, pass
<1>1. ASSUME NEW w \in Worker, Prepare(w)
      PROVE  Reserve(w) \/ EndReconcile(w) \/ UNCHANGED <<state, order, held>>
  BY <1>1 DEF Prepare, Resume, Reconcile, KeepRow, ReadFlat, Release,
    ReadHoldings, ReadSlots, Begin, ReadOrder
<1>2. ASSUME NEW w \in Worker,
             CheckFlat(w) \/ Authorize(w) \/ GiveUp(w) \/ Crash(w)
             \/ LoseSession(w)
      PROVE  UNCHANGED <<state, order, held>>
  BY <1>2 DEF CheckFlat, Authorize, GiveUp, Crash, LoseSession
<1>3. ASSUME \/ \E c \in Candidate : Activate(c)
             \/ \E a \in Allocation : Allocate(a)
             \/ \E x \in Symbol : Claim(x) \/ Unclaim(x)
             \/ Expire \/ OtherOrder \/ UNCHANGED vars
      PROVE  UNCHANGED <<state, order, held>>
  BY <1>3 DEF Activate, Allocate, Claim, Unclaim, Expire,
    OtherOrder, vars
<1> HIDE DEF rules, exchange, book, worker, pass
<1> QED
  BY <1>1, <1>2, <1>3 DEF Next, Submit

\* A fill needs an unresolved intent, a release needs a flat symbol, and only
\* Reserve adds an unresolved intent.
LEMMA SlotSteps ==
  ASSUME IInv, [Next]_vars
  PROVE  /\ Owned' \subseteq Owned \cup Taken
         /\ \A x \in Taken : x \in Owned' => x \in Taken'
         /\ Unreleased' \subseteq Unreleased \/ \E w \in Worker : Reserve(w)
<1> DEFINE Goal == /\ Owned' \subseteq Owned \cup Taken
                   /\ \A x \in Taken : x \in Owned' => x \in Taken'
                   /\ \/ Unreleased' \subseteq Unreleased
                      \/ \E w \in Worker : Reserve(w)
<1> USE IntentAssumption, NamesAssumption
    DEF IInv, TypeOK, State, PC, Busy, Owned, Taken, Unreleased, Retained,
        Goto, Unlock, Forget, rules, exchange, book, worker, pass
<1>1. ASSUME NEW w \in Worker, Reserve(w) PROVE Goal
  <2>1. /\ UNCHANGED held
        /\ \A i \in Unreleased : i \in Unreleased'
    BY <1>1 DEF Reserve, Book
  <2> QED
    BY <1>1, <2>1
<1>2. ASSUME NEW w \in Worker, EndReconcile(w) PROVE Goal
  <2>1. /\ UNCHANGED held
        /\ \A i \in freed[w] : held[SymbolOf[i]] = 0
        /\ state' = [i \in Intent |-> IF i \in freed[w] THEN "released"
                                      ELSE state[i]]
    BY <1>2 DEF EndReconcile, FreedFlat
  <2> QED
    BY <2>1
<1>3. ASSUME NEW w \in Worker, MarkSubmitting(w) PROVE Goal
  BY <1>3 DEF MarkSubmitting, Marked
<1>4. ASSUME NEW i \in Intent, NEW q \in 0..Margin[i], Finish(i, q) PROVE Goal
  <2>1. /\ UNCHANGED state
        /\ i \in Unreleased
        /\ held' = [held EXCEPT ![SymbolOf[i]] = held[SymbolOf[i]] + q]
    BY <1>4 DEF Finish, ExposureReserved
  <2>2. \A x \in Symbol : held'[x] > 0 => held[x] > 0 \/ x = SymbolOf[i]
    BY <2>1
  <2> QED
    BY <2>1, <2>2
<1>5. ASSUME NEW x \in Symbol, Close(x) PROVE Goal
  BY <1>5 DEF Close
<1>6. CASE UNCHANGED <<state, held>>
  BY <1>6
<1>7. ASSUME NEW w \in Worker, Send(w) PROVE UNCHANGED <<state, held>>
  BY <1>7 DEF Send
<1> QED
  BY <1>1, <1>2, <1>3, <1>4, <1>5, <1>6, <1>7, QuietSteps

\* What a worker has seen of the positions stays complete but for the symbols
\* of unresolved intents.
LEMMA NextSnapshot == IInv /\ SnapshotCovers /\ [Next]_vars => SnapshotCovers'
<1> DEFINE Keeps(v) ==
             /\ v \in DOMAIN seen'
             /\ DOMAIN seen'[v] = Fields
             /\ seen'[v].owned \subseteq Symbol
             /\ pc'[v] = "reserve" =>
                  Owned' \subseteq seen'[v].owned \cup Taken'
<1> SUFFICES ASSUME IInv, SnapshotCovers, [Next]_vars, NEW v \in Worker
             PROVE  Keeps(v)
  BY DEF SnapshotCovers
<1>1. /\ Owned' \subseteq Owned \cup Taken
      /\ \A x \in Taken : x \in Owned' => x \in Taken'
  BY SlotSteps
<1> USE DEF IInv, TypeOK, Goto, Forget, rules, exchange, book, worker, pass
<1>2. CASE UNCHANGED seen /\ (pc'[v] = "reserve" => pc[v] = "reserve")
  BY <1>1, <1>2 DEF SnapshotCovers
<1>3. ASSUME NEW w \in Worker, ReadSlots(w)
      PROVE  Keeps(v)
  <2>1. /\ seen' = [seen EXCEPT ![w].allocation = allocation,
                                ![w].owned = Owned]
        /\ pc' = [pc EXCEPT ![w] = "reserve"]
        /\ UNCHANGED <<held, state>>
    BY <1>3 DEF ReadSlots
  <2>2. Owned' = Owned /\ Owned \subseteq Symbol
    BY <2>1 DEF Owned
  <2>3. CASE v = w
    <3>1. /\ w \in DOMAIN seen'
          /\ seen'[w] = [[seen[w] EXCEPT !.allocation = allocation]
                           EXCEPT !.owned = Owned]
      BY <2>1 DEF SnapshotCovers
    <3>2. DOMAIN seen'[w] = Fields /\ seen'[w].owned = Owned
      BY <3>1 DEF SnapshotCovers, Fields
    <3> QED
      BY <2>2, <2>3, <3>1, <3>2
  <2>4. CASE v # w
    <3>1. v \in DOMAIN seen' /\ seen'[v] = seen[v] /\ pc'[v] = pc[v]
      BY <2>1, <2>4 DEF SnapshotCovers
    <3> QED
      BY <1>1, <3>1 DEF SnapshotCovers
  <2> QED
    BY <2>3, <2>4
<1>4. ASSUME NEW w \in Worker,
             (\E i \in Intent : Begin(w, i)) \/ ReadHoldings(w)
      PROVE  Keeps(v)
  <2>1. /\ \/ seen' = [seen EXCEPT ![w].revision = policy.revision]
           \/ seen' = [seen EXCEPT ![w].holdings = Holdings]
        /\ pc'[w] # "reserve" /\ (v # w => pc'[v] = pc[v])
    BY <1>4 DEF Begin, ReadHoldings
  <2>2. /\ v \in DOMAIN seen'
        /\ DOMAIN seen'[v] = DOMAIN seen[v]
        /\ seen'[v].owned = seen[v].owned
    BY <2>1 DEF SnapshotCovers, Fields
  <2> QED
    BY <1>1, <2>1, <2>2 DEF SnapshotCovers
<1>5. ASSUME NEW w \in Worker, Forget(w), pc'[w] # "reserve",
             v # w => pc'[v] = pc[v]
      PROVE  Keeps(v)
  <2>1. /\ v \in DOMAIN seen'
        /\ seen'[v] = IF v = w THEN NothingSeen ELSE seen[v]
    BY <1>5 DEF SnapshotCovers
  <2>2. DOMAIN NothingSeen = Fields /\ NothingSeen.owned = {}
    BY DEF NothingSeen, Fields
  <2> QED
    BY <1>1, <1>5, <2>1, <2>2 DEF SnapshotCovers
<1>6. \/ \E w \in Worker : ReadSlots(w)
      \/ \E w \in Worker : \E i \in Intent : Begin(w, i)
      \/ \E w \in Worker : ReadHoldings(w)
      \/ \E w \in Worker : Forget(w) /\ pc'[w] # "reserve"
                           /\ (v # w => pc'[v] = pc[v])
      \/ UNCHANGED seen /\ (pc'[v] = "reserve" => pc[v] = "reserve")
  <2>1. ASSUME NEW w \in Worker, Reserve(w) \/ Send(w) \/ GiveUp(w) \/ Crash(w)
        PROVE  /\ Forget(w) /\ pc'[w] # "reserve"
               /\ v # w => pc'[v] = pc[v]
    BY <2>1 DEF Reserve, Book, Send, GiveUp, Crash
  <2>2. ASSUME NEW w \in Worker,
               \/ Resume(w) \/ Reconcile(w) \/ ReadFlat(w) \/ KeepRow(w)
               \/ EndReconcile(w) \/ CheckFlat(w) \/ MarkSubmitting(w)
               \/ Authorize(w) \/ LoseSession(w)
               \/ \E i \in Intent : ReadOrder(w, i)
        PROVE  UNCHANGED seen /\ (pc'[v] = "reserve" => pc[v] = "reserve")
    BY <2>2 DEF Resume, Reconcile, ReadFlat, Release, KeepRow, EndReconcile,
      CheckFlat, MarkSubmitting, Marked, Authorize, LoseSession, ReadOrder
  <2>3. ASSUME \/ \E c \in Candidate : Activate(c)
               \/ \E a \in Allocation : Allocate(a)
               \/ \E x \in Symbol : Claim(x) \/ Unclaim(x) \/ Close(x)
               \/ \E i \in Intent : \E q \in 0..Margin[i] : Finish(i, q)
               \/ Expire \/ OtherOrder \/ UNCHANGED vars
        PROVE  UNCHANGED seen /\ (pc'[v] = "reserve" => pc[v] = "reserve")
    BY <2>3 DEF Activate, Allocate, Claim, Unclaim, Close, Finish, Expire,
    OtherOrder, vars
  <2> QED
    BY <2>1, <2>2, <2>3 DEF Next, Prepare, Submit
<1> QED
  BY <1>2, <1>3, <1>4, <1>5, <1>6

\* Slots are never oversubscribed, however many workers reserve at once and
\* whatever fills between a snapshot and the reservation.
THEOREM SlotsKept ==
  ASSUME FiniteSymbols, LegacyFits
  PROVE  Spec => []SlotsHold
<1>1. Init => SnapshotCovers /\ SlotsHold
  <2> SUFFICES ASSUME Init PROVE SnapshotCovers /\ SlotsHold
    OBVIOUS
  <2>1. SnapshotCovers
    BY DEF Init, SnapshotCovers, NothingSeen, Fields
  <2>2. Unreleased = {} /\ Owned = {x \in Symbol : Legacy[x] > 0}
    BY DEF Init, Unreleased, Retained, Owned
  <2>3. Owned \cup {SymbolOf[i] : i \in Unreleased} = Owned
    BY <2>2
  <2> QED
    BY <2>1, <2>2, <2>3, LegacyFits DEF SlotsHold, LegacyFits
<1>2. IInv /\ SnapshotCovers /\ SlotsHold /\ [Next]_vars => SlotsHold'
  <2> SUFFICES ASSUME IInv, SnapshotCovers, SlotsHold, [Next]_vars
               PROVE  SlotsHold'
    OBVIOUS
  <2> DEFINE New == Owned' \cup Taken'
  <2>1. /\ Owned' \subseteq Owned \cup Taken
        /\ Unreleased' \subseteq Unreleased \/ \E w \in Worker : Reserve(w)
    BY SlotSteps
  <2>2. /\ Owned \cup Taken \subseteq Symbol
        /\ \A w \in Worker : seen[w].owned \cup Taken \subseteq Symbol
    BY IntentAssumption DEF Owned, Taken, Unreleased, SnapshotCovers
  <2>3. CASE Unreleased' \subseteq Unreleased
    <3>1. New \subseteq Owned \cup Taken
      BY <2>1, <2>3 DEF Taken
    <3>2. IsFiniteSet(Owned \cup Taken)
      BY <2>2, FS_Subset DEF FiniteSymbols
    <3>3. /\ Cardinality(New) <= Cardinality(Owned \cup Taken)
          /\ Cardinality(New) \in Nat
      BY <3>1, <3>2, FS_Subset, FS_CardinalityType
    <3>4. Cardinality(Owned \cup Taken) \in Nat
      BY <3>2, FS_CardinalityType
    <3> QED
      BY <3>3, <3>4, PolicyAssumption DEF SlotsHold, Taken
  <2>4. ASSUME NEW w \in Worker, Reserve(w) PROVE SlotsHold'
    <3> DEFINE i == intent[w]
               Seen == seen[w].owned \cup
                         {SymbolOf[j] : j \in Unreleased \cup {i}}
    <3>1. /\ Cardinality(Seen) <= MaxSlots
          /\ i \in Intent
          /\ UNCHANGED held
          /\ state' = [state EXCEPT ![i] = "reserved"]
          /\ pc[w] = "reserve"
      BY <2>4 DEF Reserve, SlotsFree, Book, exchange, IInv, Busy
    <3>2. Owned' = Owned /\ Unreleased' \subseteq Unreleased \cup {i}
      BY <3>1 DEF Owned, Unreleased, Retained, IInv, TypeOK
    <3>3. New \subseteq Seen
      BY <3>1, <3>2 DEF SnapshotCovers, Taken
    <3>4. Seen \subseteq Symbol
      BY <2>2, <3>1, IntentAssumption DEF Taken, Unreleased
    <3>5. IsFiniteSet(Seen)
      BY <3>4, FS_Subset DEF FiniteSymbols
    <3>6. /\ Cardinality(New) <= Cardinality(Seen)
          /\ Cardinality(New) \in Nat
          /\ Cardinality(Seen) \in Nat
      BY <3>3, <3>5, FS_Subset, FS_CardinalityType
    <3> QED
      BY <3>1, <3>6, PolicyAssumption DEF SlotsHold, Taken
  <2> QED
    BY <2>1, <2>3, <2>4
<1> QED
  BY InitIInv, NextIInv, NextSnapshot, <1>1, <1>2, PTL DEF Spec

-----------------------------------------------------------------------------
(* Sums over finite sets.  The sum of the library chooses the order of its *)
(* summands; a least counterexample among the subsets shows that the order *)
(* does not matter.                                                        *)

Sum(f, S) == MapThenSumSet(LAMBDA x : f[x], S)
Pick(S) == CHOOSE x \in S : TRUE

\* A nonempty set of subsets of a finite set has a least member.
LEMMA LeastSubset ==
  ASSUME NEW S, IsFiniteSet(S), NEW Bad \in SUBSET SUBSET S, Bad # {}
  PROVE  \E U \in Bad : \A V \in Bad : V \subseteq U => V = U
<1> DEFINE R == StrictSubsetOrdering(S)
<1>1. IsWellFoundedOn(R, SUBSET S)
  BY FS_StrictSubsetOrderingWellFounded, FS_FiniteSubsetsOfFinite
<1>2. \A V, U \in SUBSET S : V \subseteq U /\ V # U => <<V, U>> \in R
  BY DEF StrictSubsetOrdering
<1> HIDE DEF R
<1>3. PICK U \in Bad : \A V \in Bad : ~ (<<V, U>> \in R)
  BY <1>1, WFMin
<1> QED BY <1>2, <1>3

\* What is chosen is a member.
LEMMA PickIn == \A S : S # {} => Pick(S) \in S
BY DEF Pick

\* Induction over the natural numbers, for a set.
LEMMA NatInductive ==
  ASSUME NEW T \in SUBSET Nat, 0 \in T, \A n \in T : n + 1 \in T
  PROVE  T = Nat
<1> DEFINE R == OpToRel(<, Nat)
           M == Nat \ T
<1>1. IsWellFoundedOn(R, Nat)
  BY NatLessThanWellFounded
<1>2. \A x, y \in Nat : x < y => <<x, y>> \in R
  BY DEF OpToRel
<1> HIDE DEF R
<1>3. SUFFICES ASSUME M # {} PROVE FALSE
  OBVIOUS
<1>4. M \subseteq Nat
  OBVIOUS
<1> HIDE DEF M
<1>5. PICK m \in M : \A y \in M : ~ (<<y, m>> \in R)
  BY <1>1, <1>3, <1>4, WFMin
<1> USE DEF M
<1>6. m \in Nat /\ m # 0 /\ m - 1 \in Nat /\ m - 1 < m
  OBVIOUS
<1>7. m - 1 \in T
  BY <1>2, <1>5, <1>6
<1> QED BY <1>6, <1>7

\* The recursion of MapThenSumSet has a solution on a finite set.
LEMMA SumRecursion ==
  ASSUME NEW f, NEW S, IsFiniteSet(S)
  PROVE  \E g : /\ g[{}] = 0
                /\ \A s \in SUBSET S :
                     s # {} => g[s] = f[Pick(s)] + g[s \ {Pick(s)}]
                /\ Sum(f, S) = g[S]
<1> DEFINE Upto(n) == {s \in SUBSET S : Cardinality(s) <= n}
           Solved(n) == \E g : g = [s \in Upto(n) |->
             IF s = {} THEN 0 ELSE f[Pick(s)] + g[s \ {Pick(s)}]]
           T == {n \in Nat : Solved(n)}
<1>1. \A s \in SUBSET S :
        /\ IsFiniteSet(s) /\ Cardinality(s) \in Nat
        /\ Cardinality(s) <= Cardinality(S)
        /\ Cardinality(s) = 0 <=> s = {}
        /\ s # {} => /\ s \ {Pick(s)} \in SUBSET S
                     /\ Cardinality(s \ {Pick(s)}) = Cardinality(s) - 1
  <2> TAKE s \in SUBSET S
  <2>1. IsFiniteSet(s) /\ Cardinality(s) <= Cardinality(S)
    BY FS_Subset
  <2>2. Cardinality(s) \in Nat /\ (Cardinality(s) = 0 <=> s = {})
    BY <2>1, FS_CardinalityType, FS_EmptySet
  <2>3. s # {} => Cardinality(s \ {Pick(s)}) = Cardinality(s) - 1
    BY <2>1, FS_RemoveElement, PickIn
  <2> QED BY <2>1, <2>2, <2>3
<1>2. Solved(0)
  <2> DEFINE g == [s \in Upto(0) |-> 0]
  <2>1. ASSUME NEW s \in Upto(0) PROVE s = {}
    <3>1. s \in SUBSET S /\ Cardinality(s) <= 0
      OBVIOUS
    <3>2. Cardinality(s) \in Nat /\ (Cardinality(s) = 0 <=> s = {})
      BY <1>1, <3>1
    <3> QED BY <3>1, <3>2
  <2>2. g = [s \in Upto(0) |->
               IF s = {} THEN 0 ELSE f[Pick(s)] + g[s \ {Pick(s)}]]
    BY <2>1
  <2> QED BY <2>2
<1>3. ASSUME NEW n \in Nat, Solved(n) PROVE Solved(n + 1)
  <2>1. PICK g : g = [s \in Upto(n) |->
                   IF s = {} THEN 0 ELSE f[Pick(s)] + g[s \ {Pick(s)}]]
    BY <1>3
  <2> DEFINE h == [s \in Upto(n + 1) |->
                     IF s = {} THEN 0 ELSE f[Pick(s)] + g[s \ {Pick(s)}]]
  <2>2. ASSUME NEW s \in Upto(n) PROVE s \in Upto(n + 1) /\ h[s] = g[s]
    <3>1. s \in SUBSET S /\ Cardinality(s) <= n
      OBVIOUS
    <3>2. Cardinality(s) <= n + 1
      <4>1. Cardinality(s) \in Nat
        BY <1>1, <3>1
      <4> HIDE DEF Upto, Solved
      <4> QED BY <3>1, <4>1
    <3>3. s \in Upto(n + 1)
      BY <3>1, <3>2
    <3> HIDE DEF Upto
    <3> QED BY <2>1, <3>3
  <2>3. ASSUME NEW s \in Upto(n + 1), s # {}
        PROVE  s \ {Pick(s)} \in Upto(n)
    <3>1. s \in SUBSET S /\ Cardinality(s) <= n + 1
      OBVIOUS
    <3>2. /\ s \ {Pick(s)} \in SUBSET S
          /\ Cardinality(s \ {Pick(s)}) = Cardinality(s) - 1
          /\ Cardinality(s) \in Nat
      BY <1>1, <2>3, <3>1
    <3>3. Cardinality(s \ {Pick(s)}) <= n
      BY <3>1, <3>2
    <3> QED BY <3>2, <3>3
  <2> HIDE DEF Upto
  <2>4. \A s \in Upto(n + 1) :
          h[s] = IF s = {} THEN 0 ELSE f[Pick(s)] + h[s \ {Pick(s)}]
    BY <2>2, <2>3
  <2>5. h = [s \in Upto(n + 1) |->
               IF s = {} THEN 0 ELSE f[Pick(s)] + h[s \ {Pick(s)}]]
    BY <2>4
  <2> QED BY <2>5
<1> HIDE DEF Solved
<1>4. 0 \in T /\ T \in SUBSET Nat /\ \A n \in T : n + 1 \in T
  BY <1>2, <1>3
<1>5. \A n \in Nat : n \in T => Solved(n)
  OBVIOUS
<1> HIDE DEF T
<1>6. Solved(Cardinality(S))
  <2>1. T = Nat
    BY <1>4, NatInductive
  <2>2. Cardinality(S) \in Nat
    BY FS_CardinalityType
  <2> QED BY <1>5, <2>1, <2>2
<1>7. Upto(Cardinality(S)) = SUBSET S
  BY <1>1
<1> HIDE DEF Upto
<1> DEFINE iter == CHOOSE iter : iter = [s \in SUBSET S |->
             IF s = {} THEN 0
             ELSE f[CHOOSE x \in s : TRUE]
                    + iter[s \ {CHOOSE x \in s : TRUE}]]
<1>8. iter = [s \in SUBSET S |->
             IF s = {} THEN 0
             ELSE f[CHOOSE x \in s : TRUE]
                    + iter[s \ {CHOOSE x \in s : TRUE}]]
  <2>1. PICK g : g = [s \in SUBSET S |->
             IF s = {} THEN 0 ELSE f[Pick(s)] + g[s \ {Pick(s)}]]
    BY <1>6, <1>7 DEF Solved
  <2>2. g = [s \in SUBSET S |->
             IF s = {} THEN 0
             ELSE f[CHOOSE x \in s : TRUE]
                    + g[s \ {CHOOSE x \in s : TRUE}]]
    BY <2>1 DEF Pick
  <2> QED BY <2>2
<1>9. Sum(f, S) = iter[S]
  BY DEF Sum, MapThenSumSet, MapThenFoldSet
<1> HIDE DEF iter
<1>10. /\ iter[{}] = 0
       /\ \A s \in SUBSET S :
            s # {} => iter[s] = f[Pick(s)] + iter[s \ {Pick(s)}]
  BY <1>8 DEF Pick
<1> QED BY <1>9, <1>10

\* Nothing sums to 0.
LEMMA SumEmpty == ASSUME NEW f PROVE Sum(f, {}) = 0
<1>1. IsFiniteSet({})
  BY FS_EmptySet
<1> QED BY <1>1, SumRecursion

\* The sum is that of the recursion.
LEMMA SumPick ==
  ASSUME NEW f, NEW S, IsFiniteSet(S), S # {}
  PROVE  Sum(f, S) = f[Pick(S)] + Sum(f, S \ {Pick(S)})
<1> DEFINE R == S \ {Pick(S)}
<1>1. IsFiniteSet(R) /\ R \in SUBSET S
  BY FS_Subset
<1>2. PICK g : /\ g[{}] = 0
               /\ \A s \in SUBSET S :
                    s # {} => g[s] = f[Pick(s)] + g[s \ {Pick(s)}]
               /\ Sum(f, S) = g[S]
  BY SumRecursion
<1>3. PICK h : /\ h[{}] = 0
               /\ \A s \in SUBSET R :
                    s # {} => h[s] = f[Pick(s)] + h[s \ {Pick(s)}]
               /\ Sum(f, R) = h[R]
  BY <1>1, SumRecursion
<1> DEFINE Bad == {s \in SUBSET R : g[s] # h[s]}
<1>4. ASSUME Bad # {} PROVE FALSE
  <2>1. Bad \in SUBSET SUBSET R
    OBVIOUS
  <2> HIDE DEF Bad
  <2>2. PICK U \in Bad : \A V \in Bad : V \subseteq U => V = U
    BY <1>1, <1>4, <2>1, LeastSubset
  <2> USE DEF Bad
  <2>3. U \in SUBSET R /\ U \in SUBSET S /\ g[U] # h[U]
    BY <1>1
  <2>4. U # {} /\ Pick(U) \in U
    BY <1>2, <1>3, <2>3, PickIn
  <2>5. g[U \ {Pick(U)}] = h[U \ {Pick(U)}]
    BY <2>2, <2>3, <2>4
  <2> QED BY <1>2, <1>3, <2>3, <2>4, <2>5
<1>5. g[R] = h[R]
  BY <1>4
<1> QED BY <1>2, <1>3, <1>5

\* Natural numbers sum to one.
LEMMA SumNat ==
  ASSUME NEW f, NEW S, IsFiniteSet(S), \A x \in S : f[x] \in Nat
  PROVE  Sum(f, S) \in Nat
<1>1. PICK g : /\ g[{}] = 0
               /\ \A s \in SUBSET S :
                    s # {} => g[s] = f[Pick(s)] + g[s \ {Pick(s)}]
               /\ Sum(f, S) = g[S]
  BY SumRecursion
<1> DEFINE Bad == {s \in SUBSET S : g[s] \notin Nat}
<1>2. ASSUME Bad # {} PROVE FALSE
  <2>1. Bad \in SUBSET SUBSET S
    OBVIOUS
  <2> HIDE DEF Bad
  <2>2. PICK U \in Bad : \A V \in Bad : V \subseteq U => V = U
    BY <1>2, <2>1, LeastSubset
  <2> USE DEF Bad
  <2>3. U \in SUBSET S /\ U # {} /\ Pick(U) \in U /\ f[Pick(U)] \in Nat
    <3>1. U \in SUBSET S /\ g[U] \notin Nat
      OBVIOUS
    <3>2. U # {}
      BY <1>1, <3>1
    <3>3. Pick(U) \in U
      BY <3>2, PickIn
    <3> QED BY <3>1, <3>2, <3>3
  <2>4. g[U \ {Pick(U)}] \in Nat
    BY <2>2, <2>3
  <2>5. g[U] = f[Pick(U)] + g[U \ {Pick(U)}]
    BY <1>1, <2>3
  <2>6. g[U] \in Nat
    BY <2>3, <2>4, <2>5
  <2> QED BY <2>6
<1> QED BY <1>1, <1>2

\* The order in which a sum is taken does not matter.
LEMMA SumRemove ==
  ASSUME NEW f, NEW S, IsFiniteSet(S), \A x \in S : f[x] \in Nat,
         NEW x \in S
  PROVE  Sum(f, S) = f[x] + Sum(f, S \ {x})
<1> DEFINE Bad == {s \in SUBSET S :
                     \E y \in s : Sum(f, s) # f[y] + Sum(f, s \ {y})}
<1>1. \A s \in SUBSET S : IsFiniteSet(s) /\ Sum(f, s) \in Nat
  <2> TAKE s \in SUBSET S
  <2>1. IsFiniteSet(s) /\ \A y \in s : f[y] \in Nat
    BY FS_Subset
  <2> QED BY <2>1, SumNat
<1>2. ASSUME Bad # {} PROVE FALSE
  <2>1. Bad \in SUBSET SUBSET S
    OBVIOUS
  <2> HIDE DEF Bad
  <2>2. PICK U \in Bad : \A V \in Bad : V \subseteq U => V = U
    BY <1>2, <2>1, LeastSubset
  <2> USE DEF Bad
  <2>3. PICK y \in U : Sum(f, U) # f[y] + Sum(f, U \ {y})
    OBVIOUS
  <2> DEFINE p == Pick(U)
             A == U \ {p}
             B == U \ {y}
             C == (U \ {p}) \ {y}
  <2>4. /\ U \in SUBSET S /\ A \in SUBSET S /\ B \in SUBSET S
        /\ C \in SUBSET S
        /\ p \in U /\ U # {}
    BY PickIn
  <2>5. Sum(f, U) = f[p] + Sum(f, A)
    BY <1>1, <2>4, SumPick
  <2>6. p # y
    BY <2>3, <2>5
  <2>7. A \notin Bad /\ B \notin Bad
    BY <2>2, <2>4
  <2>8. Sum(f, A) = f[y] + Sum(f, C)
    BY <2>4, <2>6, <2>7
  <2>9. B \ {p} = C /\ p \in B
    BY <2>4, <2>6
  <2>10. Sum(f, B) = f[p] + Sum(f, C)
    BY <2>4, <2>7, <2>9
  <2>11. /\ f[p] \in Nat /\ f[y] \in Nat
         /\ Sum(f, C) \in Nat
    BY <1>1, <2>4
  <2> HIDE DEF p, A, B, C, Bad
  <2>12. Sum(f, U) = f[y] + Sum(f, B)
    BY <2>5, <2>8, <2>10, <2>11
  <2> QED BY <2>3, <2>12 DEF B
<1>3. S \notin Bad
  BY <1>2
<1> QED BY <1>3

\* The sums of disjoint sets add up.
LEMMA SumUnion ==
  ASSUME NEW f, NEW A, NEW B, IsFiniteSet(A), IsFiniteSet(B),
         \A x \in A \cup B : f[x] \in Nat, A \cap B = {}
  PROVE  Sum(f, A \cup B) = Sum(f, A) + Sum(f, B)
<1> DEFINE Bad == {s \in SUBSET B :
                     Sum(f, A \cup s) # Sum(f, A) + Sum(f, s)}
<1>1. ASSUME NEW s \in SUBSET B
      PROVE  /\ IsFiniteSet(s) /\ Sum(f, s) \in Nat
             /\ IsFiniteSet(A \cup s) /\ Sum(f, A \cup s) \in Nat
  <2>1. IsFiniteSet(s)
    BY FS_Subset
  <2>2. IsFiniteSet(A \cup s)
    BY <2>1, FS_Union
  <2>3. \A x \in s : f[x] \in Nat
    OBVIOUS
  <2>4. \A x \in A \cup s : f[x] \in Nat
    OBVIOUS
  <2>5. Sum(f, s) \in Nat
    BY <2>1, <2>3, SumNat
  <2>6. Sum(f, A \cup s) \in Nat
    BY <2>2, <2>4, SumNat
  <2> QED BY <2>1, <2>2, <2>5, <2>6
<1>2. Sum(f, A) \in Nat
  BY SumNat
<1>3. ASSUME Bad # {} PROVE FALSE
  <2>1. Bad \in SUBSET SUBSET B
    OBVIOUS
  <2> HIDE DEF Bad
  <2>2. PICK U \in Bad : \A V \in Bad : V \subseteq U => V = U
    BY <1>3, <2>1, LeastSubset
  <2> USE DEF Bad
  <2>3. U \in SUBSET B /\ Sum(f, A \cup U) # Sum(f, A) + Sum(f, U)
    OBVIOUS
  <2>4. U # {}
    <3>1. SUFFICES ASSUME U = {} PROVE FALSE
      OBVIOUS
    <3>2. A \cup U = A /\ Sum(f, U) = 0
      BY <3>1, SumEmpty
    <3> QED BY <1>2, <2>3, <3>2
  <2> DEFINE p == Pick(U)
             W == U \ {p}
  <2>5. p \in U /\ p \notin A /\ W \in SUBSET B /\ f[p] \in Nat
    BY <2>3, <2>4, PickIn
  <2>6. Sum(f, A \cup W) = Sum(f, A) + Sum(f, W)
    BY <2>2, <2>5
  <2>7. Sum(f, U) = f[p] + Sum(f, W)
    BY <1>1, <2>3, <2>4, SumPick
  <2>8. Sum(f, A \cup U) = f[p] + Sum(f, A \cup W)
    <3>1. (A \cup U) \ {p} = A \cup W
      BY <2>5
    <3>2. IsFiniteSet(A \cup U) /\ \A x \in A \cup U : f[x] \in Nat
      BY <1>1, <2>3
    <3>3. p \in A \cup U
      BY <2>5
    <3> HIDE DEF p, W, Bad
    <3>4. Sum(f, A \cup U) = f[p] + Sum(f, (A \cup U) \ {p})
      BY <3>2, <3>3, SumRemove
    <3> QED BY <3>1, <3>4
  <2>9. Sum(f, W) \in Nat
    BY <1>1, <2>5
  <2> HIDE DEF p, W, Bad
  <2> QED BY <1>2, <2>3, <2>5, <2>6, <2>7, <2>8, <2>9
<1>4. B \notin Bad
  BY <1>3
<1> QED BY <1>4

\* When every x exceeds what was counted by at most the m of one j of its
\* own, the total exceeds what was counted by at most the m of all j.
LEMMA SumCharged ==
  ASSUME NEW X, NEW J, NEW k, NEW h, NEW m, NEW g,
         IsFiniteSet(X), IsFiniteSet(J),
         \A x \in X : k[x] \in Nat /\ h[x] \in Nat,
         \A j \in J : m[j] \in Nat /\ g[j] \in X,
         \A i, j \in J : g[i] = g[j] => i = j,
         \A x \in X : \/ k[x] <= h[x]
                     \/ \E j \in J : g[j] = x /\ k[x] <= h[x] + m[j]
  PROVE  Sum(k, X) <= Sum(h, X) + Sum(m, J)
<1> DEFINE In(s) == {j \in J : g[j] \in s}
           Bad == {s \in SUBSET X :
                     ~ (Sum(k, s) <= Sum(h, s) + Sum(m, In(s)))}
<1>1. ASSUME NEW s \in SUBSET X
      PROVE  /\ IsFiniteSet(s) /\ Sum(k, s) \in Nat /\ Sum(h, s) \in Nat
             /\ IsFiniteSet(In(s)) /\ Sum(m, In(s)) \in Nat
  <2>1. IsFiniteSet(s)
    BY FS_Subset
  <2>2. In(s) \subseteq J /\ \A j \in In(s) : m[j] \in Nat
    OBVIOUS
  <2> HIDE DEF In, Bad
  <2>3. IsFiniteSet(In(s))
    BY <2>2, FS_Subset
  <2>4. Sum(m, In(s)) \in Nat
    BY <2>2, <2>3, SumNat
  <2>5. \A x \in s : k[x] \in Nat
    OBVIOUS
  <2>6. \A x \in s : h[x] \in Nat
    OBVIOUS
  <2>7. Sum(k, s) \in Nat
    BY <2>1, <2>5, SumNat
  <2>8. Sum(h, s) \in Nat
    BY <2>1, <2>6, SumNat
  <2> QED BY <2>1, <2>3, <2>4, <2>7, <2>8
<1>2. ASSUME Bad # {} PROVE FALSE
  <2>1. Bad \in SUBSET SUBSET X
    OBVIOUS
  <2> HIDE DEF Bad
  <2>2. PICK U \in Bad : \A V \in Bad : V \subseteq U => V = U
    BY <1>2, <2>1, LeastSubset
  <2> USE DEF Bad
  <2> HIDE DEF In
  <2>3. U \in SUBSET X /\ ~ (Sum(k, U) <= Sum(h, U) + Sum(m, In(U)))
    OBVIOUS
  <2>4. U # {}
    <3>1. SUFFICES ASSUME U = {} PROVE FALSE
      OBVIOUS
    <3>2. Sum(k, U) = 0 /\ Sum(h, U) = 0
      BY <3>1, SumEmpty
    <3> QED BY <1>1, <2>3, <3>2
  <2> DEFINE p == Pick(U)
             V == U \ {p}
  <2>5. p \in U /\ p \in X /\ V \in SUBSET X /\ V # U /\ V \subseteq U
    BY <2>3, <2>4, PickIn
  <2>6. Sum(k, V) <= Sum(h, V) + Sum(m, In(V))
    BY <2>2, <2>5
  <2>7. Sum(k, U) = k[p] + Sum(k, V) /\ Sum(h, U) = h[p] + Sum(h, V)
    BY <1>1, <2>3, <2>4, SumPick
  <2>8. /\ Sum(k, V) \in Nat /\ Sum(h, V) \in Nat /\ Sum(m, In(V)) \in Nat
        /\ Sum(m, In(U)) \in Nat /\ IsFiniteSet(In(U))
        /\ k[p] \in Nat /\ h[p] \in Nat
    BY <1>1, <2>3, <2>5
  <2>9. CASE \A j \in J : g[j] # p
    <3>1. In(U) = In(V)
      BY <2>9 DEF In
    <3>2. k[p] <= h[p]
      BY <2>5, <2>9
    <3> HIDE DEF p, V, Bad
    <3> QED BY <2>3, <2>6, <2>7, <2>8, <3>1, <3>2
  <2>10. ASSUME NEW j \in J, g[j] = p PROVE FALSE
    <3>1. j \in In(U) /\ In(U) \ {j} = In(V)
      BY <2>5, <2>10 DEF In
    <3>2. m[j] \in Nat /\ k[p] <= h[p] + m[j]
      BY <2>5, <2>8, <2>10
    <3>3. \A i \in In(U) : m[i] \in Nat
      BY DEF In
    <3> HIDE DEF p, V, Bad
    <3>4. Sum(m, In(U)) = m[j] + Sum(m, In(U) \ {j})
      BY <2>8, <3>1, <3>3, SumRemove
    <3> QED BY <2>3, <2>6, <2>7, <2>8, <3>1, <3>2, <3>4
  <2> QED BY <2>9, <2>10
<1>3. X \notin Bad
  BY <1>2
<1>4. In(X) = J
  OBVIOUS
<1> QED BY <1>3, <1>4

-----------------------------------------------------------------------------
(* The ceiling.  The snapshot of a worker counts the margin of the         *)
(* positions; what a position has got since is the fill of an unresolved   *)
(* intent, whose margin the transaction counts under the lock.             *)

\* A position exceeds what h counted only by the fill of an unresolved intent.
Charged(h) ==
  \A x \in Symbol :
    \/ held[x] <= h[x]
    \/ \E i \in Unreleased : /\ SymbolOf[i] = x /\ order[i] = "final"
                             /\ held[x] <= h[x] + Margin[i]

\* What a worker has counted is the sum of such an h.
HoldingsCover ==
  \A w \in Worker :
    /\ seen[w].allocation \in Nat
    /\ pc[w] \in {"slots", "reserve"} =>
         \E h \in [Symbol -> Nat] :
           seen[w].holdings = Sum(h, Symbol) /\ Charged(h)

\* The sums of the model.
LEMMA HoldingsSum ==
  /\ Holdings = Sum(held, Symbol)
  /\ Holdings' = Sum(held', Symbol)
  /\ \A I : SumMargin(I) = Sum(Margin, I)
<1>1. Holdings = Sum(held, Symbol)
  BY DEF Holdings, Sum, MapThenSumSet, MapThenFoldSet
<1>2. Holdings' = Sum(held', Symbol)
  BY DEF Holdings, Sum, MapThenSumSet, MapThenFoldSet
<1>3. ASSUME NEW I PROVE SumMargin(I) = Sum(Margin, I)
  BY DEF SumMargin, Sum, MapThenSumSet, MapThenFoldSet
<1> QED
  BY <1>1, <1>2, <1>3

\* Only a fill adds to a position, and the order that filled is final then.
LEMMA NextCharged ==
  ASSUME IInv, [Next]_vars, NEW h \in [Symbol -> Nat], Charged(h)
  PROVE  Charged(h)'
<1> USE IntentAssumption, NamesAssumption
    DEF IInv, TypeOK, State, PC, Busy, Charged, Unreleased, Retained,
        Goto, Unlock, Forget, rules, exchange, book, worker, pass
<1>1. ASSUME NEW w \in Worker, Reserve(w) PROVE Charged(h)'
  <2>1. /\ UNCHANGED <<held, order>>
        /\ \A i \in Unreleased : i \in Unreleased'
    BY <1>1 DEF Reserve, Book
  <2> QED
    BY <2>1
<1>2. ASSUME NEW w \in Worker, EndReconcile(w) PROVE Charged(h)'
  <2>1. /\ UNCHANGED <<held, order>>
        /\ \A i \in freed[w] : held[SymbolOf[i]] = 0
        /\ state' = [i \in Intent |-> IF i \in freed[w] THEN "released"
                                      ELSE state[i]]
    BY <1>2 DEF EndReconcile, FreedFlat
  <2> QED
    BY <2>1
<1>3. ASSUME NEW w \in Worker, MarkSubmitting(w) PROVE Charged(h)'
  BY <1>3 DEF MarkSubmitting, Marked
<1>4. ASSUME NEW i \in Intent, NEW q \in 0..Margin[i], Finish(i, q)
      PROVE  Charged(h)'
  <2>1. /\ UNCHANGED state
        /\ i \in Unreleased /\ order[i] = "open"
        /\ order' = [order EXCEPT ![i] = "final"]
        /\ held' = [held EXCEPT ![SymbolOf[i]] = held[SymbolOf[i]] + q]
    BY <1>4 DEF Finish, ExposureReserved
  <2>2. held[SymbolOf[i]] <= h[SymbolOf[i]]
    BY <2>1 DEF OneIntentPerSymbol
  <2>3. ASSUME NEW x \in Symbol, x # SymbolOf[i]
        PROVE  \/ held'[x] <= h[x]
               \/ \E j \in Unreleased' : /\ SymbolOf[j] = x
                                         /\ order'[j] = "final"
                                         /\ held'[x] <= h[x] + Margin[j]
    <3>1. held'[x] = held[x]
      BY <2>1, <2>3
    <3> QED
      BY <2>1, <2>3, <3>1
  <2>4. /\ held'[SymbolOf[i]] <= h[SymbolOf[i]] + Margin[i]
        /\ i \in Unreleased' /\ order'[i] = "final"
    BY <2>1, <2>2
  <2> QED
    BY <2>3, <2>4
<1>5. ASSUME NEW x \in Symbol, Close(x) PROVE Charged(h)'
  BY <1>5 DEF Close
<1>6. ASSUME NEW w \in Worker, Send(w) PROVE Charged(h)'
  <2>1. /\ UNCHANGED <<held, state>>
        /\ order[intent[w]] = "none"
        /\ \A j \in Intent : j # intent[w] => order'[j] = order[j]
    BY <1>6 DEF Send, SentOnce, OnItsWay
  <2> QED
    BY <2>1
<1>7. CASE UNCHANGED <<state, order, held>>
  BY <1>7
<1> QED
  BY <1>1, <1>2, <1>3, <1>4, <1>5, <1>6, <1>7, QuietSteps

\* What a worker has counted stays enough but for the fills of unresolved
\* intents.
LEMMA NextHoldings ==
  IInv /\ SnapshotCovers /\ HoldingsCover /\ [Next]_vars => HoldingsCover'
<1> DEFINE Covered(v) ==
             /\ seen'[v].allocation \in Nat
             /\ pc'[v] \in {"slots", "reserve"} =>
                  \E h \in [Symbol -> Nat] :
                    seen'[v].holdings = Sum(h, Symbol) /\ Charged(h)'
<1> SUFFICES ASSUME IInv, SnapshotCovers, HoldingsCover, [Next]_vars,
                    NEW v \in Worker
             PROVE  Covered(v)
  BY DEF HoldingsCover
<1>1. \A h \in [Symbol -> Nat] : Charged(h) => Charged(h)'
  BY NextCharged
<1>2. ASSUME seen'[v].allocation \in Nat,
             pc'[v] \in {"slots", "reserve"} =>
               /\ pc[v] \in {"slots", "reserve"}
               /\ seen'[v].holdings = seen[v].holdings
      PROVE  Covered(v)
  BY <1>1, <1>2 DEF HoldingsCover
<1> USE DEF IInv, TypeOK, Goto, Forget, rules, exchange, book, worker, pass
<1>3. CASE /\ UNCHANGED seen
           /\ pc'[v] \in {"slots", "reserve"} => pc[v] \in {"slots", "reserve"}
  BY <1>2, <1>3 DEF HoldingsCover
<1>4. ASSUME NEW w \in Worker, ReadHoldings(w) PROVE Covered(v)
  <2>1. /\ seen' = [seen EXCEPT ![w].holdings = Holdings]
        /\ pc' = [pc EXCEPT ![w] = "slots"]
        /\ held' = held
    BY <1>4 DEF ReadHoldings
  <2>2. CASE v = w
    <3>1. /\ seen'[v].holdings = Sum(held, Symbol)
          /\ seen'[v].allocation = seen[v].allocation
      BY <2>1, <2>2, HoldingsSum DEF SnapshotCovers, Fields
    <3>2. \A x \in Symbol : held'[x] <= held[x]
      BY <2>1
    <3> QED
      BY <3>1, <3>2 DEF HoldingsCover, Charged
  <2>3. CASE v # w
    <3>1. seen'[v] = seen[v] /\ pc'[v] = pc[v]
      BY <2>1, <2>3 DEF SnapshotCovers
    <3> QED
      BY <1>2, <3>1 DEF HoldingsCover
  <2> QED
    BY <2>2, <2>3
<1>5. ASSUME NEW w \in Worker, ReadSlots(w) PROVE Covered(v)
  <2>1. /\ seen' = [seen EXCEPT ![w].allocation = allocation,
                                ![w].owned = Owned]
        /\ pc' = [pc EXCEPT ![w] = "reserve"]
        /\ pc[w] = "slots"
    BY <1>5 DEF ReadSlots
  <2>2. CASE v = w
    <3>1. seen'[w] = [[seen[w] EXCEPT !.allocation = allocation]
                        EXCEPT !.owned = Owned]
      BY <2>1 DEF SnapshotCovers
    <3>2. /\ seen'[w].holdings = seen[w].holdings
          /\ seen'[w].allocation \in Nat
      BY <3>1 DEF SnapshotCovers, Fields
    <3> QED
      BY <1>2, <2>1, <2>2, <3>2
  <2>3. CASE v # w
    <3>1. seen'[v] = seen[v] /\ pc'[v] = pc[v]
      BY <2>1, <2>3 DEF SnapshotCovers
    <3> QED
      BY <1>2, <3>1 DEF HoldingsCover
  <2> QED
    BY <2>2, <2>3
<1>6. ASSUME NEW w \in Worker, NEW i \in Intent, Begin(w, i) PROVE Covered(v)
  <2>1. /\ seen' = [seen EXCEPT ![w].revision = policy.revision]
        /\ pc'[w] = "reconcile" /\ (v # w => pc'[v] = pc[v])
    BY <1>6 DEF Begin
  <2>2. /\ seen'[v].holdings = seen[v].holdings
        /\ seen'[v].allocation = seen[v].allocation
    BY <2>1 DEF SnapshotCovers, Fields
  <2> QED
    BY <1>2, <2>1, <2>2 DEF HoldingsCover
<1>7. ASSUME NEW w \in Worker, Forget(w), pc'[w] \notin {"slots", "reserve"},
             v # w => pc'[v] = pc[v]
      PROVE  Covered(v)
  <2>1. seen'[v] = IF v = w THEN NothingSeen ELSE seen[v]
    BY <1>7 DEF SnapshotCovers
  <2>2. NothingSeen.allocation = 0
    BY DEF NothingSeen
  <2> QED
    BY <1>2, <1>7, <2>1, <2>2 DEF HoldingsCover
<1>8. \/ \E w \in Worker : ReadSlots(w)
      \/ \E w \in Worker : \E i \in Intent : Begin(w, i)
      \/ \E w \in Worker : ReadHoldings(w)
      \/ \E w \in Worker : Forget(w) /\ pc'[w] \notin {"slots", "reserve"}
                           /\ (v # w => pc'[v] = pc[v])
      \/ /\ UNCHANGED seen
         /\ pc'[v] \in {"slots", "reserve"} => pc[v] \in {"slots", "reserve"}
  <2>1. ASSUME NEW w \in Worker, Reserve(w) \/ Send(w) \/ GiveUp(w) \/ Crash(w)
        PROVE  /\ Forget(w) /\ pc'[w] \notin {"slots", "reserve"}
               /\ v # w => pc'[v] = pc[v]
    BY <2>1 DEF Reserve, Book, Send, GiveUp, Crash
  <2>2. ASSUME NEW w \in Worker,
               \/ Resume(w) \/ Reconcile(w) \/ ReadFlat(w) \/ KeepRow(w)
               \/ EndReconcile(w) \/ CheckFlat(w) \/ MarkSubmitting(w)
               \/ Authorize(w) \/ LoseSession(w)
               \/ \E i \in Intent : ReadOrder(w, i)
        PROVE  /\ UNCHANGED seen
               /\ pc'[v] \in {"slots", "reserve"} =>
                    pc[v] \in {"slots", "reserve"}
    BY <2>2 DEF Resume, Reconcile, ReadFlat, Release, KeepRow, EndReconcile,
      CheckFlat, MarkSubmitting, Marked, Authorize, LoseSession, ReadOrder
  <2>3. ASSUME \/ \E c \in Candidate : Activate(c)
               \/ \E a \in Allocation : Allocate(a)
               \/ \E x \in Symbol : Claim(x) \/ Unclaim(x) \/ Close(x)
               \/ \E i \in Intent : \E q \in 0..Margin[i] : Finish(i, q)
               \/ Expire \/ OtherOrder \/ UNCHANGED vars
        PROVE  UNCHANGED <<seen, pc>>
    BY <2>3 DEF Activate, Allocate, Claim, Unclaim, Close, Finish, Expire,
    OtherOrder, vars
  <2> QED
    BY <2>1, <2>2, <2>3 DEF Next, Prepare, Submit
<1> QED
  BY <1>3, <1>4, <1>5, <1>6, <1>7, <1>8

\* An unresolved intent has a symbol of its own.
LEMMA UnreleasedFinite ==
  ASSUME FiniteSymbols, IInv
  PROVE  IsFiniteSet(Unreleased)
<1> DEFINE symbol == [i \in Unreleased |-> SymbolOf[i]]
<1>1. Unreleased \subseteq Intent
  BY DEF Unreleased
<1>2. symbol \in [Unreleased -> Symbol]
  BY <1>1, IntentAssumption
<1>3. \A i, j \in Unreleased : symbol[i] = symbol[j] => i = j
  BY DEF IInv, OneIntentPerSymbol
<1>4. symbol \in Injection(Unreleased, Symbol)
  BY <1>2, <1>3 DEF Injection, IsInjective
<1> QED
  BY <1>4, FS_Injection DEF FiniteSymbols, ExistsInjection

\* The ceiling of the moment holds whenever a reservation is made, however old
\* the snapshot of the worker is.
THEOREM CeilingKept ==
  ASSUME FiniteSymbols
  PROVE  Spec => CeilingHolds
<1>1. Init => SnapshotCovers /\ HoldingsCover
  BY DEF Init, SnapshotCovers, HoldingsCover, NothingSeen, Fields
<1>2. IInv /\ HoldingsCover /\ [Next]_vars =>
        [\/ Unreleased' \subseteq Unreleased
         \/ (Holdings + SumMargin(Pending))'
              <= Lower(allocation, policy.cap)]_vars
  <2> SUFFICES ASSUME IInv, HoldingsCover, [Next]_vars,
                      ~ (Unreleased' \subseteq Unreleased)
               PROVE  (Holdings + SumMargin(Pending))'
                        <= Lower(allocation, policy.cap)
    OBVIOUS
  <2>1. PICK w \in Worker : Reserve(w)
    BY SlotSteps
  <2> DEFINE i == intent[w]
             F == {j \in Unreleased : order[j] = "final"}
  <2>2. /\ i \in Intent /\ state[i] = "none"
        /\ pc[w] = "reserve"
        /\ Affordable(w, i)
        /\ UNCHANGED <<held, order>>
        /\ state' = [state EXCEPT ![i] = "reserved"]
    BY <2>1 DEF Reserve, Book, exchange, IInv, Busy
  <2>3. order[i] # "final" /\ i \notin Unreleased
    BY <2>2 DEF IInv, OrdersMarked, Unreleased, Retained
  <2>4. Pending' = Pending \cup {i} /\ i \notin Pending
    BY <2>2, <2>3 DEF Pending, Unreleased, Retained, IInv, TypeOK
  <2>5. /\ IsFiniteSet(Unreleased) /\ IsFiniteSet(Pending) /\ IsFiniteSet(F)
        /\ IsFiniteSet(Pending')
        /\ Unreleased = Pending \cup F /\ Pending \cap F = {}
        /\ Unreleased \subseteq Intent
    <3>1. IsFiniteSet(Unreleased)
      BY UnreleasedFinite
    <3>2. IsFiniteSet(Pending) /\ IsFiniteSet(F)
      BY <3>1, FS_Subset DEF Pending
    <3>3. IsFiniteSet(Pending')
      BY <2>4, <3>2, FS_AddElement
    <3> QED
      BY <3>1, <3>2, <3>3 DEF Pending, Unreleased
  <2>6. \A j \in Intent : Margin[j] \in Nat
    BY IntentAssumption
  <2>7. Sum(Margin, Unreleased) = Sum(Margin, Pending) + Sum(Margin, F)
    <3>1. \A j \in Pending \cup F : Margin[j] \in Nat
      BY <2>5, <2>6
    <3> HIDE DEF F
    <3> QED
      BY <2>5, <3>1, SumUnion
  <2>8. Sum(Margin, Pending') = Margin[i] + Sum(Margin, Pending)
    <3>1. i \in Pending' /\ Pending' \ {i} = Pending
      BY <2>4
    <3>2. \A j \in Pending' : Margin[j] \in Nat
      BY <2>2, <2>4, <2>5, <2>6
    <3> HIDE DEF i
    <3>3. Sum(Margin, Pending') = Margin[i] + Sum(Margin, Pending' \ {i})
      BY <2>5, <3>1, <3>2, SumRemove
    <3> QED
      BY <3>1, <3>3
  <2>9. PICK h \in [Symbol -> Nat] :
          seen[w].holdings = Sum(h, Symbol) /\ Charged(h)
    BY <2>2 DEF HoldingsCover
  <2>10. Sum(held, Symbol) <= Sum(h, Symbol) + Sum(Margin, F)
    <3>1. \A x \in Symbol : held[x] \in Nat /\ h[x] \in Nat
      BY DEF IInv, TypeOK
    <3>2. \A j \in F : Margin[j] \in Nat /\ SymbolOf[j] \in Symbol
      BY <2>5, <2>6, IntentAssumption
    <3>3. \A j, l \in F : SymbolOf[j] = SymbolOf[l] => j = l
      BY DEF IInv, OneIntentPerSymbol
    <3>4. \A x \in Symbol :
            \/ held[x] <= h[x]
            \/ \E j \in F : SymbolOf[j] = x /\ held[x] <= h[x] + Margin[j]
      BY <2>9 DEF Charged
    <3> HIDE DEF F
    <3> QED
      BY <2>5, <3>1, <3>2, <3>3, <3>4, SumCharged DEF FiniteSymbols
  <2>11. /\ Sum(Margin, Pending) \in Nat /\ Sum(Margin, F) \in Nat
         /\ Sum(held, Symbol) \in Nat /\ Sum(h, Symbol) \in Nat
         /\ Margin[i] \in Nat
    <3>1. \A j \in Pending : Margin[j] \in Nat
      BY <2>5, <2>6
    <3>2. \A j \in F : Margin[j] \in Nat
      BY <2>5, <2>6
    <3>3. \A x \in Symbol : held[x] \in Nat
      BY DEF IInv, TypeOK
    <3>4. \A x \in Symbol : h[x] \in Nat
      OBVIOUS
    <3> HIDE DEF F
    <3> QED
      BY <2>2, <2>5, <2>6, <3>1, <3>2, <3>3, <3>4, SumNat DEF FiniteSymbols
  <2>12. /\ Sum(h, Symbol) + Sum(Margin, Unreleased) + Margin[i]
              <= Lower(Lower(seen[w].allocation, allocation), policy.cap)
         /\ seen[w].allocation \in Nat /\ allocation \in Nat
         /\ policy.cap \in Nat
    BY <2>2, <2>9, HoldingsSum DEF Affordable, Cap, HoldingsCover, IInv, TypeOK
  <2>13. (Holdings + SumMargin(Pending))'
           = Sum(held, Symbol) + Sum(Margin, Pending')
    BY <2>2, HoldingsSum
  <2> HIDE DEF i, F
  <2> QED
    BY <2>7, <2>8, <2>10, <2>11, <2>12, <2>13 DEF Lower
<1> QED
  BY InitIInv, NextIInv, NextSnapshot, NextHoldings, <1>1, <1>2, PTL
  DEF Spec, CeilingHolds
=============================================================================
