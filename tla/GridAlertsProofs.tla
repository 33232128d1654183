--------------------------- MODULE GridAlertsProofs ---------------------------
(***************************************************************************)
(* Proofs about GridAlerts. The first half is about the outbox, for any    *)
(* engine: nothing is assumed of the events that a tick hands over, nor of *)
(* their number. The second half follows the engine through a tick: what   *)
(* its runtime owes to the events it has made, whatever the trades.        *)
(***************************************************************************)
EXTENDS GridAlerts, FiniteSetTheorems, TLAPS

RowType == [status : Waiting \cup {"SENT", "CANCELLED"},
            left : Int \cup {NoTtl}, wait : Int]

Owed == {e \in DOMAIN outbox : Live(e)}

\* The deadline was not over when the pump began.
Due(e) == e \in Owed /\ (Latched(e) \/ outbox[e].left + late >= 0)

\* What the refinement rests on.
OutboxInv ==
  /\ late \in 0..MaxLate
  /\ outbox \in [DOMAIN outbox -> RowType]
  /\ DOMAIN outbox \subseteq DOMAIN event
  /\ \A e \in Owed : outbox[e].left = NoTtl <=> Latched(e)
  /\ pc = "row" => Id \in DOMAIN event /\ Id \notin DOMAIN outbox
  /\ \A e \in rows : Due(e)
  /\ pc \notin {"pump", "mark"} => rows = {}
  /\ pc = "mark" => /\ sending.id \in rows
                    /\ sending.outcome = "ok" => sending.id \in told

LEMMA InitOutboxInv == Init => OutboxInv
BY SMT, AlertsAssumption DEF Init, OutboxInv, Owed, RowType

\* A second changes neither the status of a row nor whether it has a deadline.
LEMMA ElapseRowKeeps ==
  ASSUME NEW row \in RowType
  PROVE  /\ ElapseRow(row) \in RowType
         /\ ElapseRow(row).status = row.status
         /\ ElapseRow(row).left = NoTtl <=> row.left = NoTtl
         /\ row.left # NoTtl /\ row.status \in Waiting /\ row.left > LongOver
              => ElapseRow(row).left = row.left - 1
<1>1. NoTtl \notin Int /\ LongOver \in Int
  BY AlertsAssumption DEF LongOver
<1>2. CASE row.status \notin Waiting
  BY <1>2 DEF ElapseRow
<1>3. CASE row.status \in Waiting
  <2> DEFINE l == IF row.left = NoTtl \/ row.left <= LongOver THEN row.left
                  ELSE row.left - 1
             w == IF row.wait = 0 THEN 0 ELSE row.wait - 1
  <2>1. ElapseRow(row) = [row EXCEPT !.left = l, !.wait = w]
    BY <1>3 DEF ElapseRow
  <2>2. /\ l \in Int \cup {NoTtl} /\ w \in Int
        /\ l = NoTtl <=> row.left = NoTtl
        /\ row.left # NoTtl /\ row.left > LongOver => l = row.left - 1
    BY <1>1 DEF RowType
  <2> HIDE DEF l, w
  <2> QED BY <2>1, <2>2 DEF RowType
<1> QED BY <1>2, <1>3

\* A second passes for the rows: the same ones are owed.
LEMMA ElapsedRows ==
  ASSUME OutboxInv, ElapseRows
  PROVE  /\ DOMAIN outbox' = DOMAIN outbox
         /\ outbox' \in [DOMAIN outbox' -> RowType]
         /\ Owed' = Owed
         /\ \A e \in DOMAIN outbox :
              /\ outbox'[e] = ElapseRow(outbox[e])
              /\ outbox'[e].status = outbox[e].status
              /\ outbox'[e].left = NoTtl <=> outbox[e].left = NoTtl
<1>1. /\ DOMAIN outbox' = DOMAIN outbox
      /\ \A e \in DOMAIN outbox : outbox'[e] = ElapseRow(outbox[e])
  BY DEF ElapseRows
<1>2. \A e \in DOMAIN outbox :
        /\ outbox'[e] \in RowType
        /\ outbox'[e].status = outbox[e].status
        /\ outbox'[e].left = NoTtl <=> outbox[e].left = NoTtl
  BY <1>1, ElapseRowKeeps DEF OutboxInv
<1>3. outbox' \in [DOMAIN outbox' -> RowType]
  BY <1>1, <1>2 DEF ElapseRows
<1>4. Owed' = Owed
  BY <1>1, <1>2 DEF Owed, Live
<1> QED BY <1>1, <1>2, <1>3, <1>4

LEMMA ProcessOutboxInv ==
  ASSUME OutboxInv, NEW in, pc = "idle", Process(in) PROVE OutboxInv'
<1>1. ElapseRows /\ pc' = "record" /\ rows' = {} /\ UNCHANGED <<event, late>>
  BY DEF Process, OutboxInv, pump
<1>2. \A e \in Owed' : outbox'[e].left = NoTtl <=> Latched(e)'
  BY <1>1, ElapsedRows DEF OutboxInv, Latched, Owed
<1>3. DOMAIN outbox' \subseteq DOMAIN event'
  BY <1>1, ElapsedRows DEF OutboxInv
<1> QED BY <1>1, <1>2, <1>3, ElapsedRows DEF OutboxInv

\* The deadlines run while the channel is awaited; what was due when the pump
\* began was so by the clock of the pump.
LEMMA AwaitOutboxInv == ASSUME OutboxInv, Await PROVE OutboxInv'
<1>1. /\ ElapseRows /\ pc = "mark" /\ pc' = "mark"
      /\ late' = late + 1 /\ late' \in 0..MaxLate
      /\ UNCHANGED <<event, rows, sending, told>>
  BY AlertsAssumption DEF Await, OutboxInv
<1>2. \A e \in Owed' : outbox'[e].left = NoTtl <=> Latched(e)'
  BY <1>1, ElapsedRows DEF OutboxInv, Latched, Owed
<1>3. ASSUME NEW e \in rows PROVE Due(e)'
  <2>1. e \in Owed /\ e \in Owed' /\ (Latched(e) \/ outbox[e].left + late >= 0)
    BY <1>1, <1>3, ElapsedRows DEF OutboxInv, Due
  <2>2. CASE Latched(e)
    BY <2>1, <2>2 DEF Due, Latched
  <2>3. CASE ~Latched(e)
    <3>1. /\ outbox[e] \in RowType /\ outbox[e].status \in Waiting
          /\ outbox[e].left # NoTtl
      BY <2>1, <2>3 DEF OutboxInv, Owed, Live
    <3>2. outbox[e].left \in Int /\ late \in 0..MaxLate /\ MaxLate \in Nat
          /\ late + 1 <= MaxLate
      BY <1>1, <3>1, AlertsAssumption DEF RowType, OutboxInv
    <3>3. outbox[e].left > LongOver
      BY <2>1, <2>3, <3>2 DEF LongOver
    <3>4. outbox'[e].left = outbox[e].left - 1
      BY <1>1, <2>1, <3>1, <3>3, ElapsedRows, ElapseRowKeeps DEF Owed
    <3>5. outbox'[e].left + late' >= 0
      BY <1>1, <2>1, <2>3, <3>2, <3>4
    <3> QED BY <2>1, <3>5 DEF Due
  <2> QED BY <2>2, <2>3
<1>4. DOMAIN outbox' \subseteq DOMAIN event'
  BY <1>1, ElapsedRows DEF OutboxInv
<1>5. /\ sending'.id \in rows'
      /\ sending'.outcome = "ok" => sending'.id \in told'
  BY <1>1 DEF OutboxInv
<1> QED BY <1>1, <1>2, <1>3, <1>4, <1>5, ElapsedRows DEF OutboxInv

\* The rows of the outbox change at one id; the others keep what they are.
LEMMA OneRow ==
  ASSUME OutboxInv, NEW x \in DOMAIN outbox, NEW row \in RowType,
         outbox' = [outbox EXCEPT ![x] = row]
  PROVE  /\ outbox' \in [DOMAIN outbox -> RowType]
         /\ outbox'[x] = row
         /\ \A e \in DOMAIN outbox \ {x} : outbox'[e] = outbox[e]
BY DEF OutboxInv

LEMMA DoneRow ==
  /\ Done("SENT") \in RowType /\ Done("CANCELLED") \in RowType
  /\ Done("SENT").status \notin Waiting
  /\ Done("CANCELLED").status \notin Waiting
BY DEF Done, RowType, Waiting

LEMMA InsertOutboxRow ==
  ASSUME OutboxInv, InsertOutbox
  PROVE  /\ outbox' \in [DOMAIN outbox \cup {Id} -> RowType]
         /\ DOMAIN outbox' = DOMAIN outbox \cup {Id}
         /\ Id \notin DOMAIN outbox
         /\ outbox'[Id].status = "PENDING"
         /\ outbox'[Id].left = IF Latched(Id) THEN NoTtl ELSE TTL
         /\ \A e \in DOMAIN outbox : outbox'[e] = outbox[e]
<1> DEFINE row == [status |-> "PENDING", wait |-> 0,
                   left |-> IF Latched(Id) THEN NoTtl ELSE TTL]
<1>1. row \in RowType
  BY AlertsAssumption DEF RowType, Waiting
<1>2. outbox' = Insert(outbox, Id, row) /\ Id \notin DOMAIN outbox
  BY DEF InsertOutbox, OutboxInv
<1>3. outbox' = [e \in DOMAIN outbox \cup {Id} |->
                   IF e = Id THEN row ELSE outbox[e]]
  BY <1>2 DEF Insert
<1> HIDE DEF row
<1>4. /\ outbox' \in [DOMAIN outbox \cup {Id} -> RowType]
      /\ outbox'[Id] = row
      /\ \A e \in DOMAIN outbox : outbox'[e] = outbox[e]
  BY <1>1, <1>2, <1>3 DEF OutboxInv
<1> QED BY <1>2, <1>3, <1>4 DEF row

\* What StartPump leaves of a row.
LEMMA StartPumpRow ==
  ASSUME OutboxInv, StartPump
  PROVE  /\ outbox' \in [DOMAIN outbox -> RowType]
         /\ \A e \in DOMAIN outbox :
              outbox'[e] = IF Expired(e) THEN Done("CANCELLED") ELSE outbox[e]
BY DoneRow DEF StartPump, OutboxInv

\* The row being sent, after its outcome: sent, or waiting for a retry.
LEMMA HandleOutcomeRow ==
  ASSUME OutboxInv, HandleOutcome
  PROVE  \E row \in RowType :
           /\ outbox' = [outbox EXCEPT ![sending.id] = row]
           /\ IF sending.outcome = "ok" THEN row.status \notin Waiting
              ELSE /\ row.status \in Waiting
                   /\ row.left = outbox[sending.id].left
<1>1. sending.id \in DOMAIN outbox /\ outbox[sending.id] \in RowType
  BY DEF HandleOutcome, OutboxInv, Due, Owed
<1>2. CASE sending.outcome = "ok"
  BY <1>2, DoneRow DEF HandleOutcome
<1>3. CASE sending.outcome # "ok"
  <2> DEFINE s == IF sending.outcome = "failed" THEN "FAILED" ELSE "UNKNOWN"
  <2>1. PICK wait \in 1..MaxWait : Retry(s, wait)
    BY <1>3 DEF HandleOutcome
  <2> DEFINE w == IF wait > late THEN wait - late ELSE 0
             row == [outbox[sending.id] EXCEPT !.status = s, !.wait = w]
  <2>2. outbox' = [outbox EXCEPT ![sending.id] = row]
    BY <2>1 DEF Retry
  <2>3. row \in RowType /\ row.status = s /\ row.left = outbox[sending.id].left
    <3>1. s \in Waiting /\ w \in Int
      BY AlertsAssumption DEF Waiting, OutboxInv
    <3> HIDE DEF s, w
    <3> QED BY <1>1, <3>1 DEF RowType
  <2>4. s \in Waiting
    BY DEF Waiting
  <2> QED BY <1>3, <2>2, <2>3, <2>4
<1> QED BY <1>2, <1>3

LEMMA NextOutboxInv == OutboxInv /\ [Next]_vars => OutboxInv'
<1> SUFFICES ASSUME OutboxInv, [Next]_vars PROVE OutboxInv'
  OBVIOUS
<1>1. CASE Tick
  <2>1. PICK in : Process(in)
    BY <1>1 DEF Tick
  <2> QED BY <1>1, <2>1, ProcessOutboxInv DEF Tick
<1>2. CASE QuietTick
  BY <1>2, ProcessOutboxInv DEF QuietTick
<1>3. CASE RecordKnown
  BY <1>3 DEF RecordKnown, OutboxInv, Owed, Live, Due, Latched, tables, pump
<1>4. CASE InsertEvent
  BY <1>4 DEF InsertEvent, OutboxInv, Owed, Live, Due, Latched, Insert, Id, pump
<1>5. CASE InsertOutbox
  <2>1. /\ pc' = "record" /\ rows' = {} /\ UNCHANGED <<event, late>>
        /\ Id \in DOMAIN event
    BY <1>5 DEF InsertOutbox, OutboxInv, pump
  <2>2. \A e \in Owed' : outbox'[e].left = NoTtl <=> Latched(e)
    <3> TAKE e \in Owed'
    <3>1. CASE e = Id
      BY <1>5, <3>1, InsertOutboxRow, AlertsAssumption
    <3>2. CASE e # Id
      BY <1>5, <3>2, InsertOutboxRow DEF Owed, Live, OutboxInv
    <3> QED BY <3>1, <3>2
  <2> QED BY <1>5, <2>1, <2>2, InsertOutboxRow DEF OutboxInv, Latched
<1>6. CASE StartPump
  <2>1. \A e \in Owed' : e \in Owed /\ outbox'[e] = outbox[e]
    BY <1>6, StartPumpRow, DoneRow DEF Owed, Live
  <2>2. \A e \in rows' : Due(e)'
    <3> TAKE e \in rows'
    <3>1. e \in Owed /\ ~Expired(e)
      BY <1>6 DEF StartPump, Owed
    <3>2. e \in Owed' /\ outbox'[e] = outbox[e]
      BY <1>6, <3>1, StartPumpRow DEF Owed, Live
    <3>3. Latched(e) \/ outbox[e].left >= 0
      BY <3>1 DEF Expired, OutboxInv, RowType, Owed
    <3>4. Latched(e) \/ outbox[e].left + 0 >= 0
      BY <3>1, <3>3 DEF OutboxInv, RowType, Owed
    <3> QED BY <1>6, <3>2, <3>4 DEF StartPump, Due, Latched
  <2>3. pc' = "pump" /\ UNCHANGED event /\ late' \in 0..MaxLate
    BY <1>6, AlertsAssumption DEF StartPump
  <2> QED BY <1>6, <2>1, <2>2, <2>3, StartPumpRow DEF OutboxInv, Latched
<1>7. ASSUME NEW e \in Ids, CancelRow(e) PROVE OutboxInv'
  <2>1. /\ e \in DOMAIN outbox /\ rows' = rows \ {e}
        /\ outbox' = [outbox EXCEPT ![e] = Done("CANCELLED")]
        /\ pc = "pump" /\ UNCHANGED <<pc, event, late>>
    BY <1>7 DEF CancelRow, NextDue, OutboxInv, Due, Owed
  <2>2. \A x \in Owed' : x \in Owed /\ outbox'[x] = outbox[x]
    BY <2>1, OneRow, DoneRow DEF Owed, Live
  <2>3. \A x \in rows' : Due(x)'
    BY <2>1, OneRow, DoneRow DEF OutboxInv, Due, Owed, Live, Latched
  <2> QED BY <2>1, <2>2, <2>3, OneRow, DoneRow DEF OutboxInv, Latched
<1>8. ASSUME NEW e \in Ids, NEW o \in Outcomes, SendRow(e, o) PROVE OutboxInv'
  BY <1>8 DEF SendRow, NextDue, OutboxInv, Owed, Live, Due, Latched, tables
<1>9. CASE HandleOutcome
  BY <1>9, HandleOutcomeRow, OneRow
     DEF HandleOutcome, OutboxInv, Owed, Live, Due, Latched
<1>10. CASE EndTick
  BY <1>10, AlertsAssumption
     DEF EndTick, OutboxInv, Owed, Live, Due, Latched, tables
<1>11. CASE Die
  BY <1>11, AlertsAssumption
     DEF Die, OutboxInv, Owed, Live, Due, Latched, tables
<1>12. CASE Restart
  BY <1>12 DEF Restart, OutboxInv, Owed, Live, Due, Latched, tables, pump
<1>13. CASE UNCHANGED vars
  BY <1>13 DEF vars, OutboxInv, Owed, Live, Due, Latched, tables, Id, pump
<1>14. CASE Await
  BY <1>14, AwaitOutboxInv
<1> QED
  BY <1>1, <1>2, <1>3, <1>4, <1>5, <1>6, <1>7, <1>8, <1>9, <1>10, <1>11,
     <1>12, <1>13, <1>14 DEF Next, System, Crash, UnknownRow

-----------------------------------------------------------------------------
(* The deadline of advice.                                                 *)

\* Advice that goes to the channel, for the first time or again, was within
\* its deadline when the pump began: it is late by no more than the senders of
\* this pump have taken before it, and never the next time.
THEOREM DeadlineKept == Spec => []AdviceDueAtPump
<1>1. OutboxInv => AdviceDueAtPump
  BY DEF OutboxInv, AdviceDueAtPump, Due
<1> QED BY <1>1, InitOutboxInv, NextOutboxInv, PTL DEF Spec

-----------------------------------------------------------------------------
(* The refinement.                                                         *)

Promise == Ledger!Next \/ UNCHANGED <<Owed, told>>

LEMMA InitLedger == Init => Ledger!Init
BY DEF Init, Ledger!Init

\* Rows that are no facts leave the outbox.
LEMMA AdviceGivenUp ==
  ASSUME NEW S \in SUBSET Owed, S \cap FactIds = {}, Owed' = Owed \ S,
         told' = told
  PROVE  Promise
BY DEF Promise, Ledger!Next, Ledger!GiveUp, Owed

LEMMA StepPromise == OutboxInv /\ [Next]_vars => Promise
<1> SUFFICES ASSUME OutboxInv, [Next]_vars PROVE Promise
  OBVIOUS
<1>1. ASSUME ElapseRows, UNCHANGED told PROVE Promise
  BY <1>1, ElapsedRows DEF Promise
<1>2. CASE InsertOutbox
  <2>1. Owed' = Owed \cup {Id} /\ told' = told
    BY <1>2, InsertOutboxRow DEF Owed, Live, Waiting, InsertOutbox
  <2> QED BY <2>1 DEF Promise, Ledger!Next, Ledger!TakeOn, Owed
<1>3. CASE StartPump
  <2> DEFINE S == {e \in DOMAIN outbox : Expired(e)}
  <2>1. S \in SUBSET Owed /\ S \cap FactIds = {}
    BY DEF Expired, Owed, OutboxInv, Latched
  <2>2. Owed' = Owed \ S
    BY <1>3, StartPumpRow, DoneRow DEF Owed, Live
  <2> QED BY <1>3, <2>1, <2>2, AdviceGivenUp DEF StartPump
<1>4. ASSUME NEW e \in Ids, CancelRow(e) PROVE Promise
  <2>1. e \in Owed /\ outbox' = [outbox EXCEPT ![e] = Done("CANCELLED")]
    BY <1>4 DEF CancelRow, NextDue, OutboxInv, Due
  <2>2. Owed' = Owed \ {e}
    BY <2>1, OneRow, DoneRow DEF Owed, Live
  <2>3. {e} \cap FactIds = {} /\ told' = told
    BY <1>4 DEF CancelRow, Latched
  <2> QED BY <2>1, <2>2, <2>3, AdviceGivenUp
<1>5. ASSUME NEW e \in Ids, NEW o \in Outcomes, SendRow(e, o) PROVE Promise
  <2>1. e \in Owed /\ Owed' = Owed
    BY <1>5 DEF SendRow, NextDue, OutboxInv, Due, tables, Owed, Live
  <2> QED BY <1>5, <2>1
        DEF SendRow, Promise, Ledger!Next, Ledger!Tell, Owed
<1>6. CASE HandleOutcome
  <2> DEFINE x == sending.id
  <2>1. x \in Owed /\ told' = told
    BY <1>6 DEF HandleOutcome, OutboxInv, Due
  <2>2. PICK row \in RowType :
          /\ outbox' = [outbox EXCEPT ![x] = row]
          /\ IF sending.outcome = "ok" THEN row.status \notin Waiting
             ELSE row.status \in Waiting
    BY <1>6, HandleOutcomeRow
  <2>3. CASE sending.outcome = "ok"
    <3>1. Owed' = Owed \ {x}
      BY <2>1, <2>2, <2>3, OneRow DEF Owed, Live
    <3>2. x \in told
      BY <1>6, <2>3 DEF HandleOutcome, OutboxInv
    <3> QED BY <2>1, <3>1, <3>2 DEF Promise, Ledger!Next, Ledger!Settle, Owed
  <2>4. CASE sending.outcome # "ok"
    <3>1. Owed' = Owed
      BY <2>1, <2>2, <2>4, OneRow DEF Owed, Live
    <3> QED BY <2>1, <3>1 DEF Promise
  <2> QED BY <2>3, <2>4
<1>7. CASE UNCHANGED <<outbox, told>>
  BY <1>7 DEF Promise, Owed, Live
<1>8. CASE Tick \/ QuietTick \/ Await
  <2>1. CASE Tick
    <3>1. PICK in : Process(in)
      BY <2>1 DEF Tick
    <3> QED BY <1>1, <3>1 DEF Process
  <2>2. CASE QuietTick
    <3>1. PICK in : Process(in)
      BY <2>2 DEF QuietTick
    <3> QED BY <1>1, <3>1 DEF Process
  <2>3. CASE Await
    BY <1>1, <2>3 DEF Await
  <2> QED BY <1>8, <2>1, <2>2, <2>3
<1>9. CASE RecordKnown \/ InsertEvent \/ EndTick \/ Die \/ Restart
           \/ UNCHANGED vars
  BY <1>7, <1>9
     DEF RecordKnown, InsertEvent, EndTick, Die, Restart, vars, tables
<1> QED
  BY <1>2, <1>3, <1>4, <1>5, <1>6, <1>8, <1>9
     DEF Next, System, Crash, UnknownRow

\* The outbox implements the ledger: whatever the channel answers and
\* whenever the process dies, a fact leaves the outbox only as sent, and only
\* if the channel has taken it.
THEOREM OutboxImplementsLedger == Spec => ImplementsLedger
<1>1. OutboxInv /\ [Next]_vars => [Ledger!Next]_<<Owed, told>>
  BY StepPromise DEF Promise
<1>2. Spec => Ledger!Init /\ [][Ledger!Next]_<<Owed, told>>
  BY <1>1, InitLedger, InitOutboxInv, NextOutboxInv, PTL DEF Spec
<1>3. Ledger!Init /\ [][Ledger!Next]_<<Owed, told>> <=> ImplementsLedger
  BY DEF ImplementsLedger, Ledger!Spec, Owed
<1> QED BY <1>2, <1>3

-----------------------------------------------------------------------------
(* The runtime of the engine: what it owes to the events handed over.      *)

Places == Regions \cup {Unknown}

Runtime ==
  [ref : Nat, serial : Nat, open : BOOLEAN, holds : [Branches -> Int],
   level : Levels, highest : {"IDLE"} \cup Alerts, crit : BOOLEAN,
   sustained : BOOLEAN, bnd : BOOLEAN, last : [Alerts -> Int],
   recovery : Int]

\* The ids an engine in runtime r can have made under its reference.
Made(r) ==
  [ref : {r.ref}, serial : 1..r.serial, level : {"NOTICE", "URGENT"},
   reason : Branches \cup {"critical"}] \cup
  [ref : {r.ref}, serial : 1..r.serial, level : {"BOUNDARY_REACHED"},
   reason : {"boundary"}]

BoundaryOf(r) == EventId(r, "BOUNDARY_REACHED", "boundary")
Heard(r, H) ==
  \E e \in H : e.ref = r.ref /\ e.serial = r.serial /\ e.level = "URGENT"

\* What the runtime r owes to the events H that were handed over.
Honest(r, H) ==
  /\ r.open => r.serial >= 1
  /\ r.bnd => r.open /\ BoundaryOf(r) \in H
  /\ r.level = "URGENT" \/ r.highest = "URGENT" => r.open /\ Heard(r, H)

\* res is a result of the engine, called in runtime r after the events H.
Follows(r, res, H) ==
  /\ res.rt \in Runtime /\ res.rt.ref = r.ref /\ r.serial <= res.rt.serial
  /\ res.out \in Seq(Made(res.rt))
  /\ Honest(res.rt, H \cup Range(res.out))

\* An answer without events, from a runtime that owes nothing new.
LEMMA QuietFollows ==
  ASSUME NEW r \in Runtime, NEW q \in Runtime, NEW H, Honest(q, H),
         q.ref = r.ref, r.serial <= q.serial
  PROVE  Follows(r, Quiet(q), H)
<1>1. Range(<<>>) = {}
  BY DEF Range
<1>2. <<>> \in Seq(Made(q))
  OBVIOUS
<1>3. Quiet(q).rt = q /\ Quiet(q).out = <<>>
  BY DEF Quiet
<1>4. H \cup {} = H
  OBVIOUS
<1> QED BY <1>1, <1>2, <1>3, <1>4 DEF Follows

LEMMA SilentFollows ==
  ASSUME NEW r \in Runtime, NEW H, Honest(r, H)
  PROVE  Follows(r, Quiet(r), H)
<1>1. r.serial <= r.serial
  BY DEF Runtime
<1> QED BY <1>1, QuietFollows

\* The elements of two sequences put together.
LEMMA RangeConcat ==
  ASSUME NEW S, NEW s \in Seq(S), NEW t \in Seq(S)
  PROVE  s \o t \in Seq(S) /\ Range(s \o t) = Range(s) \cup Range(t)
<1>1. /\ s \o t \in Seq(S)
      /\ DOMAIN s = 1..Len(s) /\ DOMAIN t = 1..Len(t)
      /\ DOMAIN (s \o t) = 1..(Len(s) + Len(t))
      /\ \A i \in DOMAIN (s \o t) :
           (s \o t)[i] = IF i <= Len(s) THEN s[i] ELSE t[i - Len(s)]
      /\ Len(s) \in Nat /\ Len(t) \in Nat
  OBVIOUS
<1>2. ASSUME NEW x \in Range(s) PROVE x \in Range(s \o t)
  BY <1>1, <1>2 DEF Range
<1>3. ASSUME NEW x \in Range(t) PROVE x \in Range(s \o t)
  <2>1. PICK i \in DOMAIN t : x = t[i]
    BY <1>3 DEF Range
  <2>2. i + Len(s) \in DOMAIN (s \o t) /\ (s \o t)[i + Len(s)] = t[i]
    BY <1>1, <2>1
  <2> QED BY <2>1, <2>2 DEF Range
<1>4. ASSUME NEW x \in Range(s \o t) PROVE x \in Range(s) \cup Range(t)
  BY <1>1, <1>4 DEF Range
<1> QED BY <1>1, <1>2, <1>3, <1>4

\* Ids of earlier episodes stay ids of the runtime.
LEMMA MadeGrows ==
  ASSUME NEW r \in Runtime, NEW q \in Runtime, q.ref = r.ref,
         r.serial <= q.serial
  PROVE  Made(r) \subseteq Made(q)
<1>1. 1..r.serial \subseteq 1..q.serial
  BY DEF Runtime
<1> QED BY <1>1 DEF Made

\* One call of the engine after another.
LEMMA ThenFollows ==
  ASSUME NEW r \in Runtime, NEW H, NEW x, NEW y, Follows(r, x, H),
         Follows(x.rt, y, H \cup Range(x.out)),
         NEW z, z.rt = y.rt, z.out = x.out \o y.out
  PROVE  Follows(r, z, H)
<1>1. /\ x.rt \in Runtime /\ y.rt \in Runtime
      /\ y.rt.ref = x.rt.ref /\ x.rt.ref = r.ref
      /\ r.serial <= x.rt.serial /\ x.rt.serial <= y.rt.serial
  BY DEF Follows
<1>2. Made(x.rt) \subseteq Made(y.rt)
  BY <1>1, MadeGrows
<1>3. x.out \in Seq(Made(y.rt)) /\ y.out \in Seq(Made(y.rt))
  <2>1. x.out \in Seq(Made(x.rt)) /\ y.out \in Seq(Made(y.rt))
    BY DEF Follows
  <2> QED BY <1>2, <2>1
<1>4. /\ x.out \o y.out \in Seq(Made(y.rt))
      /\ Range(x.out \o y.out) = Range(x.out) \cup Range(y.out)
  BY <1>3, RangeConcat
<1>5. (H \cup Range(x.out)) \cup Range(y.out)
        = H \cup Range(x.out \o y.out)
  BY <1>4
<1>6. Honest(y.rt, H \cup Range(x.out \o y.out))
  BY <1>5 DEF Follows
<1>7. r.serial <= y.rt.serial
  BY <1>1 DEF Runtime
<1> QED BY <1>1, <1>4, <1>6, <1>7 DEF Follows

ReasonsAt(l) == IF l = "BOUNDARY_REACHED" THEN {"boundary"}
                ELSE Branches \cup {"critical"}

\* An episode is opened once, under the next serial.
LEMMA EnsureFields ==
  ASSUME NEW r \in Runtime
  PROVE  /\ EnsureEpisode(r) \in Runtime
         /\ EnsureEpisode(r).ref = r.ref /\ EnsureEpisode(r).open
         /\ EnsureEpisode(r).serial =
              IF r.open THEN r.serial ELSE r.serial + 1
         /\ EnsureEpisode(r).level = r.level
         /\ EnsureEpisode(r).highest = r.highest
         /\ EnsureEpisode(r).bnd = r.bnd
<1> DEFINE q == EnsureEpisode(r)
           n == r.serial + 1
<1>1. CASE r.open
  BY <1>1 DEF EnsureEpisode
<1>2. CASE ~r.open
  <2>1. q = [r EXCEPT !.open = TRUE, !.serial = n] /\ n \in Nat
    BY <1>2 DEF EnsureEpisode, Runtime
  <2> HIDE DEF n, q
  <2>2. /\ q \in Runtime /\ q.ref = r.ref /\ q.open /\ q.serial = n
        /\ q.level = r.level /\ q.highest = r.highest /\ q.bnd = r.bnd
    BY <2>1 DEF Runtime
  <2> QED BY <1>2, <2>2 DEF n, q
<1> QED BY <1>1, <1>2

\* An alert opens the episode and carries its serial.
LEMMA EmitFields ==
  ASSUME NEW r \in Runtime, NEW l \in Alerts, NEW why \in ReasonsAt(l)
  PROVE  \E e \in Runtime :
         /\ e.ref = r.ref /\ e.open
         /\ e.serial = IF r.open THEN r.serial ELSE r.serial + 1
         /\ e.level = r.level /\ e.highest = l /\ e.bnd = r.bnd
         /\ Emit(r, l, why) = [rt |-> e, out |-> <<EventId(e, l, why)>>]
<1> DEFINE q == EnsureEpisode(r)
           e == [q EXCEPT !.highest = l, !.last[l] = 0]
<1>1. /\ q \in Runtime /\ q.ref = r.ref /\ q.open
      /\ q.serial = IF r.open THEN r.serial ELSE r.serial + 1
      /\ q.level = r.level /\ q.bnd = r.bnd
  BY EnsureFields
<1>2. Emit(r, l, why) = [rt |-> e, out |-> <<EventId(q, l, why)>>]
  BY DEF Emit
<1> HIDE DEF q
<1>3. [q.last EXCEPT ![l] = 0] \in [Alerts -> Int]
  BY <1>1 DEF Runtime
<1>4. /\ e \in Runtime /\ e.ref = q.ref /\ e.open = q.open
      /\ e.serial = q.serial /\ e.level = q.level /\ e.highest = l
      /\ e.bnd = q.bnd
  BY <1>1, <1>3 DEF Runtime
<1>5. EventId(q, l, why) = EventId(e, l, why)
  BY <1>4 DEF EventId
<1> HIDE DEF e
<1>6. Emit(r, l, why) = [rt |-> e, out |-> <<EventId(e, l, why)>>]
  BY <1>2, <1>5
<1> QED BY <1>1, <1>4, <1>6

\* An alert is enough for a runtime that owes nothing but this alert.
LEMMA EmitFollows ==
  ASSUME NEW o \in Runtime, NEW r \in Runtime, NEW l \in Alerts,
         NEW why \in ReasonsAt(l), NEW H,
         r.ref = o.ref, o.serial <= r.serial,
         r.open => r.serial >= 1,
         \/ l = "BOUNDARY_REACHED"
         \/ r.bnd => r.open /\ BoundaryOf(r) \in H,
         r.level = "URGENT" => l = "URGENT" \/ (r.open /\ Heard(r, H))
  PROVE  Follows(o, Emit(r, l, why), H)
<1>1. PICK e \in Runtime :
         /\ e.ref = r.ref /\ e.open
         /\ e.serial = IF r.open THEN r.serial ELSE r.serial + 1
         /\ e.level = r.level /\ e.highest = l /\ e.bnd = r.bnd
         /\ Emit(r, l, why) = [rt |-> e, out |-> <<EventId(e, l, why)>>]
  BY EmitFields
<1> DEFINE id == EventId(e, l, why)
<1>2. e.serial \in Nat /\ e.serial >= 1 /\ o.serial <= e.serial
  BY <1>1 DEF Runtime
<1>3. id \in Made(e)
  BY <1>1, <1>2 DEF Made, EventId, ReasonsAt, Alerts
<1>4. <<id>> \in Seq(Made(e)) /\ Range(<<id>>) = {id}
  BY <1>1, <1>3 DEF Range
<1>5. e.bnd => BoundaryOf(e) \in H \cup {id}
  <2>1. CASE l = "BOUNDARY_REACHED"
    BY <2>1 DEF BoundaryOf, ReasonsAt
  <2>2. CASE r.bnd => r.open /\ BoundaryOf(r) \in H
    BY <1>1, <2>2 DEF BoundaryOf, EventId
  <2> QED BY <2>1, <2>2
<1>6. e.level = "URGENT" \/ e.highest = "URGENT"
        => Heard(e, H \cup {id})
  <2>1. CASE l = "URGENT"
    <3>1. id.ref = e.ref /\ id.serial = e.serial /\ id.level = "URGENT"
      BY <2>1 DEF EventId
    <3> QED BY <3>1 DEF Heard
  <2>2. CASE l # "URGENT"
    BY <1>1, <2>2 DEF Heard
  <2> QED BY <2>1, <2>2
<1> HIDE DEF id
<1>7. Honest(e, H \cup {id})
  BY <1>1, <1>2, <1>5, <1>6 DEF Honest
<1>8. Follows(o, [rt |-> e, out |-> <<id>>], H)
  BY <1>1, <1>2, <1>4, <1>7 DEF Follows
<1> QED BY <1>1, <1>8 DEF id

-----------------------------------------------------------------------------
(* The functions of the engine, one by one.                                *)

\* bnd is set by the call that tells the boundary, and by no other.
LEMMA BoundaryFollows ==
  ASSUME NEW r \in Runtime, NEW H, Honest(r, H)
  PROVE  Follows(r, BoundaryFact(r), H)
<1> DEFINE q == EnsureEpisode(r)
           e == [q EXCEPT !.level = "BOUNDARY_REACHED"]
           b == [e EXCEPT !.bnd = TRUE]
<1>1. /\ q \in Runtime /\ q.ref = r.ref /\ q.open /\ q.bnd = r.bnd
      /\ q.serial = IF r.open THEN r.serial ELSE r.serial + 1
      /\ q.highest = r.highest
  BY EnsureFields
<1>2. q.serial >= 1 /\ r.serial <= q.serial
  BY <1>1 DEF Honest, Runtime
<1>3. r.bnd => q = r
  BY DEF Honest, EnsureEpisode
<1>4. BoundaryFact(r) = IF r.bnd /\ ~Over(r, "BOUNDARY_REACHED")
                        THEN Quiet(e)
                        ELSE Emit(b, "BOUNDARY_REACHED", "boundary")
  BY DEF BoundaryFact
<1> HIDE DEF q
<1>5. /\ e \in Runtime /\ e.ref = q.ref /\ e.open = q.open
      /\ e.serial = q.serial /\ e.level = "BOUNDARY_REACHED"
      /\ e.highest = q.highest /\ e.bnd = q.bnd
  BY <1>1 DEF Runtime, Levels
<1> HIDE DEF e
<1>6. /\ b \in Runtime /\ b.ref = e.ref /\ b.open = e.open
      /\ b.serial = e.serial /\ b.level = "BOUNDARY_REACHED"
  BY <1>5 DEF Runtime
<1> HIDE DEF b
<1>7. CASE r.bnd /\ ~Over(r, "BOUNDARY_REACHED")
  <2>1. Honest(e, H)
    BY <1>1, <1>2, <1>3, <1>5, <1>7 DEF Honest, BoundaryOf, EventId, Heard
  <2>2. Follows(r, Quiet(e), H)
    BY <1>1, <1>2, <1>5, <2>1, QuietFollows
  <2> QED BY <1>4, <1>7, <2>2
<1>8. CASE ~(r.bnd /\ ~Over(r, "BOUNDARY_REACHED"))
  <2>1. "BOUNDARY_REACHED" \in Alerts
        /\ "boundary" \in ReasonsAt("BOUNDARY_REACHED")
    BY DEF Alerts, ReasonsAt
  <2>2. Follows(r, Emit(b, "BOUNDARY_REACHED", "boundary"), H)
    BY <1>1, <1>2, <1>5, <1>6, <2>1, EmitFollows
  <2> QED BY <1>4, <1>8, <2>2
<1> QED BY <1>7, <1>8

LEMMA UrgentKinds ==
  /\ "URGENT" \in Alerts /\ "critical" \in ReasonsAt("URGENT")
  /\ "NOTICE" \in Alerts /\ ReasonsAt("NOTICE") = ReasonsAt("URGENT")
  /\ Branches \subseteq ReasonsAt("URGENT")
  /\ {"URGENT", "NOTICE"} \subseteq Levels
BY DEF Alerts, ReasonsAt, Levels

\* A critical fact makes the level urgent and says so, once an episode.
LEMMA CriticalFollows ==
  ASSUME NEW r \in Runtime, NEW H, Honest(r, H)
  PROVE  Follows(r, CriticalFact(r), H)
<1> DEFINE q == EnsureEpisode(r)
           e == [q EXCEPT !.crit = TRUE, !.level = "URGENT"]
<1>1. /\ q \in Runtime /\ q.ref = r.ref /\ q.open /\ q.bnd = r.bnd
      /\ q.serial = IF r.open THEN r.serial ELSE r.serial + 1
  BY EnsureFields
<1>2. q.serial >= 1 /\ r.serial <= q.serial
  BY <1>1 DEF Honest, Runtime
<1>3. r.bnd => q = r
  BY DEF Honest, EnsureEpisode
<1>4. CriticalFact(r) = IF r.crit THEN Quiet(r)
                        ELSE Emit(e, "URGENT", "critical")
  BY DEF CriticalFact
<1> HIDE DEF q
<1>5. /\ e \in Runtime /\ e.ref = q.ref /\ e.open = q.open
      /\ e.serial = q.serial /\ e.bnd = q.bnd
  BY <1>1 DEF Runtime, Levels
<1> HIDE DEF e
<1>6. Follows(r, Quiet(r), H)
  BY SilentFollows
<1>7. e.bnd => e.open /\ BoundaryOf(e) \in H
  BY <1>1, <1>3, <1>5 DEF Honest, BoundaryOf, EventId
<1>8. Follows(r, Emit(e, "URGENT", "critical"), H)
  BY <1>1, <1>2, <1>5, <1>7, UrgentKinds, EmitFollows
<1> QED BY <1>4, <1>6, <1>8

LEMMA FactFollows ==
  ASSUME NEW r \in Runtime, NEW H, Honest(r, H), NEW fact, NEW status
  PROVE  Follows(r, OnFact(r, fact, status), H)
<1>1. Follows(r, Quiet(r), H)
  BY SilentFollows
<1> QED BY <1>1, BoundaryFollows, CriticalFollows DEF OnFact

LEMMA RearmedHonest ==
  ASSUME NEW ref \in Nat, NEW serial \in Nat, NEW H
  PROVE  /\ Rearmed(ref, serial) \in Runtime
         /\ Rearmed(ref, serial).ref = ref
         /\ Rearmed(ref, serial).serial = serial
         /\ Honest(Rearmed(ref, serial), H)
BY DEF Rearmed, Runtime, Honest, Levels, Unset

\* A new reference starts without episode; the price may open one at once.
LEMMA SwitchFollows ==
  ASSUME NEW r \in Runtime, NEW ref \in Nat, NEW H, NEW price, NEW status
  PROVE  /\ Rearmed(ref, r.serial) \in Runtime
         /\ Rearmed(ref, r.serial).ref = ref
         /\ Rearmed(ref, r.serial).serial = r.serial
         /\ Follows(Rearmed(ref, r.serial),
                    SwitchReference(r, ref, price, status), H)
<1> DEFINE s == Rearmed(ref, r.serial)
<1>1. s \in Runtime /\ s.ref = ref /\ s.serial = r.serial /\ Honest(s, H)
  BY RearmedHonest DEF Runtime
<1>2. SwitchReference(r, ref, price, status) =
        IF price = "beyond" THEN OnFact(s, "boundary", status)
        ELSE IF price = "critical" THEN OnFact(s, "critical", status)
        ELSE Quiet(s)
  BY DEF SwitchReference
<1> HIDE DEF s
<1>3. Follows(s, Quiet(s), H)
  BY <1>1, SilentFollows
<1>4. \A f \in {"boundary", "critical"} : Follows(s, OnFact(s, f, status), H)
  BY <1>1, FactFollows
<1>5. Follows(s, SwitchReference(r, ref, price, status), H)
  BY <1>2, <1>3, <1>4
<1> QED BY <1>1, <1>5 DEF s

-----------------------------------------------------------------------------

LEMMA RepeatFollows ==
  ASSUME NEW r \in Runtime, NEW H, Honest(r, H), NEW price
  PROVE  Follows(r, BoundaryRepeat(r, price), H)
<1>1. Follows(r, Quiet(r), H)
  BY SilentFollows
<1>2. ASSUME r.bnd
      PROVE  Follows(r, Emit(r, "BOUNDARY_REACHED", "boundary"), H)
  <2>1. "BOUNDARY_REACHED" \in Alerts
        /\ "boundary" \in ReasonsAt("BOUNDARY_REACHED")
    BY DEF Alerts, ReasonsAt
  <2>2. r.serial <= r.serial /\ r.open /\ r.serial >= 1
        /\ (r.level = "URGENT" => r.open /\ Heard(r, H))
    BY <1>2 DEF Honest, Runtime
  <2> QED BY <2>1, <2>2, EmitFollows
<1> QED BY <1>1, <1>2 DEF BoundaryRepeat

\* A step of the engine that says nothing and leaves the episode alone.
LEMMA KeepsHonest ==
  ASSUME NEW r \in Runtime, NEW q, NEW H, Honest(r, H),
         q.ref = r.ref, q.serial = r.serial, q.open = r.open, q.bnd = r.bnd,
         q.level = r.level \/ q.level # "URGENT", q.highest = r.highest
  PROVE  Honest(q, H)
BY DEF Honest, BoundaryOf, EventId, Heard

\* A recovery forgets the episode, and with it what it owed.
LEMMA RecoveryHonest ==
  ASSUME NEW r \in Runtime, NEW H, Honest(r, H), NEW price, NEW preds
  PROVE  LET c == CheckRecovery(r, price, preds) IN
         c \in Runtime /\ c.ref = r.ref /\ c.serial = r.serial /\ Honest(c, H)
<1> DEFINE age == IF r.recovery = Unset THEN 0 ELSE r.recovery
           c == CheckRecovery(r, price, preds)
<1>1. ASSUME NEW a \in Int, NEW q, q = [r EXCEPT !.recovery = a]
      PROVE  q \in Runtime /\ q.ref = r.ref /\ q.serial = r.serial
             /\ Honest(q, H)
  <2>1. /\ q \in Runtime /\ q.ref = r.ref /\ q.serial = r.serial
        /\ q.open = r.open /\ q.bnd = r.bnd /\ q.level = r.level
        /\ q.highest = r.highest
    BY <1>1 DEF Runtime
  <2> QED BY <2>1, KeepsHonest
<1>2. LET q == Rearmed(r.ref, r.serial) IN
      q \in Runtime /\ q.ref = r.ref /\ q.serial = r.serial /\ Honest(q, H)
  BY RearmedHonest DEF Runtime
<1>3. age \in Int /\ Unset \in Int
  BY DEF Runtime, Unset
<1>4. \/ c = [r EXCEPT !.recovery = Unset] \/ c = [r EXCEPT !.recovery = age]
      \/ c = Rearmed(r.ref, r.serial)
  BY DEF CheckRecovery
<1> HIDE DEF age, c
<1>5. c \in Runtime /\ c.ref = r.ref /\ c.serial = r.serial /\ Honest(c, H)
  BY <1>1, <1>2, <1>3, <1>4
<1> QED BY <1>5 DEF c

LEMMA HoldsHonest ==
  ASSUME NEW r \in Runtime, NEW H, Honest(r, H),
         NEW h \in [Branches -> Int], NEW q, q = [r EXCEPT !.holds = h]
  PROVE  q \in Runtime /\ q.ref = r.ref /\ q.serial = r.serial /\ Honest(q, H)
<1>1. /\ q \in Runtime /\ q.ref = r.ref /\ q.serial = r.serial
      /\ q.open = r.open /\ q.bnd = r.bnd /\ q.level = r.level
      /\ q.highest = r.highest
  BY DEF Runtime
<1> QED BY <1>1, KeepsHonest

LEMMA LevelFields ==
  ASSUME NEW r \in Runtime, NEW l \in Levels, NEW q,
         q = [r EXCEPT !.level = l]
  PROVE  /\ q \in Runtime /\ q.ref = r.ref /\ q.serial = r.serial
         /\ q.open = r.open /\ q.bnd = r.bnd /\ q.level = l
         /\ q.highest = r.highest
BY DEF Runtime

\* Only an episode whose highest level is urgent may stay silent.
LEMMA UrgentFollows ==
  ASSUME NEW r \in Runtime, NEW H, Honest(r, H), NEW why \in Branches
  PROVE  Follows(r, UrgentEvents(r, why), H)
<1> DEFINE u == [r EXCEPT !.level = "URGENT"]
           s == [u EXCEPT !.sustained = TRUE]
<1>1. /\ u \in Runtime /\ u.ref = r.ref /\ u.serial = r.serial
      /\ u.open = r.open /\ u.bnd = r.bnd /\ u.level = "URGENT"
      /\ u.highest = r.highest
  BY UrgentKinds, LevelFields
<1>2. \/ /\ r.highest = "URGENT" /\ UrgentEvents(r, why) = Quiet(u)
      \/ UrgentEvents(r, why) = Emit(u, "URGENT", why)
      \/ UrgentEvents(r, why) = Emit(s, "URGENT", why)
  BY DEF UrgentEvents
<1> HIDE DEF u
<1>3. /\ s \in Runtime /\ s.ref = r.ref /\ s.serial = r.serial
      /\ s.open = r.open /\ s.bnd = r.bnd
  BY <1>1 DEF Runtime
<1> HIDE DEF s
<1>4. why \in ReasonsAt("URGENT") /\ "URGENT" \in Alerts
  BY UrgentKinds
<1>5. ASSUME NEW q \in {u, s} PROVE Follows(r, Emit(q, "URGENT", why), H)
  <2>1. /\ q \in Runtime /\ q.ref = r.ref /\ r.serial <= q.serial
        /\ q.open => q.serial >= 1
        /\ q.bnd => q.open /\ BoundaryOf(q) \in H
    BY <1>1, <1>3, <1>5 DEF Honest, BoundaryOf, EventId, Runtime
  <2> QED BY <1>4, <2>1, EmitFollows
<1>6. ASSUME r.highest = "URGENT" PROVE Follows(r, Quiet(u), H)
  <2>1. Honest(u, H) /\ r.serial <= u.serial
    BY <1>1, <1>6 DEF Honest, BoundaryOf, EventId, Heard, Runtime
  <2> QED BY <1>1, <2>1, QuietFollows
<1> QED BY <1>2, <1>5, <1>6

LEMMA NoticeFollows ==
  ASSUME NEW r \in Runtime, NEW H, Honest(r, H), Normal \in Branches
  PROVE  Follows(r, NoticeEvents(r), H)
<1> DEFINE n == [r EXCEPT !.level = "NOTICE"]
<1>1. /\ n \in Runtime /\ n.ref = r.ref /\ n.serial = r.serial
      /\ n.open = r.open /\ n.bnd = r.bnd /\ n.level = "NOTICE"
      /\ n.highest = r.highest
  BY UrgentKinds, LevelFields
<1>2. \/ NoticeEvents(r) = Quiet(n)
      \/ NoticeEvents(r) = Emit(n, "NOTICE", Normal)
  BY DEF NoticeEvents
<1> HIDE DEF n
<1>3. Normal \in ReasonsAt("NOTICE") /\ "NOTICE" \in Alerts
  BY UrgentKinds
<1>4. Honest(n, H) /\ r.serial <= n.serial
  BY <1>1, KeepsHonest DEF Runtime
<1>5. Follows(r, Quiet(n), H)
  BY <1>1, <1>4, QuietFollows
<1>6. /\ n.open => n.serial >= 1
      /\ n.bnd => n.open /\ BoundaryOf(n) \in H
      /\ n.level # "URGENT"
  BY <1>1, <1>4 DEF Honest
<1>7. Follows(r, Emit(n, "NOTICE", Normal), H)
  BY <1>1, <1>3, <1>4, <1>6, EmitFollows
<1> QED BY <1>2, <1>5, <1>7

\* The level becomes urgent through UrgentEvents only.
LEMMA FiringFollows ==
  ASSUME NEW r \in Runtime, NEW H, Honest(r, H), NEW price
  PROVE  Follows(r, ApplyFiring(r, price), H)
<1> DEFINE urgent == Firing(r) \ {Normal}
           l == IF price = "beyond" THEN "BOUNDARY_REACHED"
                ELSE IF \E b \in Branches : r.holds[b] # Unset
                THEN "CANDIDATE" ELSE "IDLE"
           d == [r EXCEPT !.level = l]
<1>1. Firing(r) \subseteq Branches
  BY DEF Firing
<1>2. l \in Levels \ {"URGENT"}
  BY DEF Levels
<1>3. Downgrade(r, price) = d
  BY DEF Downgrade
<1>4. \/ /\ urgent # {}
         /\ ApplyFiring(r, price)
              = UrgentEvents(r, CHOOSE b \in urgent : TRUE)
      \/ /\ Normal \in Firing(r) /\ ApplyFiring(r, price) = NoticeEvents(r)
      \/ ApplyFiring(r, price) = Quiet(d)
  BY <1>3 DEF ApplyFiring
<1> HIDE DEF l
<1>5. /\ d \in Runtime /\ d.ref = r.ref /\ d.serial = r.serial
      /\ d.open = r.open /\ d.bnd = r.bnd /\ d.level = l
      /\ d.highest = r.highest
  BY <1>2, LevelFields
<1> HIDE DEF d
<1>6. Honest(d, H) /\ r.serial <= d.serial
  BY <1>2, <1>5, KeepsHonest DEF Runtime
<1>7. Follows(r, Quiet(d), H)
  BY <1>5, <1>6, QuietFollows
<1>8. ASSUME urgent # {}
      PROVE  Follows(r, UrgentEvents(r, CHOOSE b \in urgent : TRUE), H)
  <2>1. (CHOOSE b \in urgent : TRUE) \in Branches
    BY <1>1, <1>8
  <2> QED BY <2>1, UrgentFollows
<1>9. ASSUME Normal \in Firing(r) PROVE Follows(r, NoticeEvents(r), H)
  BY <1>1, <1>9, NoticeFollows
<1> QED BY <1>4, <1>7, <1>8, <1>9

-----------------------------------------------------------------------------
(* A second of the engine.                                                 *)

\* A result in runtime q is one in r, if reference and serial agree.
LEMMA SaidFollows ==
  ASSUME NEW r \in Runtime, NEW q \in Runtime, NEW x, NEW H,
         q.ref = r.ref, q.serial = r.serial, Follows(q, x, H)
  PROVE  Follows(r, x, H)
BY DEF Follows

LEMMA EvaluateFollows ==
  ASSUME NEW r \in Runtime, NEW H, Honest(r, H), NEW price, NEW preds
  PROVE  Follows(r, Evaluate(r, price, preds), H)
<1> DEFINE c == CheckRecovery(r, price, preds)
           h == [b \in Branches |-> IF b \notin preds THEN Unset
                   ELSE IF c.holds[b] = Unset THEN 0 ELSE c.holds[b]]
           u == UpdateHolds(c, preds)
<1>1. c \in Runtime /\ c.ref = r.ref /\ c.serial = r.serial /\ Honest(c, H)
  BY RecoveryHonest
<1>2. Evaluate(r, price, preds) =
        IF ~c.open /\ preds = {} THEN Quiet(c) ELSE ApplyFiring(u, price)
  BY DEF Evaluate
<1>3. u = [c EXCEPT !.holds = h]
  BY DEF UpdateHolds
<1> HIDE DEF c, u
<1>4. h \in [Branches -> Int]
  BY <1>1 DEF Runtime, Unset
<1> HIDE DEF h
<1>5. u \in Runtime /\ u.ref = c.ref /\ u.serial = c.serial /\ Honest(u, H)
  BY <1>1, <1>3, <1>4, HoldsHonest
<1>6. Follows(u, ApplyFiring(u, price), H)
  BY <1>5, FiringFollows
<1>7. Follows(c, Quiet(c), H)
  BY <1>1, SilentFollows
<1> QED BY <1>1, <1>2, <1>5, <1>6, <1>7, SaidFollows

\* on_second as a whole.
LEMMA SecondFollows ==
  ASSUME NEW r \in Runtime, NEW H, Honest(r, H), NEW status, NEW degraded,
         NEW price, NEW preds
  PROVE  Follows(r, OnSecond(r, status, degraded, price, preds), H)
<1> DEFINE b == BoundaryRepeat(r, price)
           none == [x \in Branches |-> Unset]
           i == [b.rt EXCEPT !.recovery = Unset]
           f == [i EXCEPT !.holds = none]
           v == IF degraded \/ status # "VALID" \/ price = Unknown
                THEN Quiet(f) ELSE Evaluate(b.rt, price, preds)
           G == H \cup Range(b.out)
<1>1. Follows(r, b, H)
  BY RepeatFollows
<1>2. OnSecond(r, status, degraded, price, preds)
        = [rt |-> v.rt, out |-> b.out \o v.out]
  BY DEF OnSecond
<1> HIDE DEF b
<1>3. b.rt \in Runtime /\ Honest(b.rt, G)
  BY <1>1 DEF Follows
<1>4. none \in [Branches -> Int]
  BY DEF Unset
<1> HIDE DEF none
<1>5. /\ i \in Runtime /\ i.ref = b.rt.ref /\ i.serial = b.rt.serial
      /\ i.open = b.rt.open /\ i.bnd = b.rt.bnd /\ i.level = b.rt.level
      /\ i.highest = b.rt.highest
  BY <1>3 DEF Runtime, Unset
<1>6. Honest(i, G)
  BY <1>3, <1>5, KeepsHonest
<1> HIDE DEF i, G
<1>7. f \in Runtime /\ f.ref = i.ref /\ f.serial = i.serial /\ Honest(f, G)
  BY <1>4, <1>5, <1>6, HoldsHonest
<1> HIDE DEF f
<1>8. Follows(f, Quiet(f), G)
  BY <1>7, SilentFollows
<1>9. Follows(b.rt, Quiet(f), G)
  BY <1>3, <1>5, <1>7, <1>8, SaidFollows
<1>10. Follows(b.rt, v, G)
  BY <1>3, <1>9, EvaluateFollows
<1> HIDE DEF v
<1>11. Follows(b.rt, v, H \cup Range(b.out))
  BY <1>10 DEF G
<1> DEFINE res == [rt |-> v.rt, out |-> b.out \o v.out]
<1>12. res.rt = v.rt /\ res.out = b.out \o v.out
  OBVIOUS
<1> HIDE DEF res
<1>13. Follows(r, res, H)
  BY <1>1, <1>11, <1>12, ThenFollows
<1> QED BY <1>2, <1>13 DEF res

-----------------------------------------------------------------------------
(* Induction over the natural numbers, as a statement about sets.          *)

LEMMA NatInductive ==
  ASSUME NEW T \in SUBSET Nat, 0 \in T, \A n \in T : n + 1 \in T
  PROVE  T = Nat
<1> DEFINE R == OpToRel(<, Nat)
           M == Nat \ T
<1>1. IsWellFoundedOn(R, Nat)
  BY NatLessThanWellFounded
<1>2. \A x, y \in Nat : x < y => <<x, y>> \in R
  BY DEF OpToRel
<1> HIDE DEF R
<1>3. SUFFICES ASSUME M # {} PROVE FALSE
  OBVIOUS
<1>4. M \subseteq Nat
  OBVIOUS
<1> HIDE DEF M
<1>5. PICK m \in M : \A y \in M : ~ (<<y, m>> \in R)
  BY <1>1, <1>3, <1>4, WFMin
<1> USE DEF M
<1>6. m \in Nat /\ m # 0 /\ m - 1 \in Nat /\ m - 1 < m
  OBVIOUS
<1>7. m - 1 \in T
  BY <1>2, <1>5, <1>6
<1> QED BY <1>6, <1>7

\* The trades of EmitFacts, one after the other.
LEMMA EmitFactsRun ==
  ASSUME NEW r, NEW before, NEW trades, Len(trades) \in Nat, NEW status
  PROVE  \E run :
           /\ run[0] = [rt |-> r, out |-> <<>>, scanned |-> before]
           /\ \A n \in 1..Len(trades) :
                run[n] = Reported(run[n - 1], trades[n], status)
           /\ EmitFacts(r, before, trades, status) = run[Len(trades)]
<1> DEFINE base == [rt |-> r, out |-> <<>>, scanned |-> before]
           Upto(m) ==
             \E run : run = [n \in 0..m |-> IF n = 0 THEN base
                               ELSE Reported(run[n - 1], trades[n], status)]
           T == {m \in Nat : Upto(m)}
<1>1. Upto(0)
  <2> DEFINE run == [n \in 0..0 |-> base]
  <2>1. run = [n \in 0..0 |-> IF n = 0 THEN base
                 ELSE Reported(run[n - 1], trades[n], status)]
    OBVIOUS
  <2> QED BY <2>1
<1>2. ASSUME NEW m \in Nat, Upto(m) PROVE Upto(m + 1)
  <2>1. PICK run : run = [n \in 0..m |-> IF n = 0 THEN base
                            ELSE Reported(run[n - 1], trades[n], status)]
    BY <1>2
  <2> DEFINE more == [n \in 0..(m + 1) |->
                        IF n <= m THEN run[n]
                        ELSE Reported(run[m], trades[m + 1], status)]
  <2>2. \A n \in 0..(m + 1) :
          more[n] = IF n = 0 THEN base
                    ELSE Reported(more[n - 1], trades[n], status)
    <3> TAKE n \in 0..(m + 1)
    <3>1. CASE n = 0
      BY <2>1, <3>1
    <3>2. CASE n \in 1..m
      <4>1. run[n] = Reported(run[n - 1], trades[n], status)
        BY <2>1, <3>2
      <4>2. more[n] = run[n] /\ more[n - 1] = run[n - 1]
        BY <3>2
      <4> QED BY <3>2, <4>1, <4>2
    <3>3. CASE n = m + 1
      BY <3>3
    <3> QED BY <3>1, <3>2, <3>3
  <2>3. more = [n \in 0..(m + 1) |-> IF n = 0 THEN base
                  ELSE Reported(more[n - 1], trades[n], status)]
    BY <2>2
  <2> QED BY <2>3
<1> HIDE DEF Upto
<1>3. 0 \in T /\ T \in SUBSET Nat /\ \A m \in T : m + 1 \in T
  BY <1>1, <1>2
<1>4. \A m \in Nat : m \in T => Upto(m)
  OBVIOUS
<1> HIDE DEF T
<1>5. T = Nat
  BY <1>3, NatInductive
<1>6. Upto(Len(trades))
  BY <1>4, <1>5
<1> DEFINE run == CHOOSE run : run = [n \in 0..Len(trades) |->
                    IF n = 0 THEN [rt |-> r, out |-> <<>>, scanned |-> before]
                    ELSE Reported(run[n - 1], trades[n], status)]
<1>7. EmitFacts(r, before, trades, status) = run[Len(trades)]
  BY DEF EmitFacts
<1>8. run = [n \in 0..Len(trades) |->
               IF n = 0 THEN [rt |-> r, out |-> <<>>, scanned |-> before]
               ELSE Reported(run[n - 1], trades[n], status)]
  BY <1>6 DEF Upto
<1> HIDE DEF run
<1>9. /\ run[0] = [rt |-> r, out |-> <<>>, scanned |-> before]
      /\ \A n \in 1..Len(trades) :
           run[n] = Reported(run[n - 1], trades[n], status)
  BY <1>8
<1> QED BY <1>7, <1>9

-----------------------------------------------------------------------------
(* A tick: all the trades, and the health monitor.                         *)

\* Any number of trades, by induction over how many were fed.
LEMMA TradesFollow ==
  ASSUME NEW r \in Runtime, NEW H, Honest(r, H), NEW before \in Places,
         NEW trades \in Seq(Regions), NEW status
  PROVE  /\ Follows(r, EmitFacts(r, before, trades, status), H)
         /\ EmitFacts(r, before, trades, status).scanned \in Places
<1> DEFINE N == Len(trades)
<1>1. N \in Nat /\ \A n \in 1..N : trades[n] \in Regions
  OBVIOUS
<1>2. PICK run :
        /\ run[0] = [rt |-> r, out |-> <<>>, scanned |-> before]
        /\ \A n \in 1..N : run[n] = Reported(run[n - 1], trades[n], status)
        /\ EmitFacts(r, before, trades, status) = run[N]
  BY <1>1, EmitFactsRun
<1> DEFINE Sound(n) == Follows(r, run[n], H) /\ run[n].scanned \in Places
           T == {n \in Nat : n <= N => Sound(n)}
<1>3. Sound(0)
  <2>1. /\ run[0].rt = r /\ run[0].out = <<>> /\ run[0].scanned = before
        /\ Quiet(r).rt = r /\ Quiet(r).out = <<>>
    BY <1>2 DEF Quiet
  <2>2. Follows(r, Quiet(r), H)
    BY SilentFollows
  <2> QED BY <2>1, <2>2 DEF Follows
<1>4. ASSUME NEW n \in Nat, n + 1 <= N, Sound(n) PROVE Sound(n + 1)
  <2> DEFINE a == run[n]
             p == trades[n + 1]
             y == OnFact(a.rt, FactOf(a.scanned, p), status)
             z == run[n + 1]
  <2>1. n + 1 \in 1..N /\ (n + 1) - 1 = n
    BY <1>1, <1>4
  <2>2. z = Reported(a, p, status) /\ p \in Regions
    BY <1>1, <1>2, <2>1
  <2>3. Follows(r, a, H) /\ a.rt \in Runtime
        /\ Honest(a.rt, H \cup Range(a.out))
    BY <1>4 DEF Follows
  <2> HIDE DEF a, z, p
  <2>4. Follows(a.rt, y, H \cup Range(a.out))
    BY <2>3, FactFollows
  <2>5. z.rt = y.rt /\ z.out = a.out \o y.out /\ z.scanned = p
    BY <2>2 DEF Reported
  <2> HIDE DEF y
  <2>6. Follows(r, z, H)
    BY <2>3, <2>4, <2>5, ThenFollows
  <2> QED BY <2>2, <2>5, <2>6 DEF z, Places
<1> HIDE DEF Sound
<1>5. 0 \in T /\ T \in SUBSET Nat /\ \A n \in T : n + 1 \in T
  BY <1>1, <1>3, <1>4
<1>6. \A n \in Nat : n \in T => (n <= N => Sound(n))
  OBVIOUS
<1> HIDE DEF T
<1>7. T = Nat
  BY <1>5, NatInductive
<1>8. N \in Nat /\ N <= N
  BY <1>1
<1>9. Sound(N)
  BY <1>6, <1>7, <1>8
<1> QED BY <1>2, <1>9 DEF Sound

LEMMA ElapseHonest ==
  ASSUME NEW r \in Runtime, NEW H, Honest(r, H)
  PROVE  /\ Elapse(r) \in Runtime /\ Elapse(r).ref = r.ref
         /\ Elapse(r).serial = r.serial /\ Honest(Elapse(r), H)
<1> DEFINE h == [b \in Branches |-> Age(r.holds[b], HoldFor[b])]
           l == [k \in Alerts |-> Age(r.last[k], Every[k])]
           a == Age(r.recovery, RecoverAfter)
           e == [r EXCEPT !.holds = h, !.last = l, !.recovery = a]
<1>1. Elapse(r) = e
  BY DEF Elapse
<1>2. \A x \in Int : \A y : Age(x, y) \in Int
  BY DEF Age
<1>3. h \in [Branches -> Int] /\ l \in [Alerts -> Int] /\ a \in Int
  BY <1>2 DEF Runtime
<1> HIDE DEF h, l, a
<1>4. /\ e \in Runtime /\ e.ref = r.ref /\ e.serial = r.serial
      /\ e.open = r.open /\ e.bnd = r.bnd /\ e.level = r.level
      /\ e.highest = r.highest
  BY <1>3 DEF Runtime
<1> HIDE DEF e
<1> QED BY <1>1, <1>4, KeepsHonest

LEMMA HonestGrows ==
  ASSUME NEW r, NEW H, NEW G, H \subseteq G, Honest(r, H)
  PROVE  Honest(r, G)
BY DEF Honest, Heard

\* What a tick makes of the runtime, and what it hands over.
LEMMA EvaluatedFollows ==
  ASSUME NEW H, rt \in Runtime, Honest(rt, H), scanned \in Places,
         latest' \in Nat, NEW in,
         in.before \in Seq(Regions), in.same \in Seq(Regions)
  PROVE  /\ Evaluated(in).rt \in Runtime /\ Evaluated(in).scanned \in Places
         /\ Honest(Evaluated(in).rt, H \cup Range(Evaluated(in).out))
         /\ IF Tracked(in.status)
            THEN /\ Evaluated(in).rt.ref = latest'
                 /\ Evaluated(in).out \in Seq(Made(Evaluated(in).rt))
            ELSE /\ Evaluated(in).rt.ref = rt.ref
                 /\ Evaluated(in).rt.serial = rt.serial
                 /\ Evaluated(in).out = IF in.crossed
                      THEN <<HistoricalId(latest')>> ELSE <<>>
<1> DEFINE old == Elapse(rt)
           switched == Tracked(in.status) /\ latest' # old.ref
           trades == in.before \o in.same \o in.after
           last == IF trades = <<>> THEN Unknown ELSE Last(trades)
           s0 == IF switched THEN Rearmed(latest', old.serial) ELSE old
           s == IF switched
                THEN SwitchReference(old, latest', last, in.status)
                ELSE Quiet(old)
           at == IF switched THEN Unknown ELSE scanned
           f == EmitFacts(s.rt, at, in.before, in.status)
           v == OnSecond(f.rt, in.status, in.degraded, in.price, in.preds)
           g == EmitFacts(v.rt, f.scanned, in.same, in.status)
           E == Evaluated(in)
<1>1. /\ old \in Runtime /\ old.ref = rt.ref /\ old.serial = rt.serial
      /\ Honest(old, H)
  BY ElapseHonest
<1>2. E = IF Tracked(in.status)
          THEN [rt |-> g.rt, scanned |-> g.scanned,
                out |-> s.out \o f.out \o v.out \o g.out]
          ELSE [rt |-> old, scanned |-> scanned,
                out |-> IF in.crossed THEN <<HistoricalId(latest')>>
                        ELSE <<>>]
  BY DEF Evaluated
<1> HIDE DEF E, old, last
<1>3. CASE ~Tracked(in.status)
  <2>1. /\ E.rt = old /\ E.scanned = scanned
        /\ E.out = IF in.crossed THEN <<HistoricalId(latest')>> ELSE <<>>
    BY <1>2, <1>3
  <2>2. H \subseteq H \cup Range(E.out)
    OBVIOUS
  <2>3. Honest(old, H \cup Range(E.out))
    BY <1>1, <2>2, HonestGrows
  <2> QED BY <1>1, <1>3, <2>1, <2>3 DEF E
<1>4. CASE Tracked(in.status)
  <2>1. at \in Places
    BY DEF Places
  <2>2. s0 \in Runtime /\ s0.ref = latest' /\ Follows(s0, s, H)
    <3>1. CASE switched
      <4>1. /\ Rearmed(latest', old.serial) \in Runtime
            /\ Rearmed(latest', old.serial).ref = latest'
            /\ Follows(Rearmed(latest', old.serial),
                       SwitchReference(old, latest', last, in.status), H)
        BY <1>1, SwitchFollows
      <4> QED BY <3>1, <4>1
    <3>2. CASE ~switched
      <4>1. Follows(old, Quiet(old), H)
        BY <1>1, SilentFollows
      <4> QED BY <1>1, <1>4, <3>2, <4>1
    <3> QED BY <3>1, <3>2
  <2> HIDE DEF s0, s, at, switched
  <2>3. s.rt \in Runtime /\ Honest(s.rt, H \cup Range(s.out))
    BY <2>2 DEF Follows
  <2>4. Follows(s.rt, f, H \cup Range(s.out)) /\ f.scanned \in Places
    BY <2>1, <2>3, TradesFollow
  <2> HIDE DEF f
  <2> DEFINE x == [rt |-> f.rt, out |-> s.out \o f.out]
  <2>5. x.rt = f.rt /\ x.out = s.out \o f.out
    OBVIOUS
  <2> HIDE DEF x
  <2>6. Follows(s0, x, H)
    BY <2>2, <2>4, <2>5, ThenFollows
  <2>7. x.rt \in Runtime /\ Honest(x.rt, H \cup Range(x.out))
    BY <2>6 DEF Follows
  <2>8. Follows(x.rt, v, H \cup Range(x.out))
    BY <2>5, <2>7, SecondFollows
  <2> HIDE DEF v
  <2> DEFINE y == [rt |-> v.rt, out |-> x.out \o v.out]
  <2>9. y.rt = v.rt /\ y.out = x.out \o v.out
    OBVIOUS
  <2> HIDE DEF y
  <2>10. Follows(s0, y, H)
    BY <2>2, <2>6, <2>8, <2>9, ThenFollows
  <2>11. y.rt \in Runtime /\ Honest(y.rt, H \cup Range(y.out))
    BY <2>10 DEF Follows
  <2>12. Follows(y.rt, g, H \cup Range(y.out)) /\ g.scanned \in Places
    BY <2>4, <2>9, <2>11, TradesFollow
  <2> HIDE DEF g
  <2>13. E.rt = g.rt /\ E.out = y.out \o g.out /\ E.scanned = g.scanned
    BY <1>2, <1>4, <2>5, <2>9
  <2>14. Follows(s0, E, H)
    BY <2>2, <2>10, <2>12, <2>13, ThenFollows
  <2> QED BY <1>4, <2>2, <2>12, <2>13, <2>14 DEF E, Follows
<1> QED BY <1>3, <1>4

-----------------------------------------------------------------------------

\* A finite set can be listed.
LEMMA SeqOfSet ==
  ASSUME NEW S, IsFiniteSet(S)
  PROVE  SetToSeq(S) \in Seq(S)
<1>1. Cardinality(S) \in Nat /\ ExistsBijection(1..Cardinality(S), S)
  BY FS_CardinalityType
<1>2. \E f \in [1..Cardinality(S) -> S] : IsInjective(f)
  BY <1>1 DEF ExistsBijection, Bijection, Injection, IsInjective
<1>3. SetToSeq(S) \in [1..Cardinality(S) -> S]
  BY <1>2 DEF SetToSeq
<1> QED BY <1>1, <1>3

LEMMA HealthHanded ==
  ASSUME NEW reasons \in SUBSET Reasons, active \subseteq Reasons
  PROVE  HealthEvents(reasons) \in Seq(HealthIds)
<1> DEFINE began == reasons \ active
           ended == active \ reasons
           B == {HealthId(0, r) : r \in began}
           E == {HealthId(1, r) : r \in ended}
<1>1. IsFiniteSet(Reasons)
  <2>1. IsFiniteSet({"feed_interrupted"})
    BY FS_Singleton
  <2>2. IsFiniteSet({"feed_interrupted"} \cup {"sync_uncertain"})
    BY <2>1, FS_AddElement
  <2>3. IsFiniteSet({"feed_interrupted", "sync_uncertain"}
                    \cup {"reference_no_active"})
    BY <2>2, FS_AddElement
  <2> QED BY <2>3, FS_AddElement DEF Reasons
<1>2. IsFiniteSet(began) /\ IsFiniteSet(ended)
  BY <1>1, FS_Subset
<1>3. IsFiniteSet(B)
  <2> DEFINE m == [r \in began |-> HealthId(0, r)]
  <2>1. m \in Surjection(began, B)
    BY DEF Surjection
  <2> QED BY <1>2, <2>1, FS_Surjection
<1>4. IsFiniteSet(E)
  <2> DEFINE m == [r \in ended |-> HealthId(1, r)]
  <2>1. m \in Surjection(ended, E)
    BY DEF Surjection
  <2> QED BY <1>2, <2>1, FS_Surjection
<1>5. SetToSeq(B \cup E) \in Seq(B \cup E)
  BY <1>3, <1>4, FS_Union, SeqOfSet
<1>6. B \cup E \subseteq HealthIds
  BY DEF HealthIds
<1>7. HealthEvents(reasons) = SetToSeq(B \cup E)
  BY DEF HealthEvents
<1> HIDE DEF B, E
<1> QED BY <1>5, <1>6, <1>7

-----------------------------------------------------------------------------
(* The inductive invariant of the process.                                 *)

EngineInv ==
  /\ rt \in Runtime /\ rt.ref <= MaxRefs /\ rt.serial <= MaxSerial
  /\ Honest(rt, Range(todo) \cup DOMAIN event)
  /\ scanned \in Places /\ sample \in Places
  /\ active \subseteq Reasons /\ latest \in 0..MaxRefs

QueueInv ==
  /\ pc \in {"idle", "record", "row", "pump", "mark", "down"}
  /\ todo \in Seq(Ids) /\ known \subseteq Ids
  /\ pc = "row" => todo # <<>> /\ Id \in DOMAIN event
  /\ pc \notin {"record", "row"} => todo = <<>>

PumpInv ==
  /\ rows \subseteq DOMAIN outbox
  /\ pc \notin {"pump", "mark"} => rows = {}
  /\ late \in 0..MaxLate
  /\ IF pc = "mark" THEN sending \in [id : rows, outcome : Outcomes]
     ELSE sending = NoRow

TableInv ==
  /\ outbox \in [DOMAIN outbox -> Row]
  /\ DOMAIN outbox \subseteq DOMAIN event /\ DOMAIN event \subseteq Ids
  /\ told \subseteq DOMAIN outbox
  /\ crashes \in Nat
  /\ crashes = 0 => \A e \in DOMAIN event :
                      e \in DOMAIN outbox \/ (pc = "row" /\ e = Id)

AlertsInv == EngineInv /\ QueueInv /\ PumpInv /\ TableInv

LEMMA AlertsInvSuffices ==
  AlertsInv => TypeOK /\ BoundaryRecorded /\ EscalationHeard
<1> SUFFICES ASSUME AlertsInv
             PROVE  TypeOK /\ BoundaryRecorded /\ EscalationHeard
  OBVIOUS
<1>1. TypeOK
  <2>1. /\ rt.ref \in 0..MaxRefs /\ rt.serial \in 0..MaxSerial
        /\ rt.level \in Levels /\ rt.highest \in {"IDLE"} \cup Alerts
        /\ rt.open \in BOOLEAN
        /\ scanned \in Regions \cup {Unknown}
        /\ sample \in Regions \cup {Unknown}
        /\ active \subseteq Reasons
    <3>1. MaxRefs \in Nat /\ MaxSerial \in Nat
      BY AlertsAssumption
    <3> QED BY <3>1 DEF AlertsInv, EngineInv, Runtime, Places
  <2>2. /\ known \subseteq Ids /\ todo \in Seq(Ids)
        /\ pc \in {"idle", "record", "row", "pump", "mark", "down"}
        /\ rows \subseteq DOMAIN outbox
        /\ sending = NoRow \/ sending \in [id : rows, outcome : Outcomes]
        /\ late \in 0..MaxLate /\ DOMAIN event \subseteq Ids
        /\ outbox \in [DOMAIN outbox -> Row]
        /\ DOMAIN outbox \subseteq DOMAIN event
        /\ told \subseteq DOMAIN outbox
    BY DEF AlertsInv, QueueInv, PumpInv, TableInv
  <2> QED BY <2>1, <2>2 DEF TypeOK
<1>2. ASSUME Recorded
      PROVE  todo = <<>> /\ Range(todo) = {} /\ pc # "row"
  BY <1>2 DEF AlertsInv, QueueInv, Recorded, Range
<1>3. ASSUME Recorded PROVE Honest(rt, DOMAIN event)
  <2>1. Range(todo) \cup DOMAIN event = DOMAIN event
    BY <1>2, <1>3
  <2>2. Honest(rt, Range(todo) \cup DOMAIN event)
    BY DEF AlertsInv, EngineInv
  <2> QED BY <2>1, <2>2
<1>4. ASSUME Recorded, rt.bnd
      PROVE  /\ BoundaryId \in DOMAIN event
             /\ BoundaryId \in DOMAIN outbox \/ crashes > 0
  <2>1. BoundaryId \in DOMAIN event
    BY <1>3, <1>4 DEF Honest, BoundaryOf, BoundaryId
  <2>2. crashes \in Nat /\ (crashes = 0 => BoundaryId \in DOMAIN outbox)
    BY <1>2, <1>4, <2>1 DEF AlertsInv, TableInv
  <2> QED BY <2>1, <2>2
<1>5. ASSUME Recorded, rt.level = "URGENT" PROVE Heard(rt, DOMAIN event)
  BY <1>3, <1>5 DEF Honest
<1> QED BY <1>1, <1>4, <1>5 DEF BoundaryRecorded, EscalationHeard, Heard

LEMMA InitAlertsInv == Init => AlertsInv
<1> SUFFICES ASSUME Init PROVE AlertsInv
  OBVIOUS
<1>1. EngineInv
  <2>1. /\ rt \in Runtime /\ rt.ref = 0 /\ rt.serial = 0
        /\ Honest(rt, Range(todo) \cup DOMAIN event)
    BY RearmedHonest DEF Init
  <2> QED BY <2>1, AlertsAssumption DEF Init, EngineInv, Places
<1>2. QueueInv /\ PumpInv
  BY AlertsAssumption DEF Init, QueueInv, PumpInv
<1>3. TableInv
  BY DEF Init, TableInv
<1> QED BY <1>1, <1>2, <1>3 DEF AlertsInv

\* Ids of the engine are ids of the tables, within the bounds.
LEMMA MadeAreIds ==
  ASSUME NEW r \in Runtime, r.ref \in 1..MaxRefs, r.serial <= MaxSerial
  PROVE  Made(r) \subseteq Ids
<1>1. 1..r.serial \subseteq 1..MaxSerial
  BY AlertsAssumption DEF Runtime
<1> QED BY <1>1 DEF Made, Ids, FactIds, AdviceIds, BoundaryIds

LEMMA ElapsedRow ==
  ASSUME NEW row \in Row PROVE ElapseRow(row) \in Row
<1> DEFINE l == IF row.left = NoTtl \/ row.left <= LongOver THEN row.left
                ELSE row.left - 1
           w == IF row.wait = 0 THEN 0 ELSE row.wait - 1
<1>1. ElapseRow(row) = IF row.status \notin Waiting THEN row
                       ELSE [row EXCEPT !.left = l, !.wait = w]
  BY DEF ElapseRow
<1>2. l \in (LongOver..TTL) \cup {NoTtl} /\ w \in 0..MaxWait
  <2>1. LongOver \in Int
    BY AlertsAssumption DEF LongOver
  <2> QED BY <2>1, AlertsAssumption DEF Row
<1> HIDE DEF l, w
<1> QED BY <1>1, <1>2 DEF Row

LEMMA ElapsedTable ==
  ASSUME TableInv, ElapseRows
  PROVE  DOMAIN outbox' = DOMAIN outbox /\ outbox' \in [DOMAIN outbox' -> Row]
<1>1. \A i \in DOMAIN outbox : ElapseRow(outbox[i]) \in Row
  BY ElapsedRow DEF TableInv
<1> QED BY <1>1 DEF ElapseRows

\* A tick pays what its engine owes with the events it hands over.
LEMMA ProcessAlertsInv ==
  ASSUME AlertsInv, pc = "idle", NEW in, Process(in),
         latest' \in 0..MaxRefs,
         in.before \in Seq(Regions), in.same \in Seq(Regions),
         in.price \in Places,
         Tracked(in.status) \/ in.crossed => latest' > 0
  PROVE  AlertsInv'
<1> DEFINE E == Evaluated(in)
           H == Range(todo) \cup DOMAIN event
<1>1. /\ rt \in Runtime /\ Honest(rt, H) /\ scanned \in Places
      /\ latest' \in Nat /\ MaxRefs \in Nat /\ MaxSerial \in Nat
      /\ todo = <<>> /\ active \subseteq Reasons
  BY AlertsAssumption DEF AlertsInv, EngineInv, QueueInv
<1>2. /\ E.rt \in Runtime /\ E.scanned \in Places
      /\ Honest(E.rt, H \cup Range(E.out))
      /\ IF Tracked(in.status)
         THEN E.rt.ref = latest' /\ E.out \in Seq(Made(E.rt))
         ELSE /\ E.rt.ref = rt.ref
              /\ E.out = IF in.crossed THEN <<HistoricalId(latest')>>
                         ELSE <<>>
  BY <1>1, EvaluatedFollows
<1>3. /\ E.rt.serial <= MaxSerial /\ rt' = E.rt /\ scanned' = E.scanned
      /\ sample' = in.price /\ active' = ReasonsOf(in.status, in.degraded)
      /\ todo' = E.out \o HealthEvents(active')
      /\ ElapseRows /\ pc' = "record"
      /\ UNCHANGED <<known, rows, sending, late, event, told, crashes>>
  BY DEF Process, pump
<1> HIDE DEF E
<1>4. E.out \in Seq(Ids)
  <2> DEFINE h == HistoricalId(latest')
  <2>1. CASE Tracked(in.status)
    <3>1. latest' \in 1..MaxRefs
      BY <1>1, <2>1
    <3>2. Made(E.rt) \subseteq Ids
      BY <1>2, <1>3, <2>1, <3>1, MadeAreIds
    <3> QED BY <1>2, <2>1, <3>2
  <2>2. CASE ~Tracked(in.status)
    <3>1. in.crossed => h \in Ids
      BY <1>1, <2>2 DEF Ids, FactIds, HistoricalIds
    <3>2. E.out = IF in.crossed THEN <<h>> ELSE <<>>
      BY <1>2, <2>2
    <3> HIDE DEF h
    <3>3. CASE in.crossed
      <4>1. E.out = <<h>>
        BY <3>2, <3>3, Zenon
      <4> QED BY <3>1, <3>3, <4>1
    <3>4. CASE ~in.crossed
      <4>1. E.out = <<>>
        BY <3>2, <3>4, Zenon
      <4> QED BY <4>1
    <3> QED BY <3>3, <3>4
  <2> QED BY <2>1, <2>2
<1>5. active' \subseteq Reasons
  BY <1>3 DEF ReasonsOf, Reasons
<1>6. HealthEvents(active') \in Seq(Ids)
  <2>1. HealthEvents(active') \in Seq(HealthIds)
    BY <1>1, <1>5, HealthHanded
  <2>2. HealthIds \subseteq Ids
    BY DEF Ids
  <2> QED BY <2>1, <2>2
<1>7. todo' \in Seq(Ids) /\ Range(E.out) \subseteq Range(todo')
  BY <1>3, <1>4, <1>6, RangeConcat
<1>8. EngineInv'
  <2>1. rt'.ref <= MaxRefs
    BY <1>1, <1>2, <1>3 DEF AlertsInv, EngineInv
  <2>2. Range(todo) = {}
    BY <1>1 DEF Range
  <2>3. H \cup Range(E.out) \subseteq Range(todo') \cup DOMAIN event'
    BY <1>3, <1>7, <2>2
  <2>4. Honest(E.rt, Range(todo') \cup DOMAIN event')
    BY <1>2, <2>3, HonestGrows
  <2> QED BY <1>2, <1>3, <1>5, <2>1, <2>4 DEF EngineInv
<1>9. QueueInv' /\ PumpInv'
  BY <1>3, <1>7 DEF AlertsInv, QueueInv, PumpInv
<1>10. TableInv'
  <2>1. DOMAIN outbox' = DOMAIN outbox /\ outbox' \in [DOMAIN outbox' -> Row]
    BY <1>3, ElapsedTable DEF AlertsInv
  <2> QED BY <1>3, <2>1 DEF AlertsInv, TableInv
<1> QED BY <1>8, <1>9, <1>10 DEF AlertsInv

LEMMA TickAlertsInv == ASSUME AlertsInv, Tick PROVE AlertsInv'
<1>1. pc = "idle" /\ latest' \in 0..MaxRefs
  BY DEF Tick
<1>2. PICK status \in Answers, degraded \in Degradable, crossed \in BOOLEAN,
           trades \in Trades :
        /\ crossed => /\ trades # <<>> /\ latest' > 0
                      /\ status \in {"SYNC_UNCERTAIN", "NO_ACTIVE_REFERENCE"}
                      /\ latest' # rt.ref \/ Last(trades) = "beyond"
        /\ \E i \in 0..Len(trades) : \E j \in i..Len(trades) :
           \E price \in SamplePrices(status, SubSeq(trades, 1, j)) :
           \E preds \in SUBSET Candidates(price) :
             Process([status |-> status, degraded |-> degraded,
                      crossed |-> crossed, before |-> SubSeq(trades, 1, i),
                      same |-> SubSeq(trades, i + 1, j),
                      after |-> SubSeq(trades, j + 1, Len(trades)),
                      price |-> price, preds |-> preds])
  BY DEF Tick
<1>3. PICK i, j, price, preds :
        /\ i \in 0..Len(trades) /\ j \in i..Len(trades)
        /\ price \in SamplePrices(status, SubSeq(trades, 1, j))
        /\ Process([status |-> status, degraded |-> degraded,
                    crossed |-> crossed, before |-> SubSeq(trades, 1, i),
                    same |-> SubSeq(trades, i + 1, j),
                    after |-> SubSeq(trades, j + 1, Len(trades)),
                    price |-> price, preds |-> preds])
  BY <1>2
<1> DEFINE in == [status |-> status, degraded |-> degraded,
                  crossed |-> crossed, before |-> SubSeq(trades, 1, i),
                  same |-> SubSeq(trades, i + 1, j),
                  after |-> SubSeq(trades, j + 1, Len(trades)),
                  price |-> price, preds |-> preds]
           seen == SubSeq(trades, 1, j)
<1>4. trades \in Seq(Regions) /\ Len(trades) \in Nat
  BY DEF Trades
<1>5. /\ in.before \in Seq(Regions) /\ in.same \in Seq(Regions)
      /\ seen \in Seq(Regions)
  BY <1>3, <1>4
<1>6. price \in Places
  <2>1. seen # <<>> => Last(seen) \in Places
    BY <1>5 DEF Last, Places
  <2>2. sample \in Places /\ Regions \subseteq Places /\ Unknown \in Places
    BY DEF AlertsInv, EngineInv, Places
  <2>3. \/ seen # <<>> /\ price = Last(seen)
        \/ price \in Regions \cup {sample, Unknown}
    BY <1>3 DEF SamplePrices
  <2> QED BY <2>1, <2>2, <2>3
<1>7. Tracked(status) => latest' > 0
  BY <1>2 DEF Answers
<1>8. Process(in)
  BY <1>3
<1>9. in.price \in Places /\ (Tracked(in.status) \/ in.crossed => latest' > 0)
  BY <1>2, <1>6, <1>7
<1> HIDE DEF in
<1> QED BY <1>1, <1>5, <1>8, <1>9, ProcessAlertsInv

LEMMA QuietTickAlertsInv == ASSUME AlertsInv, QuietTick PROVE AlertsInv'
<1> DEFINE in == [status |-> IF latest > 0 THEN "STALE" ELSE "SYNC_UNCERTAIN",
                  degraded |-> FALSE, crossed |-> FALSE, before |-> <<>>,
                  same |-> <<>>, after |-> <<>>, price |-> Unknown,
                  preds |-> {}]
<1>1. pc = "idle" /\ latest' = latest /\ Process(in)
  BY DEF QuietTick
<1>2. /\ in.before \in Seq(Regions) /\ in.same \in Seq(Regions)
      /\ in.price \in Places /\ in.crossed = FALSE
      /\ Tracked(in.status) => latest > 0
  BY DEF Places, Tracked
<1>3. latest \in 0..MaxRefs
  BY DEF AlertsInv, EngineInv
<1> HIDE DEF in
<1>4. Tracked(in.status) \/ in.crossed => latest' > 0
  BY <1>1, <1>2
<1> QED BY <1>1, <1>2, <1>3, <1>4, ProcessAlertsInv

\* What the engine owes is owed to the same events while it rests.
LEMMA EngineRests ==
  ASSUME EngineInv, UNCHANGED <<engine, latest>>,
         Range(todo) \cup DOMAIN event \subseteq Range(todo') \cup DOMAIN event'
  PROVE  EngineInv'
<1>1. Honest(rt, Range(todo') \cup DOMAIN event')
  BY HonestGrows DEF EngineInv
<1> QED BY <1>1 DEF EngineInv, engine

\* The head of the queue and the rest.
LEMMA HeadOfQueue ==
  ASSUME QueueInv, todo # <<>>
  PROVE  /\ Id \in Ids /\ Tail(todo) \in Seq(Ids)
         /\ Range(todo) = {Id} \cup Range(Tail(todo))
<1>1. /\ todo \in Seq(Ids) /\ Len(todo) \in Nat /\ Len(todo) > 0
      /\ DOMAIN todo = 1..Len(todo)
      /\ DOMAIN Tail(todo) = 1..(Len(todo) - 1)
      /\ \A i \in 1..(Len(todo) - 1) : Tail(todo)[i] = todo[i + 1]
      /\ Id = todo[1] /\ Tail(todo) \in Seq(Ids)
  BY DEF QueueInv, Id
<1>2. ASSUME NEW x \in Range(todo) PROVE x \in {Id} \cup Range(Tail(todo))
  <2>1. PICK i \in 1..Len(todo) : x = todo[i]
    BY <1>1, <1>2 DEF Range
  <2>2. CASE i = 1
    BY <1>1, <2>1, <2>2
  <2>3. CASE i # 1
    <3>1. i - 1 \in 1..(Len(todo) - 1) /\ Tail(todo)[i - 1] = todo[i]
      BY <1>1, <2>3
    <3> QED BY <1>1, <2>1, <3>1 DEF Range
  <2> QED BY <2>2, <2>3
<1>3. ASSUME NEW x \in {Id} \cup Range(Tail(todo)) PROVE x \in Range(todo)
  <2>1. Id \in Range(todo)
    BY <1>1 DEF Range
  <2>2. ASSUME NEW i \in 1..(Len(todo) - 1) PROVE Tail(todo)[i] \in Range(todo)
    <3>1. i + 1 \in 1..Len(todo)
      BY <1>1
    <3> QED BY <1>1, <3>1 DEF Range
  <2> QED BY <1>1, <1>3, <2>1, <2>2 DEF Range
<1> QED BY <1>1, <1>2, <1>3

LEMMA DoneIsRow == Done("SENT") \in Row /\ Done("CANCELLED") \in Row
BY AlertsAssumption DEF Done, Row

LEMMA NextAlertsInv == AlertsInv /\ [Next]_vars => AlertsInv'
<1> SUFFICES ASSUME AlertsInv, [Next]_vars PROVE AlertsInv'
  OBVIOUS
<1> USE DEF AlertsInv
<1>1. CASE RecordKnown
  <2>1. Id \in Ids /\ Tail(todo) \in Seq(Ids)
        /\ Range(todo) = {Id} \cup Range(Tail(todo))
    BY <1>1, HeadOfQueue DEF RecordKnown
  <2>2. EngineInv'
    BY <1>1, <2>1, EngineRests DEF RecordKnown, tables
  <2>3. QueueInv' /\ PumpInv'
    BY <1>1, <2>1 DEF RecordKnown, QueueInv, PumpInv, tables, pump
  <2>4. TableInv'
    BY <1>1 DEF RecordKnown, TableInv, tables, counts
  <2> QED BY <2>2, <2>3, <2>4
<1>2. CASE InsertEvent
  <2>1. Id \in Ids
    BY <1>2, HeadOfQueue DEF InsertEvent
  <2>2. DOMAIN event' = DOMAIN event \cup {Id}
    BY <1>2 DEF InsertEvent, Insert
  <2>3. EngineInv'
    BY <1>2, <2>2, EngineRests DEF InsertEvent
  <2>4. QueueInv' /\ PumpInv'
    BY <1>2, <2>1, <2>2 DEF InsertEvent, QueueInv, PumpInv, Id, pump
  <2>5. TableInv'
    BY <1>2, <2>1, <2>2 DEF InsertEvent, TableInv, counts, Id
  <2> QED BY <2>3, <2>4, <2>5
<1>3. CASE InsertOutbox
  <2>1. /\ Id \in Ids /\ Tail(todo) \in Seq(Ids)
        /\ Range(todo) = {Id} \cup Range(Tail(todo))
        /\ Id \in DOMAIN event
    BY <1>3, HeadOfQueue DEF InsertOutbox, QueueInv
  <2>2. EngineInv'
    BY <1>3, <2>1, EngineRests DEF InsertOutbox
  <2> DEFINE row == [status |-> "PENDING", wait |-> 0,
                     left |-> IF Latched(Id) THEN NoTtl ELSE TTL]
  <2>3. row \in Row
    <3> DEFINE l == IF Latched(Id) THEN NoTtl ELSE TTL
    <3>1. l \in (LongOver..TTL) \cup {NoTtl} /\ 0 \in 0..MaxWait
      BY AlertsAssumption DEF LongOver
    <3> HIDE DEF l
    <3>2. [status |-> "PENDING", wait |-> 0, left |-> l] \in Row
      BY <3>1 DEF Row
    <3> QED BY <3>2 DEF l
  <2>4. outbox' = [x \in DOMAIN outbox \cup {Id} |->
                     IF x = Id THEN row ELSE outbox[x]]
    BY <1>3 DEF InsertOutbox, Insert
  <2> HIDE DEF row
  <2>5. /\ DOMAIN outbox' = DOMAIN outbox \cup {Id}
        /\ outbox' \in [DOMAIN outbox' -> Row]
    BY <2>3, <2>4 DEF TableInv
  <2>6. QueueInv' /\ PumpInv'
    BY <1>3, <2>1, <2>5 DEF InsertOutbox, QueueInv, PumpInv, pump
  <2>7. TableInv'
    BY <1>3, <2>1, <2>5 DEF InsertOutbox, TableInv, counts
  <2> QED BY <2>2, <2>6, <2>7
<1>4. CASE StartPump
  <2>1. DOMAIN outbox' = DOMAIN outbox
    BY <1>4 DEF StartPump
  <2>2. outbox' \in [DOMAIN outbox' -> Row]
    BY <1>4, DoneIsRow DEF StartPump, TableInv
  <2>3. EngineInv'
    BY <1>4, EngineRests DEF StartPump
  <2>4. QueueInv' /\ PumpInv'
    BY <1>4, <2>1, AlertsAssumption DEF StartPump, QueueInv, PumpInv
  <2>5. TableInv'
    BY <1>4, <2>1, <2>2 DEF StartPump, TableInv, counts
  <2> QED BY <2>3, <2>4, <2>5
<1>5. ASSUME NEW e \in Ids, CancelRow(e) PROVE AlertsInv'
  <2>1. /\ outbox' = [outbox EXCEPT ![e] = Done("CANCELLED")]
        /\ rows' = rows \ {e} /\ pc = "pump"
        /\ UNCHANGED <<engine, known, latest, todo, pc, sending, late, event,
                       told, crashes>>
    BY <1>5 DEF CancelRow, counts
  <2>2. /\ DOMAIN outbox' = DOMAIN outbox
        /\ outbox' \in [DOMAIN outbox' -> Row]
    BY <2>1, DoneIsRow DEF TableInv
  <2>3. EngineInv'
    BY <2>1, EngineRests
  <2>4. QueueInv' /\ PumpInv'
    BY <2>1, <2>2 DEF QueueInv, PumpInv
  <2>5. TableInv'
    BY <2>1, <2>2 DEF TableInv
  <2> QED BY <2>3, <2>4, <2>5
<1>6. ASSUME NEW e \in Ids, NEW o \in Outcomes, SendRow(e, o)
      PROVE  AlertsInv'
  <2>1. /\ e \in rows /\ sending' = [id |-> e, outcome |-> o]
        /\ told' \in {told, told \cup {e}} /\ pc = "pump" /\ pc' = "mark"
        /\ UNCHANGED <<engine, known, latest, todo, rows, late, event, outbox,
                       crashes>>
    BY <1>6 DEF SendRow, NextDue, tables, counts
  <2>2. EngineInv'
    BY <2>1, EngineRests
  <2>3. QueueInv' /\ PumpInv'
    BY <2>1 DEF QueueInv, PumpInv
  <2>4. TableInv'
    BY <2>1 DEF TableInv, PumpInv
  <2> QED BY <2>2, <2>3, <2>4
<1>7. CASE HandleOutcome
  <2> DEFINE x == sending.id
  <2>1. x \in DOMAIN outbox /\ x \in DOMAIN event /\ outbox[x] \in Row
    BY <1>7 DEF HandleOutcome, PumpInv, TableInv
  <2>2. PICK row \in Row : outbox' = [outbox EXCEPT ![x] = row]
    <3>1. CASE sending.outcome = "ok"
      BY <1>7, <3>1, DoneIsRow DEF HandleOutcome
    <3>2. CASE sending.outcome # "ok"
      <4> DEFINE s == IF sending.outcome = "failed" THEN "FAILED"
                      ELSE "UNKNOWN"
      <4>1. PICK wait \in 1..MaxWait : Retry(s, wait)
        BY <1>7, <3>2 DEF HandleOutcome
      <4> DEFINE w == IF wait > late THEN wait - late ELSE 0
                 row == [outbox[x] EXCEPT !.status = s, !.wait = w]
      <4>2. outbox' = [outbox EXCEPT ![x] = row]
        BY <4>1 DEF Retry
      <4>3. s \in {"FAILED", "UNKNOWN"} /\ w \in 0..MaxWait
        BY AlertsAssumption DEF PumpInv
      <4> HIDE DEF s, w
      <4>4. row \in Row
        BY <2>1, <4>3 DEF Row
      <4> QED BY <4>2, <4>4
    <3> QED BY <3>1, <3>2
  <2>3. /\ DOMAIN outbox' = DOMAIN outbox
        /\ outbox' \in [DOMAIN outbox' -> Row]
    BY <2>2 DEF TableInv
  <2>4. DOMAIN event' = DOMAIN event
    BY <1>7 DEF HandleOutcome
  <2>5. EngineInv'
    BY <1>7, <2>4, EngineRests DEF HandleOutcome
  <2>6. QueueInv' /\ PumpInv'
    BY <1>7, <2>3 DEF HandleOutcome, QueueInv, PumpInv
  <2>7. TableInv'
    BY <1>7, <2>3, <2>4 DEF HandleOutcome, TableInv, counts
  <2> QED BY <2>5, <2>6, <2>7
<1>8. CASE EndTick \/ Restart \/ UNCHANGED vars
  <2>1. UNCHANGED <<engine, known, latest, todo, rows, sending, tables, told,
                    crashes>>
    BY <1>8 DEF EndTick, Restart, vars, counts, pump
  <2>2. EngineInv'
    BY <2>1, EngineRests DEF tables
  <2>3. QueueInv' /\ PumpInv'
    BY <1>8, <2>1, AlertsAssumption
       DEF EndTick, Restart, vars, QueueInv, PumpInv, tables, Id, pump
  <2>4. TableInv'
    BY <1>8, <2>1 DEF EndTick, Restart, vars, TableInv, tables, Id
  <2> QED BY <2>2, <2>3, <2>4
<1>9. ASSUME Die, \/ UNCHANGED crashes /\ pc = "pump"
                  \/ crashes' = crashes + 1
      PROVE  AlertsInv'
  <2>1. EngineInv'
    <3>1. /\ rt' \in Runtime /\ rt'.ref = 0 /\ rt'.serial = 0
          /\ Honest(rt', Range(todo') \cup DOMAIN event')
      BY <1>9, RearmedHonest DEF Die
    <3> QED BY <1>9, <3>1, AlertsAssumption DEF Die, EngineInv, Places
  <2>2. QueueInv' /\ PumpInv'
    BY <1>9, AlertsAssumption DEF Die, QueueInv, PumpInv
  <2>3. TableInv'
    BY <1>9 DEF Die, TableInv, tables
  <2> QED BY <2>1, <2>2, <2>3
<1>10. CASE Tick \/ QuietTick
  BY <1>10, TickAlertsInv, QuietTickAlertsInv
<1>11. CASE Await
  <2>1. /\ ElapseRows /\ rt' = Elapse(rt) /\ late' \in 0..MaxLate
        /\ UNCHANGED <<scanned, sample, active, known, latest, todo, pc, rows,
                       sending, event, told, crashes>>
    BY <1>11, AlertsAssumption DEF Await, PumpInv, counts
  <2>2. DOMAIN outbox' = DOMAIN outbox /\ outbox' \in [DOMAIN outbox' -> Row]
    BY <2>1, ElapsedTable
  <2>3. EngineInv'
    BY <2>1, ElapseHonest DEF EngineInv
  <2>4. QueueInv' /\ PumpInv'
    BY <2>1, <2>2 DEF QueueInv, PumpInv, Id
  <2>5. TableInv'
    BY <2>1, <2>2 DEF TableInv, Id
  <2> QED BY <2>3, <2>4, <2>5
<1> QED
  BY <1>1, <1>2, <1>3, <1>4, <1>5, <1>6, <1>7, <1>8, <1>9, <1>10, <1>11
     DEF Next, System, Crash, UnknownRow

\* Every variable keeps its type, and the tables only hold ids that the
\* engine, the reader of the references or the health monitor makes.
THEOREM TypeCorrect == Spec => []TypeOK
BY AlertsInvSuffices, InitAlertsInv, NextAlertsInv, PTL DEF Spec

\* A stop line that the engine has seen crossed has its row, unless the
\* process died between the two commits.
THEOREM BoundaryIsRecorded == Spec => []BoundaryRecorded
BY AlertsInvSuffices, InitAlertsInv, NextAlertsInv, PTL DEF Spec

\* An episode that stands at urgent has told so.
THEOREM EscalationIsHeard == Spec => []EscalationHeard
BY AlertsInvSuffices, InitAlertsInv, NextAlertsInv, PTL DEF Spec
=============================================================================
