------------------------------ MODULE GridAlerts ------------------------------
(***************************************************************************)
(* The realtime alert process of the grid, in alert mode, for one          *)
(* direction of the price. Every second it drains the trades, lets the     *)
(* engine (GridEngine) decide, commits each event and then its row of the  *)
(* outbox, and pumps the outbox to the channel. A pump reads the clock     *)
(* once, at its start, and then awaits the channel for every row: seconds  *)
(* pass in between. Engine and event_refs are memory: a crash loses them,  *)
(* the two tables stay. The references are those GridReference hands over, *)
(* numbered in their order.                                                *)
(***************************************************************************)
EXTENDS GridEngine, SequencesExt

CONSTANTS
  MaxRefs,     \* bound on the references
  MaxSerial,   \* bound on the episodes of a run of the process
  MaxTicks,    \* bound on the seconds with trades or a new reference
  MaxTrades,   \* bound on the trades of a second
  MaxCrashes,  \* bound on the crashes that are not a KeyError
  TTL,         \* delivery.event_ttl_seconds
  MaxWait,     \* delivery.retry_max_seconds
  MaxLate,     \* bound on the seconds the senders of one pump may take
  Statuses,    \* answers of the reference reader that a tick may meet
  Outcomes,    \* answers of the channel: "ok", "failed", "unknown"
  Degradable,  \* the values of "the feed is degraded" that a tick may meet
  NoTtl,       \* ttl_deadline_ms is NULL
  NoRow        \* no row is being sent

ASSUME AlertsAssumption ==
  /\ {MaxRefs, MaxSerial, MaxTicks, MaxTrades, MaxCrashes, TTL, MaxWait,
      MaxLate} \subseteq Nat
  /\ Statuses \subseteq {"VALID", "STALE", "MISSING", "SYNC_UNCERTAIN",
                         "NO_ACTIVE_REFERENCE"}
  /\ Degradable \subseteq BOOLEAN
  /\ Outcomes \subseteq {"ok", "failed", "unknown"}
  /\ NoTtl \notin Int

VARIABLES
  rt,       \* engine.runtimes[direction], and engine.snapshot as rt.ref
  scanned,  \* FactScanner.prev
  sample,   \* price of the last sample
  active,   \* HealthMonitor._active
  known,    \* _event_refs
  latest,   \* the latest confirmed reference in the database
  todo,     \* events of this tick that are still to be recorded
  pc,       \* where the tick stands
  rows,     \* due rows the pump has selected and not yet handled
  sending,  \* the row being sent, and what the channel answers
  late,     \* seconds since the pump has read the clock
  event,    \* table event: id -> sent_ms is set
  outbox,   \* table outbox: id -> row
  told,     \* ids the channel has taken, whatever it answered
  ticks,    \* busy ticks so far
  crashes   \* crashes so far

engine == <<rt, scanned, sample, active>>
tables == <<event, outbox>>
counts == <<ticks, crashes>>
pump == <<rows, sending, late>>
vars == <<engine, known, latest, todo, pc, pump, tables, told, counts>>

Reasons == {"feed_interrupted", "sync_uncertain", "reference_no_active",
            "reference_missing"}

\* The ids of a degradation (serial 0) and of its end (serial 1), without
\* reference; that of a crossing of a historical reference.
HealthId(serial, reason) ==
  [ref |-> 0, serial |-> serial, level |-> "HEALTH", reason |-> reason]
HistoricalId(r) ==
  [ref |-> r, serial |-> 0, level |-> "HISTORICAL_REFERENCE_CROSSED",
   reason |-> "historical_reference_crossed"]

AdviceIds ==
  [ref : 1..MaxRefs, serial : 1..MaxSerial, level : {"NOTICE", "URGENT"},
   reason : Branches \cup {"critical"}]
BoundaryIds ==
  [ref : 1..MaxRefs, serial : 1..MaxSerial, level : {"BOUNDARY_REACHED"},
   reason : {"boundary"}]
HistoricalIds == {HistoricalId(r) : r \in 1..MaxRefs}
HealthIds == {HealthId(n, r) : n \in {0, 1}, r \in Reasons}

\* LATCH_KINDS: facts, which no deadline ends.
FactIds == BoundaryIds \cup HistoricalIds
Ids == AdviceIds \cup FactIds \cup HealthIds
Latched(e) == e \in FactIds

\* _PRIORITY
Priority(e) ==
  CASE e.level = "BOUNDARY_REACHED" -> 0
    [] e.level = "HISTORICAL_REFERENCE_CROSSED" -> 1
    [] e.level = "URGENT" -> 3
    [] e.level = "NOTICE" -> 4
    [] OTHER -> 5

\* A deadline that was over when the pump began, however long that takes.
LongOver == -1 - MaxLate
Row == [status : {"PENDING", "SENT", "FAILED", "UNKNOWN", "CANCELLED"},
        left : (LongOver..TTL) \cup {NoTtl}, wait : 0..MaxWait]
\* Table t with the row of key e.
Insert(t, e, row) ==
  [x \in DOMAIN t \cup {e} |-> IF x = e THEN row ELSE t[x]]

Waiting == {"PENDING", "FAILED", "UNKNOWN"}
Live(e) == outbox[e].status \in Waiting
\* A row that is done: its deadline and its retry are not read any more.
Done(status) == [status |-> status, left |-> NoTtl, wait |-> 0]

Init ==
  /\ rt = Rearmed(0, 0)
  /\ scanned = Unknown
  /\ sample = Unknown
  /\ active = {}
  /\ known = {}
  /\ latest = 0
  /\ todo = <<>>
  /\ pc = "idle"
  /\ rows = {}
  /\ sending = NoRow
  /\ late = 0
  /\ event = <<>>
  /\ outbox = <<>>
  /\ told = {}
  /\ ticks = 0
  /\ crashes = 0

-----------------------------------------------------------------------------
(* The engine's part of a tick: process up to _record_and_send.            *)

\* A trade through scanner and engine, after the trades before it.
Reported(acc, price, status) ==
  LET f == OnFact(acc.rt, FactOf(acc.scanned, price), status) IN
    [rt |-> f.rt, out |-> acc.out \o f.out, scanned |-> price]

\* One trade after the other: _emit_facts.
EmitFacts(r, before, trades, status) ==
  LET run[n \in 0..Len(trades)] ==
        IF n = 0 THEN [rt |-> r, out |-> <<>>, scanned |-> before]
        ELSE Reported(run[n - 1], trades[n], status)
  IN run[Len(trades)]

Tracked(status) == status \in {"VALID", "STALE"}

\* _reasons, without those about storage, lag and the trade queue.
ReasonsOf(status, degraded) ==
  (IF degraded THEN {"feed_interrupted"} ELSE {}) \cup
  (CASE status = "SYNC_UNCERTAIN" -> {"sync_uncertain"}
     [] status = "NO_ACTIVE_REFERENCE" -> {"reference_no_active"}
     [] status = "MISSING" -> {"reference_missing"}
     [] OTHER -> {})

\* HealthMonitor.update
HealthEvents(reasons) ==
  SetToSeq({HealthId(0, r) : r \in reasons \ active}
           \cup {HealthId(1, r) : r \in active \ reasons})

\* Seeded fault: what a new reference reports at once is dropped.
EvaluatedSwitchSilent(in) ==
  LET old == Elapse(rt)
      switched == Tracked(in.status) /\ latest' # old.ref
      trades == in.before \o in.same \o in.after
      last == IF trades = <<>> THEN Unknown ELSE Last(trades)
      s == IF switched
           THEN SwitchReference(old, latest', last, in.status)
           ELSE Quiet(old)
      f == EmitFacts(s.rt, IF switched THEN Unknown ELSE scanned,
                     in.before, in.status)
      v == OnSecond(f.rt, in.status, in.degraded, in.price, in.preds)
      g == EmitFacts(v.rt, f.scanned, in.same, in.status)
  IN IF Tracked(in.status)
     THEN [rt |-> g.rt, scanned |-> g.scanned,
           out |-> f.out \o v.out \o g.out]
     ELSE [rt |-> old, scanned |-> scanned,
           out |-> IF in.crossed THEN <<HistoricalId(latest')>> ELSE <<>>]

\* The input of a tick: what the reader answers, the trades before the
\* mark of the second, on it and after it, the price of the sample, the
\* branches its features satisfy, whether the feed is degraded, whether
\* the last price is beyond the historical reference.
Evaluated(in) ==
  LET old == Elapse(rt)
      switched == Tracked(in.status) /\ latest' # old.ref
      trades == in.before \o in.same \o in.after
      last == IF trades = <<>> THEN Unknown ELSE Last(trades)
      s == IF switched
           THEN SwitchReference(old, latest', last, in.status)
           ELSE Quiet(old)
      f == EmitFacts(s.rt, IF switched THEN Unknown ELSE scanned,
                     in.before, in.status)
      v == OnSecond(f.rt, in.status, in.degraded, in.price, in.preds)
      g == EmitFacts(v.rt, f.scanned, in.same, in.status)
  IN IF Tracked(in.status)
     THEN [rt |-> g.rt, scanned |-> g.scanned,
           out |-> s.out \o f.out \o v.out \o g.out]
     ELSE [rt |-> old, scanned |-> scanned,
           out |-> IF in.crossed THEN <<HistoricalId(latest')>> ELSE <<>>]

\* What the price of the sample may be: the last trade up to the mark, or
\* the sample before if it is not too old; a new reference moves the regions.
SamplePrices(status, seen) ==
  IF seen # <<>> THEN {Last(seen)}
  ELSE IF sample = Unknown THEN {Unknown}
  ELSE IF Tracked(status) /\ latest' # rt.ref THEN Regions \cup {Unknown}
  ELSE {sample, Unknown}

\* A second less until the deadline and the next retry of an unsent row.
ElapseRow(row) ==
  IF row.status \notin Waiting THEN row
  ELSE [row EXCEPT !.left = IF @ = NoTtl \/ @ <= LongOver THEN @ ELSE @ - 1,
                   !.wait = IF @ = 0 THEN 0 ELSE @ - 1]
ElapseRows == outbox' = [i \in DOMAIN outbox |-> ElapseRow(outbox[i])]

Process(in) ==
  LET e == Evaluated(in) IN
    /\ e.rt.serial <= MaxSerial
    /\ rt' = e.rt
    /\ scanned' = e.scanned
    /\ sample' = in.price
    /\ active' = ReasonsOf(in.status, in.degraded)
    /\ todo' = e.out \o HealthEvents(active')
    /\ ElapseRows
    /\ pc' = "record"
    /\ UNCHANGED <<known, pump, event, told, crashes>>

Trades == UNION {[1..n -> Regions] : n \in 0..MaxTrades}

\* The answers that fit the references so far.
Answers ==
  {s \in Statuses : (Tracked(s) => latest' > 0)
                    /\ (s = "MISSING" => latest' = 0)}

\* A second with trades, a new reference or a change of the answers.
Tick ==
  /\ pc = "idle"
  /\ ticks < MaxTicks
  /\ ticks' = ticks + 1
  /\ latest' \in {latest, latest + 1} \cap 0..MaxRefs
  /\ \E status \in Answers, degraded \in Degradable, crossed \in BOOLEAN,
        trades \in Trades :
     /\ crossed => /\ trades # <<>> /\ latest' > 0
                   /\ status \in {"SYNC_UNCERTAIN", "NO_ACTIVE_REFERENCE"}
                   /\ latest' # rt.ref \/ Last(trades) = "beyond"
     /\ \E i \in 0..Len(trades) : \E j \in i..Len(trades) :
        \E price \in SamplePrices(status, SubSeq(trades, 1, j)) :
        \E preds \in SUBSET Candidates(price) :
          Process([status |-> status, degraded |-> degraded,
                   crossed |-> crossed, before |-> SubSeq(trades, 1, i),
                   same |-> SubSeq(trades, i + 1, j),
                   after |-> SubSeq(trades, j + 1, Len(trades)),
                   price |-> price, preds |-> preds])

\* A second without news: no trade, no sample, nothing degraded.
QuietTick ==
  /\ pc = "idle"
  /\ UNCHANGED <<latest, ticks>>
  /\ Process([status |-> IF latest > 0 THEN "STALE" ELSE "SYNC_UNCERTAIN",
              degraded |-> FALSE, crossed |-> FALSE, before |-> <<>>,
              same |-> <<>>, after |-> <<>>, price |-> Unknown,
              preds |-> {}])

-----------------------------------------------------------------------------
(* _record_one: the event and its row are two transactions.                *)

Id == Head(todo)

\* The id is taken: the event is dropped.
RecordKnown ==
  /\ pc = "record"
  /\ todo # <<>>
  /\ Id \in DOMAIN event
  /\ known' = known \cup {Id}
  /\ todo' = Tail(todo)
  /\ UNCHANGED <<engine, latest, pc, pump, tables, told, counts>>

\* _insert_event
InsertEvent ==
  /\ pc = "record"
  /\ todo # <<>>
  /\ Id \notin DOMAIN event
  /\ known' = known \cup {Id}
  /\ event' = Insert(event, Id, FALSE)
  /\ pc' = "row"
  /\ UNCHANGED <<engine, latest, todo, pump, outbox, told, counts>>

\* Seeded fault: every row has a deadline.
InsertOutboxWithTtl ==
  /\ pc = "row"
  /\ outbox' = Insert(outbox, Id,
       [status |-> "PENDING", wait |-> 0, left |-> TTL])
  /\ todo' = Tail(todo)
  /\ pc' = "record"
  /\ UNCHANGED <<engine, known, latest, pump, event, told, counts>>

\* _insert_outbox
InsertOutbox ==
  /\ pc = "row"
  /\ outbox' = Insert(outbox, Id,
       [status |-> "PENDING", wait |-> 0,
        left |-> IF Latched(Id) THEN NoTtl ELSE TTL])
  /\ todo' = Tail(todo)
  /\ pc' = "record"
  /\ UNCHANGED <<engine, known, latest, pump, event, told, counts>>

-----------------------------------------------------------------------------
(* pump                                                                    *)

\* Seeded fault: a row that waits for a retry is not evicted.
ExpiredPending(e) ==
  outbox[e].status = "PENDING" /\ outbox[e].left # NoTtl /\ outbox[e].left < 0

\* The deadline is over.
Expired(e) == Live(e) /\ outbox[e].left # NoTtl /\ outbox[e].left < 0

\* evict_expired, and the rows that are due.
StartPump ==
  /\ pc = "record"
  /\ todo = <<>>
  /\ outbox' = [e \in DOMAIN outbox |->
       IF Expired(e) THEN Done("CANCELLED")
       ELSE outbox[e]]
  /\ rows' = {e \in DOMAIN outbox :
                Live(e) /\ ~Expired(e) /\ outbox[e].wait = 0}
  /\ late' = 0
  /\ pc' = "pump"
  /\ UNCHANGED <<engine, known, latest, todo, sending, event, told, counts>>

\* The next row in the order of the kinds; within a kind any.
NextDue(e) == e \in rows /\ \A o \in rows : Priority(e) <= Priority(o)

\* _condition_holds, for an id in event_refs
ConditionHolds(e) ==
  \/ e.level = "HEALTH"
  \/ /\ rt.open /\ rt.ref = e.ref /\ rt.serial = e.serial
     /\ rt.level = e.level

\* _ready_to_send says no: the row is cancelled.
CancelRow(e) ==
  /\ pc = "pump"
  /\ NextDue(e)
  /\ ~Latched(e)
  /\ e \in known
  /\ ~ConditionHolds(e)
  /\ outbox' = [outbox EXCEPT ![e] = Done("CANCELLED")]
  /\ rows' = rows \ {e}
  /\ UNCHANGED <<engine, known, latest, todo, pc, sending, late, event, told,
                 counts>>

\* The row is posted, though its deadline may have come since the pump began.
\* An unknown outcome may or may not have reached anyone.
SendRow(e, outcome) ==
  /\ pc = "pump"
  /\ NextDue(e)
  /\ Latched(e) \/ (e \in known /\ ConditionHolds(e))
  /\ sending' = [id |-> e, outcome |-> outcome]
  /\ \/ outcome # "failed" /\ told' = told \cup {e}
     \/ outcome # "ok" /\ UNCHANGED told
  /\ pc' = "mark"
  /\ UNCHANGED <<engine, known, latest, todo, rows, late, tables, counts>>

\* A second passes while the channel is awaited: for the deadlines and the
\* engine's ages, but not for the clock the pump has read.
Await ==
  /\ pc = "mark"
  /\ late < MaxLate
  /\ late' = late + 1
  /\ rt' = Elapse(rt)
  /\ ElapseRows
  /\ UNCHANGED <<scanned, sample, active, known, latest, todo, pc, rows,
                 sending, event, told, counts>>

\* The wait counts from the start of the pump, not from the attempt.
Retry(status, wait) ==
  outbox' = [outbox EXCEPT ![sending.id] =
               [@ EXCEPT !.status = status,
                         !.wait = IF wait > late THEN wait - late ELSE 0]]

\* _handle_outcome: _mark_sent, _mark_retry, _mark_unknown. The waits of the
\* back-off are any up to the longest.
HandleOutcome ==
  /\ pc = "mark"
  /\ IF sending.outcome = "ok"
     THEN /\ outbox' = [outbox EXCEPT ![sending.id] = Done("SENT")]
          /\ event' = [event EXCEPT ![sending.id] = TRUE]
     ELSE /\ \E wait \in 1..MaxWait :
               Retry(IF sending.outcome = "failed" THEN "FAILED"
                     ELSE "UNKNOWN", wait)
          /\ UNCHANGED event
  /\ rows' = rows \ {sending.id}
  /\ sending' = NoRow
  /\ pc' = "pump"
  /\ UNCHANGED <<engine, known, latest, todo, late, told, counts>>

EndTick ==
  /\ pc = "pump"
  /\ rows = {}
  /\ late' = 0
  /\ pc' = "idle"
  /\ UNCHANGED <<engine, known, latest, todo, rows, sending, tables, told,
                 counts>>

-----------------------------------------------------------------------------
(* The process dies and is started again.                                  *)

Die ==
  /\ pc' = "down"
  /\ rt' = Rearmed(0, 0)
  /\ scanned' = Unknown
  /\ sample' = Unknown
  /\ active' = {}
  /\ known' = {}
  /\ todo' = <<>>
  /\ rows' = {}
  /\ sending' = NoRow
  /\ late' = 0
  /\ UNCHANGED <<latest, tables, told, ticks>>

Crash ==
  /\ pc # "down"
  /\ crashes < MaxCrashes
  /\ crashes' = crashes + 1
  /\ Die

\* _condition_holds of a row of the process before: KeyError, uncaught.
UnknownRow(e) ==
  /\ pc = "pump"
  /\ NextDue(e)
  /\ ~Latched(e)
  /\ e \notin known
  /\ UNCHANGED crashes
  /\ Die

Restart ==
  /\ pc = "down"
  /\ pc' = "idle"
  /\ UNCHANGED <<engine, known, latest, todo, pump, tables, told, counts>>

\* What the process does by itself: there is always one such step.
System ==
  \/ QuietTick
  \/ RecordKnown \/ InsertEvent \/ InsertOutbox
  \/ StartPump \/ Await \/ HandleOutcome \/ EndTick
  \/ \E e \in Ids :
       \/ CancelRow(e) \/ UnknownRow(e)
       \/ \E outcome \in Outcomes : SendRow(e, outcome)
  \/ Restart

Next == System \/ Tick \/ Crash

Spec == Init /\ [][Next]_vars

\* The loop goes on and the container is started again; the channel, tried
\* again and again with a fact, takes it and says so.
FairSpec ==
  /\ Spec
  /\ WF_vars(System)
  /\ \A e \in FactIds : SF_vars(SendRow(e, "ok"))

-----------------------------------------------------------------------------
(* Properties                                                              *)

\* Every variable has its type; the tables only hold ids the engine makes.
TypeOK ==
  /\ rt.ref \in 0..MaxRefs /\ rt.serial \in 0..MaxSerial
  /\ rt.level \in Levels /\ rt.highest \in {"IDLE"} \cup Alerts
  /\ rt.open \in BOOLEAN
  /\ scanned \in Regions \cup {Unknown} /\ sample \in Regions \cup {Unknown}
  /\ active \subseteq Reasons /\ known \subseteq Ids
  /\ todo \in Seq(Ids)
  /\ pc \in {"idle", "record", "row", "pump", "mark", "down"}
  /\ rows \subseteq DOMAIN outbox
  /\ sending = NoRow \/ sending \in [id : rows, outcome : Outcomes]
  /\ late \in 0..MaxLate
  /\ DOMAIN event \subseteq Ids
  /\ outbox \in [DOMAIN outbox -> Row] /\ DOMAIN outbox \subseteq DOMAIN event
  /\ told \subseteq DOMAIN outbox

\* The tick has recorded its events and pumps.
Recorded == pc \in {"pump", "mark", "idle"}

BoundaryId == EventId(rt, "BOUNDARY_REACHED", "boundary")

\* A stop line the engine has seen crossed in this episode, also at once
\* with a new reference (_sync_engine: must be recorded), has its row in the
\* outbox; only a crash between its two commits can have lost the row.
BoundaryRecorded ==
  Recorded /\ rt.bnd =>
    /\ BoundaryId \in DOMAIN event
    /\ BoundaryId \in DOMAIN outbox \/ crashes > 0

\* An episode whose level is urgent has told so: an escalation is not held
\* back by the interval after a lower or an earlier alert (state.py, 7.2).
EscalationHeard ==
  Recorded /\ rt.level = "URGENT" =>
    \E e \in DOMAIN event :
      e.ref = rt.ref /\ e.serial = rt.serial /\ e.level = "URGENT"

\* Advice goes to the channel, also when it is tried again, only in a pump
\* that began within its deadline: it is late by no more than the rows
\* before it in this pump have taken (evict_expired, pump).
AdviceDueAtPump ==
  pc = "mark" /\ ~Latched(sending.id) =>
    outbox[sending.id].left + late >= 0

Ledger == INSTANCE AlertLedger WITH
  Fact <- FactIds, owed <- {e \in DOMAIN outbox : Live(e)}

\* The outbox keeps the promise of the ledger: whatever the channel answers
\* and whenever the process dies, a fact leaves the outbox only as sent, and
\* as sent only if the channel has taken it.
ImplementsLedger == Ledger!Spec

\* Every fact in the outbox is sent in the end, whatever happens to advice;
\* none is left waiting for ever, cancelled, or dropped by a restart.
FactsDelivered ==
  <>[](\A e \in FactIds \cap DOMAIN outbox : outbox[e].status = "SENT")

\* The rows of a dead process stop the next ones only until their deadline:
\* the restarts end.
RestartsEnd == <>[](pc # "down")

-----------------------------------------------------------------------------
(* What the documents promise and the code does not keep: README, section 3. *)

\* Advice is not sent after its deadline, it is only kept on file (the head
\* of delivery.py): but the deadline is read once, before the first await.
NoAdviceAfterDeadline ==
  [][\A e \in Ids : (\E o \in Outcomes : SendRow(e, o)) /\ ~Latched(e) =>
       outbox[e].left >= 0]_vars

\* A critical price is announced: the row is not cancelled while the last
\* price is still critical and the reference the same (AC-06).
CriticalAnnounced ==
  [][\A e \in DOMAIN outbox :
       /\ e.reason = "critical" /\ Live(e)
       /\ outbox'[e].status = "CANCELLED"
       /\ outbox[e].left >= 0
       /\ rt.ref = e.ref
       => sample # "critical"]_vars

\* While the price stays beyond, the boundary is told again every interval:
\* what the engine repeats is not refused by the table (state.py).
RepeatsRecorded ==
  pc = "record" /\ todo # <<>> /\ crashes = 0 /\ Id.level = "BOUNDARY_REACHED"
    => Id \notin DOMAIN event
=============================================================================
