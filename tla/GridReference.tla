---------------------------- MODULE GridReference ----------------------------
(***************************************************************************)
(* How the hourly grid bot hands its advice to the realtime alert process. *)
(* Each advice with boundaries is a reference: the bot registers it,       *)
(* notifies the users, and marks it SENT or FAILED; a thread of the bot    *)
(* republishes the session row every second as a heartbeat; the reader of  *)
(* the other process decides from the tables which reference counts.       *)
(* Every write may fail: the bot then gives the handoff up until it is     *)
(* restarted, and goes on notifying.                                       *)
(***************************************************************************)
EXTENDS Integers, Sequences

CONSTANTS
  MaxRefs,    \* bound on the advices with boundaries
  MaxFaults,  \* bound on the failed writes
  MaxStarts,  \* bound on the starts of the bot
  NoState     \* export_store is None

ASSUME BoundsAssumption ==
  MaxRefs \in Nat /\ MaxFaults \in Nat /\ MaxStarts \in Nat

VARIABLES
  sessions,  \* table session, by session_id
  refs,      \* the advices so far, with their row of table reference
  tx,        \* what the bot has written and not committed: it holds the lock
  fresh,     \* updated_at_ms of the latest session is recent enough
  pc,        \* where the bot stands
  again,     \* the advice is notified (again) once the handoff is given up
  state,     \* self._state, the session as the bot sees it
  beating,   \* the heartbeat thread runs
  beat,      \* a state the heartbeat thread has read and not yet written
  faults,    \* failed writes so far
  starts     \* starts so far

database == <<sessions, refs, tx, fresh>>
bot == <<pc, again, state>>
heart == <<beating, beat>>
counts == <<faults, starts>>
vars == <<database, bot, heart, counts>>

PC == {"off", "idle", "pending", "sending", "sent", "failed", "uncertain",
       "close", "plain", "risk", "confirm"}
None == 0
State == [sid : 1..MaxStarts, seq : 0..MaxRefs, ref : 0..MaxRefs,
          pending : 0..MaxRefs]
ASSUME NoStateAssumption == NoState \notin State

\* Status of a row of reference; an advice without a row is untracked.
SendStatus == {"untracked", "PREPARED", "SENT", "FAILED"}

Sid == Len(sessions)
Running(status) == status \in {"ACTIVE", "NO_ACTIVE_REFERENCE"}

\* An advice before its registration.
Advice == [sid |-> None, seq |-> None, status |-> "untracked",
           confirmed |-> FALSE]

Init ==
  /\ sessions = <<>>
  /\ refs = <<>>
  /\ tx = "none"
  /\ fresh = FALSE
  /\ pc = "off"
  /\ again = FALSE
  /\ state = NoState
  /\ beating = FALSE
  /\ beat = NoState
  /\ faults = 0
  /\ starts = 0

-----------------------------------------------------------------------------
(* The reader: ReferenceReader.current_snapshot. VALID stands for STALE    *)
(* too, the age of a reference is not looked at here.                      *)

SentRefs == {r \in DOMAIN refs : refs[r].status = "SENT"}

\* Seeded fault: the rows of a session are not ordered.
NewerSession(r, s) == refs[r].sid >= refs[s].sid

\* _latest_sent orders by session_id and seq.
Newer(r, s) ==
  \/ refs[r].sid > refs[s].sid
  \/ refs[r].sid = refs[s].sid /\ refs[r].seq >= refs[s].seq

LatestSent ==
  IF SentRefs = {} THEN None
  ELSE CHOOSE r \in SentRefs : \A s \in SentRefs : Newer(r, s)

Confirmable ==
  /\ Sid > 0
  /\ Running(sessions[Sid].status)
  /\ fresh
  /\ sessions[Sid].pending = None

\* Seeded fault: the session of the reference is not compared.
StatusOfAnySession ==
  IF ~Confirmable THEN "SYNC_UNCERTAIN"
  ELSE IF sessions[Sid].status = "NO_ACTIVE_REFERENCE"
       THEN "NO_ACTIVE_REFERENCE"
  ELSE IF LatestSent = None THEN "MISSING" ELSE "VALID"

ReferenceStatus ==
  IF ~Confirmable THEN "SYNC_UNCERTAIN"
  ELSE IF sessions[Sid].status = "NO_ACTIVE_REFERENCE"
       THEN IF sessions[Sid].ref = None /\ sessions[Sid].seq = 0
            THEN "NO_ACTIVE_REFERENCE" ELSE "SYNC_UNCERTAIN"
  ELSE IF LatestSent = None THEN "MISSING"
  ELSE IF refs[LatestSent].sid # Sid THEN "SYNC_UNCERTAIN" ELSE "VALID"

Valid == ReferenceStatus = "VALID"

-----------------------------------------------------------------------------
(* Writes of the bot.                                                      *)

\* The row of session state.sid as state has it.
WriteSession(s, status) ==
  /\ sessions' = [sessions EXCEPT ![s.sid] =
       [seq |-> s.seq, ref |-> s.ref, pending |-> s.pending,
        status |-> status]]
  /\ fresh' = TRUE

SetRef(r, status) ==
  [refs EXCEPT ![r].status = status]

\* The last advice is the one being sent.
Current == Len(refs)

\* A write raises sqlite3.Error.
Fault == faults < MaxFaults /\ faults' = faults + 1

\* _send_with_export catches it and gives the handoff up.
Abort(notify) == pc' = "uncertain" /\ again' = notify

-----------------------------------------------------------------------------
(* Start and end of the bot.                                               *)

\* _init_export, _start_export: a new session and its heartbeat.
Start ==
  /\ pc = "off"
  /\ starts < MaxStarts
  /\ sessions' = Append(sessions,
       [seq |-> 0, ref |-> None, pending |-> None, status |-> "ACTIVE"])
  /\ fresh' = TRUE
  /\ state' = [sid |-> Sid + 1, seq |-> 0, ref |-> None, pending |-> None]
  /\ beating' = TRUE
  /\ pc' = "idle"
  /\ starts' = starts + 1
  /\ UNCHANGED <<refs, tx, again, beat, faults>>

\* The tables cannot be opened: the bot only notifies.
StartWithoutExport ==
  /\ pc = "off"
  /\ starts < MaxStarts
  /\ Fault
  /\ pc' = "idle"
  /\ starts' = starts + 1
  /\ UNCHANGED <<database, again, state, heart>>

\* The process dies: what was not committed is rolled back.
Crash ==
  /\ pc # "off"
  /\ starts < MaxStarts
  /\ pc' = "off"
  /\ state' = NoState
  /\ beating' = FALSE
  /\ beat' = NoState
  /\ tx' = "none"
  /\ again' = FALSE
  /\ UNCHANGED <<sessions, refs, fresh, counts>>

\* run_loop is cancelled: _shutdown_export.
Stop ==
  /\ pc = "idle"
  /\ state # NoState
  /\ beat = NoState
  /\ sessions' = [s \in DOMAIN sessions |->
       [sessions[s] EXCEPT !.status = "CLOSED"]]
  /\ state' = NoState
  /\ beating' = FALSE
  /\ pc' = "off"
  /\ UNCHANGED <<refs, tx, fresh, again, beat, counts>>

-----------------------------------------------------------------------------
(* An advice with boundaries: _send_with_export, _send_tracked.            *)

\* UNIQUE (session_id, seq) of table reference.
SeqTaken ==
  \E r \in DOMAIN refs :
    refs[r].sid = state.sid /\ refs[r].seq = state.seq + 1

\* The cooldown lets the hourly signal pass.
SignalNumeric == pc = "idle" /\ Len(refs) < MaxRefs

\* prepare commits the row and the pending number; then self._state follows.
Prepare ==
  /\ SignalNumeric
  /\ state # NoState
  /\ ~SeqTaken
  /\ LET s == [state EXCEPT !.pending = state.seq + 1] IN
       /\ refs' = Append(refs, [Advice EXCEPT !.sid = state.sid,
                    !.seq = state.seq + 1, !.status = "PREPARED"])
       /\ WriteSession(s, IF sessions[s.sid].status = "NO_ACTIVE_REFERENCE"
                          THEN "NO_ACTIVE_REFERENCE" ELSE "ACTIVE")
       /\ state' = s
  /\ pc' = "pending"
  /\ UNCHANGED <<tx, again, heart, counts>>

\* The row is refused, or a write fails: the export is aborted.
PrepareRefused ==
  /\ SignalNumeric
  /\ state # NoState
  /\ refs' = Append(refs, Advice)
  /\ Abort(TRUE)
  /\ Fault \/ (SeqTaken /\ UNCHANGED faults)
  /\ UNCHANGED <<sessions, tx, fresh, state, heart, starts>>

\* Without the handoff the advice is only notified.
SignalUntracked ==
  /\ SignalNumeric
  /\ state = NoState
  /\ refs' = Append(refs, Advice)
  /\ pc' = "plain"
  /\ UNCHANGED <<sessions, tx, fresh, again, state, heart, counts>>

\* mark_sending does not commit: the lock is held while the users are notified.
MarkSending ==
  /\ pc = "pending"
  /\ tx' = "sending"
  /\ pc' = "sending"
  /\ UNCHANGED <<sessions, refs, fresh, again, state, heart, counts>>

\* _send_notification: FALSE also when nobody knows what was delivered.
Notify ==
  /\ pc = "sending"
  /\ \E sent \in BOOLEAN :
       /\ refs' = [refs EXCEPT ![Current].confirmed = sent]
       /\ pc' = IF sent THEN "sent" ELSE "failed"
  /\ UNCHANGED <<sessions, tx, fresh, again, state, heart, counts>>

\* Seeded fault: self._state keeps the pending number.
MarkSentStillPending ==
  /\ pc = "sent"
  /\ refs' = SetRef(Current, "SENT")
  /\ LET s == [state EXCEPT !.seq = state.pending, !.ref = Current] IN
       WriteSession([s EXCEPT !.pending = None], "ACTIVE") /\ state' = s
  /\ tx' = "none"
  /\ pc' = "idle"
  /\ UNCHANGED <<again, heart, counts>>

\* mark_sent, committed, then self._state.
MarkSent ==
  /\ pc = "sent"
  /\ refs' = SetRef(Current, "SENT")
  /\ LET s == [state EXCEPT !.seq = state.pending, !.ref = Current,
                 !.pending = None] IN
       WriteSession(s, "ACTIVE") /\ state' = s
  /\ tx' = "none"
  /\ pc' = "idle"
  /\ UNCHANGED <<again, heart, counts>>

\* mark_failed: the number is free again, the earlier reference counts.
MarkFailed ==
  /\ pc = "failed"
  /\ refs' = SetRef(Current, "FAILED")
  /\ LET s == [state EXCEPT !.pending = None] IN
       /\ WriteSession(s, IF sessions[s.sid].status = "NO_ACTIVE_REFERENCE"
                          THEN "NO_ACTIVE_REFERENCE" ELSE "ACTIVE")
       /\ state' = s
  /\ tx' = "none"
  /\ pc' = "idle"
  /\ UNCHANGED <<again, heart, counts>>

\* mark_sending, mark_sent or mark_failed raises. mark_sent may already
\* have written the row of the reference.
MarkFails ==
  /\ pc \in {"pending", "sent", "failed"}
  /\ Fault
  /\ Abort(TRUE)
  /\ tx' \in {tx} \cup (IF pc = "sent" THEN {"sent"} ELSE {})
  /\ UNCHANGED <<sessions, refs, fresh, state, heart, starts>>

-----------------------------------------------------------------------------
(* A warning without boundaries, and a notification without the handoff.   *)

\* _send_with_export without grid_params; no table is touched before it.
SignalRisk ==
  /\ pc = "idle"
  /\ state # NoState
  /\ pc' \in {"idle", "confirm"}
  /\ UNCHANGED <<database, again, state, heart, counts>>

\* The row of the session is what the bot believes it to be.
SessionAsState ==
  /\ Running(sessions[state.sid].status)
  /\ sessions[state.sid].pending = None
  /\ sessions[state.sid].seq = state.seq
  /\ sessions[state.sid].ref = state.ref

\* mark_non_numeric_sent
ConfirmRisk ==
  /\ pc = "confirm"
  /\ SessionAsState
  /\ WriteSession(state, IF state.ref = None THEN "NO_ACTIVE_REFERENCE"
                                             ELSE "ACTIVE")
  /\ pc' = "idle"
  /\ UNCHANGED <<refs, tx, again, state, heart, counts>>

\* It raises when the row differs or the write fails.
ConfirmRiskRefused ==
  /\ pc = "confirm"
  /\ Fault \/ (~SessionAsState /\ UNCHANGED faults)
  /\ Abort(FALSE)
  /\ UNCHANGED <<database, state, heart, starts>>

\* The advice is notified without a row, or once more.
NotifyUntracked ==
  /\ pc = "plain"
  /\ \E sent \in BOOLEAN :
       refs' = [refs EXCEPT ![Current].confirmed = @ \/ sent]
  /\ pc' = "idle"
  /\ UNCHANGED <<sessions, tx, fresh, again, state, heart, counts>>

-----------------------------------------------------------------------------
(* _abort_export                                                           *)

\* What was written and not committed becomes visible.
Commit == IF tx = "sent" THEN SetRef(Current, "SENT") ELSE refs

\* set_sync_uncertain
SetUncertain ==
  /\ pc = "uncertain"
  /\ WriteSession(state, "SYNC_UNCERTAIN")
  /\ refs' = Commit
  /\ tx' = "none"
  /\ pc' = "close"
  /\ UNCHANGED <<again, state, heart, counts>>

\* Its exception is swallowed.
SetUncertainFails ==
  /\ pc = "uncertain"
  /\ Fault
  /\ pc' = "close"
  /\ UNCHANGED <<database, again, state, heart, starts>>

\* The end of _shutdown_export.
Forget ==
  /\ pc' = IF again THEN "plain" ELSE "idle"
  /\ again' = FALSE
  /\ state' = NoState
  /\ tx' = "none"

\* _shutdown_export: the thread is joined, every session is closed.
Close ==
  /\ pc = "close"
  /\ beat = NoState
  /\ sessions' = [s \in DOMAIN sessions |->
       [sessions[s] EXCEPT !.status = "CLOSED"]]
  /\ refs' = Commit
  /\ beating' = FALSE
  /\ Forget
  /\ UNCHANGED <<fresh, beat, counts>>

\* Seeded fault: the thread is only stopped when the sessions are closed.
CloseFailsBeating ==
  /\ pc = "close"
  /\ Fault
  /\ Forget
  /\ UNCHANGED <<sessions, refs, fresh, heart, starts>>

\* close_session fails: the connection is closed, nothing is committed.
CloseFails ==
  /\ pc = "close"
  /\ beat = NoState
  /\ Fault
  /\ beating' = FALSE
  /\ Forget
  /\ UNCHANGED <<sessions, refs, fresh, beat, starts>>

-----------------------------------------------------------------------------
(* HeartbeatThread._publish_once, and the silence of the session row.      *)

BeatRead ==
  /\ beating
  /\ beat = NoState
  /\ state # NoState
  /\ beat' = state
  /\ UNCHANGED <<database, bot, beating, counts>>

\* write_heartbeat waits for the lock and leaves the status alone.
BeatWrite ==
  /\ beat # NoState
  /\ tx = "none"
  /\ IF Running(sessions[beat.sid].status)
     THEN WriteSession(beat, sessions[beat.sid].status)
     ELSE UNCHANGED <<sessions, fresh>>
  /\ beat' = NoState
  /\ UNCHANGED <<refs, tx, bot, beating, counts>>

\* busy_timeout passes while the bot holds the lock.
BeatTimeout ==
  /\ beat # NoState
  /\ tx # "none"
  /\ beat' = NoState
  /\ UNCHANGED <<database, bot, beating, counts>>

\* max_silence_seconds pass without a heartbeat.
Silence ==
  /\ fresh
  /\ ~beating \/ tx # "none"
  /\ fresh' = FALSE
  /\ UNCHANGED <<sessions, refs, tx, bot, heart, counts>>

-----------------------------------------------------------------------------

Send == MarkSending \/ Notify \/ MarkSent \/ MarkFailed \/ NotifyUntracked
GiveUp == SetUncertain \/ SetUncertainFails \/ Close \/ CloseFails
Beat == BeatRead \/ BeatWrite \/ BeatTimeout

Next ==
  \/ Start \/ StartWithoutExport \/ Crash \/ Stop
  \/ Prepare \/ PrepareRefused \/ SignalUntracked \/ SignalRisk
  \/ Send \/ MarkFails \/ ConfirmRisk \/ ConfirmRiskRefused
  \/ GiveUp \/ Beat \/ Silence

Spec == Init /\ [][Next]_vars

\* The bot goes on once it has begun to send, the thread beats, time passes.
FairSpec ==
  /\ Spec
  /\ WF_vars(Send \/ ConfirmRisk \/ ConfirmRiskRefused \/ GiveUp)
  /\ WF_vars(Beat)
  /\ WF_vars(Silence)

-----------------------------------------------------------------------------
(* Properties.                                                             *)

TypeOK ==
  /\ sessions \in Seq([seq : 0..MaxRefs, ref : 0..MaxRefs,
       pending : 0..MaxRefs, status : {"ACTIVE", "NO_ACTIVE_REFERENCE",
                                       "SYNC_UNCERTAIN", "CLOSED"}])
  /\ refs \in Seq([sid : 0..MaxStarts, seq : 0..MaxRefs,
       status : SendStatus, confirmed : BOOLEAN])
  /\ tx \in {"none", "sending", "sent"}
  /\ fresh \in BOOLEAN
  /\ pc \in PC
  /\ again \in BOOLEAN
  /\ state \in State \cup {NoState}
  /\ beating \in BOOLEAN
  /\ beat \in State \cup {NoState}
  /\ faults \in 0..MaxFaults
  /\ starts \in 0..MaxStarts

\* A reference counts only if the notification service accepted it, in the
\* session that is being served (AC-02, AC-21): whatever crashes, restarts
\* and failed writes lie in between.
CountsOnlyConfirmed ==
  Valid =>
    /\ refs[LatestSent].confirmed
    /\ state # NoState => refs[LatestSent].sid = state.sid

\* While the handoff stands and the bot is not sending, no reference counts
\* that is older than one already confirmed: neither a number used again
\* nor a late heartbeat brings an old one back.
NewestCounts ==
  (Valid /\ pc = "idle" /\ state # NoState) =>
    \A r \in DOMAIN refs : refs[r].confirmed => r <= LatestSent

\* Once the handoff is given up and the reader has noticed, nothing but a new
\* session makes a reference count again: no heartbeat that was under way.
GivenUpStays ==
  [][(state = NoState /\ ~Valid /\ Sid' = Sid) => ~Valid']_vars

\* A confirmed reference comes to count unless the bot sends again or gives
\* the handoff up: a stale heartbeat is repaired by the next one.
ConfirmedCounts ==
  (pc = "idle" /\ state # NoState /\ state.ref # None)
    ~> (Valid \/ pc # "idle" \/ state = NoState)

-----------------------------------------------------------------------------
(* What the documents promise and the code does not keep: README, section 3. *)

\* A failed send leaves the handoff standing: without a failed write it is
\* never given up while the bot runs.
HandoffStands == (pc \notin {"off", "plain"} /\ faults = 0) => state # NoState
=============================================================================
