------------------------- MODULE GridReferenceProofs -------------------------
(***************************************************************************)
(* Which reference counts, for any number of advices, restarts and failed  *)
(* writes.                                                                 *)
(***************************************************************************)
EXTENDS GridReference, SequenceTheorems, TLAPS

Session == [seq : 0..MaxRefs, ref : 0..MaxRefs, pending : 0..MaxRefs,
            status : {"ACTIVE", "NO_ACTIVE_REFERENCE",
                      "SYNC_UNCERTAIN", "CLOSED"}]
Row == [sid : 0..MaxStarts, seq : 0..MaxRefs, status : SendStatus,
        confirmed : BOOLEAN]

\* The numbers in use are of sessions and advices that there have been.
Numbers ==
  /\ Len(sessions) <= starts
  /\ Len(refs) <= MaxRefs
  /\ \A r \in DOMAIN refs : refs[r].sid <= Len(sessions)
  /\ state # NoState =>
       /\ state.sid = Len(sessions) /\ state.sid # 0
       /\ state.seq <= Len(refs) /\ state.ref <= Len(refs)
       /\ state.pending <= Len(refs)

\* The handoff is there while the bot uses it, and the thread carries the
\* session of the bot.
Handoff ==
  /\ state = NoState => pc \in {"off", "idle", "plain"} /\ beat = NoState
  /\ pc \in {"off", "plain"} => state = NoState
  /\ again \/ pc = "plain" => refs # <<>>
  /\ beat # NoState => beat.sid = Len(sessions) /\ beat.sid # 0

\* The advice being sent has the next number and no result yet.
Sending ==
  /\ pc \in {"pending", "sending", "sent", "failed"} =>
       /\ refs # <<>>
       /\ state.pending = state.seq + 1
       /\ refs[Current].sid = state.sid
       /\ refs[Current].seq = state.pending
       /\ refs[Current].status = "PREPARED"
  /\ pc = "sent" => refs[Current].confirmed
  /\ tx = "sent" => /\ pc \in {"uncertain", "close"}
                    /\ refs # <<>>
                    /\ refs[Current].sid = state.sid
                    /\ refs[Current].seq = state.seq + 1
                    /\ refs[Current].status = "PREPARED"
                    /\ refs[Current].confirmed

Before(r, s) ==
  \/ refs[r].sid < refs[s].sid
  \/ refs[r].sid = refs[s].sid /\ refs[r].seq < refs[s].seq

\* What was sent was confirmed, and later references have later numbers.
Ordered ==
  /\ \A r \in SentRefs : refs[r].confirmed
  /\ \A r, s \in SentRefs : r < s => Before(r, s)
  /\ SentRefs # {} => \E r \in SentRefs : \A s \in SentRefs : s <= r

\* The bot is at the last number of its session, or one ahead of it with a
\* result that is not committed.
Counts == pc \notin {"uncertain", "close"} /\ state # NoState
Numbered ==
  Counts => \A r \in SentRefs : refs[r].sid = state.sid
                                  => refs[r].seq <= state.seq
Uncommitted == tx = "sent" => \A r \in SentRefs : Before(r, Current)

Sent == Ordered /\ Numbered /\ Uncommitted

\* What was confirmed without a row came before the rows of this session.
Unsent ==
  pc \notin {"uncertain", "close"} /\ state # NoState =>
    \A r, s \in DOMAIN refs :
      /\ refs[r].confirmed
      /\ pc = "sent" => r # Current
      /\ refs[r].status # "SENT"
      /\ refs[s].sid = state.sid
      => r < s

Inv == TypeOK /\ Numbers /\ Handoff /\ Sending /\ Sent /\ Unsent

-----------------------------------------------------------------------------
(* What the writes do to the tables.                                       *)

LEMMA Tables == TypeOK => sessions \in Seq(Session) /\ refs \in Seq(Row)
BY DEF TypeOK, Session, Row

LEMMA Rows ==
  ASSUME TypeOK
  PROVE  /\ DOMAIN refs = 1..Len(refs) /\ Len(refs) \in Nat
         /\ \A r \in DOMAIN refs :
              /\ refs[r] \in Row /\ refs[r].sid \in Nat /\ refs[r].seq \in Nat
              /\ refs[r].confirmed \in BOOLEAN
<1>1. DOMAIN refs = 1..Len(refs) /\ Len(refs) \in Nat
  BY Tables
<1>2. \A r \in DOMAIN refs : refs[r] \in Row
  BY <1>1, Tables, ElementOfSeq
<1> QED
  BY <1>1, <1>2 DEF Row

LEMMA SessionWritten ==
  ASSUME TypeOK, NEW s \in State, s.sid \in DOMAIN sessions,
         NEW status \in {"ACTIVE", "NO_ACTIVE_REFERENCE", "SYNC_UNCERTAIN",
                         "CLOSED"},
         WriteSession(s, status)
  PROVE  /\ sessions' \in Seq(Session) /\ Len(sessions') = Len(sessions)
         /\ fresh' = TRUE
<1> DEFINE row == [seq |-> s.seq, ref |-> s.ref, pending |-> s.pending,
                   status |-> status]
<1>1. row \in Session
  BY DEF State, Session
<1>2. sessions' = [sessions EXCEPT ![s.sid] = row] /\ fresh' = TRUE
  BY DEF WriteSession
<1> HIDE DEF row
<1> QED
  BY <1>1, <1>2, Tables, ExceptSeq

LEMMA SessionsClosed ==
  ASSUME TypeOK,
         sessions' = [s \in DOMAIN sessions |->
                        [sessions[s] EXCEPT !.status = "CLOSED"]]
  PROVE  sessions' \in Seq(Session) /\ Len(sessions') = Len(sessions)
<1>1. DOMAIN sessions = 1..Len(sessions) /\ Len(sessions) \in Nat
  BY Tables
<1>2. \A s \in DOMAIN sessions :
        [sessions[s] EXCEPT !.status = "CLOSED"] \in Session
  <2> TAKE s \in DOMAIN sessions
  <2>1. sessions[s] \in Session
    BY Tables
  <2> QED
    BY <2>1 DEF Session
<1>3. sessions' \in [1..Len(sessions) -> Session]
  BY <1>1, <1>2
<1> QED
  BY <1>1, <1>3

\* The row of one advice changes, the others do not.
LEMMA RowSet ==
  ASSUME TypeOK, refs # <<>>, NEW row \in Row
  PROVE  LET new == [refs EXCEPT ![Current] = row] IN
         /\ new \in Seq(Row) /\ Len(new) = Len(refs)
         /\ new[Current] = row
         /\ \A r \in DOMAIN refs : r # Current => new[r] = refs[r]
<1>1. Current \in 1..Len(refs) /\ DOMAIN refs = 1..Len(refs)
  BY Tables DEF Current
<1> QED
  BY <1>1, Tables, ExceptSeq

LEMMA StatusSet ==
  ASSUME TypeOK, refs # <<>>, NEW status \in SendStatus
  PROVE  LET new == SetRef(Current, status) IN
         /\ new \in Seq(Row) /\ Len(new) = Len(refs)
         /\ new[Current] = [refs[Current] EXCEPT !.status = status]
         /\ \A r \in DOMAIN refs : r # Current => new[r] = refs[r]
<1> DEFINE row == [refs[Current] EXCEPT !.status = status]
<1>1. refs[Current] \in Row
  BY Tables DEF Current
<1>2. row \in Row
  BY <1>1 DEF Row
<1>3. SetRef(Current, status) = [refs EXCEPT ![Current] = row]
  BY DEF SetRef
<1> HIDE DEF row
<1>4. QED
  BY <1>2, <1>3, RowSet DEF row

LEMMA Confirmation ==
  ASSUME TypeOK, refs # <<>>, NEW b \in BOOLEAN,
         refs' = [refs EXCEPT ![Current].confirmed = b]
  PROVE  /\ refs' \in Seq(Row) /\ Len(refs') = Len(refs)
         /\ refs'[Current] = [refs[Current] EXCEPT !.confirmed = b]
         /\ \A r \in DOMAIN refs : r # Current => refs'[r] = refs[r]
<1> DEFINE row == [refs[Current] EXCEPT !.confirmed = b]
<1>1. refs[Current] \in Row
  BY Tables DEF Current
<1>2. row \in Row
  BY <1>1 DEF Row
<1>3. refs' = [refs EXCEPT ![Current] = row]
  OBVIOUS
<1> HIDE DEF row
<1>4. QED
  BY <1>2, <1>3, RowSet DEF row

LEMMA Appended ==
  ASSUME TypeOK, NEW row \in Row, refs' = Append(refs, row)
  PROVE  /\ refs' \in Seq(Row) /\ Len(refs') = Len(refs) + 1
         /\ refs'[Len(refs) + 1] = row
         /\ \A r \in DOMAIN refs : refs'[r] = refs[r]
BY Tables, AppendProperties

\* Of what a commit makes visible only a status can be new.
LEMMA Committed ==
  ASSUME TypeOK, tx = "sent" => refs # <<>>
  PROVE  /\ Commit \in Seq(Row) /\ Len(Commit) = Len(refs)
         /\ \A r \in DOMAIN refs :
              /\ Commit[r].sid = refs[r].sid
              /\ Commit[r].seq = refs[r].seq
              /\ Commit[r].confirmed = refs[r].confirmed
              /\ Commit[r].status = IF tx = "sent" /\ r = Current
                                    THEN "SENT" ELSE refs[r].status
<1>1. CASE tx = "sent"
  <2>1. /\ Commit \in Seq(Row) /\ Len(Commit) = Len(refs)
        /\ Commit[Current] = [refs[Current] EXCEPT !.status = "SENT"]
        /\ \A r \in DOMAIN refs : r # Current => Commit[r] = refs[r]
    BY <1>1, StatusSet DEF Commit, SendStatus
  <2>2. refs[Current] \in Row
    BY <1>1, Tables DEF Current
  <2> QED
    BY <1>1, <2>1, <2>2 DEF Row
<1>2. CASE tx # "sent"
  BY <1>2, Tables DEF Commit
<1> QED
  BY <1>1, <1>2

-----------------------------------------------------------------------------
(* Types and numbers.                                                      *)

\* What the types of the tables and of the rest make up.
LEMMA Typed ==
  ASSUME sessions' \in Seq(Session), refs' \in Seq(Row),
         tx' \in {"none", "sending", "sent"}, fresh' \in BOOLEAN, pc' \in PC,
         again' \in BOOLEAN, state' \in State \cup {NoState},
         beating' \in BOOLEAN, beat' \in State \cup {NoState},
         faults' \in 0..MaxFaults, starts' \in 0..MaxStarts
  PROVE  TypeOK'
BY DEF TypeOK, Session, Row

LEMMA InitInv == Init => Inv
<1> SUFFICES ASSUME Init PROVE Inv
  OBVIOUS
<1>1. TypeOK
  <2>1. faults \in 0..MaxFaults /\ starts \in 0..MaxStarts
    BY BoundsAssumption DEF Init
  <2>2. \A S : <<>> \in Seq(S)
    OBVIOUS
  <2> QED
    BY <2>1, <2>2 DEF Init, TypeOK, PC
<1>2. Numbers
  <2>1. Len(<<>>) = 0 /\ DOMAIN <<>> = {}
    OBVIOUS
  <2> QED
    BY <2>1, BoundsAssumption DEF Init, Numbers
<1>4. Handoff /\ Sending
  BY DEF Init, Handoff, Sending
<1>3. Sent /\ Unsent
  BY DEF Init, Sent, Ordered, Numbered, Uncommitted, Unsent, SentRefs
<1> QED
  BY <1>1, <1>2, <1>4, <1>3 DEF Inv

Base == TypeOK /\ Numbers /\ Handoff

\* The session of a state is in the table.
LEMMA SessionThere ==
  ASSUME Base
  PROVE  /\ state # NoState => /\ state \in State
                               /\ state.sid \in DOMAIN sessions
                               /\ sessions[state.sid] \in Session
         /\ beat # NoState => /\ beat \in State /\ beat.sid \in DOMAIN sessions
                              /\ sessions[beat.sid] \in Session
<1>1. DOMAIN sessions = 1..Len(sessions) /\ Len(sessions) \in Nat
  BY Tables DEF Base
<1>2. state # NoState => state.sid \in 1..Len(sessions)
  BY <1>1 DEF Base, TypeOK, State, Numbers
<1>3. beat # NoState => beat.sid \in 1..Len(sessions)
  BY <1>1 DEF Base, TypeOK, State, Handoff
<1> QED
  BY <1>1, <1>2, <1>3, Tables, ElementOfSeq DEF Base, TypeOK

LEMMA StartBase == ASSUME Inv, Start PROVE Base'
<1> DEFINE row == [seq |-> 0, ref |-> None, pending |-> None,
                   status |-> "ACTIVE"]
<1>1. row \in Session
  BY BoundsAssumption DEF Session, None
<1>2. sessions \in Seq(Session) /\ refs \in Seq(Row)
  BY Tables DEF Inv
<1>3. sessions' = Append(sessions, row)
  BY DEF Start
<1> HIDE DEF row
<1>4. sessions' \in Seq(Session) /\ Len(sessions') = Len(sessions) + 1
  BY <1>1, <1>2, <1>3, AppendProperties
<1>5. Len(sessions) \in Nat /\ Len(refs) \in Nat
  BY <1>2
<1>6. starts \in Nat /\ starts < MaxStarts /\ starts' = starts + 1
      /\ Len(sessions) <= starts
  BY DEF Start, Inv, Numbers, TypeOK
<1>7. /\ starts' \in 0..MaxStarts
      /\ Sid + 1 \in 1..MaxStarts
  BY <1>5, <1>6, BoundsAssumption DEF Sid
<1>8. /\ state' \in State
      /\ state'.sid = Sid + 1 /\ state'.seq = 0
      /\ state'.ref = 0 /\ state'.pending = 0
  BY <1>7, BoundsAssumption DEF Start, State, None
<1>9. TypeOK'
  BY <1>2, <1>4, <1>7, <1>8, Typed DEF Start, Inv, TypeOK, PC
<1>10. Numbers'
  <2>1. UNCHANGED refs /\ \A r \in DOMAIN refs : refs[r].sid \in Nat
    BY Rows DEF Start, Inv
  <2>2. \A r \in DOMAIN refs : refs[r].sid <= Len(sessions)
    BY DEF Inv, Numbers
  <2>3. Len(refs) <= MaxRefs
    BY DEF Inv, Numbers
  <2> QED
    BY <1>4, <1>5, <1>6, <1>8, <2>1, <2>2, <2>3 DEF Numbers, Sid
<1>11. Handoff'
  BY <1>8, NoStateAssumption DEF Start, Inv, Handoff
<1> QED
  BY <1>9, <1>10, <1>11 DEF Base

\* A step that starts no session, and neither adds nor renumbers an advice.
SameNumbers ==
  /\ sessions' \in Seq(Session) /\ Len(sessions') = Len(sessions)
  /\ refs' \in Seq(Row) /\ Len(refs') = Len(refs)
  /\ \A r \in DOMAIN refs : /\ refs'[r].sid = refs[r].sid
                            /\ refs'[r].seq = refs[r].seq

LEMMA NumbersSame ==
  ASSUME Inv, SameNumbers, UNCHANGED starts \/ starts' = starts + 1,
         state' = NoState \/ UNCHANGED state
  PROVE  Numbers'
<1>1. DOMAIN refs' = DOMAIN refs
  BY Rows DEF SameNumbers, Inv
<1>2. starts \in Nat /\ Len(sessions) \in Nat /\ Len(refs) \in Nat
  BY Tables DEF Inv, TypeOK
<1> QED
  BY <1>1, <1>2 DEF SameNumbers, Inv, Numbers

\* The tables as they are.
LEMMA SameTables ==
  ASSUME Inv, UNCHANGED <<sessions, refs>> PROVE SameNumbers
BY Tables DEF Inv, SameNumbers

\* The state the bot has after a write of its own.
LEMMA NumbersOfState ==
  ASSUME Inv, SameNumbers, UNCHANGED starts, state' \in State,
         state'.sid = state.sid, state # NoState,
         state'.seq <= Len(refs), state'.ref <= Len(refs),
         state'.pending <= Len(refs)
  PROVE  Numbers'
<1>1. DOMAIN refs' = DOMAIN refs
  BY Rows DEF SameNumbers, Inv
<1>2. starts \in Nat /\ Len(sessions) \in Nat /\ Len(refs) \in Nat
  BY Tables DEF Inv, TypeOK
<1> QED
  BY <1>1, <1>2 DEF SameNumbers, Inv, Numbers

\* A new advice has the session of the bot, or none.
LEMMA NumbersAppended ==
  ASSUME Inv, sessions' \in Seq(Session), Len(sessions') = Len(sessions),
         NEW row \in Row, refs' = Append(refs, row), Len(refs) < MaxRefs,
         row.sid <= Len(sessions), UNCHANGED starts,
         \/ UNCHANGED state
         \/ /\ state # NoState /\ state'.sid = state.sid
            /\ state'.seq = state.seq /\ state'.ref = state.ref
            /\ state'.pending <= Len(refs) + 1
  PROVE  Numbers'
<1>1. /\ refs' \in Seq(Row) /\ Len(refs') = Len(refs) + 1
      /\ refs'[Len(refs) + 1] = row
      /\ \A r \in DOMAIN refs : refs'[r] = refs[r]
  BY Appended DEF Inv
<1>2. /\ DOMAIN refs = 1..Len(refs) /\ Len(refs) \in Nat
      /\ DOMAIN refs' = 1..Len(refs')
  BY <1>1, Rows DEF Inv
<1>3. \A r \in DOMAIN refs' : refs'[r].sid <= Len(sessions)
  <2> TAKE r \in DOMAIN refs'
  <2>1. r \in DOMAIN refs \/ r = Len(refs) + 1
    BY <1>1, <1>2
  <2> QED
    BY <1>1, <2>1 DEF Inv, Numbers
<1>4. MaxRefs \in Nat /\ Len(refs') <= MaxRefs
  BY <1>1, <1>2, BoundsAssumption
<1>5. state # NoState => /\ state.seq \in Nat /\ state.ref \in Nat
                         /\ state.pending \in Nat
  BY DEF Inv, TypeOK, State
<1>6. state' # NoState =>
        /\ state'.sid = Len(sessions') /\ state'.sid # 0
        /\ state'.seq <= Len(refs') /\ state'.ref <= Len(refs')
        /\ state'.pending <= Len(refs')
  BY <1>1, <1>2, <1>5 DEF Inv, Numbers
<1> QED
  BY <1>3, <1>4, <1>6 DEF Inv, Numbers

\* Steps that leave the tables as they are.
LEMMA QuietBase ==
  ASSUME Inv,
         \/ StartWithoutExport \/ Crash \/ MarkSending \/ MarkFails
         \/ SignalRisk \/ ConfirmRiskRefused \/ SetUncertainFails \/ CloseFails
         \/ BeatRead \/ BeatTimeout \/ Silence \/ UNCHANGED vars
  PROVE  Base' /\ SameNumbers
<1> USE DEF database, bot, heart, counts
<1>1. UNCHANGED <<sessions, refs>> /\ (state' = NoState \/ UNCHANGED state)
  BY DEF StartWithoutExport, Crash, MarkSending, MarkFails, SignalRisk,
    ConfirmRiskRefused, SetUncertainFails, CloseFails, Forget, BeatRead,
    BeatTimeout, Silence, Fault, vars
<1>2. faults' \in 0..MaxFaults /\ starts' \in 0..MaxStarts
  <2>1. (UNCHANGED faults \/ Fault)
        /\ (UNCHANGED starts \/ (starts < MaxStarts /\ starts' = starts + 1))
    BY DEF StartWithoutExport, Crash, MarkSending, MarkFails, SignalRisk,
      ConfirmRiskRefused, SetUncertainFails, CloseFails, BeatRead,
      BeatTimeout, Silence, vars
  <2> QED
    BY <2>1, BoundsAssumption DEF Inv, TypeOK, Fault
<1>3. UNCHANGED starts \/ starts' = starts + 1
  BY DEF StartWithoutExport, Crash, MarkSending, MarkFails, SignalRisk,
    ConfirmRiskRefused, SetUncertainFails, CloseFails, BeatRead,
    BeatTimeout, Silence, Fault, vars
<1>4. /\ tx' \in {"none", "sending", "sent"} /\ pc' \in PC
      /\ fresh' \in BOOLEAN /\ beating' \in BOOLEAN /\ again' \in BOOLEAN
  BY Zenon DEF Inv, TypeOK, PC, StartWithoutExport, Crash, MarkSending,
    MarkFails, SignalRisk, ConfirmRiskRefused, Abort, SetUncertainFails,
    CloseFails,
    Forget, BeatRead, BeatTimeout, Silence, Fault, vars
<1>5. state' \in State \cup {NoState} /\ beat' \in State \cup {NoState}
  BY DEF Inv, TypeOK, StartWithoutExport, Crash, MarkSending, MarkFails,
    SignalRisk, ConfirmRiskRefused, SetUncertainFails, CloseFails,
    Forget, BeatRead, BeatTimeout, Silence, Fault, vars
<1>6. SameNumbers
  BY <1>1, SameTables
<1>7. Numbers'
  BY <1>1, <1>3, <1>6, NumbersSame
<1>8. TypeOK'
  BY <1>1, <1>2, <1>4, <1>5, <1>6, Typed DEF SameNumbers
<1>9. Handoff'
  <2>1. CASE StartWithoutExport \/ SignalRisk
    BY <1>1, <2>1 DEF Inv, Handoff, StartWithoutExport, SignalRisk
  <2>2. CASE Crash \/ MarkSending \/ MarkFails
    BY <1>1, <2>2 DEF Inv, Handoff, Sending, Crash, MarkSending, MarkFails,
      Abort
  <2>3. CASE ConfirmRiskRefused \/ SetUncertainFails
    BY <1>1, <2>3 DEF Inv, Handoff, ConfirmRiskRefused, SetUncertainFails,
      Abort
  <2>4. CASE CloseFails
    BY <1>1, <2>4 DEF Inv, Handoff, CloseFails, Forget
  <2>5. CASE BeatRead
    <3>1. state # NoState /\ beat' = state
      BY <2>5 DEF BeatRead
    <3>2. state.sid = Len(sessions) /\ state.sid # 0
      BY <3>1 DEF Inv, Numbers
    <3> QED
      BY <1>1, <2>5, <3>1, <3>2 DEF Inv, Handoff, BeatRead
  <2>6. CASE BeatTimeout \/ Silence \/ UNCHANGED vars
    BY <1>1, <2>6 DEF Inv, Handoff, BeatTimeout, Silence, vars
  <2> QED
    BY <2>1, <2>2, <2>3, <2>4, <2>5, <2>6
<1> QED
  BY <1>6, <1>7, <1>8, <1>9 DEF Base

\* Steps that write the row of the session alone.
LEMMA SessionBase ==
  ASSUME Inv, Stop \/ ConfirmRisk \/ BeatWrite
  PROVE  Base' /\ SameNumbers
<1> USE DEF database, bot, heart, counts
<1>1. sessions \in Seq(Session) /\ refs \in Seq(Row)
  BY Tables DEF Inv
<1>2. SameNumbers /\ fresh' \in BOOLEAN
  <2>1. CASE Stop
    BY <1>1, <2>1, SessionsClosed DEF Stop, SameNumbers, Inv, TypeOK
  <2>2. CASE ConfirmRisk
    <3>1. state \in State /\ state.sid \in DOMAIN sessions
      BY <2>2, SessionThere DEF ConfirmRisk, Inv, Base, Handoff
    <3>2. \E st \in {"ACTIVE", "NO_ACTIVE_REFERENCE"} : WriteSession(state, st)
      BY <2>2 DEF ConfirmRisk
    <3> QED
      BY <1>1, <2>2, <3>1, <3>2, SessionWritten
      DEF ConfirmRisk, SameNumbers, Inv
  <2>3. CASE BeatWrite
    <3>1. beat \in State /\ beat.sid \in DOMAIN sessions
          /\ sessions[beat.sid] \in Session
      BY <2>3, SessionThere DEF BeatWrite, Inv, Base
    <3>2. sessions[beat.sid].status \in {"ACTIVE", "NO_ACTIVE_REFERENCE",
                                         "SYNC_UNCERTAIN", "CLOSED"}
      BY <3>1 DEF Session
    <3>3. CASE Running(sessions[beat.sid].status)
      <4>1. WriteSession(beat, sessions[beat.sid].status)
        BY <2>3, <3>3 DEF BeatWrite
      <4> QED
        BY <1>1, <2>3, <3>1, <3>2, <4>1, SessionWritten
        DEF BeatWrite, SameNumbers, Inv
    <3>4. CASE ~Running(sessions[beat.sid].status)
      BY <1>1, <2>3, <3>4 DEF BeatWrite, SameNumbers, Inv, TypeOK
    <3> QED
      BY <3>3, <3>4
  <2> QED
    BY <2>1, <2>2, <2>3
<1>3. UNCHANGED <<tx, again, faults, starts>>
      /\ (state' = NoState \/ UNCHANGED state)
  BY DEF Stop, ConfirmRisk, BeatWrite
<1>4. pc' \in PC /\ beating' \in BOOLEAN
      /\ beat' \in State \cup {NoState} /\ state' \in State \cup {NoState}
  BY DEF Inv, TypeOK, PC, Stop, ConfirmRisk, BeatWrite
<1>5. TypeOK'
  BY <1>2, <1>3, <1>4, Typed DEF SameNumbers, Inv, TypeOK
<1>6. Numbers'
  BY <1>2, <1>3, NumbersSame
<1>7. Handoff'
  BY <1>2, <1>3 DEF Inv, Handoff, SameNumbers, Stop, ConfirmRisk, BeatWrite
<1> QED
  BY <1>2, <1>5, <1>6, <1>7 DEF Base

\* What Prepare appends, and the state after it.
LEMMA PrepareRow ==
  ASSUME Inv, Prepare
  PROVE  /\ state \in State /\ state' \in State
         /\ state' = [state EXCEPT !.pending = state.seq + 1]
         /\ Len(refs) < MaxRefs
         /\ sessions' \in Seq(Session) /\ Len(sessions') = Len(sessions)
         /\ fresh' = TRUE
         /\ \E row \in Row :
              /\ refs' = Append(refs, row)
              /\ row.sid = state.sid /\ row.seq = state.seq + 1
              /\ row.status = "PREPARED" /\ ~row.confirmed
<1>1. state # NoState /\ Len(refs) < MaxRefs
  BY DEF Prepare, SignalNumeric
<1>2. state \in State /\ state.sid \in DOMAIN sessions
  BY <1>1, SessionThere DEF Inv, Base
<1>3. state.seq <= Len(refs) /\ Len(refs) \in Nat
  BY <1>1, Rows DEF Inv, Numbers
<1>4. state.seq + 1 \in 0..MaxRefs /\ state.sid \in 0..MaxStarts
  BY <1>1, <1>2, <1>3, BoundsAssumption DEF State
<1> DEFINE s == [state EXCEPT !.pending = state.seq + 1]
           row == [Advice EXCEPT !.sid = state.sid, !.seq = state.seq + 1,
                     !.status = "PREPARED"]
<1>5. s \in State /\ s.sid = state.sid
  BY <1>2, <1>4 DEF State
<1>6. /\ row \in Row /\ row.sid = state.sid /\ row.seq = state.seq + 1
      /\ row.status = "PREPARED" /\ ~row.confirmed
  BY <1>4 DEF Advice, Row, SendStatus
<1>7. /\ \E st \in {"ACTIVE", "NO_ACTIVE_REFERENCE"} : WriteSession(s, st)
      /\ refs' = Append(refs, row) /\ state' = s
  BY DEF Prepare
<1>8. /\ sessions' \in Seq(Session) /\ Len(sessions') = Len(sessions)
      /\ fresh' = TRUE
  BY <1>2, <1>5, <1>7, SessionWritten DEF Inv
<1> HIDE DEF row
<1> QED
  BY <1>1, <1>2, <1>5, <1>6, <1>7, <1>8

LEMMA AppendBase ==
  ASSUME Inv, Prepare \/ PrepareRefused \/ SignalUntracked
  PROVE  Base'
<1>1. CASE Prepare
  <2>1. PICK row \in Row :
          /\ refs' = Append(refs, row)
          /\ row.sid = state.sid /\ row.seq = state.seq + 1
          /\ row.status = "PREPARED" /\ ~row.confirmed
    BY <1>1, PrepareRow
  <2>2. /\ state \in State /\ state' \in State
        /\ state' = [state EXCEPT !.pending = state.seq + 1]
        /\ Len(refs) < MaxRefs
        /\ sessions' \in Seq(Session) /\ Len(sessions') = Len(sessions)
        /\ fresh' = TRUE
    BY <1>1, PrepareRow
  <2>3. refs' \in Seq(Row)
    BY <2>1, Appended DEF Inv
  <2>4. /\ pc' = "pending" /\ state # NoState
        /\ UNCHANGED <<tx, again, beating, beat, faults, starts>>
    BY <1>1 DEF Prepare, heart, counts
  <2>5. /\ state'.sid = state.sid /\ state'.seq = state.seq
        /\ state'.ref = state.ref /\ state'.pending = state.seq + 1
    BY <2>2 DEF State
  <2>6. TypeOK'
    BY <2>2, <2>3, <2>4, Typed DEF Inv, TypeOK, PC
  <2>7. state.seq <= Len(refs) /\ row.sid <= Len(sessions)
    BY <2>1, <2>4, Rows DEF Inv, Numbers
  <2>8. Numbers'
    <3>1. state'.pending <= Len(refs) + 1
      BY <2>2, <2>5, <2>7, Rows DEF Inv, State
    <3> QED
      BY <2>1, <2>2, <2>4, <2>5, <2>7, <3>1, NumbersAppended
  <2>9. Handoff'
    <3>1. refs' # <<>>
      BY <2>1, Appended, Rows DEF Inv
    <3> QED
      BY <2>2, <2>4, <3>1, NoStateAssumption DEF Inv, Handoff
  <2> QED
    BY <2>6, <2>8, <2>9 DEF Base
<1>2. CASE PrepareRefused \/ SignalUntracked
  <2>0. 0 \in 0..MaxStarts /\ 0 \in 0..MaxRefs
    BY BoundsAssumption
  <2>1. /\ Advice \in Row /\ Advice.sid = 0 /\ refs' = Append(refs, Advice)
        /\ Len(refs) < MaxRefs
    <3>1. Advice \in Row /\ Advice.sid = 0
      BY <2>0 DEF Advice, Row, SendStatus, None
    <3>2. refs' = Append(refs, Advice) /\ SignalNumeric
      BY <1>2 DEF PrepareRefused, SignalUntracked
    <3> QED
      BY <3>1, <3>2 DEF SignalNumeric
  <2>2. refs' \in Seq(Row) /\ Len(refs') = Len(refs) + 1 /\ Len(refs) \in Nat
    BY <2>1, Appended, Rows DEF Inv
  <2>3. /\ UNCHANGED <<sessions, tx, fresh, state, beating, beat, starts>>
        /\ UNCHANGED faults \/ Fault
    BY <1>2 DEF PrepareRefused, SignalUntracked, heart, counts
  <2>4. pc' \in {"uncertain", "plain"} /\ again' \in BOOLEAN
        /\ (pc' = "plain" <=> state = NoState)
    BY <1>2 DEF PrepareRefused, SignalUntracked, Abort, Inv, TypeOK
  <2>5. faults' \in 0..MaxFaults
    BY <2>3, BoundsAssumption DEF Fault, Inv, TypeOK
  <2>6. sessions' \in Seq(Session) /\ Len(sessions') = Len(sessions)
        /\ Len(sessions) \in Nat
    BY <2>3, Tables DEF Inv
  <2>7. TypeOK'
    BY <2>2, <2>3, <2>4, <2>5, <2>6, Typed DEF Inv, TypeOK, PC
  <2>8. Numbers'
    BY <2>1, <2>3, <2>6, NumbersAppended
  <2>9. Handoff'
    <3>1. refs' # <<>>
      BY <2>2
    <3> QED
      BY <2>3, <2>4, <3>1 DEF Inv, Handoff
  <2> QED
    BY <2>7, <2>8, <2>9 DEF Base
<1> QED
  BY <1>1, <1>2

\* Notify and NotifyUntracked change at most what is confirmed.
LEMMA NotifyRows ==
  ASSUME Inv, Notify \/ NotifyUntracked
  PROVE  /\ SameNumbers /\ refs # <<>>
         /\ \A r \in DOMAIN refs : /\ refs'[r].status = refs[r].status
                                   /\ r # Current => refs'[r] = refs[r]
         /\ Notify => (pc' = "sent" <=> refs'[Current].confirmed)
         /\ NotifyUntracked =>
              (refs[Current].confirmed => refs'[Current].confirmed)
<1>1. refs # <<>>
  BY DEF Inv, Sending, Handoff, Notify, NotifyUntracked
<1>2. /\ DOMAIN refs = 1..Len(refs) /\ Len(refs) \in Nat
      /\ Current \in DOMAIN refs /\ refs[Current] \in Row
  BY <1>1, Rows, Tables DEF Inv, Current
<1>3. PICK b \in BOOLEAN :
        /\ refs' = [refs EXCEPT ![Current].confirmed = b]
        /\ Notify => pc' = IF b THEN "sent" ELSE "failed"
        /\ NotifyUntracked => (refs[Current].confirmed => b)
  <2>1. CASE Notify
    BY <2>1 DEF Notify, NotifyUntracked
  <2>2. CASE NotifyUntracked
    <3>1. refs[Current].confirmed \in BOOLEAN
      BY <1>2 DEF Row
    <3>2. PICK c \in BOOLEAN :
            refs' = [refs EXCEPT ![Current].confirmed = @ \/ c]
      BY <2>2 DEF NotifyUntracked
    <3>3. refs' = [refs EXCEPT ![Current].confirmed =
                     refs[Current].confirmed \/ c]
      BY <3>2
    <3>4. ~Notify
      BY <2>2 DEF Notify, NotifyUntracked
    <3> QED
      BY <3>1, <3>3, <3>4
  <2> QED
    BY <2>1, <2>2
<1>4. /\ refs' \in Seq(Row) /\ Len(refs') = Len(refs)
      /\ refs'[Current] = [refs[Current] EXCEPT !.confirmed = b]
      /\ \A r \in DOMAIN refs : r # Current => refs'[r] = refs[r]
  BY <1>1, <1>3, Confirmation DEF Inv
<1>5. /\ refs'[Current].sid = refs[Current].sid
      /\ refs'[Current].seq = refs[Current].seq
      /\ refs'[Current].status = refs[Current].status
      /\ refs'[Current].confirmed = b
  BY <1>2, <1>4 DEF Row
<1>6. UNCHANGED sessions
  BY DEF Notify, NotifyUntracked
<1>7. SameNumbers
  BY <1>2, <1>4, <1>5, <1>6, Tables DEF SameNumbers, Inv
<1> QED
  BY <1>1, <1>3, <1>4, <1>5, <1>7

\* MarkSent and MarkFailed write the row of the advice and the session.
LEMMA MarkRows ==
  ASSUME Inv, NEW status \in {"SENT", "FAILED"},
         IF status = "SENT" THEN MarkSent ELSE MarkFailed
  PROVE  /\ SameNumbers /\ refs # <<>> /\ state \in State
         /\ state' = IF status = "SENT"
                     THEN [state EXCEPT !.seq = state.pending,
                             !.ref = Current, !.pending = None]
                     ELSE [state EXCEPT !.pending = None]
         /\ state' \in State /\ state # NoState
         /\ fresh' = TRUE /\ pc' = "idle" /\ tx' = "none"
         /\ refs'[Current].status = status
         /\ refs'[Current].confirmed = refs[Current].confirmed
         /\ \A r \in DOMAIN refs : r # Current => refs'[r] = refs[r]
<1>1. pc \in {"sent", "failed"} /\ refs # <<>> /\ state # NoState
  BY DEF MarkSent, MarkFailed, Inv, Sending, Handoff
<1>2. state \in State /\ state.sid \in DOMAIN sessions
  BY <1>1, SessionThere DEF Inv, Base
<1>3. /\ DOMAIN refs = 1..Len(refs) /\ Len(refs) \in Nat
      /\ Current \in DOMAIN refs /\ refs[Current] \in Row
      /\ Len(refs) <= MaxRefs
  BY <1>1, Rows, Tables DEF Inv, Current, Numbers
<1> DEFINE s == IF status = "SENT"
                THEN [state EXCEPT !.seq = state.pending, !.ref = Current,
                        !.pending = None]
                ELSE [state EXCEPT !.pending = None]
<1>4. Current \in 0..MaxRefs /\ None \in 0..MaxRefs
  BY <1>3, BoundsAssumption DEF None
<1>5. s \in State /\ s.sid = state.sid
  BY <1>2, <1>4 DEF State
<1>6. /\ \E st \in {"ACTIVE", "NO_ACTIVE_REFERENCE"} : WriteSession(s, st)
      /\ refs' = SetRef(Current, status) /\ state' = s
      /\ pc' = "idle" /\ tx' = "none"
  <2>1. CASE status = "SENT"
    BY <2>1 DEF MarkSent
  <2>2. CASE status = "FAILED"
    BY <2>2 DEF MarkFailed
  <2> QED
    BY <2>1, <2>2
<1>7. /\ sessions' \in Seq(Session) /\ Len(sessions') = Len(sessions)
      /\ fresh' = TRUE
  BY <1>2, <1>5, <1>6, SessionWritten DEF Inv
<1>8. /\ refs' \in Seq(Row) /\ Len(refs') = Len(refs)
      /\ refs'[Current] = [refs[Current] EXCEPT !.status = status]
      /\ \A r \in DOMAIN refs : r # Current => refs'[r] = refs[r]
  BY <1>1, <1>6, StatusSet DEF Inv, SendStatus
<1>9. /\ refs'[Current].sid = refs[Current].sid
      /\ refs'[Current].seq = refs[Current].seq
      /\ refs'[Current].status = status
      /\ refs'[Current].confirmed = refs[Current].confirmed
  BY <1>3, <1>8 DEF Row
<1>10. SameNumbers
  BY <1>3, <1>7, <1>8, <1>9 DEF SameNumbers
<1> HIDE DEF s
<1> QED
  BY <1>1, <1>2, <1>5, <1>6, <1>7, <1>8, <1>9, <1>10 DEF s

\* SetUncertain and Close make visible what was not committed.
LEMMA CommitRows ==
  ASSUME Inv, SetUncertain \/ Close
  PROVE  /\ SameNumbers /\ refs' = Commit /\ fresh' \in BOOLEAN
         /\ tx = "sent" => refs # <<>>
<1>1. tx = "sent" => refs # <<>>
  BY DEF Inv, Sending
<1>2. refs' = Commit
  BY DEF SetUncertain, Close
<1>3. /\ Commit \in Seq(Row) /\ Len(Commit) = Len(refs)
      /\ \A r \in DOMAIN refs : /\ Commit[r].sid = refs[r].sid
                                /\ Commit[r].seq = refs[r].seq
  BY <1>1, Committed DEF Inv
<1>4. sessions' \in Seq(Session) /\ Len(sessions') = Len(sessions)
      /\ fresh' \in BOOLEAN
  <2>1. CASE SetUncertain
    <3>1. state \in State /\ state.sid \in DOMAIN sessions
      BY <2>1, SessionThere DEF SetUncertain, Inv, Base, Handoff
    <3>2. WriteSession(state, "SYNC_UNCERTAIN")
      BY <2>1 DEF SetUncertain
    <3> QED
      BY <3>1, <3>2, SessionWritten DEF Inv
  <2>2. CASE Close
    BY <2>2, SessionsClosed DEF Close, Inv, TypeOK
  <2> QED
    BY <2>1, <2>2
<1> QED
  BY <1>1, <1>2, <1>3, <1>4 DEF SameNumbers

LEMMA AdviceBase ==
  ASSUME Inv, Send \/ SetUncertain \/ Close
  PROVE  Base'
<1> USE DEF heart, counts
<1>1. CASE MarkSending
  BY <1>1, QuietBase
<1>2. CASE Notify \/ NotifyUntracked
  <2>1. SameNumbers /\ refs # <<>>
    BY <1>2, NotifyRows
  <2>2. UNCHANGED <<tx, fresh, again, state, beating, beat, faults, starts>>
        /\ pc' \in {"sent", "failed", "idle"}
    BY <1>2 DEF Notify, NotifyUntracked
  <2>3. TypeOK'
    BY <2>1, <2>2, Typed DEF SameNumbers, Inv, TypeOK, PC
  <2>4. Numbers'
    BY <2>1, <2>2, NumbersSame
  <2>5. refs' # <<>>
    BY <2>1, Rows DEF SameNumbers, Inv
  <2>6. Handoff'
    BY <1>2, <2>1, <2>2, <2>5
    DEF Inv, Handoff, SameNumbers, Notify, NotifyUntracked
  <2> QED
    BY <2>3, <2>4, <2>6 DEF Base
<1>3. CASE MarkSent \/ MarkFailed
  <2>1. PICK st \in {"SENT", "FAILED"} :
          IF st = "SENT" THEN MarkSent ELSE MarkFailed
    BY <1>3
  <2>2. /\ SameNumbers /\ refs # <<>> /\ state \in State
        /\ state' = IF st = "SENT"
                    THEN [state EXCEPT !.seq = state.pending,
                            !.ref = Current, !.pending = None]
                    ELSE [state EXCEPT !.pending = None]
        /\ state' \in State /\ state # NoState
        /\ fresh' = TRUE /\ pc' = "idle" /\ tx' = "none"
    BY <2>1, MarkRows
  <2>3. UNCHANGED <<again, beating, beat, faults, starts>>
    BY <1>3 DEF MarkSent, MarkFailed
  <2>4. TypeOK'
    BY <2>2, <2>3, Typed DEF SameNumbers, Inv, TypeOK, PC
  <2>5. /\ state.seq <= Len(refs) /\ state.ref <= Len(refs)
        /\ state.pending <= Len(refs)
    BY <2>2 DEF Inv, Numbers
  <2>6. /\ state'.sid = state.sid /\ state'.seq \in {state.seq, state.pending}
        /\ state'.ref \in {state.ref, Len(refs)} /\ state'.pending = 0
    BY <2>2 DEF State, None, Current
  <2>7. Numbers'
    BY <2>2, <2>3, <2>5, <2>6, Rows, NumbersOfState DEF Inv
  <2>8. Handoff'
    <3>1. Len(refs') # 0
      BY <2>2, Rows DEF SameNumbers, Inv
    <3>2. state' # NoState /\ refs' # <<>>
      BY <2>2, <3>1, NoStateAssumption
    <3> QED
      BY <2>2, <2>3, <3>2 DEF Inv, Handoff, SameNumbers
  <2> QED
    BY <2>4, <2>7, <2>8 DEF Base
<1>4. CASE SetUncertain \/ Close
  <2>1. SameNumbers /\ fresh' \in BOOLEAN
    BY <1>4, CommitRows
  <2>2. /\ tx' = "none" /\ UNCHANGED <<beat, faults, starts>>
        /\ state' = NoState \/ UNCHANGED state
        /\ pc' \in {"close", "plain", "idle"}
        /\ again' \in BOOLEAN /\ beating' \in BOOLEAN
    BY <1>4 DEF SetUncertain, Close, Forget, Inv, TypeOK
  <2>3. TypeOK'
    BY <2>1, <2>2, Typed DEF SameNumbers, Inv, TypeOK, PC
  <2>4. Numbers'
    BY <2>1, <2>2, NumbersSame
  <2>5. refs # <<>> => refs' # <<>>
    BY <2>1, Rows DEF SameNumbers, Inv
  <2>6. Handoff'
    <3>1. CASE SetUncertain
      BY <2>1, <2>2, <2>5, <3>1 DEF Inv, Handoff, SameNumbers, SetUncertain
    <3>2. CASE Close
      BY <2>1, <2>2, <2>5, <3>2 DEF Inv, Handoff, SameNumbers, Close, Forget
    <3> QED
      BY <1>4, <3>1, <3>2
  <2> QED
    BY <2>3, <2>4, <2>6 DEF Base
<1> QED
  BY <1>1, <1>2, <1>3, <1>4 DEF Send

LEMMA NextBase == ASSUME Inv, [Next]_vars PROVE Base'
BY StartBase, QuietBase, SessionBase, AppendBase, AdviceBase
DEF Next, GiveUp, Beat

-----------------------------------------------------------------------------
(* The advice being sent.                                                  *)

LEMMA NextSending == ASSUME Inv, [Next]_vars PROVE Sending'
<1> USE DEF database, bot, heart, counts
<1>1. CASE Prepare
  <2>1. PICK row \in Row :
          /\ refs' = Append(refs, row)
          /\ row.sid = state.sid /\ row.seq = state.seq + 1
          /\ row.status = "PREPARED" /\ ~row.confirmed
    BY <1>1, PrepareRow
  <2>2. /\ state'.sid = state.sid /\ state'.seq = state.seq
        /\ state'.pending = state.seq + 1
    BY <1>1, PrepareRow DEF State
  <2>3. /\ refs'[Len(refs) + 1] = row /\ Len(refs') = Len(refs) + 1
        /\ Len(refs) \in Nat
    BY <2>1, Appended, Rows DEF Inv
  <2>4. refs' # <<>> /\ refs'[Current'] = row
    BY <2>3 DEF Current
  <2>5. pc' = "pending" /\ tx' # "sent"
    BY <1>1 DEF Prepare, SignalNumeric, Inv, Sending
  <2> QED
    BY <2>1, <2>2, <2>4, <2>5 DEF Sending
<1>2. CASE Notify \/ NotifyUntracked
  <2>1. /\ SameNumbers /\ refs # <<>>
        /\ \A r \in DOMAIN refs : refs'[r].status = refs[r].status
        /\ Notify => (pc' = "sent" <=> refs'[Current].confirmed)
    BY <1>2, NotifyRows
  <2>2. Current \in DOMAIN refs /\ Current' = Current /\ refs' # <<>>
    BY <2>1, Rows DEF Inv, Current, SameNumbers
  <2>3. tx' # "sent" /\ UNCHANGED state
    BY <1>2 DEF Notify, NotifyUntracked, Inv, Sending
  <2>4. CASE Notify
    BY <2>1, <2>2, <2>3, <2>4 DEF Notify, Inv, Sending, SameNumbers
  <2>5. CASE NotifyUntracked
    BY <2>3, <2>5 DEF NotifyUntracked, Sending
  <2> QED
    BY <1>2, <2>4, <2>5
<1>3. CASE Start \/ StartWithoutExport \/ Crash \/ Stop
  BY <1>3 DEF Start, StartWithoutExport, Crash, Stop, Inv, Sending
<1>4. CASE PrepareRefused \/ SignalUntracked
  BY <1>4 DEF PrepareRefused, SignalUntracked, SignalNumeric, Abort, Inv,
    Sending
<1>5. CASE SignalRisk \/ ConfirmRisk \/ ConfirmRiskRefused
  BY <1>5 DEF SignalRisk, ConfirmRisk, ConfirmRiskRefused, Abort, Inv, Sending
<1>6. CASE MarkSending
  BY <1>6 DEF MarkSending, Inv, Sending, Current
<1>7. CASE MarkSent \/ MarkFailed
  BY <1>7 DEF MarkSent, MarkFailed, Sending
<1>8. CASE MarkFails
  BY <1>8 DEF MarkFails, Abort, Inv, Sending, Current
<1>9. CASE SetUncertain \/ Close \/ CloseFails
  BY <1>9 DEF SetUncertain, Close, CloseFails, Forget, Sending
<1>10. CASE SetUncertainFails
  BY <1>10 DEF SetUncertainFails, Inv, Sending, Current
<1>11. CASE Beat \/ Silence \/ UNCHANGED vars
  BY <1>11 DEF Beat, BeatRead, BeatWrite, BeatTimeout, Silence, vars, Inv,
    Sending, Current
<1> QED
  BY <1>1, <1>2, <1>3, <1>4, <1>5, <1>6, <1>7, <1>8, <1>9, <1>10, <1>11
  DEF Next, Send, GiveUp

-----------------------------------------------------------------------------
(* What was sent.                                                          *)

\* The references sent stay the same, with their numbers.
LEMMA OrderedSame ==
  ASSUME Ordered, SentRefs' = SentRefs,
         \A r \in SentRefs : /\ refs'[r].sid = refs[r].sid
                             /\ refs'[r].seq = refs[r].seq
                             /\ refs'[r].confirmed = refs[r].confirmed
  PROVE  Ordered'
BY DEF Ordered, Before

\* The advice being sent becomes the latest reference sent.
LEMMA OrderedMore ==
  ASSUME Inv, SameNumbers, refs # <<>>, SentRefs' = SentRefs \cup {Current},
         \A r \in DOMAIN refs : refs'[r].confirmed = refs[r].confirmed,
         refs[Current].confirmed,
         \A r \in SentRefs : r # Current => Before(r, Current)
  PROVE  Ordered'
<1>1. /\ DOMAIN refs = 1..Len(refs) /\ Len(refs) \in Nat
      /\ Current \in DOMAIN refs
      /\ \A r \in DOMAIN refs : r \in Int /\ r <= Current
  BY Rows DEF Inv, Current
<1>2. \A r \in SentRefs' :
        /\ r \in DOMAIN refs /\ refs'[r].sid = refs[r].sid
        /\ refs'[r].seq = refs[r].seq
        /\ refs'[r].confirmed = refs[r].confirmed
  BY <1>1 DEF SentRefs, SameNumbers
<1>3. Ordered
  BY DEF Inv, Sent
<1>4. \A r \in SentRefs' : refs'[r].confirmed
  BY <1>2, <1>3 DEF Ordered
<1>5. \A r, s \in SentRefs' : r < s => Before(r, s)'
  <2> SUFFICES ASSUME NEW r \in SentRefs', NEW s \in SentRefs', r < s
               PROVE  Before(r, s)'
    OBVIOUS
  <2>1. r \in DOMAIN refs /\ s \in DOMAIN refs
    BY <1>2
  <2>2. r # Current
    BY <1>1, <2>1
  <2>3. Before(r, s)
    BY <1>3, <2>2 DEF Ordered
  <2> QED
    BY <1>2, <2>3 DEF Before
<1>6. Current \in SentRefs' /\ \A s \in SentRefs' : s <= Current
  BY <1>1, <1>2
<1> QED
  BY <1>4, <1>5, <1>6 DEF Ordered

\* Earlier references have earlier numbers than the advice being sent.
LEMMA BeforeCurrent ==
  ASSUME Inv, Counts, refs # <<>>, refs[Current].sid = state.sid,
         refs[Current].seq = state.seq + 1
  PROVE  \A r \in SentRefs : Before(r, Current)
<1>1. /\ DOMAIN refs = 1..Len(refs) /\ Current \in DOMAIN refs
      /\ state \in State
  BY Rows DEF Inv, Current, Counts, TypeOK
<1>2. state.sid = Len(sessions) /\ state.seq \in Nat /\ state.sid \in Nat
  BY <1>1 DEF Inv, Numbers, Counts, State
<1> SUFFICES ASSUME NEW r \in SentRefs PROVE Before(r, Current)
  OBVIOUS
<1>3. r \in DOMAIN refs /\ refs[r].sid <= state.sid
  BY <1>2 DEF SentRefs, Inv, Numbers
<1>4. refs[r].sid \in Nat /\ refs[r].seq \in Nat
  BY <1>3, Rows DEF Inv
<1>5. refs[r].sid = state.sid => refs[r].seq <= state.seq
  BY DEF Inv, Sent, Numbered
<1> QED
  BY <1>2, <1>3, <1>4, <1>5 DEF Before

\* Steps that leave the advices as they are.
LEMMA QuietSent ==
  ASSUME Inv,
         \/ Start \/ StartWithoutExport \/ Crash \/ Stop
         \/ SignalRisk \/ MarkSending \/ MarkFails
         \/ ConfirmRisk \/ ConfirmRiskRefused
         \/ SetUncertainFails \/ CloseFails \/ Beat \/ Silence
         \/ UNCHANGED vars
  PROVE  Sent'
<1> USE DEF database, bot, heart, counts
<1>1. UNCHANGED refs
  BY DEF Start, StartWithoutExport, Crash, Stop, SignalRisk, MarkSending,
    MarkFails, ConfirmRisk, ConfirmRiskRefused, SetUncertainFails, CloseFails,
    Beat, BeatRead, BeatWrite, BeatTimeout, Silence, vars
<1>2. SentRefs' = SentRefs /\ Current' = Current
  BY <1>1 DEF SentRefs, Current
<1>3. Ordered /\ Numbered /\ Uncommitted
  BY DEF Inv, Sent
<1>4. Ordered'
  BY <1>1, <1>2, <1>3, OrderedSame
<1>5. Numbered'
  <2>1. CASE Start
    <3>1. state'.sid = Len(sessions) + 1 /\ Len(sessions) \in Nat
      BY <2>1, Tables DEF Start, Sid, Inv
    <3>2. \A r \in SentRefs : refs[r].sid <= Len(sessions)
                              /\ refs[r].sid \in Nat
      BY Rows DEF SentRefs, Inv, Numbers
    <3> QED
      BY <1>1, <1>2, <3>1, <3>2 DEF Numbered
  <2>2. CASE ~Start
    <3>1. Counts' => Counts /\ UNCHANGED state
      BY <2>2 DEF StartWithoutExport, Crash, Stop, SignalRisk, MarkSending,
        MarkFails, Abort, ConfirmRisk, ConfirmRiskRefused, SetUncertainFails,
        CloseFails, Forget, Beat, BeatRead, BeatWrite, BeatTimeout, Silence,
        vars, Counts
    <3> QED
      BY <1>1, <1>2, <1>3, <3>1 DEF Numbered
  <2> QED
    BY <2>1, <2>2
<1>6. Uncommitted'
  <2>1. CASE MarkFails /\ tx' = "sent" /\ tx # "sent"
    <3>1. pc = "sent" /\ state # NoState
      BY <2>1 DEF MarkFails, Inv, Handoff
    <3>2. Counts /\ refs # <<>> /\ refs[Current].sid = state.sid
          /\ refs[Current].seq = state.seq + 1
      BY <3>1 DEF Counts, Inv, Sending
    <3>3. \A r \in SentRefs : Before(r, Current)
      BY <3>2, BeforeCurrent
    <3> QED
      BY <1>1, <1>2, <3>3 DEF Uncommitted, Before
  <2>2. CASE ~(MarkFails /\ tx' = "sent" /\ tx # "sent")
    <3>1. tx' = "sent" => tx = "sent"
      BY <2>2 DEF Start, StartWithoutExport, Crash, Stop, SignalRisk,
        MarkSending, ConfirmRisk, ConfirmRiskRefused, SetUncertainFails,
        CloseFails, Forget, Beat, BeatRead, BeatWrite, BeatTimeout, Silence,
        vars
    <3> QED
      BY <1>1, <1>2, <1>3, <3>1 DEF Uncommitted, Before
  <2> QED
    BY <2>1, <2>2
<1> QED
  BY <1>4, <1>5, <1>6 DEF Sent

\* A new advice has not been sent.
LEMMA AppendSent ==
  ASSUME Inv, Prepare \/ PrepareRefused \/ SignalUntracked
  PROVE  Sent'
<1>1. PICK row \in Row : /\ refs' = Append(refs, row)
                         /\ row.status # "SENT"
  <2>1. CASE Prepare
    BY <2>1, PrepareRow
  <2>2. CASE PrepareRefused \/ SignalUntracked
    <3>1. 0 \in 0..MaxStarts /\ 0 \in 0..MaxRefs
      BY BoundsAssumption
    <3>2. Advice \in Row /\ Advice.status # "SENT"
      BY <3>1 DEF Advice, Row, SendStatus, None
    <3>3. refs' = Append(refs, Advice)
      BY <2>2 DEF PrepareRefused, SignalUntracked
    <3> QED
      BY <3>2, <3>3
  <2> QED
    BY <2>1, <2>2
<1>2. /\ Len(refs') = Len(refs) + 1 /\ refs' \in Seq(Row)
      /\ refs'[Len(refs) + 1] = row
      /\ \A r \in DOMAIN refs : refs'[r] = refs[r]
  BY <1>1, Appended DEF Inv
<1>3. /\ DOMAIN refs = 1..Len(refs) /\ Len(refs) \in Nat
      /\ DOMAIN refs' = 1..Len(refs')
  BY <1>2, Rows DEF Inv
<1>4. SentRefs' = SentRefs
  <2>1. \A r \in DOMAIN refs' : r \in DOMAIN refs \/ r = Len(refs) + 1
    BY <1>2, <1>3
  <2>2. DOMAIN refs \subseteq DOMAIN refs'
    BY <1>2, <1>3
  <2> QED
    BY <1>1, <1>2, <2>1, <2>2 DEF SentRefs
<1>5. Ordered /\ Numbered
  BY DEF Inv, Sent
<1>6. Ordered'
  BY <1>2, <1>4, <1>5, OrderedSame DEF SentRefs
<1>7. Numbered'
  <2>1. CASE Prepare
    <3>1. state'.sid = state.sid /\ state'.seq = state.seq
      BY <2>1, PrepareRow DEF State
    <3>2. Counts
      BY <2>1 DEF Prepare, SignalNumeric, Counts
    <3> QED
      BY <1>2, <1>4, <1>5, <3>1, <3>2 DEF Numbered, SentRefs
  <2>2. CASE PrepareRefused \/ SignalUntracked
    <3>1. ~Counts'
      BY <2>2 DEF PrepareRefused, SignalUntracked, Abort, Counts
    <3> QED
      BY <3>1 DEF Numbered
  <2> QED
    BY <2>1, <2>2
<1>8. Uncommitted'
  <2>1. UNCHANGED tx /\ SignalNumeric
    BY DEF Prepare, PrepareRefused, SignalUntracked
  <2>2. tx # "sent"
    BY <2>1 DEF SignalNumeric, Inv, Sending
  <2> QED
    BY <2>1, <2>2 DEF Uncommitted
<1> QED
  BY <1>6, <1>7, <1>8 DEF Sent

\* Only the advice being sent is sent, with the number that comes next.
LEMMA AdviceSent ==
  ASSUME Inv, \/ Notify \/ NotifyUntracked \/ MarkSent \/ MarkFailed
              \/ SetUncertain \/ Close
  PROVE  Sent'
<1>0. Ordered /\ Numbered /\ Uncommitted
  BY DEF Inv, Sent
<1>1. CASE Notify \/ NotifyUntracked
  <2>1. /\ SameNumbers /\ refs # <<>>
        /\ \A r \in DOMAIN refs : /\ refs'[r].status = refs[r].status
                                  /\ r # Current => refs'[r] = refs[r]
        /\ NotifyUntracked =>
             (refs[Current].confirmed => refs'[Current].confirmed)
    BY <1>1, NotifyRows
  <2>2. DOMAIN refs' = DOMAIN refs
    BY <2>1, Rows DEF Inv, SameNumbers
  <2>3. SentRefs' = SentRefs
    BY <2>1, <2>2 DEF SentRefs
  <2>4. UNCHANGED <<state, tx>> /\ pc \in {"sending", "plain"}
    BY <1>1 DEF Notify, NotifyUntracked
  <2>5. Notify => Current \notin SentRefs
    BY DEF Notify, Inv, Sending, SentRefs
  <2>6. \A r \in SentRefs : refs[r].confirmed /\ refs'[r].confirmed
    BY <1>0, <1>1, <2>1, <2>5 DEF Ordered, SentRefs
  <2>7. \A r \in SentRefs : /\ refs'[r].sid = refs[r].sid
                            /\ refs'[r].seq = refs[r].seq
    BY <2>1 DEF SentRefs, SameNumbers
  <2>8. Ordered'
    BY <1>0, <2>3, <2>6, <2>7 DEF Ordered, Before
  <2>9. Numbered'
    BY <1>0, <2>3, <2>4, <2>7 DEF Numbered, Counts
  <2>10. Uncommitted'
    BY <2>4 DEF Uncommitted, Inv, Sending
  <2> QED
    BY <2>8, <2>9, <2>10 DEF Sent
<1>2. CASE MarkSent
  <2>1. /\ SameNumbers /\ refs # <<>> /\ state \in State /\ state # NoState
        /\ state' = [state EXCEPT !.seq = state.pending, !.ref = Current,
                       !.pending = None]
        /\ pc' = "idle" /\ tx' = "none"
        /\ refs'[Current].status = "SENT"
        /\ refs'[Current].confirmed = refs[Current].confirmed
        /\ \A r \in DOMAIN refs : r # Current => refs'[r] = refs[r]
    <3> DEFINE st == "SENT"
    <3>1. st \in {"SENT", "FAILED"}
               /\ IF st = "SENT" THEN MarkSent ELSE MarkFailed
      BY <1>2
    <3>2. st = "SENT"
      OBVIOUS
    <3> HIDE DEF st
    <3> QED
      BY <3>1, <3>2, MarkRows
  <2>2. DOMAIN refs' = DOMAIN refs /\ Current \in DOMAIN refs
    BY <2>1, Rows DEF Inv, SameNumbers, Current
  <2>3. SentRefs' = SentRefs \cup {Current}
    BY <2>1, <2>2 DEF SentRefs
  <2>4. /\ refs[Current].confirmed /\ refs[Current].sid = state.sid
        /\ refs[Current].seq = state.pending
        /\ state.pending = state.seq + 1
        /\ Counts
    BY <1>2, <2>1 DEF MarkSent, Inv, Sending, Counts
  <2>5. \A r \in SentRefs : Before(r, Current)
    BY <2>1, <2>4, BeforeCurrent
  <2>6. \A r \in DOMAIN refs : refs'[r].confirmed = refs[r].confirmed
    BY <2>1
  <2>7. Ordered'
    BY <2>1, <2>3, <2>4, <2>5, <2>6, OrderedMore
  <2>8. Numbered'
    <3>1. state'.sid = state.sid /\ state'.seq = state.pending
          /\ state.seq \in Nat
      BY <2>1 DEF State
    <3>2. \A r \in SentRefs' : /\ r \in DOMAIN refs
                               /\ refs'[r].sid = refs[r].sid
                               /\ refs'[r].seq = refs[r].seq
                               /\ refs[r].seq \in Nat
                               /\ r = Current \/ r \in SentRefs
      BY <2>1, <2>2, <2>3, Rows DEF SentRefs, SameNumbers, Inv
    <3>3. \A r \in SentRefs : refs[r].sid = state.sid
                                => refs[r].seq <= state.seq
      BY <1>0, <2>4 DEF Numbered
    <3> QED
      BY <2>4, <3>1, <3>2, <3>3 DEF Numbered
  <2> QED
    BY <2>1, <2>7, <2>8 DEF Sent, Uncommitted
<1>3. CASE MarkFailed
  <2>1. /\ SameNumbers /\ refs # <<>> /\ state \in State /\ state # NoState
        /\ state' = [state EXCEPT !.pending = None]
        /\ pc' = "idle" /\ tx' = "none"
        /\ refs'[Current].status = "FAILED"
        /\ \A r \in DOMAIN refs : r # Current => refs'[r] = refs[r]
    <3> DEFINE st == "FAILED"
    <3>1. st \in {"SENT", "FAILED"}
               /\ IF st = "SENT" THEN MarkSent ELSE MarkFailed
      BY <1>3
    <3>2. st = "FAILED"
      OBVIOUS
    <3> HIDE DEF st
    <3> QED
      BY <3>1, <3>2, MarkRows
  <2>2. DOMAIN refs' = DOMAIN refs /\ Current \in DOMAIN refs
    BY <2>1, Rows DEF Inv, SameNumbers, Current
  <2>3. Current \notin SentRefs /\ Counts
    BY <1>3, <2>1 DEF MarkFailed, Inv, Sending, SentRefs, Counts
  <2>4. SentRefs' = SentRefs
    BY <2>1, <2>2, <2>3 DEF SentRefs
  <2>5. \A r \in SentRefs : refs'[r] = refs[r]
    BY <2>1, <2>3 DEF SentRefs
  <2>6. Ordered'
    BY <1>0, <2>4, <2>5, OrderedSame
  <2>7. Numbered'
    <3>1. state'.sid = state.sid /\ state'.seq = state.seq
      BY <2>1 DEF State
    <3> QED
      BY <1>0, <2>3, <2>4, <2>5, <3>1 DEF Numbered
  <2> QED
    BY <2>1, <2>6, <2>7 DEF Sent, Uncommitted
<1>4. CASE SetUncertain \/ Close
  <2>1. SameNumbers /\ refs' = Commit /\ (tx = "sent" => refs # <<>>)
    BY <1>4, CommitRows
  <2>2. \A r \in DOMAIN refs :
          /\ refs'[r].confirmed = refs[r].confirmed
          /\ refs'[r].status = IF tx = "sent" /\ r = Current
                               THEN "SENT" ELSE refs[r].status
    BY <2>1, Committed DEF Inv
  <2>3. DOMAIN refs' = DOMAIN refs
    BY <2>1, Rows DEF Inv, SameNumbers
  <2>4. tx' = "none" /\ ~Counts'
    BY <1>4 DEF SetUncertain, Close, Forget, Counts
  <2>5. Ordered'
    <3>1. CASE tx = "sent"
      <4>1. Current \in DOMAIN refs /\ refs[Current].confirmed
        BY <2>1, <3>1, Rows DEF Inv, Sending, Current
      <4>2. SentRefs' = SentRefs \cup {Current}
        BY <2>2, <2>3, <3>1, <4>1 DEF SentRefs
      <4> QED
        BY <1>0, <2>1, <2>2, <3>1, <4>1, <4>2, OrderedMore DEF Uncommitted
    <3>2. CASE tx # "sent"
      <4>1. SentRefs' = SentRefs
        BY <2>2, <2>3, <3>2 DEF SentRefs
      <4> QED
        BY <1>0, <2>1, <2>2, <4>1, OrderedSame DEF SentRefs, SameNumbers
    <3> QED
      BY <3>1, <3>2
  <2> QED
    BY <2>4, <2>5 DEF Sent, Numbered, Uncommitted
<1> QED
  BY <1>1, <1>2, <1>3, <1>4

LEMMA NextSent == ASSUME Inv, [Next]_vars PROVE Sent'
BY QuietSent, AppendSent, AdviceSent DEF Next, Send, GiveUp

-----------------------------------------------------------------------------
(* What was confirmed and not sent.                                        *)

LEMMA NextUnsent == ASSUME Inv, [Next]_vars PROVE Unsent'
<1> USE DEF database, bot, heart, counts
<1>0. Unsent
  BY DEF Inv
<1>1. CASE Prepare
  <2>1. PICK row \in Row :
          /\ refs' = Append(refs, row)
          /\ row.sid = state.sid /\ ~row.confirmed
    BY <1>1, PrepareRow
  <2>2. /\ Len(refs') = Len(refs) + 1 /\ refs' \in Seq(Row)
        /\ refs'[Len(refs) + 1] = row
        /\ \A r \in DOMAIN refs : refs'[r] = refs[r]
    BY <2>1, Appended DEF Inv
  <2>3. /\ DOMAIN refs = 1..Len(refs) /\ Len(refs) \in Nat
        /\ DOMAIN refs' = 1..Len(refs')
    BY <2>2, Rows DEF Inv
  <2>4. /\ state'.sid = state.sid /\ state # NoState /\ pc = "idle"
        /\ pc' = "pending"
    <3>1. state'.sid = state.sid
      BY <1>1, PrepareRow DEF State
    <3> QED
      BY <1>1, <3>1 DEF Prepare, SignalNumeric
  <2>5. \A r \in DOMAIN refs' : r \in DOMAIN refs \/ r = Len(refs) + 1
    BY <2>2, <2>3
  <2> SUFFICES ASSUME NEW r \in DOMAIN refs', NEW s \in DOMAIN refs',
                      refs'[r].confirmed, refs'[r].status # "SENT",
                      refs'[s].sid = state'.sid
               PROVE  r < s
    BY DEF Unsent
  <2>6. r \in DOMAIN refs
    BY <2>1, <2>2, <2>5
  <2>7. CASE s \in DOMAIN refs
    BY <1>0, <2>2, <2>4, <2>6, <2>7 DEF Unsent
  <2>8. CASE s = Len(refs) + 1
    BY <2>3, <2>6, <2>8
  <2> QED
    BY <2>5, <2>7, <2>8
<1>2. CASE PrepareRefused \/ SignalUntracked \/ NotifyUntracked
  BY <1>2 DEF PrepareRefused, SignalUntracked, NotifyUntracked, Abort, Unsent,
    Inv, Handoff
<1>3. CASE Notify
  <2>1. /\ SameNumbers /\ refs # <<>>
        /\ \A r \in DOMAIN refs : /\ refs'[r].status = refs[r].status
                                  /\ r # Current => refs'[r] = refs[r]
        /\ pc' = "sent" <=> refs'[Current].confirmed
    BY <1>3, NotifyRows
  <2>2. DOMAIN refs' = DOMAIN refs /\ Current' = Current
    BY <2>1, Rows DEF Inv, SameNumbers, Current
  <2>3. pc = "sending" /\ UNCHANGED state
    BY <1>3 DEF Notify
  <2> SUFFICES ASSUME NEW r \in DOMAIN refs, NEW s \in DOMAIN refs,
                      state # NoState, pc' = "sent" => r # Current,
                      refs'[r].confirmed, refs'[r].status # "SENT",
                      refs'[s].sid = state.sid
               PROVE  r < s
    BY <2>2, <2>3 DEF Unsent
  <2>4. r # Current
    BY <2>1
  <2>5. refs'[r] = refs[r] /\ refs'[s].sid = refs[s].sid
    BY <2>1, <2>4 DEF SameNumbers
  <2> QED
    BY <1>0, <2>3, <2>5 DEF Unsent
<1>4. CASE MarkSent \/ MarkFailed
  <2>1. PICK st \in {"SENT", "FAILED"} :
          IF st = "SENT" THEN MarkSent ELSE MarkFailed
    BY <1>4
  <2>2. /\ SameNumbers /\ state \in State /\ state # NoState
        /\ state' = IF st = "SENT"
                    THEN [state EXCEPT !.seq = state.pending,
                            !.ref = Current, !.pending = None]
                    ELSE [state EXCEPT !.pending = None]
        /\ refs'[Current].status = st
        /\ refs'[Current].confirmed = refs[Current].confirmed
        /\ \A r \in DOMAIN refs : r # Current => refs'[r] = refs[r]
    BY <2>1, MarkRows
  <2>3. DOMAIN refs' = DOMAIN refs /\ state'.sid = state.sid
    BY <2>2, Rows DEF Inv, SameNumbers, State
  <2>4. pc = IF st = "SENT" THEN "sent" ELSE "failed"
    BY <2>1 DEF MarkSent, MarkFailed
  <2>5. st = "FAILED" => refs[Current].status # "SENT"
    BY <2>4 DEF Inv, Sending
  <2> SUFFICES ASSUME NEW r \in DOMAIN refs, NEW s \in DOMAIN refs,
                      refs'[r].confirmed, refs'[r].status # "SENT",
                      refs'[s].sid = state.sid
               PROVE  r < s
    BY <2>3 DEF Unsent
  <2>6. refs'[s].sid = refs[s].sid
    BY <2>2 DEF SameNumbers
  <2>7. /\ refs[r].confirmed /\ refs[r].status # "SENT"
        /\ pc = "sent" => r # Current
    BY <2>2, <2>4, <2>5
  <2> QED
    BY <1>0, <2>2, <2>4, <2>6, <2>7 DEF Unsent
<1>5. CASE Start
  <2>1. state'.sid = Len(sessions) + 1 /\ Len(sessions) \in Nat
    BY <1>5, Tables DEF Start, Sid, Inv
  <2>2. \A s \in DOMAIN refs : refs[s].sid <= Len(sessions)
                               /\ refs[s].sid \in Nat
    BY Rows DEF Inv, Numbers
  <2>3. UNCHANGED refs
    BY <1>5 DEF Start
  <2>4. \A s \in DOMAIN refs : refs[s].sid # state'.sid
    BY <2>1, <2>2
  <2> QED
    BY <2>3, <2>4 DEF Unsent
<1>6. CASE StartWithoutExport \/ Crash \/ Stop \/ MarkFails \/ SetUncertain
           \/ SetUncertainFails \/ Close \/ CloseFails \/ ConfirmRiskRefused
  BY <1>6 DEF StartWithoutExport, Crash, Stop, MarkFails, Abort, SetUncertain,
    SetUncertainFails, Close, CloseFails, Forget, ConfirmRiskRefused, Unsent,
    Inv, Handoff
<1>7. CASE MarkSending \/ SignalRisk \/ ConfirmRisk \/ Beat \/ Silence
           \/ UNCHANGED vars
  <2>1. UNCHANGED <<refs, state>> /\ (pc' = pc \/ (pc # "sent" /\ pc' # "sent"
          /\ pc \notin {"uncertain", "close"}))
    BY <1>7 DEF MarkSending, SignalRisk, ConfirmRisk, Beat, BeatRead,
      BeatWrite, BeatTimeout, Silence, vars
  <2> QED
    BY <1>0, <2>1 DEF Unsent, Current
<1> QED
  BY <1>1, <1>2, <1>3, <1>4, <1>5, <1>6, <1>7 DEF Next, Send, GiveUp

LEMMA InvInductive == Inv /\ [Next]_vars => Inv'
BY NextBase, NextSending, NextSent, NextUnsent DEF Inv, Base

-----------------------------------------------------------------------------
(* The theorems.                                                           *)

\* Every variable keeps its type.
THEOREM TypeCorrect == Spec => []TypeOK
<1>1. Inv => TypeOK
  BY DEF Inv
<1> QED
  BY InitInv, InvInductive, <1>1, PTL DEF Spec

\* The reference that counts is the last one sent.
LatestLast ==
  SentRefs # {} => /\ LatestSent \in SentRefs
                   /\ \A r \in SentRefs : r <= LatestSent

LEMMA LatestIsLast == Inv => LatestLast
<1> SUFFICES ASSUME Inv, SentRefs # {}
             PROVE  /\ LatestSent \in SentRefs
                    /\ \A r \in SentRefs : r <= LatestSent
  BY DEF LatestLast
<1>1. PICK m \in SentRefs : \A s \in SentRefs : s <= m
  BY DEF Inv, Sent, Ordered
<1>2. \A r \in SentRefs : /\ r \in DOMAIN refs /\ r \in Int
                          /\ refs[r].sid \in Nat /\ refs[r].seq \in Nat
  BY Rows DEF SentRefs, Inv
<1>3. \A r, s \in SentRefs : r < s => Before(r, s)
  BY DEF Inv, Sent, Ordered
<1>4. \A s \in SentRefs : Newer(m, s)
  <2> TAKE s \in SentRefs
  <2>1. s = m \/ s < m
    BY <1>1, <1>2
  <2> QED
    BY <1>2, <1>3, <2>1 DEF Newer, Before
<1>5. LatestSent \in SentRefs /\ \A s \in SentRefs : Newer(LatestSent, s)
  BY <1>4 DEF LatestSent
<1>6. \A r \in SentRefs : r <= LatestSent
  <2> SUFFICES ASSUME NEW r \in SentRefs, LatestSent < r PROVE FALSE
    BY <1>2, <1>5
  <2>1. Before(LatestSent, r) /\ Newer(LatestSent, r)
    BY <1>3, <1>5
  <2> QED
    BY <1>2, <1>5, <2>1 DEF Before, Newer
<1> QED
  BY <1>5, <1>6

LEMMA ValidMeans ==
  ASSUME Inv, Valid
  PROVE  SentRefs # {} /\ LatestSent \in SentRefs
         /\ refs[LatestSent].sid = Sid
<1>1. LatestSent # None /\ refs[LatestSent].sid = Sid
  BY DEF Valid, ReferenceStatus
<1>2. SentRefs # {}
  BY <1>1 DEF LatestSent
<1> QED
  BY <1>1, <1>2, LatestIsLast DEF LatestLast

\* A reference counts only if its users were told, in the session served.
THEOREM OnlyConfirmedCounts == Spec => []CountsOnlyConfirmed
<1>1. Inv => CountsOnlyConfirmed
  <2> SUFFICES ASSUME Inv, Valid
               PROVE  /\ refs[LatestSent].confirmed
                      /\ state # NoState => refs[LatestSent].sid = state.sid
    BY DEF CountsOnlyConfirmed
  <2>1. LatestSent \in SentRefs /\ refs[LatestSent].sid = Sid
    BY ValidMeans
  <2> QED
    BY <2>1 DEF Inv, Sent, Ordered, Numbers, Sid
<1> QED
  BY InitInv, InvInductive, <1>1, PTL DEF Spec

\* No reference counts that is older than a confirmed one.
THEOREM NewestKept == Spec => []NewestCounts
<1>1. Inv => NewestCounts
  <2> SUFFICES ASSUME Inv, Valid, pc = "idle", state # NoState,
                      NEW r \in DOMAIN refs, refs[r].confirmed
               PROVE  r <= LatestSent
    BY DEF NewestCounts
  <2>1. /\ LatestSent \in SentRefs /\ refs[LatestSent].sid = Sid
        /\ \A s \in SentRefs : s <= LatestSent
    BY ValidMeans, LatestIsLast DEF LatestLast
  <2>2. CASE refs[r].status = "SENT"
    BY <2>1, <2>2 DEF SentRefs
  <2>3. CASE refs[r].status # "SENT"
    <3>1. refs[LatestSent].sid = state.sid /\ LatestSent \in DOMAIN refs
      BY <2>1 DEF Inv, Numbers, Sid, SentRefs
    <3>2. r < LatestSent
      BY <2>3, <3>1 DEF Inv, Unsent
    <3> QED
      BY <3>1, <3>2, Rows DEF Inv
  <2> QED
    BY <2>2, <2>3
<1> QED
  BY InitInv, InvInductive, <1>1, PTL DEF Spec

\* An advice that is not sent, or confirmed once more, changes nothing for
\* the reader.
LEMMA ReaderSame ==
  ASSUME Inv, LatestLast, LatestLast', SentRefs' = SentRefs,
         \A r \in SentRefs : refs'[r].sid = refs[r].sid,
         UNCHANGED <<sessions, fresh>>
  PROVE  Valid' => Valid
<1>1. CASE SentRefs = {}
  <2>1. LatestSent' = None /\ LatestSent = None
    BY <1>1 DEF LatestSent
  <2> QED
    BY <2>1 DEF Valid, ReferenceStatus, Confirmable, Sid
<1>2. CASE SentRefs # {}
  <2>1. /\ LatestSent \in SentRefs /\ LatestSent' \in SentRefs
        /\ LatestSent <= LatestSent' /\ LatestSent' <= LatestSent
    BY <1>2 DEF LatestLast
  <2>2. \A r \in SentRefs : r \in Int
    BY Rows DEF Inv, SentRefs
  <2>3. LatestSent' = LatestSent
    BY <2>1, <2>2
  <2> QED
    BY <2>1, <2>3 DEF Valid, ReferenceStatus, Confirmable, Sid
<1> QED
  BY <1>1, <1>2

\* What has been given up does not come back with a heartbeat.
THEOREM GivenUpKept == Spec => GivenUpStays
<1>1. Inv /\ LatestLast /\ LatestLast' /\ [Next]_vars =>
        ((state = NoState /\ ~Valid /\ Sid' = Sid) => ~Valid')
  <2> SUFFICES ASSUME Inv, LatestLast, LatestLast', [Next]_vars,
                      state = NoState, ~Valid, Sid' = Sid
               PROVE  ~Valid'
    OBVIOUS
  <2>1. pc \in {"off", "idle", "plain"} /\ beat = NoState
    BY DEF Inv, Handoff
  <2>2. CASE StartWithoutExport \/ Crash \/ BeatWrite \/ BeatTimeout
             \/ UNCHANGED vars
    <3>1. UNCHANGED <<sessions, refs, fresh>>
      BY <2>1, <2>2 DEF StartWithoutExport, Crash, BeatWrite, BeatTimeout, vars,
        database
    <3>2. SentRefs' = SentRefs
      BY <3>1 DEF SentRefs
    <3> QED
      BY <3>1, <3>2, ReaderSame
  <2>3. CASE Silence
    <3>1. fresh' = FALSE
      BY <2>3 DEF Silence
    <3> QED
      BY <3>1 DEF Valid, ReferenceStatus, Confirmable
  <2>4. CASE SignalUntracked
    <3>1. refs' = Append(refs, Advice) /\ UNCHANGED <<sessions, fresh>>
      BY <2>4 DEF SignalUntracked
    <3>2. 0 \in 0..MaxStarts /\ 0 \in 0..MaxRefs
      BY BoundsAssumption
    <3>3. Advice \in Row /\ Advice.status # "SENT"
      BY <3>2 DEF Advice, Row, SendStatus, None
    <3>4. /\ Len(refs') = Len(refs) + 1 /\ refs' \in Seq(Row)
          /\ refs'[Len(refs) + 1] = Advice
          /\ \A r \in DOMAIN refs : refs'[r] = refs[r]
      BY <3>1, <3>3, Appended DEF Inv
    <3>5. /\ DOMAIN refs = 1..Len(refs) /\ Len(refs) \in Nat
          /\ DOMAIN refs' = 1..Len(refs')
      BY <3>4, Rows DEF Inv
    <3>6. /\ DOMAIN refs \subseteq DOMAIN refs'
          /\ \A r \in DOMAIN refs' : r \in DOMAIN refs \/ r = Len(refs) + 1
      BY <3>4, <3>5
    <3>7. SentRefs' = SentRefs
      BY <3>3, <3>4, <3>6 DEF SentRefs
    <3> QED
      BY <3>1, <3>4, <3>7, ReaderSame DEF SentRefs
  <2>5. CASE NotifyUntracked
    <3>1. /\ SameNumbers
          /\ \A r \in DOMAIN refs : refs'[r].status = refs[r].status
      BY <2>5, NotifyRows
    <3>2. SentRefs' = SentRefs
      BY <3>1, Rows DEF SentRefs, SameNumbers, Inv
    <3>3. UNCHANGED <<sessions, fresh>>
      BY <2>5 DEF NotifyUntracked
    <3> QED
      BY <3>1, <3>2, <3>3, ReaderSame DEF SentRefs, SameNumbers
  <2>6. ~Start
    BY Tables, AppendProperties DEF Start, Sid, Inv
  <2>7. ~(Stop \/ Prepare \/ PrepareRefused \/ SignalRisk \/ BeatRead)
    BY DEF Stop, Prepare, PrepareRefused, SignalRisk, BeatRead
  <2>8. ~(MarkSending \/ Notify \/ MarkSent \/ MarkFailed \/ MarkFails
          \/ ConfirmRisk \/ ConfirmRiskRefused \/ GiveUp)
    BY <2>1 DEF MarkSending, Notify, MarkSent, MarkFailed, MarkFails,
      ConfirmRisk, ConfirmRiskRefused, GiveUp, SetUncertain,
      SetUncertainFails, Close, CloseFails
  <2> QED
    BY <2>2, <2>3, <2>4, <2>5, <2>6, <2>7, <2>8 DEF Next, Send, Beat
<1> QED
  BY InitInv, InvInductive, LatestIsLast, <1>1, PTL DEF Spec, GivenUpStays
=============================================================================
