------------------------------ MODULE GridEngine ------------------------------
(***************************************************************************)
(* The alert state machine of the realtime grid process, for one direction *)
(* of the price, as functions of its runtime record. A function of the     *)
(* code that returns events is an operator that returns [rt, out]: the     *)
(* runtime afterwards and the events, oldest first. The timestamps of the  *)
(* code are kept as ages in seconds, which Elapse advances; an age stops   *)
(* at the value that is compared with.                                     *)
(***************************************************************************)
EXTENDS Integers, Sequences

CONSTANTS
  HoldFor,        \* branch -> seconds it must hold before it fires
  UrgentEvery,    \* repeat.urgent_seconds
  NoticeEvery,    \* repeat.notice_seconds
  BoundaryEvery,  \* repeat.boundary_seconds
  RecoverAfter    \* recovery.hold_seconds

Normal == "normal"
Branches == DOMAIN HoldFor

ASSUME EngineAssumption ==
  /\ Branches \subseteq {Normal, "inside_urgent", "buffer_urgent"}
  /\ \A b \in Branches : HoldFor[b] \in Nat
  /\ {UrgentEvery, NoticeEvery, BoundaryEvery, RecoverAfter} \subseteq Nat

Unset == -1
Unknown == "none"

\* Where a price stands, seen in the direction: "near" is inside the grid
\* and too close to its edge for a recovery (and any price on the other
\* side of the grid), "critical" is the last part of the buffer.
Regions == {"inside", "near", "buffer", "critical", "beyond"}
Levels == {"IDLE", "CANDIDATE", "NOTICE", "URGENT", "BOUNDARY_REACHED"}
Alerts == {"NOTICE", "URGENT", "BOUNDARY_REACHED"}

Every == [l \in Alerts |-> CASE l = "URGENT" -> UrgentEvery
                             [] l = "NOTICE" -> NoticeEvery
                             [] OTHER -> BoundaryEvery]

\* A runtime without episode under reference r; serials go on.
Rearmed(r, serial) ==
  [ref |-> r, serial |-> serial, open |-> FALSE,
   holds |-> [b \in Branches |-> Unset], level |-> "IDLE",
   highest |-> "IDLE", crit |-> FALSE, sustained |-> FALSE, bnd |-> FALSE,
   last |-> [l \in Alerts |-> Unset], recovery |-> Unset]

\* One second passes.
Age(a, limit) == IF a = Unset \/ a >= limit THEN a ELSE a + 1
Elapse(rt) ==
  [rt EXCEPT !.holds = [b \in Branches |-> Age(@[b], HoldFor[b])],
             !.last = [l \in Alerts |-> Age(@[l], Every[l])],
             !.recovery = Age(@, RecoverAfter)]

Quiet(rt) == [rt |-> rt, out |-> <<>>]

-----------------------------------------------------------------------------
(* _ensure_episode and _send                                               *)

\* Seeded fault: the episodes are not counted.
EnsureEpisodeUncounted(rt) == [rt EXCEPT !.open = TRUE]

EnsureEpisode(rt) ==
  IF rt.open THEN rt ELSE [rt EXCEPT !.open = TRUE, !.serial = @ + 1]

\* event_id of the code: reference, direction, episode, level and reason.
EventId(rt, level, reason) ==
  [ref |-> rt.ref, serial |-> rt.serial, level |-> level, reason |-> reason]

Emit(rt, level, reason) ==
  LET e == EnsureEpisode(rt) IN
    [rt |-> [e EXCEPT !.highest = level, !.last[level] = 0],
     out |-> <<EventId(e, level, reason)>>]

\* The interval of a level is over since its last alert.
Over(rt, level) == rt.last[level] >= Every[level]

-----------------------------------------------------------------------------
(* on_fact                                                                 *)

\* _boundary_fact. Without a last alert it is still within the interval.
BoundaryFact(rt) ==
  LET e == [EnsureEpisode(rt) EXCEPT !.level = "BOUNDARY_REACHED"] IN
    IF rt.bnd /\ ~Over(rt, "BOUNDARY_REACHED") THEN Quiet(e)
    ELSE Emit([e EXCEPT !.bnd = TRUE], "BOUNDARY_REACHED", "boundary")

\* _critical_fact: once in an episode.
CriticalFact(rt) ==
  IF rt.crit THEN Quiet(rt)
  ELSE Emit([EnsureEpisode(rt) EXCEPT !.crit = TRUE, !.level = "URGENT"],
            "URGENT", "critical")

\* on_fact; a STALE reference reports boundaries only.
OnFact(rt, fact, status) ==
  IF fact = "boundary" THEN BoundaryFact(rt)
  ELSE IF fact = "critical" /\ status = "VALID" THEN CriticalFact(rt)
  ELSE Quiet(rt)

\* apply_send_result: the new reference, and where the price stands in it.
SwitchReference(rt, r, price, status) ==
  LET s == Rearmed(r, rt.serial) IN
    CASE price = "beyond" -> OnFact(s, "boundary", status)
      [] price = "critical" -> OnFact(s, "critical", status)
      [] OTHER -> Quiet(s)

-----------------------------------------------------------------------------
(* on_second                                                               *)

\* _boundary_repeat_at_second
BoundaryRepeat(rt, price) ==
  IF rt.bnd /\ price = "beyond" /\ Over(rt, "BOUNDARY_REACHED")
  THEN Emit(rt, "BOUNDARY_REACHED", "boundary")
  ELSE Quiet(rt)

\* _check_recovery and _reset_after_recovery: the start of a recovery is
\* forgotten with the episode.
CheckRecovery(rt, price, preds) ==
  IF price # "inside" \/ preds # {}
  THEN [rt EXCEPT !.recovery = Unset]
  ELSE LET age == IF rt.recovery = Unset THEN 0 ELSE rt.recovery IN
    IF age < RecoverAfter THEN [rt EXCEPT !.recovery = age]
    ELSE Rearmed(rt.ref, rt.serial)

\* _update_holds
UpdateHolds(rt, preds) ==
  [rt EXCEPT !.holds = [b \in Branches |->
     IF b \notin preds THEN Unset ELSE IF @[b] = Unset THEN 0 ELSE @[b]]]

Firing(rt) == {b \in Branches : rt.holds[b] # Unset
                                /\ rt.holds[b] >= HoldFor[b]}

\* Seeded fault: an escalation waits for the interval of the last alert.
UrgentAfterInterval(rt, reason) ==
  LET u == [rt EXCEPT !.level = "URGENT"] IN
    IF rt.highest = "IDLE" \/ Over(rt, "URGENT")
    THEN Emit(u, "URGENT", reason) ELSE Quiet(u)

\* _urgent_events
UrgentEvents(rt, reason) ==
  LET u == [rt EXCEPT !.level = "URGENT"] IN
    IF rt.highest # "URGENT" THEN Emit(u, "URGENT", reason)
    ELSE IF rt.crit /\ ~rt.sustained
    THEN Emit([u EXCEPT !.sustained = TRUE], "URGENT", reason)
    ELSE IF Over(rt, "URGENT") THEN Emit(u, "URGENT", reason)
    ELSE Quiet(u)

\* _notice_events: coming down from URGENT says nothing.
NoticeEvents(rt) ==
  LET n == [rt EXCEPT !.level = "NOTICE"] IN
    IF rt.level = "URGENT" THEN Quiet(n)
    ELSE IF rt.last["NOTICE"] = Unset \/ Over(rt, "NOTICE")
    THEN Emit(n, "NOTICE", Normal)
    ELSE Quiet(n)

\* _downgrade
Downgrade(rt, price) ==
  [rt EXCEPT !.level =
     IF price = "beyond" THEN "BOUNDARY_REACHED"
     ELSE IF \E b \in Branches : rt.holds[b] # Unset THEN "CANDIDATE"
     ELSE "IDLE"]

\* _apply_firing_level. The two urgent branches exclude each other.
ApplyFiring(rt, price) ==
  LET urgent == Firing(rt) \ {Normal} IN
    IF urgent # {} THEN UrgentEvents(rt, CHOOSE b \in urgent : TRUE)
    ELSE IF Normal \in Firing(rt) THEN NoticeEvents(rt)
    ELSE Quiet(Downgrade(rt, price))

\* The part of on_second that a full window and a VALID reference allow.
Evaluate(rt, price, preds) ==
  LET c == CheckRecovery(rt, price, preds) IN
    IF ~c.open /\ preds = {} THEN Quiet(c)
    ELSE ApplyFiring(UpdateHolds(c, preds), price)

\* on_second
OnSecond(rt, status, degraded, price, preds) ==
  LET b == BoundaryRepeat(rt, price)
      v == IF degraded \/ status # "VALID" \/ price = Unknown
           THEN Quiet([b.rt EXCEPT !.recovery = Unset,
                         !.holds = [x \in Branches |-> Unset]])
           ELSE Evaluate(b.rt, price, preds)
  IN [rt |-> v.rt, out |-> b.out \o v.out]

\* normal_candidate, inside_urgent_candidate, buffer_urgent_candidate: the
\* branches that a price may satisfy, whatever the features say.
Candidates(price) ==
  Branches \cap
    CASE price = "near" -> {Normal, "inside_urgent"}
      [] price \in {"buffer", "critical"} -> {Normal, "buffer_urgent"}
      [] OTHER -> {}

-----------------------------------------------------------------------------
(* FactScanner.feed: what a trade reports after the trade before it.       *)

FactOf(before, price) ==
  IF before = Unknown THEN "nothing"
  ELSE IF price = "beyond" /\ before # "beyond" THEN "boundary"
  ELSE IF price = "critical" /\ before \notin {"critical", "beyond"}
  THEN "critical"
  ELSE "nothing"
=============================================================================
