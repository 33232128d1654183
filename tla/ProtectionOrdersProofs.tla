----------------------- MODULE ProtectionOrdersProofs -----------------------
(***************************************************************************)
(* The promises of protection, for every number of positions, orders,      *)
(* retries, failed calls and restarts: what counts as protected is, no     *)
(* leg stands twice, and the process does what OrderBook allows.           *)
(***************************************************************************)
EXTENDS ProtectionOrders, WellFoundedInduction, TLAPS

Fates == {"live", "executed", "cancelled", "replaced", "swept"}
Rows == {"none", "OPEN", "CANCELED", "EXECUTED"}

\* A position that the process works on is not known to be empty.
Stands == cur # None /\ Obj.qty > 0

-----------------------------------------------------------------------------
(* What the helpers compute.                                               *)

LEMMA FirstIn ==
    ASSUME NEW S \in SUBSET (Nat \ {0})
    PROVE  IF S = {} THEN First(S) = None
           ELSE First(S) \in S /\ First(S) # None
<1>1. CASE S = {}
  BY <1>1 DEF First
<1>2. CASE S # {}
  <2>1. \E i \in S : \A j \in S : i <= j
    <3> DEFINE R == OpToRel(<, Nat)
    <3>1. IsWellFoundedOn(R, Nat)
      BY NatLessThanWellFounded
    <3>2. \A i, j \in Nat : i < j => <<i, j>> \in R
      BY DEF OpToRel
    <3> HIDE DEF R
    <3>3. PICK i \in S : \A j \in S : <<j, i>> \notin R
      BY <1>2, <3>1, WFMin
    <3>4. \A j \in S : ~(j < i)
      BY <3>2, <3>3
    <3> QED
      BY <3>4
  <2> QED
    BY <1>2, <2>1 DEF First, None
<1> QED
  BY <1>1, <1>2

LEMMA LegsAre ==
    /\ Leg = {"stop", "tp1", "tp2", "trail"}
    /\ \A k \in 1..4 : Legs[k] \in Leg
    /\ \A l \in Leg : \E k \in 1..4 : Legs[k] = l
<1>1. Legs[1] = "stop" /\ Legs[2] = "tp1" /\ Legs[3] = "tp2"
      /\ Legs[4] = "trail"
  BY DEF Legs
<1>2. \A k \in 1..4 : k = 1 \/ k = 2 \/ k = 3 \/ k = 4
  OBVIOUS
<1> QED
  BY <1>1, <1>2 DEF Leg

\* The next request of a clean-up is for a filled slot of its object.
LEMMA CleanAfterIn ==
    ASSUME NEW who, NEW o, NEW obj \in Object, NEW k \in 0..4,
           NEW c \in CleanAfter(who, o, obj, k)
    PROVE  /\ CleanAfter(who, o, obj, k) = {c}
           /\ c = [who |-> c.who, o |-> c.o, k |-> c.k, id |-> c.id]
           /\ c.who = who /\ c.o = o /\ c.k \in 1..4
           /\ \E l \in Leg : c.id = obj.slot[l] /\ c.id # None
<1> DEFINE S == {j \in k + 1 .. 4 : obj.slot[Legs[j]] # None}
<1>1. S # {}
  BY DEF CleanAfter
<1>2. First(S) \in S
  BY <1>1, FirstIn
<1>3. c = [who |-> who, o |-> o, k |-> First(S),
           id |-> obj.slot[Legs[First(S)]]]
  BY <1>1 DEF CleanAfter
<1>4. First(S) \in 1..4 /\ obj.slot[Legs[First(S)]] # None
  BY <1>2
<1>5. CleanAfter(who, o, obj, k) = {c}
  BY <1>1, <1>3 DEF CleanAfter
<1> QED
  BY <1>3, <1>4, <1>5, LegsAre

\* Steps that clean a record up, and the records they are for.
Leaving == {"retry", "residual", "rest"}
Spent(obj) == obj.cancelPending => obj.qty = 0

\* Where the end of update_positions leads.
LEMMA FromDoes ==
    ASSUME NEW k \in 1..4, NEW obj \in Object, Spent(obj), From(k, obj)
    PROVE  /\ objs' = [objs EXCEPT ![cur] = obj]
           /\ job' = NoJob
           /\ pc' \in Leaving \cup {"replenish", "sync"}
           /\ pc' = "replenish" => Due(obj)
           /\ pc' \in Leaving => obj.qty = 0
<1> DEFINE S == {j \in Wanted(obj) : j >= k}
<1>1. Wanted(obj) \subseteq 1..4
  BY DEF Wanted
<1>2. S # {} => First(S) \in S /\ First(S) \in 1..4
  BY <1>1, FirstIn
<1>3. /\ objs' = [objs EXCEPT ![cur] = obj] /\ job' = NoJob
      /\ pc' = IF S = {} THEN "sync" ELSE Tailing[First(S)]
  BY DEF From, To, Update, Goto
<1>4. /\ 4 \in Wanted(obj) => Due(obj)
      /\ \A j \in 1..3 : j \in Wanted(obj) => obj.qty = 0
  <2>1. obj.qty \in Nat
    BY DEF Object, Full
  <2> QED
    BY <2>1 DEF Wanted, Spent
<1>5. CASE S = {}
  BY <1>3, <1>5 DEF Leaving
<1>6. CASE S # {}
  <2>1. /\ First(S) \in 1..4 /\ (First(S) = 4 => Due(obj))
        /\ First(S) \in 1..3 => obj.qty = 0
    BY <1>2, <1>4, <1>6
  <2>2. pc' = Tailing[First(S)]
    BY <1>3, <1>6
  <2> HIDE DEF S
  <2> QED
    BY <1>3, <2>1, <2>2 DEF Tailing, Leaving
<1> QED
  BY <1>5, <1>6

\* The same record for the book and the exchange; what was to be completed
\* still is, or is complete.
Like(new, obj) ==
    /\ new \in Object
    /\ new.entry = obj.entry /\ new.slot = obj.slot /\ new.qty = obj.qty
    /\ obj.pending => new.pending \/ Complete(obj)
    /\ Spent(obj) => Spent(new)

LEMMA ReturnDoes ==
    ASSUME NEW ok \in BOOLEAN, NEW obj \in Object, Spent(obj),
           Return(ok, obj)
    PROVE  \E new :
             /\ Like(new, obj)
             /\ objs' = [objs EXCEPT ![cur] = new]
             /\ \/ /\ pc' \in Leaving \cup {"replenish", "sync", "take",
                                          "trail", "time"}
                   /\ pc' = "take" => obj.qty > 0
                   /\ pc' = "replenish" => Due(new)
                   /\ pc' \in Leaving => new.qty = 0
                   /\ job' = NoJob
                \/ /\ pc' = "place" /\ obj.qty > 0
                   /\ job' = [NoJob EXCEPT !.todo = {"stop", "tp2"},
                                           !.next = "time"]
<1> DEFINE took1 == [obj EXCEPT !.tp1 = @ \/ ok]
           took2 == [obj EXCEPT !.tp2 = @ \/ ok]
<1>1. Like(obj, obj) /\ Like(took1, obj) /\ Like(took2, obj)
  BY DEF Like, Object, Spent
<1>2. \A new : Like(new, obj) /\ Leave(new) =>
         /\ objs' = [objs EXCEPT ![cur] = new]
         /\ pc' \in Leaving \cup {"replenish", "sync"}
         /\ pc' = "replenish" => Due(new)
         /\ pc' \in Leaving => new.qty = 0
         /\ job' = NoJob
  <2> SUFFICES ASSUME NEW new, Like(new, obj), Leave(new)
               PROVE  /\ objs' = [objs EXCEPT ![cur] = new]
                      /\ pc' \in Leaving \cup {"replenish", "sync"}
                      /\ pc' = "replenish" => Due(new)
                      /\ pc' \in Leaving => new.qty = 0
                      /\ job' = NoJob
    OBVIOUS
  <2>1. From(1, new) /\ new \in Object /\ Spent(new)
    BY DEF Leave, Like
  <2> QED
    BY <2>1, FromDoes
<1> HIDE DEF took1, took2
<1>3. \/ obj.qty > 0 /\ To("take", took1)
      \/ To("trail", obj)
      \/ To("trail", took2)
      \/ To("time", obj)
      \/ /\ obj.qty > 0 /\ Update(cur, obj)
         /\ PlaceThen({"stop", "tp2"}, "time")
      \/ Leave(took1) \/ Leave(took2) \/ Leave(obj)
  BY DEF Return, took1, took2
<1> QED
  BY <1>1, <1>2, <1>3 DEF To, Update, Goto, PlaceThen, Leaving

LEMMA MissingAre ==
    ASSUME NEW obj \in Object
    PROVE  /\ Missing(obj) \subseteq Required
           /\ Missing(obj) = {} <=> Complete(obj)
           /\ \A l \in Missing(obj) : obj.slot[l] = None
BY DEF Missing, Complete

LEMMA Limits ==
    /\ MaxCancels \in Nat /\ MaxCancels > 0
    /\ MaxRounds \in Nat /\ MaxRounds > 0
    /\ MaxEntries \in Nat /\ MaxEntries > 0
    /\ MaxOrders \in Nat /\ MaxOrders > 0
BY ProtectionAssumption

LEMMA JudgedLike == ASSUME NEW obj \in Object PROVE Like(Judged(obj), obj)
<1>1. CASE Complete(obj)
  <2>1. Judged(obj) = [obj EXCEPT !.pending = FALSE, !.rounds = 0]
    BY <1>1 DEF Judged
  <2>2. /\ Judged(obj) \in Object
        /\ Judged(obj).entry = obj.entry /\ Judged(obj).slot = obj.slot
        /\ Judged(obj).qty = obj.qty
        /\ Judged(obj).cancelPending = obj.cancelPending
    <3>1. 0 \in 0..MaxRounds
      BY Limits
    <3> QED
      BY <2>1, <3>1 DEF Object
  <2> QED
    BY <1>1, <2>2 DEF Like, Spent
<1>2. CASE ~Complete(obj)
  <2>1. Judged(obj) = [obj EXCEPT !.pending = TRUE, !.rounds = @]
    BY <1>2 DEF Judged
  <2> QED
    BY <1>2, <2>1 DEF Like, Object, Spent
<1> QED
  BY <1>1, <1>2

LEMMA StartRoundDoes ==
    ASSUME NEW obj \in Object, NEW next, obj.rounds < MaxRounds,
           StartRound(obj, next)
    PROVE  \E new :
             /\ Like(new, obj)
             /\ objs' = [objs EXCEPT ![cur] = new]
             /\ \/ pc' = next /\ job' = NoJob
                \/ /\ pc' = "place" /\ Missing(obj) # {}
                   /\ job' = [NoJob EXCEPT !.todo = Missing(obj),
                                           !.next = next]
<1>1. CASE Missing(obj) = {}
  BY <1>1, JudgedLike DEF StartRound, To, Update, Goto
<1>2. CASE Missing(obj) # {}
  <2>1. Like([obj EXCEPT !.rounds = @ + 1], obj)
    BY Limits DEF Like, Object, Spent
  <2> QED
    BY <1>2, <2>1 DEF StartRound, PlaceThen, Update
<1> QED
  BY <1>1, <1>2

LEMMA AllPlacedDoes ==
    ASSUME NEW obj \in Object, AllPlaced(obj),
           job.next \in {"entry", "monitor", "sync", "time"},
           job.next = "entry" => obj.rounds = 0
    PROVE  \E new :
             /\ Like(new, obj)
             /\ objs' = [objs EXCEPT ![cur] = new]
             /\ \/ pc' \in {"monitor", "sync", "time"} /\ job' = NoJob
                \/ /\ pc' = "place" /\ Missing(obj) # {}
                   /\ job' = [NoJob EXCEPT !.todo = Missing(obj),
                                           !.next = "monitor"]
<1>1. CASE job.next = "entry" /\ Complete(obj)
  <2>1. Like([obj EXCEPT !.pending = FALSE], obj)
    BY <1>1 DEF Like, Object, Spent
  <2> QED
    BY <1>1, <2>1 DEF AllPlaced, Update, Goto
<1>2. CASE job.next = "entry" /\ ~Complete(obj)
  <2>1. StartRound(obj, "monitor") /\ obj.rounds < MaxRounds
    BY <1>2, Limits DEF AllPlaced
  <2> QED
    BY <2>1, StartRoundDoes
<1>3. CASE job.next \in {"monitor", "sync"}
  BY <1>3, JudgedLike DEF AllPlaced, Update, Goto
<1>4. CASE job.next = "time"
  <2>1. Like(obj, obj)
    BY DEF Like
  <2> QED
    BY <1>4, <2>1 DEF AllPlaced, Update, Goto
<1> QED
  BY <1>1, <1>2, <1>3, <1>4

LEMMA CleanEndsDoes ==
    ASSUME NEW caller \in Leaving, NEW obj \in Object, obj.qty = 0,
           NEW left, CleanEnds(caller, obj, left)
    PROVE  \/ \E new :
                /\ Like(new, obj)
                /\ objs' = [objs EXCEPT ![cur] = new]
                /\ pc' \in Leaving \cup {"sync"}
                /\ job' = NoJob /\ cur' = cur
           \/ Forget(left) /\ Goto("sync")
<1>1. \A new, k : Like(new, obj) /\ k \in 1..4 /\ From(k, new) =>
         /\ objs' = [objs EXCEPT ![cur] = new]
         /\ pc' \in Leaving \cup {"sync"}
         /\ job' = NoJob
  BY FromDoes DEF Like, Spent, Due
<1>2. /\ Like(obj, obj)
      /\ Like([obj EXCEPT !.cancelPending = TRUE], obj)
      /\ Like([obj EXCEPT !.cancelPending = Failed(obj)], obj)
  BY DEF Like, Object, Failed, Spent
<1>3. CASE caller = "retry"
  BY <1>1, <1>2, <1>3 DEF CleanEnds
<1>4. CASE caller = "residual"
  <2>1. CASE Failed(obj)
    <3>1. From(3, [obj EXCEPT !.cancelPending = TRUE]) /\ UNCHANGED cur
      BY <1>4, <2>1 DEF CleanEnds
    <3> QED
      BY <1>1, <1>2, <3>1
  <2>2. CASE ~Failed(obj)
    BY <1>4, <2>2 DEF CleanEnds
  <2> QED
    BY <2>1, <2>2
<1>5. CASE caller = "rest"
  BY <1>1, <1>2, <1>5 DEF CleanEnds
<1> QED
  BY <1>3, <1>4, <1>5 DEF Leaving

-----------------------------------------------------------------------------
(* The invariant.                                                          *)

\* Steps at which the position is known to be there.
Busy == {"place", "replenish", "take", "close_sync", "close_sweep",
         "close_order"}

Phases ==
    /\ pc \in Busy => Stands
    /\ pc \in {"start", "adopt"} => cur = None
    /\ pc \in {"start", "adopt", "ensure"} /\ cur = None =>
         objs = <<>> /\ cleaners = {}
    /\ pc = "signal" => cur = None
    /\ pc = "place" =>
         /\ job.todo # {} /\ job.next \in {"entry", "monitor", "sync", "time"}
         /\ job.next = "entry" => Obj.rounds = 0
    /\ pc = "replenish" => Obj.rounds < MaxRounds
    /\ pc = "clean" => job.next \in Leaving
    /\ pc \in Leaving => Obj.qty = 0
    /\ \A o \in DOMAIN objs : Spent(objs[o])
    /\ cur # None \/ held > 0 => entries > 0
    /\ cur # None => Obj.entry \in {None, entries}

\* The process itself runs one clean-up at a time, of the current record.
MainOne ==
    \A c \in cleaners : c.who = "main" =>
        /\ pc = "clean" /\ c.o = cur
        /\ \A d \in cleaners : d.who = "main" => d = c

\* A slot holds an order of its record: of its leg when the process has
\* placed it itself, of a stop when it was found at the start.
Holds(obj, l, i) ==
    /\ i \in DOMAIN orders
    /\ obj.entry # None => orders[i].entry = obj.entry /\ orders[i].leg = l
    /\ l = "trail" => orders[i].leg \in {"stop", "trail"}

Slots ==
    \A o \in DOMAIN objs, l \in Leg :
        objs[o].slot[l] # None => Holds(objs[o], l, objs[o].slot[l])

Entered == \A i \in DOMAIN orders : orders[i].entry <= entries

Protecting(i) ==
    Live(i) /\ held > 0 /\ orders[i].entry = entries /\ ~Doubtful

\* What a clean-up may take is of no use any more, and none of it belongs
\* to the position that stands.
Former(i) == ~Protecting(i) /\ (Stands => orders[i].entry < entries)

Dead ==
    /\ \A c \in cleaners : objs[c.o].qty = 0 /\ Former(c.id)
    /\ \A o \in DOMAIN objs, l \in Leg :
         objs[o].qty = 0 /\ objs[o].slot[l] # None
         => Former(objs[o].slot[l])

\* A record is never too small, unless a close of it filled in part, and a
\* close leaves nothing on the book, unless a sweep of it failed.
Amount ==
    /\ cur # None /\ entries \notin torn => held <= Obj.qty
    /\ unswept \cup torn \subseteq 0..entries
    /\ pc = "close_order" /\ entries \notin unswept =>
         \A i \in DOMAIN orders : orders[i].entry = entries => ~Live(i)

Sound == {"live", "executed", "swept"}

Flag ==
    Stands /\ Obj.entry = entries =>
        \A l \in Required :
            /\ Obj.pending \/ Obj.slot[l] # None
            /\ Obj.slot[l] # None => orders[Obj.slot[l]].fate \in Sound

Recorded(i, l, e) ==
    /\ Live(i) /\ orders[i].row = "OPEN"
    /\ orders[i].leg = l /\ orders[i].entry = e

\* A leg that is placed again, or may be, is not on the book.
One ==
    /\ OneLiveLeg
    /\ entries \notin unswept /\ Stands =>
         \A l \in Required :
            Obj.slot[l] = None \/ (pc = "place" /\ l \in job.todo) =>
               \A i \in DOMAIN orders : ~Recorded(i, l, entries)

Inv == /\ TypeOK /\ Phases /\ MainOne /\ Slots /\ Entered /\ Dead
       /\ Amount /\ Flag /\ One

-----------------------------------------------------------------------------
(* Steps that neither place an order nor open a position.                  *)

\* Orders keep their leg and entry; none comes back.
Fades ==
    /\ orders' \in Seq(Order) /\ Len(orders') = Len(orders)
    /\ \A i \in DOMAIN orders :
         /\ orders'[i].leg = orders[i].leg
         /\ orders'[i].entry = orders[i].entry
         /\ orders'[i].fate = "live" => orders[i].fate = "live"
         /\ orders'[i].row = "OPEN" => orders[i].row = "OPEN"

\* A record loses slots or is found empty, when nothing protects it.
Tame(o) ==
    /\ objs'[o].entry = objs[o].entry
    /\ \A l \in Leg : objs'[o].slot[l] \in {objs[o].slot[l], None}
    /\ objs[o].qty = 0 => objs'[o].qty = 0
    /\ objs'[o].qty = 0 /\ objs[o].qty # 0 =>
         ~Stands' /\ \A i \in DOMAIN orders : ~Protecting(i)'

\* A clean-up that goes on takes the next slot of an empty record.
Fresh(c) ==
    /\ objs[c.o].qty = 0
    /\ \E l \in Leg : c.id = objs[c.o].slot[l] /\ c.id # None

Settled ==
    /\ Fades /\ entries' = entries /\ held' \in 0..Full /\ held' <= held
    /\ DOMAIN objs' \subseteq DOMAIN objs
    /\ \A o \in DOMAIN objs' : Tame(o)
    /\ \A c \in cleaners' : c \in cleaners \/ Fresh(c)'
    /\ Stands' => Stands

\* What is known of failed sweeps and closes is not forgotten.
Recalls == unswept \subseteq unswept' /\ torn \subseteq torn'

\* The record of the position that stands keeps its required slots.
Keeps ==
    Stands' =>
        /\ Obj'.entry = Obj.entry
        /\ \A l \in Required : Obj'.slot[l] = Obj.slot[l]
        /\ Obj.pending => Obj'.pending \/ Complete(Obj)

Spared ==
    Stands' /\ Obj.entry = entries =>
        \A l \in Required :
            Obj.slot[l] # None /\ orders[Obj.slot[l]].fate \in Sound
            => orders'[Obj.slot[l]].fate \in Sound

\* What is to be placed was to be placed before, is missing, or has left
\* the book.
Asked ==
    pc' = "place" /\ entries \notin unswept' /\ Stands' =>
        \A l \in job'.todo \cap Required :
            \/ pc = "place" /\ l \in job.todo
            \/ Obj.slot[l] = None
            \/ \A i \in DOMAIN orders : ~Recorded(i, l, entries)'

LEMMA OrdersTyped ==
    ASSUME TypeOK
    PROVE  /\ DOMAIN orders = 1..Len(orders) /\ Len(orders) \in Nat
           /\ \A i \in DOMAIN orders :
                /\ orders[i] \in Order
                /\ orders[i].leg \in Leg /\ orders[i].entry \in Nat
                /\ orders[i].fate \in Fates /\ orders[i].row \in Rows
<1>1. \A i \in DOMAIN orders : orders[i] \in Order
  BY DEF TypeOK
<1>2. DOMAIN orders = 1..Len(orders) /\ Len(orders) \in Nat
  BY DEF TypeOK
<1> QED
  BY <1>1, <1>2, Limits DEF Order, Fates, Rows

LEMMA ObjectsTyped ==
    ASSUME TypeOK
    PROVE  \A o \in DOMAIN objs :
              /\ objs[o] \in Object /\ objs[o].qty \in 0..Full
              /\ objs[o].entry \in Nat
              /\ \A l \in Leg : objs[o].slot[l] \in Nat
<1>1. \A o \in DOMAIN objs : objs[o] \in Object
  BY DEF TypeOK
<1> QED
  BY <1>1, Limits DEF Object

LEMMA ObjectsKept ==
    ASSUME Inv, TypeOK', Settled, Recalls
    PROVE  Slots' /\ Entered' /\ Dead'
<1> USE DEF Inv
<1>1. DOMAIN orders' = DOMAIN orders
  BY OrdersTyped DEF Settled, Fades, TypeOK
<1>2. Entered'
  BY <1>1 DEF Entered, Settled, Fades
<1>3. Slots'
  <2> SUFFICES ASSUME NEW o \in DOMAIN objs', NEW l \in Leg,
                      objs'[o].slot[l] # None
               PROVE  Holds(objs[o], l, objs[o].slot[l])'
    BY DEF Slots
  <2>1. o \in DOMAIN objs /\ Tame(o) /\ objs'[o].slot[l] = objs[o].slot[l]
    BY DEF Settled, Tame
  <2>2. Holds(objs[o], l, objs[o].slot[l])
    BY <2>1 DEF Slots
  <2> QED
    BY <1>1, <2>1, <2>2 DEF Holds, Tame, Settled, Fades
<1>4. \A i \in DOMAIN orders : Former(i) => Former(i)'
  BY OrdersTyped DEF Former, Protecting, Live, Settled, Fades, TypeOK, Full,
                     Recalls, Doubtful
<1>5. ASSUME NEW o \in DOMAIN objs', NEW l \in Leg,
             objs'[o].qty = 0, objs'[o].slot[l] # None
      PROVE  Former(objs[o].slot[l])'
  <2>1. o \in DOMAIN objs /\ Tame(o) /\ objs'[o].slot[l] = objs[o].slot[l]
    BY <1>5 DEF Settled, Tame
  <2>2. objs[o].slot[l] \in DOMAIN orders
    BY <1>5, <2>1 DEF Slots, Holds
  <2>3. CASE objs[o].qty = 0
    BY <1>4, <1>5, <2>1, <2>2, <2>3 DEF Dead
  <2>4. CASE objs[o].qty # 0
    BY <1>5, <2>1, <2>2, <2>4 DEF Tame, Former
  <2> QED
    BY <2>3, <2>4
<1>6. ASSUME NEW c \in cleaners'
      PROVE  objs'[c.o].qty = 0 /\ Former(c.id)'
  <2>1. c.o \in DOMAIN objs'
    BY DEF TypeOK
  <2>2. CASE c \in cleaners
    <3>1. objs[c.o].qty = 0 /\ Former(c.id) /\ c.id \in DOMAIN orders
      BY <2>2 DEF Dead, TypeOK
    <3> QED
      BY <1>4, <2>1, <3>1 DEF Settled, Tame
  <2>3. CASE Fresh(c)'
    BY <1>5, <2>1, <2>3 DEF Fresh
  <2> QED
    BY <2>2, <2>3 DEF Settled
<1>7. Dead'
  BY <1>5, <1>6 DEF Dead
<1> QED
  BY <1>2, <1>3, <1>7

LEMMA FlagKept ==
    ASSUME Inv, Settled, Keeps, Spared
    PROVE  Flag'
<1> SUFFICES ASSUME Stands', Obj'.entry = entries', NEW l \in Required
             PROVE  /\ Obj'.pending \/ Obj'.slot[l] # None
                    /\ Obj'.slot[l] # None =>
                         orders'[Obj'.slot[l]].fate \in Sound
  BY DEF Flag
<1>1. Stands /\ Obj.entry = entries /\ Obj'.slot[l] = Obj.slot[l]
      /\ (Obj.pending => Obj'.pending \/ Complete(Obj))
  BY DEF Settled, Keeps
<1>2. /\ Obj.pending \/ Obj.slot[l] # None
      /\ Obj.slot[l] # None => orders[Obj.slot[l]].fate \in Sound
  BY <1>1 DEF Inv, Flag
<1>3. Complete(Obj) => Obj.slot[l] # None
  BY DEF Complete
<1> QED
  BY <1>1, <1>2, <1>3 DEF Spared

LEMMA OneKept ==
    ASSUME Inv, Settled, Keeps, Asked, Recalls
    PROVE  One'
<1>1. DOMAIN orders' = DOMAIN orders
  BY OrdersTyped DEF Settled, Fades, TypeOK, Inv
<1>2. \A i \in DOMAIN orders : \A l, e :
         Recorded(i, l, e)' => Recorded(i, l, e)
  BY DEF Recorded, Live, Settled, Fades
<1>3. OneLiveLeg'
  <2>1. OneLiveLeg
    BY DEF Inv, One
  <2> QED
    BY <1>1, <2>1 DEF OneLiveLeg, Live, Settled, Fades, Recalls
<1>4. ASSUME entries' \notin unswept', Stands', NEW l \in Required,
             Obj'.slot[l] = None \/ (pc' = "place" /\ l \in job'.todo),
             NEW i \in DOMAIN orders'
      PROVE  ~Recorded(i, l, entries)'
  <2>1. /\ entries' = entries /\ entries \notin unswept /\ Stands
        /\ Obj'.slot[l] = Obj.slot[l]
    BY <1>4 DEF Settled, Keeps, Recalls
  <2>2. \/ Obj.slot[l] = None \/ (pc = "place" /\ l \in job.todo)
        \/ \A j \in DOMAIN orders : ~Recorded(j, l, entries)'
    BY <1>4, <2>1 DEF Asked
  <2> QED
    BY <1>1, <1>2, <1>4, <2>1, <2>2 DEF Inv, One
<1> QED
  BY <1>3, <1>4 DEF One

LEMMA Assemble ==
    ASSUME Inv, TypeOK', Phases', MainOne', Amount',
           Settled, Keeps, Spared, Asked, Recalls
    PROVE  Inv'
BY ObjectsKept, FlagKept, OneKept DEF Inv

\* An update of the current record.
LEMMA RecordAt ==
    ASSUME TypeOK, cur # None, NEW new \in Object,
           objs' = [objs EXCEPT ![cur] = new]
    PROVE  /\ cur \in DOMAIN objs /\ Obj \in Object
           /\ objs' \in Seq(Object) /\ DOMAIN objs' = DOMAIN objs
           /\ Len(objs') = Len(objs) /\ objs'[cur] = new
           /\ \A o \in DOMAIN objs : o # cur => objs'[o] = objs[o]
<1>1. /\ objs \in Seq(Object) /\ cur \in 1..Len(objs)
      /\ DOMAIN objs = 1..Len(objs)
  BY DEF TypeOK, None
<1> QED
  BY <1>1 DEF Obj

\* What the process asks for when it goes on to place orders.
Asks ==
    /\ pc' = "place" =>
        /\ job'.todo # {} /\ job'.next \in {"entry", "monitor", "sync", "time"}
        /\ job'.next = "entry" => Obj'.rounds = 0
    /\ pc' = "replenish" => Obj'.rounds < MaxRounds
    /\ pc' \in Leaving => Obj'.qty = 0

\* A step of the process on its current record.
LEMMA RecordStep ==
    ASSUME Inv, cur # None, UNCHANGED cur, entries' = entries,
           NEW new \in Object, objs' = [objs EXCEPT ![cur] = new],
           new.entry = Obj.entry, Spent(new),
           \A l \in Leg : new.slot[l] \in {Obj.slot[l], None},
           new.qty > 0 => \A l \in Required : new.slot[l] = Obj.slot[l],
           Obj.pending => new.pending \/ Complete(Obj),
           Obj.qty = 0 => new.qty = 0,
           new.qty = 0 /\ Obj.qty # 0 =>
             \A i \in DOMAIN orders : ~Protecting(i)',
           Fades, held' \in 0..Full, held' <= held,
           cleaners' \subseteq Cleaner,
           \A c \in cleaners' :
             c.who = "task" /\ (c \in cleaners \/ (c.o = cur /\ Fresh(c)')),
           pc' \in (Working \ {"clean"}) \cup {"monitor", "sync"},
           job' \in Job, pc' \in Busy => new.qty > 0,
           Asks, Amount', Spared, Asked, Recalls
    PROVE  Inv'
<1> USE DEF Inv
<1>1. /\ cur \in DOMAIN objs /\ Obj \in Object
      /\ objs' \in Seq(Object) /\ DOMAIN objs' = DOMAIN objs
      /\ Len(objs') = Len(objs) /\ objs'[cur] = new
      /\ \A o \in DOMAIN objs : o # cur => objs'[o] = objs[o]
  BY RecordAt
<1>2. Obj' = new /\ Obj.qty \in Nat /\ new.qty \in Nat
  <2>1. \A o \in Object : o.qty \in Nat
    BY DEF Object, Full
  <2> QED
    BY <1>1, <2>1 DEF Obj
<1>3. Stands' <=> new.qty > 0
  BY <1>2 DEF Stands
<1>4. Stands' => Stands
  BY <1>2, <1>3 DEF Stands
<1>5. DOMAIN orders' = DOMAIN orders
  BY OrdersTyped DEF Fades
<1>6. Settled
  <2>1. \A o \in DOMAIN objs' : Tame(o)
    BY <1>1, <1>2, <1>3 DEF Tame, Obj
  <2> QED
    BY <1>1, <1>4, <2>1 DEF Settled
<1>7. Keeps
  BY <1>2, <1>3 DEF Keeps
<1>8. TypeOK'
  <2>1. orders' \in Seq(Order) /\ Len(orders') <= MaxOrders
    BY DEF Fades, TypeOK
  <2>2. \A c \in cleaners' : c.o \in DOMAIN objs' /\ c.id \in DOMAIN orders'
    <3> TAKE c \in cleaners'
    <3>1. CASE c \in cleaners
      BY <1>1, <1>5, <3>1 DEF TypeOK
    <3>2. CASE c.o = cur /\ Fresh(c)'
      BY <1>1, <1>5, <3>2 DEF Fresh, Slots, Holds, Obj
    <3> QED
      BY <3>1, <3>2
  <2> QED
    BY <1>1, <2>1, <2>2 DEF TypeOK, Idle
<1>9. Phases'
  <2>1. pc' \notin {"start", "adopt", "ensure", "signal", "clean"}
    BY DEF Working, Idle
  <2>2. \A o \in DOMAIN objs' : Spent(objs'[o])
    BY <1>1 DEF Phases
  <2> QED
    BY <1>2, <1>3, <2>1, <2>2 DEF Phases, Asks, TypeOK, Spent
<1>10. MainOne'
  BY DEF MainOne
<1> QED
  BY <1>6, <1>7, <1>8, <1>9, <1>10, Assemble

\* What leaves the book.
LEMMA GoneFades ==
    ASSUME TypeOK, NEW S, NEW fate \in Fates \ {"live"},
           orders' = Gone(S, fate)
    PROVE  /\ Fades
           /\ \A i \in DOMAIN orders :
                /\ i \notin S => orders'[i] = orders[i]
                /\ i \in S => orders'[i].fate = fate
                /\ orders'[i].row = orders[i].row
<1>1. /\ DOMAIN orders = 1..Len(orders) /\ Len(orders) \in Nat
      /\ \A i \in DOMAIN orders : orders[i] \in Order
  BY OrdersTyped
<1>2. \A i \in DOMAIN orders :
        orders'[i] = IF i \in S THEN [orders[i] EXCEPT !.fate = fate]
                     ELSE orders[i]
  BY DEF Gone
<1>3. \A o \in Order :
        /\ [o EXCEPT !.fate = fate] \in Order
        /\ [o EXCEPT !.fate = fate].fate = fate
        /\ [o EXCEPT !.fate = fate].leg = o.leg
        /\ [o EXCEPT !.fate = fate].entry = o.entry
        /\ [o EXCEPT !.fate = fate].row = o.row
  BY DEF Order, Fates
<1>4. \A i \in DOMAIN orders : orders'[i] \in Order
  BY <1>1, <1>2, <1>3
<1>5. orders' \in [1..Len(orders) -> Order]
  BY <1>1, <1>4 DEF Gone
<1>6. orders' \in Seq(Order) /\ Len(orders') = Len(orders)
  BY <1>1, <1>5
<1>7. \A i \in DOMAIN orders :
        /\ orders'[i].leg = orders[i].leg
        /\ orders'[i].entry = orders[i].entry
        /\ orders'[i].row = orders[i].row
        /\ i \notin S => orders'[i] = orders[i]
        /\ i \in S => orders'[i].fate = fate
  <2> SUFFICES ASSUME NEW i \in DOMAIN orders
               PROVE  /\ orders'[i].leg = orders[i].leg
                      /\ orders'[i].entry = orders[i].entry
                      /\ orders'[i].row = orders[i].row
                      /\ i \notin S => orders'[i] = orders[i]
                      /\ i \in S => orders'[i].fate = fate
    OBVIOUS
  <2>1. CASE i \in S
    <3>1. orders[i] \in Order /\ orders'[i] = [orders[i] EXCEPT !.fate = fate]
      BY <1>1, <1>2, <2>1
    <3> QED
      BY <1>3, <2>1, <3>1
  <2>2. CASE i \notin S
    <3>1. orders'[i] = orders[i]
      BY <1>2, <2>2
    <3> QED
      BY <2>2, <3>1
  <2> QED
    BY <2>1, <2>2
<1>8. \A i \in DOMAIN orders :
        orders'[i].fate = "live" => orders[i].fate = "live"
  BY <1>7
<1> QED
  BY <1>6, <1>7, <1>8 DEF Fades

LEMMA StillFades == ASSUME TypeOK, UNCHANGED orders PROVE Fades
BY DEF Fades, TypeOK

LEMMA NoMain ==
    ASSUME Inv, pc # "clean" PROVE \A c \in cleaners : c.who = "task"
BY DEF Inv, TypeOK, MainOne, Cleaner

\* A step that changes the record alone, or nothing but where the process is.
LEMMA Moves ==
    ASSUME Inv, cur # None, pc # "clean",
           UNCHANGED <<held, entries, orders, cur, past>>,
           cleaners' = cleaners,
           NEW obj \in Object, NEW new, Like(new, obj),
           objs' = [objs EXCEPT ![cur] = new],
           obj.entry = Obj.entry, obj.slot = Obj.slot,
           obj.pending = Obj.pending, obj.qty \in {Obj.qty, held},
           Obj.qty = 0 => obj.qty = 0, Spent(obj),
           pc' \in (Working \ {"clean", "close_order"})
                     \cup {"monitor", "sync"},
           job' \in Job, pc' \in Busy => obj.qty > 0, Asks, Asked
    PROVE  Inv'
<1> USE DEF Inv
<1>1. /\ new \in Object /\ new.entry = Obj.entry /\ new.slot = Obj.slot
      /\ new.qty = obj.qty /\ (Obj.pending => new.pending \/ Complete(Obj))
      /\ Spent(new)
  BY DEF Like, Complete
<1>2. new.qty = 0 /\ Obj.qty # 0 =>
        \A i \in DOMAIN orders : ~Protecting(i)'
  BY <1>1 DEF Protecting
<1>3. Fades /\ Spared
  BY StillFades DEF Spared
<1>4. Obj' = new /\ held \in Nat /\ Obj.qty \in Nat
  <2>1. objs'[cur] = new /\ Obj \in Object
    BY <1>1, RecordAt
  <2>2. Obj.qty \in Nat
    BY <2>1 DEF Object, Full
  <2> QED
    BY <2>1, <2>2 DEF Obj, TypeOK, Full
<1>5. Amount'
  BY <1>1, <1>4 DEF Amount, past
<1>6. /\ \A c \in cleaners' : c.who = "task" /\ c \in cleaners
      /\ cleaners' \subseteq Cleaner
  BY NoMain DEF TypeOK
<1>7. held' \in 0..Full /\ held' <= held /\ Recalls
  BY <1>4 DEF TypeOK, past, Recalls
<1> QED
  BY <1>1, <1>2, <1>3, <1>5, <1>6, <1>7, RecordStep

LEMMA CurrentSpent == ASSUME Inv, cur # None PROVE Spent(Obj)
BY DEF Inv, Phases, TypeOK, Obj, None

\* A step that leaves the record as it is.
LEMMA MovesOn ==
    ASSUME Inv, cur # None, pc # "clean",
           UNCHANGED <<held, entries, orders, objs, cur, past>>,
           cleaners' = cleaners,
           pc' \in (Working \ ({"clean", "close_order", "place", "replenish"}
                                \cup Leaving))
                     \cup {"monitor", "sync"},
           job' \in Job, pc' \in Busy => Obj.qty > 0
    PROVE  Inv'
<1>1. Obj \in Object /\ objs' = [objs EXCEPT ![cur] = Obj]
  BY DEF Inv, TypeOK, Obj, None
<1>2. Like(Obj, Obj)
  BY <1>1 DEF Like
<1>3. Asks /\ Asked /\ Spent(Obj)
  BY CurrentSpent DEF Asks, Asked, Leaving
<1>4. pc' \in (Working \ {"clean", "close_order"}) \cup {"monitor", "sync"}
  OBVIOUS
<1> QED
  BY <1>1, <1>2, <1>3, <1>4, Moves

\* A step between two pieces of work.
LEMMA Idles ==
    ASSUME Inv, UNCHANGED <<held, entries, objs, cur, past>>,
           cleaners' = cleaners, Fades, cur = None \/ UNCHANGED orders,
           pc # "clean", pc' \in Idle, job' \in Job,
           pc' = "signal" => cur = None,
           pc' \in {"start", "adopt"} => pc = "start",
           pc' = "ensure" => pc = "adopt"
    PROVE  Inv'
<1> USE DEF Inv
<1>1. DOMAIN orders' = DOMAIN orders
  BY OrdersTyped DEF Fades
<1>2. Obj' = Obj /\ (Stands' <=> Stands)
  BY DEF Obj, Stands
<1>3. /\ pc' \notin Busy /\ pc' # "clean" /\ pc' \notin Working
      /\ pc' \notin Leaving
  BY DEF Busy, Working, Idle, Leaving
<1>4. TypeOK'
  BY <1>1, <1>3 DEF TypeOK, Fades
<1>5. Phases'
  BY <1>2, <1>3 DEF Phases, Busy, Idle
<1>6. MainOne'
  BY NoMain DEF MainOne
<1>7. Amount'
  BY <1>2, <1>3 DEF Amount, Busy, past
<1>8. Settled
  <2>1. \A o \in DOMAIN objs' : Tame(o)
    BY DEF Tame
  <2> QED
    BY <1>2, <2>1 DEF Settled, TypeOK, Full
<1>9. Keeps /\ Spared /\ Asked /\ Recalls
  BY <1>2, <1>3 DEF Keeps, Spared, Asked, Stands, Busy, past, Recalls
<1> QED
  BY <1>4, <1>5, <1>6, <1>7, <1>8, <1>9, Assemble

\* The record of the symbol is dropped.
LEMMA Forgets ==
    ASSUME Inv, Forget(cleaners'), cleaners' \subseteq cleaners, Fades,
           \A c \in cleaners' : c.who = "task",
           UNCHANGED <<held, entries, past>>,
           pc' \in {"sync", "signal"}, job' \in Job
    PROVE  Inv'
<1> USE DEF Inv
<1>1. DOMAIN orders' = DOMAIN orders
  BY OrdersTyped DEF Fades
<1>2. /\ cur' = None /\ ~Stands'
      /\ \/ objs' = <<>> /\ cleaners' = {}
         \/ objs' = objs
  BY DEF Forget, Stands
<1>3. TypeOK'
  <2>1. orders' \in Seq(Order) /\ Len(orders') <= MaxOrders
    BY DEF Fades, TypeOK
  <2>2. objs' \in Seq(Object) /\ cur' \in 0..Len(objs')
    <3>1. objs' \in Seq(Object)
      <4>1. objs \in Seq(Object) /\ <<>> \in Seq(Object)
        BY DEF TypeOK
      <4> QED
        BY <1>2, <4>1
    <3>2. Len(objs') \in Nat
      BY <3>1
    <3> QED
      BY <1>2, <3>1, <3>2 DEF None
  <2>3. \A c \in cleaners' : c.o \in DOMAIN objs' /\ c.id \in DOMAIN orders'
    BY <1>1, <1>2 DEF TypeOK
  <2>4. pc' \in Idle /\ pc' \notin Working
    BY DEF Idle, Working
  <2> QED
    BY <2>1, <2>2, <2>3, <2>4 DEF TypeOK
<1>4. Phases' /\ MainOne' /\ Amount'
  BY <1>2 DEF Phases, MainOne, Amount, Busy, Leaving, past
<1>5. Settled
  <2>1. DOMAIN objs' \subseteq DOMAIN objs
    BY <1>2
  <2>2. \A o \in DOMAIN objs' : Tame(o)
    BY <1>2 DEF Tame
  <2> QED
    BY <1>2, <2>1, <2>2 DEF Settled, TypeOK, Full
<1>6. Keeps /\ Spared /\ Asked /\ Recalls
  BY <1>2 DEF Keeps, Spared, Asked, past, Recalls
<1> QED
  BY <1>3, <1>4, <1>5, <1>6, Assemble

-----------------------------------------------------------------------------
(* The steps of the cycle.                                                 *)

LEMMA NoJobTyped == NoJob \in Job
BY DEF NoJob, Job, Full

LEMMA CloseJob ==
    ASSUME NEW why \in {"LIQ", "TP1", "TP2", "TRAIL", "TIME"},
           NEW q \in 0..Full, job' = [NoJob EXCEPT !.why = why, !.q = q]
    PROVE  job' \in Job
BY NoJobTyped DEF Job

LEMMA PlaceJob ==
    ASSUME NEW todo \in SUBSET Leg,
           NEW next \in {"entry", "monitor", "sync", "time"},
           job' = [NoJob EXCEPT !.todo = todo, !.next = next]
    PROVE  job' \in Job /\ job'.todo = todo /\ job'.next = next
BY NoJobTyped DEF Job

LEMMA CleanJob ==
    ASSUME NEW next \in Leaving,
           job' = [NoJob EXCEPT !.next = next]
    PROVE  job' \in Job /\ job'.next = next
BY NoJobTyped DEF Job, Leaving

LEMMA CurrentTyped ==
    ASSUME TypeOK, cur # None
    PROVE  /\ cur \in DOMAIN objs /\ Obj \in Object /\ Obj.qty \in 0..Full
           /\ Obj.initial \in 1..Full /\ Obj.rounds \in Nat
           /\ \A l \in Leg : Obj.slot[l] \in Nat
<1>1. cur \in DOMAIN objs /\ Obj \in Object
  BY DEF TypeOK, Obj, None
<1> QED
  BY <1>1, Limits DEF Object

LEMMA LeaveAtKeeps ==
    ASSUME Inv, NEW label \in {"monitor", "time"}, LeaveAt(label)
    PROVE  Inv'
<1>1. /\ UNCHANGED <<held, entries, orders, cur, past>>
      /\ cleaners' = cleaners /\ pc # "clean"
  BY DEF LeaveAt
<1>2. CASE cur = None
  <2>1. /\ UNCHANGED <<held, entries, objs, cur, past>> /\ pc' = "sync"
        /\ job' \in Job /\ Fades
    BY <1>1, <1>2, NoJobTyped, StillFades DEF LeaveAt, Goto, Inv
  <2> QED
    BY <1>1, <1>2, <2>1, Idles DEF Idle
<1>3. CASE cur # None
  <2>1. Obj \in Object /\ Spent(Obj)
    BY <1>3, CurrentTyped, CurrentSpent DEF Inv
  <2>2. From(1, Obj)
    BY <1>3 DEF LeaveAt, Leave
  <2>3. /\ objs' = [objs EXCEPT ![cur] = Obj] /\ job' = NoJob
        /\ pc' \in Leaving \cup {"replenish", "sync"}
        /\ pc' = "replenish" => Due(Obj)
        /\ pc' \in Leaving => Obj.qty = 0
    BY <2>1, <2>2, FromDoes
  <2>4. Like(Obj, Obj) /\ job' \in Job
    BY <2>1, <2>3, NoJobTyped DEF Like
  <2>5. Obj' = Obj
    BY <1>1, <1>3, <2>1, <2>3, RecordAt DEF Obj, Inv
  <2>6. Asks /\ Asked /\ (pc' \in Busy => Obj.qty > 0)
    BY <2>3, <2>5 DEF Asks, Asked, Due, Busy, Leaving
  <2>7. pc' \in (Working \ {"clean", "close_order"}) \cup {"monitor", "sync"}
    BY <2>3 DEF Working, Leaving
  <2> QED
    BY <1>1, <1>3, <2>1, <2>3, <2>4, <2>6, <2>7, Moves
<1> QED
  BY <1>2, <1>3

LEMMA ClosingKeeps ==
    ASSUME Inv, NEW from \in {"monitor", "take", "time"},
           NEW why \in {"LIQ", "TP1", "TP2", "TIME"}, NEW q \in 0..Full,
           Closing(from, why, q)
    PROVE  Inv'
<1>1. /\ UNCHANGED <<held, entries, orders, objs, cur, past>>
      /\ cleaners' = cleaners /\ pc # "clean" /\ pc' = "close_sync"
      /\ job' = [NoJob EXCEPT !.why = why, !.q = q]
      /\ cur # None /\ Obj.qty > 0
  BY DEF Closing, StartClose, Open
<1>2. job' \in Job
  BY <1>1, CloseJob
<1> QED
  BY <1>1, <1>2, MovesOn DEF Working, Leaving

LEMMA StepKeeps ==
    ASSUME Inv, TakeNone \/ TrailNone \/ AdoptNot
    PROVE  Inv'
<1>1. /\ UNCHANGED <<held, entries, orders, objs, cur, past>>
      /\ cleaners' = cleaners /\ job' = NoJob
  BY DEF TakeNone, TrailNone, AdoptNot, Step, Goto
<1>2. job' \in Job
  BY <1>1, NoJobTyped
<1>3. CASE TakeNone \/ TrailNone
  <2>1. /\ pc \in {"take", "trail"} /\ pc' \in {"trail", "time"}
    BY <1>3 DEF TakeNone, TrailNone, Step, Goto
  <2>2. cur # None
    BY <2>1 DEF Inv, TypeOK, Working
  <2> QED
    BY <1>1, <1>2, <2>1, <2>2, MovesOn DEF Working, Busy, Leaving
<1>4. CASE AdoptNot
  <2>1. pc = "adopt" /\ pc' = "ensure"
    BY <1>4 DEF AdoptNot, Step, Goto
  <2> QED
    BY <1>1, <1>2, <2>1, StillFades, Idles DEF Inv, Idle
<1> QED
  BY <1>3, <1>4

LEMMA InferredTyped ==
    ASSUME NEW obj \in Object
    PROVE  /\ Inferred(obj) \in Object
           /\ Inferred(obj).entry = obj.entry /\ Inferred(obj).slot = obj.slot
           /\ Inferred(obj).qty = obj.qty
           /\ Inferred(obj).pending = obj.pending
           /\ Spent(obj) => Spent(Inferred(obj))
<1>1. CASE obj.qty = 0
  BY <1>1 DEF Inferred, Object, Spent
<1>2. CASE obj.qty # 0
  <2> DEFINE a == obj.tp1 \/ 3 * obj.qty <= 2 * obj.initial
             b == obj.tp2 \/ 3 * obj.qty <= obj.initial
  <2>1. Inferred(obj) = [obj EXCEPT !.tp1 = a, !.tp2 = b]
    BY <1>2 DEF Inferred
  <2>2. a \in BOOLEAN /\ b \in BOOLEAN
    BY DEF Object
  <2> HIDE DEF a, b
  <2> QED
    BY <2>1, <2>2 DEF Object, Spent
<1> QED
  BY <1>1, <1>2

LEMMA SyncedTyped ==
    ASSUME TypeOK, NEW obj \in Object
    PROVE  /\ Synced(obj) \in Object
           /\ Synced(obj).entry = obj.entry /\ Synced(obj).slot = obj.slot
           /\ Synced(obj).qty = held
           /\ Synced(obj).pending = obj.pending
           /\ Spent(obj) /\ obj.qty > 0 => Spent(Synced(obj))
<1>1. held \in 0..Full /\ obj.qty \in Nat
  BY DEF TypeOK, Object, Full
<1>2. Synced(obj) = [obj EXCEPT !.qty = held]
  BY DEF Synced
<1>3. /\ Synced(obj) \in Object
      /\ Synced(obj).entry = obj.entry /\ Synced(obj).slot = obj.slot
      /\ Synced(obj).qty = held /\ Synced(obj).pending = obj.pending
      /\ Synced(obj).cancelPending = obj.cancelPending
  BY <1>1, <1>2 DEF Object
<1> QED
  BY <1>1, <1>3 DEF Spent

LEMMA TakeSyncKeeps == ASSUME Inv, TakeSync PROVE Inv'
<1>1. /\ UNCHANGED <<held, entries, orders, cur, past>>
      /\ cleaners' = cleaners /\ pc # "clean" /\ cur # None /\ Obj.qty > 0
  BY DEF TakeSync, Open
<1>2. PICK obj \in {Synced(Obj), Obj} :
        IF Inferred(obj).qty > 0 THEN To("take", Inferred(obj))
        ELSE From(1, Inferred(obj))
  BY DEF TakeSync, Leave
<1>3. Obj \in Object /\ Spent(Obj)
  BY <1>1, CurrentTyped, CurrentSpent DEF Inv
<1>4. /\ obj \in Object /\ Spent(obj)
      /\ obj.entry = Obj.entry /\ obj.slot = Obj.slot
      /\ obj.pending = Obj.pending /\ obj.qty \in {Obj.qty, held}
  BY <1>1, <1>2, <1>3, SyncedTyped DEF Inv
<1> DEFINE new == Inferred(obj)
<1>5. Like(new, obj)
  BY <1>4, InferredTyped DEF Like
<1> HIDE DEF new
<1>6. /\ objs' = [objs EXCEPT ![cur] = new] /\ job' = NoJob
      /\ \/ pc' = "take" /\ new.qty > 0
         \/ /\ pc' \in Leaving \cup {"replenish", "sync"}
            /\ pc' = "replenish" => Due(new)
            /\ pc' \in Leaving => new.qty = 0
  <2>1. CASE new.qty > 0
    BY <1>2, <2>1 DEF To, Goto, Update, new
  <2>2. CASE ~(new.qty > 0)
    <3>1. From(1, new) /\ new \in Object /\ Spent(new)
      BY <1>2, <1>4, <1>5, <2>2 DEF new, Like
    <3> QED
      BY <3>1, FromDoes
  <2> QED
    BY <2>1, <2>2
<1>7. Obj' = new
  BY <1>1, <1>5, <1>6, RecordAt DEF Obj, Inv, Like
<1>8. Asks /\ Asked /\ (pc' \in Busy => obj.qty > 0)
  BY <1>5, <1>6, <1>7 DEF Asks, Asked, Due, Busy, Like, Leaving
<1>9. pc' \in (Working \ {"clean", "close_order"}) \cup {"monitor", "sync"}
  BY <1>6 DEF Working, Leaving
<1>10. job' \in Job /\ (Obj.qty = 0 => obj.qty = 0)
  BY <1>1, <1>6, NoJobTyped
<1>11. objs' = [objs EXCEPT ![cur] = new]
  BY <1>6
<1> QED
  BY <1>1, <1>4, <1>5, <1>8, <1>9, <1>10, <1>11, Moves

LEMMA RetryProtectionKeeps == ASSUME Inv, RetryProtection PROVE Inv'
<1>1. /\ UNCHANGED <<held, entries, orders, cur, past>>
      /\ cleaners' = cleaners /\ pc = "replenish" /\ StartRound(Obj, "sync")
  BY DEF RetryProtection
<1>2. cur # None /\ Obj.qty > 0 /\ Obj.rounds < MaxRounds
  BY <1>1 DEF Inv, Phases, Busy, Stands
<1>3. Obj \in Object /\ Spent(Obj)
  BY <1>2, CurrentTyped, CurrentSpent DEF Inv
<1>4. PICK new :
        /\ Like(new, Obj)
        /\ objs' = [objs EXCEPT ![cur] = new]
        /\ \/ pc' = "sync" /\ job' = NoJob
           \/ /\ pc' = "place" /\ Missing(Obj) # {}
              /\ job' = [NoJob EXCEPT !.todo = Missing(Obj), !.next = "sync"]
  BY <1>1, <1>2, <1>3, StartRoundDoes
<1>5. Missing(Obj) \in SUBSET Leg
        /\ \A l \in Missing(Obj) : Obj.slot[l] = None
  BY <1>3, MissingAre, LegsAre DEF Required
<1>6. Obj' = new
  BY <1>1, <1>2, <1>4, RecordAt DEF Obj, Inv, Like
<1>7. \/ pc' = "sync" /\ job' \in Job
      \/ /\ pc' = "place" /\ job' \in Job /\ Missing(Obj) # {}
         /\ job'.todo = Missing(Obj) /\ job'.next = "sync"
  BY <1>4, <1>5, NoJobTyped, PlaceJob
<1>8. /\ job' \in Job /\ Asks /\ Asked
      /\ pc' \in (Working \ {"clean", "close_order"}) \cup {"monitor", "sync"}
  BY <1>5, <1>7 DEF Asks, Asked, Working, Leaving
<1>9. objs' = [objs EXCEPT ![cur] = new]
  BY <1>4
<1> QED
  BY <1>1, <1>2, <1>3, <1>4, <1>8, <1>9, Moves

LEMMA SyncPositionsKeeps == ASSUME Inv, SyncPositions PROVE Inv'
<1>1. /\ UNCHANGED <<held, entries, orders, past>>
      /\ cleaners' = cleaners /\ pc = "sync" /\ job' = NoJob /\ Fades
  BY StillFades DEF SyncPositions, Goto, Inv
<1>2. \/ pc' = "monitor" /\ UNCHANGED <<objs, cur>>
      \/ pc' = "signal" /\ Forget(cleaners)
  BY DEF SyncPositions, Goto
<1>3. \A c \in cleaners' : c.who = "task"
  BY <1>1, NoMain
<1> QED
  BY <1>1, <1>2, <1>3, NoJobTyped, Idles, Forgets DEF Idle, Forget

LEMMA NoSignalKeeps == ASSUME Inv, NoSignal PROVE Inv'
BY NoJobTyped, StillFades, Idles DEF NoSignal, Goto, Idle, Inv

-----------------------------------------------------------------------------
(* The trailing stop and the close.                                        *)

LEMMA CancelTrailDoes ==
    ASSUME Inv, Stands, CancelTrail
    PROVE  \E new \in Object :
             /\ objs' = [objs EXCEPT ![cur] = new]
             /\ new.entry = Obj.entry /\ new.qty = Obj.qty
             /\ new.pending = Obj.pending /\ new.rounds = Obj.rounds
             /\ Spent(new)
             /\ \A l \in Leg : new.slot[l] \in {Obj.slot[l], None}
             /\ \A l \in Required : new.slot[l] = Obj.slot[l]
             /\ Fades
             /\ Obj.entry = entries =>
                  \A l \in Required :
                    Obj.slot[l] # None =>
                      orders'[Obj.slot[l]] = orders[Obj.slot[l]]
<1> DEFINE new == [Obj EXCEPT !.slot["trail"] = None]
           i == Obj.slot["trail"]
<1>1. /\ cur # None /\ TypeOK /\ entries > 0
      /\ entries \in Nat
  BY Limits DEF Stands, Inv, Phases, TypeOK
<1>2. cur \in DOMAIN objs /\ Obj \in Object
  BY <1>1, CurrentTyped
<1>3. /\ new \in Object /\ new.entry = Obj.entry /\ new.qty = Obj.qty
      /\ new.pending = Obj.pending /\ new.rounds = Obj.rounds
      /\ Spent(new)
      /\ \A l \in Leg : new.slot[l] \in {Obj.slot[l], None}
      /\ \A l \in Required : new.slot[l] = Obj.slot[l]
  <2>1. None \in 0..MaxOrders
    BY Limits DEF None
  <2>2. "trail" \in Leg /\ "trail" \notin Required /\ Required \subseteq Leg
    BY LegsAre DEF Required
  <2>3. Obj.slot \in [Leg -> 0..MaxOrders]
    BY <1>2 DEF Object
  <2> QED
    BY <1>1, <1>2, <2>1, <2>2, <2>3, CurrentSpent DEF Object, Spent
<1>4. objs' = [objs EXCEPT ![cur] = new]
  BY DEF CancelTrail, Update
<1>5. \/ UNCHANGED orders
      \/ i # None /\ orders' = Gone({i}, "replaced")
  BY DEF CancelTrail
<1> HIDE DEF new
<1>6. CASE UNCHANGED orders
  BY <1>1, <1>3, <1>4, <1>6, StillFades
<1>7. CASE i # None /\ orders' = Gone({i}, "replaced")
  <2>1. /\ Fades
        /\ \A j \in DOMAIN orders : j # i => orders'[j] = orders[j]
    BY <1>1, <1>7, GoneFades DEF Fates
  <2>2. ASSUME Obj.entry = entries, NEW l \in Required, Obj.slot[l] # None
        PROVE  Obj.slot[l] \in DOMAIN orders /\ Obj.slot[l] # i
    <3>1. l \in Leg /\ "trail" \in Leg /\ l # "trail"
      BY LegsAre DEF Required
    <3>2. Holds(Obj, l, Obj.slot[l]) /\ Holds(Obj, "trail", i)
      BY <1>2, <1>7, <2>2, <3>1 DEF Inv, Slots, Obj
    <3> QED
      BY <1>1, <2>2, <3>1, <3>2 DEF Holds, None
  <2> QED
    BY <1>3, <1>4, <2>1, <2>2
<1> QED
  BY <1>5, <1>6, <1>7

LEMMA TrailKeeps == ASSUME Inv, TrailTriggered \/ TrailImproved PROVE Inv'
<1>1. /\ UNCHANGED <<held, entries, cur, past>> /\ cleaners' = cleaners
      /\ pc = "trail" /\ cur # None /\ Obj.qty > 0 /\ CancelTrail
      /\ \/ pc' = "close_sync" /\ job' = [NoJob EXCEPT !.why = "TRAIL", !.q = 1]
         \/ /\ pc' = "place"
            /\ job' = [NoJob EXCEPT !.todo = {"trail"}, !.next = "time"]
  BY DEF TrailTriggered, TrailImproved, Open, StartClose, PlaceThen
<1>2. Stands
  BY <1>1 DEF Stands
<1>3. PICK new \in Object :
        /\ objs' = [objs EXCEPT ![cur] = new]
        /\ new.entry = Obj.entry /\ new.qty = Obj.qty
        /\ new.pending = Obj.pending /\ new.rounds = Obj.rounds
        /\ Spent(new)
        /\ \A l \in Leg : new.slot[l] \in {Obj.slot[l], None}
        /\ \A l \in Required : new.slot[l] = Obj.slot[l]
        /\ Fades
        /\ Obj.entry = entries =>
             \A l \in Required :
               Obj.slot[l] # None =>
                 orders'[Obj.slot[l]] = orders[Obj.slot[l]]
  BY <1>1, <1>2, CancelTrailDoes
<1>4. \/ pc' = "close_sync" /\ job' \in Job
      \/ /\ pc' = "place" /\ job' \in Job
         /\ job'.todo = {"trail"} /\ job'.next = "time"
  <2>1. {"trail"} \in SUBSET Leg /\ 1 \in 0..Full
    BY LegsAre DEF Full
  <2> QED
    BY <1>1, <2>1, CloseJob, PlaceJob
<1>5. Obj' = new
  BY <1>1, <1>3, RecordAt DEF Obj, Inv
<1>6. /\ Asks /\ Asked /\ job' \in Job
      /\ pc' \in (Working \ {"clean"}) \cup {"monitor", "sync"}
  BY <1>4 DEF Asks, Asked, Required, Working, Leaving
<1>7. Amount'
  BY <1>1, <1>3, <1>4, <1>5 DEF Inv, Amount, past
<1>8. Spared
  BY <1>3 DEF Spared
<1>9. /\ held' \in 0..Full /\ held' <= held /\ Recalls
      /\ cleaners' \subseteq Cleaner
      /\ \A c \in cleaners' : c.who = "task" /\ c \in cleaners
  BY <1>1, NoMain DEF Inv, TypeOK, Full, past, Recalls
<1> QED
  BY <1>1, <1>3, <1>6, <1>7, <1>8, <1>9, RecordStep

\* The answer of a close reaches its caller.
LEMMA Returns ==
    ASSUME Inv, Stands, pc # "clean", UNCHANGED <<entries, cur, unswept>>,
           NEW ok \in BOOLEAN, NEW obj \in Object, Return(ok, obj),
           obj.entry = Obj.entry, obj.slot = Obj.slot,
           obj.pending = Obj.pending, Spent(obj),
           obj.qty = 0 => \A i \in DOMAIN orders : ~Protecting(i)',
           Fades,
           \A i \in DOMAIN orders :
             orders[i].fate \in Sound => orders'[i].fate \in Sound,
           held' \in 0..Full, held' <= held, cleaners' \subseteq Cleaner,
           \A c \in cleaners' :
             \/ c \in cleaners
             \/ /\ c.who = "task" /\ c.o = cur /\ obj.qty = 0
                /\ \E l \in Leg : c.id = obj.slot[l] /\ c.id # None,
           torn \subseteq torn', unswept \cup torn' \subseteq 0..entries,
           entries \notin torn' => held' <= obj.qty,
           obj.qty > 0 /\ entries \notin unswept =>
             \A i \in DOMAIN orders : orders[i].entry = entries => ~Live(i)'
    PROVE  Inv'
<1>1. PICK new :
        /\ Like(new, obj)
        /\ objs' = [objs EXCEPT ![cur] = new]
        /\ \/ /\ pc' \in Leaving \cup {"replenish", "sync", "take",
                                     "trail", "time"}
              /\ pc' = "take" => obj.qty > 0
              /\ pc' = "replenish" => Due(new)
              /\ pc' \in Leaving => new.qty = 0
              /\ job' = NoJob
           \/ /\ pc' = "place" /\ obj.qty > 0
              /\ job' = [NoJob EXCEPT !.todo = {"stop", "tp2"},
                                      !.next = "time"]
  BY ReturnDoes
<1>2. /\ new \in Object /\ new.entry = Obj.entry /\ new.slot = Obj.slot
      /\ new.qty = obj.qty /\ (Obj.pending => new.pending \/ Complete(Obj))
      /\ Spent(new)
  BY <1>1 DEF Like, Complete
<1>3. /\ cur # None /\ Obj.qty > 0 /\ cur \in DOMAIN objs
      /\ Obj' = new /\ objs'[cur] = new
  BY <1>1, <1>2, RecordAt DEF Stands, Inv, Obj
<1>4. \/ /\ pc' \in Leaving \cup {"replenish", "sync", "take",
                                "trail", "time"}
         /\ pc' = "take" => obj.qty > 0
         /\ pc' = "replenish" => Due(new)
         /\ pc' \in Leaving => new.qty = 0
         /\ job' \in Job
      \/ /\ pc' = "place" /\ obj.qty > 0 /\ job' \in Job
         /\ job'.todo = {"stop", "tp2"} /\ job'.next = "time"
  <2>1. {"stop", "tp2"} \in SUBSET Leg
    BY LegsAre
  <2> QED
    BY <1>1, <2>1, NoJobTyped, PlaceJob
<1>5. /\ Asks /\ job' \in Job
      /\ pc' \in Busy => new.qty > 0
      /\ pc' \in (Working \ {"clean"}) \cup {"monitor", "sync"}
  BY <1>2, <1>3, <1>4 DEF Asks, Working, Busy, Due, Leaving
<1>6. Asked
  BY <1>4 DEF Asked, Recorded, Fades, Leaving
<1>7. Amount'
  BY <1>2, <1>3, <1>4 DEF Amount, Leaving
<1>8. Spared
  <2>1. \A l \in Required : Obj.slot[l] # None =>
          Obj.slot[l] \in DOMAIN orders
    BY <1>3, LegsAre DEF Inv, Slots, Holds, Obj, Required
  <2> QED
    BY <2>1 DEF Spared
<1>9. \A c \in cleaners' :
        c.who = "task" /\ (c \in cleaners \/ (c.o = cur /\ Fresh(c)'))
  BY <1>2, <1>3, NoMain DEF Fresh
<1>10. /\ objs' = [objs EXCEPT ![cur] = new]
       /\ Obj.qty = 0 => new.qty = 0
       /\ new.qty = 0 /\ Obj.qty # 0 =>
            \A i \in DOMAIN orders : ~Protecting(i)'
       /\ new.qty > 0 => \A l \in Required : new.slot[l] = Obj.slot[l]
       /\ \A l \in Leg : new.slot[l] \in {Obj.slot[l], None}
       /\ Recalls /\ cur # None /\ entries' = entries
  BY <1>1, <1>2, <1>3 DEF Recalls
<1> QED
  BY <1>2, <1>5, <1>6, <1>7, <1>8, <1>9, <1>10, RecordStep

LEMMA ClosesStand ==
    ASSUME Inv, pc \in {"close_sync", "close_sweep", "close_order"}
    PROVE  /\ Stands /\ pc # "clean" /\ cur # None /\ Obj \in Object
           /\ Obj.qty \in 1..Full /\ held \in 0..Full /\ Spent(Obj)
<1>1. Stands /\ cur # None /\ pc # "clean" /\ held \in 0..Full
  BY DEF Inv, Phases, Busy, Stands, TypeOK
<1>2. Obj \in Object /\ Obj.qty \in 0..Full /\ Spent(Obj)
  BY <1>1, CurrentTyped, CurrentSpent DEF Inv
<1> QED
  BY <1>1, <1>2 DEF Stands, Full

LEMMA EntriesIn == ASSUME TypeOK PROVE entries \in 0..entries
BY Limits DEF TypeOK

LEMMA CloseSyncKeeps == ASSUME Inv, CloseSync PROVE Inv'
<1>1. /\ UNCHANGED <<held, entries, orders, cur, past>>
      /\ cleaners' = cleaners /\ pc = "close_sync"
  BY DEF CloseSync
<1>2. /\ Stands /\ pc # "clean" /\ cur # None /\ Obj \in Object
      /\ Obj.qty \in 1..Full /\ held \in 0..Full /\ Spent(Obj)
  BY <1>1, ClosesStand
<1>3. /\ Synced(Obj) \in Object
      /\ Synced(Obj).entry = Obj.entry /\ Synced(Obj).slot = Obj.slot
      /\ Synced(Obj).qty = held /\ Synced(Obj).pending = Obj.pending
      /\ Spent(Synced(Obj))
  BY <1>2, SyncedTyped DEF Inv
<1>4. CASE held = 0 /\ Return(TRUE, Synced(Obj))
  <2> DEFINE flat == Synced(Obj)
  <2>1. /\ Fades
        /\ \A i \in DOMAIN orders :
             orders[i].fate \in Sound => orders'[i].fate \in Sound
        /\ cleaners' \subseteq Cleaner /\ held' \in 0..Full /\ held' <= held
        /\ torn \subseteq torn' /\ unswept \cup torn' \subseteq 0..entries
      /\ UNCHANGED <<entries, cur, unswept>>
    BY <1>1, <1>2, StillFades DEF Inv, TypeOK, Amount, past, Full
  <2>2. \A i \in DOMAIN orders : ~Protecting(i)'
    BY <1>1, <1>4 DEF Protecting
  <2>3. /\ flat \in Object /\ flat.entry = Obj.entry /\ flat.slot = Obj.slot
        /\ flat.qty = 0 /\ flat.pending = Obj.pending /\ Spent(flat)
    BY <1>3, <1>4
  <2>4. Return(TRUE, flat)
    BY <1>4
  <2> HIDE DEF flat
  <2>5. /\ flat.qty = 0 => \A i \in DOMAIN orders : ~Protecting(i)'
        /\ \A c \in cleaners' :
             \/ c \in cleaners
             \/ /\ c.who = "task" /\ c.o = cur /\ flat.qty = 0
                /\ \E l \in Leg : c.id = flat.slot[l] /\ c.id # None
        /\ entries \notin torn' => held' <= flat.qty
        /\ flat.qty > 0 /\ entries \notin unswept =>
             \A i \in DOMAIN orders : orders[i].entry = entries => ~Live(i)'
    BY <1>1, <1>4, <2>2, <2>3
  <2>6. TRUE \in BOOLEAN
    OBVIOUS
  <2> QED
    BY <1>2, <2>1, <2>3, <2>4, <2>5, <2>6, Returns
<1>5. CASE held > 0 /\ Update(cur, Synced(Obj))
           /\ pc' = "close_sweep" /\ UNCHANGED job
  <2>1. Like(Synced(Obj), Synced(Obj))
    BY <1>3 DEF Like
  <2>2. /\ Asks /\ Asked /\ job' \in Job
        /\ pc' \in (Working \ {"clean", "close_order"})
                     \cup {"monitor", "sync"}
        /\ objs' = [objs EXCEPT ![cur] = Synced(Obj)]
        /\ Obj.qty # 0 /\ Synced(Obj).qty > 0
    BY <1>2, <1>3, <1>5 DEF Asks, Asked, Working, Update, Inv, TypeOK,
                            Leaving
  <2> QED
    BY <1>1, <1>2, <1>3, <2>1, <2>2, Moves
<1>6. CASE pc' = "close_sweep" /\ UNCHANGED <<objs, job>>
  <2>1. /\ job' \in Job /\ Obj.qty > 0
        /\ pc' \in Working \ ({"clean", "close_order", "place", "replenish"}
                                \cup Leaving)
    BY <1>2, <1>6 DEF Inv, TypeOK, Working, Leaving
  <2> QED
    BY <1>1, <1>2, <1>6, <2>1, MovesOn
<1> QED
  BY <1>4, <1>5, <1>6 DEF CloseSync

\* What a sweep of the symbol leaves on the book, and does not harm.
LEMMA SweepDoes ==
    ASSUME TypeOK, Sweep
    PROVE  /\ Fades
           /\ \A i \in DOMAIN orders : ~Live(i)'
           /\ \A i \in DOMAIN orders :
                orders[i].fate \in Sound => orders'[i].fate \in Sound
<1> DEFINE S == {i \in DOMAIN orders : Live(i)}
<1>1. orders' = Gone(S, "swept") /\ "swept" \in Fates \ {"live"}
  BY DEF Sweep, Fates
<1>2. /\ Fades
      /\ \A i \in DOMAIN orders :
           /\ i \notin S => orders'[i] = orders[i]
           /\ i \in S => orders'[i].fate = "swept"
  BY <1>1, GoneFades
<1> QED
  BY <1>2 DEF Live, Sound

LEMMA CloseSweepKeeps == ASSUME Inv, CloseSweep PROVE Inv'
<1>1. /\ UNCHANGED <<held, entries, objs, cur, job>>
      /\ cleaners' = cleaners /\ pc = "close_sweep" /\ pc' = "close_order"
  BY DEF CloseSweep
<1>2. /\ Stands /\ pc # "clean" /\ cur # None /\ Obj \in Object
      /\ Obj.qty \in 1..Full /\ held \in 0..Full /\ Spent(Obj)
  BY <1>1, ClosesStand
<1>3. /\ Fades
      /\ \A i \in DOMAIN orders :
           orders[i].fate \in Sound => orders'[i].fate \in Sound
      /\ entries \notin unswept' => \A i \in DOMAIN orders : ~Live(i)'
      /\ Recalls /\ torn' = torn
      /\ unswept' \cup torn \subseteq 0..entries
  <2>1. CASE Sweep /\ UNCHANGED past
    BY <2>1, SweepDoes DEF Inv, Amount, past, Recalls
  <2>2. CASE /\ UNCHANGED <<orders, torn>>
             /\ unswept' = unswept \cup {entries}
    <3>1. entries \in 0..entries
      BY EntriesIn DEF Inv
    <3> QED
      BY <2>2, <3>1, StillFades DEF Inv, Amount, Recalls
  <2> QED
    BY <2>1, <2>2 DEF CloseSweep
<1>4. /\ objs' = [objs EXCEPT ![cur] = Obj] /\ Obj' = Obj
  BY <1>1, <1>2 DEF Inv, TypeOK, Obj, None
<1>5. Amount'
  <2>1. DOMAIN orders' = DOMAIN orders
    BY <1>3, OrdersTyped DEF Inv, Fades
  <2> QED
    BY <1>1, <1>3, <1>4, <2>1 DEF Inv, Amount
<1>6. Spared
  <2>1. \A l \in Required : Obj.slot[l] # None =>
          Obj.slot[l] \in DOMAIN orders
    BY <1>2, CurrentTyped, LegsAre DEF Inv, Slots, Holds, Obj, Required
  <2> QED
    BY <1>3, <2>1 DEF Spared
<1>7. /\ Asks /\ Asked /\ job' \in Job
      /\ pc' \in (Working \ {"clean"}) \cup {"monitor", "sync"}
      /\ cleaners' \subseteq Cleaner /\ held' \in 0..Full /\ held' <= held
      /\ \A c \in cleaners' : c.who = "task" /\ c \in cleaners
      /\ Obj.qty > 0
  BY <1>1, <1>2, NoMain DEF Asks, Asked, Working, Leaving, Inv, TypeOK, Full
<1> QED
  BY <1>1, <1>2, <1>3, <1>4, <1>5, <1>6, <1>7, RecordStep

LEMMA CloseRejectedKeeps == ASSUME Inv, CloseRejected PROVE Inv'
<1>1. /\ UNCHANGED <<held, entries, cur, past>> /\ cleaners' = cleaners
      /\ pc = "close_order" /\ held = 0 /\ Sweep
      /\ Return(TRUE, Synced(Obj))
  BY DEF CloseRejected
<1>2. /\ Stands /\ pc # "clean" /\ cur # None /\ Obj \in Object
      /\ Obj.qty \in 1..Full /\ held \in 0..Full /\ Spent(Obj)
  BY <1>1, ClosesStand
<1> DEFINE flat == Synced(Obj)
<1>3. /\ flat \in Object /\ flat.entry = Obj.entry /\ flat.slot = Obj.slot
      /\ flat.qty = 0 /\ flat.pending = Obj.pending /\ Spent(flat)
  BY <1>1, <1>2, SyncedTyped DEF Inv
<1>4. /\ Fades
      /\ \A i \in DOMAIN orders :
           orders[i].fate \in Sound => orders'[i].fate \in Sound
  BY <1>1, SweepDoes DEF Inv
<1>5. /\ cleaners' \subseteq Cleaner /\ held' \in 0..Full /\ held' <= held
      /\ torn \subseteq torn' /\ unswept \cup torn' \subseteq 0..entries
      /\ UNCHANGED <<entries, cur, unswept>>
  BY <1>1, <1>2 DEF Inv, TypeOK, Amount, past, Full
<1>6. \A i \in DOMAIN orders : ~Protecting(i)'
  BY <1>1 DEF Protecting
<1>7. Return(TRUE, flat)
  BY <1>1
<1> HIDE DEF flat
<1>8. /\ flat.qty = 0 => \A i \in DOMAIN orders : ~Protecting(i)'
      /\ \A c \in cleaners' :
           \/ c \in cleaners
           \/ /\ c.who = "task" /\ c.o = cur /\ flat.qty = 0
              /\ \E l \in Leg : c.id = flat.slot[l] /\ c.id # None
      /\ entries \notin torn' => held' <= flat.qty
      /\ flat.qty > 0 /\ entries \notin unswept =>
           \A i \in DOMAIN orders : orders[i].entry = entries => ~Live(i)'
  BY <1>1, <1>3, <1>6
<1>9. TRUE \in BOOLEAN
  OBVIOUS
<1> QED
  BY <1>2, <1>3, <1>4, <1>5, <1>7, <1>8, <1>9, Returns

\* The first cancel of the task that a full close starts.
LEMMA TaskTyped ==
    ASSUME Inv, cur # None, NEW obj \in Object, obj.slot = Obj.slot,
           NEW c \in CleanAfter("task", cur, obj, 0)
    PROVE  /\ c \in Cleaner /\ c.who = "task" /\ c.o = cur
           /\ \E l \in Leg : c.id = obj.slot[l] /\ c.id # None
<1>1. /\ c = [who |-> c.who, o |-> c.o, k |-> c.k, id |-> c.id]
      /\ c.who = "task" /\ c.o = cur /\ c.k \in 1..4
      /\ \E l \in Leg : c.id = obj.slot[l] /\ c.id # None
  BY CleanAfterIn
<1>2. cur \in Nat /\ c.id \in 1..MaxOrders
  <2>1. cur \in Nat
    BY DEF Inv, TypeOK
  <2>2. \A l \in Leg : obj.slot[l] \in 0..MaxOrders
    BY DEF Object
  <2> QED
    BY <1>1, <2>1, <2>2, Limits DEF None
<1> QED
  BY <1>1, <1>2 DEF Cleaner

LEMMA CloseOrderKeeps ==
    ASSUME Inv, NEW sold \in 0..Full, NEW filled \in BOOLEAN,
           CloseOrder(sold, filled)
    PROVE  Inv'
<1> DEFINE q == Lesser(job.q, Obj.qty)
           left == [Obj EXCEPT !.qty = @ - q, !.cancelPending = (Obj.qty = q)]
<1>1. /\ UNCHANGED <<entries, orders, cur, unswept>> /\ pc = "close_order"
      /\ sold <= held /\ held' = held - sold
      /\ \/ torn' = torn /\ sold = (IF filled THEN Lesser(q, held) ELSE 0)
         \/ torn' = torn \cup {entries}
  BY DEF CloseOrder, Works, Fails
<1>2. /\ Stands /\ pc # "clean" /\ cur # None /\ Obj \in Object
      /\ Obj.qty \in 1..Full /\ held \in 0..Full /\ Spent(Obj)
  BY <1>1, ClosesStand
<1>3. q \in 0..Full /\ q <= Obj.qty
  <2>1. job.q \in 0..Full
    BY DEF Inv, TypeOK, Job
  <2> QED
    BY <1>2, <2>1 DEF Lesser, Full
<1> HIDE DEF q
<1>4. /\ left \in Object /\ left.entry = Obj.entry /\ left.slot = Obj.slot
      /\ left.pending = Obj.pending /\ left.qty = Obj.qty - q
      /\ Spent(left)
  <2> DEFINE n == Obj.qty - q
             b == (Obj.qty = q)
  <2>1. n \in 0..Full /\ b \in BOOLEAN /\ (b => n = 0)
    BY <1>2, <1>3 DEF Full
  <2>2. left = [Obj EXCEPT !.qty = n, !.cancelPending = b] /\ n = Obj.qty - q
    OBVIOUS
  <2> HIDE DEF n, b, left
  <2> QED
    BY <1>2, <2>1, <2>2 DEF Object, Spent
<1> HIDE DEF left
<1>5. /\ Fades
      /\ \A i \in DOMAIN orders :
           orders[i].fate \in Sound => orders'[i].fate \in Sound
  BY <1>1, StillFades DEF Inv
<1>6. held' \in 0..Full /\ held' <= held
  BY <1>1, <1>2 DEF Full
<1>7. torn \subseteq torn' /\ unswept \cup torn' \subseteq 0..entries
  <2>1. entries \in 0..entries
    BY EntriesIn DEF Inv
  <2> QED
    BY <1>1, <2>1 DEF Inv, Amount
<1>8. entries \notin unswept =>
        \A i \in DOMAIN orders : orders[i].entry = entries => ~Live(i)'
  BY <1>1 DEF Inv, Amount, Live
<1>9. CASE filled
  <2>1. /\ Return(TRUE, left)
        /\ cleaners' = IF left.qty > 0 THEN cleaners
                       ELSE cleaners \cup CleanAfter("task", cur, left, 0)
    BY <1>9 DEF CloseOrder, left, q
  <2>2. entries \notin torn' => held' <= left.qty
    BY <1>1, <1>2, <1>3, <1>4, <1>9 DEF Inv, Amount, Lesser, Full
  <2>3. left.qty = 0 => \A i \in DOMAIN orders : ~Protecting(i)'
    <3>1. CASE entries \notin unswept
      BY <1>1, <1>8, <3>1 DEF Protecting
    <3>2. CASE entries \notin torn'
      BY <1>6, <2>2, <3>2 DEF Protecting, Full
    <3> QED
      BY <1>1, <3>1, <3>2 DEF Protecting, Doubtful
  <2>4. /\ cleaners' \subseteq Cleaner
        /\ \A c \in cleaners' :
             \/ c \in cleaners
             \/ /\ c.who = "task" /\ c.o = cur /\ left.qty = 0
                /\ \E l \in Leg : c.id = left.slot[l] /\ c.id # None
    <3>1. left.qty \in Nat
      BY <1>2, <1>3, <1>4 DEF Full
    <3>2. cleaners \subseteq Cleaner
      BY DEF Inv, TypeOK
    <3> QED
      BY <1>2, <1>4, <2>1, <3>1, <3>2, TaskTyped
  <2> QED
    BY <1>1, <1>2, <1>4, <1>5, <1>6, <1>7, <1>8, <2>1, <2>2, <2>3, <2>4,
       Returns
<1>10. CASE ~filled
  <2>1. Return(FALSE, Obj) /\ cleaners' = cleaners
    BY <1>10 DEF CloseOrder
  <2>2. entries \notin torn' => held' <= Obj.qty
    BY <1>1, <1>2 DEF Inv, Amount, Full
  <2>3. cleaners' \subseteq Cleaner /\ Obj.qty # 0
    BY <1>2, <2>1 DEF Inv, TypeOK
  <2> QED
    BY <1>1, <1>2, <1>5, <1>6, <1>7, <1>8, <2>1, <2>2, <2>3, Returns
<1> QED
  BY <1>9, <1>10

-----------------------------------------------------------------------------
(* The clean-ups.                                                          *)

\* A clean-up takes slots from a record and changes nothing else that the
\* invariant reads.
Shed(new, obj) ==
    /\ new \in Object
    /\ new.entry = obj.entry /\ new.qty = obj.qty
    /\ new.rounds = obj.rounds /\ new.pending = obj.pending
    /\ \A l \in Leg : new.slot[l] \in {obj.slot[l], None}
    /\ Spent(obj) => Spent(new)

LEMMA EndedDoes ==
    ASSUME NEW obj \in Object
    PROVE  Like(Ended(obj), obj) /\ Shed(Ended(obj), obj)
<1> DEFINE b == obj.cancelPending /\ ~(Emptied(obj) /\ ~Failed(obj))
<1>1. b \in BOOLEAN /\ (b => obj.cancelPending)
  BY DEF Object
<1>2. Ended(obj) = [obj EXCEPT !.cancelPending = b]
  BY DEF Ended
<1> HIDE DEF b
<1> QED
  BY <1>1, <1>2 DEF Like, Shed, Object, Spent

LEMMA ClearedDoes ==
    ASSUME NEW obj \in Object, NEW leg \in Leg
    PROVE  Shed(Cleared(obj, leg), obj) /\ Shed(Counted(obj, leg), obj)
<1>1. obj.slot \in [Leg -> 0..MaxOrders]
      /\ obj.fails \in [Leg -> 0..MaxCancels - 1]
  BY DEF Object
<1>2. None \in 0..MaxOrders /\ 0 \in 0..MaxCancels - 1
  BY Limits DEF None
<1>3. Shed(Cleared(obj, leg), obj)
  BY <1>1, <1>2 DEF Cleared, Shed, Object, Spent
<1>4. CASE obj.fails[leg] + 1 >= MaxCancels
  BY <1>3, <1>4 DEF Counted
<1>5. CASE ~(obj.fails[leg] + 1 >= MaxCancels)
  <2> DEFINE n == obj.fails[leg] + 1
  <2>1. n \in 0..MaxCancels - 1
    BY <1>1, <1>5, Limits
  <2>2. Counted(obj, leg) = [obj EXCEPT !.fails[leg] = n]
    BY <1>5 DEF Counted
  <2> HIDE DEF n
  <2>3. Shed(Counted(obj, leg), obj)
    BY <1>1, <2>1, <2>2 DEF Shed, Object, Spent
  <2> QED
    BY <1>3, <2>3
<1> QED
  BY <1>3, <1>4, <1>5

\* The next request of a clean-up of an object.
LEMMA RequestTyped ==
    ASSUME Inv, NEW who \in {"main", "task"}, NEW o \in DOMAIN objs,
           NEW obj, Shed(obj, objs[o]), NEW k \in 0..4,
           NEW c \in CleanAfter(who, o, obj, k)
    PROVE  /\ c \in Cleaner /\ c.who = who /\ c.o = o
           /\ CleanAfter(who, o, obj, k) = {c}
           /\ c.id \in DOMAIN orders
           /\ \E l \in Leg : c.id = obj.slot[l] /\ c.id # None
<1>1. obj \in Object
  BY DEF Shed
<1>2. /\ CleanAfter(who, o, obj, k) = {c}
      /\ c = [who |-> c.who, o |-> c.o, k |-> c.k, id |-> c.id]
      /\ c.who = who /\ c.o = o /\ c.k \in 1..4
      /\ \E l \in Leg : c.id = obj.slot[l] /\ c.id # None
  BY <1>1, CleanAfterIn
<1>3. PICK l \in Leg : c.id = obj.slot[l] /\ c.id # None
  BY <1>2
<1>4. c.id = objs[o].slot[l]
  BY <1>3 DEF Shed
<1>5. c.id \in DOMAIN orders
  BY <1>3, <1>4 DEF Inv, Slots, Holds
<1>6. c.id \in 1..MaxOrders /\ o \in Nat
  <2>1. obj.slot[l] \in 0..MaxOrders
    BY <1>1, <1>3 DEF Object
  <2>2. DOMAIN objs = 1..Len(objs) /\ Len(objs) \in Nat
    BY DEF Inv, TypeOK
  <2> QED
    BY <1>3, <2>1, <2>2, Limits DEF None
<1> QED
  BY <1>2, <1>5, <1>6 DEF Cleaner

LEMMA CleanUpKeeps == ASSUME Inv, CleanUp PROVE Inv'
<1> DEFINE S == CleanAfter("main", cur, Obj, 0)
<1>1. /\ UNCHANGED <<held, entries, orders, faults, past>> /\ pc \in Leaving
      /\ cleaners' = cleaners \cup S
      /\ S = {} => CleanEnds(pc, Ended(Obj), cleaners)
      /\ S # {} => /\ pc' = "clean" /\ job' = [NoJob EXCEPT !.next = pc]
                   /\ UNCHANGED <<objs, cur>>
  BY DEF CleanUp, Leaving
<1>2. /\ cur # None /\ Obj.qty = 0 /\ pc # "clean" /\ ~Stands
      /\ cur \in DOMAIN objs
  <2>1. cur # None /\ Obj.qty = 0
    BY <1>1 DEF Inv, TypeOK, Working, Leaving, Phases
  <2> QED
    BY <1>1, <2>1, CurrentTyped DEF Stands, Leaving, Inv
<1>3. Obj \in Object /\ Spent(Obj)
  BY <1>2, CurrentTyped, CurrentSpent DEF Inv
<1>4. \A c \in cleaners : c.who = "task"
  BY <1>2, NoMain
<1> HIDE DEF S
<1>5. CASE S = {}
  <2> DEFINE end == Ended(Obj)
  <2>1. Like(end, Obj)
    BY <1>3, EndedDoes
  <2>2. /\ end \in Object /\ end.entry = Obj.entry /\ end.slot = Obj.slot
        /\ end.qty = 0 /\ Spent(end) /\ end.pending = Obj.pending
    BY <1>2, <1>3, <2>1, EndedDoes DEF Like, Shed
  <2>3. CleanEnds(pc, end, cleaners)
    BY <1>1, <1>5
  <2> HIDE DEF end
  <2>4. \/ \E new :
             /\ Like(new, end)
             /\ objs' = [objs EXCEPT ![cur] = new]
             /\ pc' \in Leaving \cup {"sync"}
             /\ job' = NoJob /\ cur' = cur
        \/ Forget(cleaners) /\ Goto("sync")
    BY <1>1, <2>2, <2>3, CleanEndsDoes
  <2>5. cleaners' = cleaners
    BY <1>1, <1>5
  <2>6. CASE \E new :
               /\ Like(new, end)
               /\ objs' = [objs EXCEPT ![cur] = new]
               /\ pc' \in Leaving \cup {"sync"}
               /\ job' = NoJob /\ cur' = cur
    <3>1. PICK new :
            /\ Like(new, end)
            /\ objs' = [objs EXCEPT ![cur] = new]
            /\ pc' \in Leaving \cup {"sync"}
            /\ job' = NoJob /\ cur' = cur
      BY <2>6
    <3>2. Obj' = new /\ new.qty = 0
      BY <1>2, <2>2, <3>1, RecordAt DEF Like, Obj, Inv
    <3>3. /\ Asks /\ Asked /\ job' \in Job /\ pc' \notin Busy
          /\ pc' \in (Working \ {"clean", "close_order"})
                       \cup {"monitor", "sync"}
      BY <3>1, <3>2, NoJobTyped DEF Asks, Asked, Leaving, Busy, Working
    <3> QED
      BY <1>1, <1>2, <2>2, <2>5, <3>1, <3>3, Moves
  <2>7. CASE Forget(cleaners) /\ Goto("sync")
    <3>1. /\ Forget(cleaners') /\ pc' = "sync" /\ job' \in Job /\ Fades
          /\ \A c \in cleaners' : c.who = "task"
          /\ cleaners' \subseteq cleaners
      BY <1>1, <1>4, <2>5, <2>7, NoJobTyped, StillFades DEF Goto, Inv, Forget
    <3> QED
      BY <1>1, <3>1, Forgets
  <2> QED
    BY <2>4, <2>6, <2>7
<1>6. CASE S # {}
  <2>1. PICK c : c \in S
    BY <1>6
  <2>2. Shed(objs[cur], objs[cur]) /\ Obj = objs[cur]
    BY <1>3 DEF Shed, Obj
  <2>3. /\ c \in Cleaner /\ c.who = "main" /\ c.o = cur
        /\ S = {c} /\ c.id \in DOMAIN orders
        /\ \E l \in Leg : c.id = Obj.slot[l] /\ c.id # None
    BY <1>2, <2>1, <2>2, RequestTyped DEF S
  <2>4. /\ pc' = "clean" /\ job' \in Job /\ job'.next = pc
        /\ UNCHANGED <<held, entries, orders, objs, cur, past>>
    BY <1>1, <1>6, CleanJob
  <2>5. Obj' = Obj /\ ~Stands'
    BY <1>2, <2>4 DEF Obj, Stands
  <2>6. TypeOK'
    BY <1>1, <1>2, <2>3, <2>4 DEF Inv, TypeOK, Working
  <2>7. Phases'
    BY <1>1, <2>4, <2>5 DEF Inv, Phases, Busy, Leaving
  <2>8. MainOne'
    BY <1>1, <1>4, <2>3, <2>4 DEF MainOne
  <2>9. Amount'
    BY <2>4, <2>5 DEF Inv, Amount, past
  <2>10. Settled
    <3>1. Fades
      BY <2>4, StillFades DEF Inv
    <3>2. \A o \in DOMAIN objs' : Tame(o)
      BY <2>4 DEF Tame
    <3>3. Fresh(c)'
      BY <1>2, <2>3, <2>4, <2>5 DEF Fresh, Obj
    <3> QED
      BY <1>1, <2>3, <2>4, <2>5, <3>1, <3>2, <3>3
         DEF Settled, Inv, TypeOK, Full
  <2>11. Keeps /\ Spared /\ Asked /\ Recalls
    BY <2>4, <2>5 DEF Keeps, Spared, Asked, past, Recalls
  <2> QED
    BY <2>6, <2>7, <2>8, <2>9, <2>10, <2>11, Assemble
<1> QED
  BY <1>5, <1>6

\* What the answer of one cancel does to the book.
LEMMA AnswerDoes ==
    ASSUME Inv, NEW c \in cleaners, Clean(c)
    PROVE  /\ Fades
           /\ \A i \in DOMAIN orders : i # c.id => orders'[i] = orders[i]
<1>1. /\ TypeOK /\ c.id \in DOMAIN orders
      /\ DOMAIN orders = 1..Len(orders) /\ Len(orders) \in Nat
      /\ orders[c.id] \in Order
  BY OrdersTyped DEF Inv, TypeOK
<1>2. CASE UNCHANGED orders
  BY <1>1, <1>2, StillFades
<1>3. CASE orders' = Gone({c.id}, "cancelled")
  <2>1. "cancelled" \in Fates \ {"live"}
    BY DEF Fates
  <2> DEFINE S == {c.id}
  <2>2. orders' = Gone(S, "cancelled") /\ \A i \in DOMAIN orders :
                                            i # c.id => i \notin S
    BY <1>3
  <2> HIDE DEF S
  <2>3. /\ Fades
        /\ \A i \in DOMAIN orders : i \notin S => orders'[i] = orders[i]
    BY <1>1, <2>1, <2>2, GoneFades
  <2> QED
    BY <2>2, <2>3
<1>4. CASE \E row \in {orders[c.id].row, "EXECUTED"} :
             orders' = [orders EXCEPT ![c.id].row = row]
  <2>1. PICK row \in {orders[c.id].row, "EXECUTED"} :
          orders' = [orders EXCEPT ![c.id].row = row]
    BY <1>4
  <2> DEFINE new == [orders[c.id] EXCEPT !.row = row]
  <2>2. /\ new \in Order
        /\ new.leg = orders[c.id].leg /\ new.entry = orders[c.id].entry
        /\ new.fate = orders[c.id].fate
        /\ new.row = "OPEN" => orders[c.id].row = "OPEN"
    BY <1>1, <2>1 DEF Order
  <2>3. orders' = [orders EXCEPT ![c.id] = new]
    BY <1>1, <2>1 DEF TypeOK
  <2> HIDE DEF new
  <2>4. /\ orders' \in Seq(Order) /\ Len(orders') = Len(orders)
        /\ orders'[c.id] = new
        /\ \A i \in DOMAIN orders : i # c.id => orders'[i] = orders[i]
    BY <1>1, <2>2, <2>3 DEF TypeOK
  <2> QED
    BY <2>2, <2>4 DEF Fades
<1> QED
  BY <1>2, <1>3, <1>4 DEF Clean

LEMMA CleanGoesOn ==
    ASSUME Inv, NEW c \in cleaners, Clean(c), NEW new,
           Shed(new, objs[c.o]), NEW next,
           next = {} \/ next = CleanAfter(c.who, c.o, new, c.k),
           objs' = [objs EXCEPT ![c.o] = new],
           cleaners' = (cleaners \ {c}) \cup next,
           UNCHANGED <<pc, job, cur, held, entries, past>>
    PROVE  Inv'
<1>1. /\ c \in Cleaner /\ c.o \in DOMAIN objs /\ c.id \in DOMAIN orders
      /\ c.who \in {"main", "task"} /\ c.k \in 0..4
      /\ objs[c.o].qty = 0 /\ Former(c.id)
  BY DEF Inv, TypeOK, Cleaner, Dead
<1>2. /\ Fades
      /\ \A i \in DOMAIN orders : i # c.id => orders'[i] = orders[i]
  BY AnswerDoes
<1>3. /\ new \in Object /\ new.entry = objs[c.o].entry /\ new.qty = 0
      /\ new.rounds = objs[c.o].rounds
      /\ \A l \in Leg : new.slot[l] \in {objs[c.o].slot[l], None}
      /\ Spent(new)
  BY <1>1 DEF Shed, Inv, Phases
<1>4. /\ objs' \in Seq(Object) /\ DOMAIN objs' = DOMAIN objs
      /\ Len(objs') = Len(objs) /\ objs'[c.o] = new
      /\ \A o \in DOMAIN objs : o # c.o => objs'[o] = objs[o]
  <2>1. objs \in Seq(Object) /\ DOMAIN objs = 1..Len(objs)
        /\ Len(objs) \in Nat
    BY DEF Inv, TypeOK
  <2> QED
    BY <1>1, <1>3, <2>1
<1>5. ASSUME NEW d \in next
      PROVE  /\ d \in Cleaner /\ d.who = c.who /\ d.o = c.o
             /\ next = {d} /\ d.id \in DOMAIN orders /\ Fresh(d)'
  <2>1. /\ d \in Cleaner /\ d.who = c.who /\ d.o = c.o
        /\ next = {d} /\ d.id \in DOMAIN orders
        /\ \E l \in Leg : d.id = new.slot[l] /\ d.id # None
    BY <1>1, <1>5, RequestTyped
  <2> QED
    BY <1>3, <1>4, <2>1 DEF Fresh
<1>6. /\ cur # None => cur \in DOMAIN objs /\ Obj'.qty = Obj.qty
                      /\ Obj'.rounds = Obj.rounds /\ Obj'.entry = Obj.entry
      /\ Stands' <=> Stands
      /\ Stands => Obj' = Obj
  <2>1. cur # None => cur \in DOMAIN objs
    BY CurrentTyped DEF Inv
  <2> QED
    BY <1>1, <1>3, <1>4, <2>1 DEF Obj, Stands
<1>7. DOMAIN orders' = DOMAIN orders
  BY <1>2, OrdersTyped DEF Inv, Fades
<1>8. TypeOK'
  <2>1. cleaners' \subseteq Cleaner
    BY <1>5 DEF Inv, TypeOK
  <2>2. \A d \in cleaners' : d.o \in DOMAIN objs' /\ d.id \in DOMAIN orders'
    BY <1>1, <1>4, <1>5, <1>7 DEF Inv, TypeOK
  <2>3. orders' \in Seq(Order) /\ Len(orders') <= MaxOrders
    BY <1>2 DEF Fades, Inv, TypeOK
  <2> QED
    BY <1>4, <2>1, <2>2, <2>3 DEF Inv, TypeOK
<1>9. Phases'
  <2>1. \A o \in DOMAIN objs' : Spent(objs'[o])
    BY <1>3, <1>4 DEF Inv, Phases
  <2>2. ~(pc \in {"start", "adopt", "ensure"} /\ cur = None)
    BY DEF Inv, Phases
  <2> QED
    <3>1. cur # None \/ pc \notin Working
      BY DEF Inv, TypeOK
    <3>2. Phases
      BY DEF Inv
    <3> QED
      BY <1>6, <2>1, <2>2, <3>1, <3>2
         DEF Phases, Busy, Leaving, Stands, Working
<1>10. MainOne'
  BY <1>5 DEF Inv, MainOne
<1>11. Amount'
  BY <1>2, <1>6, <1>7 DEF Inv, Amount, Live, Fades, past
<1>12. Settled
  <2>1. \A o \in DOMAIN objs' : Tame(o)
    BY <1>1, <1>3, <1>4 DEF Tame
  <2> QED
    BY <1>2, <1>4, <1>5, <1>6, <2>1 DEF Settled, Inv, TypeOK, Full
<1>13. Spared
  <2> SUFFICES ASSUME Stands, Obj.entry = entries, NEW l \in Required,
                      Obj.slot[l] # None
               PROVE  orders'[Obj.slot[l]] = orders[Obj.slot[l]]
    BY <1>6 DEF Spared
  <2>1. cur \in DOMAIN objs /\ entries > 0 /\ entries \in Nat
    BY <1>6, Limits DEF Stands, Inv, Phases, TypeOK
  <2>2. Obj.slot[l] \in DOMAIN orders /\ orders[Obj.slot[l]].entry = entries
    BY <2>1, LegsAre DEF Inv, Slots, Holds, Obj, Required, None
  <2>3. orders[c.id].entry < entries
    BY <1>1 DEF Former
  <2> QED
    BY <1>1, <1>2, <2>1, <2>2, <2>3
<1>14. Keeps /\ Asked /\ Recalls
  BY <1>6 DEF Keeps, Asked, past, Recalls
<1> QED
  BY <1>8, <1>9, <1>10, <1>11, <1>12, <1>13, <1>14, Assemble

LEMMA CleanKeeps == ASSUME Inv, NEW c \in cleaners, Clean(c) PROVE Inv'
<1>1. /\ c.o \in DOMAIN objs /\ objs[c.o] \in Object /\ Legs[c.k] \in Leg
      /\ objs[c.o].qty = 0
  BY LegsAre, ObjectsTyped DEF Inv, TypeOK, Cleaner, Dead
<1>2. /\ UNCHANGED <<held, entries, past>> /\ pc \notin Leaving
  BY DEF Clean, Leaving
<1>3. PICK shed \in {Cleared(objs[c.o], Legs[c.k]),
                     Counted(objs[c.o], Legs[c.k])} :
        LET rest == CleanAfter(c.who, c.o, shed, c.k)
            left == (cleaners \ {c}) \cup rest
        IN /\ cleaners' = left
           /\ IF rest = {} /\ c.who = "main"
              THEN CleanEnds(job.next, Ended(shed), left)
              ELSE /\ Update(c.o, IF rest = {} THEN Ended(shed) ELSE shed)
                   /\ UNCHANGED <<pc, job, cur>>
  BY DEF Clean
<1>4. Shed(shed, objs[c.o])
  BY <1>1, ClearedDoes
<1> DEFINE rest == CleanAfter(c.who, c.o, shed, c.k)
           end == Ended(shed)
<1>5. /\ cleaners' = (cleaners \ {c}) \cup rest
      /\ rest = {} /\ c.who = "main" => CleanEnds(job.next, end, cleaners')
      /\ ~(rest = {} /\ c.who = "main") =>
           /\ objs' = [objs EXCEPT ![c.o] = IF rest = {} THEN end ELSE shed]
           /\ UNCHANGED <<pc, job, cur>>
  BY <1>3 DEF Update
<1>6. Shed(end, objs[c.o])
  <2>1. Shed(end, shed)
    BY <1>4, EndedDoes DEF Shed
  <2> QED
    BY <1>4, <2>1 DEF Shed
<1>7. rest = CleanAfter(c.who, c.o, shed, c.k)
  OBVIOUS
<1> HIDE DEF rest, end
<1>8. CASE ~(rest = {} /\ c.who = "main")
  <2>1. CASE rest = {}
    BY <1>2, <1>5, <1>6, <1>8, <2>1, CleanGoesOn
  <2>2. CASE rest # {}
    BY <1>2, <1>4, <1>5, <1>7, <1>8, <2>2, CleanGoesOn
  <2> QED
    BY <2>1, <2>2
<1>9. CASE rest = {} /\ c.who = "main"
  <2>1. /\ pc = "clean" /\ c.o = cur /\ job.next \in Leaving
        /\ \A d \in cleaners : d.who = "main" => d = c
    BY <1>9 DEF Inv, MainOne, Phases
  <2>2. /\ cleaners' \subseteq cleaners /\ cleaners' \subseteq Cleaner
        /\ \A d \in cleaners' : d.who = "task"
    BY <1>5, <1>9, <2>1 DEF Inv, TypeOK, Cleaner
  <2>3. cur # None /\ Obj = objs[c.o] /\ Obj.qty = 0
    BY <1>1, <2>1 DEF Inv, TypeOK, Working, Obj
  <2>4. /\ end \in Object /\ end.qty = 0 /\ end.entry = Obj.entry
        /\ end.pending = Obj.pending /\ Spent(end)
        /\ \A l \in Leg : end.slot[l] \in {Obj.slot[l], None}
    BY <1>1, <1>6, <2>3 DEF Shed, Inv, Phases
  <2>5. CleanEnds(job.next, end, cleaners')
    BY <1>5, <1>9
  <2>6. \/ \E new :
             /\ Like(new, end)
             /\ objs' = [objs EXCEPT ![cur] = new]
             /\ pc' \in Leaving \cup {"sync"}
             /\ job' = NoJob /\ cur' = cur
        \/ Forget(cleaners') /\ Goto("sync")
    BY <2>1, <2>4, <2>5, CleanEndsDoes
  <2>7. Fades
    BY AnswerDoes
  <2>8. CASE \E new :
               /\ Like(new, end)
               /\ objs' = [objs EXCEPT ![cur] = new]
               /\ pc' \in Leaving \cup {"sync"}
               /\ job' = NoJob /\ cur' = cur
    <3>1. PICK new :
            /\ Like(new, end)
            /\ objs' = [objs EXCEPT ![cur] = new]
            /\ pc' \in Leaving \cup {"sync"}
            /\ job' = NoJob /\ cur' = cur
      BY <2>8
    <3>2. /\ new \in Object /\ new.entry = Obj.entry /\ new.qty = 0
          /\ new.slot = end.slot /\ Spent(new)
          /\ Obj.pending => new.pending \/ Complete(end)
      BY <2>4, <3>1 DEF Like
    <3>3. Complete(end) => Complete(Obj)
      BY <2>4, LegsAre DEF Complete, Required
    <3>4. Obj' = new /\ ~Stands'
      <4>1. objs'[cur] = new /\ cur' = cur
        BY <2>3, <3>1, <3>2, RecordAt DEF Inv
      <4> QED
        BY <3>2, <4>1 DEF Obj, Stands
    <3>5. /\ Asks /\ Asked /\ Spared /\ job' \in Job /\ pc' \notin Busy
          /\ pc' \in (Working \ {"clean"}) \cup {"monitor", "sync"}
      BY <3>1, <3>2, <3>4, NoJobTyped
         DEF Asks, Asked, Spared, Leaving, Busy, Working
    <3>6. Amount'
      BY <1>2, <2>3, <3>1, <3>2, <3>4 DEF Inv, Amount, Leaving, past
    <3>7. held' \in 0..Full /\ held' <= held /\ entries' = entries
          /\ Recalls /\ UNCHANGED cur
      BY <1>2, <3>1 DEF Inv, TypeOK, Full, past, Recalls
    <3>8. /\ \A l \in Leg : new.slot[l] \in {Obj.slot[l], None}
          /\ new.qty > 0 => \A l \in Required : new.slot[l] = Obj.slot[l]
          /\ Obj.pending => new.pending \/ Complete(Obj)
          /\ new.qty = 0 /\ Obj.qty # 0 =>
               \A i \in DOMAIN orders : ~Protecting(i)'
          /\ objs' = [objs EXCEPT ![cur] = new]
          /\ \A d \in cleaners' :
               d.who = "task" /\ (d \in cleaners \/ (d.o = cur /\ Fresh(d)'))
      BY <2>2, <2>3, <2>4, <3>1, <3>2, <3>3
    <3> QED
      BY <2>2, <2>3, <2>7, <3>2, <3>5, <3>6, <3>7, <3>8, RecordStep
  <2>9. CASE Forget(cleaners') /\ Goto("sync")
    <3>1. pc' = "sync" /\ job' \in Job
      BY <2>9, NoJobTyped DEF Goto
    <3> QED
      BY <1>2, <2>2, <2>7, <2>9, <3>1, Forgets
  <2> QED
    BY <2>6, <2>8, <2>9
<1> QED
  BY <1>8, <1>9

-----------------------------------------------------------------------------
(* The exchange, a stop and a start.                                       *)

LEMMA TriggerKeeps == ASSUME Inv, NEW i \in DOMAIN orders, Trigger(i) PROVE Inv'
<1>1. /\ UNCHANGED <<entries, objs, cur, pc, job, cleaners, faults, past>>
      /\ held' = held - Lesser(Quantity(orders[i].leg), held)
      /\ orders' = Gone({i}, "executed") /\ held > 0
  BY DEF Trigger
<1>2. /\ held' \in 0..Full /\ held' <= held /\ held \in 1..Full
  BY <1>1 DEF Inv, TypeOK, Quantity, Lesser, Full
<1>3. /\ Fades
      /\ \A j \in DOMAIN orders : j # i => orders'[j] = orders[j]
      /\ orders'[i].fate = "executed"
  <2>1. TypeOK /\ "executed" \in Fates \ {"live"}
    BY DEF Inv, Fates
  <2> DEFINE S == {i}
  <2>2. orders' = Gone(S, "executed") /\ i \in S /\ \A j : j # i => j \notin S
    BY <1>1
  <2> HIDE DEF S
  <2>3. /\ Fades
        /\ \A j \in DOMAIN orders :
             /\ j \notin S => orders'[j] = orders[j]
             /\ j \in S => orders'[j].fate = "executed"
    BY <2>1, <2>2, GoneFades
  <2> QED
    BY <2>2, <2>3
<1>4. Obj' = Obj /\ (Stands' <=> Stands) /\ DOMAIN orders' = DOMAIN orders
  BY <1>1, <1>3, OrdersTyped DEF Obj, Stands, Inv, Fades
<1>5. TypeOK'
  BY <1>1, <1>2, <1>3, <1>4 DEF Inv, TypeOK, Fades
<1>6. Phases' /\ MainOne'
  BY <1>1, <1>2, <1>4 DEF Inv, Phases, MainOne
<1>7. Amount'
  <2>1. cur # None => Obj.qty \in Nat
    BY CurrentTyped DEF Inv, Full
  <2>2. Amount /\ held \in Nat /\ held' \in Nat /\ UNCHANGED <<unswept, torn>>
    BY <1>1, <1>2 DEF Inv, past, Full
  <2>3. \A j \in DOMAIN orders' : Live(j)' => Live(j)
    BY <1>3, <1>4 DEF Fades, Live
  <2>4. cur' # None /\ entries' \notin torn' => held' <= Obj'.qty
    BY <1>1, <1>2, <1>4, <2>1, <2>2 DEF Amount
  <2>5. pc' = "close_order" /\ entries' \notin unswept' =>
          \A j \in DOMAIN orders' : orders'[j].entry = entries' => ~Live(j)'
    BY <1>1, <1>3, <1>4, <2>2, <2>3 DEF Amount, Fades
  <2> QED
    BY <1>1, <2>2, <2>4, <2>5 DEF Amount
<1>8. Settled
  <2>1. \A o \in DOMAIN objs' : Tame(o)
    BY <1>1 DEF Tame
  <2> QED
    BY <1>1, <1>2, <1>3, <1>4, <2>1 DEF Settled
<1>9. Keeps /\ Asked /\ Recalls
  BY <1>1, <1>4 DEF Keeps, Asked, past, Recalls
<1>10. Spared
  <2> SUFFICES ASSUME Stands, NEW l \in Required, Obj.slot[l] # None,
                      orders[Obj.slot[l]].fate \in Sound
               PROVE  orders'[Obj.slot[l]].fate \in Sound
    BY <1>4 DEF Spared
  <2>1. cur \in DOMAIN objs
    BY CurrentTyped DEF Inv, Stands
  <2>2. Obj.slot[l] \in DOMAIN orders
    BY <2>1, LegsAre DEF Inv, Slots, Holds, Obj, Required
  <2> QED
    BY <1>3, <2>2 DEF Sound
<1> QED
  BY <1>5, <1>6, <1>7, <1>8, <1>9, <1>10, Assemble

LEMMA StopKeeps == ASSUME Inv, Stop PROVE Inv'
<1>1. /\ UNCHANGED <<held, entries, orders, past>> /\ cur' = None
      /\ objs' = <<>> /\ cleaners' = {} /\ pc' = "start" /\ job' = NoJob
      /\ entries > 0
  BY DEF Stop, Goto
<1>2. ~Stands' /\ Fades
  BY <1>1, StillFades DEF Stands, Inv
<1>3. TypeOK'
  <2>1. objs' \in Seq(Object) /\ cur' \in 0..Len(objs')
    BY <1>1 DEF None
  <2> QED
    BY <1>1, <2>1, NoJobTyped DEF Inv, TypeOK, Idle, Working
<1>4. Phases' /\ MainOne'
  BY <1>1, <1>2 DEF Phases, MainOne, Busy, Leaving, Inv
<1>5. Amount'
  BY <1>1 DEF Inv, Amount, past
<1>6. Settled
  BY <1>1, <1>2 DEF Settled, Inv, TypeOK, Full
<1>7. Keeps /\ Spared /\ Asked /\ Recalls
  BY <1>1, <1>2 DEF Keeps, Spared, Asked, past, Recalls
<1> QED
  BY <1>2, <1>3, <1>4, <1>5, <1>6, <1>7, Assemble

\* Orders and rows go, none comes back.
LEMMA PurgeFades ==
    ASSUME TypeOK, NEW gone, NEW closed, Purge(gone, closed)
    PROVE  Fades
<1> DEFINE new(o, g, c) ==
             [o EXCEPT !.fate = IF g /\ @ = "live" THEN "swept" ELSE @,
                       !.row = IF c THEN "CANCELED" ELSE @]
<1>1. /\ DOMAIN orders = 1..Len(orders) /\ Len(orders) \in Nat
      /\ \A i \in DOMAIN orders : orders[i] \in Order
  BY OrdersTyped
<1>2. \A o \in Order : \A g, c \in BOOLEAN :
        /\ new(o, g, c) \in Order
        /\ new(o, g, c).leg = o.leg /\ new(o, g, c).entry = o.entry
        /\ new(o, g, c).fate = "live" => o.fate = "live"
        /\ new(o, g, c).row = "OPEN" => o.row = "OPEN"
  <2> TAKE o \in Order
  <2> TAKE g, c \in BOOLEAN
  <2> DEFINE fate == IF g /\ o.fate = "live" THEN "swept" ELSE o.fate
             row == IF c THEN "CANCELED" ELSE o.row
  <2>1. new(o, g, c) = [o EXCEPT !.fate = fate, !.row = row]
    BY DEF Order
  <2>2. /\ fate \in {"live", "executed", "cancelled", "replaced", "swept"}
        /\ row \in {"none", "OPEN", "CANCELED", "EXECUTED"}
        /\ fate = "live" => o.fate = "live"
        /\ row = "OPEN" => o.row = "OPEN"
    BY DEF Order
  <2> HIDE DEF new, fate, row
  <2> QED
    BY <2>1, <2>2 DEF Order
<1>3. orders' = [i \in DOMAIN orders |->
                   new(orders[i], i \in gone, i \in closed)]
  BY DEF Purge
<1> HIDE DEF new
<1>4. \A i \in DOMAIN orders :
        /\ orders'[i] = new(orders[i], i \in gone, i \in closed)
        /\ (i \in gone) \in BOOLEAN /\ (i \in closed) \in BOOLEAN
  BY <1>3
<1>5. \A i \in DOMAIN orders :
        /\ orders'[i] \in Order
        /\ orders'[i].leg = orders[i].leg
        /\ orders'[i].entry = orders[i].entry
        /\ orders'[i].fate = "live" => orders[i].fate = "live"
        /\ orders'[i].row = "OPEN" => orders[i].row = "OPEN"
  <2> TAKE i \in DOMAIN orders
  <2>1. /\ orders[i] \in Order
        /\ orders'[i] = new(orders[i], i \in gone, i \in closed)
        /\ (i \in gone) \in BOOLEAN /\ (i \in closed) \in BOOLEAN
    BY <1>1, <1>4
  <2> DEFINE g == i \in gone
             c == i \in closed
  <2>2. g \in BOOLEAN /\ c \in BOOLEAN /\ orders'[i] = new(orders[i], g, c)
    BY <2>1
  <2> HIDE DEF g, c
  <2> QED
    BY <1>2, <2>1, <2>2
<1>6. orders' \in [1..Len(orders) -> Order]
  BY <1>1, <1>3, <1>5
<1>7. orders' \in Seq(Order) /\ Len(orders') = Len(orders)
  BY <1>1, <1>6
<1> QED
  BY <1>5, <1>7 DEF Fades

LEMMA StartupSweepKeeps == ASSUME Inv, StartupSweep PROVE Inv'
<1>1. /\ UNCHANGED <<held, entries, objs, cur, past>>
      /\ cleaners' = cleaners /\ pc = "start" /\ pc' = "adopt"
      /\ job' = NoJob
  BY DEF StartupSweep, Goto
<1>2. cur = None /\ pc' \in Idle /\ pc # "clean"
  BY <1>1 DEF Inv, Phases, Idle
<1>3. Fades
  BY PurgeFades, StillFades DEF StartupSweep, Inv
<1> QED
  BY <1>1, <1>2, <1>3, NoJobTyped, Idles

\* A record made from the rows of a position that is held.
LEMMA FoundKeeps ==
    ASSUME Inv, pc \in {"adopt", "ensure"}, cur = None, held > 0,
           NEW obj \in Object, obj.entry = None, obj.qty = held,
           ~obj.cancelPending,
           \A l \in Leg :
             \/ obj.slot[l] = None
             \/ /\ obj.slot[l] \in DOMAIN orders
                /\ l = "trail" =>
                     orders[obj.slot[l]].leg \in {"stop", "trail"},
           \A l \in Required : obj.slot[l] = None => RowsOf(l) = {},
           UNCHANGED <<held, entries, orders, past>>, cleaners' = cleaners,
           objs' = Append(objs, obj), cur' = Len(objs) + 1,
           pc' = "ensure" \/ (pc' = "place" /\ job'.todo # {}
                                /\ job'.next = "monitor"),
           job' \in Job,
           pc' = "place" =>
             \A l \in job'.todo \cap Required : RowsOf(l) = {}
    PROVE  Inv'
<1>1. objs = <<>> /\ cleaners = {} /\ entries \in Nat /\ entries > 0
      /\ held \in 1..Full
  BY Limits DEF Inv, Phases, TypeOK, Full
<1>2. /\ objs' = <<obj>> /\ cur' = 1 /\ DOMAIN objs' = {1}
      /\ objs' \in Seq(Object) /\ Len(objs') = 1 /\ objs'[1] = obj
  BY <1>1
<1>3. Obj' = obj /\ Stands'
  BY <1>1, <1>2 DEF Obj, Stands, None
<1>4. TypeOK'
  BY <1>1, <1>2 DEF Inv, TypeOK, Idle, Working, None
<1>5. Phases' /\ MainOne'
  <2>1. \A o \in DOMAIN objs' : Spent(objs'[o])
    BY <1>2 DEF Spent
  <2> QED
    BY <1>1, <1>2, <1>3, <2>1 DEF Phases, MainOne, Leaving, None
<1>6. Slots'
  BY <1>2 DEF Slots, Holds
<1>7. Entered' /\ Dead' /\ Amount' /\ Flag'
  <2>1. obj.qty # 0 /\ obj.entry # entries'
    BY <1>1 DEF None
  <2>2. Entered' /\ Dead' /\ Flag'
    BY <1>1, <1>2, <1>3, <2>1 DEF Inv, Entered, Dead, Flag
  <2>3. Amount'
    BY <1>1, <1>3 DEF Inv, Amount, past
  <2> QED
    BY <2>2, <2>3
<1>8. One'
  <2>1. OneLiveLeg'
    BY DEF Inv, One, OneLiveLeg, Live, past
  <2>2. ASSUME NEW l \in Required,
               obj.slot[l] = None \/ (pc' = "place" /\ l \in job'.todo),
               NEW i \in DOMAIN orders
        PROVE  ~Recorded(i, l, entries)'
    <3>1. RowsOf(l) = {}
      BY <2>2
    <3> QED
      BY <3>1 DEF RowsOf, StopRows, TpRows, OpenRows, Recorded
  <2> QED
    BY <1>3, <2>1, <2>2 DEF One
<1> QED
  BY <1>4, <1>5, <1>6, <1>7, <1>8 DEF Inv

LEMMA RowsAre ==
    ASSUME TypeOK
    PROVE  /\ \A l \in Leg : RowsOf(l) \subseteq DOMAIN orders
           /\ StopRows \subseteq DOMAIN orders
           /\ \A i \in StopRows : orders[i].leg \in {"stop", "trail"}
           /\ \A S \in SUBSET DOMAIN orders :
                /\ First(S) \in 0..MaxOrders
                /\ First(S) = None <=> S = {}
                /\ First(S) # None => First(S) \in S
<1>1. /\ DOMAIN orders \subseteq Nat \ {0}
      /\ DOMAIN orders \subseteq 1..MaxOrders
  BY OrdersTyped, Limits DEF TypeOK
<1>2. ASSUME NEW S \in SUBSET DOMAIN orders
      PROVE  /\ First(S) \in 0..MaxOrders
             /\ First(S) = None <=> S = {}
             /\ First(S) # None => First(S) \in S
  <2>1. IF S = {} THEN First(S) = None
        ELSE First(S) \in S /\ First(S) # None
    BY <1>1, FirstIn
  <2> QED
    BY <1>1, <2>1, Limits DEF None
<1> QED
  BY <1>2 DEF RowsOf, StopRows, TpRows, OpenRows

LEMMA NewTyped ==
    ASSUME NEW q \in 1..Full, NEW e \in 0..MaxEntries
    PROVE  /\ NewObject(q, e) \in Object
           /\ NewObject(q, e).entry = e /\ NewObject(q, e).qty = q
           /\ NewObject(q, e).rounds = 0 /\ NewObject(q, e).pending
           /\ ~NewObject(q, e).cancelPending
           /\ \A l \in Leg : NewObject(q, e).slot[l] = None
<1>1. /\ 0 \in 0..MaxRounds /\ 0 \in 0..MaxOrders
      /\ 0 \in 0..MaxCancels - 1 /\ q \in 0..Full
  BY Limits DEF Full
<1>2. /\ [l \in Leg |-> None] \in [Leg -> 0..MaxOrders]
      /\ [l \in Leg |-> 0] \in [Leg -> 0..MaxCancels - 1]
  BY <1>1 DEF None
<1> QED
  BY <1>1, <1>2 DEF NewObject, Object

LEMMA AdoptKeeps == ASSUME Inv, Adopt PROVE Inv'
<1>1. /\ UNCHANGED <<held, entries, orders, past>> /\ cleaners' = cleaners
      /\ pc = "adopt" /\ held > 0
      /\ objs' = Append(objs, Adopted) /\ cur' = Len(objs) + 1
      /\ pc' = "ensure" /\ job' = NoJob
  BY DEF Adopt, Adoptable, Goto
<1>2. cur = None /\ held \in 1..Full
  BY <1>1 DEF Inv, Phases, TypeOK, Full
<1> DEFINE slot == [stop  |-> First(StopRows), tp1 |-> First(TpRows("tp1")),
                    tp2   |-> First(TpRows("tp2")),
                    trail |-> First(StopRows \ {First(StopRows)})]
<1>3. /\ slot \in [Leg -> 0..MaxOrders]
      /\ slot["stop"] = First(StopRows) /\ slot["tp1"] = First(TpRows("tp1"))
      /\ slot["tp2"] = First(TpRows("tp2"))
      /\ slot["trail"] = First(StopRows \ {First(StopRows)})
  <2>1. /\ First(StopRows) \in 0..MaxOrders
        /\ First(TpRows("tp1")) \in 0..MaxOrders
        /\ First(TpRows("tp2")) \in 0..MaxOrders
        /\ First(StopRows \ {First(StopRows)}) \in 0..MaxOrders
    BY RowsAre DEF Inv, TpRows, OpenRows
  <2> QED
    BY <2>1, LegsAre
<1>4. Adopted = [NewObject(held, None) EXCEPT !.pending = FALSE, !.slot = slot]
  BY DEF Adopted
<1> HIDE DEF slot
<1>5. /\ Adopted \in Object /\ Adopted.entry = None /\ Adopted.qty = held
      /\ ~Adopted.cancelPending /\ Adopted.slot = slot
  <2>1. None \in 0..MaxEntries
    BY Limits DEF None
  <2>2. /\ NewObject(held, None) \in Object
        /\ NewObject(held, None).entry = None
        /\ NewObject(held, None).qty = held
        /\ ~NewObject(held, None).cancelPending
    BY <1>2, <2>1, NewTyped
  <2> QED
    BY <1>3, <1>4, <2>2 DEF Object
<1>6. /\ \A l \in Leg :
           \/ slot[l] = None
           \/ /\ slot[l] \in DOMAIN orders
              /\ l = "trail" => orders[slot[l]].leg \in {"stop", "trail"}
      /\ \A l \in Required : slot[l] = None => RowsOf(l) = {}
  <2>1. /\ RowsOf("stop") = StopRows
        /\ RowsOf("tp1") = TpRows("tp1") /\ RowsOf("tp2") = TpRows("tp2")
    BY DEF RowsOf
  <2>2. /\ StopRows \subseteq DOMAIN orders
        /\ TpRows("tp1") \subseteq DOMAIN orders
        /\ TpRows("tp2") \subseteq DOMAIN orders
        /\ StopRows \ {First(StopRows)} \subseteq StopRows
    BY RowsAre DEF Inv, TpRows, OpenRows
  <2> QED
    BY <1>3, <2>1, <2>2, RowsAre, LegsAre DEF Inv, Required
<1> QED
  BY <1>1, <1>2, <1>5, <1>6, NoJobTyped, FoundKeeps

LEMMA EnsureKeeps == ASSUME Inv, Ensure PROVE Inv'
<1> DEFINE has(l) == \/ cur # None /\ Obj.slot[l] # None
                     \/ RowsOf(l) # {}
           todo == {l \in Required : ~has(l)}
           slots == [l \in Leg |-> IF l = "trail" THEN None
                                   ELSE First(RowsOf(l))]
           obj == [NewObject(held, None) EXCEPT !.slot = slots]
<1>1. /\ UNCHANGED <<held, entries, orders, past>> /\ cleaners' = cleaners
      /\ pc = "ensure"
  BY DEF Ensure
<1>2. CASE /\ pc' = "monitor" /\ job' = NoJob
           /\ UNCHANGED <<objs, cur>>
  BY <1>1, <1>2, NoJobTyped, StillFades, Idles DEF Idle, Inv
<1>3. CASE /\ held # 0 /\ todo # {} /\ cur = None
           /\ objs' = Append(objs, obj) /\ cur' = Len(objs) + 1
           /\ PlaceThen(todo, "monitor")
  <2>1. held \in 1..Full /\ todo \in SUBSET Leg
    BY <1>3, LegsAre DEF Inv, TypeOK, Full, Required
  <2>2. \A l \in todo : RowsOf(l) = {}
    OBVIOUS
  <2> HIDE DEF todo
  <2>3. /\ slots \in [Leg -> 0..MaxOrders]
        /\ \A l \in Leg : slots[l] = IF l = "trail" THEN None
                                     ELSE First(RowsOf(l))
    BY RowsAre, Limits DEF Inv, None
  <2> HIDE DEF slots
  <2>4. /\ obj \in Object /\ obj.entry = None /\ obj.qty = held
        /\ ~obj.cancelPending /\ obj.slot = slots
    <3>1. None \in 0..MaxEntries
      BY Limits DEF None
    <3>2. /\ NewObject(held, None) \in Object
          /\ NewObject(held, None).entry = None
          /\ NewObject(held, None).qty = held
          /\ ~NewObject(held, None).cancelPending
      BY <2>1, <3>1, NewTyped
    <3> QED
      BY <2>3, <3>2 DEF Object
  <2>5. /\ \A l \in Leg :
             \/ obj.slot[l] = None
             \/ /\ obj.slot[l] \in DOMAIN orders
                /\ l = "trail" =>
                     orders[obj.slot[l]].leg \in {"stop", "trail"}
        /\ \A l \in Required : obj.slot[l] = None => RowsOf(l) = {}
    BY <2>3, <2>4, RowsAre, LegsAre DEF Inv, Required
  <2> HIDE DEF obj
  <2>6. /\ job' \in Job /\ job'.todo = todo /\ job'.next = "monitor"
        /\ pc' = "place" /\ todo # {}
        /\ objs' = Append(objs, obj) /\ cur' = Len(objs) + 1
        /\ cur = None /\ held > 0
    <3>1. /\ pc' = "place"
          /\ job' = [NoJob EXCEPT !.todo = todo, !.next = "monitor"]
      BY <1>3 DEF PlaceThen
    <3>2. job' \in Job /\ job'.todo = todo /\ job'.next = "monitor"
      BY <2>1, <3>1, PlaceJob
    <3>3. held > 0
      BY <2>1 DEF Full
    <3> QED
      BY <1>3, <3>1, <3>2, <3>3
  <2>7. \A l \in job'.todo \cap Required : RowsOf(l) = {}
    BY <2>2, <2>6
  <2> QED
    BY <1>1, <2>4, <2>5, <2>6, <2>7, FoundKeeps
<1> QED
  BY <1>2, <1>3 DEF Ensure, Goto

-----------------------------------------------------------------------------
(* Opening a position and placing its orders.                              *)

LEMMA EnterKeeps == ASSUME Inv, Enter PROVE Inv'
<1> DEFINE kept == IF cleaners = {} THEN <<>> ELSE objs
           obj == NewObject(Full, entries')
<1>1. /\ UNCHANGED <<orders, past>> /\ cleaners' = cleaners /\ pc = "signal"
      /\ held = 0 /\ held' = Full /\ entries < MaxEntries
      /\ entries' = entries + 1
      /\ objs' = Append(kept, obj) /\ cur' = Len(objs')
      /\ pc' = "place"
      /\ job' = [NoJob EXCEPT !.todo = Required, !.next = "entry"]
  BY DEF Enter, PlaceThen
<1>2. entries \in Nat /\ entries' \in 1..MaxEntries /\ entries < entries'
      /\ entries' # None
  <2>1. entries \in 0..MaxEntries /\ MaxEntries \in Nat
    BY Limits DEF Inv, TypeOK
  <2>2. entries < MaxEntries /\ entries' = entries + 1
    BY <1>1
  <2> QED
    BY <2>1, <2>2 DEF None
<1>3. /\ kept \in Seq(Object) /\ Len(kept) \in Nat
      /\ DOMAIN kept = 1..Len(kept)
      /\ \A o \in DOMAIN kept : o \in DOMAIN objs /\ kept[o] = objs[o]
      /\ \A c \in cleaners : c.o \in DOMAIN kept
  <2>1. objs \in Seq(Object) /\ \A c \in cleaners : c.o \in DOMAIN objs
    BY DEF Inv, TypeOK
  <2> QED
    BY <2>1
<1>4. /\ obj \in Object /\ obj.entry = entries' /\ obj.qty = Full
      /\ obj.rounds = 0 /\ obj.pending /\ ~obj.cancelPending
      /\ \A l \in Leg : obj.slot[l] = None
  <2>1. Full \in 1..Full /\ entries' \in 0..MaxEntries
    BY <1>2 DEF Full
  <2> QED
    BY <2>1, NewTyped
<1> HIDE DEF kept, obj
<1>5. /\ objs' \in Seq(Object) /\ Len(objs') = Len(kept) + 1
      /\ cur' = Len(kept) + 1 /\ cur' # None
      /\ DOMAIN objs' = DOMAIN kept \cup {cur'}
      /\ objs'[cur'] = obj
      /\ \A o \in DOMAIN kept : objs'[o] = objs[o] /\ o # cur'
  BY <1>1, <1>3, <1>4 DEF None
<1>6. Obj' = obj /\ Stands'
  BY <1>4, <1>5 DEF Obj, Stands, Full
<1>7. job' \in Job /\ job'.todo = Required /\ job'.next = "entry"
  <2>1. Required \in SUBSET Leg
    BY LegsAre DEF Required
  <2> QED
    BY <1>1, <2>1, PlaceJob
<1>8. TypeOK'
  <2>1. /\ \A c \in cleaners' : c.o \in DOMAIN objs' /\ c.id \in DOMAIN orders'
        /\ cleaners' \subseteq Cleaner
    BY <1>1, <1>3, <1>5 DEF Inv, TypeOK
  <2>2. cur' \in 0..Len(objs')
    BY <1>3, <1>5
  <2> QED
    BY <1>1, <1>2, <1>5, <1>7, <2>1, <2>2 DEF Inv, TypeOK, Full, Working
<1>9. Phases'
  <2>1. \A o \in DOMAIN objs' : Spent(objs'[o])
    BY <1>3, <1>4, <1>5 DEF Inv, Phases, Spent
  <2> QED
    BY <1>1, <1>2, <1>4, <1>6, <1>7, <2>1 DEF Phases, Leaving, Required
<1>10. MainOne'
  BY <1>1, NoMain DEF MainOne
<1>11. Slots'
  BY <1>1, <1>3, <1>4, <1>5 DEF Inv, Slots, Holds
<1>12. Entered'
  BY <1>1, <1>2, OrdersTyped DEF Inv, Entered
<1>13. Dead'
  <2>1. \A i \in DOMAIN orders : Former(i)'
    BY <1>1, <1>2, OrdersTyped DEF Inv, Entered, Former, Protecting
  <2>2. \A c \in cleaners' : objs'[c.o].qty = 0 /\ Former(c.id)'
    BY <1>1, <1>3, <1>5, <2>1 DEF Inv, Dead, TypeOK
  <2>3. \A o \in DOMAIN objs', l \in Leg :
          objs'[o].qty = 0 /\ objs'[o].slot[l] # None
          => Former(objs[o].slot[l])'
    BY <1>1, <1>3, <1>4, <1>5, <2>1 DEF Inv, Slots, Holds
  <2> QED
    BY <2>2, <2>3 DEF Dead
<1>14. Amount' /\ Flag'
  <2>1. unswept \cup torn \subseteq 0..entries'
    <3>1. 0..entries \subseteq 0..entries'
      BY <1>1, EntriesIn, Limits DEF Inv, TypeOK
    <3> QED
      BY <3>1 DEF Inv, Amount
  <2>2. Flag'
    BY <1>1, <1>4, <1>6, LegsAre DEF Flag, Required
  <2>3. Amount'
    BY <1>1, <1>4, <1>6, <2>1 DEF Inv, TypeOK, Amount, past, Full
  <2> QED
    BY <2>2, <2>3
<1>15. One'
  <2>1. OneLiveLeg'
    BY <1>1 DEF Inv, One, OneLiveLeg, Live, past
  <2>2. \A l \in Required, i \in DOMAIN orders : ~Recorded(i, l, entries)'
    BY <1>1, <1>2, OrdersTyped DEF Inv, Entered, Recorded
  <2> QED
    BY <1>1, <2>1, <2>2 DEF One
<1> QED
  BY <1>8, <1>9, <1>10, <1>11, <1>12, <1>13, <1>14, <1>15 DEF Inv

\* What follows the placing of one order, for the record it leaves.
PlaceGoes(obj, rest) ==
    IF rest = {} THEN AllPlaced(obj)
    ELSE /\ Update(cur, obj) /\ pc' = pc
         /\ job' = [job EXCEPT !.todo = rest]

LEMMA PlaceGoesOn ==
    ASSUME Inv, pc = "place", NEW obj \in Object, obj.rounds = Obj.rounds,
           NEW rest \in SUBSET job.todo, PlaceGoes(obj, rest)
    PROVE  \E new :
             /\ Like(new, obj) /\ objs' = [objs EXCEPT ![cur] = new]
             /\ job' \in Job
             /\ \/ pc' \in {"monitor", "sync", "time"}
                \/ /\ pc' = "place" /\ job'.todo # {}
                   /\ job'.next \in {"entry", "monitor", "sync", "time"}
                   /\ job'.next = "entry" => new.rounds = 0
                   /\ job'.todo \subseteq rest \cup Missing(obj)
<1>1. /\ job \in Job /\ job.next \in {"entry", "monitor", "sync", "time"}
      /\ job.next = "entry" => obj.rounds = 0
  BY DEF Inv, TypeOK, Phases
<1>2. CASE rest = {}
  <2>1. PICK new :
          /\ Like(new, obj)
          /\ objs' = [objs EXCEPT ![cur] = new]
          /\ \/ pc' \in {"monitor", "sync", "time"} /\ job' = NoJob
             \/ /\ pc' = "place" /\ Missing(obj) # {}
                /\ job' = [NoJob EXCEPT !.todo = Missing(obj),
                                        !.next = "monitor"]
    BY <1>1, <1>2, AllPlacedDoes DEF PlaceGoes
  <2>2. Missing(obj) \in SUBSET Leg
    BY MissingAre, LegsAre DEF Required
  <2> QED
    BY <2>1, <2>2, NoJobTyped, PlaceJob
<1>3. CASE rest # {}
  <2>1. Like(obj, obj)
    BY DEF Like
  <2>2. /\ job' \in Job /\ job'.todo = rest /\ job'.next = job.next
    BY <1>1, <1>3 DEF PlaceGoes, Job
  <2> QED
    BY <1>1, <1>3, <2>1, <2>2 DEF PlaceGoes, Update
<1> QED
  BY <1>2, <1>3

LEMMA PlaceKeeps == ASSUME Inv, Place PROVE Inv'
<1> DEFINE leg == Legs[First({k \in 1..4 : Legs[k] \in job.todo})]
           n == Len(orders) + 1
           order(row) == [leg |-> leg, entry |-> entries, fate |-> "live",
                          row |-> row]
           filled == [Obj EXCEPT !.slot[leg] = n]
<1>1. /\ UNCHANGED <<held, entries, cur, past>> /\ cleaners' = cleaners
      /\ pc = "place"
  BY DEF Place
<1>2. /\ Stands /\ cur # None /\ cur \in DOMAIN objs /\ Obj \in Object
      /\ Obj.qty # 0 /\ Spent(Obj) /\ entries \in 1..MaxEntries
      /\ Obj.entry \in {None, entries}
      /\ job.todo # {} /\ job.todo \subseteq Leg
  <2>1. Stands /\ cur # None /\ Obj.qty # 0 /\ entries > 0 /\ job.todo # {}
        /\ Obj.entry \in {None, entries}
    BY <1>1 DEF Inv, Phases, Busy, Stands
  <2>2. entries \in 0..MaxEntries /\ job \in Job
    BY DEF Inv, TypeOK
  <2> QED
    BY <2>1, <2>2, CurrentTyped, CurrentSpent, Limits DEF Inv, Job
<1>3. leg \in job.todo /\ leg \in Leg
  <2> DEFINE K == {k \in 1..4 : Legs[k] \in job.todo}
  <2>1. K # {}
    BY <1>2, LegsAre
  <2>2. First(K) \in K
    BY <2>1, FirstIn
  <2> QED
    BY <1>2, <2>2
<1>4. PICK obj \in {filled, Obj}, row \in {"OPEN", "none"} :
        /\ \/ /\ n <= MaxOrders /\ orders' = Append(orders, order(row))
              /\ row = "OPEN" => obj = filled
           \/ orders' = orders /\ obj = Obj
        /\ PlaceGoes(obj, job.todo \ {leg})
  <2>1. Len(orders) < MaxOrders => n <= MaxOrders
    BY OrdersTyped, Limits DEF Inv
  <2> QED
    BY <2>1 DEF Place, PlaceGoes
<1> HIDE DEF leg
<1>5. /\ filled \in Object \/ n > MaxOrders
      /\ filled.entry = Obj.entry /\ filled.qty = Obj.qty
      /\ filled.rounds = Obj.rounds /\ filled.pending = Obj.pending
      /\ filled.cancelPending = Obj.cancelPending
      /\ filled.slot = [Obj.slot EXCEPT ![leg] = n]
  <2>1. n \in 0..MaxOrders \/ n > MaxOrders
    BY OrdersTyped, Limits DEF Inv
  <2> HIDE DEF n
  <2> QED
    BY <1>2, <1>3, <2>1 DEF Object
<1>6. /\ obj \in Object
      /\ obj.entry = Obj.entry /\ obj.qty = Obj.qty
      /\ obj.rounds = Obj.rounds /\ obj.pending = Obj.pending
      /\ Spent(obj)
      /\ \/ obj.slot = Obj.slot
         \/ /\ obj.slot = [Obj.slot EXCEPT ![leg] = n]
            /\ orders' = Append(orders, order(row))
  <2>1. n <= MaxOrders => ~(n > MaxOrders)
    BY OrdersTyped, Limits DEF Inv
  <2> HIDE DEF n, filled, order
  <2> QED
    BY <1>2, <1>4, <1>5, <2>1 DEF Spent
<1>7. /\ orders' \in Seq(Order) /\ Len(orders') <= MaxOrders
      /\ DOMAIN orders \subseteq DOMAIN orders'
      /\ \A i \in DOMAIN orders : orders'[i] = orders[i]
      /\ \/ orders' = orders
         \/ /\ DOMAIN orders' = DOMAIN orders \cup {n}
            /\ n \notin DOMAIN orders /\ n # None
            /\ orders'[n] = order(row)
  <2>1. order(row) \in Order
    BY <1>2, <1>3 DEF Order
  <2>2. orders \in Seq(Order) /\ Len(orders) <= MaxOrders
        /\ DOMAIN orders = 1..Len(orders) /\ Len(orders) \in Nat
    BY OrdersTyped DEF Inv, TypeOK
  <2> DEFINE o == order(row)
  <2>3. o \in Order /\ o = order(row)
    BY <2>1
  <2> HIDE DEF order, o
  <2>4. CASE n <= MaxOrders /\ orders' = Append(orders, o)
    <3>1. /\ orders' \in Seq(Order) /\ Len(orders') = n
          /\ DOMAIN orders' = 1..n /\ orders'[n] = o
          /\ \A i \in DOMAIN orders : orders'[i] = orders[i]
      BY <2>2, <2>3, <2>4
    <3>2. /\ 1..n = (1..Len(orders)) \cup {n} /\ n # 0
          /\ n \notin 1..Len(orders)
      BY <2>2
    <3> QED
      BY <2>2, <2>3, <2>4, <3>1, <3>2 DEF None
  <2>5. CASE orders' = orders
    BY <2>2, <2>5
  <2> QED
    BY <1>4, <2>3, <2>4, <2>5
<1>8. PICK new :
        /\ Like(new, obj) /\ objs' = [objs EXCEPT ![cur] = new]
        /\ job' \in Job
        /\ \/ pc' \in {"monitor", "sync", "time"}
           \/ /\ pc' = "place" /\ job'.todo # {}
              /\ job'.next \in {"entry", "monitor", "sync", "time"}
              /\ job'.next = "entry" => new.rounds = 0
              /\ job'.todo \subseteq (job.todo \ {leg}) \cup Missing(obj)
  BY <1>1, <1>4, <1>6, PlaceGoesOn
<1>9. /\ new \in Object /\ new.entry = Obj.entry /\ new.slot = obj.slot
      /\ new.qty = Obj.qty /\ Spent(new)
      /\ Obj.pending => new.pending \/ Complete(obj)
  BY <1>6, <1>8 DEF Like
<1>10. /\ objs' \in Seq(Object) /\ DOMAIN objs' = DOMAIN objs
       /\ Len(objs') = Len(objs) /\ objs'[cur] = new
       /\ \A o \in DOMAIN objs : o # cur => objs'[o] = objs[o]
  BY <1>2, <1>8, <1>9, RecordAt DEF Inv
<1>11. Obj' = new /\ Stands'
  BY <1>1, <1>2, <1>9, <1>10 DEF Obj, Stands
<1> HIDE DEF n, filled
<1>12. TypeOK'
  BY <1>1, <1>2, <1>7, <1>8, <1>10 DEF Inv, TypeOK, Working, Idle
<1>13. Phases'
  <2>1. \A o \in DOMAIN objs' : Spent(objs'[o])
    BY <1>9, <1>10 DEF Inv, Phases
  <2> QED
    BY <1>1, <1>2, <1>8, <1>9, <1>11, <2>1 DEF Inv, Phases, Leaving
<1>14. MainOne'
  BY <1>1, NoMain DEF MainOne
<1>15. ASSUME NEW l \in Leg, new.slot[l] # None
       PROVE  /\ Holds(new, l, new.slot[l])'
              /\ \/ new.slot[l] = Obj.slot[l]
                 \/ l = leg /\ orders'[new.slot[l]].fate = "live"
  <2>1. CASE new.slot[l] = Obj.slot[l]
    <3>1. Holds(Obj, l, new.slot[l])
      BY <1>2, <1>15, <2>1 DEF Inv, Slots, Obj
    <3> QED
      BY <1>7, <1>9, <2>1, <3>1 DEF Holds
  <2>2. CASE new.slot[l] # Obj.slot[l]
    <3>1. /\ obj.slot = [Obj.slot EXCEPT ![leg] = n]
          /\ orders' = Append(orders, order(row))
          /\ Obj.slot \in [Leg -> 0..MaxOrders]
      BY <1>2, <1>6, <1>9, <2>2 DEF Object
    <3>2. l = leg /\ new.slot[l] = n
      BY <1>9, <2>2, <3>1
    <3>3. n \in DOMAIN orders' /\ orders'[n] = order(row)
      <4>1. orders \in Seq(Order)
        BY DEF Inv, TypeOK
      <4> QED
        BY <3>1, <4>1 DEF n
    <3>4. Holds(new, l, new.slot[l])'
      BY <1>2, <1>9, <3>2, <3>3 DEF Holds
    <3> QED
      BY <3>2, <3>3, <3>4
  <2> QED
    BY <2>1, <2>2
<1>16. Slots'
  <2> SUFFICES ASSUME NEW o \in DOMAIN objs', NEW l \in Leg,
                      objs'[o].slot[l] # None
               PROVE  Holds(objs[o], l, objs[o].slot[l])'
    BY DEF Slots
  <2>1. CASE o = cur
    BY <1>10, <1>15, <2>1 DEF Holds
  <2>2. CASE o # cur
    BY <1>7, <1>10, <2>2 DEF Inv, Slots, Holds
  <2> QED
    BY <2>1, <2>2
<1>17. Entered'
  BY <1>1, <1>2, <1>7 DEF Inv, Entered
<1>18. Dead'
  <2>1. \A i \in DOMAIN orders : Former(i) => Former(i)'
    BY <1>1, <1>2, <1>7, <1>11 DEF Former, Protecting, Live, Doubtful, past
  <2>2. \A c \in cleaners' : objs'[c.o].qty = 0 /\ Former(c.id)'
    BY <1>1, <1>2, <1>10, <2>1 DEF Inv, Dead, TypeOK, Obj
  <2>3. ASSUME NEW o \in DOMAIN objs', NEW l \in Leg,
               objs'[o].qty = 0, objs'[o].slot[l] # None
        PROVE  Former(objs[o].slot[l])'
    <3>1. o # cur /\ objs'[o] = objs[o]
      BY <1>2, <1>9, <1>10, <2>3
    <3>2. Former(objs[o].slot[l]) /\ objs[o].slot[l] \in DOMAIN orders
      BY <1>10, <2>3, <3>1 DEF Inv, Dead, Slots, Holds
    <3> QED
      BY <2>1, <3>1, <3>2
  <2> QED
    BY <2>2, <2>3 DEF Dead
<1>19. Amount'
  BY <1>1, <1>8, <1>9, <1>11 DEF Inv, Amount, past
<1>20. Flag'
  <2> SUFFICES ASSUME Obj'.entry = entries', NEW l \in Required
               PROVE  /\ new.pending \/ new.slot[l] # None
                      /\ new.slot[l] # None =>
                           orders'[new.slot[l]].fate \in Sound
    BY <1>11 DEF Flag
  <2>1. l \in Leg /\ Obj.entry = entries
    BY <1>1, <1>9, <1>11, LegsAre DEF Required
  <2>2. /\ Obj.pending \/ Obj.slot[l] # None
        /\ Obj.slot[l] # None => /\ orders[Obj.slot[l]].fate \in Sound
                                 /\ Obj.slot[l] \in DOMAIN orders
    BY <1>2, <2>1 DEF Inv, Flag, Slots, Holds, Obj
  <2>3. new.pending \/ new.slot[l] # None
    <3>1. Obj.slot[l] # None => obj.slot[l] # None
      BY <1>2, <1>6, <1>7, <2>1 DEF Object, n
    <3> QED
      BY <1>9, <2>2, <3>1 DEF Complete
  <2> QED
    BY <1>7, <1>15, <2>1, <2>2, <2>3 DEF Sound
<1>21. One'
  <2>1. \A l, i : i \in DOMAIN orders /\ Recorded(i, l, entries)'
          => Recorded(i, l, entries)
    BY <1>1, <1>7 DEF Recorded, Live
  <2>2. \A l \in Required, i \in DOMAIN orders :
          l \in job.todo \/ Obj.slot[l] = None =>
            entries \in unswept \/ ~Recorded(i, l, entries)
    BY <1>1, <1>2 DEF Inv, One
  <2>3. ASSUME entries \notin unswept, NEW l \in Required,
               new.slot[l] = None \/ (pc' = "place" /\ l \in job'.todo),
               NEW i \in DOMAIN orders'
        PROVE  ~Recorded(i, l, entries)'
    <3>1. /\ l \in Leg
          /\ (l \in job.todo /\ l # leg) \/ obj.slot[l] = None
      BY <1>8, <1>9, <2>3, MissingAre, <1>6, LegsAre DEF Required
    <3>2. l \in job.todo \/ Obj.slot[l] = None
      BY <1>2, <1>3, <1>6, <3>1 DEF Object
    <3>3. CASE i \in DOMAIN orders
      BY <2>1, <2>2, <2>3, <3>2, <3>3
    <3>4. CASE i \notin DOMAIN orders
      <4>1. /\ i = n /\ orders'[i] = order(row) /\ n # None
            /\ orders' # orders
        BY <1>7, <2>3, <3>4
      <4>2. CASE l # leg
        BY <4>1, <4>2 DEF Recorded
      <4>3. CASE l = leg
        <5>1. obj.slot[leg] = None
          BY <3>1, <4>3
        <5>2. row # "OPEN"
          <6>1. row = "OPEN" => obj = filled
            BY <1>4, <4>1
          <6>2. filled.slot[leg] = n
            BY <1>2, <1>3, <1>5 DEF Object
          <6> QED
            BY <4>1, <5>1, <6>1, <6>2
        <5> QED
          BY <4>1, <5>2 DEF Recorded
      <4> QED
        BY <4>2, <4>3
    <3> QED
      BY <3>3, <3>4
  <2>4. OneLiveLeg'
    <3> SUFFICES ASSUME NEW i \in DOMAIN orders', NEW j \in DOMAIN orders',
                        Live(i)', Live(j)', orders'[i].row = "OPEN",
                        orders'[j].row = "OPEN",
                        orders'[i].leg = orders'[j].leg,
                        orders'[i].leg # "trail",
                        orders'[i].entry = orders'[j].entry,
                        orders'[i].entry \notin unswept
                 PROVE  i = j
      BY <1>1 DEF OneLiveLeg, past
    <3>1. CASE i \in DOMAIN orders /\ j \in DOMAIN orders
      BY <1>7, <3>1 DEF Inv, One, OneLiveLeg, Live
    <3>2. \A a \in DOMAIN orders', b \in DOMAIN orders :
             /\ a \notin DOMAIN orders
             /\ Live(b)' /\ orders'[b].row = "OPEN"
             /\ orders'[a].leg = orders'[b].leg /\ orders'[a].leg # "trail"
             /\ orders'[a].entry = orders'[b].entry
             => orders'[a].entry \in unswept
      <4> SUFFICES ASSUME NEW a \in DOMAIN orders', NEW b \in DOMAIN orders,
                          a \notin DOMAIN orders,
                          Live(b)', orders'[b].row = "OPEN",
                          orders'[a].leg = orders'[b].leg,
                          orders'[a].leg # "trail",
                          orders'[a].entry = orders'[b].entry
                   PROVE  orders'[a].entry \in unswept
        OBVIOUS
      <4>1. orders'[a] = order(row) /\ orders'[b] = orders[b]
        BY <1>7
      <4>2. leg # "trail" /\ leg \in Required /\ Recorded(b, leg, entries)
        BY <1>3, <4>1, LegsAre DEF Recorded, Live, Required
      <4> QED
        BY <1>3, <2>2, <4>1, <4>2
    <3>3. CASE i \notin DOMAIN orders /\ j \in DOMAIN orders
      BY <3>2, <3>3
    <3>4. CASE i \in DOMAIN orders /\ j \notin DOMAIN orders
      BY <3>2, <3>4
    <3>5. CASE i \notin DOMAIN orders /\ j \notin DOMAIN orders
      BY <1>7, <3>5
    <3> QED
      BY <3>1, <3>3, <3>4, <3>5
  <2> QED
    BY <1>1, <1>11, <2>3, <2>4 DEF One, past
<1> QED
  BY <1>12, <1>13, <1>14, <1>16, <1>17, <1>18, <1>19, <1>20, <1>21 DEF Inv

-----------------------------------------------------------------------------
(* The invariant holds, and what follows from it.                          *)

LEMMA InitInv == Init => Inv
<1> SUFFICES ASSUME Init PROVE Inv
  OBVIOUS
<1>1. TypeOK
  BY NoJobTyped, Limits DEF Init, TypeOK, Idle, Working, None, Full
<1>2. Phases /\ MainOne /\ Slots /\ Entered /\ Dead
  BY DEF Init, Phases, Busy, Leaving, MainOne, Slots, Entered, Dead
<1>3. Amount /\ Flag /\ One
  BY DEF Init, Amount, Flag, One, OneLiveLeg, Stands
<1> QED
  BY <1>1, <1>2, <1>3 DEF Inv

LEMMA NoSteps == Inv /\ UNCHANGED vars => Inv'
<1> SUFFICES ASSUME Inv, UNCHANGED vars PROVE Inv'
  OBVIOUS
<1>1. /\ UNCHANGED <<held, entries, orders, objs, cur, pc, job, cleaners>>
      /\ UNCHANGED past
  BY DEF vars, past
<1>2. TypeOK' /\ Phases' /\ MainOne'
  <2>1. TypeOK'
    BY <1>1 DEF Inv, TypeOK
  <2>2. Obj' = Obj /\ (Stands' <=> Stands)
    BY <1>1 DEF Obj, Stands
  <2>3. Phases' /\ MainOne'
    BY <1>1, <2>2 DEF Inv, Phases, MainOne
  <2> QED
    BY <2>1, <2>3
<1>3. Amount'
  BY <1>1 DEF Inv, Amount, Obj, past, Live
<1>4. Settled
  <2>1. Fades
    BY <1>1, StillFades DEF Inv
  <2>2. \A o \in DOMAIN objs' : Tame(o)
    BY <1>1 DEF Tame
  <2> QED
    BY <1>1, <2>1, <2>2 DEF Settled, Inv, TypeOK, Full, Stands, Obj
<1>5. Keeps /\ Spared /\ Asked /\ Recalls
  BY <1>1 DEF Keeps, Spared, Asked, past, Recalls, Obj
<1> QED
  BY <1>2, <1>3, <1>4, <1>5, Assemble

LEMMA StepsKeep == Inv /\ [Strategy]_vars => Inv'
<1> SUFFICES ASSUME Inv, Strategy PROVE Inv'
  BY NoSteps
<1>1. CASE Cycle
  <2>1. CASE NoPosition \/ TimeNone
    BY <2>1, LeaveAtKeeps DEF NoPosition, TimeNone
  <2>2. CASE Liquidation
    <3>1. PICK q \in {1, Obj.qty} : Closing("monitor", "LIQ", q)
      BY <2>2 DEF Liquidation
    <3>2. q \in 0..Full
      BY <3>1, CurrentTyped DEF Closing, Open, Full, Inv
    <3> QED
      BY <3>1, <3>2, ClosingKeeps
  <2>3. CASE TakeTp1 \/ TakeTp2 \/ TimeStop
    <3>1. 1 \in 0..Full
      BY DEF Full
    <3> QED
      BY <2>3, <3>1, ClosingKeeps DEF TakeTp1, TakeTp2, TimeStop
  <2>4. CASE TakeSync
    BY <2>4, TakeSyncKeeps
  <2>5. CASE TakeNone \/ TrailNone
    BY <2>5, StepKeeps
  <2>6. CASE TrailTriggered \/ TrailImproved
    BY <2>6, TrailKeeps
  <2>7. CASE CleanUp \/ \E c \in cleaners : Clean(c)
    BY <2>7, CleanUpKeeps, CleanKeeps
  <2>8. CASE RetryProtection \/ SyncPositions \/ NoSignal
    BY <2>8, RetryProtectionKeeps, SyncPositionsKeeps, NoSignalKeeps
  <2>9. CASE Enter \/ Place
    BY <2>9, EnterKeeps, PlaceKeeps
  <2> QED
    BY <1>1, <2>1, <2>2, <2>3, <2>4, <2>5, <2>6, <2>7, <2>8, <2>9 DEF Cycle
<1>2. CASE Close
  BY <1>2, CloseSyncKeeps, CloseSweepKeeps, CloseRejectedKeeps, CloseOrderKeeps
     DEF Close
<1>3. CASE Startup
  BY <1>3, StartupSweepKeeps, AdoptKeeps, StepKeeps, EnsureKeeps DEF Startup
<1>4. CASE Exchange
  BY <1>4, TriggerKeeps DEF Exchange
<1>5. CASE Stop
  BY <1>5, StopKeeps
<1> QED
  BY <1>1, <1>2, <1>3, <1>4, <1>5 DEF Strategy, Process

\* Everything the promises rest on.
THEOREM InvCorrect == Spec => []Inv
BY InitInv, StepsKeep, PTL DEF Spec

\* Orders, records, clean-ups and counters keep their shape and limits, and
\* the process works on a record only where it has one (all of the module).
THEOREM TypeCorrect == Spec => []TypeOK
<1>1. Inv => TypeOK
  BY DEF Inv
<1> QED
  BY <1>1, InvCorrect, PTL

\* protection_pending of a position the process has opened is down only
\* when every required leg has been placed and nothing but the market or a
\* close took it (protection_retry.py: protection_complete).
THEOREM Protected == Spec => []FlagHonest
<1>1. Inv => FlagHonest
  BY DEF Inv, Flag, FlagHonest, Stands, Open, Sound
<1> QED
  BY <1>1, InvCorrect, PTL

\* Retries, rebuilds and restarts never leave two recorded orders of one
\* required leg of one position on the book, unless a sweep of it failed
\* (protection_retry.py: replenish_missing_protection).
THEOREM OneOnBook == Spec => []OneLiveLeg
<1>1. Inv => OneLiveLeg
  BY DEF Inv, One
<1> QED
  BY <1>1, InvCorrect, PTL

-----------------------------------------------------------------------------
(* The process does what OrderBook allows.                                 *)

LEMMA SameBook ==
    /\ Full = Book!Full /\ OpenRows = Book!OpenRows
    /\ \A i : Live(i) <=> Book!Live(i)
    /\ \A leg : Quantity(leg) = Book!Quantity(leg)
BY DEF Full, Book!Full, OpenRows, Book!OpenRows, Live, Book!Live,
       Quantity, Book!Quantity

\* One order leaves the book, or its row is corrected.
LEMMA GoneIsWith ==
    ASSUME TypeOK, NEW i \in DOMAIN orders, NEW fate, orders' = Gone({i}, fate)
    PROVE  Book!With(i, fate, orders[i].row)
<1> DEFINE a == [orders[i] EXCEPT !.fate = fate]
<1>1. /\ orders[i] \in Order
      /\ DOMAIN orders = 1..Len(orders)
  BY OrdersTyped
<1>2. a = [orders[i] EXCEPT !.fate = fate, !.row = orders[i].row]
  BY <1>1 DEF Order
<1>3. orders' = [orders EXCEPT ![i] = a]
  BY <1>1 DEF Gone, TypeOK
<1>4. [orders EXCEPT ![i].fate = fate, ![i].row = orders[i].row]
        = [orders EXCEPT ![i] = a]
  BY <1>1, <1>2
<1> QED
  BY <1>3, <1>4 DEF Book!With

LEMMA SweepIsSwept ==
    ASSUME TypeOK, Sweep
    PROVE  orders' = [i \in DOMAIN orders |-> Book!Swept(orders[i])]
<1>1. \A i \in DOMAIN orders : orders[i] \in Order
  BY OrdersTyped
<1>2. \A o \in Order :
        Book!Swept(o) = IF o.fate = "live" THEN [o EXCEPT !.fate = "swept"]
                        ELSE o
  BY DEF Book!Swept, Order
<1> QED
  BY <1>1, <1>2 DEF Sweep, Gone, Live

\* A step of the process that the book does not show.
Unseen ==
    /\ UNCHANGED <<held, entries, orders, past>>
    /\ pc = "start" <=> pc' = "start"

LEMMA SameDoubt == UNCHANGED <<entries, past>> => UNCHANGED Doubtful
BY DEF Doubtful, past

LEMMA UnseenStutters == Unseen => UNCHANGED Book!book
BY SameDoubt DEF Unseen, Book!book

LEMMA Running == ASSUME Inv PROVE pc = "start" => cur = None /\ cleaners = {}
BY DEF Inv, Phases

LEMMA CancelReplaces ==
    ASSUME Inv, cur # None, CancelTrail, UNCHANGED <<held, entries, past>>,
           pc # "start", pc' # "start"
    PROVE  Book!Strategy \/ Unseen
<1> DEFINE i == Obj.slot["trail"]
<1>1. CASE UNCHANGED orders
  BY <1>1 DEF Unseen
<1>2. CASE i # None /\ Live(i) /\ orders' = Gone({i}, "replaced")
  <2>1. i \in DOMAIN orders /\ orders[i].leg \in {"stop", "trail"}
    BY <1>2, CurrentTyped, LegsAre DEF Inv, Slots, Holds, Obj
  <2>2. Book!With(i, "replaced", orders[i].row)
    BY <1>2, <2>1, GoneIsWith DEF Inv
  <2>3. Book!Replace(i)
    BY <1>2, <2>1, <2>2, SameBook, SameDoubt DEF Book!Replace
  <2> QED
    BY <2>1, <2>3 DEF Book!Strategy
<1> QED
  BY <1>1, <1>2 DEF CancelTrail

LEMMA CleanWithdraws ==
    ASSUME Inv, NEW c \in cleaners, Clean(c)
    PROVE  Book!Strategy \/ Unseen
<1>1. /\ c.id \in DOMAIN orders /\ Former(c.id) /\ orders[c.id] \in Order
      /\ UNCHANGED <<held, entries, past, Doubtful>>
  BY OrdersTyped, SameDoubt DEF Inv, TypeOK, Dead, Clean
<1>2. pc # "start" /\ pc' # "start"
  <2>1. pc # "start"
    BY Running
  <2>2. job.next \in Leaving \/ c.who # "main"
    BY DEF Inv, MainOne, Phases
  <2>3. CASE pc' = pc
    BY <2>1, <2>3
  <2>4. CASE \E obj, left : CleanEnds(job.next, obj, left) /\ c.who = "main"
    <3>1. \A obj, k : From(k, obj) => pc' # "start"
      <4> SUFFICES ASSUME NEW obj, NEW k, From(k, obj) PROVE pc' # "start"
        OBVIOUS
      <4>1. \/ pc' = "sync"
            \/ pc' = Tailing[First({j \in Wanted(obj) : j >= k})]
               /\ {j \in Wanted(obj) : j >= k} # {}
        BY DEF From, To, Goto
      <4>2. Wanted(obj) \subseteq 1..4
        BY DEF Wanted
      <4>3. \A S \in SUBSET (1..4) : S # {} => First(S) \in 1..4
        <5> SUFFICES ASSUME NEW S \in SUBSET (1..4), S # {}
                     PROVE  First(S) \in 1..4
          OBVIOUS
        <5>1. S \in SUBSET (Nat \ {0})
          OBVIOUS
        <5> QED
          BY <5>1, FirstIn
      <4> QED
        BY <4>1, <4>2, <4>3 DEF Tailing
    <3>2. PICK obj, left : CleanEnds(job.next, obj, left)
      BY <2>4
    <3>3. \/ \E new, k : From(k, new)
          \/ Goto("sync")
      <4>1. job.next = "retry" \/ job.next = "residual" \/ job.next = "rest"
        BY <2>2, <2>4 DEF Leaving
      <4>2. CASE job.next = "retry"
        BY <3>2, <4>2 DEF CleanEnds
      <4>3. CASE job.next = "residual"
        BY <3>2, <4>3 DEF CleanEnds
      <4>4. CASE job.next = "rest"
        BY <3>2, <4>4 DEF CleanEnds
      <4> QED
        BY <4>1, <4>2, <4>3, <4>4
    <3>4. CASE \E new, k : From(k, new)
      <4>1. PICK new, k : From(k, new)
        BY <3>4
      <4> QED
        BY <2>1, <3>1, <4>1
    <3>5. CASE Goto("sync")
      BY <2>1, <3>5 DEF Goto
    <3> QED
      BY <3>3, <3>4, <3>5
  <2> QED
    BY <2>1, <2>3, <2>4 DEF Clean
<1>3. CASE UNCHANGED orders
  BY <1>1, <1>2, <1>3 DEF Unseen
<1>4. CASE Live(c.id) /\ orders' = Gone({c.id}, "cancelled")
  <2>1. Book!With(c.id, "cancelled", orders[c.id].row)
    BY <1>1, <1>4, GoneIsWith DEF Inv
  <2>2. Book!Protects(c.id) => Doubtful
    BY <1>1, <1>4 DEF Former, Protecting, Book!Protects
  <2>3. Book!Withdraw(c.id)
    BY <1>1, <1>2, <1>4, <2>1, <2>2, SameBook DEF Book!Withdraw
  <2> QED
    BY <1>1, <2>3 DEF Book!Strategy
<1>5. CASE orders[c.id].fate = "executed" /\
           \E row \in {orders[c.id].row, "EXECUTED"} :
             orders' = [orders EXCEPT ![c.id].row = row]
  <2>1. PICK row \in {orders[c.id].row, "EXECUTED"} :
          orders' = [orders EXCEPT ![c.id].row = row]
    BY <1>5
  <2>2. CASE row = orders[c.id].row
    <3>1. [orders[c.id] EXCEPT !.row = row] = orders[c.id]
      BY <1>1, <2>2 DEF Order
    <3>2. UNCHANGED orders
      BY <1>1, <2>1, <3>1 DEF Inv, TypeOK
    <3> QED
      BY <1>3, <3>2
  <2>3. CASE row = "EXECUTED"
    <3>1. [orders[c.id] EXCEPT !.fate = "executed", !.row = "EXECUTED"]
            = [orders[c.id] EXCEPT !.row = "EXECUTED"]
      BY <1>1, <1>5 DEF Order
    <3>2. Book!With(c.id, "executed", "EXECUTED")
      BY <1>1, <2>1, <2>3, <3>1 DEF Book!With
    <3>3. Book!Reconcile(c.id)
      BY <1>1, <1>2, <1>5, <3>2 DEF Book!Reconcile
    <3> QED
      BY <1>1, <3>3 DEF Book!Strategy
  <2> QED
    BY <2>1, <2>2, <2>3
<1> QED
  BY <1>3, <1>4, <1>5 DEF Clean

LEMMA PlaceIsSeen == ASSUME Inv, Place PROVE Book!Strategy \/ Unseen
<1> DEFINE K == {k \in 1..4 : Legs[k] \in job.todo}
           leg == Legs[First(K)]
<1>1. /\ UNCHANGED <<held, entries, past>> /\ pc = "place" /\ entries > 0
      /\ job.todo # {} /\ job.todo \subseteq Leg /\ cur # None
      /\ Obj \in Object /\ Obj.rounds \in Nat
      /\ job.next \in {"entry", "monitor", "sync", "time"}
  BY CurrentTyped DEF Place, Inv, Phases, Busy, Stands, TypeOK, Job
<1>2. leg \in job.todo
  <2>1. K # {}
    BY <1>1, LegsAre
  <2>2. First(K) \in K
    BY <2>1, FirstIn
  <2> QED
    BY <2>2
<1>3. PICK obj \in {[Obj EXCEPT !.slot[leg] = Len(orders) + 1], Obj},
           row \in {"OPEN", "none"} :
        /\ \/ /\ Len(orders) < MaxOrders
              /\ orders' = Append(orders, [leg |-> leg, entry |-> entries,
                                           fate |-> "live", row |-> row])
           \/ UNCHANGED orders
        /\ PlaceGoes(obj, job.todo \ {leg})
  BY DEF Place, PlaceGoes
<1> HIDE DEF leg
<1>4. pc' # "start"
  BY <1>1, <1>3 DEF PlaceGoes, AllPlaced, StartRound, To, Goto, PlaceThen
<1>5. CASE UNCHANGED orders
  BY <1>1, <1>4, <1>5 DEF Unseen
<1>6. CASE /\ Len(orders) < MaxOrders
           /\ orders' = Append(orders, [leg |-> leg, entry |-> entries,
                                        fate |-> "live", row |-> row])
  <2>1. Book!Place(leg, row)
    BY <1>1, <1>4, <1>6, SameDoubt DEF Book!Place
  <2> QED
    BY <1>1, <1>2, <2>1 DEF Book!Strategy
<1> QED
  BY <1>3, <1>5, <1>6

LEMMA StartIsSeen == ASSUME Inv, StartupSweep PROVE Book!Start
<1>1. /\ UNCHANGED <<held, entries, past>> /\ pc = "start" /\ pc' = "adopt"
  BY DEF StartupSweep, Goto
<1>2. \/ UNCHANGED orders
      \/ /\ held = 0
         /\ \E gone \in SUBSET DOMAIN orders, closed \in SUBSET OpenRows :
              Purge(gone, closed)
  <2>1. held \in 0..Full /\ OpenRows \subseteq DOMAIN orders
    BY DEF Inv, TypeOK, OpenRows
  <2>2. \/ UNCHANGED orders
        \/ held = 0 /\ Purge(DOMAIN orders, OpenRows)
        \/ held = 0 /\ \E gone \in (SUBSET OpenRows) \cup {DOMAIN orders},
                        closed \in SUBSET OpenRows : Purge(gone, closed)
    BY <2>1 DEF StartupSweep, Full
  <2>3. /\ DOMAIN orders \in SUBSET DOMAIN orders
        /\ OpenRows \in SUBSET OpenRows
        /\ (SUBSET OpenRows) \cup {DOMAIN orders} \subseteq SUBSET DOMAIN orders
    BY <2>1
  <2> QED
    BY <2>2, <2>3
<1>3. UNCHANGED Doubtful
  BY <1>1, SameDoubt
<1> QED
  BY <1>1, <1>2, <1>3, SameBook
     DEF Book!Start, Book!Purge, Purge

LEMMA CloseIsSeen == ASSUME Inv, Close PROVE Book!Strategy \/ Unseen
<1>1. ASSUME NEW ok \in BOOLEAN, NEW obj \in Object, Spent(obj),
             Return(ok, obj)
      PROVE  pc' # "start"
  BY <1>1, ReturnDoes DEF Leaving
<1>2. /\ pc \in {"close_sync", "close_sweep", "close_order"}
      /\ UNCHANGED entries
  BY DEF Close, CloseSync, CloseSweep, CloseOrder, CloseRejected
<1>3. /\ Obj \in Object /\ Obj.qty \in 1..Full /\ held \in 0..Full
      /\ Spent(Obj)
  BY <1>2, ClosesStand
<1>4. Synced(Obj) \in Object /\ Spent(Synced(Obj))
  BY <1>3, SyncedTyped DEF Inv
<1>5. CASE CloseSync
  <2>1. pc' # "start"
    BY <1>1, <1>4, <1>5 DEF CloseSync
  <2> QED
    BY <1>2, <1>5, <2>1 DEF CloseSync, Unseen
<1>6. CASE CloseSweep
  <2>1. CASE Sweep /\ UNCHANGED past
    <3>1. /\ UNCHANGED <<held, entries, Doubtful>>
          /\ pc # "start" /\ pc' # "start"
      BY <1>6, <2>1, SameDoubt DEF CloseSweep
    <3>2. Book!Sweep
      BY <2>1, <3>1, SweepIsSwept DEF Book!Sweep, Inv
    <3> QED
      BY <3>2 DEF Book!Strategy
  <2>2. CASE UNCHANGED <<orders, torn>> /\ unswept' = unswept \cup {entries}
    <3>1. UNCHANGED <<held, entries>> /\ pc # "start" /\ pc' # "start"
      BY <1>6 DEF CloseSweep
    <3>2. Doubtful' \in {Doubtful, TRUE}
      BY <2>2, <3>1 DEF Doubtful
    <3>3. 0 \in 0..held /\ held' = held - 0 /\ 0 \in 0..Book!Full
      BY <1>3, <3>1 DEF Full, Book!Full
    <3>4. Book!Reduce(0)
      BY <2>2, <3>1, <3>2, <3>3 DEF Book!Reduce
    <3> QED
      BY <3>3, <3>4 DEF Book!Strategy
  <2> QED
    BY <1>6, <2>1, <2>2 DEF CloseSweep
<1>7. CASE CloseRejected
  <2>1. pc' # "start"
    BY <1>1, <1>4, <1>7 DEF CloseRejected
  <2>2. UNCHANGED <<held, entries, Doubtful>> /\ pc # "start" /\ Sweep
    BY <1>7, SameDoubt DEF CloseRejected
  <2>3. Book!Sweep
    BY <2>1, <2>2, SweepIsSwept DEF Book!Sweep, Inv
  <2> QED
    BY <2>3 DEF Book!Strategy
<1>8. ASSUME NEW sold \in 0..Full, NEW filled \in BOOLEAN,
             CloseOrder(sold, filled)
      PROVE  Book!Strategy \/ Unseen
  <2> DEFINE q == Lesser(job.q, Obj.qty)
             obj == [Obj EXCEPT !.qty = @ - q, !.cancelPending = (Obj.qty = q)]
  <2>1. /\ UNCHANGED <<entries, orders>> /\ pc = "close_order"
        /\ sold <= held /\ held' = held - sold
        /\ Return(TRUE, obj) \/ Return(FALSE, Obj)
    BY <1>8 DEF CloseOrder
  <2>2. obj \in Object /\ Spent(obj)
    <3>1. job.q \in 0..Full
      BY DEF Inv, TypeOK, Job
    <3> DEFINE n == Obj.qty - q
               b == (Obj.qty = q)
    <3>2. n \in 0..Full /\ b \in BOOLEAN /\ (b => n = 0)
      BY <1>3, <3>1 DEF Lesser, Full
    <3>3. obj = [Obj EXCEPT !.qty = n, !.cancelPending = b]
      OBVIOUS
    <3> HIDE DEF n, b, obj
    <3> QED
      BY <1>3, <3>2, <3>3 DEF Object, Spent
  <2> HIDE DEF obj
  <2>3. pc' # "start"
    BY <1>1, <1>3, <2>1, <2>2
  <2>4. Doubtful' \in {Doubtful, TRUE}
    BY <1>8, <2>1 DEF CloseOrder, Doubtful
  <2>5. sold \in 0..held /\ sold \in 0..Book!Full
    BY <1>3, <2>1 DEF Full, Book!Full
  <2>6. Book!Reduce(sold)
    BY <2>1, <2>3, <2>4, <2>5 DEF Book!Reduce
  <2> QED
    BY <2>5, <2>6 DEF Book!Strategy
<1> QED
  BY <1>5, <1>6, <1>7, <1>8 DEF Close

LEMMA CycleIsSeen == ASSUME Inv, Cycle PROVE Book!Strategy \/ Unseen
<1>1. \A k \in 1..4, obj \in Object :
        Spent(obj) /\ From(k, obj) => pc' # "start"
  BY FromDoes DEF Leaving
<1>2. cur # None => Obj \in Object /\ Spent(Obj)
  BY CurrentTyped, CurrentSpent DEF Inv
<1>3. CASE NoPosition \/ TimeNone
  <2>1. PICK label \in {"monitor", "time"} : LeaveAt(label)
    BY <1>3 DEF NoPosition, TimeNone
  <2>2. /\ pc = label /\ pc # "start"
        /\ UNCHANGED <<held, entries, orders, past>>
    BY <2>1 DEF LeaveAt
  <2>3. pc' # "start"
    BY <1>1, <1>2, <2>1 DEF LeaveAt, Leave, Goto
  <2> QED
    BY <2>2, <2>3 DEF Unseen
<1>4. CASE Liquidation \/ TakeTp1 \/ TakeTp2 \/ TimeStop
  BY <1>4 DEF Liquidation, TakeTp1, TakeTp2, TimeStop, Closing, StartClose,
              Unseen
<1>5. CASE TakeNone \/ TrailNone \/ NoSignal
  BY <1>5 DEF TakeNone, TrailNone, NoSignal, Step, Goto, Unseen
<1>6. CASE TakeSync
  <2>1. PICK obj \in {Synced(Obj), Obj} :
          To("take", Inferred(obj)) \/ From(1, Inferred(obj))
    BY <1>6 DEF TakeSync, Leave
  <2>2. /\ pc = "monitor" /\ cur # None /\ Obj.qty > 0
        /\ UNCHANGED <<held, entries, orders, past>>
    BY <1>6 DEF TakeSync, Open
  <2>3. obj \in Object /\ Spent(obj)
    BY <1>2, <2>1, <2>2, SyncedTyped DEF Inv
  <2>4. Inferred(obj) \in Object /\ Spent(Inferred(obj))
    BY <2>3, InferredTyped
  <2>5. pc' # "start"
    BY <1>1, <2>1, <2>4 DEF To, Goto
  <2> QED
    BY <2>2, <2>5 DEF Unseen
<1>7. CASE TrailTriggered \/ TrailImproved
  BY <1>7, CancelReplaces
     DEF TrailTriggered, TrailImproved, Open, StartClose, PlaceThen
<1>8. CASE CleanUp
  <2>1. /\ UNCHANGED <<held, entries, orders, past>> /\ pc \in Leaving
    BY <1>8 DEF CleanUp, Leaving
  <2>2. cur # None /\ Obj.qty = 0
    BY <2>1 DEF Inv, TypeOK, Working, Leaving, Phases
  <2>3. Ended(Obj) \in Object /\ Ended(Obj).qty = 0
    BY <1>2, <2>2, EndedDoes DEF Like
  <2>4. CleanEnds(pc, Ended(Obj), cleaners) => pc' # "start"
    BY <2>1, <2>3, CleanEndsDoes DEF Leaving, Goto
  <2>5. pc' # "start"
    BY <1>8, <2>4 DEF CleanUp
  <2> QED
    BY <2>1, <2>5 DEF Unseen, Leaving
<1>9. CASE \E c \in cleaners : Clean(c)
  BY <1>9, CleanWithdraws
<1>10. CASE RetryProtection
  BY <1>10 DEF RetryProtection, StartRound, To, Goto, PlaceThen, Unseen
<1>11. CASE SyncPositions
  BY <1>11 DEF SyncPositions, Goto, Unseen
<1>12. CASE Enter
  <2>1. ~Doubtful'
    <3>1. entries' \notin 0..entries /\ UNCHANGED past
      BY <1>12, EntriesIn, Limits DEF Enter, Inv, TypeOK
    <3> QED
      BY <3>1 DEF Inv, Amount, Doubtful, past
  <2>2. Book!Open
    BY <1>12, <2>1, SameBook DEF Enter, PlaceThen, Book!Open
  <2> QED
    BY <2>2 DEF Book!Strategy
<1>13. CASE Place
  BY <1>13, PlaceIsSeen
<1> QED
  BY <1>3, <1>4, <1>5, <1>6, <1>7, <1>8, <1>9, <1>10, <1>11, <1>12, <1>13
     DEF Cycle

LEMMA StepIsSeen ==
    Inv /\ [Strategy]_vars => [Book!Strategy]_(Book!book)
<1> SUFFICES ASSUME Inv, [Strategy]_vars PROVE Book!Strategy \/ Unseen
  BY UnseenStutters
<1>1. CASE Cycle
  BY <1>1, CycleIsSeen
<1>2. CASE Close
  BY <1>2, CloseIsSeen
<1>3. CASE StartupSweep
  BY <1>3, StartIsSeen DEF Book!Strategy
<1>4. CASE Adopt \/ AdoptNot \/ Ensure
  BY <1>4 DEF Adopt, AdoptNot, Ensure, Step, Goto, PlaceThen, Unseen
<1>5. CASE Exchange
  <2>1. PICK i \in DOMAIN orders : Trigger(i)
    BY <1>5 DEF Exchange
  <2>2. /\ UNCHANGED <<entries, pc, Doubtful>> /\ Live(i) /\ held \in 1..Full
        /\ held' = held - Lesser(Quantity(orders[i].leg), held)
        /\ orders' = Gone({i}, "executed")
    BY <2>1, SameDoubt DEF Trigger, Inv, TypeOK, Full
  <2>3. Book!With(i, "executed", orders[i].row)
    BY <2>2, GoneIsWith DEF Inv
  <2>4. held' = IF held > Book!Quantity(orders[i].leg)
                THEN held - Book!Quantity(orders[i].leg) ELSE 0
    BY <2>2 DEF Lesser, Quantity, Book!Quantity, Full, Book!Full
  <2>5. Book!Fill(i)
    BY <2>2, <2>3, <2>4, SameBook DEF Book!Fill
  <2> QED
    BY <2>5 DEF Book!Strategy
<1>6. CASE Stop
  <2>1. Book!Stop
    BY <1>6, SameDoubt DEF Stop, Goto, Book!Stop
  <2> QED
    BY <2>1 DEF Book!Strategy
<1>7. CASE UNCHANGED vars
  BY <1>7 DEF vars, past, Unseen
<1> QED
  BY <1>1, <1>2, <1>3, <1>4, <1>5, <1>6, <1>7 DEF Strategy, Process, Startup

LEMMA InitBook == Init => Book!Init
BY DEF Init, Book!Init, Doubtful

\* Whatever fails and however often the process stops, it places, replaces
\* and takes away only what OrderBook allows: no clean-up, detached or not,
\* withdraws an order that protects the position now held
\* (strategy.py: _cleanup_position_orders beside _open_new_position).
THEOREM ProtectionImplementsBook == Spec => ImplementsBook
<1>1. Inv /\ [Strategy]_vars => [Book!Move]_(Book!book)
  BY StepIsSeen DEF Book!Move
<1>2. Spec => Book!Init /\ [][Book!Move]_(Book!book)
  BY <1>1, InitBook, InvCorrect, PTL DEF Spec
<1>3. Book!Init /\ [][Book!Move]_(Book!book) <=> ImplementsBook
  BY DEF ImplementsBook, Book!Spec
<1> QED
  BY <1>2, <1>3
=============================================================================
