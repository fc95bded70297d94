--------------------------- MODULE CollectorProofs ---------------------------
(***************************************************************************)
(* What the collector's pipeline promises, for any number of writer groups *)
(* and any limits: types, the byte budget, the sealed day, no loss outside *)
(* a gap and what a clean lease means.                                     *)
(***************************************************************************)
EXTENDS Collector, NumberLemmas, SequenceTheorems

-----------------------------------------------------------------------------
\* Numbers and sequences

LEMMA TailFacts ==
  ASSUME NEW S, NEW s \in Seq(S), s # <<>>
  PROVE  /\ Len(s) \in Nat \ {0} /\ DOMAIN s = 1..Len(s)
         /\ Head(s) = s[1] /\ 1 \in DOMAIN s /\ Head(s) \in S
         /\ Tail(s) \in Seq(S) /\ DOMAIN Tail(s) = 1..Len(s) - 1
         /\ \A i \in DOMAIN Tail(s) : i + 1 \in DOMAIN s /\ Tail(s)[i] = s[i + 1]
  BY HeadTailProperties, LenProperties, EmptySeq

LEMMA AppendFacts ==
  ASSUME NEW S, NEW s \in Seq(S), NEW x \in S
  PROVE  /\ Len(s) \in Nat /\ DOMAIN s = 1..Len(s)
         /\ Append(s, x) \in Seq(S) /\ Append(s, x) # <<>>
         /\ Len(Append(s, x)) = Len(s) + 1
         /\ DOMAIN Append(s, x) = 1..Len(s) + 1
         /\ \A i \in DOMAIN s : Append(s, x)[i] = s[i]
         /\ Append(s, x)[Len(s) + 1] = x
         /\ s # <<>> => Head(Append(s, x)) = Head(s)
  BY AppendProperties, LenProperties, EmptySeq, HeadTailAppend

LEMMA DomainFacts ==
  ASSUME NEW S, NEW s \in Seq(S)
  PROVE  /\ Len(s) \in Nat /\ DOMAIN s = 1..Len(s)
         /\ \A i \in DOMAIN s : s[i] \in S
         /\ s = <<>> <=> DOMAIN s = {}
  BY LenProperties, EmptySeq

-----------------------------------------------------------------------------
\* The structure of a process

\* The types, without the limits that follow from what comes later.
Typed ==
  /\ sealed \in BOOLEAN
  /\ lease \in [state : {"none", "running", "clean"}, from : Nat]
  /\ gaps \subseteq [from : Nat, to : Nat]
  /\ main \in {"down", "boot", "formal", "run", "stop", "abort"}
  /\ started \in Nat
  /\ midnight \in {"off", "first", "second", "grace"}
  /\ lockQ \in Seq(Event \cup {Barrier})
  /\ rotor \in {"none", "ask", "wait", "failed", "cancelled"}
  /\ pending \subseteq Group
  /\ sources \in BOOLEAN
  /\ producer \in [Group -> {"off", "idle", "asking", "paused"}]
  /\ queue \in [Group -> Seq(Nat)]
  /\ batch \in [Group -> SUBSET Nat]
  /\ written \in [Group -> SUBSET Nat]
  /\ writer \in [Group -> {"idle", "flush", "finish", "publish", "dead", "done"}]
  /\ through \in [Group -> Nat]
  /\ draining \in BOOLEAN
  /\ admitted \subseteq Event
  /\ clock \in Nat /\ crashes \in Nat /\ failures \in Nat

Empty(g)    == queue[g] = <<>> /\ Session(g) = {}
NoRotate(g) == \A i \in DOMAIN queue[g] : queue[g][i] # Rotate
Events      == {i \in DOMAIN lockQ : lockQ[i] # Barrier}

\* What the phases of the process, of its writers and of a rotation say about
\* each other.
Phases ==
  /\ main = "down" =>
       /\ midnight = "off" /\ rotor = "none" /\ ~sources /\ ~draining
       /\ \A g \in Group : Empty(g)
  /\ main \in {"boot", "formal", "run"} => sources
  /\ main = "boot" => rotor = "none"
  /\ midnight # "off" => main = "run"
  /\ rotor \in {"ask", "wait", "failed"} =>
       main = "formal" \/ midnight \in {"first", "second"}
  /\ rotor = "cancelled" => main = "stop"
  /\ ~sources => lockQ = <<>>
  /\ draining => ~sources
  /\ main # "down" => lease.state = "running"
  /\ \A g \in Group :
       /\ writer[g] = "done" => draining /\ Empty(g)
       /\ writer[g] \in {"flush", "finish", "publish"} => Session(g) # {}
       /\ writer[g] = "publish" => batch[g] = {}

\* The lock has one Barrier while a rotation asks, and the rotation that has the
\* lock is at its head.
Barriers ==
  /\ rotor \in {"none", "cancelled"} => \A i \in DOMAIN lockQ : lockQ[i] # Barrier
  /\ \A i, j \in DOMAIN lockQ : lockQ[i] = Barrier /\ lockQ[j] = Barrier => i = j
  /\ rotor = "ask" => \E i \in DOMAIN lockQ : lockQ[i] = Barrier
  /\ rotor \in {"wait", "failed"} => lockQ # <<>> /\ Head(lockQ) = Barrier

\* While a rotation waits, a queue ends with its item, and a group that has
\* answered holds nothing: the lock lets nothing in.
Rotates ==
  /\ rotor \in {"none", "ask"} /\ main \notin {"stop", "abort"} =>
       \A g \in Group : NoRotate(g)
  /\ rotor = "wait" => \A g \in Group :
       IF g \in pending
       THEN /\ queue[g] # <<>>
            /\ \A i \in DOMAIN queue[g] : queue[g][i] = Rotate <=> i = Len(queue[g])
       ELSE Empty(g)

Structure == Typed /\ Phases /\ Barriers /\ Rotates

-----------------------------------------------------------------------------
\* The order of events

\* What a group holds: its session, then its queue.
Live(g) == Session(g) \cup {queue[g][i] : i \in Queued(g)}

\* Events stand in the lock, in a queue and in a session in the order of their
\* receive times, behind everything that is durable and behind the start.
GroupOrder(g) ==
  /\ through[g] <= clock
  /\ \A t \in Live(g) :
       [t |-> t, g |-> g] \in admitted /\ started < t /\ through[g] < t
  /\ \A t \in Session(g), i \in Queued(g) : t < queue[g][i]
  /\ \A i, j \in Queued(g) : i < j => queue[g][i] < queue[g][j]
  /\ \A i \in Events : lockQ[i].g = g =>
       through[g] < lockQ[i].t /\ \A t \in Live(g) : t < lockQ[i].t

LockOrder ==
  /\ started <= clock
  /\ \A e \in admitted : e.t <= clock
  /\ \A i \in Events : started < lockQ[i].t /\ lockQ[i].t <= clock
  /\ \A i, j \in Events : i < j => lockQ[i].t < lockQ[j].t

Ordered == LockOrder /\ \A g \in Group : GroupOrder(g)

Inv == Structure /\ Ordered

LEMMA InvInit == Init => Inv
<1> SUFFICES ASSUME Init PROVE Inv
  OBVIOUS
<1> USE DEF Init
<1>1. \A S : <<>> \in Seq(S) /\ DOMAIN <<>> = {}
  BY EmptySeq, LenProperties
<1>2. Typed
  BY <1>1 DEF Typed
<1>3. \A g \in Group : Empty(g) /\ NoRotate(g) /\ Live(g) = {} /\ Queued(g) = {}
  BY <1>1 DEF Empty, NoRotate, Live, Session, Queued
<1>4. Events = {} /\ \A i \in DOMAIN lockQ : FALSE
  BY <1>1 DEF Events
<1>5. Phases /\ Barriers /\ Rotates
  BY <1>3, <1>4 DEF Phases, Barriers, Rotates
<1>6. Ordered
  BY <1>3, <1>4 DEF Ordered, LockOrder, GroupOrder, Live
<1> QED BY <1>2, <1>5, <1>6 DEF Inv, Structure

-----------------------------------------------------------------------------
\* The lock

NoBarrier(s)  == \A i \in DOMAIN s : s[i] # Barrier
OneBarrier(s) == \A i, j \in DOMAIN s : s[i] = Barrier /\ s[j] = Barrier => i = j

LEMMA AppendBarrier ==
  ASSUME NEW s \in Seq(Event \cup {Barrier}), NoBarrier(s)
  PROVE  /\ Append(s, Barrier) \in Seq(Event \cup {Barrier})
         /\ OneBarrier(Append(s, Barrier))
         /\ \E i \in DOMAIN Append(s, Barrier) : Append(s, Barrier)[i] = Barrier
<1> DEFINE a == Append(s, Barrier)
<1>1. /\ Len(s) \in Nat /\ DOMAIN s = 1..Len(s) /\ DOMAIN a = 1..Len(s) + 1
      /\ a \in Seq(Event \cup {Barrier})
      /\ \A i \in DOMAIN s : a[i] = s[i]
      /\ a[Len(s) + 1] = Barrier
  BY AppendFacts
<1> HIDE DEF a
<1>2. \A i \in DOMAIN a : a[i] = Barrier => i = Len(s) + 1
  BY <1>1 DEF NoBarrier
<1>3. Len(s) + 1 \in DOMAIN a
  BY <1>1
<1>4. OneBarrier(a) /\ \E i \in DOMAIN a : a[i] = Barrier
  BY <1>1, <1>2, <1>3 DEF OneBarrier
<1> QED BY <1>1, <1>4 DEF a

LEMMA TailBarrier ==
  ASSUME NEW s \in Seq(Event \cup {Barrier}), s # <<>>, Head(s) = Barrier, OneBarrier(s)
  PROVE  NoBarrier(Tail(s))
<1> SUFFICES ASSUME NEW i \in DOMAIN Tail(s), Tail(s)[i] = Barrier PROVE FALSE
  BY DEF NoBarrier
<1>1. /\ s[1] = Barrier /\ 1 \in DOMAIN s /\ DOMAIN Tail(s) = 1..Len(s) - 1
      /\ i + 1 \in DOMAIN s /\ Tail(s)[i] = s[i + 1] /\ Len(s) \in Nat
  BY TailFacts
<1>2. i + 1 = 1
  BY <1>1 DEF OneBarrier
<1> QED BY <1>1, <1>2

\* A cancelled rotation leaves its place to those behind it.
LEMMA BarrierLeaves ==
  ASSUME lockQ \in Seq(Event \cup {Barrier}), OneBarrier(lockQ)
  PROVE  /\ WithoutBarrier \in Seq(Event \cup {Barrier})
         /\ NoBarrier(WithoutBarrier)
         /\ \E m : /\ \A i \in DOMAIN WithoutBarrier :
                       m[i] \in DOMAIN lockQ /\ WithoutBarrier[i] = lockQ[m[i]]
                   /\ \A i, j \in DOMAIN WithoutBarrier : i < j => m[i] < m[j]
<1>1. CASE NoBarrier(lockQ)
  <2>1. WithoutBarrier = lockQ
    BY <1>1 DEF NoBarrier, WithoutBarrier
  <2> DEFINE m == [i \in DOMAIN lockQ |-> i]
  <2>2. \A i \in DOMAIN lockQ : m[i] = i
    OBVIOUS
  <2> QED BY <2>1, <2>2, <1>1
<1>2. CASE ~NoBarrier(lockQ)
  <2> DEFINE b == CHOOSE i \in DOMAIN lockQ : lockQ[i] = Barrier
             w == [i \in 1..Len(lockQ) - 1 |-> IF i < b THEN lockQ[i] ELSE lockQ[i + 1]]
             m == [i \in 1..Len(lockQ) - 1 |-> IF i < b THEN i ELSE i + 1]
  <2>1. b \in DOMAIN lockQ /\ lockQ[b] = Barrier
    BY <1>2 DEF NoBarrier
  <2>2. WithoutBarrier = w
    BY <1>2 DEF NoBarrier, WithoutBarrier
  <2>3. Len(lockQ) \in Nat /\ DOMAIN lockQ = 1..Len(lockQ)
        /\ \A i \in DOMAIN lockQ : lockQ[i] \in Event \cup {Barrier}
    BY DomainFacts
  <2> HIDE DEF b
  <2>4. DOMAIN w = 1..Len(lockQ) - 1 /\ Len(lockQ) - 1 \in Nat /\ b \in Int
    BY <2>1, <2>3
  <2>5. \A i \in DOMAIN w : /\ m[i] \in DOMAIN lockQ /\ w[i] = lockQ[m[i]] /\ m[i] # b
    BY <2>1, <2>3, <2>4
  <2>6. \A i, j \in DOMAIN w : i < j => m[i] < m[j]
    BY <2>4
  <2>7. w \in [1..Len(lockQ) - 1 -> Event \cup {Barrier}]
    BY <2>3, <2>4, <2>5
  <2>8. w \in Seq(Event \cup {Barrier})
    BY <2>4, <2>7, SeqDef
  <2> HIDE DEF w, m
  <2>9. NoBarrier(w)
    BY <2>1, <2>5 DEF NoBarrier, OneBarrier
  <2> QED BY <2>2, <2>5, <2>6, <2>8, <2>9
<1> QED BY <1>1, <1>2

\* The order is kept when the lock loses some of those who wait, or gets a Barrier.
LEMMA OrderInLock ==
  ASSUME Ordered, UNCHANGED <<started, admitted, clock, queue, through>>,
         \A g \in Group : Session(g)' = Session(g),
         NEW m,
         \A i \in Events' : m[i] \in Events /\ lockQ'[i] = lockQ[m[i]],
         \A i, j \in Events' : i < j => m[i] < m[j]
  PROVE  Ordered'
<1>1. \A g \in Group : Live(g)' = Live(g) /\ Queued(g)' = Queued(g)
  BY DEF Live, Queued
<1>2. \A i \in Events' : started < lockQ'[i].t /\ lockQ'[i].t <= clock
  BY DEF Ordered, LockOrder, GroupOrder
<1>3. \A i, j \in Events' : i < j => lockQ'[i].t < lockQ'[j].t
  BY DEF Ordered, LockOrder, GroupOrder
<1>4. \A g \in Group : \A i \in Events' : lockQ'[i].g = g =>
         through[g] < lockQ'[i].t /\ \A t \in Live(g) : t < lockQ'[i].t
  BY DEF Ordered, LockOrder, GroupOrder
<1> HIDE DEF Ordered
<1>5. /\ started' <= clock'
      /\ \A e \in admitted' : e.t <= clock'
      /\ \A g \in Group : through'[g] <= clock'
  BY DEF Ordered, LockOrder, GroupOrder
<1>6. \A g \in Group :
       /\ \A t \in Live(g)' :
            [t |-> t, g |-> g] \in admitted' /\ started' < t /\ through'[g] < t
       /\ \A t \in Session(g)', i \in Queued(g)' : t < queue'[g][i]
       /\ \A i, j \in Queued(g)' : i < j => queue'[g][i] < queue'[g][j]
  BY <1>1 DEF Ordered, LockOrder, GroupOrder
<1> QED BY <1>1, <1>2, <1>3, <1>4, <1>5, <1>6 DEF Ordered, LockOrder, GroupOrder

\* And when neither the lock nor the memory changes.
LEMMA OrderFrame ==
  ASSUME Ordered, UNCHANGED <<started, admitted, clock, queue, through, lockQ>>,
         \A g \in Group : Session(g)' = Session(g)
  PROVE  Ordered'
<1> DEFINE m == [i \in Events |-> i]
<1>1. Events' = Events
  BY DEF Events
<1>2. \A i \in Events' : m[i] \in Events /\ lockQ'[i] = lockQ[m[i]]
  BY <1>1
<1>3. \A i, j \in Events' : i < j => m[i] < m[j]
  BY <1>1
<1> HIDE DEF m
<1> QED BY <1>2, <1>3, OrderInLock

-----------------------------------------------------------------------------
\* The steps that leave lock, queues and sessions alone

\* What Structure and Ordered look at of the memory.
memory == <<queue, batch, written, through, lockQ, admitted, clock, started>>

LEMMA MemoryFrame ==
  ASSUME UNCHANGED memory
  PROVE  /\ \A g \in Group : /\ Session(g)' = Session(g) /\ Empty(g)' = Empty(g)
                             /\ NoRotate(g)' = NoRotate(g) /\ Live(g)' = Live(g)
                             /\ Queued(g)' = Queued(g)
         /\ Ordered => Ordered'
<1>1. \A g \in Group : /\ Session(g)' = Session(g) /\ Empty(g)' = Empty(g)
                        /\ NoRotate(g)' = NoRotate(g) /\ Live(g)' = Live(g)
                        /\ Queued(g)' = Queued(g)
  BY DEF memory, Session, Empty, NoRotate, Live, Queued
<1> QED BY <1>1, OrderFrame DEF memory

\* The watermark is the start of the process or behind all critical groups.
LEMMA WatermarkFacts ==
  ASSUME Typed
  PROVE  /\ Watermark \in Nat
         /\ Watermark = started \/ \A g \in Critical : Watermark <= through[g]
<1>1. CASE \E g \in Critical : through[g] = 0
  BY <1>1 DEF Watermark, Typed
<1>2. CASE ~\E g \in Critical : through[g] = 0
  <2> DEFINE T == {through[g] : g \in Critical}
  <2>1. T \subseteq Nat /\ T # {}
    BY GroupAssumption DEF Typed
  <2>2. PICK w \in T : \A n \in T : w <= n
    <3> HIDE DEF T
    <3> QED BY <2>1, LeastNumber
  <2>3. \A g \in Critical : w <= through[g]
    BY <2>2
  <2>4. Watermark = CHOOSE v \in T : \A g \in Critical : v <= through[g]
    BY <1>2 DEF Watermark
  <2>5. Watermark \in T /\ \A g \in Critical : Watermark <= through[g]
    <3> HIDE DEF T
    <3> QED BY <2>3, <2>4
  <2> QED BY <2>1, <2>5
<1> QED BY <1>1, <1>2

LEMMA FloorType == Floor \in Nat /\ Floor' \in Nat
  BY LimitAssumption DEF Floor

LEMMA RenewedLease ==
  ASSUME Typed, RenewLease
  PROVE  lease' \in [state : {"none", "running", "clean"}, from : Nat]
         /\ lease'.state = "running"
  BY WatermarkFacts, FloorType DEF RenewLease, Later

LEMMA QuietStep ==
  ASSUME Inv, NEW g \in Group,
         Resume(g) \/ CutSession(g) \/ ServeStop(g) \/ Heartbeat \/ Drain
  PROVE  Inv'
<1> USE DEF Inv, Structure, durable, tasks, lockVars, writers, history
<1>1. UNCHANGED memory
  BY DEF memory, Resume, CutSession, ServeStop, Heartbeat, Drain
<1>2. \A h \in Group : /\ Session(h)' = Session(h) /\ Empty(h)' = Empty(h)
                        /\ NoRotate(h)' = NoRotate(h)
  BY <1>1, MemoryFrame
<1>3. Ordered'
  BY <1>1, MemoryFrame
<1>4. CASE Resume(g)
  BY <1>2, <1>3, <1>4 DEF Resume, AfterPause, Typed, Phases, Barriers, Rotates
<1>5. CASE CutSession(g)
  BY <1>2, <1>3, <1>5 DEF CutSession, Typed, Phases, Barriers, Rotates
<1>6. CASE ServeStop(g)
  BY <1>2, <1>3, <1>6 DEF ServeStop, Typed, Phases, Barriers, Rotates, Empty
<1>7. CASE Heartbeat
  <2>1. RenewLease
    BY <1>7 DEF Heartbeat
  <2> QED BY <1>2, <1>3, <1>7, <2>1, RenewedLease DEF Heartbeat, Typed, Phases, Barriers, Rotates
<1>8. CASE Drain
  BY <1>2, <1>3, <1>8 DEF Drain, Typed, Phases, Barriers, Rotates
<1> QED BY <1>4, <1>5, <1>6, <1>7, <1>8

\* Flushing moves events from the batch to the partial file.
LEMMA FlushStep ==
  ASSUME Inv, NEW g \in Group, Flush(g) \/ FinishFlush(g)
  PROVE  Inv'
<1> USE DEF Inv, Structure, durable, tasks, lockVars, writers, history
<1>1. /\ written' = [written EXCEPT ![g] = Session(g)]
      /\ batch' = [batch EXCEPT ![g] = {}]
      /\ UNCHANGED <<queue, through, lockQ, admitted, clock, started>>
  BY DEF Flush, FinishFlush, FlushBatch
<1>2. \A h \in Group : Session(h)' = Session(h)
  BY <1>1 DEF Session, Typed
<1>3. \A h \in Group : Empty(h)' = Empty(h) /\ NoRotate(h)' = NoRotate(h)
  BY <1>1, <1>2 DEF Empty, NoRotate
<1>4. Ordered'
  BY <1>1, <1>2, OrderFrame
<1>5. written' \in [Group -> SUBSET Nat] /\ batch' \in [Group -> SUBSET Nat]
  BY <1>1 DEF Typed, Session
<1>6. /\ writer[g] \in {"flush", "finish"}
      /\ \E w \in {"finish", "idle", "publish"} : writer' = [writer EXCEPT ![g] = w]
      /\ UNCHANGED <<durable, tasks, lockVars, producer, queue, through, history>>
  <2>1. CASE Flush(g)
    BY <2>1 DEF Flush
  <2>2. CASE FinishFlush(g)
    BY <2>2 DEF FinishFlush
  <2> QED BY <2>1, <2>2
<1>7. Typed'
  BY <1>5, <1>6 DEF Typed
<1>8. Phases' /\ Barriers' /\ Rotates'
  BY <1>1, <1>2, <1>3, <1>6 DEF Typed, Phases, Barriers, Rotates
<1> QED BY <1>4, <1>7, <1>8

\* A writer that dies keeps what it holds.
LEMMA DeathStep ==
  ASSUME Inv, NEW g \in Group, Dies(g),
         UNCHANGED <<sealed, lease, gaps, recorded, tasks, lockQ, pending, producer,
                     queue, batch, written, through, admitted, clock, crashes>>,
         failures' \in Nat
  PROVE  Inv'
<1> USE DEF Inv, Structure, tasks
<1>1. UNCHANGED memory
  BY DEF memory
<1>2. \A h \in Group : Session(h)' = Session(h) /\ Empty(h)' = Empty(h)
                        /\ NoRotate(h)' = NoRotate(h)
  BY <1>1, MemoryFrame
<1>3. Ordered'
  BY <1>1, MemoryFrame
<1>4. rotor' = rotor \/ (rotor = "wait" /\ rotor' = "failed")
  BY DEF Dies
<1> QED BY <1>2, <1>3, <1>4 DEF Dies, Typed, Phases, Barriers, Rotates

LEMMA WriterFailsStep ==
  ASSUME Inv, NEW g \in Group, WriterFails(g)
  PROVE  Inv'
<1>1. /\ Dies(g)
      /\ UNCHANGED <<sealed, lease, gaps, recorded, tasks, lockQ, pending, producer,
                     queue, batch, written, through, admitted, clock, crashes>>
      /\ failures' = failures + 1
  BY DEF WriterFails, durable
<1>2. failures' \in Nat
  BY <1>1 DEF Inv, Structure, Typed
<1> QED BY <1>1, <1>2, DeathStep

-----------------------------------------------------------------------------
\* The steps that change who waits for the lock

\* A Barrier asks for the lock behind everyone.
LEMMA AskedRotation ==
  ASSUME Inv, NoBarrier(lockQ), lockQ' = Append(lockQ, Barrier),
         UNCHANGED <<queue, batch, written, through, admitted, clock, started>>
  PROVE  /\ lockQ' \in Seq(Event \cup {Barrier}) /\ OneBarrier(lockQ')
         /\ \E i \in DOMAIN lockQ' : lockQ'[i] = Barrier
         /\ \A g \in Group : Session(g)' = Session(g) /\ Empty(g)' = Empty(g)
                              /\ NoRotate(g)' = NoRotate(g)
         /\ Ordered'
<1> USE DEF Inv, Structure, Typed
<1>1. /\ lockQ' \in Seq(Event \cup {Barrier}) /\ OneBarrier(lockQ')
      /\ \E i \in DOMAIN lockQ' : lockQ'[i] = Barrier
  BY AppendBarrier
<1>2. \A g \in Group : Session(g)' = Session(g) /\ Empty(g)' = Empty(g)
                        /\ NoRotate(g)' = NoRotate(g)
  BY DEF Session, Empty, NoRotate
<1>3. /\ Len(lockQ) \in Nat /\ DOMAIN lockQ = 1..Len(lockQ)
      /\ DOMAIN lockQ' = 1..Len(lockQ) + 1
      /\ \A i \in DOMAIN lockQ : lockQ'[i] = lockQ[i]
      /\ lockQ'[Len(lockQ) + 1] = Barrier
  BY AppendFacts
<1> DEFINE m == [i \in DOMAIN lockQ' |-> i]
<1>4. \A i \in Events' : m[i] \in Events /\ lockQ'[i] = lockQ[m[i]]
  BY <1>3 DEF Events
<1>5. \A i, j \in Events' : i < j => m[i] < m[j]
  BY <1>3 DEF Events
<1> HIDE DEF m
<1>6. Ordered'
  BY <1>2, <1>4, <1>5, OrderInLock
<1> QED BY <1>1, <1>2, <1>6

LEMMA AskStep ==
  ASSUME Inv, Ready \/ MidnightComes
  PROVE  Inv'
<1> USE DEF Inv, Structure, durable, tasks, lockVars, writers, history, AskRotate
<1>1. NoBarrier(lockQ) /\ lockQ' = Append(lockQ, Barrier) /\ rotor' = "ask"
      /\ UNCHANGED <<queue, batch, written, through, admitted, clock, started>>
  BY DEF Ready, MidnightComes, Phases, Barriers, NoBarrier, Typed
<1>2. /\ lockQ' \in Seq(Event \cup {Barrier}) /\ OneBarrier(lockQ')
      /\ \E i \in DOMAIN lockQ' : lockQ'[i] = Barrier
      /\ \A g \in Group : Session(g)' = Session(g) /\ Empty(g)' = Empty(g)
                           /\ NoRotate(g)' = NoRotate(g)
      /\ Ordered'
  BY <1>1, AskedRotation
<1>3. Barriers'
  BY <1>1, <1>2 DEF Barriers, OneBarrier
<1>4. CASE Ready
  <2>1. gaps' \subseteq [from : Nat, to : Nat]
    <3>1. \A gap \in gaps : [gap EXCEPT !.to = IF @ = 0 THEN clock ELSE @]
                            \in [from : Nat, to : Nat]
      BY <1>4 DEF Typed
    <3> QED BY <3>1, <1>4 DEF Ready
  <2>2. Typed'
    BY <1>4, <1>2, <2>1 DEF Ready, Typed
  <2>3. Phases'
    BY <1>2, <1>4 DEF Ready, Phases, Typed
  <2>4. Rotates'
    BY <1>2, <1>4 DEF Ready, Phases, Rotates, Typed
  <2> QED BY <1>2, <1>3, <2>2, <2>3, <2>4
<1>5. CASE MidnightComes
  <2>1. Typed'
    BY <1>5, <1>2 DEF MidnightComes, Typed
  <2>2. Phases'
    BY <1>2, <1>5 DEF MidnightComes, Phases, Typed
  <2>3. rotor = "none"
    BY <1>5 DEF MidnightComes, Phases, Typed
  <2>4. Rotates'
    BY <1>2, <1>5, <2>3 DEF MidnightComes, Phases, Rotates, Typed
  <2> QED BY <1>2, <1>3, <2>1, <2>2, <2>4
<1> QED BY <1>4, <1>5

\* The Barrier at the head leaves.
LEMMA LockReleased ==
  ASSUME Inv, lockQ # <<>>, Head(lockQ) = Barrier, lockQ' = Tail(lockQ),
         UNCHANGED <<queue, batch, written, through, admitted, clock, started>>
  PROVE  /\ lockQ' \in Seq(Event \cup {Barrier}) /\ NoBarrier(lockQ')
         /\ \A g \in Group : Session(g)' = Session(g) /\ Empty(g)' = Empty(g)
                              /\ NoRotate(g)' = NoRotate(g)
         /\ Ordered'
<1> USE DEF Inv, Structure, Typed
<1>1. \A g \in Group : Session(g)' = Session(g) /\ Empty(g)' = Empty(g)
                        /\ NoRotate(g)' = NoRotate(g)
  BY DEF Session, Empty, NoRotate
<1>2. /\ lockQ' \in Seq(Event \cup {Barrier}) /\ DOMAIN lockQ' = 1..Len(lockQ) - 1
      /\ Len(lockQ) \in Nat
      /\ \A i \in DOMAIN lockQ' : i + 1 \in DOMAIN lockQ /\ lockQ'[i] = lockQ[i + 1]
  BY TailFacts
<1>3. NoBarrier(lockQ')
  BY TailBarrier DEF Barriers, OneBarrier
<1> DEFINE m == [i \in DOMAIN lockQ' |-> i + 1]
<1>4. \A i \in Events' : m[i] \in Events /\ lockQ'[i] = lockQ[m[i]]
  BY <1>2 DEF Events
<1>5. \A i, j \in Events' : i < j => m[i] < m[j]
  BY <1>2 DEF Events
<1> HIDE DEF m
<1>6. Ordered'
  BY <1>1, <1>4, <1>5, OrderInLock
<1> QED BY <1>1, <1>2, <1>3, <1>6

LEMMA LockRegained ==
  ASSUME Inv, lockQ # <<>>, Head(lockQ) = Barrier,
         lockQ' = Append(Tail(lockQ), Barrier),
         UNCHANGED <<queue, batch, written, through, admitted, clock, started>>
  PROVE  /\ lockQ' \in Seq(Event \cup {Barrier}) /\ OneBarrier(lockQ')
         /\ \E i \in DOMAIN lockQ' : lockQ'[i] = Barrier
         /\ \A g \in Group : Session(g)' = Session(g) /\ Empty(g)' = Empty(g)
                              /\ NoRotate(g)' = NoRotate(g)
         /\ Ordered'
<1> USE DEF Inv, Structure, Typed
<1>1. \A g \in Group : Session(g)' = Session(g) /\ Empty(g)' = Empty(g)
                        /\ NoRotate(g)' = NoRotate(g)
  BY DEF Session, Empty, NoRotate
<1>2. /\ Tail(lockQ) \in Seq(Event \cup {Barrier}) /\ Len(lockQ) \in Nat
      /\ DOMAIN Tail(lockQ) = 1..Len(lockQ) - 1 /\ Len(Tail(lockQ)) \in Nat
      /\ DOMAIN Tail(lockQ) = 1..Len(Tail(lockQ))
      /\ \A i \in DOMAIN Tail(lockQ) : i + 1 \in DOMAIN lockQ
                                         /\ Tail(lockQ)[i] = lockQ[i + 1]
  BY TailFacts, LenProperties
<1>3. NoBarrier(Tail(lockQ))
  BY TailBarrier DEF Barriers, OneBarrier
<1>4. /\ lockQ' \in Seq(Event \cup {Barrier}) /\ OneBarrier(lockQ')
      /\ \E i \in DOMAIN lockQ' : lockQ'[i] = Barrier
  BY <1>2, <1>3, AppendBarrier
<1>5. /\ DOMAIN lockQ' = 1..Len(Tail(lockQ)) + 1
      /\ \A i \in DOMAIN Tail(lockQ) : lockQ'[i] = Tail(lockQ)[i]
      /\ lockQ'[Len(Tail(lockQ)) + 1] = Barrier
  BY <1>2, AppendFacts
<1> DEFINE m == [i \in DOMAIN lockQ' |-> i + 1]
<1>6. \A i \in Events' : i \in DOMAIN Tail(lockQ) /\ i \in Nat /\ i \in DOMAIN lockQ'
  BY <1>2, <1>5 DEF Events
<1>7. \A i \in Events' : m[i] \in Events /\ lockQ'[i] = lockQ[m[i]]
  BY <1>2, <1>5, <1>6 DEF Events
<1>8. \A i, j \in Events' : i < j => m[i] < m[j]
  BY <1>6
<1> HIDE DEF m
<1>9. Ordered'
  BY <1>1, <1>7, <1>8, OrderInLock
<1> QED BY <1>1, <1>4, <1>9

\* Every writer has answered: all groups are empty.
LEMMA RotateEndsStep ==
  ASSUME Inv, RotateEnds
  PROVE  Inv'
<1> USE DEF Inv, Structure, durable, tasks, lockVars, writers, history
<1>1. /\ rotor = "wait" /\ pending = {} /\ lockQ # <<>> /\ Head(lockQ) = Barrier
      /\ UNCHANGED <<queue, batch, written, through, admitted, clock, started>>
  BY DEF RotateEnds, AllAnswered, Barriers
<1>2. \A g \in Group : Empty(g) /\ NoRotate(g)
  BY <1>1, EmptySeq, DomainFacts DEF Rotates, Empty, NoRotate
<1>3. CASE lockQ' = Tail(lockQ) /\ rotor' = "none" /\ pending' = pending
           /\ \/ main = "formal" /\ main' = "run" /\ UNCHANGED midnight
              \/ midnight = "second" /\ midnight' = "grace" /\ UNCHANGED main
  <2>1. /\ lockQ' \in Seq(Event \cup {Barrier}) /\ NoBarrier(lockQ')
        /\ \A g \in Group : Session(g)' = Session(g) /\ Empty(g)' = Empty(g)
                             /\ NoRotate(g)' = NoRotate(g)
        /\ Ordered'
    BY <1>1, <1>3, LockReleased
  <2>2. Typed'
    BY <1>3, <2>1 DEF RotateEnds, Typed
  <2>3. Barriers'
    BY <1>3, <2>1 DEF Barriers, NoBarrier
  <2>4. Phases'
    BY <1>3, <2>1 DEF RotateEnds, Phases, Typed
  <2>5. Rotates'
    BY <1>2, <1>3, <2>1 DEF Rotates
  <2> QED BY <2>1, <2>2, <2>3, <2>4, <2>5
<1>4. CASE /\ lockQ' = Append(Tail(lockQ), Barrier) /\ rotor' = "ask"
           /\ midnight = "first" /\ midnight' = "second" /\ UNCHANGED <<main, pending>>
  <2>1. /\ lockQ' \in Seq(Event \cup {Barrier}) /\ OneBarrier(lockQ')
        /\ \E i \in DOMAIN lockQ' : lockQ'[i] = Barrier
        /\ \A g \in Group : Session(g)' = Session(g) /\ Empty(g)' = Empty(g)
                             /\ NoRotate(g)' = NoRotate(g)
        /\ Ordered'
    BY <1>1, <1>4, LockRegained
  <2>2. Typed'
    BY <1>4, <2>1 DEF RotateEnds, Typed
  <2>3. Barriers'
    BY <1>4, <2>1 DEF Barriers, OneBarrier
  <2>4. Phases'
    BY <1>4, <2>1 DEF RotateEnds, Phases, Typed
  <2>5. Rotates'
    BY <1>2, <1>4, <2>1 DEF Rotates
  <2> QED BY <2>1, <2>2, <2>3, <2>4, <2>5
<1> QED BY <1>3, <1>4 DEF RotateEnds

\* The service stops: a rotation of its loops gives up its place at the lock.
LEMMA ShutdownStep ==
  ASSUME Inv, Shutdown, main = "run"
  PROVE  Inv'
<1> USE DEF Inv, Structure, durable, tasks, lockVars, writers, history
<1>1. PICK m : /\ \A i \in DOMAIN WithoutBarrier :
                     m[i] \in DOMAIN lockQ /\ WithoutBarrier[i] = lockQ[m[i]]
               /\ \A i, j \in DOMAIN WithoutBarrier : i < j => m[i] < m[j]
  BY BarrierLeaves DEF Typed, Barriers, OneBarrier
<1>2. WithoutBarrier \in Seq(Event \cup {Barrier}) /\ NoBarrier(WithoutBarrier)
  BY BarrierLeaves DEF Typed, Barriers, OneBarrier
<1>3. lockQ' = WithoutBarrier
      /\ UNCHANGED <<queue, batch, written, through, admitted, clock, started>>
  BY DEF Shutdown
<1>4. \A g \in Group : Session(g)' = Session(g) /\ Empty(g)' = Empty(g)
  BY <1>3 DEF Session, Empty
<1>5. \A i \in Events' : m[i] \in Events /\ lockQ'[i] = lockQ[m[i]]
  BY <1>1, <1>3 DEF Events
<1>6. \A i, j \in Events' : i < j => m[i] < m[j]
  BY <1>1, <1>3 DEF Events
<1>7. Ordered'
  BY <1>3, <1>4, <1>5, <1>6, OrderInLock
<1>8. Typed'
  BY <1>2, <1>3 DEF Shutdown, Typed
<1>9. Barriers'
  BY <1>2, <1>3 DEF Shutdown, Barriers, NoBarrier
<1>10. Phases'
  BY <1>4 DEF Shutdown, Phases, Typed
<1>11. Rotates'
  BY DEF Shutdown, Rotates
<1> QED BY <1>7, <1>8, <1>9, <1>10, <1>11

LEMMA StopStep ==
  ASSUME Inv, StopRequested \/ WriterFailureSeen \/ RotateRaises
  PROVE  Inv'
<1>1. CASE Shutdown /\ main = "run"
  BY <1>1, ShutdownStep
<1>2. CASE RotateRaises /\ main # "run"
  <2> USE DEF Inv, Structure, durable, tasks, lockVars, writers, history
  <2>1. /\ lockQ # <<>> /\ Head(lockQ) = Barrier /\ lockQ' = Tail(lockQ)
        /\ UNCHANGED <<queue, batch, written, through, admitted, clock, started>>
    BY <1>2 DEF RotateRaises, Barriers
  <2>2. /\ lockQ' \in Seq(Event \cup {Barrier}) /\ NoBarrier(lockQ')
        /\ \A g \in Group : Session(g)' = Session(g) /\ Empty(g)' = Empty(g)
        /\ Ordered'
    BY <2>1, LockReleased
  <2>3. Typed'
    BY <1>2, <2>2 DEF RotateRaises, Typed
  <2>4. Barriers'
    BY <1>2, <2>2 DEF RotateRaises, Barriers, NoBarrier
  <2>5. Phases'
    BY <1>2, <2>2 DEF RotateRaises, Phases, Typed
  <2>6. Rotates'
    BY <1>2 DEF RotateRaises, Rotates
  <2> QED BY <2>2, <2>3, <2>4, <2>5, <2>6
<1> QED BY <1>1, <1>2 DEF StopRequested, WriterFailureSeen, RotateRaises

LEMMA StopSourcesStep ==
  ASSUME Inv, StopSources
  PROVE  Inv'
<1> USE DEF Inv, Structure, durable, tasks, lockVars, writers, history
<1>1. lockQ' = <<>>
      /\ UNCHANGED <<queue, batch, written, through, admitted, clock, started>>
  BY DEF StopSources
<1>2. \A g \in Group : Session(g)' = Session(g) /\ Empty(g)' = Empty(g)
  BY <1>1 DEF Session, Empty
<1>3. \A S : <<>> \in Seq(S) /\ DOMAIN <<>> = {}
  BY EmptySeq, LenProperties
<1>4. Events' = {}
  BY <1>1, <1>3 DEF Events
<1>5. Ordered'
  BY <1>1, <1>2, <1>4, OrderInLock
<1>6. Typed'
  BY <1>3 DEF StopSources, Typed
<1>7. Barriers' /\ Rotates'
  BY <1>3 DEF StopSources, Barriers, Rotates, Phases, Typed
<1>8. Phases'
  BY <1>2, <1>3 DEF StopSources, Phases, Typed
<1> QED BY <1>5, <1>6, <1>7, <1>8

LEMMA SealStep ==
  ASSUME Inv, Seal
  PROVE  Inv'
<1> USE DEF Inv, Structure, durable, tasks, lockVars, writers, history
<1>1. UNCHANGED memory /\ RenewLease
  BY DEF memory, Seal
<1>2. \A h \in Group : /\ Session(h)' = Session(h) /\ Empty(h)' = Empty(h)
                        /\ NoRotate(h)' = NoRotate(h)
  BY <1>1, MemoryFrame
<1>3. Ordered'
  BY <1>1, MemoryFrame
<1>4. Typed' /\ Phases'
  BY <1>1, <1>2, RenewedLease DEF Seal, Typed, Phases
<1>5. Barriers' /\ Rotates'
  BY <1>2 DEF Seal, Barriers, Rotates
<1> QED BY <1>3, <1>4, <1>5

-----------------------------------------------------------------------------
\* The steps that change what a group holds

LEMMA LiveNat ==
  ASSUME Typed, NEW g \in Group
  PROVE  /\ Live(g) \subseteq Nat /\ Session(g) \subseteq Nat
         /\ queue[g] \in Seq(Nat) /\ Len(queue[g]) \in Nat
         /\ DOMAIN queue[g] = 1..Len(queue[g])
         /\ \A i \in DOMAIN queue[g] : queue[g][i] \in Nat
<1>1. Session(g) \subseteq Nat /\ queue[g] \in Seq(Nat)
  BY DEF Typed, Session
<1>2. /\ Len(queue[g]) \in Nat /\ DOMAIN queue[g] = 1..Len(queue[g])
      /\ \A i \in DOMAIN queue[g] : queue[g][i] \in Nat
  BY <1>1, DomainFacts
<1> QED BY <1>1, <1>2 DEF Live, Queued

\* A group is not concerned by what others do, nor by an event just stamped.
GroupKept(h) ==
  /\ Session(h)' = Session(h) /\ queue'[h] = queue[h] /\ through'[h] = through[h]
  /\ started' = started /\ clock' \in Nat /\ clock <= clock'
  /\ admitted \subseteq admitted'
  /\ \A i \in Events' : \/ \E j \in Events : lockQ'[i] = lockQ[j]
                        \/ lockQ'[i].t \in Nat /\ clock < lockQ'[i].t
                        \/ lockQ'[i].g # h

LEMMA GroupFrame ==
  ASSUME Typed, Ordered, NEW h \in Group, GroupKept(h)
  PROVE  GroupOrder(h)'
<1> USE DEF GroupKept
<1>1. Live(h)' = Live(h) /\ Queued(h)' = Queued(h)
  BY DEF Live, Queued
<1>2. GroupOrder(h)
  BY DEF Ordered
<1>3. \A t \in Live(h) : t \in Nat /\ t <= clock
  <2>1. \A t \in Live(h) : t \in Nat /\ [t |-> t, g |-> h] \in admitted
    BY <1>2, LiveNat DEF GroupOrder
  <2> QED BY <2>1 DEF Ordered, LockOrder
<1>4. clock \in Nat /\ through[h] \in Nat /\ through[h] <= clock
  BY <1>2 DEF Typed, GroupOrder
<1>5. ASSUME NEW i \in Events', lockQ'[i].g = h
      PROVE  through[h] < lockQ'[i].t /\ \A t \in Live(h) : t < lockQ'[i].t
  <2>1. CASE \E j \in Events : lockQ'[i] = lockQ[j]
    BY <2>1, <1>2, <1>5 DEF GroupOrder
  <2>2. CASE lockQ'[i].t \in Nat /\ clock < lockQ'[i].t
    BY <2>2, <1>3, <1>4
  <2> QED BY <1>5, <2>1, <2>2
<1>6. /\ through'[h] <= clock'
      /\ \A t \in Live(h)' :
           [t |-> t, g |-> h] \in admitted' /\ started' < t /\ through'[h] < t
  BY <1>1, <1>2, <1>4 DEF GroupOrder
<1>7. /\ \A t \in Session(h)', i \in Queued(h)' : t < queue'[h][i]
      /\ \A i, j \in Queued(h)' : i < j => queue'[h][i] < queue'[h][j]
  BY <1>1, <1>2 DEF GroupOrder
<1>8. \A i \in Events' : lockQ'[i].g = h =>
       through'[h] < lockQ'[i].t /\ \A t \in Live(h)' : t < lockQ'[i].t
  BY <1>1, <1>5
<1> QED BY <1>6, <1>7, <1>8 DEF GroupOrder

LEMMA QueuePut ==
  ASSUME Typed, NEW g \in Group, NEW x \in Nat, queue'[g] = Append(queue[g], x)
  PROVE  /\ queue'[g] \in Seq(Nat) /\ queue'[g] # <<>>
         /\ DOMAIN queue'[g] = 1..Len(queue[g]) + 1
         /\ Len(queue'[g]) = Len(queue[g]) + 1
         /\ \A i \in DOMAIN queue[g] : queue'[g][i] = queue[g][i]
         /\ queue'[g][Len(queue[g]) + 1] = x
         /\ x = Rotate => Queued(g)' = Queued(g)
         /\ x # Rotate => Queued(g)' = Queued(g) \cup {Len(queue[g]) + 1}
<1>1. /\ Len(queue[g]) \in Nat /\ DOMAIN queue[g] = 1..Len(queue[g])
      /\ queue'[g] \in Seq(Nat) /\ queue'[g] # <<>>
      /\ DOMAIN queue'[g] = 1..Len(queue[g]) + 1
      /\ Len(queue'[g]) = Len(queue[g]) + 1
      /\ \A i \in DOMAIN queue[g] : queue'[g][i] = queue[g][i]
      /\ queue'[g][Len(queue[g]) + 1] = x
  <2>1. queue[g] \in Seq(Nat)
    BY LiveNat
  <2> QED BY <2>1, AppendFacts
<1> QED BY <1>1 DEF Queued

LEMMA QueueTake ==
  ASSUME Typed, NEW g \in Group, queue[g] # <<>>, queue'[g] = Tail(queue[g])
  PROVE  /\ queue'[g] \in Seq(Nat) /\ DOMAIN queue'[g] = 1..Len(queue[g]) - 1
         /\ Len(queue[g]) \in Nat \ {0} /\ Len(queue'[g]) = Len(queue[g]) - 1
         /\ 1 \in DOMAIN queue[g] /\ NextItem(g) = queue[g][1] /\ NextItem(g) \in Nat
         /\ \A i \in DOMAIN queue'[g] :
              i \in Nat /\ i > 0 /\ i + 1 \in DOMAIN queue[g] /\ queue'[g][i] = queue[g][i + 1]
         /\ \A i \in Queued(g)' : i + 1 \in Queued(g)
         /\ \A i \in Queued(g) : i = 1 \/ (i - 1 \in Queued(g)' /\ queue[g][i] = queue'[g][i - 1])
<1>1. /\ Len(queue[g]) \in Nat \ {0} /\ DOMAIN queue[g] = 1..Len(queue[g])
      /\ NextItem(g) = queue[g][1] /\ 1 \in DOMAIN queue[g] /\ NextItem(g) \in Nat
      /\ queue'[g] \in Seq(Nat) /\ DOMAIN queue'[g] = 1..Len(queue[g]) - 1
      /\ \A i \in DOMAIN queue'[g] :
            i + 1 \in DOMAIN queue[g] /\ queue'[g][i] = queue[g][i + 1]
  BY LiveNat, TailFacts DEF NextItem
<1>2. Len(queue'[g]) \in Nat /\ DOMAIN queue'[g] = 1..Len(queue'[g])
  BY <1>1, DomainFacts
<1>3. Len(queue'[g]) = Len(queue[g]) - 1
  BY <1>1, <1>2
<1>4. \A i \in DOMAIN queue'[g] : i \in Nat /\ i > 0
  BY <1>1
<1>5. \A i \in Queued(g)' : i + 1 \in Queued(g)
  BY <1>1 DEF Queued
<1>6. \A i \in Queued(g) : i = 1 \/ (i - 1 \in Queued(g)' /\ queue[g][i] = queue'[g][i - 1])
  <2> SUFFICES ASSUME NEW i \in Queued(g), i # 1
               PROVE  i - 1 \in Queued(g)' /\ queue[g][i] = queue'[g][i - 1]
    OBVIOUS
  <2>1. i - 1 \in DOMAIN queue'[g] /\ (i - 1) + 1 = i
    BY <1>1 DEF Queued
  <2>2. queue'[g][i - 1] = queue[g][i]
    BY <2>1, <1>1
  <2> QED BY <2>1, <2>2 DEF Queued
<1> QED BY <1>1, <1>3, <1>4, <1>5, <1>6

\* An event behind all others of its group waits for the lock.
LEMMA StampStep ==
  ASSUME Inv, NEW g \in Group, Stamp(g)
  PROVE  Inv'
<1> USE DEF Inv, Structure, durable, tasks, lockVars, writers, history
<1> DEFINE e == [t |-> clock + 1, g |-> g]
<1>1. /\ lockQ' = Append(lockQ, e) /\ clock' = clock + 1 /\ e \in Event /\ e # Barrier
      /\ UNCHANGED <<queue, batch, written, through, admitted, started>>
      /\ clock \in Nat /\ started \in Nat /\ e.t = clock + 1
  BY DEF Stamp, Typed, Event, Barrier, Rotate
<1> HIDE DEF e
<1>14. /\ clock' = clock + 1 /\ clock \in Nat /\ started \in Nat
       /\ UNCHANGED <<queue, batch, written, through, admitted, started>>
  BY <1>1
<1>2. /\ Len(lockQ) \in Nat /\ DOMAIN lockQ = 1..Len(lockQ)
      /\ lockQ' \in Seq(Event \cup {Barrier}) /\ lockQ' # <<>>
      /\ DOMAIN lockQ' = 1..Len(lockQ) + 1
      /\ \A i \in DOMAIN lockQ : lockQ'[i] = lockQ[i] /\ lockQ[i] \in Event \cup {Barrier}
      /\ lockQ'[Len(lockQ) + 1] = e
      /\ lockQ # <<>> => Head(lockQ') = Head(lockQ)
  BY <1>1, AppendFacts, DomainFacts DEF Typed
<1>3. Events' = Events \cup {Len(lockQ) + 1}
  BY <1>1, <1>2 DEF Events
<1>4. \A i \in Events : i \in Nat /\ i <= Len(lockQ) /\ lockQ'[i] = lockQ[i]
                        /\ lockQ[i].t \in Nat /\ lockQ[i].t <= clock /\ started < lockQ[i].t
  BY <1>2 DEF Events, Ordered, LockOrder, Event
<1>0. \A i \in Events' : i \in Events \/ (i = Len(lockQ) + 1 /\ lockQ'[i].t = clock + 1)
  BY <1>1, <1>2, <1>3
<1>5. \A x \in admitted : x.t \in Nat /\ x.t <= clock
  BY DEF Typed, Ordered, LockOrder, Event
<1>6. LockOrder'
  <2>1. /\ started' <= clock' /\ \A x \in admitted' : x.t <= clock'
    BY <1>14, <1>5 DEF Ordered, LockOrder
  <2>2. \A i \in Events' : started' < lockQ'[i].t /\ lockQ'[i].t <= clock'
    <3> SUFFICES ASSUME NEW i \in Events'
                 PROVE  started' < lockQ'[i].t /\ lockQ'[i].t <= clock'
      OBVIOUS
    <3>1. started <= clock
      BY DEF Ordered, LockOrder
    <3>2. CASE i \in Events
      BY <3>2, <1>14, <1>4
    <3>3. CASE lockQ'[i].t = clock + 1
      BY <3>1, <3>3, <1>1
    <3> QED BY <3>2, <3>3, <1>0
  <2>3. \A i, j \in Events' : i < j => lockQ'[i].t < lockQ'[j].t
    <3> SUFFICES ASSUME NEW i \in Events', NEW j \in Events', i < j
                 PROVE  lockQ'[i].t < lockQ'[j].t
      OBVIOUS
    <3>1. i \in Events
      <4>1. j <= Len(lockQ) + 1 /\ j \in Nat /\ Len(lockQ) + 1 \in Nat
        BY <1>2 DEF Events
      <4>2. i # Len(lockQ) + 1
        BY <4>1
      <4> QED BY <4>2, <1>0
    <3>2. CASE j \in Events
      BY <3>1, <3>2, <1>4 DEF Ordered, LockOrder
    <3>3. CASE lockQ'[j].t = clock + 1
      <4>1. lockQ'[i].t = lockQ[i].t /\ lockQ[i].t \in Nat /\ lockQ[i].t <= clock
        BY <3>1, <1>4
      <4> QED BY <4>1, <3>3, <1>1
    <3> QED BY <3>2, <3>3, <1>0
  <2> QED BY <2>1, <2>2, <2>3 DEF LockOrder
<1>7. \A h \in Group : Session(h)' = Session(h) /\ Empty(h)' = Empty(h)
                        /\ NoRotate(h)' = NoRotate(h)
  BY <1>14 DEF Session, Empty, NoRotate
<1>8. \A i \in Events' : (\E j \in Events : lockQ'[i] = lockQ[j])
                         \/ (lockQ'[i].t \in Nat /\ clock < lockQ'[i].t)
  BY <1>14, <1>4, <1>0
<1>9. \A h \in Group : GroupOrder(h)'
  <2> SUFFICES ASSUME NEW h \in Group PROVE GroupOrder(h)'
    OBVIOUS
  <2>1. clock' \in Nat /\ clock <= clock' /\ admitted \subseteq admitted'
    BY <1>14
  <2>2. /\ Session(h)' = Session(h) /\ queue'[h] = queue[h]
        /\ through'[h] = through[h] /\ started' = started
    BY <1>14, <1>7
  <2>3. Typed /\ Ordered
    OBVIOUS
  <2>4. \A i \in Events' : \/ \E j \in Events : lockQ'[i] = lockQ[j]
                           \/ lockQ'[i].t \in Nat /\ clock < lockQ'[i].t
                           \/ lockQ'[i].g # h
    BY <1>8
  <2>5. GroupKept(h)
    BY <2>1, <2>2, <2>4 DEF GroupKept
  <2> HIDE DEF Inv, Structure
  <2> QED BY <2>3, <2>5, GroupFrame
<1>10. Typed'
  BY <1>1, <1>2 DEF Stamp, Typed
<1>11. Barriers'
  <2>1. \A i \in DOMAIN lockQ' : lockQ'[i] = Barrier => i \in DOMAIN lockQ /\ lockQ[i] = Barrier
    BY <1>1, <1>2
  <2>2. \A i \in DOMAIN lockQ : lockQ[i] = Barrier => i \in DOMAIN lockQ' /\ lockQ'[i] = Barrier
    BY <1>2
  <2> QED BY <1>2, <2>1, <2>2 DEF Stamp, Barriers
<1>12. Phases' /\ Rotates'
  BY <1>7 DEF Stamp, Phases, Rotates, Typed
<1> QED BY <1>6, <1>9, <1>10, <1>11, <1>12 DEF Ordered

\* The event at the head of the lock goes behind what its group holds.
LEMMA PutStep ==
  ASSUME Inv, Put
  PROVE  /\ Inv'
         /\ \A i \in Events' : \E j \in Events : lockQ'[i] = lockQ[j]
         /\ \/ /\ UNCHANGED <<queue, used, admitted>>
               /\ \A h \in Group : Live(h)' = Live(h)
            \/ \E e \in Event :
                 /\ 1 \in Events /\ e = lockQ[1]
                 /\ queue' = [queue EXCEPT ![e.g] = Append(@, e.t)]
                 /\ used' = used + 1 /\ used' <= MaxBytes
                 /\ admitted' = admitted \cup {e} /\ e.t \notin Live(e.g)
                 /\ Live(e.g)' = Live(e.g) \cup {e.t}
                 /\ \A h \in Group \ {e.g} : Live(h)' = Live(h)
<1> USE DEF durable, tasks, lockVars, writers, history
<1>1. Typed /\ Phases /\ Barriers /\ Rotates /\ Ordered
  BY DEF Inv, Structure
<1>0. PICK e \in Event : e = Head(lockQ) /\ e # Barrier
  BY <1>1, TailFacts DEF Put, Typed
<1>2. /\ lockQ # <<>> /\ lockQ' = Tail(lockQ)
      /\ UNCHANGED <<durable, tasks, rotor, pending, batch, written, writer,
                     through, clock, crashes, failures>>
  BY DEF Put
<1>3. /\ e = lockQ[1] /\ 1 \in DOMAIN lockQ /\ e \in Event
      /\ lockQ' \in Seq(Event \cup {Barrier})
      /\ DOMAIN lockQ = 1..Len(lockQ) /\ Len(lockQ) \in Nat \ {0}
      /\ DOMAIN lockQ' = 1..Len(lockQ) - 1
      /\ \A i \in DOMAIN lockQ' : i + 1 \in DOMAIN lockQ /\ lockQ'[i] = lockQ[i + 1]
  BY <1>0, <1>1, <1>2, TailFacts DEF Typed
<1>4. e.t \in Nat \ {0} /\ e.g \in Group /\ e = [t |-> e.t, g |-> e.g] /\ 1 \in Events
  BY <1>0, <1>3 DEF Event, Events
<1>5. \A i \in DOMAIN lockQ : lockQ[i] \in Event \cup {Barrier} /\ i \in Nat
  BY <1>1, DomainFacts DEF Typed
<1>6. \A i \in Events' : /\ i \in Nat /\ i > 0 /\ i + 1 \in Events
                         /\ lockQ'[i] = lockQ[i + 1]
                         /\ lockQ'[i].t \in Nat
  BY <1>3, <1>5 DEF Events, Event
<1>7. \A i \in Events' : e.t < lockQ'[i].t
  <2>1. \A i \in Events : 1 < i => lockQ[1].t < lockQ[i].t
    BY <1>1, <1>4 DEF Ordered, LockOrder
  <2> QED BY <1>3, <1>6, <2>1
<1>8. started < e.t /\ e.t <= clock
  BY <1>1, <1>3, <1>4 DEF Ordered, LockOrder
<1>9. started' = started /\ clock' = clock /\ through' = through /\ clock \in Nat
      /\ batch' = batch /\ written' = written
  BY <1>1, <1>2 DEF Typed
<1>10. \A h \in Group : Session(h)' = Session(h)
  BY <1>9 DEF Session
<1>11. \/ /\ queue' = [queue EXCEPT ![e.g] = Append(@, e.t)]
          /\ used' = used + 1 /\ used' <= MaxBytes
          /\ admitted' = admitted \cup {e}
          /\ producer' = [producer EXCEPT ![e.g] = "idle"]
       \/ /\ UNCHANGED <<queue, used, admitted>>
          /\ producer' = [producer EXCEPT ![e.g] = "paused"]
  BY <1>0 DEF Put, HasRoom
<1>12. LockOrder'
  <2>1. \A x \in admitted' : x.t <= clock
    BY <1>1, <1>8, <1>11 DEF Ordered, LockOrder
  <2>2. \A i \in Events' : started < lockQ'[i].t /\ lockQ'[i].t <= clock
    BY <1>1, <1>6 DEF Ordered, LockOrder
  <2>3. \A i, j \in Events' : i < j => lockQ'[i].t < lockQ'[j].t
    <3> SUFFICES ASSUME NEW i \in Events', NEW j \in Events', i < j
                 PROVE  lockQ'[i].t < lockQ'[j].t
      OBVIOUS
    <3>1. i + 1 \in Events /\ j + 1 \in Events /\ i + 1 < j + 1
          /\ lockQ'[i] = lockQ[i + 1] /\ lockQ'[j] = lockQ[j + 1]
      BY <1>6
    <3> QED BY <1>1, <3>1 DEF Ordered, LockOrder
  <2> QED BY <1>1, <1>9, <2>1, <2>2, <2>3 DEF Ordered, LockOrder
<1>13. ASSUME NEW h \in Group, queue'[h] = queue[h] PROVE GroupOrder(h)'
  <2>1. GroupKept(h)
    BY <1>6, <1>9, <1>10, <1>11, <1>13 DEF GroupKept
  <2> QED BY <1>1, <2>1, GroupFrame
<1>14. rotor \in {"none", "ask", "cancelled"} /\ rotor' = rotor
  BY <1>0, <1>1, <1>2 DEF Barriers, Typed
<1>15. sources /\ main # "down" /\ ~draining
  BY <1>1, <1>2 DEF Phases, Typed
<1>16. Barriers'
  <2>1. \A i \in DOMAIN lockQ' : lockQ'[i] = Barrier =>
           i \in Nat /\ i + 1 \in DOMAIN lockQ /\ lockQ[i + 1] = Barrier
    BY <1>3
  <2>2. \A i, j \in DOMAIN lockQ' : lockQ'[i] = Barrier /\ lockQ'[j] = Barrier => i = j
    <3> SUFFICES ASSUME NEW i \in DOMAIN lockQ', NEW j \in DOMAIN lockQ',
                        lockQ'[i] = Barrier, lockQ'[j] = Barrier
                 PROVE  i = j
      OBVIOUS
    <3>1. i + 1 = j + 1
      BY <1>1, <2>1 DEF Barriers
    <3> QED BY <2>1, <3>1
  <2>3. rotor = "ask" => \E i \in DOMAIN lockQ' : lockQ'[i] = Barrier
    <3> SUFFICES ASSUME rotor = "ask" PROVE \E i \in DOMAIN lockQ' : lockQ'[i] = Barrier
      OBVIOUS
    <3>1. PICK i \in DOMAIN lockQ : lockQ[i] = Barrier
      BY <1>1 DEF Barriers
    <3>2. i # 1
      BY <1>0, <1>3, <3>1
    <3>3. i - 1 \in DOMAIN lockQ' /\ (i - 1) + 1 = i
      BY <1>3, <1>5, <3>2
    <3>4. lockQ'[i - 1] = Barrier
      BY <1>3, <3>1, <3>3
    <3> QED BY <3>3, <3>4
  <2>4. rotor \in {"none", "cancelled"} => \A i \in DOMAIN lockQ' : lockQ'[i] # Barrier
    BY <1>1, <2>1 DEF Barriers
  <2> QED BY <1>14, <2>2, <2>3, <2>4 DEF Barriers
<1>19. \A i \in Events' : \E j \in Events : lockQ'[i] = lockQ[j]
  BY <1>6
<1>17. CASE UNCHANGED <<queue, used, admitted>>
            /\ producer' = [producer EXCEPT ![e.g] = "paused"]
  <2>1. Ordered'
    BY <1>12, <1>13, <1>17 DEF Ordered
  <2>2. \A h \in Group : Empty(h)' = Empty(h) /\ NoRotate(h)' = NoRotate(h)
    BY <1>10, <1>17 DEF Empty, NoRotate
  <2>3. Typed'
    BY <1>1, <1>2, <1>3, <1>4, <1>17 DEF Typed
  <2>4. Phases'
    BY <1>1, <1>2, <1>10, <1>15, <2>2 DEF Phases
  <2>5. Rotates'
    BY <1>1, <1>2, <1>14, <2>2 DEF Rotates
  <2>6. \A h \in Group : Live(h)' = Live(h)
    BY <1>10, <1>17 DEF Live, Queued
  <2> QED BY <1>16, <1>17, <1>19, <2>1, <2>3, <2>4, <2>5, <2>6 DEF Inv, Structure
<1>18. CASE /\ queue' = [queue EXCEPT ![e.g] = Append(@, e.t)]
            /\ used' = used + 1 /\ used' <= MaxBytes
            /\ admitted' = admitted \cup {e}
            /\ producer' = [producer EXCEPT ![e.g] = "idle"]
  <2> DEFINE g == e.g
             n == Len(queue[g])
  <2>1. g \in Group /\ queue'[g] = Append(queue[g], e.t) /\ e.t # Rotate
        /\ \A h \in Group \ {g} : queue'[h] = queue[h]
    BY <1>1, <1>4, <1>18 DEF Typed, Rotate
  <2>2. /\ n \in Nat /\ DOMAIN queue[g] = 1..n /\ queue'[g] \in Seq(Nat)
        /\ DOMAIN queue'[g] = 1..n + 1
        /\ \A i \in DOMAIN queue[g] : queue'[g][i] = queue[g][i] /\ queue[g][i] \in Nat
        /\ queue'[g][n + 1] = e.t
        /\ Queued(g)' = Queued(g) \cup {n + 1}
        /\ Live(g) \subseteq Nat /\ Session(g) \subseteq Nat
    BY <1>1, <1>4, <2>1, QueuePut, LiveNat
  <2> HIDE DEF g, n
  <2>3. \A i \in Queued(g) : i \in DOMAIN queue[g] /\ i \in Nat /\ i <= n
                             /\ queue'[g][i] = queue[g][i] /\ queue[g][i] \in Live(g)
    BY <2>2 DEF Queued, Live
  <2>4. Live(g)' = Live(g) \cup {e.t}
    <3>1. Live(g)' = Session(g) \cup {queue'[g][i] : i \in Queued(g)'}
      BY <1>10, <2>1 DEF Live
    <3>2. {queue'[g][i] : i \in Queued(g)'} = {queue[g][i] : i \in Queued(g)} \cup {e.t}
      BY <2>2, <2>3
    <3> QED BY <3>1, <3>2 DEF Live
  <2>5. GroupOrder(g)
    BY <1>1, <2>1 DEF Ordered
  <2>6. through[g] < e.t /\ \A t \in Live(g) : t < e.t
    BY <1>3, <1>4, <2>5 DEF GroupOrder, g
  <2>7. GroupOrder(g)'
    <3>1. through'[g] <= clock'
      BY <1>9, <2>5 DEF GroupOrder
    <3>2. \A t \in Live(g)' :
            [t |-> t, g |-> g] \in admitted' /\ started' < t /\ through'[g] < t
      BY <1>4, <1>8, <1>9, <1>18, <2>4, <2>5, <2>6 DEF GroupOrder, g
    <3>3. \A t \in Session(g)', i \in Queued(g)' : t < queue'[g][i]
      <4>1. \A t \in Session(g) : t \in Live(g)
        BY DEF Live
      <4> QED BY <1>10, <2>1, <2>2, <2>3, <2>5, <2>6, <4>1 DEF GroupOrder
    <3>4. \A i, j \in Queued(g)' : i < j => queue'[g][i] < queue'[g][j]
      <4> SUFFICES ASSUME NEW i \in Queued(g)', NEW j \in Queued(g)', i < j
                   PROVE  queue'[g][i] < queue'[g][j]
        OBVIOUS
      <4>1. i \in Queued(g)
        BY <2>2, <2>3
      <4>2. CASE j \in Queued(g)
        BY <4>1, <4>2, <2>3, <2>5 DEF GroupOrder
      <4>3. CASE j = n + 1
        BY <4>1, <4>3, <2>2, <2>3, <2>6
      <4> QED BY <4>2, <4>3, <2>2
    <3>5. \A i \in Events' : lockQ'[i].g = g =>
            through'[g] < lockQ'[i].t /\ \A t \in Live(g)' : t < lockQ'[i].t
      BY <1>6, <1>7, <1>9, <2>4, <2>5 DEF GroupOrder
    <3> QED BY <3>1, <3>2, <3>3, <3>4, <3>5 DEF GroupOrder
  <2>8. Ordered'
    BY <1>12, <1>13, <2>1, <2>7 DEF Ordered
  <2>9. \A h \in Group : NoRotate(h) => NoRotate(h)'
    <3>1. NoRotate(g) => NoRotate(g)'
      BY <2>1, <2>2, <1>4 DEF NoRotate
    <3> QED BY <2>1, <3>1 DEF NoRotate
  <2>10. Typed'
    <3>1. queue' \in [Group -> Seq(Nat)]
      BY <1>1, <1>18, <2>1, <2>2 DEF Typed, g
    <3>2. admitted' \subseteq Event
      BY <1>1, <1>3, <1>18 DEF Typed
    <3> QED BY <1>1, <1>2, <1>3, <1>4, <1>18, <3>1, <3>2 DEF Typed
  <2>11. Phases'
    BY <1>1, <1>2, <1>10, <1>15 DEF Phases
  <2>12. Rotates'
    BY <1>1, <1>2, <1>14, <2>9 DEF Rotates
  <2>13. \A h \in Group \ {g} : Live(h)' = Live(h)
    BY <1>10, <2>1 DEF Live, Queued
  <2>14. e.t \notin Live(g)
    BY <1>4, <2>6
  <2>15. \E x \in Event :
           /\ 1 \in Events /\ x = lockQ[1]
           /\ queue' = [queue EXCEPT ![x.g] = Append(@, x.t)]
           /\ used' = used + 1 /\ used' <= MaxBytes
           /\ admitted' = admitted \cup {x} /\ x.t \notin Live(x.g)
           /\ Live(x.g)' = Live(x.g) \cup {x.t}
           /\ \A h \in Group \ {x.g} : Live(h)' = Live(h)
    <3> WITNESS e \in Event
    <3> QED BY <1>3, <1>4, <1>18, <2>4, <2>13, <2>14 DEF g
  <2> QED BY <1>16, <1>19, <2>8, <2>10, <2>11, <2>12, <2>15 DEF Inv, Structure
<1> QED BY <1>11, <1>17, <1>18

\* One item behind everything in every queue.
LEMMA RotateStartsStep ==
  ASSUME Inv, RotateStarts
  PROVE  Inv' /\ \A h \in Group : Live(h)' = Live(h)
<1> USE DEF durable, tasks, lockVars, writers, history
<1>1. Typed /\ Phases /\ Barriers /\ Rotates /\ Ordered
  BY DEF Inv, Structure
<1>2. /\ rotor = "ask" /\ Head(lockQ) = Barrier /\ rotor' = "wait" /\ pending' = Group
      /\ UNCHANGED <<durable, tasks, lockQ, producer, batch, written, writer,
                     through, used, history>>
  BY DEF RotateStarts
<1>3. /\ main \in {"formal", "run"} /\ sources /\ ~draining
      /\ \A h \in Group : NoRotate(h)
  BY <1>1, <1>2 DEF Phases, Rotates
<1>4. lockQ # <<>>
  BY <1>1, <1>2, DomainFacts DEF Barriers, Typed
<1>5. \A h \in Group : Session(h)' = Session(h)
  BY <1>2 DEF Session
<1>6. ASSUME NEW h \in Group
      PROVE  /\ queue'[h] \in Seq(Nat) /\ queue'[h] # <<>>
             /\ \A i \in DOMAIN queue'[h] : queue'[h][i] = Rotate <=> i = Len(queue'[h])
             /\ GroupOrder(h)' /\ Live(h)' = Live(h)
  <2>1. queue'[h] = Append(queue[h], Rotate)
    BY <1>1 DEF RotateStarts, Typed
  <2>2. /\ queue'[h] \in Seq(Nat) /\ queue'[h] # <<>>
        /\ DOMAIN queue'[h] = 1..Len(queue[h]) + 1
        /\ Len(queue'[h]) = Len(queue[h]) + 1
        /\ \A i \in DOMAIN queue[h] : queue'[h][i] = queue[h][i]
        /\ queue'[h][Len(queue[h]) + 1] = Rotate
        /\ Queued(h)' = Queued(h)
    <3>1. Rotate \in Nat
      BY DEF Rotate
    <3> QED BY <1>1, <2>1, <3>1, QueuePut
  <2>3. DOMAIN queue[h] = 1..Len(queue[h]) /\ Len(queue[h]) \in Nat
    BY <1>1, LiveNat
  <2>4. \A i \in DOMAIN queue'[h] : queue'[h][i] = Rotate <=> i = Len(queue'[h])
    BY <1>3, <2>2, <2>3 DEF NoRotate
  <2>5. Live(h)' = Live(h)
    <3>1. \A i \in Queued(h) : queue'[h][i] = queue[h][i]
      BY <2>2 DEF Queued
    <3>2. {queue'[h][i] : i \in Queued(h)'} = {queue[h][i] : i \in Queued(h)}
      BY <2>2, <3>1
    <3> QED BY <1>5, <3>2 DEF Live
  <2>6. \A i \in Queued(h) : queue'[h][i] = queue[h][i]
    BY <2>2 DEF Queued
  <2>7. Events' = Events /\ lockQ' = lockQ
    BY <1>2 DEF Events
  <2>8. GroupOrder(h)
    BY <1>1 DEF Ordered
  <2>9. UNCHANGED <<through, clock, admitted, started>>
    BY <1>2
  <2>10. Session(h)' = Session(h) /\ Queued(h)' = Queued(h)
    BY <1>5, <2>2
  <2>11. GroupOrder(h)'
    BY <2>5, <2>6, <2>7, <2>8, <2>9, <2>10 DEF GroupOrder
  <2> QED BY <2>2, <2>4, <2>5, <2>11
<1>7. LockOrder'
  BY <1>1, <1>2 DEF Ordered, LockOrder, Events
<1>8. Typed'
  <2>1. queue' \in [Group -> Seq(Nat)]
    BY <1>6 DEF RotateStarts
  <2> QED BY <1>1, <1>2, <2>1 DEF Typed
<1>9. Barriers'
  BY <1>1, <1>2, <1>4 DEF Barriers
<1>10. Phases'
  BY <1>1, <1>2, <1>3, <1>5 DEF Phases
<1>11. Rotates'
  BY <1>2, <1>6 DEF Rotates
<1> QED BY <1>6, <1>7, <1>8, <1>9, <1>10, <1>11 DEF Inv, Structure, Ordered

\* The item at the head of a queue goes into the batch.
LEMMA TakeStep ==
  ASSUME Inv, NEW g \in Group, Take(g)
  PROVE  Inv' /\ \A h \in Group : Live(h)' = Live(h)
<1> USE DEF durable, tasks, lockVars, writers, history
<1>1. Typed /\ Phases /\ Barriers /\ Rotates /\ Ordered
  BY DEF Inv, Structure
<1> DEFINE x == NextItem(g)
<1>2. /\ writer[g] = "idle" /\ queue[g] # <<>> /\ x # Rotate
      /\ queue'[g] = Tail(queue[g]) /\ batch'[g] = batch[g] \cup {x}
      /\ \A h \in Group \ {g} : queue'[h] = queue[h] /\ batch'[h] = batch[h]
                               /\ writer'[h] = writer[h]
      /\ writer'[g] \in {"idle", "flush", "finish"}
      /\ UNCHANGED <<durable, tasks, lockVars, producer, written, through, used,
                     history>>
  BY <1>1 DEF Take, HasEvent, Typed
<1>3. /\ queue'[g] \in Seq(Nat) /\ DOMAIN queue'[g] = 1..Len(queue[g]) - 1
      /\ Len(queue[g]) \in Nat \ {0} /\ Len(queue'[g]) = Len(queue[g]) - 1
      /\ 1 \in DOMAIN queue[g] /\ x = queue[g][1] /\ x \in Nat
      /\ \A i \in DOMAIN queue'[g] :
           i \in Nat /\ i > 0 /\ i + 1 \in DOMAIN queue[g] /\ queue'[g][i] = queue[g][i + 1]
      /\ \A i \in Queued(g)' : i + 1 \in Queued(g)
      /\ \A i \in Queued(g) : i = 1 \/ (i - 1 \in Queued(g)' /\ queue[g][i] = queue'[g][i - 1])
  BY <1>1, <1>2, QueueTake
<1>4. PICK y \in Nat : y = x
  BY <1>3
<1>5. Session(g)' = Session(g) \cup {y} /\ Session(g) \subseteq Nat
  BY <1>1, <1>2, <1>4, LiveNat DEF Session
<1>6. /\ \A h \in Group \ {g} : Session(h)' = Session(h)
      /\ \A h \in Group \ {g} : Empty(h)' = Empty(h)
  BY <1>2 DEF Session, Empty
<1>7. y = queue[g][1] /\ 1 \in Queued(g)
  BY <1>2, <1>3, <1>4 DEF Queued
<1> HIDE DEF x
<1>8. \A i \in Queued(g)' : i \in Nat /\ i > 0 /\ i + 1 \in Queued(g)
                           /\ queue'[g][i] = queue[g][i + 1]
  BY <1>3 DEF Queued
<1>9. Live(g)' = Live(g)
  <2>1. {queue'[g][i] : i \in Queued(g)'} \subseteq {queue[g][i] : i \in Queued(g)}
    BY <1>8
  <2>2. {queue[g][i] : i \in Queued(g)} \subseteq {queue'[g][i] : i \in Queued(g)'} \cup {y}
    BY <1>3, <1>7
  <2>3. y \in {queue[g][i] : i \in Queued(g)}
    BY <1>7
  <2> QED BY <1>5, <2>1, <2>2, <2>3 DEF Live
<1>10. GroupOrder(g)
  BY <1>1 DEF Ordered
<1>11. Events' = Events /\ UNCHANGED <<lockQ, through, clock, admitted, started>>
       /\ clock \in Nat
  BY <1>1, <1>2 DEF Events, Typed
<1>12. GroupOrder(g)'
  <2>1. \A t \in Session(g)', i \in Queued(g)' : t < queue'[g][i]
    <3> SUFFICES ASSUME NEW t \in Session(g)', NEW i \in Queued(g)'
                 PROVE  t < queue[g][i + 1]
      BY <1>8
    <3>1. i + 1 \in Queued(g) /\ 1 < i + 1
      BY <1>8
    <3>2. CASE t \in Session(g)
      BY <1>10, <3>1, <3>2 DEF GroupOrder
    <3>3. CASE t = y
      BY <1>7, <1>10, <3>1, <3>3 DEF GroupOrder
    <3> QED BY <1>5, <3>2, <3>3
  <2>2. \A i, j \in Queued(g)' : i < j => queue'[g][i] < queue'[g][j]
    <3> SUFFICES ASSUME NEW i \in Queued(g)', NEW j \in Queued(g)', i < j
                 PROVE  queue[g][i + 1] < queue[g][j + 1]
      BY <1>8
    <3>1. i + 1 \in Queued(g) /\ j + 1 \in Queued(g) /\ i + 1 < j + 1
      BY <1>8
    <3> QED BY <1>10, <3>1 DEF GroupOrder
  <2>3. /\ through'[g] <= clock'
        /\ \A t \in Live(g)' :
             [t |-> t, g |-> g] \in admitted' /\ started' < t /\ through'[g] < t
        /\ \A i \in Events' : lockQ'[i].g = g =>
             through'[g] < lockQ'[i].t /\ \A t \in Live(g)' : t < lockQ'[i].t
    BY <1>9, <1>10, <1>11 DEF GroupOrder
  <2> QED BY <2>1, <2>2, <2>3 DEF GroupOrder
<1>13. \A h \in Group \ {g} : GroupOrder(h)'
  <2> SUFFICES ASSUME NEW h \in Group \ {g} PROVE GroupOrder(h)'
    OBVIOUS
  <2>1. GroupKept(h)
    BY <1>2, <1>6, <1>11 DEF GroupKept
  <2> QED BY <1>1, <2>1, GroupFrame
<1>14. LockOrder'
  BY <1>1, <1>11 DEF Ordered, LockOrder
<1>15. Typed'
  <2>1. /\ queue' \in [Group -> Seq(Nat)] /\ batch' \in [Group -> SUBSET Nat]
        /\ writer' \in [Group -> {"idle", "flush", "finish", "publish", "dead", "done"}]
    BY <1>1, <1>2, <1>3 DEF Take, Typed
  <2> QED BY <1>1, <1>2, <2>1 DEF Typed
<1>16. Barriers'
  BY <1>1, <1>2 DEF Barriers
<1>17. main # "down" /\ Session(g)' # {}
  BY <1>1, <1>2, <1>5 DEF Phases, Empty
<1>18. Phases'
  <2>1. \A h \in Group :
       /\ writer'[h] = "done" => draining' /\ Empty(h)'
       /\ writer'[h] \in {"flush", "finish", "publish"} => Session(h)' # {}
       /\ writer'[h] = "publish" => batch'[h] = {}
    BY <1>1, <1>2, <1>6, <1>17 DEF Phases
  <2> QED BY <1>1, <1>2, <1>17, <2>1 DEF Phases
<1>19. Rotates'
  <2>1. NoRotate(g) => NoRotate(g)'
    BY <1>3 DEF NoRotate
  <2>2. \A h \in Group : NoRotate(h) => NoRotate(h)'
    BY <1>2, <2>1 DEF NoRotate
  <2>3. ASSUME rotor = "wait"
        PROVE  /\ g \in pending /\ queue'[g] # <<>>
               /\ \A i \in DOMAIN queue'[g] : queue'[g][i] = Rotate <=> i = Len(queue'[g])
    <3>1. g \in pending /\ \A i \in DOMAIN queue[g] : queue[g][i] = Rotate <=> i = Len(queue[g])
      BY <1>1, <1>2, <2>3 DEF Rotates, Empty
    <3>2. Len(queue[g]) # 1
      BY <1>2, <1>3, <3>1
    <3>3. queue'[g] # <<>>
      <4> DEFINE n == Len(queue[g])
      <4>1. n \in Nat \ {0} /\ n # 1 /\ DOMAIN queue'[g] = 1..n - 1 /\ queue'[g] \in Seq(Nat)
        BY <1>3, <3>2
      <4> HIDE DEF n
      <4>2. 1 \in DOMAIN queue'[g]
        BY <4>1
      <4> QED BY <4>1, <4>2, DomainFacts
    <3>4. ASSUME NEW i \in DOMAIN queue'[g]
          PROVE  queue'[g][i] = Rotate <=> i = Len(queue'[g])
      <4>1. i \in Nat /\ i + 1 \in DOMAIN queue[g] /\ queue'[g][i] = queue[g][i + 1]
        BY <1>3
      <4>2. queue[g][i + 1] = Rotate <=> i + 1 = Len(queue[g])
        BY <3>1, <4>1
      <4> QED BY <1>3, <4>1, <4>2
    <3> QED BY <3>1, <3>3, <3>4
  <2> QED BY <1>1, <1>2, <1>6, <2>2, <2>3 DEF Rotates
<1>20. \A h \in Group \ {g} : Live(h)' = Live(h)
  BY <1>2, <1>6 DEF Live, Queued
<1> QED BY <1>9, <1>20, <1>12, <1>13, <1>14, <1>15, <1>16, <1>18, <1>19 DEF Inv, Structure, Ordered

\* A session that reaches its inventory moves the watermark behind its events.
LEMMA RecordStep ==
  ASSUME Inv, NEW g \in Group, Record(g)
  PROVE  /\ Inv'
         /\ \A h \in Group : Live(h)' \subseteq Live(h) /\ Live(h) \subseteq Live(h)' \cup recorded'
<1> USE DEF durable, tasks, lockVars, writers, history
<1>1. Typed /\ Phases /\ Barriers /\ Rotates /\ Ordered
  BY DEF Inv, Structure
<1>2. CASE Dies(g) /\ UNCHANGED <<recorded, through, written>>
  <2>1. UNCHANGED <<sealed, lease, gaps, recorded, tasks, lockQ, pending, producer,
                    queue, batch, written, through, admitted, clock, crashes>>
    BY <1>2 DEF Record
  <2>2. failures' \in Nat
    BY <1>1 DEF Record, Typed
  <2>3. UNCHANGED memory
    BY <2>1 DEF memory, tasks
  <2> QED BY <1>2, <2>1, <2>2, <2>3, DeathStep, MemoryFrame
<1>3. CASE /\ recorded' = recorded \cup Session(g)
           /\ through' = [through EXCEPT ![g] = Later(@, NewThrough(g))]
           /\ written' = [written EXCEPT ![g] = {}]
           /\ writer' = [writer EXCEPT ![g] = "idle"]
           /\ UNCHANGED rotor
  <2>1. /\ writer[g] = "publish" /\ batch[g] = {} /\ Session(g) # {}
        /\ UNCHANGED <<sealed, lease, gaps, tasks, lockQ, pending, producer, queue,
                       batch, used, history, rotor>>
    BY <1>1, <1>3 DEF Record, Phases
  <2>2. /\ Session(g)' = {} /\ Session(g) \subseteq Nat
        /\ \A h \in Group \ {g} : Session(h)' = Session(h) /\ through'[h] = through[h]
    BY <1>1, <1>3, <2>1 DEF Session, Typed
  <2>3. \A h \in Group : queue'[h] = queue[h] /\ Queued(h)' = Queued(h)
    BY <2>1 DEF Queued
  <2>4. GroupOrder(g) /\ clock \in Nat
    BY <1>1 DEF Ordered, Typed
  <2>5. \A t \in Session(g) : t \in Live(g) /\ t \in Nat /\ t <= clock
    <3>1. \A t \in Session(g) : t \in Live(g) /\ t \in Nat
      BY <2>2 DEF Live
    <3> QED BY <1>1, <2>4, <3>1 DEF Ordered, LockOrder, GroupOrder
  <2>6. /\ NewThrough(g) \in Session(g) /\ NewThrough(g) \in Nat /\ NewThrough(g) <= clock
    <3>1. \E t \in Session(g) : \A n \in Session(g) : n <= t
      BY <2>1, <2>2, <2>4, <2>5, GreatestNumber
    <3> QED BY <2>5, <3>1 DEF NewThrough
  <2>7. /\ through'[g] \in Nat /\ through'[g] <= clock
        /\ through'[g] = through[g] \/ through'[g] = NewThrough(g)
        /\ through[g] \in Nat
    BY <1>1, <1>3, <2>4, <2>6 DEF Later, Typed, GroupOrder
  <2>8. Live(g)' = {queue[g][i] : i \in Queued(g)} /\ Live(g)' \subseteq Live(g)
    BY <2>2, <2>3 DEF Live
  <2>9. \A t \in Live(g)' : through'[g] < t
    <3>1. \A i \in Queued(g) : NewThrough(g) < queue[g][i]
      BY <2>4, <2>6 DEF GroupOrder
    <3>2. \A t \in Live(g)' : through[g] < t
      BY <2>4, <2>8 DEF GroupOrder
    <3> QED BY <2>7, <2>8, <3>1, <3>2
  <2>10. Events' = Events /\ UNCHANGED <<lockQ, clock, admitted, started>>
    BY <2>1 DEF Events
  <2>11. \A i \in Events' : lockQ'[i].g = g =>
           through'[g] < lockQ'[i].t /\ \A t \in Live(g)' : t < lockQ'[i].t
    <3>1. \A i \in Events : lockQ[i].g = g =>
            through[g] < lockQ[i].t /\ \A t \in Live(g) : t < lockQ[i].t
      BY <2>4 DEF GroupOrder
    <3>2. NewThrough(g) \in Live(g)
      BY <2>5, <2>6
    <3>3. \A i \in Events : lockQ[i].g = g => through'[g] < lockQ[i].t
      BY <2>7, <3>1, <3>2
    <3> QED BY <2>8, <2>10, <3>1, <3>3
  <2>12. GroupOrder(g)'
    <3>1. \A t \in Live(g)' : [t |-> t, g |-> g] \in admitted' /\ started' < t
      BY <2>4, <2>8, <2>10 DEF GroupOrder
    <3>2. \A i, j \in Queued(g)' : i < j => queue'[g][i] < queue'[g][j]
      BY <2>3, <2>4 DEF GroupOrder
    <3> QED BY <2>2, <2>7, <2>9, <2>10, <2>11, <3>1, <3>2 DEF GroupOrder
  <2>13. \A h \in Group \ {g} : GroupOrder(h)'
    <3> SUFFICES ASSUME NEW h \in Group \ {g} PROVE GroupOrder(h)'
      OBVIOUS
    <3>1. GroupKept(h)
      BY <2>2, <2>3, <2>4, <2>10 DEF GroupKept
    <3> QED BY <1>1, <3>1, GroupFrame
  <2>14. LockOrder'
    BY <1>1, <2>10 DEF Ordered, LockOrder
  <2>15. Typed'
    <3>1. through' \in [Group -> Nat] /\ written' \in [Group -> SUBSET Nat]
          /\ writer' \in [Group -> {"idle", "flush", "finish", "publish", "dead", "done"}]
      BY <1>1, <1>3, <2>7 DEF Typed
    <3> QED BY <1>1, <2>1, <3>1 DEF Typed
  <2>16. Barriers'
    BY <1>1, <2>1 DEF Barriers
  <2>17. \A h \in Group : (Empty(h) => Empty(h)') /\ NoRotate(h)' = NoRotate(h)
    BY <2>2, <2>3, <2>1 DEF Empty, NoRotate
  <2>18. Phases'
    <3>1. \A h \in Group :
       /\ writer'[h] = "done" => draining' /\ Empty(h)'
       /\ writer'[h] \in {"flush", "finish", "publish"} => Session(h)' # {}
       /\ writer'[h] = "publish" => batch'[h] = {}
      BY <1>1, <1>3, <2>1, <2>2, <2>17 DEF Phases, Typed
    <3> QED BY <1>1, <2>1, <2>17, <3>1 DEF Phases
  <2>19. Rotates'
    BY <1>1, <2>1, <2>17 DEF Rotates
  <2>20. \A h \in Group \ {g} : Live(h)' = Live(h)
    BY <2>2, <2>3 DEF Live
  <2>21. Live(g) \subseteq Live(g)' \cup recorded'
    BY <1>3, <2>8 DEF Live
  <2> QED BY <2>8, <2>20, <2>21, <2>12, <2>13, <2>14, <2>15, <2>16, <2>18, <2>19
          DEF Inv, Structure, Ordered
<1> QED BY <1>2, <1>3 DEF Record

\* A rotation item is answered when nothing is left before it: the group is empty.
LEMMA ServeRotateStep ==
  ASSUME Inv, NEW g \in Group, ServeRotate(g)
  PROVE  Inv' /\ \A h \in Group : Live(h)' = Live(h)
<1> USE DEF durable, tasks, lockVars, writers, history
<1>1. Typed /\ Phases /\ Barriers /\ Rotates /\ Ordered
  BY DEF Inv, Structure
<1>2. /\ writer[g] = "idle" /\ queue[g] # <<>> /\ NextItem(g) = Rotate
      /\ UNCHANGED <<durable, tasks, lockQ, rotor, producer, batch, written,
                     through, used, history>>
  BY DEF ServeRotate
<1>3. \A h \in Group : Session(h)' = Session(h)
  BY <1>2 DEF Session
<1>4. main # "down"
  BY <1>1, <1>2 DEF Phases, Empty
<1>5. CASE FinishFirst(g) /\ writer' = [writer EXCEPT ![g] = "finish"]
           /\ UNCHANGED <<queue, pending>>
  <2>1. UNCHANGED memory
    BY <1>2, <1>5 DEF memory
  <2>2. \A h \in Group : Empty(h)' = Empty(h) /\ NoRotate(h)' = NoRotate(h)
    BY <2>1, MemoryFrame
  <2>3. Ordered'
    BY <1>1, <2>1, MemoryFrame
  <2>4. Typed'
    BY <1>1, <1>2, <1>5 DEF Typed
  <2>5. Phases'
    BY <1>1, <1>2, <1>3, <1>5, <2>2 DEF Phases, Typed, FinishFirst
  <2>6. Barriers' /\ Rotates'
    BY <1>1, <1>2, <1>5, <2>2 DEF Barriers, Rotates
  <2>7. \A h \in Group : Live(h)' = Live(h)
    BY <2>1, MemoryFrame
  <2> QED BY <2>3, <2>4, <2>5, <2>6, <2>7 DEF Inv, Structure
<1>6. CASE /\ ~FinishFirst(g)
           /\ queue' = [queue EXCEPT ![g] = Tail(@)]
           /\ pending' = Answered(g)
           /\ writer' = [writer EXCEPT ![g] =
                          IF rotor = "cancelled" THEN "dead" ELSE "idle"]
  <2>1. /\ queue'[g] = Tail(queue[g])
        /\ \A h \in Group \ {g} : queue'[h] = queue[h] /\ writer'[h] = writer[h]
        /\ writer'[g] \in {"idle", "dead"} /\ pending' = pending \ {g}
        /\ Session(g) = {}
    BY <1>1, <1>6 DEF Typed, FinishFirst, Answered
  <2>2. /\ queue'[g] \in Seq(Nat) /\ DOMAIN queue'[g] = 1..Len(queue[g]) - 1
        /\ Len(queue[g]) \in Nat \ {0} /\ Len(queue'[g]) = Len(queue[g]) - 1
        /\ 1 \in DOMAIN queue[g] /\ queue[g][1] = Rotate
        /\ \A i \in DOMAIN queue'[g] :
             i \in Nat /\ i > 0 /\ i + 1 \in DOMAIN queue[g] /\ queue'[g][i] = queue[g][i + 1]
        /\ \A i \in Queued(g)' : i + 1 \in Queued(g)
        /\ \A i \in Queued(g) : i = 1 \/ (i - 1 \in Queued(g)' /\ queue[g][i] = queue'[g][i - 1])
    BY <1>1, <1>2, <2>1, QueueTake
  <2>3. \A i \in Queued(g)' : i \in Nat /\ i > 0 /\ i + 1 \in Queued(g)
                             /\ queue'[g][i] = queue[g][i + 1]
    BY <2>2 DEF Queued
  <2>4. Live(g)' = Live(g)
    <3>1. 1 \notin Queued(g)
      BY <2>2 DEF Queued
    <3>2. {queue'[g][i] : i \in Queued(g)'} = {queue[g][i] : i \in Queued(g)}
      <4>1. {queue'[g][i] : i \in Queued(g)'} \subseteq {queue[g][i] : i \in Queued(g)}
        BY <2>3
      <4>2. \A i \in Queued(g) : i - 1 \in Queued(g)' /\ queue[g][i] = queue'[g][i - 1]
        BY <2>2, <3>1
      <4>3. {queue[g][i] : i \in Queued(g)} \subseteq {queue'[g][i] : i \in Queued(g)'}
        BY <4>2
      <4> QED BY <4>1, <4>3
    <3> QED BY <1>3, <3>2 DEF Live
  <2>5. GroupOrder(g)
    BY <1>1 DEF Ordered
  <2>6. Events' = Events /\ UNCHANGED <<lockQ, through, clock, admitted, started>>
        /\ clock \in Nat
    BY <1>1, <1>2 DEF Events, Typed
  <2>7. GroupOrder(g)'
    <3>1. \A t \in Session(g)', i \in Queued(g)' : t < queue'[g][i]
      BY <1>3, <2>1
    <3>2. \A i, j \in Queued(g)' : i < j => queue'[g][i] < queue'[g][j]
      <4> SUFFICES ASSUME NEW i \in Queued(g)', NEW j \in Queued(g)', i < j
                   PROVE  queue[g][i + 1] < queue[g][j + 1]
        BY <2>3
      <4>1. i + 1 \in Queued(g) /\ j + 1 \in Queued(g) /\ i + 1 < j + 1
        BY <2>3
      <4> QED BY <2>5, <4>1 DEF GroupOrder
    <3>3. /\ through'[g] <= clock'
          /\ \A t \in Live(g)' :
               [t |-> t, g |-> g] \in admitted' /\ started' < t /\ through'[g] < t
          /\ \A i \in Events' : lockQ'[i].g = g =>
               through'[g] < lockQ'[i].t /\ \A t \in Live(g)' : t < lockQ'[i].t
      BY <2>4, <2>5, <2>6 DEF GroupOrder
    <3> QED BY <3>1, <3>2, <3>3 DEF GroupOrder
  <2>8. \A h \in Group \ {g} : GroupOrder(h)'
    <3> SUFFICES ASSUME NEW h \in Group \ {g} PROVE GroupOrder(h)'
      OBVIOUS
    <3>1. GroupKept(h)
      BY <1>3, <2>1, <2>6 DEF GroupKept
    <3> QED BY <1>1, <3>1, GroupFrame
  <2>9. LockOrder'
    BY <1>1, <2>6 DEF Ordered, LockOrder
  <2>10. Typed'
    <3>1. queue' \in [Group -> Seq(Nat)]
      BY <1>1, <1>6, <2>1, <2>2 DEF Typed
    <3>2. writer' \in [Group -> {"idle", "flush", "finish", "publish", "dead", "done"}]
      BY <1>1, <1>6 DEF Typed
    <3> QED BY <1>1, <1>2, <2>1, <3>1, <3>2 DEF Typed
  <2>11. Barriers'
    BY <1>1, <1>2 DEF Barriers
  <2>12. \A h \in Group \ {g} : Empty(h)' = Empty(h) /\ NoRotate(h)' = NoRotate(h)
    BY <1>3, <2>1 DEF Empty, NoRotate
  <2>13. Phases'
    <3>1. \A h \in Group :
       /\ writer'[h] = "done" => draining' /\ Empty(h)'
       /\ writer'[h] \in {"flush", "finish", "publish"} => Session(h)' # {}
       /\ writer'[h] = "publish" => batch'[h] = {}
      BY <1>1, <1>2, <1>3, <2>1, <2>12 DEF Phases
    <3> QED BY <1>1, <1>2, <1>4, <3>1 DEF Phases
  <2>14. ASSUME rotor = "wait" PROVE g \in pending /\ Empty(g)'
    <3>1. g \in pending /\ \A i \in DOMAIN queue[g] : queue[g][i] = Rotate <=> i = Len(queue[g])
      BY <1>1, <1>2, <2>14 DEF Rotates, Empty
    <3>2. Len(queue[g]) = 1
      BY <2>2, <3>1
    <3>3. queue'[g] = <<>>
      BY <2>2, <3>2, DomainFacts
    <3> QED BY <1>3, <2>1, <3>1, <3>3 DEF Empty
  <2>15. Rotates'
    <3>1. NoRotate(g) => NoRotate(g)'
      BY <2>2 DEF NoRotate
    <3> QED BY <1>1, <1>2, <1>3, <2>1, <2>12, <2>14, <3>1 DEF Rotates
  <2>16. \A h \in Group \ {g} : Live(h)' = Live(h)
    BY <1>3, <2>1 DEF Live, Queued
  <2> QED BY <2>4, <2>16, <2>7, <2>8, <2>9, <2>10, <2>11, <2>13, <2>15
          DEF Inv, Structure, Ordered
<1> QED BY <1>5, <1>6 DEF ServeRotate

-----------------------------------------------------------------------------
\* A process starts and ends

LEMMA StartStep ==
  ASSUME Inv, Start
  PROVE  Inv'
<1> USE DEF durable, tasks, lockVars, writers, history
<1>1. Typed /\ Phases /\ Barriers /\ Rotates /\ Ordered
  BY DEF Inv, Structure
<1>2. /\ main = "down" /\ main' = "boot" /\ started' = clock /\ sources'
      /\ producer' = [g \in Group |-> "idle"]
      /\ UNCHANGED <<recorded, sealed, midnight, draining, lockVars, writers, history>>
  BY DEF Start
<1>3. midnight = "off" /\ rotor = "none" /\ ~draining /\ lockQ = <<>>
      /\ \A g \in Group : Empty(g)
  BY <1>1, <1>2 DEF Phases
<1>4. Events' = {}
  BY <1>2, <1>3, EmptySeq, LenProperties DEF Events
<1>5. \A g \in Group : Session(g)' = {} /\ Queued(g)' = {} /\ Live(g)' = {} /\ Empty(g)'
                       /\ NoRotate(g)'
  BY <1>2, <1>3, EmptySeq, LenProperties DEF Session, Queued, Live, Empty, NoRotate
<1>6. Typed'
  <2>1. lease' \in [state : {"none", "running", "clean"}, from : Nat]
    BY <1>1, FloorType DEF Start, Later, Typed
  <2>2. gaps' \subseteq [from : Nat, to : Nat]
    BY <1>1, FloorType DEF Start, RecoveryFrom, Later, Typed
  <2> QED BY <1>1, <1>2, <2>1, <2>2 DEF Start, Typed
<1>7. Phases'
  <2>1. lease'.state = "running" /\ UNCHANGED <<batch, writer, rotor, lockQ, midnight, draining>>
    BY <1>2 DEF Start
  <2>2. \A g \in Group : writer[g] \notin {"done", "flush", "finish", "publish"}
    BY <1>1, <1>3 DEF Phases, Empty
  <2> QED BY <1>2, <1>3, <2>1, <2>2 DEF Phases
<1>8. Barriers'
  BY <1>1, <1>2, <1>3 DEF Barriers
<1>9. Rotates'
  BY <1>2, <1>3, <1>5 DEF Rotates
<1>10. LockOrder'
  BY <1>1, <1>2, <1>4 DEF Ordered, LockOrder, Typed
<1>11. \A g \in Group : GroupOrder(g)'
  BY <1>1, <1>2, <1>4, <1>5 DEF Ordered, GroupOrder
<1> QED BY <1>6, <1>7, <1>8, <1>9, <1>10, <1>11 DEF Inv, Structure, Ordered

LEMMA GoneStep ==
  ASSUME Inv, Gone, UNCHANGED <<sealed, gaps>>, crashes' \in Nat, failures' \in Nat,
         lease' \in [state : {"none", "running", "clean"}, from : Nat]
  PROVE  Inv'
<1>1. Typed /\ Phases /\ Barriers /\ Rotates /\ Ordered
  BY DEF Inv, Structure
<1>2. \A S : <<>> \in Seq(S) /\ DOMAIN <<>> = {}
  BY EmptySeq, LenProperties
<1>3. Events' = {}
  BY <1>2 DEF Events, Gone
<1>4. \A g \in Group : Session(g)' = {} /\ Queued(g)' = {} /\ Live(g)' = {} /\ Empty(g)'
                       /\ NoRotate(g)'
  BY <1>2 DEF Gone, Session, Queued, Live, Empty, NoRotate
<1>5. Typed'
  BY <1>1, <1>2 DEF Gone, Typed
<1>6. Phases' /\ Barriers' /\ Rotates'
  BY <1>2, <1>4 DEF Gone, Phases, Barriers, Rotates
<1>7. LockOrder'
  BY <1>1, <1>3 DEF Gone, Ordered, LockOrder
<1>8. \A g \in Group : GroupOrder(g)'
  BY <1>1, <1>3, <1>4 DEF Gone, GroupOrder, Typed
<1> QED BY <1>5, <1>6, <1>7, <1>8 DEF Inv, Structure, Ordered

LEMMA EndStep ==
  ASSUME Inv, Stopped \/ Crash
  PROVE  Inv'
<1>1. Typed
  BY DEF Inv, Structure
<1>2. lease' \in [state : {"none", "running", "clean"}, from : Nat]
  <2>1. Later(Watermark, Floor) \in Nat
    BY <1>1, WatermarkFacts, FloorType DEF Later
  <2> QED BY <1>1, <2>1 DEF Stopped, Crash, durable, Typed
<1>3. Gone /\ UNCHANGED <<sealed, gaps>> /\ crashes' \in Nat /\ failures' \in Nat
  BY <1>1 DEF Stopped, Crash, durable, Typed
<1> QED BY <1>2, <1>3, GoneStep

LEMMA InvStep == Inv /\ [Next]_vars => Inv'
<1> SUFFICES ASSUME Inv, [Next]_vars PROVE Inv'
  OBVIOUS
<1>1. ASSUME NEW g \in Group, WriterStep(g) PROVE Inv'
  BY <1>1, TakeStep, QuietStep, FlushStep, RecordStep, ServeRotateStep DEF WriterStep
<1>2. ASSUME NEW g \in Group, Stamp(g) \/ Resume(g) \/ WriterFails(g) PROVE Inv'
  BY <1>2, StampStep, QuietStep, WriterFailsStep
<1>3. CASE RotateStep
  BY <1>3, RotateStartsStep, RotateEndsStep, StopStep DEF RotateStep
<1>4. CASE Heartbeat \/ Drain
  <2>1. PICK g : g \in Group
    BY GroupAssumption
  <2> QED BY <1>4, <2>1, QuietStep
<1>5. CASE ServiceStep
  BY <1>4, <1>5, StartStep, AskStep, SealStep, StopStep, StopSourcesStep, EndStep DEF ServiceStep
<1>6. CASE StopRequested \/ Crash
  BY <1>6, StopStep, EndStep
<1>7. CASE UNCHANGED vars
  <2>1. UNCHANGED memory /\ Inv
    BY <1>7 DEF memory, vars, durable, tasks, lockVars, writers, history
  <2>2. \A g \in Group : Session(g)' = Session(g) /\ Empty(g)' = Empty(g)
                         /\ NoRotate(g)' = NoRotate(g)
    BY <2>1, MemoryFrame
  <2>3. Ordered'
    BY <2>1, MemoryFrame DEF Inv
  <2>4. Typed'
    BY <1>7 DEF Inv, Structure, Typed, vars, durable, tasks, lockVars, writers, history
  <2>5. Phases' /\ Barriers' /\ Rotates'
    BY <1>7, <2>2 DEF Inv, Structure, Phases, Barriers, Rotates, vars, durable, tasks,
                      lockVars, writers, history
  <2> QED BY <2>3, <2>4, <2>5 DEF Inv, Structure
<1> QED BY <1>1, <1>2, <1>3, <1>4, <1>5, <1>6, <1>7, PutStep DEF Next

LEMMA InvAlways == Spec => []Inv
<1> QED BY InvInit, InvStep, PTL DEF Spec

-----------------------------------------------------------------------------
\* Where events come from and go to in one step

\* The lock lets events of its own or a fresh one wait,
LockFlow ==
  \A i \in Events' : \/ \E j \in Events : lockQ'[i] = lockQ[j]
                     \/ lockQ'[i].t = clock + 1 /\ clock' = clock + 1

\* a group gets its events from the lock,
LiveFlow ==
  \A g \in Group : \A t \in Live(g)' :
    t \in Live(g) \/ \E i \in Events : lockQ[i].g = g /\ lockQ[i].t = t

\* and, unless the process goes, hands them on to the inventory.
Kept ==
  /\ recorded \subseteq recorded'
  /\ \A g \in Group : Live(g) \subseteq Live(g)' \cup recorded'
  /\ \A e \in admitted' \ admitted :
       e.t \in Live(e.g)' /\ \E i \in Events : lockQ[i] = e

Flow == LockFlow /\ LiveFlow /\ Kept /\ admitted \subseteq admitted'

LEMMA StillFlow ==
  ASSUME UNCHANGED <<lockQ, queue, batch, written, admitted, recorded>>
  PROVE  Flow
<1>1. \A g \in Group : Live(g)' = Live(g)
  BY DEF Live, Session, Queued
<1>2. Events' = Events
  BY DEF Events
<1> QED BY <1>1, <1>2 DEF Flow, LockFlow, LiveFlow, Kept

LEMMA LockStepFlow ==
  ASSUME UNCHANGED <<queue, batch, written, admitted, recorded>>,
         \A i \in DOMAIN lockQ' : \/ lockQ'[i] = Barrier
                                  \/ \E j \in DOMAIN lockQ : lockQ'[i] = lockQ[j]
  PROVE  Flow
<1>1. \A g \in Group : Live(g)' = Live(g)
  BY DEF Live, Session, Queued
<1>2. LockFlow
  BY DEF LockFlow, Events
<1> QED BY <1>1, <1>2 DEF Flow, LiveFlow, Kept

LEMMA LockAppend ==
  ASSUME NEW s \in Seq(Event \cup {Barrier}), NEW i \in DOMAIN Append(s, Barrier)
  PROVE  Append(s, Barrier)[i] = Barrier \/ \E j \in DOMAIN s : Append(s, Barrier)[i] = s[j]
<1>1. /\ Len(s) \in Nat /\ DOMAIN s = 1..Len(s)
      /\ DOMAIN Append(s, Barrier) = 1..Len(s) + 1
      /\ \A j \in DOMAIN s : Append(s, Barrier)[j] = s[j]
      /\ Append(s, Barrier)[Len(s) + 1] = Barrier
  BY AppendFacts
<1>2. i \in DOMAIN s \/ i = Len(s) + 1
  BY <1>1
<1> QED BY <1>1, <1>2

LEMMA LockTail ==
  ASSUME NEW s \in Seq(Event \cup {Barrier}), s # <<>>, NEW i \in DOMAIN Tail(s)
  PROVE  \E j \in DOMAIN s : Tail(s)[i] = s[j]
  BY TailFacts

LEMMA RotationFlow ==
  ASSUME Inv, Ready \/ MidnightComes \/ RotateEnds \/ RotateRaises \/ StopRequested
                 \/ WriterFailureSeen \/ StopSources
  PROVE  Flow
<1> USE DEF durable, tasks, lockVars, writers, history
<1>1. lockQ \in Seq(Event \cup {Barrier}) /\ OneBarrier(lockQ)
  BY DEF Inv, Structure, Typed, Barriers, OneBarrier
<1>2. UNCHANGED <<queue, batch, written, admitted, recorded>>
  BY DEF Ready, MidnightComes, RotateEnds, RotateRaises, StopRequested,
         WriterFailureSeen, StopSources, Shutdown
<1>3. rotor \in {"wait", "failed"} => lockQ # <<>> /\ Tail(lockQ) \in Seq(Event \cup {Barrier})
  BY <1>1, TailFacts DEF Inv, Structure, Barriers
<1>4. CASE lockQ' = Append(lockQ, Barrier)
  BY <1>1, <1>2, <1>4, LockAppend, LockStepFlow
<1>5. CASE rotor \in {"wait", "failed"} /\ lockQ' = Tail(lockQ)
  BY <1>1, <1>2, <1>3, <1>5, LockTail, LockStepFlow
<1>6. CASE rotor = "wait" /\ lockQ' = Append(Tail(lockQ), Barrier)
  <2>1. \A i \in DOMAIN lockQ' : \/ lockQ'[i] = Barrier
                                 \/ \E j \in DOMAIN Tail(lockQ) : lockQ'[i] = Tail(lockQ)[j]
    BY <1>3, <1>6, LockAppend
  <2>2. \A j \in DOMAIN Tail(lockQ) : \E k \in DOMAIN lockQ : Tail(lockQ)[j] = lockQ[k]
    BY <1>1, <1>3, <1>6, LockTail
  <2> QED BY <1>2, <2>1, <2>2, LockStepFlow
<1>7. CASE lockQ' = WithoutBarrier
  <2>1. \A i \in DOMAIN WithoutBarrier : \E j \in DOMAIN lockQ : WithoutBarrier[i] = lockQ[j]
    BY <1>1, BarrierLeaves
  <2> QED BY <1>2, <1>7, <2>1, LockStepFlow
<1>8. CASE lockQ' = <<>>
  <2>1. DOMAIN lockQ' = {}
    BY <1>8, EmptySeq, LenProperties
  <2> QED BY <1>2, <2>1, LockStepFlow
<1> QED BY <1>4, <1>5, <1>6, <1>7, <1>8 DEF Ready, MidnightComes, AskRotate, RotateEnds,
        RotateRaises, StopRequested, WriterFailureSeen, StopSources, Shutdown

LEMMA WriterFlow ==
  ASSUME Inv, NEW g \in Group, WriterStep(g) \/ WriterFails(g) \/ Resume(g)
  PROVE  Flow
<1> USE DEF durable, tasks, lockVars, writers, history
<1>1. UNCHANGED <<lockQ, admitted>> /\ Events' = Events
  BY DEF WriterStep, WriterFails, Resume, Take, CutSession, Flush, FinishFlush, Record,
         ServeRotate, ServeStop, Events
<1>2. CASE CutSession(g) \/ ServeStop(g) \/ WriterFails(g) \/ Resume(g)
  BY <1>2, StillFlow DEF CutSession, ServeStop, WriterFails, Resume
<1>3. CASE recorded \subseteq recorded' /\ \A h \in Group :
             Live(h)' \subseteq Live(h) /\ Live(h) \subseteq Live(h)' \cup recorded'
  BY <1>1, <1>3 DEF Flow, LockFlow, LiveFlow, Kept
<1>4. CASE Take(g)
  BY <1>3, <1>4, TakeStep DEF Take
<1>5. CASE ServeRotate(g)
  BY <1>3, <1>5, ServeRotateStep DEF ServeRotate
<1>6. CASE Record(g)
  <2>1. recorded \subseteq recorded'
    BY <1>6 DEF Record
  <2> QED BY <1>3, <1>6, <2>1, RecordStep
<1>7. CASE Flush(g) \/ FinishFlush(g)
  <2>1. /\ written' = [written EXCEPT ![g] = Session(g)]
        /\ batch' = [batch EXCEPT ![g] = {}] /\ UNCHANGED <<queue, recorded>>
    BY <1>7 DEF Flush, FinishFlush, FlushBatch
  <2>2. \A h \in Group : Session(h)' = Session(h)
    BY <2>1 DEF Session, Inv, Structure, Typed
  <2>3. \A h \in Group : Live(h)' = Live(h)
    BY <2>1, <2>2 DEF Live, Queued
  <2> QED BY <1>3, <2>1, <2>3
<1> QED BY <1>2, <1>4, <1>5, <1>6, <1>7 DEF WriterStep

LEMMA StampFlow ==
  ASSUME Inv, NEW g \in Group, Stamp(g)
  PROVE  /\ Flow
         /\ \A i \in DOMAIN lockQ : lockQ'[i] = lockQ[i] /\ i \in DOMAIN lockQ'
         /\ \A i \in DOMAIN lockQ' : \/ i \in DOMAIN lockQ
                                     \/ lockQ'[i] = [t |-> clock + 1, g |-> g]
<1> DEFINE e == [t |-> clock + 1, g |-> g]
<1>1. /\ lockQ' = Append(lockQ, e) /\ clock' = clock + 1 /\ e \in Event
      /\ UNCHANGED <<queue, batch, written, admitted, recorded>>
      /\ e.t = clock + 1
  BY DEF Stamp, Inv, Structure, Typed, Event, durable, writers
<1> HIDE DEF e
<1>2. /\ Len(lockQ) \in Nat /\ DOMAIN lockQ = 1..Len(lockQ)
      /\ DOMAIN lockQ' = 1..Len(lockQ) + 1
      /\ \A i \in DOMAIN lockQ : lockQ'[i] = lockQ[i]
      /\ lockQ'[Len(lockQ) + 1] = e
  BY <1>1, AppendFacts DEF Inv, Structure, Typed
<1>3. \A i \in DOMAIN lockQ' : i \in DOMAIN lockQ \/ lockQ'[i] = e
  BY <1>2
<1>4. clock' = clock + 1
  BY <1>1
<1>5. LockFlow
  <2> SUFFICES ASSUME NEW i \in Events'
               PROVE  \/ \E j \in Events : lockQ'[i] = lockQ[j]
                      \/ lockQ'[i].t = clock + 1
    BY <1>4 DEF LockFlow
  <2>1. CASE i \in DOMAIN lockQ
    BY <1>2, <2>1 DEF Events
  <2>2. CASE lockQ'[i] = e
    BY <2>2, <1>1
  <2> QED BY <1>3, <2>1, <2>2 DEF Events
<1>6. \A h \in Group : Live(h)' = Live(h)
  BY <1>1 DEF Live, Session, Queued
<1>7. \A i \in DOMAIN lockQ : i \in DOMAIN lockQ'
  BY <1>2
<1> QED BY <1>1, <1>2, <1>3, <1>5, <1>6, <1>7 DEF Flow, LiveFlow, Kept, e

LEMMA PutFlow ==
  ASSUME Inv, Put
  PROVE  Flow
<1>1. LockFlow
  BY PutStep DEF LockFlow
<1>2. recorded' = recorded
  BY DEF Put, durable
<1>3. CASE UNCHANGED admitted /\ \A h \in Group : Live(h)' = Live(h)
  BY <1>1, <1>2, <1>3 DEF Flow, LiveFlow, Kept
<1>4. ASSUME NEW e \in Event, 1 \in Events, e = lockQ[1], admitted' = admitted \cup {e},
             Live(e.g)' = Live(e.g) \cup {e.t},
             \A h \in Group \ {e.g} : Live(h)' = Live(h)
      PROVE  Flow
  <2>1. LiveFlow
    BY <1>4 DEF LiveFlow
  <2>2. Kept
    BY <1>2, <1>4 DEF Kept
  <2> QED BY <1>1, <1>4, <2>1, <2>2 DEF Flow
<1> QED BY <1>3, <1>4, PutStep

\* Every step but the end of the process is one of Flow.
LEMMA FlowStep ==
  ASSUME Inv, [Next]_vars
  PROVE  Flow \/ Stopped \/ Crash
<1> USE DEF durable, tasks, lockVars, writers, history
<1>1. CASE RotateStarts
  BY <1>1, RotateStartsStep DEF RotateStarts, Flow, LockFlow, LiveFlow, Kept, Events
<1>2. CASE Start \/ Seal \/ Drain \/ Heartbeat
  BY <1>2, StillFlow DEF Start, Seal, Drain, Heartbeat
<1>3. CASE UNCHANGED vars
  BY <1>3, StillFlow DEF vars
<1> QED BY <1>1, <1>2, <1>3, StampFlow, PutFlow, WriterFlow, RotationFlow
        DEF Next, RotateStep, ServiceStep

-----------------------------------------------------------------------------
\* The byte budget

InQueue(g) == {queue[g][i] : i \in Queued(g)}
Waiting(g) == batch[g] \cup InQueue(g)
Of(g, B)   == {[t |-> t, g |-> g] : t \in B}
InBatch(g) == Of(g, batch[g])

LEMMA HeldWaits ==
  ASSUME Typed
  PROVE  /\ Held = {e \in admitted : e.t \in Waiting(e.g)}
         /\ \A e \in admitted : e.g \in Group /\ e.t \in Nat \ {0} /\ e = [t |-> e.t, g |-> e.g]
<1>1. \A e \in admitted : e.g \in Group /\ e.t \in Nat \ {0} /\ e = [t |-> e.t, g |-> e.g]
  BY DEF Typed, Event
<1>2. \A e \in admitted : (\E i \in DOMAIN queue[e.g] : queue[e.g][i] = e.t) <=> e.t \in InQueue(e.g)
  BY <1>1 DEF InQueue, Queued, Rotate
<1> QED BY <1>1, <1>2 DEF Held, Waiting

LEMMA HeldWaitsNext ==
  ASSUME Typed'
  PROVE  Held' = {e \in admitted' : e.t \in Waiting(e.g)'}
<1>1. \A e \in admitted' : e.g \in Group /\ e.t \in Nat \ {0}
  BY DEF Typed, Event
<1>2. \A e \in admitted' :
        (\E i \in DOMAIN queue'[e.g] : queue'[e.g][i] = e.t) <=> e.t \in InQueue(e.g)'
  BY <1>1 DEF InQueue, Queued, Rotate
<1> QED BY <1>1, <1>2 DEF Held, Waiting

LEMMA BatchSize ==
  ASSUME NEW g, NEW B, NEW H, IsFiniteSet(H), Of(g, B) \subseteq H
  PROVE  /\ Cardinality(H \ Of(g, B)) = Cardinality(H) - Cardinality(B)
         /\ IsFiniteSet(H \ Of(g, B))
         /\ Cardinality(B) \in Nat
<1> DEFINE P == {[t |-> t, g |-> g] : t \in B}
           f == [e \in P |-> e.t]
<1>1. IsFiniteSet(P)
  BY FS_Subset DEF Of
<1>2. f \in [P -> B]
  OBVIOUS
<1>3. \A a, b \in P : f[a] = f[b] => a = b
  OBVIOUS
<1>4. \A t \in B : \E e \in P : f[e] = t
  <2> SUFFICES ASSUME NEW t \in B PROVE \E e \in P : f[e] = t
    OBVIOUS
  <2>1. [t |-> t, g |-> g] \in P /\ f[[t |-> t, g |-> g]] = t
    OBVIOUS
  <2> QED BY <2>1
<1>5. ExistsBijection(P, B)
  <2> HIDE DEF f, P
  <2>1. f \in Injection(P, B)
    BY <1>2, <1>3 DEF Injection, IsInjective
  <2>2. f \in Surjection(P, B)
    BY <1>2, <1>4 DEF Surjection
  <2> QED BY <2>1, <2>2 DEF ExistsBijection, Bijection
<1>6. IsFiniteSet(B) /\ Cardinality(B) = Cardinality(P)
  <2> HIDE DEF f, P
  <2> QED BY <1>1, <1>5, FS_Bijection
<1>7. H \cap P = P /\ P = Of(g, B)
  BY DEF Of
<1>8. IsFiniteSet(H \ P) /\ Cardinality(H \ P) = Cardinality(H) - Cardinality(P)
  <2> HIDE DEF f, P
  <2> QED BY <1>7, FS_Difference
<1> QED BY <1>6, <1>7, <1>8, FS_CardinalityType

\* The budget counts what is held; what is recorded was accepted.
Budget ==
  /\ IsFiniteSet(Held)
  /\ used = Cardinality(Held)
  /\ used <= MaxBytes
  /\ recorded \subseteq {e.t : e \in admitted}

LEMMA HeldKept ==
  ASSUME Typed, Typed', UNCHANGED <<admitted, recorded, used>>, Budget,
         \A g \in Group : Waiting(g)' = Waiting(g)
  PROVE  Budget'
<1>1. Held' = Held
  <2>1. \A e \in admitted : e.g \in Group
    BY HeldWaits
  <2> QED BY <2>1, HeldWaits, HeldWaitsNext
<1> QED BY <1>1 DEF Budget

LEMMA FlushBudget ==
  ASSUME Inv, Inv', Budget, NEW g \in Group, Flush(g) \/ FinishFlush(g)
  PROVE  Budget'
<1> USE DEF Inv, Structure, durable, history
<1>1. /\ used' = used - Cardinality(batch[g])
      /\ batch' = [batch EXCEPT ![g] = {}]
      /\ UNCHANGED <<queue, admitted, recorded>>
  BY DEF Flush, FinishFlush, FlushBatch, LeftOver
<1>2. \A h \in Group : InQueue(h)' = InQueue(h)
  BY <1>1 DEF InQueue, Queued
<1>3. Waiting(g)' = InQueue(g) /\ \A h \in Group \ {g} : Waiting(h)' = Waiting(h)
  BY <1>1, <1>2 DEF Waiting, Typed
<1>4. \A t \in batch[g] : t \in Session(g) /\ t \in Live(g) /\ t \in Nat
  BY LiveNat DEF Live, Session
<1>5. InBatch(g) \subseteq Held
  <2>1. \A t \in batch[g] : [t |-> t, g |-> g] \in admitted
    BY <1>4 DEF Ordered, GroupOrder
  <2> QED BY <2>1, HeldWaits DEF InBatch, Of, Waiting
<1>6. \A t \in batch[g] : t \notin InQueue(g)
  <2>1. \A t \in Session(g), i \in Queued(g) : t < queue[g][i]
    BY DEF Ordered, GroupOrder
  <2> QED BY <1>4, <2>1 DEF InQueue
<1>7. Held' = Held \ InBatch(g)
  <2>1. Held' = {e \in admitted : e.t \in Waiting(e.g)'}
    BY <1>1, HeldWaitsNext
  <2>2. \A e \in admitted : e.t \in Waiting(e.g)' <=> e.t \in Waiting(e.g) /\ e \notin InBatch(g)
    <3> SUFFICES ASSUME NEW e \in admitted
                 PROVE  e.t \in Waiting(e.g)' <=> e.t \in Waiting(e.g) /\ e \notin InBatch(g)
      OBVIOUS
    <3>1. e.g \in Group /\ e = [t |-> e.t, g |-> e.g]
      BY HeldWaits
    <3>2. CASE e.g = g
      <4>1. e \in InBatch(g) <=> e.t \in batch[g]
        BY <3>1, <3>2 DEF InBatch, Of
      <4> QED BY <1>3, <1>6, <3>2, <4>1 DEF Waiting
    <3>3. CASE e.g # g
      BY <1>3, <3>1, <3>3 DEF InBatch, Of
    <3> QED BY <3>2, <3>3
  <2> QED BY <2>1, <2>2, HeldWaits
<1>8. /\ IsFiniteSet(Held') /\ Cardinality(Held') = Cardinality(Held) - Cardinality(batch[g])
      /\ Cardinality(batch[g]) \in Nat /\ Cardinality(Held) \in Nat
  <2>1. IsFiniteSet(Held)
    BY DEF Budget
  <2>2. Of(g, batch[g]) \subseteq Held
    BY <1>5 DEF InBatch
  <2>3. Held' = Held \ Of(g, batch[g])
    BY <1>7 DEF InBatch
  <2>4. Cardinality(Held) \in Nat
    BY <2>1, FS_CardinalityType
  <2> HIDE DEF Inv, Structure
  <2> QED BY <2>1, <2>2, <2>3, <2>4, BatchSize
<1> QED BY <1>1, <1>8, LimitAssumption DEF Budget

LEMMA PutBudget ==
  ASSUME Inv, Inv', Budget, Put
  PROVE  Budget'
<1> USE DEF Inv, Structure
<1>1. UNCHANGED <<recorded, batch>>
  BY DEF Put, durable
<1>2. CASE UNCHANGED <<queue, used, admitted>>
  <2>1. \A g \in Group : Waiting(g)' = Waiting(g)
    BY <1>1, <1>2 DEF Waiting, InQueue, Queued
  <2> QED BY <1>1, <1>2, <2>1, HeldKept
<1>3. ASSUME NEW e \in Event, queue' = [queue EXCEPT ![e.g] = Append(@, e.t)],
             used' = used + 1, used' <= MaxBytes,
             admitted' = admitted \cup {e}, e.t \notin Live(e.g)
      PROVE  Budget'
  <2>1. e.g \in Group /\ e.t \in Nat \ {0} /\ e = [t |-> e.t, g |-> e.g]
    BY DEF Event
  <2>2. PICK g \in Group : g = e.g
    BY <2>1
  <2>3. queue'[g] = Append(queue[g], e.t) /\ \A h \in Group \ {g} : queue'[h] = queue[h]
    BY <1>3, <2>2 DEF Typed
  <2>4. InQueue(g)' = InQueue(g) \cup {e.t}
    <3>1. /\ \A i \in DOMAIN queue[g] : queue'[g][i] = queue[g][i]
          /\ queue'[g][Len(queue[g]) + 1] = e.t
          /\ Queued(g)' = Queued(g) \cup {Len(queue[g]) + 1}
      BY <2>1, <2>3, QueuePut DEF Rotate
    <3>2. \A i \in Queued(g) : queue'[g][i] = queue[g][i]
      BY <3>1 DEF Queued
    <3>3. {queue'[g][i] : i \in Queued(g)'} = {queue[g][i] : i \in Queued(g)} \cup {e.t}
      BY <3>1, <3>2
    <3> QED BY <3>3 DEF InQueue
  <2>5. Waiting(g)' = Waiting(g) \cup {e.t} /\ \A h \in Group \ {g} : Waiting(h)' = Waiting(h)
    BY <1>1, <2>3, <2>4 DEF Waiting, InQueue, Queued
  <2>6. e \notin Held
    BY <1>3, HeldWaits DEF Waiting, InQueue, Live, Session
  <2>7. Held' = Held \cup {e}
    <3>1. Held' = {x \in admitted' : x.t \in Waiting(x.g)'}
      BY HeldWaitsNext
    <3>2. \A x \in admitted : x.t \in Waiting(x.g)' <=> x.t \in Waiting(x.g) \/ x = e
      <4> SUFFICES ASSUME NEW x \in admitted
                   PROVE  x.t \in Waiting(x.g)' <=> x.t \in Waiting(x.g) \/ x = e
        OBVIOUS
      <4>1. x.g \in Group /\ x = [t |-> x.t, g |-> x.g]
        BY HeldWaits
      <4>2. x = e <=> x.t = e.t /\ x.g = g
        BY <2>1, <2>2, <4>1
      <4> QED BY <2>5, <4>1, <4>2
    <3>3. e.t \in Waiting(e.g)'
      BY <2>2, <2>5
    <3> QED BY <1>3, <3>1, <3>2, <3>3, HeldWaits
  <2>8. IsFiniteSet(Held') /\ Cardinality(Held') = Cardinality(Held) + 1
    BY <2>6, <2>7, FS_AddElement DEF Budget
  <2> QED BY <1>1, <1>3, <2>8 DEF Budget
<1> QED BY <1>2, <1>3, PutStep

LEMMA TakeBudget ==
  ASSUME Inv, Inv', Budget, NEW g \in Group, Take(g) \/ ServeRotate(g) \/ RotateStarts
  PROVE  Budget'
<1> USE DEF Inv, Structure, durable, history
<1>1. UNCHANGED <<admitted, recorded, used>>
  BY DEF Take, ServeRotate, RotateStarts
<1>2. CASE Take(g) \/ (ServeRotate(g) /\ queue' # queue)
  <2>1. /\ queue[g] # <<>> /\ queue'[g] = Tail(queue[g])
        /\ \A h \in Group \ {g} : queue'[h] = queue[h] /\ batch'[h] = batch[h]
        /\ batch'[g] = IF NextItem(g) = Rotate THEN batch[g] ELSE batch[g] \cup {NextItem(g)}
    BY <1>2 DEF Take, HasEvent, ServeRotate, Typed
  <2>2. /\ NextItem(g) = queue[g][1] /\ 1 \in DOMAIN queue[g]
        /\ \A i \in DOMAIN queue'[g] :
             i \in Nat /\ i > 0 /\ i + 1 \in DOMAIN queue[g] /\ queue'[g][i] = queue[g][i + 1]
        /\ \A i \in Queued(g)' : i + 1 \in Queued(g)
        /\ \A i \in Queued(g) : i = 1 \/ (i - 1 \in Queued(g)' /\ queue[g][i] = queue'[g][i - 1])
    BY <2>1, QueueTake
  <2>3. InQueue(g)' \subseteq InQueue(g)
    <3>1. \A i \in Queued(g)' : i + 1 \in Queued(g) /\ queue'[g][i] = queue[g][i + 1]
      BY <2>2 DEF Queued
    <3> QED BY <3>1 DEF InQueue
  <2>4. InQueue(g) \subseteq InQueue(g)' \cup {NextItem(g)}
    BY <2>2 DEF InQueue
  <2>5. NextItem(g) \in InQueue(g) <=> NextItem(g) # Rotate
    BY <2>2 DEF InQueue, Queued
  <2>6. Waiting(g)' = Waiting(g)
    BY <2>1, <2>3, <2>4, <2>5 DEF Waiting
  <2>7. \A h \in Group : Waiting(h)' = Waiting(h)
    <3>1. \A h \in Group \ {g} : Waiting(h)' = Waiting(h)
      BY <2>1 DEF Waiting, InQueue, Queued
    <3> QED BY <2>6, <3>1
  <2> QED BY <1>1, <2>7, HeldKept
<1>3. CASE ServeRotate(g) /\ queue' = queue
  <2>1. batch' = batch
    BY <1>3 DEF ServeRotate
  <2>2. \A h \in Group : Waiting(h)' = Waiting(h)
    BY <1>3, <2>1 DEF Waiting, InQueue, Queued
  <2> QED BY <1>1, <2>2, HeldKept
<1>4. CASE RotateStarts
  <2> SUFFICES ASSUME NEW h \in Group PROVE Waiting(h)' = Waiting(h)
    BY <1>1, HeldKept
  <2>1. queue'[h] = Append(queue[h], Rotate) /\ Rotate \in Nat
    BY <1>4 DEF RotateStarts, Typed, Rotate
  <2>2. Queued(h)' = Queued(h) /\ \A i \in DOMAIN queue[h] : queue'[h][i] = queue[h][i]
    BY <2>1, QueuePut
  <2>3. \A i \in Queued(h) : queue'[h][i] = queue[h][i]
    BY <2>2 DEF Queued
  <2>4. {queue'[h][i] : i \in Queued(h)'} = {queue[h][i] : i \in Queued(h)}
    BY <2>2, <2>3
  <2>5. batch' = batch
    BY <1>4 DEF RotateStarts
  <2> QED BY <2>4, <2>5 DEF Waiting, InQueue
<1> QED BY <1>2, <1>3, <1>4

LEMMA RecordBudget ==
  ASSUME Inv, Inv', Budget, NEW g \in Group, Record(g)
  PROVE  Budget'
<1> USE DEF Inv, Structure, history
<1>1. UNCHANGED <<admitted, queue, batch, used>>
  BY DEF Record
<1>2. Held' = Held
  BY <1>1 DEF Held
<1>3. recorded' \subseteq recorded \cup Session(g)
  BY DEF Record
<1>4. \A t \in Session(g) : [t |-> t, g |-> g] \in admitted
  BY DEF Ordered, GroupOrder, Live
<1>5. \A t \in Session(g) : t \in {e.t : e \in admitted}
  <2> SUFFICES ASSUME NEW t \in Session(g) PROVE \E e \in admitted : e.t = t
    OBVIOUS
  <2>1. [t |-> t, g |-> g] \in admitted /\ [t |-> t, g |-> g].t = t
    BY <1>4
  <2> QED BY <2>1
<1> QED BY <1>1, <1>2, <1>3, <1>5 DEF Budget

LEMMA GoneBudget ==
  ASSUME Inv', Budget, Stopped \/ Crash
  PROVE  Budget'
<1>1. Gone /\ UNCHANGED <<recorded, admitted>>
  BY DEF Stopped, Crash, Gone, durable
<1>2. \A g \in Group : Waiting(g)' = {}
  BY <1>1, EmptySeq, LenProperties DEF Gone, Waiting, InQueue, Queued
<1>3. Held' = {}
  <2>1. \A e \in admitted' : e.g \in Group
    BY DEF Inv, Structure, Typed, Event
  <2> QED BY <1>2, <2>1, HeldWaitsNext DEF Inv, Structure
<1> QED BY <1>1, <1>3, FS_EmptySet, LimitAssumption DEF Budget, Gone

LEMMA BudgetStep ==
  ASSUME Inv, Inv', Budget, [Next]_vars
  PROVE  Budget'
<1> USE DEF durable, tasks, lockVars, writers, history
<1>1. CASE UNCHANGED <<admitted, recorded, used, queue, batch>>
  <2>1. Held' = Held
    BY <1>1 DEF Held
  <2> QED BY <1>1, <2>1 DEF Budget
<1>2. ASSUME NEW g \in Group, WriterStep(g) PROVE Budget'
  BY <1>1, <1>2, FlushBudget, TakeBudget, RecordBudget
     DEF WriterStep, CutSession, ServeStop
<1>3. ASSUME NEW g \in Group, Stamp(g) \/ Resume(g) \/ WriterFails(g) PROVE Budget'
  BY <1>1, <1>3 DEF Stamp, Resume, WriterFails
<1>4. CASE RotateStarts
  <2>1. PICK g : g \in Group
    BY GroupAssumption
  <2> QED BY <1>4, <2>1, TakeBudget
<1>5. CASE Shutdown
  BY <1>1, <1>5 DEF Shutdown
<1>6. CASE RotateEnds \/ RotateRaises
  BY <1>1, <1>5, <1>6 DEF RotateEnds, RotateRaises
<1>7. CASE ServiceStep
  BY <1>1, <1>5, <1>7, GoneBudget
     DEF ServiceStep, Start, Ready, MidnightComes, Seal, WriterFailureSeen, StopSources, Drain
<1>8. CASE Heartbeat \/ StopRequested \/ Crash
  BY <1>1, <1>5, <1>8, GoneBudget DEF Heartbeat, StopRequested
<1>9. CASE UNCHANGED vars
  BY <1>1, <1>9 DEF vars
<1> QED BY <1>2, <1>3, <1>4, <1>6, <1>7, <1>8, <1>9, PutBudget DEF Next, RotateStep

LEMMA BudgetInit == Init => Budget
<1> SUFFICES ASSUME Init PROVE Budget
  OBVIOUS
<1>1. Held = {}
  BY DEF Held, Init
<1> QED BY <1>1, FS_EmptySet, LimitAssumption DEF Init, Budget

LEMMA BudgetAlways == Spec => []Budget
<1> QED BY InvAlways, BudgetInit, BudgetStep, PTL DEF Spec

\* Every variable keeps its type: the bytes in use stay within the limit
\* (queue.py:73-79) and nothing is in an inventory that put has not accepted.
THEOREM TypeCorrect == Spec => []TypeOK
<1>1. Inv /\ Budget => TypeOK
  <2> SUFFICES ASSUME Inv, Budget PROVE TypeOK
    OBVIOUS
  <2>1. used \in 0..MaxBytes
    BY FS_CardinalityType, LimitAssumption DEF Budget
  <2> QED BY <2>1 DEF Inv, Structure, Typed, Budget, TypeOK
<1> QED BY <1>1, InvAlways, BudgetAlways, PTL

\* The byte budget counts the accepted events that a queue or an unflushed batch
\* holds, after any flush, rotation, failure or restart (queue.py:69-89,
\* writer.py:282-287).
THEOREM BudgetKept == Spec => []BudgetExact
<1>1. Budget => BudgetExact
  BY DEF Budget, BudgetExact
<1> QED BY <1>1, BudgetAlways, PTL

-----------------------------------------------------------------------------
\* Midnight

\* Nothing of the first day is on its way any more.
Late ==
  /\ \A i \in Events : Midnight < lockQ[i].t
  /\ \A g \in Group : \A t \in Live(g) : Midnight < t

\* Before a start-up counts as running, midnight does not pass (LateSeal is
\* FALSE); the first rotation of the midnight boundary stands in the lock behind
\* every event of the first day.
Boundary ==
  /\ main = "boot" /\ Midnight < clock => Midnight < started
  /\ sealed \/ midnight # "off" => Midnight < clock
  /\ sealed \/ midnight \in {"second", "grace"} => Late
  /\ midnight = "first" =>
       \A i \in DOMAIN lockQ, j \in Events :
         i < j /\ lockQ[i] = Barrier => Midnight < lockQ[j].t

LEMMA LateKept ==
  ASSUME Inv, Flow, Late, Midnight < clock
  PROVE  Late'
<1>1. clock \in Nat /\ Midnight \in Nat
  BY LimitAssumption DEF Inv, Structure, Typed
<1>2. \A i \in Events' : Midnight < lockQ'[i].t
  BY <1>1 DEF Flow, LockFlow, Late
<1>3. \A g \in Group : \A t \in Live(g)' : Midnight < t
  BY DEF Flow, LiveFlow, Late
<1> QED BY <1>2, <1>3 DEF Late

LEMMA GoneLate ==
  ASSUME Gone
  PROVE  /\ Late' /\ Events' = {} /\ \A g \in Group : Live(g)' = {}
         /\ midnight' = "off" /\ main' = "down" /\ clock' = clock /\ started' = started
<1>1. Events' = {} /\ \A g \in Group : Live(g)' = {}
  BY EmptySeq, LenProperties DEF Gone, Events, Live, Session, Queued
<1> QED BY <1>1 DEF Late, Gone

\* The steps that matter to neither midnight nor the boundary lock.
LEMMA OtherStep ==
  ASSUME Inv, [Next]_vars, ~Stopped, ~Crash, ~Ready, ~MidnightComes, ~Put,
         ~(RotateEnds /\ midnight = "first"), \A g \in Group : ~Stamp(g)
  PROVE  /\ clock' = clock
         /\ sealed' => sealed \/ midnight = "grace"
         /\ midnight' \in {midnight, "off"} \/ (midnight = "second" /\ midnight' = "grace")
         /\ midnight' = "first" => midnight = "first" /\ lockQ' = lockQ
         /\ main' = "boot" => (main = "boot" /\ started' = started) \/ started' = clock
<1> USE DEF Inv, Structure, durable, tasks, lockVars, writers, history
<1>1. CASE Shutdown
  BY <1>1 DEF Shutdown
<1>2. ASSUME NEW g \in Group, Resume(g) \/ WriterStep(g) \/ WriterFails(g)
      PROVE  UNCHANGED <<clock, sealed, midnight, lockQ, main, started>>
  BY <1>2 DEF Resume, WriterStep, WriterFails, Take, CutSession, Flush, FinishFlush,
              Record, ServeRotate, ServeStop
<1>3. CASE RotateStarts \/ RotateRaises
  BY <1>1, <1>3 DEF RotateStarts, RotateRaises, Phases
<1>4. CASE RotateEnds
  BY <1>4 DEF RotateEnds, Phases
<1>5. CASE Start \/ Seal \/ Drain \/ Heartbeat
  BY <1>5 DEF Start, Seal, Drain, Heartbeat
<1>6. CASE StopSources
  BY <1>6 DEF StopSources, Phases
<1>7. CASE UNCHANGED vars
  BY <1>7 DEF vars
<1> QED BY <1>1, <1>2, <1>3, <1>4, <1>5, <1>6, <1>7
        DEF Next, RotateStep, ServiceStep, WriterFailureSeen, StopRequested

LEMMA StampBoundary ==
  ASSUME Inv, Boundary, ~LateSeal, NEW g \in Group, Stamp(g)
  PROVE  Boundary'
<1>1. /\ clock' = clock + 1 /\ clock \in Nat /\ Midnight \in Nat /\ started \in Nat
      /\ UNCHANGED <<main, started, midnight, sealed>>
      /\ clock = Midnight => main = "run"
  BY LimitAssumption DEF Stamp, tasks, durable, Inv, Structure, Typed
<1>2. main' = "boot" /\ Midnight < clock' => Midnight < started'
  BY <1>1 DEF Boundary
<1>3. sealed' \/ midnight' # "off" => Midnight < clock'
  BY <1>1 DEF Boundary
<1>4. sealed' \/ midnight' \in {"second", "grace"} => Late'
  BY <1>1, StampFlow, LateKept DEF Boundary
<1>5. ASSUME midnight' = "first", NEW i \in DOMAIN lockQ', NEW j \in Events', i < j,
             lockQ'[i] = Barrier
      PROVE  Midnight < lockQ'[j].t
  <2>1. /\ \A k \in DOMAIN lockQ : lockQ'[k] = lockQ[k]
        /\ \A k \in DOMAIN lockQ' : k \in DOMAIN lockQ \/ lockQ'[k] = [t |-> clock + 1, g |-> g]
    BY StampFlow
  <2>2. CASE lockQ'[j] = [t |-> clock + 1, g |-> g]
    BY <1>1, <1>5, <2>2 DEF Boundary
  <2>3. CASE j \in DOMAIN lockQ
    <3>1. i \in DOMAIN lockQ
      <4>1. [t |-> clock + 1, g |-> g] # Barrier
        BY <1>1 DEF Barrier, Rotate
      <4> QED BY <1>5, <2>1, <4>1
    <3>2. j \in Events /\ lockQ'[j] = lockQ[j] /\ lockQ[i] = Barrier
      BY <1>5, <2>1, <2>3, <3>1 DEF Events
    <3> QED BY <1>1, <1>5, <3>1, <3>2 DEF Boundary
  <2>4. j \in DOMAIN lockQ'
    BY <1>5 DEF Events
  <2> QED BY <2>1, <2>2, <2>3, <2>4
<1> QED BY <1>2, <1>3, <1>4, <1>5 DEF Boundary

LEMMA PutBoundary ==
  ASSUME Inv, Boundary, Put
  PROVE  Boundary'
<1>1. /\ clock' = clock /\ UNCHANGED <<main, started, midnight, sealed>>
      /\ lockQ # <<>> /\ lockQ' = Tail(lockQ)
  BY DEF Put, tasks, durable
<1>2. sealed' \/ midnight' \in {"second", "grace"} => Late'
  BY <1>1, PutFlow, LateKept DEF Boundary
<1>3. /\ \A i \in DOMAIN lockQ' : i + 1 \in DOMAIN lockQ /\ lockQ'[i] = lockQ[i + 1]
      /\ DOMAIN lockQ' = 1..Len(lockQ) - 1 /\ Len(lockQ) \in Nat
  BY <1>1, TailFacts DEF Inv, Structure, Typed
<1>4. ASSUME midnight' = "first", NEW i \in DOMAIN lockQ', NEW j \in Events', i < j,
             lockQ'[i] = Barrier
      PROVE  Midnight < lockQ'[j].t
  <2>1. j \in DOMAIN lockQ' /\ lockQ'[j] # Barrier
    BY <1>4 DEF Events
  <2>2. /\ i + 1 \in DOMAIN lockQ /\ lockQ[i + 1] = Barrier
        /\ j + 1 \in Events /\ lockQ'[j] = lockQ[j + 1] /\ i + 1 < j + 1
    BY <1>3, <1>4, <2>1 DEF Events
  <2> QED BY <1>1, <1>4, <2>2 DEF Boundary
<1> QED BY <1>1, <1>2, <1>4 DEF Boundary

LEMMA RotationBoundary ==
  ASSUME Inv, Boundary, Ready \/ MidnightComes \/ (RotateEnds /\ midnight = "first")
  PROVE  Boundary'
<1> USE DEF Inv, Structure
<1>1. Flow
  BY RotationFlow
<1>2. CASE Ready
  <2>1. /\ main = "boot" /\ main' = "formal" /\ sealed' = (sealed \/ clock > Midnight)
        /\ UNCHANGED <<started, midnight, clock>> /\ midnight = "off"
    BY <1>2 DEF Ready, history, Phases
  <2>2. Midnight \in Nat /\ clock \in Nat /\ started \in Nat
    BY LimitAssumption DEF Typed
  <2>3. ASSUME Midnight < started PROVE Late
    <3>1. \A i \in Events : Midnight < lockQ[i].t
      <4>1. \A i \in Events : lockQ[i].t \in Nat /\ started < lockQ[i].t
        BY DomainFacts DEF Events, Typed, Event, Ordered, LockOrder
      <4> QED BY <2>2, <2>3, <4>1
    <3>2. \A g \in Group : \A t \in Live(g) : t \in Nat /\ started < t
      BY LiveNat DEF Ordered, GroupOrder
    <3> QED BY <2>2, <2>3, <3>1, <3>2 DEF Late
  <2>4. sealed' => Late /\ Midnight < clock
    BY <2>1, <2>2, <2>3 DEF Boundary
  <2>5. sealed' => Late'
    BY <1>1, <2>4, LateKept
  <2> QED BY <2>1, <2>4, <2>5 DEF Boundary
<1>3. CASE MidnightComes
  <2>1. /\ main = "run" /\ main' = main /\ clock > Midnight /\ ~sealed /\ sealed' = sealed
        /\ midnight' = "first" /\ lockQ' = Append(lockQ, Barrier) /\ clock' = clock
        /\ clock \in Nat /\ Midnight \in Nat /\ rotor = "none"
    BY <1>3, LimitAssumption DEF MidnightComes, history, durable, AskRotate, Typed, Phases
  <2>2. /\ Len(lockQ) \in Nat /\ DOMAIN lockQ = 1..Len(lockQ)
        /\ DOMAIN lockQ' = 1..Len(lockQ) + 1
        /\ \A i \in DOMAIN lockQ : lockQ'[i] = lockQ[i]
        /\ lockQ'[Len(lockQ) + 1] = Barrier
    BY <2>1, AppendFacts DEF Typed
  <2>3. \A i \in DOMAIN lockQ : lockQ[i] # Barrier
    BY <2>1 DEF Barriers
  <2>4. ASSUME NEW i \in DOMAIN lockQ', lockQ'[i] = Barrier PROVE i = Len(lockQ) + 1
    BY <2>2, <2>3, <2>4
  <2>5. \A i \in DOMAIN lockQ', j \in Events' : ~(i < j /\ lockQ'[i] = Barrier)
    BY <2>2, <2>4 DEF Events
  <2> QED BY <2>1, <2>5 DEF Boundary
<1>4. CASE RotateEnds /\ midnight = "first"
  <2>1. /\ rotor = "wait" /\ pending = {} /\ main = "run" /\ main' = main
        /\ midnight' = "second" /\ sealed' = sealed
        /\ lockQ # <<>> /\ Head(lockQ) = Barrier /\ lockQ' = Append(Tail(lockQ), Barrier)
        /\ UNCHANGED <<queue, batch, written, clock>>
    BY <1>4 DEF RotateEnds, AllAnswered, Phases, Barriers, durable, writers, history
  <2>2. \A g \in Group : Live(g)' = {}
    BY <2>1, EmptySeq, DomainFacts DEF Rotates, Live, Empty, Queued, Session
  <2>3. /\ lockQ[1] = Barrier /\ 1 \in DOMAIN lockQ /\ Tail(lockQ) \in Seq(Event \cup {Barrier})
        /\ Len(lockQ) \in Nat /\ DOMAIN Tail(lockQ) = 1..Len(lockQ) - 1
        /\ \A i \in DOMAIN Tail(lockQ) : i + 1 \in DOMAIN lockQ /\ Tail(lockQ)[i] = lockQ[i + 1]
    BY <2>1, TailFacts DEF Typed
  <2>4. ASSUME NEW i \in Events' PROVE Midnight < lockQ'[i].t
    <3>1. PICK k \in DOMAIN Tail(lockQ) : lockQ'[i] = Tail(lockQ)[k] /\ lockQ'[i] # Barrier
      BY <2>1, <2>3, <2>4, LockAppend DEF Events
    <3>2. k + 1 \in Events /\ lockQ'[i] = lockQ[k + 1] /\ 1 < k + 1
      BY <2>3, <3>1 DEF Events
    <3> QED BY <1>4, <2>3, <3>2 DEF Boundary
  <2>5. Late'
    BY <2>2, <2>4 DEF Late
  <2> QED BY <1>4, <2>1, <2>5 DEF Boundary
<1> QED BY <1>2, <1>3, <1>4

LEMMA BoundaryStep ==
  ASSUME Inv, Boundary, ~LateSeal, [Next]_vars
  PROVE  Boundary'
<1>1. CASE Stopped \/ Crash
  <2>1. Gone /\ sealed' = sealed
    BY <1>1 DEF Stopped, Crash, durable
  <2> QED BY <2>1, GoneLate DEF Boundary
<1>2. CASE \E g \in Group : Stamp(g)
  BY <1>2, StampBoundary
<1>3. CASE Put \/ Ready \/ MidnightComes \/ (RotateEnds /\ midnight = "first")
  BY <1>3, PutBoundary, RotationBoundary
<1>4. CASE ~Stopped /\ ~Crash /\ ~Ready /\ ~MidnightComes /\ ~Put
           /\ ~(RotateEnds /\ midnight = "first") /\ \A g \in Group : ~Stamp(g)
  <2>1. /\ clock' = clock
        /\ sealed' => sealed \/ midnight = "grace"
        /\ midnight' \in {midnight, "off"} \/ (midnight = "second" /\ midnight' = "grace")
        /\ midnight' = "first" => midnight = "first" /\ lockQ' = lockQ
        /\ main' = "boot" => (main = "boot" /\ started' = started) \/ started' = clock
    BY <1>4, OtherStep
  <2>2. sealed' \/ midnight' \in {"second", "grace"} => Late /\ Midnight < clock
    BY <2>1 DEF Boundary
  <2>3. sealed' \/ midnight' \in {"second", "grace"} => Late'
    BY <1>4, <2>2, FlowStep, LateKept
  <2>4. sealed' \/ midnight' # "off" => Midnight < clock'
    BY <2>1 DEF Boundary
  <2>5. midnight' = "first" =>
          \A i \in DOMAIN lockQ', j \in Events' :
            i < j /\ lockQ'[i] = Barrier => Midnight < lockQ'[j].t
    BY <2>1 DEF Boundary, Events
  <2>6. main' = "boot" /\ Midnight < clock' => Midnight < started'
    BY <2>1 DEF Boundary
  <2> QED BY <2>3, <2>4, <2>5, <2>6 DEF Boundary
<1> QED BY <1>1, <1>2, <1>3, <1>4

LEMMA LiveMemory ==
  ASSUME Typed, NEW e \in admitted
  PROVE  /\ InMemory(e) <=> e.t \in Live(e.g)
         /\ e.g \in Group /\ e.t \in Nat \ {0}
<1>1. e.g \in Group /\ e.t \in Nat \ {0}
  BY DEF Typed, Event
<1>2. (\E i \in DOMAIN queue[e.g] : queue[e.g][i] = e.t)
        <=> e.t \in {queue[e.g][i] : i \in Queued(e.g)}
  BY <1>1 DEF Queued, Rotate
<1> QED BY <1>1, <1>2 DEF InMemory, Live

LEMMA BoundaryAlways ==
  ASSUME ~LateSeal
  PROVE  Spec => []Boundary
<1>1. Init => Boundary
  BY LimitAssumption DEF Init, Boundary
<1>2. Inv /\ Boundary /\ [Next]_vars => Boundary'
  BY BoundaryStep
<1> QED BY <1>1, <1>2, InvAlways, PTL DEF Spec

\* A sealed day is complete: no queue and no session holds an event of it
\* (ingest.py:18-24, service.py:293-310), as long as no start-up spans midnight.
THEOREM SealedDayIsDrained ==
  ASSUME ~LateSeal
  PROVE  Spec => []SealedDayDrained
<1>1. Inv /\ Boundary => SealedDayDrained
  <2> SUFFICES ASSUME Inv, Boundary, sealed, NEW e \in admitted, e.t <= Midnight
               PROVE  ~InMemory(e)
    BY DEF SealedDayDrained
  <2>1. Late /\ Midnight \in Nat
    BY LimitAssumption DEF Boundary
  <2> QED BY <2>1, LiveMemory DEF Late, Inv, Structure
<1> QED BY <1>1, InvAlways, BoundaryAlways, PTL

-----------------------------------------------------------------------------
\* The lease

\* While a process runs, whatever a critical group holds or lets wait at the
\* lock was received after the time in the lease.
LeaseInv ==
  /\ lease.from <= clock
  /\ main # "down" => \A g \in Critical :
       /\ \A t \in Live(g) : lease.from <= t
       /\ \A i \in Events : lockQ[i].g = g => lease.from <= lockQ[i].t

\* What start-up, heartbeat, seal and end alone do.
LEMMA ProcessStep ==
  ASSUME Inv, [Next]_vars, ~Start, ~Heartbeat, ~Seal, ~Stopped, ~Crash
  PROVE  /\ lease' = lease /\ started' = started
         /\ main = "down" <=> main' = "down"
         /\ main = "down" => sealed' = sealed
<1> USE DEF Inv, Structure, durable, tasks, lockVars, writers, history
<1>1. CASE Shutdown /\ main = "run"
  BY <1>1 DEF Shutdown
<1>2. ASSUME NEW g \in Group, Stamp(g) \/ Resume(g) \/ WriterStep(g) \/ WriterFails(g)
      PROVE  UNCHANGED <<lease, started, main, sealed>>
  BY <1>2 DEF Stamp, Resume, WriterStep, WriterFails, Take, CutSession, Flush,
              FinishFlush, Record, ServeRotate, ServeStop
<1>3. CASE RotateStarts \/ RotateRaises
  BY <1>1, <1>3 DEF RotateStarts, RotateRaises, Phases
<1>4. CASE RotateEnds
  BY <1>4 DEF RotateEnds, Phases
<1>5. CASE Put \/ Ready \/ MidnightComes \/ Drain \/ StopSources
  BY <1>5 DEF Put, Ready, MidnightComes, Drain, StopSources
<1>6. CASE UNCHANGED vars
  BY <1>6 DEF vars
<1> QED BY <1>1, <1>2, <1>3, <1>4, <1>5, <1>6
        DEF Next, RotateStep, ServiceStep, WriterFailureSeen, StopRequested

LEMMA ClockStep ==
  ASSUME Inv, [Next]_vars
  PROVE  clock \in Nat /\ clock' \in Nat /\ clock <= clock'
<1>1. clock \in Nat /\ clock' \in Nat
  BY InvStep DEF Inv, Structure, Typed
<1>2. CASE Stopped \/ Crash
  BY <1>1, <1>2, GoneLate DEF Stopped, Crash
<1>3. CASE Put \/ Ready \/ MidnightComes \/ RotateEnds
  BY <1>1, <1>3 DEF Put, Ready, MidnightComes, RotateEnds, history
<1>4. ASSUME NEW g \in Group, Stamp(g) PROVE clock <= clock'
  BY <1>1, <1>4 DEF Stamp
<1> QED BY <1>1, <1>2, <1>3, <1>4, OtherStep

\* The watermark is behind whatever a critical group has not recorded.
LEMMA WatermarkBehind ==
  ASSUME Inv
  PROVE  /\ Watermark \in Nat /\ Watermark <= clock
         /\ \A g \in Critical : /\ \A t \in Live(g) : Watermark <= t
                               /\ \A i \in Events : lockQ[i].g = g => Watermark <= lockQ[i].t
<1> USE DEF Inv, Structure
<1>1. Watermark \in Nat /\ (Watermark = started \/ \A g \in Critical : Watermark <= through[g])
  BY WatermarkFacts
<1>2. started \in Nat /\ clock \in Nat /\ started <= clock
      /\ \A g \in Group : through[g] \in Nat /\ through[g] <= clock
  BY DEF Typed, Ordered, LockOrder, GroupOrder
<1>3. Watermark <= clock
  <2>1. PICK g \in Critical : g \in Group
    BY GroupAssumption
  <2> QED BY <1>1, <1>2, <2>1
<1>4. ASSUME NEW g \in Critical, NEW t \in Live(g) PROVE Watermark <= t
  <2>1. g \in Group
    BY GroupAssumption
  <2>2. t \in Nat /\ started < t /\ through[g] < t
    BY <2>1, LiveNat DEF Ordered, GroupOrder
  <2> QED BY <1>1, <1>2, <2>1, <2>2
<1>5. ASSUME NEW g \in Critical, NEW i \in Events, lockQ[i].g = g PROVE Watermark <= lockQ[i].t
  <2>1. g \in Group
    BY GroupAssumption
  <2>2. started < lockQ[i].t /\ through[g] < lockQ[i].t
    BY <1>5, <2>1 DEF Ordered, LockOrder, GroupOrder
  <2>3. lockQ[i].t \in Nat
    BY DomainFacts DEF Events, Typed, Event
  <2> QED BY <1>1, <1>2, <2>1, <2>2, <2>3
<1> QED BY <1>1, <1>3, <1>4, <1>5

\* The floor is behind whatever is on its way after a seal.
LEMMA FloorBehind ==
  ASSUME Inv, Late, Midnight < clock
  PROVE  /\ Midnight + 1 \in Nat /\ Midnight + 1 <= clock
         /\ \A g \in Group : \A t \in Live(g) : Midnight + 1 <= t
         /\ \A i \in Events : Midnight + 1 <= lockQ[i].t
<1> USE DEF Inv, Structure
<1>1. Midnight \in Nat /\ clock \in Nat
  BY LimitAssumption DEF Typed
<1>2. \A g \in Group : \A t \in Live(g) : t \in Nat
  BY LiveNat
<1>3. \A i \in Events : lockQ[i].t \in Nat
  BY DomainFacts DEF Events, Typed, Event
<1> QED BY <1>1, <1>2, <1>3 DEF Late

LEMMA RenewStep ==
  ASSUME Inv, Boundary, LeaseInv, Heartbeat \/ Seal
  PROVE  LeaseInv'
<1>1. /\ RenewLease /\ UNCHANGED <<lockQ, queue, batch, written, clock, main>>
      /\ sealed' => sealed \/ midnight = "grace"
  BY DEF Heartbeat, Seal, tasks, lockVars, writers, history
<1>2. Events' = Events /\ \A g \in Group : Live(g)' = Live(g)
  BY <1>1 DEF Live, Session, Queued, Events
<1>3. lease'.from = Later(Watermark, Floor')
  BY <1>1 DEF RenewLease
<1>4. /\ Watermark \in Nat /\ Watermark <= clock
      /\ \A g \in Critical : /\ \A t \in Live(g) : Watermark <= t
                            /\ \A i \in Events : lockQ[i].g = g => Watermark <= lockQ[i].t
  BY WatermarkBehind
<1>5. CASE sealed'
  <2>1. Floor' = Midnight + 1
    BY <1>5 DEF Floor
  <2>2. Late /\ Midnight < clock
    BY <1>1, <1>5 DEF Boundary
  <2>3. /\ Midnight + 1 \in Nat /\ Midnight + 1 <= clock
        /\ \A g \in Group : \A t \in Live(g) : Midnight + 1 <= t
        /\ \A i \in Events : Midnight + 1 <= lockQ[i].t
    BY <2>2, FloorBehind
  <2>4. lease'.from = Watermark \/ lease'.from = Midnight + 1
    BY <1>3, <2>1 DEF Later
  <2> QED BY <1>1, <1>2, <1>4, <2>3, <2>4, GroupAssumption DEF LeaseInv
<1>6. CASE ~sealed'
  <2>1. lease'.from = Watermark
    <3>1. Floor' = 0
      BY <1>6 DEF Floor
    <3> QED BY <1>3, <1>4, <3>1 DEF Later
  <2> QED BY <1>1, <1>2, <1>4, <2>1, GroupAssumption DEF LeaseInv
<1> QED BY <1>5, <1>6

LEMMA LeaseStep ==
  ASSUME Inv, Boundary, LeaseInv, [Next]_vars
  PROVE  LeaseInv'
<1>1. clock \in Nat /\ clock' \in Nat /\ clock <= clock'
  BY ClockStep
<1>2. lease.from \in Nat
  BY DEF Inv, Structure, Typed
<1>3. CASE Start
  <2>1. /\ lease'.from = Later(clock, Floor) /\ clock' = clock /\ main = "down"
        /\ UNCHANGED <<lockQ, queue, batch, written>>
    BY <1>3 DEF Start, lockVars, writers, history
  <2>2. Events' = {} /\ \A g \in Group : Live(g)' = {}
    BY <2>1, EmptySeq, LenProperties
       DEF Events, Live, Session, Queued, Empty, Inv, Structure, Phases
  <2>3. Later(clock, Floor) <= clock
    BY <1>1, LimitAssumption DEF Later, Floor, Boundary
  <2> QED BY <2>1, <2>2, <2>3, GroupAssumption DEF LeaseInv
<1>4. CASE Stopped \/ Crash
  <2>1. main' = "down" /\ clock' = clock
    BY <1>4, GoneLate DEF Stopped, Crash
  <2>2. Later(Watermark, Floor) <= clock
    <3>1. Watermark \in Nat /\ Watermark <= clock
      BY WatermarkBehind
    <3> QED BY <1>1, <3>1, LimitAssumption DEF Later, Floor, Boundary
  <2>3. lease'.from <= clock
    BY <1>4, <2>2 DEF Stopped, Crash, durable, LeaseInv
  <2> QED BY <2>1, <2>3 DEF LeaseInv
<1>5. CASE ~Start /\ ~Heartbeat /\ ~Seal /\ ~Stopped /\ ~Crash
  <2>1. lease' = lease /\ (main' # "down" => main # "down")
    BY <1>5, ProcessStep
  <2>2. Flow
    BY <1>5, FlowStep
  <2>3. \A g \in Critical : g \in Group
    BY GroupAssumption
  <2>4. ASSUME main' # "down", NEW g \in Critical, NEW t \in Live(g)' PROVE lease.from <= t
    BY <2>1, <2>2, <2>3, <2>4 DEF Flow, LiveFlow, LeaseInv
  <2>5. ASSUME main' # "down", NEW g \in Critical, NEW i \in Events', lockQ'[i].g = g
        PROVE  lease.from <= lockQ'[i].t
    <3>1. CASE \E j \in Events : lockQ'[i] = lockQ[j]
      BY <2>1, <2>5, <3>1 DEF LeaseInv
    <3>2. CASE lockQ'[i].t = clock + 1
      BY <1>1, <1>2, <3>2 DEF LeaseInv
    <3> QED BY <2>2, <3>1, <3>2 DEF Flow, LockFlow
  <2>6. lease.from <= clock'
    BY <1>1, <1>2 DEF LeaseInv
  <2> QED BY <2>1, <2>4, <2>5, <2>6 DEF LeaseInv
<1> QED BY <1>3, <1>4, <1>5, RenewStep

LEMMA LeaseAlways ==
  ASSUME ~LateSeal
  PROVE  Spec => []LeaseInv
<1>1. Init => LeaseInv
  BY DEF Init, LeaseInv
<1>2. Inv /\ Boundary /\ LeaseInv /\ [Next]_vars => LeaseInv'
  BY LeaseStep
<1> QED BY <1>1, <1>2, InvAlways, BoundaryAlways, PTL DEF Spec

-----------------------------------------------------------------------------
\* No loss outside a gap

Covered(t)   == \E gap \in gaps : gap.from <= t /\ (gap.to = 0 \/ t <= gap.to)
Recovered(t) == main = "down" /\ lease.state = "running" /\ RecoveryFrom <= t
Known(e)     == e.t \in recorded \/ e.t \in Live(e.g) \/ Covered(e.t)

\* An accepted event of a critical group is known, or the next boot will open a
\* gap for it; of any group while the process that accepted it runs, and once it
\* has left a clean lease.
SafeInv ==
  /\ \A e \in admitted : e.g \in Critical => Known(e) \/ Recovered(e.t)
  /\ main # "down" \/ lease.state = "clean" =>
       \A e \in admitted : started < e.t => Known(e)

\* A gap stays one: it is closed behind every event accepted so far.
LEMMA GapStep ==
  ASSUME Inv, [Next]_vars, NEW t \in Nat, t <= clock, Covered(t)
  PROVE  Covered(t)'
<1> USE DEF durable, tasks, lockVars, writers, history
<1>1. PICK gap \in gaps : gap.from <= t /\ (gap.to = 0 \/ t <= gap.to)
  BY DEF Covered
<1>2. CASE gaps \subseteq gaps'
  BY <1>1, <1>2 DEF Covered
<1>3. CASE Ready
  <2> DEFINE closed == [gap EXCEPT !.to = IF @ = 0 THEN clock ELSE @]
  <2>1. closed \in gaps'
    BY <1>3 DEF Ready
  <2>2. closed.from = gap.from /\ closed.to = IF gap.to = 0 THEN clock ELSE gap.to
    BY DEF Inv, Structure, Typed
  <2> QED BY <1>1, <2>1, <2>2 DEF Covered
<1>4. ASSUME NEW g \in Group, Stamp(g) \/ Resume(g) \/ WriterStep(g) \/ WriterFails(g)
      PROVE  gaps' = gaps
  BY <1>4 DEF Stamp, Resume, WriterStep, WriterFails, Take, CutSession, Flush,
              FinishFlush, Record, ServeRotate, ServeStop
<1>5. CASE Shutdown
  BY <1>2, <1>5 DEF Shutdown
<1>6. CASE RotateStep
  BY <1>2, <1>5, <1>6 DEF RotateStep, RotateStarts, RotateEnds, RotateRaises
<1>7. CASE Start \/ MidnightComes \/ Seal \/ StopSources \/ Drain \/ Stopped
  BY <1>2, <1>7 DEF Start, MidnightComes, Seal, StopSources, Drain, Stopped
<1>8. CASE Put \/ Heartbeat \/ Crash
  BY <1>2, <1>8 DEF Put, Heartbeat, Crash
<1>9. CASE UNCHANGED vars
  BY <1>2, <1>9 DEF vars
<1> QED BY <1>2, <1>3, <1>4, <1>5, <1>6, <1>7, <1>8, <1>9
        DEF Next, ServiceStep, StopRequested, WriterFailureSeen

LEMMA KnownStep ==
  ASSUME Inv, [Next]_vars, Flow, NEW e \in admitted', e \in admitted => Known(e)
  PROVE  Known(e)'
<1>1. CASE e \in admitted
  <2>1. e.t \in Nat /\ e.t <= clock /\ e.g \in Group
    BY <1>1, LiveMemory DEF Inv, Structure, Ordered, LockOrder
  <2>2. Covered(e.t) => Covered(e.t)'
    BY <2>1, GapStep
  <2> QED BY <1>1, <2>1, <2>2 DEF Known, Flow, Kept
<1>2. CASE e \notin admitted
  BY <1>2 DEF Known, Flow, Kept
<1> QED BY <1>1, <1>2

\* The end of a process: what it held is behind its lease, or nothing is left.
LEMMA GoneSafe ==
  ASSUME Inv, Boundary, LeaseInv, SafeInv, [Next]_vars, Stopped \/ Crash
  PROVE  SafeInv'
<1> USE DEF Inv, Structure
<1>1. /\ Gone /\ UNCHANGED <<recorded, gaps, sealed, admitted, started>> /\ main' = "down"
  BY DEF Stopped, Crash, Gone, durable
<1>2. main # "down" /\ lease.state = "running"
  BY DEF Stopped, Crash, Phases
<1>3. \A t : Covered(t)' = Covered(t)
  BY <1>1 DEF Covered
<1>4. CASE lease' = lease
  <2>1. ASSUME NEW e \in admitted, e.g \in Critical, e.t \in Live(e.g) PROVE Recovered(e.t)'
    <3>1. lease.from \in Nat /\ e.t \in Nat /\ lease.from <= e.t
      BY <1>2, <2>1, LiveMemory DEF LeaseInv, Typed
    <3>2. Floor \in Nat /\ Floor <= e.t
      <4>1. sealed => Late /\ Midnight < clock
        BY DEF Boundary
      <4>2. sealed => Midnight + 1 <= e.t
        BY <2>1, <4>1, FloorBehind, LiveMemory
      <4> QED BY <3>1, <4>2, FloorType DEF Floor
    <3>3. RecoveryFrom' = RecoveryFrom /\ RecoveryFrom <= e.t
      BY <1>1, <1>4, <3>1, <3>2 DEF RecoveryFrom, Later, Floor
    <3> QED BY <1>1, <1>2, <1>4, <3>3 DEF Recovered
  <2>2. \A e \in admitted : e.g \in Critical => Known(e)' \/ Recovered(e.t)'
    BY <1>1, <1>2, <1>3, <2>1 DEF SafeInv, Known, Recovered
  <2>3. main' = "down" /\ lease'.state = "running"
    BY <1>1, <1>2, <1>4
  <2> QED BY <1>1, <2>2, <2>3 DEF SafeInv
<1>5. CASE Stopped /\ MayClean
  <2>1. \A g \in Group : Live(g) = {}
    <3>1. \A g \in Group : Empty(g)
      BY <1>5 DEF MayClean, Phases
    <3> QED BY <3>1, EmptySeq, LenProperties DEF Live, Empty, Queued
  <2>2. \A e \in admitted : Known(e) => Known(e)'
    BY <1>1, <1>3, <2>1, LiveMemory DEF Known
  <2>3. \A e \in admitted : e.g \in Critical => Known(e)
    BY <1>2 DEF SafeInv, Recovered
  <2>4. \A e \in admitted : started < e.t => Known(e)
    BY <1>2 DEF SafeInv
  <2> QED BY <1>1, <2>2, <2>3, <2>4 DEF SafeInv
<1> QED BY <1>4, <1>5 DEF Stopped, Crash, durable

LEMMA StartSafe ==
  ASSUME Inv, SafeInv, [Next]_vars, Flow, Start
  PROVE  SafeInv'
<1>1. /\ main = "down" /\ main' # "down" /\ started' = clock /\ admitted' = admitted
      /\ lease.state = "running" => [from |-> RecoveryFrom, to |-> 0] \in gaps'
      /\ lease'.state # "clean"
  BY DEF Start, history
<1>2. ASSUME NEW e \in admitted, Recovered(e.t) PROVE Known(e)'
  BY <1>1, <1>2 DEF Recovered, Known, Covered
<1>3. \A e \in admitted : Known(e) => Known(e)'
  BY <1>1, KnownStep
<1>4. \A e \in admitted : ~(started' < e.t)
  BY <1>1, LiveMemory DEF Inv, Structure, Typed, Ordered, LockOrder
<1> QED BY <1>1, <1>2, <1>3, <1>4 DEF SafeInv

LEMMA SafeStep ==
  ASSUME Inv, Boundary, LeaseInv, SafeInv, [Next]_vars
  PROVE  SafeInv'
<1>1. CASE Stopped \/ Crash
  BY <1>1, GoneSafe
<1>2. CASE Start
  BY <1>2, FlowStep, StartSafe DEF Start, Stopped, Crash, Inv, Structure, Phases
<1>3. CASE ~Start /\ ~Stopped /\ ~Crash
  <2>1. Flow
    BY <1>3, FlowStep
  <2>2. /\ started' = started /\ (main = "down" <=> main' = "down")
        /\ main = "down" => lease' = lease /\ sealed' = sealed
        /\ lease'.state = "clean" => lease.state = "clean"
    <3>1. CASE Heartbeat \/ Seal
      BY <3>1 DEF Heartbeat, Seal, tasks, RenewLease, Inv, Structure, Phases
    <3>2. CASE ~Heartbeat /\ ~Seal
      BY <1>3, <3>2, ProcessStep
    <3> QED BY <3>1, <3>2
  <2>3. \A t : Recovered(t) => Recovered(t)'
    BY <2>2 DEF Recovered, RecoveryFrom, Floor
  <2>4. \A e \in admitted : Known(e) => Known(e)'
    BY <2>1, KnownStep DEF Flow
  <2>5. \A e \in admitted' : e \notin admitted => Known(e)'
    BY <2>1, KnownStep
  <2> QED BY <2>2, <2>3, <2>4, <2>5 DEF SafeInv
<1> QED BY <1>1, <1>2, <1>3

LEMMA SafeAlways ==
  ASSUME ~LateSeal
  PROVE  Spec => []SafeInv
<1>1. Init => SafeInv
  BY DEF Init, SafeInv
<1>2. Inv /\ Boundary /\ LeaseInv /\ SafeInv /\ [Next]_vars => SafeInv'
  BY SafeStep
<1> QED BY <1>1, <1>2, InvAlways, BoundaryAlways, LeaseAlways, PTL DEF Spec

\* Whatever crashes, failing writers, full queues, stops and midnight seals do, an
\* accepted event of a critical group is in an inventory, still held, or inside a
\* gap that is open, was closed later, or that the next boot opens from the lease
\* (lease.py:20-28, service.py:118-127), as long as no start-up spans midnight.
THEOREM NothingSilentlyLost ==
  ASSUME ~LateSeal
  PROVE  Spec => []NoSilentLoss
<1>1. Inv /\ SafeInv => NoSilentLoss
  <2> SUFFICES ASSUME Inv, SafeInv, NEW e \in admitted, e.g \in Critical
               PROVE  e.t \in recorded \/ InMemory(e) \/ InGap(e.t)
    BY DEF NoSilentLoss
  <2>1. e.t \in Live(e.g) <=> InMemory(e)
    BY LiveMemory DEF Inv, Structure
  <2>2. Covered(e.t) \/ Recovered(e.t) => InGap(e.t)
    BY DEF Covered, Recovered, InGap
  <2> QED BY <2>1, <2>2 DEF SafeInv, Known
<1> QED BY <1>1, InvAlways, SafeAlways, PTL

\* After a clean stop nothing is missing that the next boot would have to cover
\* with a gap (service.py:175-176, writer.py:250-262).
THEOREM CleanLeaseIsDurable ==
  ASSUME ~LateSeal
  PROVE  Spec => []CleanMeansDurable
<1>1. Inv /\ SafeInv => CleanMeansDurable
  <2> SUFFICES ASSUME Inv, SafeInv, lease.state = "clean", NEW e \in admitted,
                      e.g \in Critical \/ started < e.t
               PROVE  e.t \in recorded \/ Covered(e.t)
    BY DEF CleanMeansDurable, Covered
  <2>1. main = "down"
    BY DEF Inv, Structure, Phases
  <2>2. e.t \notin Live(e.g)
    <3>1. e.g \in Group
      BY LiveMemory DEF Inv, Structure
    <3>2. Empty(e.g)
      BY <2>1, <3>1 DEF Inv, Structure, Phases
    <3> QED BY <3>2, EmptySeq, LenProperties DEF Live, Empty, Queued
  <2> QED BY <2>2 DEF SafeInv, Known, Recovered
<1> QED BY <1>1, InvAlways, SafeAlways, PTL
=============================================================================
