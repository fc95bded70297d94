-------------------------- MODULE GapJournalProofs --------------------------
(***************************************************************************)
(* What central reads of a gap in a sealed day is what was lost, for every *)
(* set of gaps, length of a day, grace time and bound of GapJournal.       *)
(*                                                                         *)
(* A gap has its OPEN in each day it has been rolled into: the state file, *)
(* the roll in progress and a close know how far this chain reaches        *)
(* (Chained, Rolling). The midnight loop lists the gaps that have a state  *)
(* file; one without is younger than the day to be sealed, because a loss  *)
(* is noticed within minutes (Listed). So the chain of an open gap reaches *)
(* each sealed day (Told). The chain of a storage gap that a crash left    *)
(* open may end too early: COLLECTOR_STOPPED of the next boot begins where *)
(* it ends and stays open until that gap has ended (Heir, Booting). That   *)
(* no more is told follows from what CLOSEDs there are (Artifacts, Clear). *)
(***************************************************************************)
EXTENDS GapJournal, NumberLemmas

Begun(g)  == lost[g].from # Forever
Active(g) == Begun(g) /\ lost[g].to = Forever
From(g)   == lost[g].from
Until(g)  == lost[g].to

\* The day d has the OPEN with which g continues into it.
Continued(g, d) == Artifact(g, "OPEN", Start(d), FALSE) \in ready

\* g has its OPEN in each day after its first up to the day e.
Chain(g, e) == \A d \in Days : Day(From(g)) < d /\ d <= e => Continued(g, d)

Steps  == {"idle", "close", "open", "file"}
Phases == {"down", "opening", "boot", "stale", "seal", "up"}
Tasks  == {"none", "opened", "open", "closed", "gone"} \cup Closing

Types ==
  /\ now \in Moments
  /\ phase \in Phases
  /\ task \in [Gap -> Tasks]
  /\ observed \in [Gap -> {None} \cup (0..now)]
  /\ file \in [Gap -> {None} \cup (0..now)]
  /\ lost \in [Gap -> [from : 0..Forever, to : 0..Forever]]
  /\ roll \in [Gap \cup {Timer} ->
                 [step : Steps, gap : Gap \cup {Timer}, day : Nat, target : Nat]]
  /\ timer \in [step : {"wait", "roll"}, next : Nat, todo : SUBSET Gap]
  /\ ready \subseteq [gap : Gap, state : {"OPEN", "CLOSED"}, at : 0..now, more : BOOLEAN]
  /\ sealed \subseteq Nat /\ \A s \in sealed : s < Today
  /\ mark \in {None} \cup (0..now)
  /\ stale \subseteq Gap /\ storage \subseteq LossGap
  /\ blurred \subseteq Gap /\ refused \subseteq Gap

\* What the place of a task says of its gap.
Lives(g) ==
  /\ task[g] = "none" <=> ~Begun(g)
  /\ g \in storage => Begun(g)
  /\ ~Begun(g) => Until(g) = Forever
  /\ Begun(g) => From(g) <= now /\ Artifact(g, "OPEN", From(g), FALSE) \in ready
  /\ From(g) <= Until(g)
  /\ Until(g) # Forever => Until(g) <= now
  /\ task[g] \in {"none", "opened", "gone"} => file[g] = None
  /\ task[g] \in {"open"} \cup Closing => file[g] # None
  /\ Active(g) => task[g] \in {"opened", "open", "observed", "closing"}
  /\ task[g] = "opened" =>
       /\ observed[g] \in Moments /\ From(g) <= observed[g]
       /\ \A u \in Moments : u <= observed[g] \/ now <= u
       /\ Until(g) = Forever
       /\ g \in LossGap => observed[g] - Reach <= From(g)
       /\ g \in StopGap => phase = "opening"
  /\ task[g] \in Closing =>
       /\ observed[g] \in Moments /\ From(g) < observed[g]
       /\ Until(g) # Forever => Until(g) <= observed[g]

Life == \A g \in Gap : Lives(g)

\* The state file, a roll and a close know how far the chain of OPENs reaches.
Links(g) ==
  /\ file[g] # None => Day(From(g)) <= Day(file[g]) /\ Chain(g, Day(file[g]))
  /\ task[g] = "closing" => Chain(g, Day(observed[g]))

Chained == \A g \in Gap : Links(g)

Rolled(a, r) ==
  /\ r.step # "idle" /\ r.gap \in Gap
  /\ task[r.gap] \notin {"none", "opened", "gone"}
  /\ Day(From(r.gap)) < r.day /\ r.day <= r.target /\ r.target <= Today
  /\ Chain(r.gap, r.day - 1)
  /\ r.step = "file" => Continued(r.gap, r.day)
  /\ a # Timer => r.gap = a /\ task[a] = "observed" /\ r.target = Day(observed[a])
  /\ a = Timer => timer.step = "roll" /\ r.target = timer.next

Rolling == \A a \in Gap \cup {Timer} : roll[a] # Idle => Rolled(a, roll[a])

\* The midnight loop has a gap on its list, in hand, or rolled.
Listed ==
  timer.step = "roll" =>
    /\ now >= Start(timer.next)
    /\ \A g \in Gap :
         Active(g) => \/ g \in timer.todo
                      \/ roll[Timer].gap = g
                      \/ Chain(g, timer.next - 1)

\* A gap that goes on has its OPEN in each day up to the last sealed one; one that
\* has ended has it in all its days, or COLLECTOR_STOPPED has taken over.
Heir(h, g, d) ==
  /\ Begun(h) /\ task[h] # "opened"
  /\ From(h) <= Start(d) /\ Until(g) <= Until(h)
  /\ task[h] \in Closing => Until(g) <= observed[h]

Tale(g) ==
  /\ Active(g) => \A s \in sealed : Chain(g, s)
  /\ Until(g) # Forever =>
       \A d \in Days : Day(From(g)) < d /\ Start(d) < Until(g) =>
         \/ Continued(g, d)
         \/ g \in storage /\ \E h \in StopGap : Heir(h, g, d)

Told == \A g \in Gap : Tale(g)

\* The boot: which gaps it may find open.
Booting ==
  /\ phase = "down" =>
       /\ mark # None
       /\ \A g \in Gap : task[g] \notin {"opened"} \cup Closing
       /\ \A a \in Gap \cup {Timer} : roll[a] = Idle
       /\ \A g \in storage : Active(g) => mark <= From(g)
  /\ phase # "up" =>
       /\ timer.step = "wait"
       /\ \A g \in storage : task[g] \notin {"opened"} \cup Closing
  /\ phase = "up" => timer.next # 0
  /\ phase \notin {"up", "down"} => mark # None /\ Today <= Day(mark) + 1
  /\ phase = "opening" =>
       \A g \in Gap : task[g] \in {"none", "gone", "closed", "opened", "open"}
                      /\ (task[g] = "opened" => g \in StopGap)
  /\ phase \in {"boot", "stale", "seal"} =>
       \A g \in Gap : Active(g) => g \in stale \/ mark <= From(g)
  /\ phase \in {"stale", "seal"} => \A g \in stale \cap storage : Until(g) # Forever
  /\ phase = "seal" => \A g \in stale : Until(g) # Forever
  /\ phase \in {"opening", "boot"} =>
       \A g \in storage : Active(g) =>
         \E h \in StopGap :
           /\ task[h] \in {"opened", "open"} /\ Active(h)
           /\ \A d \in Days : Day(From(g)) < d /\ (\A s \in sealed : s < d)
                                => From(h) <= Start(d)
  /\ \A g, h \in storage : Active(g) /\ Active(h) => g = h
  /\ \A g, h \in StopGap : task[g] = "opened" /\ task[h] = "opened" => g = h

\* What artifacts there are.
Written(a) ==
  /\ a.state = "OPEN" =>
       \/ a.at = From(a.gap)
       \/ a.at = Start(Day(a.at)) /\ Day(From(a.gap)) < Day(a.at)
  /\ a.state = "CLOSED" /\ a.more => a.at = Start(Day(a.at) + 1) - 1
  /\ a.state = "CLOSED" /\ ~a.more =>
       /\ Until(a.gap) <= a.at
       /\ \/ a.gap \in blurred
          \/ task[a.gap] \in {"removing", "closed"} /\ a.at = Until(a.gap)
  /\ task[a.gap] # "none"

Artifacts == \A a \in ready : Written(a)

\* A gap nothing has interrupted.
Ended(g, t) == \A a \in ready : a.gap = g /\ a.state = "OPEN" => Day(a.at) <= Day(t)

Exact(g) ==
  /\ task[g] \in {"open", "observed", "closing"} => Until(g) = Forever
  /\ task[g] = "closed" => file[g] = None
  /\ task[g] \in {"removing", "closed"} =>
       /\ Until(g) \in Moments /\ From(g) < Until(g)
       /\ Artifact(g, "CLOSED", Until(g), FALSE) \in ready
       /\ Ended(g, Until(g))
  /\ task[g] \in Closing => Ended(g, observed[g])
  /\ task[g] \in Closing \cup {"closed"} => roll[Timer].gap # g

Clear == \A g \in Gap \ blurred : Exact(g)

Inv == /\ Types /\ Life /\ Chained /\ Rolling /\ Listed /\ Told /\ Booting
       /\ Artifacts /\ Clear

-----------------------------------------------------------------------------
\* Numbers, days and instants

LEMMA ConstantFacts ==
  /\ DayLen \in Nat /\ DayLen >= 4 /\ Grace \in Nat /\ Reach \in Nat
  /\ Reach + 2 <= DayLen
  /\ MaxTime \in Nat /\ MaxTime >= 2 /\ Forever \in Nat /\ Forever > MaxTime
  /\ Timer \notin Gap /\ LossGap \cap StopGap = {}
  /\ LossGap \subseteq Gap /\ StopGap \subseteq Gap
<1>1. DayLen >= 4
  BY GapJournalAssumption
<1> QED BY <1>1, GapJournalAssumption DEF Forever, Gap

LEMMA DayFacts ==
  ASSUME NEW t \in Nat
  PROVE  /\ Day(t) \in Nat /\ Start(Day(t)) \in Nat
         /\ Start(Day(t)) <= t /\ t < Start(Day(t)) + DayLen
<1>1. Day(t) \in Nat
  BY GapJournalAssumption DEF Day
<1> QED BY <1>1, GapJournalAssumption DEF Day, Start

LEMMA StartFacts ==
  ASSUME NEW d \in Nat
  PROVE  Start(d) \in Nat /\ Start(d + 1) = Start(d) + DayLen /\ d <= Start(d)
  BY GapJournalAssumption DEF Start

LEMMA StartOrder ==
  ASSUME NEW d \in Nat, NEW e \in Nat, d < e
  PROVE  Start(d) + DayLen <= Start(e)
<1>1. d + 1 <= e
  OBVIOUS
<1> QED BY <1>1, GapJournalAssumption DEF Start

\* A day is the set of its instants.
LEMMA DayOf ==
  ASSUME NEW t \in Nat, NEW d \in Nat
  PROVE  /\ Start(d) <= t <=> d <= Day(t)
         /\ t < Start(d) <=> Day(t) < d
         /\ Day(t) = d <=> Start(d) <= t /\ t < Start(d) + DayLen
<1>1. /\ Day(t) \in Nat /\ Start(Day(t)) \in Nat /\ Start(d) \in Nat
      /\ Start(Day(t)) <= t /\ t < Start(Day(t)) + DayLen /\ DayLen \in Nat
  BY DayFacts, StartFacts, ConstantFacts
<1>2. Day(t) < d => Start(Day(t)) + DayLen <= Start(d)
  BY <1>1, StartOrder
<1>3. d < Day(t) => Start(d) + DayLen <= Start(Day(t))
  BY <1>1, StartOrder
<1>4. d = Day(t) \/ d < Day(t) \/ Day(t) < d
  BY <1>1
<1> QED BY <1>1, <1>2, <1>3, <1>4

LEMMA DayStart ==
  ASSUME NEW d \in Nat
  PROVE  /\ Day(Start(d)) = d
         /\ d > 0 => Start(d) - 1 \in Nat /\ Day(Start(d) - 1) = d - 1
<1>1. Start(d) \in Nat /\ DayLen \in Nat /\ DayLen >= 4
  BY StartFacts, ConstantFacts
<1>2. Day(Start(d)) = d
  BY <1>1, DayOf
<1>3. ASSUME d > 0 PROVE Start(d) - 1 \in Nat /\ Day(Start(d) - 1) = d - 1
  <2>1. d - 1 \in Nat /\ (d - 1) + 1 = d
    BY <1>3
  <2>2. Start(d) = Start(d - 1) + DayLen /\ Start(d - 1) \in Nat
    BY <2>1, StartFacts
  <2>3. Start(d) - 1 \in Nat /\ Start(d - 1) <= Start(d) - 1
        /\ Start(d) - 1 < Start(d - 1) + DayLen
    BY <2>2, <1>1
  <2> QED BY <2>1, <2>3, DayOf
<1> QED BY <1>2, <1>3

LEMMA DayOrder ==
  ASSUME NEW t \in Nat, NEW u \in Nat, t <= u
  PROVE  Day(t) <= Day(u)
<1>1. Day(t) \in Nat /\ Start(Day(t)) <= t /\ Start(Day(t)) \in Nat
  BY DayFacts
<1>2. Start(Day(t)) <= u
  BY <1>1
<1> QED BY <1>1, <1>2, DayOf

\* Moments are no midnights, nor the instants before.
LEMMA MomentFacts ==
  ASSUME NEW t \in Moments
  PROVE  /\ t \in Nat /\ t <= MaxTime /\ t < Forever
         /\ Day(t) \in Days
         /\ \A d \in Nat : t # Start(d) /\ t # Start(d) - 1
<1>1. t \in Nat /\ t <= MaxTime /\ t < Forever /\ t % 2 = 0 /\ t % DayLen # 0
  BY ConstantFacts DEF Moments
<1>2. Day(t) \in Nat /\ Day(t) <= Day(Forever) /\ Day(Forever) \in Nat
  BY <1>1, DayFacts, DayOrder, ConstantFacts
<1>3. ASSUME NEW d \in Nat PROVE t # Start(d) /\ t # Start(d) - 1
  <2>1. (d * DayLen) % DayLen = 0
    BY ConstantFacts
  <2>2. PICK k \in Nat : DayLen = 2 * k
    <3>1. DayLen = 2 * (DayLen \div 2)
      BY GapJournalAssumption
    <3> QED BY <3>1, ConstantFacts
  <2>3. d * DayLen = 2 * (d * k) /\ d * k \in Nat
    BY <2>2
  <2>4. (2 * (d * k) - 1) % 2 = 1
    BY <2>3
  <2> QED BY <1>1, <2>1, <2>3, <2>4 DEF Start
<1> QED BY <1>1, <1>2, <1>3 DEF Days

\* The moment before a midnight.
LEMMA LastMoment ==
  ASSUME NEW n \in Nat, n > 0, Start(n) <= MaxTime
  PROVE  Start(n) - 2 \in Moments
<1>1. n - 1 \in Nat /\ (n - 1) + 1 = n
  OBVIOUS
<1>2. Start(n) = Start(n - 1) + DayLen /\ Start(n - 1) \in Nat
  BY <1>1, StartFacts
<1> DEFINE t == Start(n) - 2
<1>3. /\ t \in Nat /\ Start(n - 1) < t /\ t < Start(n - 1) + DayLen
      /\ t = Start(n) - 2 /\ t <= MaxTime
  BY <1>2, ConstantFacts
<1> HIDE DEF t
<1>4. Day(t) = n - 1
  <2>1. Start(n - 1) <= t
    BY <1>2, <1>3
  <2> QED BY <1>1, <1>3, <2>1, DayOf
<1>5. t % DayLen # 0
  <2>1. t = DayLen * (t \div DayLen) + (t % DayLen)
    BY <1>3, ConstantFacts
  <2>2. DayLen * (n - 1) = Start(n - 1)
    BY <1>1, ConstantFacts DEF Start
  <2>3. t # DayLen * (n - 1)
    BY <2>2, <1>2, <1>3
  <2> QED BY <2>1, <2>3, <1>4, <1>3, ConstantFacts DEF Day
<1>6. t % 2 = 0
  <2>1. PICK k \in Nat : DayLen = 2 * k
    <3>1. DayLen = 2 * (DayLen \div 2)
      BY GapJournalAssumption
    <3> QED BY <3>1, ConstantFacts
  <2>2. Start(n) = 2 * (n * k) /\ n * k \in Nat
    BY <2>1 DEF Start
  <2>3. PICK m \in Nat : Start(n) = 2 * m
    BY <2>2
  <2>4. t = 2 * m - 2
    BY <2>3, <1>3
  <2> QED BY <2>4, <1>3
<1> QED
  BY <1>3, <1>5, <1>6, ConstantFacts DEF Moments, t

LEMMA TypeFacts ==
  ASSUME Types
  PROVE  /\ now \in Nat /\ now <= MaxTime /\ now < Forever /\ Today \in Nat /\ Today \in Days
         /\ None \notin Nat
         /\ \A g \in Gap :
              /\ From(g) \in Nat /\ From(g) <= Forever /\ Day(From(g)) \in Nat
              /\ Until(g) \in Nat /\ Until(g) <= Forever
              /\ observed[g] # None => observed[g] \in Nat /\ observed[g] <= now
              /\ file[g] # None =>
                   file[g] \in Nat /\ file[g] <= now /\ Day(file[g]) \in Nat
<1>1. now \in Nat /\ now <= MaxTime /\ now < Forever /\ Today \in Nat /\ Today \in Days
  BY MomentFacts, DayFacts DEF Types, Today
<1>2. None \notin Nat
  BY DEF None
<1>3. ASSUME NEW g \in Gap
      PROVE  /\ From(g) \in Nat /\ From(g) <= Forever /\ Day(From(g)) \in Nat
             /\ Until(g) \in Nat /\ Until(g) <= Forever
             /\ observed[g] # None => observed[g] \in Nat /\ observed[g] <= now
             /\ file[g] # None =>
                  file[g] \in Nat /\ file[g] <= now /\ Day(file[g]) \in Nat
  <2>1. /\ From(g) \in Nat /\ From(g) <= Forever
        /\ Until(g) \in Nat /\ Until(g) <= Forever
    BY ConstantFacts DEF Types, From, Until
  <2>2. /\ observed[g] # None => observed[g] \in Nat /\ observed[g] <= now
        /\ file[g] # None => file[g] \in Nat /\ file[g] <= now
    BY <1>1 DEF Types
  <2> QED BY <2>1, <2>2, DayFacts
<1> QED BY <1>1, <1>2, <1>3

LEMMA RollFacts ==
  ASSUME Types
  PROVE  /\ timer.step \in {"wait", "roll"} /\ timer.next \in Nat /\ timer.todo \subseteq Gap
         /\ \A a \in Gap \cup {Timer} :
              /\ roll[a].step \in Steps /\ roll[a].gap \in Gap \cup {Timer}
              /\ roll[a].day \in Nat /\ roll[a].target \in Nat
  BY DEF Types

\* The invariant has the properties that the runs check

LEMMA InvTypeOK == Inv => TypeOK
<1> SUFFICES ASSUME Inv PROVE TypeOK
  OBVIOUS
<1>0. Types /\ Life /\ Rolling
  BY DEF Inv
<1>1. now \in Moments /\ phase \in {"down", "opening", "boot", "stale", "seal", "up"}
  BY <1>0 DEF Types, Phases
<1>2. ASSUME NEW g \in Gap
      PROVE  /\ task[g] \in {"none", "opened", "open", "closed", "gone"} \cup Closing
             /\ file[g] \in {None} \cup (0..MaxTime)
             /\ observed[g] \in {None} \cup (0..now)
             /\ lost[g].from \in 0..lost[g].to /\ lost[g].to \in 0..Forever
  <2>1. file[g] \in {None} \cup (0..MaxTime)
    BY <1>0, TypeFacts, ConstantFacts DEF Types
  <2>2. lost[g].from \in 0..lost[g].to /\ lost[g].to \in 0..Forever
    <3>1. From(g) <= Until(g)
      BY <1>0 DEF Life, Lives
    <3> QED BY <3>1, <1>0, TypeFacts, ConstantFacts DEF From, Until
  <2> QED BY <1>0, <2>1, <2>2 DEF Types, Tasks
<1>3. ASSUME NEW a \in Gap \cup {Timer}, roll[a] # Idle
      PROVE  /\ roll[a].step \in {"close", "open", "file"}
             /\ roll[a].day <= roll[a].target /\ roll[a].target <= Today
             /\ a # Timer => roll[a].gap = a /\ task[a] = "observed"
  BY <1>0, <1>3 DEF Types, Rolling, Rolled, Steps
<1>4. timer.todo \subseteq Gap /\ refused \subseteq Gap
  BY <1>0 DEF Types
<1>5. sealed \subseteq Days
  BY <1>0, TypeFacts, ConstantFacts, DayFacts DEF Types, Days
<1>6. ASSUME NEW a \in ready PROVE a.gap \in Gap /\ a.at \in 0..MaxTime
  BY <1>0, TypeFacts, ConstantFacts DEF Types
<1> QED BY <1>1, <1>2, <1>3, <1>4, <1>5, <1>6 DEF TypeOK

\* An artifact of the journal.
LEMMA ArtifactFacts ==
  ASSUME Types, NEW a \in ready
  PROVE  /\ a.gap \in Gap /\ a.state \in {"OPEN", "CLOSED"} /\ a.more \in BOOLEAN
         /\ a.at \in Nat /\ a.at <= now /\ Day(a.at) \in Nat
<1>1. /\ a.gap \in Gap /\ a.state \in {"OPEN", "CLOSED"} /\ a.more \in BOOLEAN
      /\ a.at \in Nat /\ a.at <= now
  BY TypeFacts DEF Types
<1> QED BY <1>1, DayFacts

\* A gap has at most one OPEN in a day.
LEMMA OneOpen ==
  ASSUME Types, Artifacts, NEW a \in ready, NEW b \in ready,
         a.gap = b.gap, a.state = "OPEN", b.state = "OPEN", Day(a.at) = Day(b.at)
  PROVE  a.at = b.at
  BY ArtifactFacts, TypeFacts DEF Artifacts, Written

\* What an OPEN tells to central lasts as long as the loss in its day.
LEMMA OpenTells ==
  ASSUME Inv, NEW g \in Gap, NEW t \in 0..Forever, LostIn(g, t),
         NEW o \in ready, o.gap = g, o.state = "OPEN", Day(o.at) = Day(t), o.at <= t
  PROVE  Tells(g, t)
<1>0. Types /\ Artifacts
  BY DEF Inv
<1>1. t \in Nat /\ t < Until(g) /\ Until(g) \in Nat
  BY <1>0, TypeFacts, ConstantFacts DEF LostIn, Until
<1>2. o \in Of(g, Day(t))
  BY DEF Of
<1>3. ASSUME NEW n \in Following(o, Of(g, Day(t)))
      PROVE  n.state = "CLOSED" /\ t < n.at + (IF n.more THEN 1 ELSE 0)
  <2>1. n \in ready /\ n.gap = g /\ Day(n.at) = Day(t) /\ Before(o, n)
    BY <1>3 DEF Following, Of
  <2>2. n.at \in Nat /\ n.state \in {"OPEN", "CLOSED"} /\ n.more \in BOOLEAN
        /\ o.at \in Nat
    BY <1>0, <2>1, ArtifactFacts
  <2>3. n.state # "OPEN"
    <3>1. n.state = "OPEN" => n.at = o.at
      BY <1>0, <2>1, OneOpen
    <3> QED BY <3>1, <2>1, <2>2 DEF Before
  <2>4. CASE n.more
    <3>1. n.at = Start(Day(t) + 1) - 1
      BY <1>0, <2>1, <2>2, <2>3, <2>4 DEF Artifacts, Written
    <3>2. Start(Day(t) + 1) = Start(Day(t)) + DayLen /\ t < Start(Day(t)) + DayLen
          /\ Start(Day(t)) \in Nat /\ DayLen \in Nat
      BY <1>1, DayFacts, StartFacts, ConstantFacts
    <3> QED BY <3>1, <3>2, <2>2, <2>3, <2>4, <1>1
  <2>5. CASE ~n.more
    <3>1. Until(g) <= n.at
      BY <1>0, <2>1, <2>2, <2>3, <2>5 DEF Artifacts, Written
    <3> QED BY <3>1, <2>2, <2>3, <2>5, <1>1
  <2> QED BY <2>2, <2>4, <2>5
<1> QED BY <1>2, <1>3 DEF Tells

\* So does the OPEN with which a gap continues, or begins.
LEMMA ChainTells ==
  ASSUME Inv, NEW g \in Gap, NEW t \in 0..Forever, LostIn(g, t),
         Day(From(g)) = Day(t) \/ Continued(g, Day(t))
  PROVE  Tells(g, t)
<1>0. Types /\ Life
  BY DEF Inv
<1>1. t \in Nat /\ From(g) <= t /\ t < Until(g) /\ Day(t) \in Nat
  BY DayFacts, ConstantFacts DEF LostIn, From, Until
<1>2. Begun(g) /\ From(g) \in Nat
  BY <1>0, <1>1, TypeFacts DEF Begun, From
<1>3. CASE Day(From(g)) = Day(t)
  <2> DEFINE o == Artifact(g, "OPEN", From(g), FALSE)
  <2>1. o \in ready
    BY <1>0, <1>2 DEF Life, Lives
  <2>2. o.gap = g /\ o.state = "OPEN" /\ o.at = From(g)
    BY DEF Artifact
  <2> QED BY <2>1, <2>2, <1>1, <1>3, OpenTells
<1>4. CASE Continued(g, Day(t))
  <2> DEFINE o == Artifact(g, "OPEN", Start(Day(t)), FALSE)
  <2>1. o \in ready
    BY <1>4 DEF Continued
  <2>2. o.gap = g /\ o.state = "OPEN" /\ o.at = Start(Day(t))
    BY DEF Artifact
  <2>3. Day(o.at) = Day(t) /\ o.at <= t
    BY <2>2, <1>1, DayFacts, DayStart
  <2> HIDE DEF o
  <2> QED BY <2>1, <2>2, <2>3, OpenTells
<1> QED BY <1>3, <1>4

LEMMA InvTellsLoss == Inv => SealedDayTellsLoss
<1> SUFFICES ASSUME Inv, NEW t \in SealedInstants, NEW g \in Gap, LostIn(g, t)
             PROVE  \E h \in Gap : Tells(h, t)
  BY DEF SealedDayTellsLoss
<1>0. Types /\ Life /\ Told
  BY DEF Inv
<1>1. t \in 0..Forever /\ Day(t) \in sealed
  BY DEF SealedInstants
<1>2. t \in Nat /\ Day(t) \in Nat /\ Start(Day(t)) <= t /\ Day(t) \in Days
      /\ Start(Day(t)) \in Nat
  BY <1>1, DayFacts, DayOrder, ConstantFacts DEF Days
\* a gap that has all its OPENs
<1>3. ASSUME NEW h \in Gap, LostIn(h, t), h \notin storage \/ Until(h) = Forever
      PROVE  Tells(h, t)
  <2>1. From(h) <= t /\ t < Until(h) /\ From(h) \in Nat /\ Until(h) \in Nat
        /\ Day(From(h)) \in Nat
    BY <1>0, <1>3, TypeFacts DEF LostIn, From, Until
  <2>2. Day(From(h)) <= Day(t)
    BY <2>1, <1>2, DayOrder
  <2>3. CASE Day(From(h)) < Day(t)
    <3>1. CASE Until(h) = Forever
      <4>1. Active(h)
        BY <1>2, <2>1, <3>1, <1>1, ConstantFacts DEF Active, Begun, From, Until
      <4>2. Chain(h, Day(t))
        BY <4>1, <1>0, <1>1 DEF Told, Tale
      <4>3. Continued(h, Day(t))
        BY <4>2, <2>3, <1>2 DEF Chain
      <4> QED BY <1>3, <1>1, <4>3, ChainTells
    <3>2. CASE Until(h) # Forever
      <4>1. Start(Day(t)) < Until(h)
        BY <1>2, <2>1
      <4>2. Continued(h, Day(t))
        BY <1>0, <1>2, <1>3, <2>3, <3>2, <4>1 DEF Told, Tale
      <4> QED BY <1>3, <1>1, <4>2, ChainTells
    <3> QED BY <3>1, <3>2
  <2>4. CASE Day(From(h)) = Day(t)
    BY <1>1, <1>3, <2>4, ChainTells
  <2> QED BY <2>1, <2>2, <2>3, <2>4, <1>2
<1>4. CASE g \notin storage \/ Until(g) = Forever
  BY <1>3, <1>4
<1>5. CASE g \in storage /\ Until(g) # Forever
  <2>1. From(g) <= t /\ t < Until(g) /\ From(g) \in Nat /\ Until(g) \in Nat
        /\ Day(From(g)) \in Nat
    BY <1>0, TypeFacts DEF LostIn, From, Until
  <2>2. Day(From(g)) <= Day(t)
    BY <2>1, <1>2, DayOrder
  <2>3. CASE Day(From(g)) = Day(t)
    BY <1>1, <2>3, ChainTells
  <2>4. CASE Day(From(g)) < Day(t)
    <3>1. Start(Day(t)) < Until(g)
      BY <1>2, <2>1
    <3>2. Continued(g, Day(t)) \/ \E h \in StopGap : Heir(h, g, Day(t))
      BY <1>0, <1>2, <1>5, <2>4, <3>1 DEF Told, Tale
    <3>3. ASSUME NEW h \in StopGap, Heir(h, g, Day(t)) PROVE Tells(h, t)
      <4>1. h \in Gap /\ h \notin storage
        BY <1>0, ConstantFacts DEF Types
      <4>2. LostIn(h, t)
        BY <3>3, <4>1, <2>1, <1>2, <1>0, TypeFacts DEF Heir, LostIn, From, Until
      <4> QED BY <4>1, <4>2, <1>3
    <3> QED BY <3>2, <3>3, <1>1, ChainTells, ConstantFacts
  <2> QED BY <2>1, <2>2, <2>3, <2>4, <1>2
<1> QED BY <1>4, <1>5

LEMMA InvTellsNoMore == Inv => SealedDayTellsNoMore
<1> SUFFICES ASSUME Inv, NEW t \in SealedInstants, NEW g \in Gap,
                    task[g] \in {"removing", "closed"}, g \notin blurred, Tells(g, t)
             PROVE  LostIn(g, t)
  BY DEF SealedDayTellsNoMore
<1>0. Types /\ Life /\ Artifacts /\ Clear
  BY DEF Inv
<1> DEFINE u == Until(g)
           E == Of(g, Day(t))
<1>1. t \in Nat /\ Day(t) \in Nat
  BY DayFacts, ConstantFacts DEF SealedInstants
<1>2. /\ u \in Moments /\ From(g) < u
      /\ Artifact(g, "CLOSED", u, FALSE) \in ready
      /\ \A a \in ready : a.gap = g /\ a.state = "OPEN" => Day(a.at) <= Day(u)
  BY <1>0 DEF Clear, Exact, Ended
<1>3. u \in Nat /\ Day(u) \in Nat /\ From(g) \in Nat /\ Day(From(g)) \in Nat
  BY <1>0, <1>2, MomentFacts, DayFacts, TypeFacts
<1>4. PICK o \in E : /\ o.state = "OPEN" /\ o.at <= t
                     /\ \A n \in Following(o, E) :
                          n.state = "CLOSED" /\ t < n.at + (IF n.more THEN 1 ELSE 0)
  BY DEF Tells
<1>5. o \in ready /\ o.gap = g /\ Day(o.at) = Day(t) /\ o.at \in Nat
  BY <1>0, <1>4, ArtifactFacts DEF Of
<1>6. From(g) <= o.at
  <2>1. o.at = From(g) \/ Day(From(g)) < Day(o.at)
    BY <1>0, <1>4, <1>5 DEF Artifacts, Written
  <2>2. o.at < From(g) => Day(o.at) <= Day(From(g))
    BY <1>3, <1>5, DayOrder
  <2> QED BY <2>1, <2>2, <1>3, <1>5, <1>1
<1>7. Day(t) <= Day(u)
  BY <1>2, <1>4, <1>5
<1>8. CASE Day(t) < Day(u)
  <2>1. t < u
    BY <1>1, <1>3, <1>8, DayOrder
  <2> QED BY <2>1, <1>4, <1>5, <1>6, <1>1, <1>3 DEF LostIn, From, Until
<1>9. CASE Day(t) = Day(u)
  <2> DEFINE c == Artifact(g, "CLOSED", u, FALSE)
  <2>1. c \in E /\ c.at = u
    BY <1>2, <1>9 DEF Of, Artifact
  <2>2. o.at < u
    <3>1. o.at = From(g) \/ o.at = Start(Day(u))
      BY <1>0, <1>4, <1>5, <1>9 DEF Artifacts, Written
    <3>2. Start(Day(u)) <= u /\ Start(Day(u)) # u /\ Start(Day(u)) \in Nat
      BY <1>2, <1>3, DayFacts, MomentFacts
    <3> QED BY <3>1, <3>2, <1>2, <1>3
  <2>3. Before(o, c)
    BY <2>1, <2>2 DEF Before
  <2> DEFINE B == {b \in E : Before(o, b)}
             S == {b.at : b \in B}
  <2>4. S \subseteq Nat /\ u \in S
    <3>1. \A b \in E : b.at \in Nat
      BY <1>0, ArtifactFacts DEF Of
    <3> QED BY <3>1, <2>1, <2>3
  <2>5. PICK m \in S : \A n \in S : m <= n
    <3> HIDE DEF S
    <3> QED BY <2>4, LeastNumber
  <2>6. PICK b \in B : b.at = m
    OBVIOUS
  <2>7. /\ b \in ready /\ b.gap = g /\ Day(b.at) = Day(t) /\ b.at \in Nat
        /\ b.state \in {"OPEN", "CLOSED"} /\ b.more \in BOOLEAN /\ Before(o, b)
    BY <1>0, ArtifactFacts DEF Of
  <2>8. b.state = "CLOSED"
    <3>1. b.state = "OPEN" => b.at = o.at
      BY <1>0, <1>4, <1>5, <2>7, OneOpen
    <3> QED BY <3>1, <2>7, <1>4, <1>5 DEF Before
  <2>9. b \in Following(o, E)
    <3>1. ASSUME NEW x \in E, Before(o, x), Before(x, b) PROVE FALSE
      <4>1. x.at \in S /\ x.at \in Nat
        BY <3>1, <1>0, ArtifactFacts DEF Of
      <4>2. b.at <= x.at
        BY <4>1, <2>5, <2>6
      <4> QED BY <4>1, <4>2, <2>7, <2>8, <3>1 DEF Before
    <3> QED BY <3>1, <2>7 DEF Following
  <2>10. t < b.at + (IF b.more THEN 1 ELSE 0) /\ b.at <= u
    BY <2>9, <1>4, <2>4, <2>5, <2>6
  <2>11. ~b.more
    <3>1. SUFFICES ASSUME b.more PROVE FALSE
      OBVIOUS
    <3>2. b.at = Start(Day(u) + 1) - 1
      BY <1>0, <3>1, <2>7, <2>8, <1>9 DEF Artifacts, Written
    <3>3. Start(Day(u) + 1) = Start(Day(u)) + DayLen /\ u < Start(Day(u)) + DayLen
          /\ Start(Day(u)) \in Nat /\ DayLen \in Nat /\ Day(u) + 1 \in Nat
      <4>1. Start(Day(u) + 1) = Start(Day(u)) + DayLen /\ Day(u) + 1 \in Nat
        BY <1>3, StartFacts
      <4>2. u < Start(Day(u)) + DayLen /\ Start(Day(u)) \in Nat
        BY <1>3, DayFacts
      <4> QED BY <4>1, <4>2, ConstantFacts
    <3>4. u # Start(Day(u) + 1) - 1
      BY <1>2, <3>3, MomentFacts
    <3> QED BY <3>2, <3>3, <3>4, <2>10, <1>3
  <2>12. t < u
    BY <2>10, <2>11, <2>7, <1>1, <1>3
  <2> QED BY <2>12, <1>4, <1>5, <1>6, <1>1, <1>3 DEF LostIn, From, Until
<1> QED BY <1>7, <1>8, <1>9, <1>1, <1>3

-----------------------------------------------------------------------------
\* Initially

LEMMA InvInit == Init => Inv
<1> SUFFICES ASSUME Init PROVE Inv
  OBVIOUS
<1>1. 2 \in Moments
  BY GapJournalAssumption DEF Moments
<1>2. 0 \in Nat /\ Forever \in 0..Forever /\ 0..2 \subseteq Nat
  BY ConstantFacts
<1>3. Idle \in [step : Steps, gap : Gap \cup {Timer}, day : Nat, target : Nat]
  BY DEF Idle, Steps
<1>4. Types
  BY <1>1, <1>2, <1>3 DEF Init, Types, Phases, Tasks
<1>5. ready = {} /\ sealed = {} /\ storage = {} /\ phase = "up" /\ timer.step = "wait"
      /\ timer.next = 1
  BY DEF Init
<1>6. ASSUME NEW g \in Gap
      PROVE  /\ task[g] = "none" /\ file[g] = None /\ ~Begun(g) /\ From(g) = Forever
             /\ Until(g) = Forever
  BY <1>6 DEF Init, Begun, From, Until
<1>7. ASSUME NEW a \in Gap \cup {Timer} PROVE roll[a] = Idle
  BY <1>7 DEF Init
<1>8. Life
  <2> SUFFICES ASSUME NEW g \in Gap PROVE Lives(g)
    BY DEF Life
  <2>1. Forever \in Nat
    BY ConstantFacts
  <2>2. task[g] = "none" /\ file[g] = None /\ lost[g].from = Forever /\ lost[g].to = Forever
    BY DEF Init
  <2> QED BY <1>5, <2>1, <2>2 DEF Lives, Active, Begun, From, Until, Closing
<1>9. Chained /\ Rolling /\ Listed
  BY <1>5, <1>6, <1>7 DEF Chained, Links, Rolling, Listed
<1>10. Told
  BY <1>5, <1>6 DEF Told, Tale, Active
<1>11. Booting
  BY <1>5, <1>6, ConstantFacts DEF Booting
<1>12. Artifacts /\ Clear
  BY <1>5, <1>6 DEF Artifacts, Clear, Exact, Closing
<1> QED BY <1>4, <1>8, <1>9, <1>10, <1>11, <1>12 DEF Inv

-----------------------------------------------------------------------------
\* Time

LEMMA TickStep == Inv /\ Tick => Inv'
<1> SUFFICES ASSUME Inv, Tick PROVE Inv'
  OBVIOUS
<1>0. /\ Types /\ Life /\ Chained /\ Rolling /\ Listed /\ Told /\ Booting
      /\ Artifacts /\ Clear
  BY DEF Inv
<1>1. /\ now' \in Moments /\ now < now'
      /\ \A v \in Moments : v <= now \/ now' <= v
      /\ phase \notin {"up", "down"} => Day(now') <= Day(mark) + 1
      /\ \A g \in Gap : task[g] = "opened" => observed[g] = now
  BY DEF Tick
<1>2. /\ phase' = phase /\ mark' = mark /\ stale' = stale /\ storage' = storage
      /\ task' = task /\ observed' = observed /\ roll' = roll /\ timer' = timer
      /\ file' = file /\ ready' = ready /\ sealed' = sealed
      /\ lost' = lost /\ blurred' = blurred /\ refused' = refused
  BY DEF Tick, boot, closes, disk, history
<1>3. now \in Nat /\ now' \in Nat /\ Day(now) <= Day(now') /\ Day(now) \in Nat
      /\ Day(now') \in Nat
  BY <1>0, <1>1, TypeFacts, MomentFacts, DayOrder, DayFacts
<1>4. Types'
  BY <1>0, <1>1, <1>2, <1>3 DEF Types, Today
<1>f. \A g \in Gap : From(g) \in Nat /\ Until(g) \in Nat
  BY <1>0, TypeFacts
<1>5. Life'
  <2> SUFFICES ASSUME NEW g \in Gap PROVE Lives(g)'
    BY DEF Life
  <2>1. Lives(g)
    BY <1>0 DEF Life
  <2>2. Begun(g) => From(g) <= now'
    BY <2>1, <1>1, <1>3, <1>f DEF Lives
  <2>3. Until(g) # Forever => Until(g) <= now'
    BY <2>1, <1>1, <1>3, <1>f DEF Lives
  <2>4. task[g] = "opened" => \A v \in Moments : v <= observed[g] \/ now' <= v
    BY <1>1
  <2>5. phase' = phase
    BY <1>2
  <2> QED BY <2>1, <2>2, <2>3, <2>4, <1>2 DEF Lives, Begun, Active, From, Until
<1>6. Chained'
  BY <1>0, <1>2 DEF Chained, Links, Chain, Continued, From
<1>7. Rolling'
  <2> SUFFICES ASSUME NEW a \in Gap \cup {Timer}, roll[a] # Idle PROVE Rolled(a, roll[a])'
    BY <1>2 DEF Rolling
  <2>1. Rolled(a, roll[a])
    BY <1>0 DEF Rolling
  <2>2. roll[a].target <= Today'
    BY <2>1, <1>0, <1>3, RollFacts DEF Rolled, Today
  <2> QED BY <2>1, <2>2, <1>2 DEF Rolled, Chain, Continued, From
<1>8. Listed'
  <2>1. timer.step = "roll" => now' >= Start(timer.next)
    BY <1>0, <1>1, <1>3, RollFacts, StartFacts DEF Listed
  <2> QED BY <2>1, <1>0, <1>2 DEF Listed, Chain, Continued, From, Active, Begun, Until
<1>9. Told'
  BY <1>0, <1>2 DEF Told, Tale, Heir, Chain, Continued, From, Until, Active, Begun
<1>10. Booting'
  BY <1>0, <1>1, <1>2 DEF Booting, From, Until, Active, Begun, Today
<1>11. Artifacts' /\ Clear'
  BY <1>0, <1>2 DEF Artifacts, Written, Clear, Exact, Ended, From, Until
<1> QED BY <1>4, <1>5, <1>6, <1>7, <1>8, <1>9, <1>10, <1>11 DEF Inv

-----------------------------------------------------------------------------
\* Opening and closing

LEMMA SaveFileStep == ASSUME Inv, NEW g \in Gap, SaveFile(g) PROVE Inv'
<1>0. /\ Types /\ Life /\ Chained /\ Rolling /\ Listed /\ Told /\ Booting
      /\ Artifacts /\ Clear
  BY DEF Inv
<1>1. /\ task[g] = "opened"
      /\ now' = now /\ mark' = mark /\ storage' = storage
      /\ observed' = observed /\ roll' = roll /\ timer' = timer /\ ready' = ready
      /\ sealed' = sealed /\ lost' = lost /\ blurred' = blurred /\ refused' = refused
      /\ phase' = IF g \in StopGap THEN "boot" ELSE phase
      /\ stale' = IF g \in StopGap THEN {h \in Gap : file[h] # None} \cup {g} ELSE stale
  BY DEF SaveFile, history
<1>3. Lives(g) /\ Begun(g) /\ Until(g) = Forever /\ Active(g)
  <2>1. Lives(g)
    BY <1>0 DEF Life
  <2> QED BY <1>1, <2>1 DEF Lives, Active, Begun, Until
<1>4. From(g) \in Nat /\ From(g) # None
  BY <1>0, TypeFacts
<1>2. /\ \A h \in Gap : task'[h] = IF h = g THEN "open" ELSE task[h]
      /\ \A h \in Gap : file'[h] = IF h = g THEN From(g) ELSE file[h]
      /\ task' \in [Gap -> Tasks] /\ file' \in [Gap -> {None} \cup (0..now)]
  <2>1. From(g) \in 0..now
    BY <1>0, <1>3, <1>4, TypeFacts DEF Lives
  <2> QED BY <1>0, <2>1 DEF SaveFile, Types, Tasks, From
<1>5. \A a \in Gap \cup {Timer} : roll[a] # Idle => roll[a].gap # g /\ a # g
  <2> SUFFICES ASSUME NEW a \in Gap \cup {Timer}, roll[a] # Idle
               PROVE  roll[a].gap # g /\ a # g
    OBVIOUS
  <2>1. Rolled(a, roll[a])
    BY <1>0 DEF Rolling
  <2> QED BY <1>1, <2>1, ConstantFacts DEF Rolled
<1>6. Types'
  BY <1>0, <1>1, <1>2 DEF Types, Phases, Today
<1>7. Life'
  <2> SUFFICES ASSUME NEW h \in Gap PROVE Lives(h)'
    BY DEF Life
  <2>1. Lives(h)
    BY <1>0 DEF Life
  <2>2. CASE h = g
    BY <1>1, <1>2, <1>3, <1>4, <2>2 DEF Lives, Begun, Active, From, Until, Closing
  <2>3. CASE h # g
    <3>1. task'[h] = task[h] /\ file'[h] = file[h]
      BY <1>2, <2>3
    <3>2. task[h] = "opened" /\ h \in StopGap => phase' = "opening"
      BY <1>0, <1>1, <2>1, <2>3 DEF Booting, Lives
    <3> QED BY <1>1, <2>1, <3>1, <3>2 DEF Lives, Begun, Active, From, Until
  <2> QED BY <2>2, <2>3
<1>8. Chained'
  <2> SUFFICES ASSUME NEW h \in Gap PROVE Links(h)'
    BY DEF Chained
  <2>1. Links(h)
    BY <1>0 DEF Chained
  <2>2. CASE h = g
    <3>1. file'[g] = From(g) /\ task'[g] = "open" /\ Day(From(g)) \in Nat
      BY <1>0, <1>2, TypeFacts
    <3> QED BY <1>1, <2>2, <3>1 DEF Links, Chain, From, Days
  <2>3. CASE h # g
    BY <1>1, <1>2, <2>1, <2>3 DEF Links, Chain, Continued, From
  <2> QED BY <2>2, <2>3
<1>9. Rolling'
  <2> SUFFICES ASSUME NEW a \in Gap \cup {Timer}, roll[a] # Idle PROVE Rolled(a, roll[a])'
    BY <1>1 DEF Rolling
  <2>1. Rolled(a, roll[a]) /\ roll[a].gap # g /\ a # g
    BY <1>0, <1>5 DEF Rolling
  <2>2. task'[roll[a].gap] = task[roll[a].gap] /\ (a # Timer => task'[a] = task[a])
    BY <1>2, <2>1 DEF Rolled
  <2> QED BY <1>1, <2>1, <2>2 DEF Rolled, Chain, Continued, From, Today
<1>10. Listed'
  BY <1>0, <1>1 DEF Listed, Chain, Continued, From, Active, Begun, Until
<1>11. Told'
  <2> SUFFICES ASSUME NEW h \in Gap PROVE Tale(h)'
    BY DEF Told
  <2>1. Tale(h)
    BY <1>0 DEF Told
  <2>2. \A k \in StopGap : /\ task'[k] \in Closing => task[k] \in Closing
                           /\ task'[k] = "opened" => task[k] = "opened"
    BY <1>2, ConstantFacts DEF Closing
  <2> QED BY <1>1, <2>1, <2>2 DEF Tale, Heir, Chain, Continued, From, Until, Active, Begun
<1>12. Booting'
  <2>0. phase # "up" => \A h \in storage : task'[h] \notin {"opened"} \cup Closing
    BY <1>0, <1>2, ConstantFacts DEF Booting, Types, Closing
  <2>1. CASE g \in StopGap
    <3>1. phase = "opening" /\ phase' = "boot"
      BY <1>1, <1>3, <2>1 DEF Lives
    <3>2. ASSUME NEW h \in Gap, Active(h) PROVE h \in stale' \/ mark <= From(h)
      <4>1. Lives(h) /\ task[h] \in {"opened", "open"}
        BY <1>0, <3>1, <3>2 DEF Life, Lives, Booting
      <4>2. task[h] = "opened" => h = g
        BY <1>0, <1>1, <3>1, <4>1, <2>1 DEF Booting
      <4>3. task[h] = "open" => file[h] # None
        BY <4>1 DEF Lives
      <4> QED BY <1>1, <2>1, <4>1, <4>2, <4>3
    <3>3. \A h \in Gap : task[h] = "opened" => task'[h] = "open" \/ task'[h] = task[h]
      BY <1>2
    <3> QED
      BY <1>0, <1>1, <1>2, <2>0, <2>1, <3>1, <3>2, <3>3, ConstantFacts
         DEF Booting, From, Until, Active, Begun, Today
  <2>2. CASE g \notin StopGap
    <3>1. phase # "opening" /\ phase # "down"
      BY <1>0, <1>1, <2>2 DEF Booting
    <3>2. phase = "boot" => \A h \in StopGap : task[h] \in {"opened", "open"} => task'[h] = task[h]
      BY <1>2, <2>2, ConstantFacts
    <3> QED
      BY <1>0, <1>1, <1>2, <2>0, <2>2, <3>1, <3>2, ConstantFacts
         DEF Booting, From, Until, Active, Begun, Today
  <2> QED BY <2>1, <2>2
<1>13. Artifacts'
  <2> SUFFICES ASSUME NEW a \in ready PROVE Written(a)'
    BY <1>1 DEF Artifacts
  <2>1. Written(a) /\ a.gap \in Gap
    BY <1>0, ArtifactFacts DEF Artifacts
  <2> QED BY <1>1, <1>2, <2>1 DEF Written, From, Until
<1>14. Clear'
  <2> SUFFICES ASSUME NEW h \in Gap \ blurred PROVE Exact(h)'
    BY <1>1 DEF Clear
  <2>1. Exact(h)
    BY <1>0 DEF Clear
  <2>2. CASE h = g
    BY <1>1, <1>2, <1>3, <2>2 DEF Exact, Until, Closing
  <2>3. CASE h # g
    BY <1>1, <1>2, <2>1, <2>3 DEF Exact, Ended, From, Until
  <2> QED BY <2>2, <2>3
<1> QED
  BY <1>6, <1>7, <1>8, <1>9, <1>10, <1>11, <1>12, <1>13, <1>14 DEF Inv

LEMMA CloseBeginsStep == ASSUME Inv, NEW g \in Gap, CloseBegins(g) PROVE Inv'
<1>0. /\ Types /\ Life /\ Chained /\ Rolling /\ Listed /\ Told /\ Booting
      /\ Artifacts /\ Clear
  BY DEF Inv
<1>1. /\ task[g] = "open" /\ phase # "down" /\ From(g) < now /\ MayClose(g)
      /\ now' = now /\ phase' = phase /\ mark' = mark /\ stale' = stale
      /\ storage' = storage /\ roll' = roll /\ timer' = timer /\ file' = file
      /\ ready' = ready /\ sealed' = sealed /\ lost' = lost /\ refused' = refused
      /\ blurred' = IF roll[Timer].gap = g THEN blurred \cup {g} ELSE blurred
  BY DEF CloseBegins, boot, disk, From
<1>2. /\ \A h \in Gap : task'[h] = IF h = g THEN "observed" ELSE task[h]
      /\ \A h \in Gap : observed'[h] = IF h = g THEN now ELSE observed[h]
      /\ task' \in [Gap -> Tasks] /\ observed' \in [Gap -> {None} \cup (0..now)]
  <2>1. now \in 0..now
    BY <1>0, TypeFacts
  <2> QED BY <1>0, <2>1 DEF CloseBegins, Types, Tasks, Closing
<1>3. Lives(g) /\ Begun(g) /\ file[g] # None
  <2>1. Lives(g)
    BY <1>0 DEF Life
  <2> QED BY <1>1, <2>1 DEF Lives, Begun
<1>4. now \in Moments /\ now \in Nat /\ From(g) \in Nat /\ Until(g) \in Nat
  BY <1>0, TypeFacts DEF Types
<1>5. roll[g] = Idle
  <2>1. SUFFICES ASSUME roll[g] # Idle PROVE FALSE
    OBVIOUS
  <2>2. Rolled(g, roll[g])
    BY <1>0, <2>1 DEF Rolling
  <2> QED BY <1>1, <2>2, ConstantFacts DEF Rolled
<1>6. Types'
  BY <1>0, <1>1, <1>2 DEF Types, Today
<1>7. Life'
  <2> SUFFICES ASSUME NEW h \in Gap PROVE Lives(h)'
    BY DEF Life
  <2>1. Lives(h)
    BY <1>0 DEF Life
  <2>2. CASE h = g
    BY <1>1, <1>2, <1>3, <1>4, <2>2 DEF Lives, Begun, Active, From, Until, Closing
  <2>3. CASE h # g
    BY <1>1, <1>2, <2>1, <2>3 DEF Lives, Begun, Active, From, Until
  <2> QED BY <2>2, <2>3
<1>8. Chained'
  <2> SUFFICES ASSUME NEW h \in Gap PROVE Links(h)'
    BY DEF Chained
  <2>1. Links(h)
    BY <1>0 DEF Chained
  <2>2. CASE h = g
    BY <1>1, <1>2, <2>1, <2>2 DEF Links, Chain, Continued, From
  <2>3. CASE h # g
    BY <1>1, <1>2, <2>1, <2>3 DEF Links, Chain, Continued, From
  <2> QED BY <2>2, <2>3
<1>9. Rolling'
  <2> SUFFICES ASSUME NEW a \in Gap \cup {Timer}, roll[a] # Idle PROVE Rolled(a, roll[a])'
    BY <1>1 DEF Rolling
  <2>1. Rolled(a, roll[a]) /\ a # g
    BY <1>0, <1>5 DEF Rolling
  <2>2. task'[roll[a].gap] \notin {"none", "opened", "gone"}
        /\ (a # Timer => task'[a] = task[a] /\ observed'[a] = observed[a])
    BY <1>2, <2>1 DEF Rolled
  <2> QED BY <1>1, <2>1, <2>2 DEF Rolled, Chain, Continued, From, Today
<1>10. Listed'
  BY <1>0, <1>1 DEF Listed, Chain, Continued, From, Active, Begun, Until
<1>11. Told'
  <2> SUFFICES ASSUME NEW h \in Gap PROVE Tale(h)'
    BY DEF Told
  <2>1. Tale(h) /\ (Until(h) # Forever => Until(h) <= now)
    BY <1>0 DEF Told, Life, Lives
  <2>2. ASSUME NEW k \in StopGap, NEW d \in Days, Heir(k, h, d), Until(h) # Forever
        PROVE  Heir(k, h, d)'
    <3>1. task'[k] # "opened" /\ (task'[k] \in Closing => Until(h) <= observed'[k])
      BY <1>2, <2>1, <2>2, ConstantFacts DEF Heir
    <3> QED BY <1>1, <2>2, <3>1 DEF Heir, Begun, From, Until
  <2> QED BY <1>1, <2>1, <2>2 DEF Tale, Chain, Continued, From, Until, Active, Begun
<1>12. Booting'
  <2>0. phase # "up" => \A h \in storage : task'[h] \notin {"opened"} \cup Closing
    <3>1. phase # "up" => g \notin storage
      BY <1>1 DEF MayClose
    <3> QED BY <1>0, <1>2, <3>1, ConstantFacts DEF Booting, Types
  <2>1. phase # "opening"
    BY <1>1 DEF MayClose
  <2>2. phase = "boot" => g \notin StopGap
    BY <1>0, <1>1, ConstantFacts DEF MayClose, Types
  <2>3. \A h \in Gap : task'[h] = "opened" => task[h] = "opened"
    BY <1>2
  <2>4. phase = "boot" => \A h \in StopGap : task'[h] = task[h]
    BY <1>2, <2>2, ConstantFacts
  <2> QED
    BY <1>0, <1>1, <2>0, <2>1, <2>3, <2>4, ConstantFacts
       DEF Booting, From, Until, Active, Begun, Today
<1>13. Artifacts'
  <2> SUFFICES ASSUME NEW a \in ready PROVE Written(a)'
    BY <1>1 DEF Artifacts
  <2>1. Written(a) /\ a.gap \in Gap
    BY <1>0, ArtifactFacts DEF Artifacts
  <2> QED BY <1>1, <1>2, <2>1 DEF Written, From, Until
<1>14. Clear'
  <2> SUFFICES ASSUME NEW h \in Gap \ blurred' PROVE Exact(h)'
    BY DEF Clear
  <2>1. Exact(h)
    BY <1>0, <1>1 DEF Clear
  <2>2. CASE h = g
    <3>1. roll[Timer].gap # g
      BY <1>1, <2>2
    <3>2. ASSUME NEW a \in ready PROVE Day(a.at) <= Day(now)
      BY <1>0, <1>4, ArtifactFacts, DayOrder
    <3>3. Ended(g, now)
      BY <3>2 DEF Ended
    <3> QED BY <1>1, <1>2, <2>1, <2>2, <3>1, <3>3 DEF Exact, Ended, From, Until, Closing
  <2>3. CASE h # g
    BY <1>1, <1>2, <2>1, <2>3 DEF Exact, Ended, From, Until
  <2> QED BY <2>2, <2>3
<1> QED
  BY <1>6, <1>7, <1>8, <1>9, <1>10, <1>11, <1>12, <1>13, <1>14 DEF Inv

LEMMA ClosePublishesStep == ASSUME Inv, NEW g \in Gap, ClosePublishes(g) PROVE Inv'
<1>0. /\ Types /\ Life /\ Chained /\ Rolling /\ Listed /\ Told /\ Booting
      /\ Artifacts /\ Clear
  BY DEF Inv
<1> DEFINE c == Artifact(g, "CLOSED", observed[g], FALSE)
           end == IF Until(g) = Forever THEN observed[g] ELSE Until(g)
<1>1. /\ task[g] = "closing"
      /\ now' = now /\ phase' = phase /\ mark' = mark /\ stale' = stale
      /\ storage' = storage /\ roll' = roll /\ timer' = timer /\ file' = file
      /\ observed' = observed /\ ready' = ready \cup {c}
      /\ sealed' = sealed /\ blurred' = blurred /\ refused' = refused
  BY DEF ClosePublishes, ClosedAt, boot
<1>2. Lives(g) /\ Links(g) /\ Begun(g) /\ file[g] # None
      /\ observed[g] \in Moments /\ From(g) < observed[g]
      /\ (Until(g) # Forever => Until(g) <= observed[g])
      /\ Chain(g, Day(observed[g]))
  <2>1. Lives(g) /\ Links(g)
    BY <1>0 DEF Life, Chained
  <2> QED BY <1>1, <2>1 DEF Lives, Links, Begun, Closing
<1>3. /\ now \in Nat /\ From(g) \in Nat /\ Until(g) \in Nat /\ Until(g) <= Forever
      /\ observed[g] \in Nat /\ observed[g] <= now /\ observed[g] < Forever
  <2>1. observed[g] \in Nat /\ observed[g] < Forever /\ observed[g] # None
    BY <1>2, <1>0, MomentFacts, TypeFacts
  <2> QED BY <1>0, <2>1, TypeFacts
<1>4. /\ end \in Nat /\ end <= observed[g] /\ From(g) <= end /\ end < Forever
      /\ end <= Until(g)
  <2>1. From(g) <= Until(g)
    BY <1>2 DEF Lives
  <2>2. CASE Until(g) = Forever
    BY <1>2, <1>3, <2>2
  <2>3. CASE Until(g) # Forever
    <3>1. Until(g) <= observed[g] /\ end = Until(g)
      BY <1>2, <2>3
    <3> QED BY <3>1, <1>3, <2>1, ConstantFacts
  <2> QED BY <2>2, <2>3
<1> HIDE DEF c, end
<1>5. /\ \A h \in Gap : task'[h] = IF h = g THEN "removing" ELSE task[h]
      /\ task' \in [Gap -> Tasks]
      /\ \A h \in Gap : lost'[h] = IF h = g THEN [from |-> From(g), to |-> end] ELSE lost[h]
      /\ lost' \in [Gap -> [from : 0..Forever, to : 0..Forever]]
  <2>1. lost[g] = [from |-> From(g), to |-> Until(g)]
    BY <1>0 DEF Types, From, Until
  <2>2. lost' = [lost EXCEPT ![g].to = end]
    BY DEF ClosePublishes, end, Until
  <2>3. \A h \in Gap : lost'[h] = IF h = g THEN [from |-> From(g), to |-> end] ELSE lost[h]
    BY <1>0, <2>1, <2>2 DEF Types
  <2>4. lost' \in [Gap -> [from : 0..Forever, to : 0..Forever]]
    BY <1>0, <1>3, <1>4, <2>2, ConstantFacts DEF Types
  <2> QED BY <1>0, <2>3, <2>4 DEF ClosePublishes, Types, Tasks, Closing
<1>6. /\ \A h \in Gap : From(h)' = From(h)
      /\ Until(g)' = end
      /\ \A h \in Gap : h # g => Until(h)' = Until(h)
      /\ \A h \in Gap : Begun(h)' <=> Begun(h)
      /\ \A h \in Gap : Active(h)' <=> h # g /\ Active(h)
  BY <1>4, <1>5 DEF From, Until, Begun, Active
<1>7. c \in [gap : Gap, state : {"OPEN", "CLOSED"}, at : 0..now, more : BOOLEAN]
      /\ c.gap = g /\ c.state = "CLOSED" /\ c.at = observed[g] /\ ~c.more
  BY <1>3 DEF c, Artifact
<1>8. Types'
  BY <1>0, <1>1, <1>5, <1>7 DEF Types, Today
<1>9. Life'
  <2> SUFFICES ASSUME NEW h \in Gap PROVE Lives(h)'
    BY DEF Life
  <2>1. Lives(h)
    BY <1>0 DEF Life
  <2>2. CASE h = g
    <3>1. Begun(g)' /\ ~Active(g)' /\ Until(g)' = end /\ From(g)' = From(g)
      BY <1>2, <1>6
    <3>2. Artifact(g, "OPEN", From(g), FALSE) \in ready
      BY <1>2 DEF Lives
    <3>3. task'[g] = "removing" /\ end <= now /\ From(g) <= now
      BY <1>5, <1>3, <1>4
    <3> QED BY <1>1, <1>2, <1>4, <2>2, <3>1, <3>2, <3>3 DEF Lives, Closing
  <2>3. CASE h # g
    <3>1. /\ Begun(h)' = Begun(h) /\ Active(h)' = Active(h) /\ Until(h)' = Until(h)
          /\ From(h)' = From(h) /\ task'[h] = task[h]
      BY <1>5, <1>6, <2>3 DEF Begun, Active
    <3> QED BY <1>1, <2>1, <3>1 DEF Lives
  <2> QED BY <2>2, <2>3
<1>10. Chained'
  <2> SUFFICES ASSUME NEW h \in Gap PROVE Links(h)'
    BY DEF Chained
  <2>1. Links(h) /\ From(h)' = From(h) /\ (task'[h] = "closing" => task[h] = "closing")
    BY <1>0, <1>5, <1>6 DEF Chained
  <2> QED BY <1>1, <2>1 DEF Links, Chain, Continued
<1>11. Rolling'
  <2> SUFFICES ASSUME NEW a \in Gap \cup {Timer}, roll[a] # Idle PROVE Rolled(a, roll[a])'
    BY <1>1 DEF Rolling
  <2>1. Rolled(a, roll[a])
    BY <1>0 DEF Rolling
  <2>2. a # g /\ roll[a].gap \in Gap
    BY <1>1, <2>1, ConstantFacts DEF Rolled
  <2>3. task'[roll[a].gap] \notin {"none", "opened", "gone"}
        /\ (a # Timer => task'[a] = task[a]) /\ From(roll[a].gap)' = From(roll[a].gap)
    <3>1. \A h \in Gap : From(h)' = From(h)
      BY <1>6
    <3>2. roll' = roll
      BY <1>1
    <3> QED BY <1>5, <2>1, <2>2, <3>2 DEF Rolled, From
  <2> QED BY <1>1, <2>1, <2>3 DEF Rolled, Chain, Continued, Today
<1>12. Listed'
  <2> SUFFICES ASSUME timer.step = "roll", NEW h \in Gap, Active(h)'
               PROVE  h \in timer.todo \/ roll[Timer].gap = h \/ Chain(h, timer.next - 1)'
    BY <1>0, <1>1 DEF Listed
  <2>1. Active(h) /\ From(h)' = From(h)
    BY <1>6
  <2> QED BY <1>0, <1>1, <2>1 DEF Listed, Chain, Continued
<1>13. Told'
  <2> SUFFICES ASSUME NEW h \in Gap PROVE Tale(h)'
    BY DEF Told
  <2>1. Tale(h)
    BY <1>0 DEF Told
  <2>2. CASE h = g
    <3>1. ASSUME NEW d \in Days, Day(From(g)) < d, Start(d) < end PROVE Continued(g, d)'
      <4>1. d \in Nat /\ Start(d) \in Nat
        BY StartFacts, DayFacts, ConstantFacts DEF Days
      <4>2. Start(d) <= observed[g]
        BY <1>3, <1>4, <4>1, <3>1
      <4>3. d <= Day(observed[g])
        BY <1>3, <4>1, <4>2, DayOf
      <4> QED BY <1>1, <1>2, <3>1, <4>3 DEF Chain, Continued
    <3>2. ~Active(g)' /\ From(g)' = From(g) /\ Until(g)' = end
      BY <1>6
    <3> QED BY <2>2, <3>1, <3>2 DEF Tale
  <2>3. CASE h # g
    <3>1. /\ Active(h)' => Active(h)
          /\ From(h)' = From(h) /\ Until(h)' = Until(h)
      BY <1>6, <2>3
    <3>2. ASSUME NEW d \in Days, NEW k \in StopGap, Heir(k, h, d), Until(h) # Forever,
                 h \in storage, ~Continued(h, d), Day(From(h)) < d, Start(d) < Until(h)
          PROVE  Heir(k, h, d)'
      <4>1. k \in Gap /\ Begun(k)' /\ From(k)' = From(k)
        BY <1>6, <3>2, ConstantFacts DEF Heir
      <4>2. /\ From(k) <= Start(d) /\ Until(h) <= Until(k)
            /\ task[k] \in Closing => Until(h) <= observed[k]
        BY <3>2 DEF Heir
      <4>3. Until(h) <= Until(k)'
        <5>1. CASE k = g
          BY <1>1, <1>6, <4>2, <5>1 DEF end, Closing
        <5>2. CASE k # g
          BY <1>6, <4>1, <4>2, <5>2
        <5> QED BY <5>1, <5>2
      <4>4. task'[k] # "opened" /\ (task'[k] \in Closing => Until(h) <= observed'[k])
        BY <1>1, <1>5, <3>2, <4>1, <4>2 DEF Closing, Heir
      <4> QED BY <4>1, <4>2, <4>3, <4>4, <3>1 DEF Heir
    <3> QED BY <1>1, <2>1, <3>1, <3>2 DEF Tale, Chain, Continued
  <2> QED BY <2>2, <2>3
<1>14. Booting'
  <2>1. phase # "down" /\ phase # "opening"
    BY <1>0, <1>1 DEF Booting, Closing
  <2>2. phase \in {"opening", "boot"} => \A h \in StopGap : task[h] \in {"opened", "open"} => h # g
    BY <1>1
  <2>3. \A h \in Gap : task'[h] = "opened" => task[h] = "opened"
    BY <1>5
  <2>4. \A h \in Gap : Until(h) # Forever => Until(h)' # Forever
    BY <1>4, <1>6
  <2>5. phase = "boot" =>
       \A h \in storage : Active(h)' =>
         \E k \in StopGap :
           /\ task'[k] \in {"opened", "open"} /\ Active(k)'
           /\ \A d \in Days : Day(From(h)') < d /\ (\A s \in sealed : s < d)
                                => From(k)' <= Start(d)
    <3> SUFFICES ASSUME phase = "boot", NEW h \in storage, Active(h)'
                 PROVE  \E k \in StopGap :
                          /\ task'[k] \in {"opened", "open"} /\ Active(k)'
                          /\ \A d \in Days : Day(From(h)') < d /\ (\A s \in sealed : s < d)
                                                => From(k)' <= Start(d)
      OBVIOUS
    <3>1. h \in Gap /\ Active(h) /\ From(h)' = From(h)
      BY <1>0, <1>6, ConstantFacts DEF Types
    <3>2. PICK k \in StopGap :
            /\ task[k] \in {"opened", "open"} /\ Active(k)
            /\ \A d \in Days : Day(From(h)) < d /\ (\A s \in sealed : s < d)
                                 => From(k) <= Start(d)
      BY <1>0, <3>1 DEF Booting
    <3>3. k \in Gap /\ k # g
      BY <2>2, <3>2, ConstantFacts
    <3> QED BY <1>5, <1>6, <3>1, <3>2, <3>3
  <2>6. storage \subseteq Gap
    BY <1>0, ConstantFacts DEF Types
  <2>7. \A h \in Gap : (Active(h)' => Active(h)) /\ From(h)' = From(h)
    BY <1>6
  <2>8. /\ phase' # "up" =>
             /\ timer'.step = "wait"
             /\ \A h \in storage : task'[h] \notin {"opened"} \cup Closing
        /\ phase' = "up" => timer'.next # 0
        /\ phase' \notin {"up", "down"} => mark' # None /\ Today' <= Day(mark') + 1
    BY <1>0, <1>1, <1>5, <2>6 DEF Booting, Today, Closing
  <2>9. phase \in {"boot", "stale", "seal"} =>
          \A h \in Gap : Active(h)' => h \in stale \/ mark <= From(h)'
    BY <1>0, <2>7 DEF Booting
  <2>10. /\ phase \in {"stale", "seal"} => \A h \in stale \cap storage : Until(h)' # Forever
         /\ phase = "seal" => \A h \in stale : Until(h)' # Forever
    BY <1>0, <2>4, <2>6 DEF Booting, Types
  <2>11. /\ \A h, k \in storage : Active(h)' /\ Active(k)' => h = k
         /\ \A h, k \in StopGap : task'[h] = "opened" /\ task'[k] = "opened" => h = k
    BY <1>0, <2>3, <2>6, <2>7, ConstantFacts DEF Booting
  <2> QED BY <1>1, <2>1, <2>5, <2>8, <2>9, <2>10, <2>11 DEF Booting
<1>15. Artifacts'
  <2> SUFFICES ASSUME NEW a \in ready' PROVE Written(a)'
    BY DEF Artifacts
  <2>1. CASE a = c
    <3>1. task'[g] = "removing" /\ Until(g)' = end
      BY <1>5, <1>6
    <3>2. g \in blurred \/ observed[g] = end
      <4>1. g \notin blurred => Until(g) = Forever
        BY <1>0, <1>1 DEF Clear, Exact
      <4> QED BY <4>1 DEF end
    <3> QED BY <1>1, <1>4, <1>7, <2>1, <3>1, <3>2 DEF Written
  <2>2. CASE a # c
    <3>1. a \in ready /\ Written(a) /\ a.gap \in Gap /\ a.at \in Nat
      BY <1>0, <1>1, <2>2, ArtifactFacts DEF Artifacts
    <3>2. CASE a.gap = g
      <4>1. From(g)' = From(g) /\ task'[g] = "removing" /\ Until(g)' = end
        BY <1>5, <1>6
      <4>2. a.state = "CLOSED" /\ ~a.more => g \in blurred /\ end <= a.at
        BY <1>1, <1>3, <1>4, <3>1, <3>2 DEF Written
      <4> QED BY <1>1, <3>1, <3>2, <4>1, <4>2 DEF Written
    <3>3. CASE a.gap # g
      <4>1. From(a.gap)' = From(a.gap) /\ Until(a.gap)' = Until(a.gap)
            /\ task'[a.gap] = task[a.gap]
        BY <1>5, <1>6, <3>1, <3>3
      <4> QED BY <1>1, <3>1, <4>1 DEF Written
    <3> QED BY <3>2, <3>3
  <2> QED BY <2>1, <2>2
<1>16. Clear'
  <2> SUFFICES ASSUME NEW h \in Gap \ blurred PROVE Exact(h)'
    BY <1>1 DEF Clear
  <2>1. Exact(h)
    BY <1>0 DEF Clear
  <2>2. \A a \in ready' : a.state = "OPEN" => a \in ready
    BY <1>1, <1>7
  <2>3. CASE h = g
    <3>1. Until(g)' = observed[g] /\ task'[g] = "removing" /\ From(g)' = From(g)
      BY <1>1, <1>5, <1>6, <2>1, <2>3 DEF Exact, end
    <3>2. Ended(g, observed[g]) /\ roll[Timer].gap # g
      BY <1>1, <2>1, <2>3 DEF Exact, Closing
    <3>3. c \in ready' /\ c = Artifact(g, "CLOSED", observed[g], FALSE)
      BY <1>1 DEF c
    <3>4. Ended(g, observed[g])'
      BY <1>1, <2>2, <3>2 DEF Ended
    <3> QED BY <1>1, <1>2, <2>3, <3>1, <3>2, <3>3, <3>4 DEF Exact, Ended
  <2>4. CASE h # g
    <3>1. From(h)' = From(h) /\ Until(h)' = Until(h) /\ task'[h] = task[h]
      BY <1>5, <1>6, <2>4
    <3> QED BY <1>1, <2>1, <2>2, <3>1 DEF Exact, Ended
  <2> QED BY <2>3, <2>4
<1> QED
  BY <1>8, <1>9, <1>10, <1>11, <1>12, <1>13, <1>14, <1>15, <1>16 DEF Inv

LEMMA RemoveFileStep == ASSUME Inv, NEW g \in Gap, RemoveFile(g) PROVE Inv'
<1>0. /\ Types /\ Life /\ Chained /\ Rolling /\ Listed /\ Told /\ Booting
      /\ Artifacts /\ Clear
  BY DEF Inv
<1>1. /\ task[g] = "removing"
      /\ now' = now /\ phase' = phase /\ mark' = mark /\ stale' = stale
      /\ storage' = storage /\ roll' = roll /\ timer' = timer /\ ready' = ready
      /\ observed' = observed /\ sealed' = sealed /\ lost' = lost
      /\ blurred' = blurred /\ refused' = refused
  BY DEF RemoveFile, boot, history
<1>2. /\ \A h \in Gap : task'[h] = IF h = g THEN "closed" ELSE task[h]
      /\ \A h \in Gap : file'[h] = IF h = g THEN None ELSE file[h]
      /\ task' \in [Gap -> Tasks] /\ file' \in [Gap -> {None} \cup (0..now)]
  BY <1>0 DEF RemoveFile, Types, Tasks
<1>3. Lives(g) /\ Begun(g) /\ ~Active(g)
  <2>1. Lives(g)
    BY <1>0 DEF Life
  <2> QED BY <1>1, <2>1 DEF Lives, Begun
<1>4. roll[g] = Idle
  <2>1. SUFFICES ASSUME roll[g] # Idle PROVE FALSE
    OBVIOUS
  <2>2. Rolled(g, roll[g])
    BY <1>0, <2>1 DEF Rolling
  <2> QED BY <1>1, <2>2, ConstantFacts DEF Rolled
<1>5. Types'
  BY <1>0, <1>1, <1>2 DEF Types, Today
<1>6. Life'
  <2> SUFFICES ASSUME NEW h \in Gap PROVE Lives(h)'
    BY DEF Life
  <2>1. Lives(h)
    BY <1>0 DEF Life
  <2>2. CASE h = g
    BY <1>1, <1>2, <1>3, <2>2 DEF Lives, Begun, Active, From, Until, Closing
  <2>3. CASE h # g
    BY <1>1, <1>2, <2>1, <2>3 DEF Lives, Begun, Active, From, Until
  <2> QED BY <2>2, <2>3
<1>7. Chained'
  <2> SUFFICES ASSUME NEW h \in Gap PROVE Links(h)'
    BY DEF Chained
  <2>1. Links(h)
    BY <1>0 DEF Chained
  <2>2. (file'[h] # None => file'[h] = file[h]) /\ (task'[h] = "closing" => task[h] = "closing")
    BY <1>2
  <2> QED BY <1>1, <2>1, <2>2 DEF Links, Chain, Continued, From
<1>8. Rolling'
  <2> SUFFICES ASSUME NEW a \in Gap \cup {Timer}, roll[a] # Idle PROVE Rolled(a, roll[a])'
    BY <1>1 DEF Rolling
  <2>1. Rolled(a, roll[a]) /\ a # g
    BY <1>0, <1>4 DEF Rolling
  <2>2. task'[roll[a].gap] \notin {"none", "opened", "gone"} /\ (a # Timer => task'[a] = task[a])
    BY <1>2, <2>1 DEF Rolled
  <2> QED BY <1>1, <2>1, <2>2 DEF Rolled, Chain, Continued, From, Today
<1>9. Listed'
  BY <1>0, <1>1 DEF Listed, Chain, Continued, From, Active, Begun, Until
<1>10. Told'
  <2> SUFFICES ASSUME NEW h \in Gap PROVE Tale(h)'
    BY DEF Told
  <2>1. Tale(h)
    BY <1>0 DEF Told
  <2>2. \A k \in StopGap : /\ task'[k] \in Closing => task[k] \in Closing
                           /\ task'[k] = "opened" => task[k] = "opened"
    BY <1>2, ConstantFacts DEF Closing
  <2> QED BY <1>1, <2>1, <2>2 DEF Tale, Heir, Chain, Continued, From, Until, Active, Begun
<1>11. Booting'
  <2>0. phase # "up" => \A h \in storage : task'[h] \notin {"opened"} \cup Closing
    BY <1>0, <1>2, ConstantFacts DEF Booting, Types, Closing
  <2>1. phase # "down" /\ phase # "opening"
    BY <1>0, <1>1 DEF Booting, Closing
  <2>2. \A h \in Gap : task'[h] = "opened" => task[h] = "opened"
    BY <1>2
  <2>3. \A h \in StopGap : task[h] \in {"opened", "open"} => task'[h] = task[h]
    BY <1>1, <1>2, ConstantFacts
  <2> QED
    BY <1>0, <1>1, <2>0, <2>1, <2>2, <2>3, ConstantFacts
       DEF Booting, From, Until, Active, Begun, Today
<1>12. Artifacts'
  <2> SUFFICES ASSUME NEW a \in ready PROVE Written(a)'
    BY <1>1 DEF Artifacts
  <2>1. Written(a) /\ a.gap \in Gap
    BY <1>0, ArtifactFacts DEF Artifacts
  <2> QED BY <1>1, <1>2, <2>1 DEF Written, From, Until
<1>13. Clear'
  <2> SUFFICES ASSUME NEW h \in Gap \ blurred PROVE Exact(h)'
    BY <1>1 DEF Clear
  <2>1. Exact(h)
    BY <1>0 DEF Clear
  <2>2. CASE h = g
    BY <1>1, <1>2, <2>1, <2>2 DEF Exact, Ended, From, Until, Closing
  <2>3. CASE h # g
    BY <1>1, <1>2, <2>1, <2>3 DEF Exact, Ended, From, Until
  <2> QED BY <2>2, <2>3
<1> QED
  BY <1>5, <1>6, <1>7, <1>8, <1>9, <1>10, <1>11, <1>12, <1>13 DEF Inv

-----------------------------------------------------------------------------
\* Rolling a gap into the next day

LEMMA RollKnown ==
  ASSUME Inv, NEW a \in Gap \cup {Timer}, roll[a].step # "idle"
  PROVE  LET r == roll[a] IN
         /\ roll[a] # Idle /\ Rolled(a, r) /\ r.gap \in Gap
         /\ r.day \in Nat /\ r.day > 0 /\ r.day \in Days /\ r.target \in Nat
         /\ Start(r.day) \in Nat /\ Start(r.day) <= now
         /\ Start(r.day) - 1 \in Nat /\ Day(Start(r.day)) = r.day
         /\ Day(Start(r.day) - 1) = r.day - 1
         /\ task[r.gap] # "none" /\ phase # "down"
<1>0. Types /\ Rolling /\ Booting
  BY DEF Inv
<1> DEFINE r == roll[a]
<1>1. roll[a] # Idle
  BY DEF Idle
<1>2. Rolled(a, r)
  BY <1>0, <1>1 DEF Rolling
<1>3. r.gap \in Gap /\ r.day \in Nat /\ r.target \in Nat /\ now \in Nat /\ Today \in Nat
      /\ Day(From(r.gap)) \in Nat /\ Day(From(r.gap)) < r.day
      /\ r.day <= r.target /\ r.target <= Today
  BY <1>0, <1>2, RollFacts, TypeFacts DEF Rolled
<1>4. r.day > 0 /\ r.day <= Today
  BY <1>3
<1>5. Start(r.day) \in Nat /\ Start(r.day) <= now
  BY <1>3, <1>4, StartFacts, DayOf DEF Today
<1>6. Start(r.day) - 1 \in Nat /\ Day(Start(r.day)) = r.day
      /\ Day(Start(r.day) - 1) = r.day - 1
  BY <1>3, <1>4, DayStart
<1>7. r.day \in Days
  BY <1>0, <1>3, <1>4, TypeFacts, DayFacts, ConstantFacts DEF Days
<1>8. task[r.gap] # "none" /\ phase # "down"
  BY <1>0, <1>1, <1>2 DEF Rolled, Booting
<1> QED BY <1>1, <1>2, <1>3, <1>4, <1>5, <1>6, <1>7, <1>8

\* Publishing the CLOSED of a day or the OPEN of the next.
LEMMA RollPublishesStep ==
  ASSUME Inv, NEW a \in Gap \cup {Timer}, RollClose(a) \/ RollOpen(a)
  PROVE  Inv'
<1>0. /\ Types /\ Life /\ Chained /\ Rolling /\ Listed /\ Told /\ Booting
      /\ Artifacts /\ Clear
  BY DEF Inv
<1>1. /\ roll[a].step # "idle"
      /\ now' = now /\ phase' = phase /\ mark' = mark /\ stale' = stale
      /\ storage' = storage /\ task' = task /\ observed' = observed
      /\ timer' = timer /\ file' = file /\ sealed' = sealed /\ lost' = lost
      /\ blurred' = blurred /\ refused' = refused
  BY DEF RollClose, RollOpen, boot, closes, history
<1> DEFINE r == roll[a]
           c == IF r.step = "close" THEN Artifact(r.gap, "CLOSED", Start(r.day) - 1, TRUE)
                ELSE Artifact(r.gap, "OPEN", Start(r.day), FALSE)
           next == IF r.step = "close" THEN "open" ELSE "file"
<1>2. /\ Rolled(a, r) /\ r.gap \in Gap
      /\ r.day \in Nat /\ r.day > 0 /\ r.day \in Days /\ r.target \in Nat
      /\ Start(r.day) \in Nat /\ Start(r.day) <= now
      /\ Start(r.day) - 1 \in Nat /\ Day(Start(r.day)) = r.day
      /\ Day(Start(r.day) - 1) = r.day - 1
      /\ task[r.gap] # "none" /\ phase # "down"
  BY <1>1, RollKnown
<1>3. /\ r.step \in {"close", "open"} /\ ready' = ready \cup {c}
      /\ roll' = [roll EXCEPT ![a].step = next]
  BY DEF RollClose, RollOpen
<1>4. /\ c.gap = r.gap /\ c.state = (IF r.step = "close" THEN "CLOSED" ELSE "OPEN")
      /\ c.at = (IF r.step = "close" THEN Start(r.day) - 1 ELSE Start(r.day))
      /\ c.more = (r.step = "close") /\ c.at \in 0..now
      /\ c \in [gap : Gap, state : {"OPEN", "CLOSED"}, at : 0..now, more : BOOLEAN]
      /\ r.step # "close" => Artifact(r.gap, "OPEN", Start(r.day), FALSE) \in ready'
  <2>1. now \in Nat
    BY <1>0, TypeFacts
  <2>2. Start(r.day) \in 0..now /\ Start(r.day) - 1 \in 0..now
    BY <1>2, <2>1
  <2>3. CASE r.step = "close"
    BY <1>2, <2>2, <2>3 DEF Artifact
  <2>4. CASE r.step # "close"
    <3>1. Artifact(r.gap, "OPEN", Start(r.day), FALSE) \in ready'
      BY <1>3, <2>4
    <3> QED BY <1>2, <2>2, <2>4, <3>1 DEF Artifact
  <2> QED BY <2>3, <2>4
<1> HIDE DEF c
<1>5. /\ \A b \in Gap \cup {Timer} :
            roll'[b] = IF b = a THEN [r EXCEPT !.step = next] ELSE roll[b]
      /\ roll' \in [Gap \cup {Timer} ->
                 [step : Steps, gap : Gap \cup {Timer}, day : Nat, target : Nat]]
      /\ \A b \in Gap \cup {Timer} :
            roll'[b].gap = roll[b].gap /\ roll'[b].day = roll[b].day
            /\ roll'[b].target = roll[b].target
      /\ roll'[a].step = next
  BY <1>0, <1>3 DEF Types, Steps
<1>6. Types'
  BY <1>0, <1>1, <1>3, <1>4, <1>5 DEF Types, Today
<1>7. Life' /\ Chained' /\ Told'
  <2>1. Life'
    <3> SUFFICES ASSUME NEW h \in Gap PROVE Lives(h)'
      BY DEF Life
    <3>1. Lives(h)
      BY <1>0 DEF Life
    <3> QED BY <1>1, <1>3, <3>1 DEF Lives, Begun, Active, From, Until
  <2>2. Chained'
    <3> SUFFICES ASSUME NEW h \in Gap PROVE Links(h)'
      BY DEF Chained
    <3>1. Links(h)
      BY <1>0 DEF Chained
    <3> QED BY <1>1, <1>3, <3>1 DEF Links, Chain, Continued, From
  <2>3. Told'
    <3> SUFFICES ASSUME NEW h \in Gap PROVE Tale(h)'
      BY DEF Told
    <3>1. Tale(h)
      BY <1>0 DEF Told
    <3> QED BY <1>1, <1>3, <3>1 DEF Tale, Heir, Chain, Continued, From, Until, Active, Begun
  <2> QED BY <2>1, <2>2, <2>3
<1>8. Rolling'
  <2> SUFFICES ASSUME NEW b \in Gap \cup {Timer}, roll'[b] # Idle PROVE Rolled(b, roll[b])'
    BY DEF Rolling
  <2>1. CASE b = a
    <3>1. roll'[a].step = next /\ roll'[a].gap = r.gap /\ roll'[a].day = r.day
          /\ roll'[a].target = r.target
      BY <1>5
    <3>2. next = "file" => Artifact(r.gap, "OPEN", Start(r.day), FALSE) \in ready'
      BY <1>4
    <3>3. next # "idle" /\ ready \subseteq ready'
      BY <1>3
    <3> QED BY <1>1, <1>2, <2>1, <3>1, <3>2, <3>3
            DEF Rolled, Chain, Continued, From, Today
  <2>2. CASE b # a
    <3>1. roll'[b] = roll[b] /\ Rolled(b, roll[b])
      BY <1>0, <1>5, <2>2 DEF Rolling
    <3>2. ready \subseteq ready'
      BY <1>3
    <3> QED BY <1>1, <3>1, <3>2 DEF Rolled, Chain, Continued, From, Today
  <2> QED BY <2>1, <2>2
<1>9. Listed'
  <2>1. roll'[Timer].gap = roll[Timer].gap
    BY <1>5
  <2> QED BY <1>0, <1>1, <1>3, <2>1 DEF Listed, Chain, Continued, From, Active, Begun, Until
<1>10. Booting'
  BY <1>0, <1>1, <1>2 DEF Booting, From, Until, Active, Begun, Today
<1>11. Artifacts'
  <2> SUFFICES ASSUME NEW x \in ready' PROVE Written(x)'
    BY DEF Artifacts
  <2>1. CASE x = c
    <3>1. r.day - 1 + 1 = r.day /\ Day(From(r.gap)) < r.day
      BY <1>2 DEF Rolled
    <3> QED BY <1>1, <1>2, <1>4, <2>1, <3>1 DEF Written, From
  <2>2. CASE x # c
    <3>1. Written(x)
      BY <1>0, <1>3, <2>2 DEF Artifacts
    <3> QED BY <1>1, <3>1 DEF Written, From, Until
  <2> QED BY <2>1, <2>2
<1>12. Clear'
  <2> SUFFICES ASSUME NEW h \in Gap \ blurred PROVE Exact(h)'
    BY <1>1 DEF Clear
  <2>1. Exact(h)
    BY <1>0 DEF Clear
  <2>2. roll'[Timer].gap = roll[Timer].gap
    BY <1>5
  <2>3. CASE h # r.gap \/ c.state # "OPEN"
    <3>1. \A x \in ready' : x.gap = h /\ x.state = "OPEN" => x \in ready
      BY <1>3, <1>4, <2>3
    <3> QED BY <1>1, <1>3, <2>1, <2>2, <3>1 DEF Exact, Ended, From, Until
  <2>4. CASE h = r.gap /\ c.state = "OPEN"
    <3>1. CASE a = Timer
      <4>1. task[h] \notin Closing \cup {"closed"}
        BY <2>1, <2>4, <3>1 DEF Exact
      <4> QED BY <1>1, <2>1, <4>1 DEF Exact, Until, Closing
    <3>2. CASE a # Timer
      <4>1. task[h] = "observed" /\ r.target = Day(observed[h]) /\ r.day <= r.target
        BY <1>2, <2>4, <3>2 DEF Rolled
      <4>2. Day(c.at) <= Day(observed[h])
        BY <1>2, <1>4, <2>4, <4>1
      <4>3. Ended(h, observed[h])'
        BY <1>1, <1>3, <2>1, <4>1, <4>2 DEF Exact, Ended, Closing
      <4> QED BY <1>1, <1>3, <2>1, <2>2, <4>1, <4>3 DEF Exact, Until, Closing
    <3> QED BY <3>1, <3>2
  <2> QED BY <2>3, <2>4
<1> QED
  BY <1>6, <1>7, <1>8, <1>9, <1>10, <1>11, <1>12 DEF Inv

\* What a roll that is about to look at the day r.day needs.
Begins(a, r) ==
  /\ r \in [step : {"read", "file"}, gap : Gap, day : Nat, target : Nat]
  /\ task[r.gap] \notin {"none", "opened", "gone"}
  /\ Day(From(r.gap)) < r.day /\ r.target <= Today
  /\ Chain(r.gap, r.day - 1)
  /\ a # Timer => r.gap = a /\ task[a] = "observed" /\ r.target = Day(observed[a])
  /\ a = Timer => timer.step = "roll" /\ r.target = timer.next

\* And what the step does beside.
OnlyRolls(a, r) ==
  /\ roll[a] = Idle \/ roll[a].gap = r.gap
  /\ now' = now /\ phase' = phase /\ mark' = mark /\ stale' = stale
  /\ storage' = storage /\ observed' = observed /\ ready' = ready
  /\ sealed' = sealed /\ lost' = lost /\ refused' = refused
  /\ file' \in [Gap -> {None} \cup (0..now)]
  /\ \A h \in Gap : \/ file'[h] = file[h]
                    \/ h = r.gap /\ file'[h] # None /\ Day(file'[h]) = r.day - 1
  /\ timer' \in [step : {"wait", "roll"}, next : Nat, todo : SUBSET Gap]
  /\ timer'.step = timer.step /\ timer'.next = timer.next
  /\ \A h \in timer.todo : h \in timer'.todo \/ (a = Timer /\ h = r.gap)
  /\ blurred' \subseteq Gap /\ blurred \subseteq blurred'
  /\ a = Timer => r.gap \in blurred' \/ task[r.gap] \notin Closing \cup {"closed"}

LEMMA TurnFacts ==
  ASSUME NEW r \in [step : {"read", "file"}, gap : Gap, day : Nat, target : Nat]
  PROVE  /\ Turn(r).gap = r.gap /\ Turn(r).day = r.day /\ Turn(r).target = r.target
         /\ Turn(r).step \in {"open", "close"} /\ Turn(r) # Idle
         /\ Turn(r) \in [step : Steps, gap : Gap \cup {Timer}, day : Nat, target : Nat]
<1>1. /\ Turn(r).gap = r.gap /\ Turn(r).day = r.day /\ Turn(r).target = r.target
      /\ Turn(r).step \in {"open", "close"}
      /\ Turn(r) \in [step : Steps, gap : Gap \cup {Timer}, day : Nat, target : Nat]
  BY DEF Turn, Steps
<1>2. Idle.step = "idle"
  BY DEF Idle
<1> QED BY <1>1, <1>2

\* A roll goes on with a day or ends, after its file operation if it has made one.
LEMMA RollsStep ==
  ASSUME Inv, NEW a \in Gap \cup {Timer}, NEW r, Begins(a, r), Rolls(a, r),
         OnlyRolls(a, r)
  PROVE  Inv'
<1>0. /\ Types /\ Life /\ Chained /\ Rolling /\ Listed /\ Told /\ Booting
      /\ Artifacts /\ Clear
  BY DEF Inv
<1>a. /\ roll[a] = Idle \/ roll[a].gap = r.gap
      /\ now' = now /\ phase' = phase /\ mark' = mark /\ stale' = stale
      /\ storage' = storage /\ observed' = observed /\ ready' = ready
      /\ sealed' = sealed /\ lost' = lost /\ refused' = refused
      /\ file' \in [Gap -> {None} \cup (0..now)]
      /\ \A h \in Gap : \/ file'[h] = file[h]
                        \/ h = r.gap /\ file'[h] # None /\ Day(file'[h]) = r.day - 1
      /\ timer' \in [step : {"wait", "roll"}, next : Nat, todo : SUBSET Gap]
      /\ timer'.step = timer.step /\ timer'.next = timer.next
      /\ \A h \in timer.todo : h \in timer'.todo \/ (a = Timer /\ h = r.gap)
      /\ blurred' \subseteq Gap /\ blurred \subseteq blurred'
      /\ a = Timer => r.gap \in blurred' \/ task[r.gap] \notin Closing \cup {"closed"}
  BY DEF OnlyRolls
<1> USE <1>a
<1> DEFINE on == r.day <= r.target
           end == ~on /\ a # Timer
<1>1. /\ r \in [step : {"read", "file"}, gap : Gap, day : Nat, target : Nat]
      /\ r.gap \in Gap /\ r.day \in Nat /\ r.target \in Nat /\ r.target <= Today
      /\ Day(From(r.gap)) < r.day /\ Chain(r.gap, r.day - 1)
      /\ task[r.gap] \notin {"none", "opened", "gone"}
      /\ a # Timer => r.gap = a /\ task[a] = "observed" /\ r.target = Day(observed[a])
      /\ a = Timer => timer.step = "roll" /\ r.target = timer.next
  BY DEF Begins
<1>2. roll' = [roll EXCEPT ![a] = IF on THEN Turn(r) ELSE Idle]
      /\ task' = IF end THEN [task EXCEPT ![a] = "closing"] ELSE task
  BY DEF Rolls, More
<1> HIDE DEF end
<1>3. /\ task' \in [Gap -> Tasks]
      /\ \A h \in Gap : task'[h] = IF end /\ h = a THEN "closing" ELSE task[h]
      /\ end => a \in Gap /\ a = r.gap /\ task[a] = "observed"
                /\ r.target = Day(observed[a]) /\ ~on
  BY <1>0, <1>1, <1>2, ConstantFacts DEF Types, Tasks, Closing, end
<1>4. /\ Turn(r).gap = r.gap /\ Turn(r).day = r.day /\ Turn(r).target = r.target
      /\ Turn(r).step \in {"open", "close"} /\ Turn(r) # Idle
      /\ Turn(r) \in [step : Steps, gap : Gap \cup {Timer}, day : Nat, target : Nat]
  BY <1>1, TurnFacts
<1>5. Idle \in [step : Steps, gap : Gap \cup {Timer}, day : Nat, target : Nat]
      /\ Idle.gap = Timer
  BY DEF Idle, Steps
<1>6. /\ \A b \in Gap \cup {Timer} :
            roll'[b] = IF b = a THEN (IF on THEN Turn(r) ELSE Idle) ELSE roll[b]
      /\ roll' \in [Gap \cup {Timer} ->
                 [step : Steps, gap : Gap \cup {Timer}, day : Nat, target : Nat]]
  BY <1>0, <1>2, <1>4, <1>5 DEF Types
<1>7. end => roll'[a] = Idle
  BY <1>3, <1>6
<1> HIDE DEF on
\* a roll that ends has reached the day of the close
<1>8. end => Chain(a, Day(observed[a]))
  <2>1. ~on => r.target <= r.day - 1
    BY <1>1 DEF on
  <2> QED BY <1>1, <1>3, <2>1, DayFacts, ConstantFacts DEF Chain, Days
<1>9. phase \notin {"down", "opening"}
  <2>1. CASE a = Timer
    BY <1>0, <1>1, <2>1 DEF Booting
  <2>2. CASE a # Timer
    <3>1. a \in Gap /\ task[a] = "observed"
      BY <1>1, <2>2
    <3> QED BY <1>0, <3>1 DEF Booting, Closing
  <2> QED BY <2>1, <2>2
<1>10. Types'
  BY <1>0, <1>3, <1>6 DEF Types, Today
<1>11. Life'
  <2> SUFFICES ASSUME NEW h \in Gap PROVE Lives(h)'
    BY DEF Life
  <2>1. Lives(h)
    BY <1>0 DEF Life
  <2>2. /\ file'[h] = None => file[h] = None
        /\ file'[h] # None => file[h] # None \/ task[h] \notin {"none", "opened", "gone"}
    BY <1>1
  <2>3. CASE end /\ h = a
    BY <1>3, <2>1, <2>2, <2>3 DEF Lives, Begun, Active, From, Until, Closing
  <2>4. CASE ~(end /\ h = a)
    BY <1>3, <2>1, <2>2, <2>4 DEF Lives, Begun, Active, From, Until
  <2> QED BY <2>3, <2>4
<1>12. Chained'
  <2> SUFFICES ASSUME NEW h \in Gap PROVE Links(h)'
    BY DEF Chained
  <2>1. Links(h)
    BY <1>0 DEF Chained
  <2>2. file'[h] # None => Day(From(h)) <= Day(file'[h]) /\ Chain(h, Day(file'[h]))
    <3>1. CASE file'[h] = file[h]
      BY <2>1, <3>1 DEF Links
    <3>2. CASE h = r.gap /\ file'[h] # None /\ Day(file'[h]) = r.day - 1
      BY <1>0, <1>1, <3>2, TypeFacts
    <3> QED BY <3>1, <3>2
  <2>3. task'[h] = "closing" => Chain(h, Day(observed[h]))
    BY <1>3, <1>8, <2>1 DEF Links
  <2> QED BY <2>2, <2>3 DEF Links, Chain, Continued, From
<1>13. Rolling'
  <2> SUFFICES ASSUME NEW b \in Gap \cup {Timer}, roll'[b] # Idle PROVE Rolled(b, roll[b])'
    BY DEF Rolling
  <2>1. CASE b = a
    <3>1. on /\ ~end /\ roll'[a] = Turn(r)
      BY <1>3, <1>6, <2>1
    <3>2. r.day <= r.target
      BY <3>1 DEF on
    <3>3. task' = task
      BY <1>2, <3>1
    <3> QED BY <1>1, <1>4, <2>1, <3>1, <3>2, <3>3 DEF Rolled, Chain, Continued, From, Today
  <2>2. CASE b # a
    <3>1. roll'[b] = roll[b] /\ Rolled(b, roll[b])
      BY <1>0, <1>6, <2>2 DEF Rolling
    <3>2. task'[roll[b].gap] \notin {"none", "opened", "gone"}
      BY <1>3, <3>1 DEF Rolled
    <3>3. b # Timer => task'[b] = task[b]
      BY <1>3, <2>2
    <3> QED BY <3>1, <3>2, <3>3 DEF Rolled, Chain, Continued, From, Today
  <2> QED BY <2>1, <2>2
<1>14. Listed'
  <2> SUFFICES ASSUME timer.step = "roll", NEW h \in Gap, Active(h)
               PROVE  h \in timer'.todo \/ roll'[Timer].gap = h \/ Chain(h, timer.next - 1)
    BY <1>0 DEF Listed, Chain, Continued, From, Active, Begun, Until
  <2>1. h \in timer.todo \/ roll[Timer].gap = h \/ Chain(h, timer.next - 1)
    BY <1>0 DEF Listed
  <2>2. CASE a # Timer
    BY <1>6, <2>1, <2>2
  <2>3. CASE a = Timer /\ h = r.gap
    <3>1. CASE on
      BY <1>4, <1>6, <2>3, <3>1
    <3>2. CASE ~on
      <4>1. timer.next <= r.day - 1
        BY <1>1, <2>3, <3>2 DEF on
      <4> QED BY <1>0, <1>1, <2>3, <4>1, RollFacts, DayFacts, ConstantFacts DEF Chain, Days
    <3> QED BY <3>1, <3>2
  <2>4. CASE a = Timer /\ h # r.gap
    <3>1. roll[Timer].gap # h
      BY <1>5, <2>4, ConstantFacts
    <3> QED BY <2>1, <2>4, <3>1
  <2> QED BY <2>2, <2>3, <2>4
<1>15. Told'
  <2> SUFFICES ASSUME NEW h \in Gap PROVE Tale(h)'
    BY DEF Told
  <2>1. Tale(h)
    BY <1>0 DEF Told
  <2>2. \A k \in StopGap : /\ task'[k] \in Closing => task[k] \in Closing
                           /\ task'[k] = "opened" => task[k] = "opened"
    BY <1>3, ConstantFacts DEF Closing
  <2> QED BY <2>1, <2>2 DEF Tale, Heir, Chain, Continued, From, Until, Active, Begun
<1>16. Booting'
  <2>0. phase # "up" => \A h \in storage : task'[h] \notin {"opened"} \cup Closing
    BY <1>0, <1>3, ConstantFacts DEF Booting, Types, Closing
  <2>1. phase = "boot" => \A h \in StopGap : task[h] \in {"opened", "open"} => task'[h] = task[h]
    BY <1>3, ConstantFacts
  <2>2. \A h \in Gap : task'[h] = "opened" => task[h] = "opened"
    BY <1>3
  <2> QED BY <1>0, <1>9, <2>0, <2>1, <2>2, ConstantFacts
          DEF Booting, From, Until, Active, Begun, Today
<1>17. Artifacts'
  <2> SUFFICES ASSUME NEW x \in ready PROVE Written(x)'
    BY DEF Artifacts
  <2>1. Written(x) /\ x.gap \in Gap
    BY <1>0, ArtifactFacts DEF Artifacts
  <2> QED BY <1>3, <2>1 DEF Written, From, Until
<1>18. Clear'
  <2> SUFFICES ASSUME NEW h \in Gap \ blurred' PROVE Exact(h)'
    BY DEF Clear
  <2>1. Exact(h)
    BY <1>0 DEF Clear
  <2>2. task'[h] \in Closing => task[h] \in Closing
    BY <1>3 DEF Closing
  <2>3. task[h] \in Closing \cup {"closed"} => roll'[Timer].gap # h
    <3>1. CASE a # Timer
      BY <1>6, <2>1, <3>1 DEF Exact
    <3>2. CASE a = Timer
      BY <1>4, <1>5, <1>6, <3>2, ConstantFacts
    <3> QED BY <3>1, <3>2
  <2>4. task[h] = "closed" => file'[h] = None
    <3>1. CASE a # Timer
      BY <1>1, <2>1, <3>1 DEF Exact
    <3>2. CASE a = Timer
      BY <2>1, <3>2 DEF Exact
    <3> QED BY <3>1, <3>2
  <2>5. \/ task'[h] = task[h]
        \/ task'[h] = "closing" /\ task[h] = "observed"
    BY <1>3
  <2> QED BY <2>1, <2>2, <2>3, <2>4, <2>5 DEF Exact, Ended, From, Until, Closing
<1> QED
  BY <1>10, <1>11, <1>12, <1>13, <1>14, <1>15, <1>16, <1>17, <1>18 DEF Inv

LEMMA CloseReadsStep == ASSUME Inv, NEW g \in Gap, CloseReads(g) PROVE Inv'
<1> DEFINE r == [step |-> "read", gap |-> g, day |-> Day(file[g]) + 1,
                 target |-> Day(observed[g])]
<1>0. Types /\ Life /\ Chained
  BY DEF Inv
<1>1. task[g] = "observed" /\ roll[g] = Idle /\ Rolls(g, r)
  BY DEF CloseReads, RollFrom
<1>2. Lives(g) /\ Links(g)
  BY <1>0 DEF Life, Chained
<1>3. file[g] # None /\ observed[g] \in Moments /\ Day(From(g)) <= Day(file[g])
      /\ Chain(g, Day(file[g]))
  BY <1>1, <1>2 DEF Lives, Links, Closing
<1>4. /\ Day(file[g]) \in Nat /\ Day(From(g)) \in Nat /\ observed[g] \in Nat
      /\ observed[g] <= now /\ now \in Nat
  <2>1. observed[g] # None
    BY <1>0, <1>3, MomentFacts, TypeFacts
  <2> QED BY <1>0, <1>3, <2>1, TypeFacts
<1>5. Day(observed[g]) \in Nat /\ Day(observed[g]) <= Today
  BY <1>4, DayFacts, DayOrder DEF Today
<1>7. g # Timer /\ r.gap = g
  BY ConstantFacts
<1>6. Begins(g, r)
  <2>1. r \in [step : {"read", "file"}, gap : Gap, day : Nat, target : Nat]
    BY <1>4, <1>5
  <2>2. Day(file[g]) + 1 - 1 = Day(file[g]) /\ Day(From(g)) < Day(file[g]) + 1
    BY <1>3, <1>4
  <2>3. r.day = Day(file[g]) + 1 /\ r.target = Day(observed[g])
    OBVIOUS
  <2>4. Chain(g, r.day - 1)
    BY <1>3, <1>4, <2>3
  <2> HIDE DEF r
  <2> QED BY <1>1, <1>5, <1>7, <2>1, <2>2, <2>3, <2>4 DEF Begins
<1>8. OnlyRolls(g, r)
  <2> HIDE DEF r
  <2>1. /\ now' = now /\ phase' = phase /\ mark' = mark /\ stale' = stale
        /\ storage' = storage /\ observed' = observed /\ ready' = ready
        /\ sealed' = sealed /\ lost' = lost /\ refused' = refused
        /\ file' = file /\ timer' = timer /\ blurred' = blurred
    BY DEF CloseReads, boot, disk, history
  <2>2. file' \in [Gap -> {None} \cup (0..now)] /\ blurred' \subseteq Gap
    BY <1>0, <2>1 DEF Types
  <2>3. timer' \in [step : {"wait", "roll"}, next : Nat, todo : SUBSET Gap]
    BY <1>0, <2>1 DEF Types
  <2> QED BY <1>1, <1>7, <2>1, <2>2, <2>3 DEF OnlyRolls
<1> QED BY <1>1, <1>6, <1>8, RollsStep

LEMMA RollFileStep ==
  ASSUME Inv, NEW a \in Gap \cup {Timer}, RollFile(a) PROVE Inv'
<1> DEFINE s == roll[a]
           r == [s EXCEPT !.day = @ + 1]
<1>0. Types /\ Life /\ Clear
  BY DEF Inv
<1>1. s.step = "file" /\ Rolls(a, r) /\ file' = [file EXCEPT ![s.gap] = Start(s.day)]
  BY DEF RollFile
<1>2. /\ Rolled(a, s) /\ s.gap \in Gap /\ s.day \in Nat /\ s.day > 0 /\ s.target \in Nat
      /\ Start(s.day) \in Nat /\ Start(s.day) <= now /\ Day(Start(s.day)) = s.day
      /\ now \in Nat /\ s.day \in Days
  BY <1>0, <1>1, RollKnown, TypeFacts
<1>3. s \in [step : Steps, gap : Gap \cup {Timer}, day : Nat, target : Nat]
  BY <1>0 DEF Types
<1>4. r \in [step : {"read", "file"}, gap : Gap, day : Nat, target : Nat]
      /\ r.gap = s.gap /\ r.day = s.day + 1 /\ r.target = s.target
  BY <1>1, <1>2, <1>3
<1>5. Day(From(s.gap)) \in Nat
  BY <1>0, <1>2, TypeFacts
<1>6. Chain(s.gap, s.day)
  <2>1. Chain(s.gap, s.day - 1) /\ Continued(s.gap, s.day)
    BY <1>1, <1>2 DEF Rolled
  <2>2. \A d \in Days : d <= s.day => d = s.day \/ d <= s.day - 1
    <3>1. Days \subseteq Nat
      BY ConstantFacts, DayFacts DEF Days
    <3>2. s.day \in Nat
      BY <1>2
    <3> HIDE DEF s
    <3> QED BY <3>1, <3>2
  <2> QED BY <2>1, <2>2 DEF Chain
<1>7. Begins(a, r)
  <2>1. r.day - 1 = s.day /\ Day(From(s.gap)) < r.day
    BY <1>2, <1>4, <1>5 DEF Rolled
  <2> QED BY <1>2, <1>4, <1>6, <2>1 DEF Begins, Rolled
<1>8. /\ file' \in [Gap -> {None} \cup (0..now)]
      /\ \A h \in Gap : \/ file'[h] = file[h]
                        \/ h = s.gap /\ file'[h] # None /\ Day(file'[h]) = s.day
  <2>1. Start(s.day) \in 0..now /\ Start(s.day) # None
    BY <1>0, <1>2, TypeFacts
  <2>2. file \in [Gap -> {None} \cup (0..now)]
    BY <1>0 DEF Types
  <2>3. file' \in [Gap -> {None} \cup (0..now)]
    BY <1>1, <1>2, <2>1, <2>2
  <2>4. \A h \in Gap : file'[h] = IF h = s.gap THEN Start(s.day) ELSE file[h]
    BY <1>1, <2>2
  <2> QED BY <1>2, <2>1, <2>3, <2>4
<1>9. r.day - 1 = s.day
  BY <1>2, <1>4
<1>10. a = Timer => s.gap \in blurred \/ task[s.gap] \notin Closing \cup {"closed"}
  BY <1>0, <1>2 DEF Clear, Exact
<1>11. /\ now' = now /\ phase' = phase /\ mark' = mark /\ stale' = stale
       /\ storage' = storage /\ observed' = observed /\ ready' = ready
       /\ sealed' = sealed /\ lost' = lost /\ refused' = refused
       /\ timer' = timer /\ blurred' = blurred
       /\ timer \in [step : {"wait", "roll"}, next : Nat, todo : SUBSET Gap]
       /\ blurred \subseteq Gap
  BY <1>0 DEF RollFile, Types, boot, history
<1>12. OnlyRolls(a, r)
  <2>1. roll[a].gap = r.gap
    BY <1>4
  <2> HIDE DEF s, r
  <2>2. \A h \in Gap : \/ file'[h] = file[h]
                       \/ h = r.gap /\ file'[h] # None /\ Day(file'[h]) = r.day - 1
    BY <1>4, <1>8, <1>9
  <2>3. a = Timer => r.gap \in blurred' \/ task[r.gap] \notin Closing \cup {"closed"}
    BY <1>4, <1>10, <1>11
  <2>4. timer' \in [step : {"wait", "roll"}, next : Nat, todo : SUBSET Gap]
    BY <1>11
  <2> QED BY <1>8, <1>11, <2>1, <2>2, <2>3, <2>4 DEF OnlyRolls
<1> QED BY <1>1, <1>7, <1>12, RollsStep

LEMMA MidnightReadsStep == Inv /\ MidnightReads => Inv'
<1> SUFFICES ASSUME Inv, MidnightReads PROVE Inv'
  OBVIOUS
<1>0. Types /\ Life /\ Chained /\ Clear /\ Listed
  BY DEF Inv
<1>1. PICK g \in timer.todo :
        /\ file[g] # None
        /\ timer' = [timer EXCEPT !.todo = @ \ {g}]
        /\ RollFrom(Timer, g, timer.next)
        /\ blurred' = IF task[g] \in Closing THEN blurred \cup {g} ELSE blurred
  BY DEF MidnightReads
<1> DEFINE r == [step |-> "read", gap |-> g, day |-> Day(file[g]) + 1,
                 target |-> timer.next]
<1>2. /\ timer.step = "roll" /\ roll[Timer] = Idle /\ Rolls(Timer, r)
      /\ g \in Gap /\ timer.next \in Nat
  BY <1>0, <1>1, RollFacts DEF MidnightReads, RollFrom
<1>3. /\ Lives(g) /\ Day(From(g)) <= Day(file[g]) /\ Chain(g, Day(file[g]))
      /\ Day(file[g]) \in Nat /\ Day(From(g)) \in Nat
  BY <1>0, <1>1, <1>2, TypeFacts DEF Life, Chained, Links
<1>4. task[g] \notin {"none", "opened", "gone"}
  BY <1>1, <1>3 DEF Lives
<1>5. timer.next <= Today
  BY <1>0, <1>2, TypeFacts, DayOf DEF Listed, Today
<1>6. Begins(Timer, r)
  <2>1. r \in [step : {"read", "file"}, gap : Gap, day : Nat, target : Nat]
    BY <1>2, <1>3
  <2>2. Day(file[g]) + 1 - 1 = Day(file[g]) /\ Day(From(g)) < Day(file[g]) + 1
    BY <1>3
  <2> QED BY <1>2, <1>3, <1>4, <1>5, <2>1, <2>2 DEF Begins
<1>7. /\ timer' \in [step : {"wait", "roll"}, next : Nat, todo : SUBSET Gap]
      /\ timer'.step = timer.step /\ timer'.next = timer.next
      /\ \A h \in timer.todo : h \in timer'.todo \/ h = g
  BY <1>0, <1>1 DEF Types
<1>8. /\ blurred' \subseteq Gap /\ blurred \subseteq blurred'
      /\ g \in blurred' \/ task[g] \notin Closing \cup {"closed"}
  <2>1. g \in blurred \/ task[g] # "closed"
    BY <1>0, <1>1, <1>2 DEF Clear, Exact
  <2> QED BY <1>0, <1>1, <1>2, <2>1 DEF Types
<1>9. /\ now' = now /\ phase' = phase /\ mark' = mark /\ stale' = stale
      /\ storage' = storage /\ observed' = observed /\ ready' = ready
      /\ sealed' = sealed /\ lost' = lost /\ refused' = refused /\ file' = file
      /\ file \in [Gap -> {None} \cup (0..now)] /\ r.gap = g
  BY <1>0 DEF MidnightReads, Types, boot, disk
<1>10. OnlyRolls(Timer, r)
  <2> HIDE DEF r
  <2>1. \A h \in timer.todo : h \in timer'.todo \/ h = r.gap
    BY <1>7, <1>9
  <2>2. r.gap \in blurred' \/ task[r.gap] \notin Closing \cup {"closed"}
    BY <1>8, <1>9
  <2>3. timer' \in [step : {"wait", "roll"}, next : Nat, todo : SUBSET Gap]
    BY <1>7
  <2>4. file' \in [Gap -> {None} \cup (0..now)]
    BY <1>9
  <2> QED BY <1>2, <1>7, <1>8, <1>9, <2>1, <2>2, <2>3, <2>4 DEF OnlyRolls
<1> QED BY <1>2, <1>6, <1>10, RollsStep

-----------------------------------------------------------------------------
\* The end of the process

\* The watermark does not pass an open storage gap.
LEMMA DurableFacts ==
  ASSUME Inv
  PROVE  /\ Durable \in 0..now
         /\ \A g \in storage : Active(g) => Durable <= From(g)
<1>0. Types /\ Life /\ Booting
  BY DEF Inv
<1>1. now \in Nat
  BY <1>0, TypeFacts
<1> DEFINE Unclosed == {g \in storage : lost[g].from < Forever /\ lost[g].to = Forever}
<1>2. \A g \in storage : Active(g) <=> g \in Unclosed
  <2> SUFFICES ASSUME NEW g \in storage
               PROVE  lost[g].from # Forever <=> lost[g].from < Forever
    BY DEF Active, Begun
  <2>1. g \in Gap
    BY <1>0, ConstantFacts DEF Types
  <2> QED BY <1>0, <2>1, TypeFacts, ConstantFacts DEF From
<1>3. CASE Unclosed = {}
  <2>1. Durable = now
    BY <1>3 DEF Durable
  <2> QED BY <1>1, <1>2, <1>3, <2>1
<1>4. CASE Unclosed # {}
  <2>1. PICK g \in storage : g \in Unclosed
    BY <1>4
  <2> DEFINE h == CHOOSE k \in storage : lost[k].from < Forever /\ lost[k].to = Forever
  <2>2. h \in storage /\ h \in Unclosed /\ Durable = From(h)
    BY <2>1 DEF Durable, From
  <2>3. \A k \in storage : Active(k) => k = h
    BY <1>0, <1>2, <2>2 DEF Booting
  <2>4. Active(h) /\ h \in Gap
    BY <1>0, <1>2, <2>2, ConstantFacts DEF Types
  <2>5. From(h) \in Nat /\ From(h) <= now
    BY <1>0, <2>4, TypeFacts DEF Life, Lives, Active
  <2> HIDE DEF h
  <2> QED BY <1>1, <2>2, <2>3, <2>5
<1> QED BY <1>3, <1>4

LEMMA EndsStep == ASSUME Inv, Ends, refused' \subseteq Gap PROVE Inv'
<1>0. /\ Types /\ Life /\ Chained /\ Rolling /\ Listed /\ Told /\ Booting
      /\ Artifacts /\ Clear
  BY DEF Inv
<1> DEFINE kept(g) == task[g] \in {"none", "closed"}
           end(g) == Sooner(now, Start(Day(From(g)) + 1))
<1>1. /\ phase' = "down" /\ mark' = Durable /\ stale' = {}
      /\ now' = now /\ storage' = storage /\ observed' = observed
      /\ file' = file /\ ready' = ready /\ sealed' = sealed
      /\ blurred' = blurred \cup {g \in Gap : task[g] \in {"opened", "removing"}}
      /\ roll' = [a \in Gap \cup {Timer} |-> Idle]
      /\ timer' = [step |-> "wait", next |-> 0, todo |-> {}]
  BY DEF Ends, disk
<1>2. \A g \in Gap : Lives(g)
  BY <1>0 DEF Life
<1>3. /\ \A g \in Gap : task'[g] = IF file[g] # None THEN "open"
                                   ELSE IF kept(g) THEN task[g] ELSE "gone"
      /\ task' \in [Gap -> Tasks]
  <2>1. task' = [g \in Gap |-> IF file[g] # None THEN "open"
                               ELSE IF kept(g) THEN task[g] ELSE "gone"]
    BY DEF Ends
  <2>2. \A g \in Gap : task[g] \in Tasks
    BY <1>0 DEF Types
  <2> QED BY <2>1, <2>2 DEF Tasks
\* a gap of the process ends with it
<1>4. ASSUME NEW g \in Gap, task[g] = "opened"
      PROVE  /\ end(g) \in Nat /\ end(g) <= now /\ end(g) < Forever
             /\ From(g) <= end(g) /\ end(g) <= Start(Day(From(g)) + 1)
  <2>1. now \in Nat /\ now < Forever /\ From(g) \in Nat /\ From(g) <= now
    BY <1>0, <1>2, <1>4, TypeFacts DEF Lives, Begun
  <2>2. /\ Day(From(g)) \in Nat /\ Start(Day(From(g)) + 1) \in Nat
        /\ From(g) <= Start(Day(From(g)) + 1)
    <3>1. Day(From(g)) \in Nat /\ From(g) < Start(Day(From(g))) + DayLen
          /\ Start(Day(From(g))) \in Nat
      BY <2>1, DayFacts
    <3>2. Start(Day(From(g)) + 1) = Start(Day(From(g))) + DayLen
      BY <3>1, StartFacts
    <3>3. DayLen \in Nat
      BY ConstantFacts
    <3> QED BY <2>1, <3>1, <3>2, <3>3
  <2> QED BY <2>1, <2>2, ConstantFacts DEF Sooner
<1>5. /\ \A g \in Gap : From(g)' = From(g)
      /\ \A g \in Gap : Until(g)' = IF task[g] = "opened" THEN end(g) ELSE Until(g)
      /\ lost' \in [Gap -> [from : 0..Forever, to : 0..Forever]]
  <2>1. lost' = [g \in Gap |-> IF task[g] = "opened" THEN [from |-> From(g), to |-> end(g)]
                               ELSE lost[g]]
    BY DEF Ends, From
  <2>2. ASSUME NEW g \in Gap
        PROVE  lost[g] \in [from : 0..Forever, to : 0..Forever]
               /\ (task[g] = "opened" => end(g) \in 0..Forever /\ From(g) \in 0..Forever)
    <3>1. lost[g] \in [from : 0..Forever, to : 0..Forever] /\ From(g) \in 0..Forever
      BY <1>0 DEF Types, From
    <3>2. task[g] = "opened" => end(g) \in 0..Forever
      <4> HIDE DEF end
      <4> QED BY <1>4, ConstantFacts
    <3> QED BY <3>1, <3>2
  <2> HIDE DEF end
  <2> QED BY <2>1, <2>2 DEF From, Until
<1> HIDE DEF end, kept
<1>6. \A g \in Gap : /\ Begun(g)' <=> Begun(g)
                     /\ Active(g)' => Active(g)
                     /\ Active(g)' <=> Active(g) /\ task[g] # "opened"
  <2> SUFFICES ASSUME NEW g \in Gap PROVE (Begun(g)' <=> Begun(g))
                     /\ (Active(g)' <=> Active(g) /\ task[g] # "opened")
    OBVIOUS
  <2>1. task[g] = "opened" => end(g) # Forever
    BY <1>4, ConstantFacts
  <2>2. From(g)' = From(g) /\ Until(g)' = IF task[g] = "opened" THEN end(g) ELSE Until(g)
    BY <1>5
  <2> QED BY <2>1, <2>2 DEF Begun, Active, From, Until
<1>7. Durable \in 0..now /\ \A g \in storage : Active(g) => Durable <= From(g)
  BY DurableFacts
<1>8. Types'
  <2>1. Idle \in [step : Steps, gap : Gap \cup {Timer}, day : Nat, target : Nat]
    BY DEF Idle, Steps
  <2> QED BY <1>0, <1>1, <1>3, <1>5, <1>7, <2>1 DEF Types, Phases, Today
<1>9. Life'
  <2> SUFFICES ASSUME NEW g \in Gap PROVE Lives(g)'
    BY DEF Life
  <2>1. Lives(g) /\ task[g] \in Tasks
    BY <1>0, <1>2 DEF Types
  <2>2. CASE task[g] = "opened"
    <3>1. task'[g] = "gone" /\ file[g] = None /\ Begun(g)
      BY <1>3, <2>1, <2>2 DEF Lives, kept, Begun
    <3>2. ~Active(g)' /\ Begun(g)' /\ From(g)' = From(g) /\ Until(g)' = end(g)
      BY <1>5, <1>6, <2>2, <3>1
    <3> QED BY <1>1, <1>4, <2>1, <2>2, <3>1, <3>2 DEF Lives, Closing
  <2>3. CASE task[g] # "opened"
    <3>1. From(g)' = From(g) /\ Until(g)' = Until(g) /\ (Begun(g)' <=> Begun(g))
          /\ (Active(g)' <=> Active(g))
      BY <1>5, <1>6, <2>3
    <3>2. \/ file[g] # None /\ task'[g] = "open" /\ task[g] # "none"
          \/ file[g] = None /\ task'[g] = task[g] /\ task[g] \in {"none", "closed"}
          \/ file[g] = None /\ task'[g] = "gone" /\ task[g] = "gone"
      BY <1>3, <2>1, <2>3 DEF Lives, Tasks, kept
    <3>3. Active(g) => file[g] # None
      BY <2>1, <2>3 DEF Lives, Closing
    <3>4. task'[g] \notin Closing \cup {"opened"}
      BY <3>2 DEF Closing
    <3>5. (task'[g] = "none" <=> ~Begun(g)) /\ (Active(g) => task'[g] = "open")
          /\ (task'[g] \in {"none", "gone"} => file[g] = None)
          /\ (task'[g] = "open" => file[g] # None)
      BY <2>1, <3>2, <3>3 DEF Lives
    <3> QED BY <1>1, <2>1, <3>1, <3>4, <3>5 DEF Lives
  <2> QED BY <2>2, <2>3
<1>10. Chained'
  <2> SUFFICES ASSUME NEW g \in Gap PROVE Links(g)'
    BY DEF Chained
  <2>1. Links(g) /\ From(g)' = From(g) /\ task'[g] # "closing"
    BY <1>0, <1>3, <1>5 DEF Chained, kept
  <2> QED BY <1>1, <2>1 DEF Links, Chain, Continued
<1>11. Rolling' /\ Listed'
  BY <1>1 DEF Rolling, Listed
<1>12. Told'
  <2> SUFFICES ASSUME NEW g \in Gap PROVE Tale(g)'
    BY DEF Told
  <2>1. Tale(g) /\ From(g)' = From(g) /\ (Active(g)' => Active(g))
    BY <1>0, <1>5, <1>6 DEF Told
  <2>2. CASE task[g] = "opened"
    <3>1. From(g) \in Nat /\ Day(From(g)) \in Nat /\ Until(g)' = end(g)
          /\ end(g) \in Nat /\ end(g) <= Start(Day(From(g)) + 1)
          /\ ~Active(g)'
      BY <1>0, <1>4, <1>5, <1>6, <2>2, TypeFacts
    <3>2. ASSUME NEW d \in Days, Day(From(g)) < d, Start(d) < end(g) PROVE FALSE
      <4>1. d \in Nat
        BY ConstantFacts, DayFacts DEF Days
      <4>2. Start(Day(From(g)) + 1) <= Start(d)
        <5>1. Start(Day(From(g))) + DayLen <= Start(d)
          BY <3>1, <3>2, <4>1, StartOrder
        <5> QED BY <5>1, <3>1, StartFacts
      <4> QED BY <4>1, <4>2, <3>1, <3>2, StartFacts
    <3> QED BY <2>1, <3>1, <3>2 DEF Tale
  <2>3. CASE task[g] # "opened"
    <3>1. Until(g)' = Until(g)
      BY <1>5, <2>3
    <3>2. ASSUME NEW h \in StopGap, NEW d \in Days, Heir(h, g, d) PROVE Heir(h, g, d)'
      <4>1. h \in Gap /\ task[h] # "opened"
        BY <3>2, ConstantFacts DEF Heir
      <4>2. From(h)' = From(h) /\ Until(h)' = Until(h) /\ Begun(h)'
        BY <1>5, <1>6, <3>2, <4>1 DEF Heir
      <4>3. task'[h] \notin Closing \cup {"opened"}
        BY <1>3, <4>1 DEF kept, Closing
      <4> QED BY <3>1, <3>2, <4>2, <4>3 DEF Heir
    <3> QED BY <1>1, <2>1, <3>1, <3>2 DEF Tale, Chain, Continued
  <2> QED BY <2>2, <2>3
<1>13. Booting'
  <2>1. \A g \in Gap : task'[g] \notin {"opened"} \cup Closing
    BY <1>3 DEF kept, Closing
  <2>2. mark' # None
    BY <1>0, <1>1, <1>7, TypeFacts
  <2>3. \A g \in storage : Active(g)' => mark' <= From(g)'
    BY <1>0, <1>1, <1>5, <1>6, <1>7, ConstantFacts DEF Types
  <2>4. \A g, h \in storage : Active(g)' /\ Active(h)' => g = h
    BY <1>0, <1>6, ConstantFacts DEF Types, Booting
  <2>5. storage \subseteq Gap
    BY <1>0, ConstantFacts DEF Types
  <2> QED BY <1>1, <2>1, <2>2, <2>3, <2>4, <2>5, ConstantFacts DEF Booting
<1>14. Artifacts'
  <2> SUFFICES ASSUME NEW a \in ready PROVE Written(a)'
    BY <1>1 DEF Artifacts
  <2>1. Written(a) /\ a.gap \in Gap /\ Lives(a.gap)
        /\ a.at \in Nat /\ a.at <= now /\ now < Forever /\ now \in Nat
    BY <1>0, <1>2, ArtifactFacts, TypeFacts DEF Artifacts
  <2>2. From(a.gap)' = From(a.gap) /\ task'[a.gap] # "none"
    BY <1>3, <1>5, <2>1 DEF Written, kept
  <2>3. ASSUME a.state = "CLOSED", ~a.more
        PROVE  /\ Until(a.gap)' <= a.at
               /\ \/ a.gap \in blurred'
                  \/ task'[a.gap] \in {"removing", "closed"} /\ a.at = Until(a.gap)'
    <3>1. /\ Until(a.gap) <= a.at
          /\ \/ a.gap \in blurred
             \/ task[a.gap] \in {"removing", "closed"} /\ a.at = Until(a.gap)
      BY <2>1, <2>3 DEF Written
    <3>2. task[a.gap] # "opened"
      <4>1. task[a.gap] = "opened" => Until(a.gap) = Forever
        BY <2>1 DEF Lives
      <4> QED BY <4>1, <2>1, <3>1, ConstantFacts
    <3>3. Until(a.gap)' = Until(a.gap)
      BY <1>5, <2>1, <3>2
    <3>4. a.gap \notin blurred' => task[a.gap] = "closed" /\ file[a.gap] = None
      BY <1>0, <1>1, <2>1, <3>1 DEF Clear, Exact
    <3>5. a.gap \notin blurred' => task'[a.gap] = "closed"
      BY <1>3, <2>1, <3>4 DEF kept
    <3> QED BY <1>1, <3>1, <3>3, <3>4, <3>5
  <2> QED BY <2>1, <2>2, <2>3 DEF Written
<1>15. Clear'
  <2> SUFFICES ASSUME NEW g \in Gap \ blurred' PROVE Exact(g)'
    BY DEF Clear
  <2>1. Exact(g) /\ Lives(g) /\ task[g] \notin {"opened", "removing"} /\ task[g] \in Tasks
    BY <1>0, <1>1, <1>2 DEF Clear, Types
  <2>2. /\ From(g)' = From(g) /\ Until(g)' = Until(g)
        /\ roll'[Timer].gap = Timer /\ g # Timer
    BY <1>1, <1>5, <2>1, ConstantFacts DEF Idle
  <2>3. task'[g] \in {"none", "open", "closed", "gone"}
    BY <1>3, <2>1 DEF kept
  <2>4. task'[g] = "open" => task[g] \in {"open", "observed", "closing"}
    BY <1>3, <2>1 DEF Lives, Exact, Tasks, Closing, kept
  <2>5. task'[g] = "closed" => task[g] = "closed"
    BY <1>3 DEF kept
  <2> QED BY <1>1, <2>1, <2>2, <2>3, <2>4, <2>5 DEF Exact, Ended, Closing
<1> QED
  BY <1>8, <1>9, <1>10, <1>11, <1>12, <1>13, <1>14, <1>15 DEF Inv

LEMMA EndingsStep ==
  ASSUME Inv,
         \/ \E g \in Gap : OpenRefused(g) \/ CloseRefused(g)
         \/ \E a \in Gap \cup {Timer} : RollRefused(a)
         \/ MidnightFails
         \/ Crash
  PROVE  Inv'
<1>1. stale \subseteq Gap /\ refused \subseteq Gap
  BY DEF Inv, Types
<1>2. ASSUME NEW s \in SUBSET Gap, Refused(s) PROVE Inv'
  <2>1. Ends /\ refused' \subseteq Gap
    BY <1>1, <1>2 DEF Refused
  <2> QED BY <2>1, EndsStep
<1>3. CASE \E g \in Gap : OpenRefused(g) \/ CloseRefused(g)
  BY <1>2, <1>3 DEF OpenRefused, CloseRefused
<1>4. CASE \E a \in Gap \cup {Timer} : RollRefused(a)
  <2>1. PICK a \in Gap \cup {Timer} : Refused({a} \cap stale)
    BY <1>4 DEF RollRefused
  <2>2. {a} \cap stale \in SUBSET Gap
    BY <1>1
  <2> QED BY <1>2, <2>1, <2>2
<1>5. CASE MidnightFails \/ Crash
  BY <1>1, <1>5, EndsStep DEF MidnightFails, Crash
<1> QED BY <1>3, <1>4, <1>5

-----------------------------------------------------------------------------
\* The midnight

LEMMA MidnightStep == Inv /\ Midnight => Inv'
<1> SUFFICES ASSUME Inv, Midnight PROVE Inv'
  OBVIOUS
<1>0. /\ Types /\ Life /\ Chained /\ Rolling /\ Listed /\ Told /\ Booting
      /\ Artifacts /\ Clear
  BY DEF Inv
<1>1. /\ phase = "up" /\ timer.step = "wait" /\ now >= Start(timer.next)
      /\ timer' = [timer EXCEPT !.step = "roll", !.todo = {g \in Gap : file[g] # None}]
      /\ now' = now /\ phase' = phase /\ mark' = mark /\ stale' = stale
      /\ storage' = storage /\ task' = task /\ observed' = observed /\ roll' = roll
      /\ file' = file /\ ready' = ready /\ sealed' = sealed /\ lost' = lost
      /\ blurred' = blurred /\ refused' = refused
  BY DEF Midnight, boot, closes, disk, history
<1>2. /\ timer' \in [step : {"wait", "roll"}, next : Nat, todo : SUBSET Gap]
      /\ timer'.next = timer.next /\ timer'.todo = {g \in Gap : file[g] # None}
      /\ timer.next \in Nat /\ timer.next > 0
  <2>1. timer \in [step : {"wait", "roll"}, next : Nat, todo : SUBSET Gap]
    BY <1>0 DEF Types
  <2>2. timer.next # 0 /\ timer.next \in Nat
    BY <1>0, <1>1, RollFacts DEF Booting
  <2>3. timer.next > 0
    BY <2>2
  <2>4. {g \in Gap : file[g] # None} \in SUBSET Gap
    OBVIOUS
  <2>5. timer' \in [step : {"wait", "roll"}, next : Nat, todo : SUBSET Gap]
    BY <1>1, <2>1, <2>4
  <2>6. timer'.next = timer.next /\ timer'.todo = {g \in Gap : file[g] # None}
    BY <1>1, <2>1
  <2> QED BY <2>2, <2>3, <2>5, <2>6
<1>3. \A a \in Gap \cup {Timer} : roll[a] # Idle => a # Timer
  BY <1>0, <1>1 DEF Rolling, Rolled
<1>4. Types'
  BY <1>0, <1>1, <1>2 DEF Types, Today
<1>5. Life' /\ Chained' /\ Told' /\ Artifacts' /\ Clear'
  <2>1. Life'
    BY <1>0, <1>1 DEF Life, Lives, Active, Begun, From, Until
  <2>2. Chained' /\ Told'
    BY <1>0, <1>1
       DEF Chained, Links, Chain, Continued, From, Told, Tale, Heir, Active, Begun, Until
  <2>3. Artifacts' /\ Clear'
    BY <1>0, <1>1 DEF Artifacts, Written, Clear, Exact, Ended, From, Until
  <2> QED BY <2>1, <2>2, <2>3
<1>6. Rolling'
  <2> SUFFICES ASSUME NEW a \in Gap \cup {Timer}, roll[a] # Idle PROVE Rolled(a, roll[a])'
    BY <1>1 DEF Rolling
  <2> QED BY <1>0, <1>1, <1>3 DEF Rolling, Rolled, Chain, Continued, From, Today
\* a gap that has no state file yet is one of the new day, or of the last minutes
<1>7. Listed'
  <2> SUFFICES ASSUME NEW g \in Gap, Active(g), file[g] = None
               PROVE  Chain(g, timer.next - 1)
    BY <1>1, <1>2 DEF Listed, Chain, Continued, From, Active, Begun, Until
  <2>1. Lives(g) /\ From(g) \in Nat /\ now \in Nat /\ now <= MaxTime
    BY <1>0, TypeFacts DEF Life
  <2>2. task[g] = "opened"
    BY <2>1 DEF Lives, Closing
  <2>3. /\ observed[g] \in Moments /\ observed[g] - Reach <= From(g)
        /\ \A u \in Moments : u <= observed[g] \/ now <= u
    <3>1. g \notin StopGap
      BY <1>1, <2>1, <2>2 DEF Lives
    <3> QED BY <2>1, <2>2, <3>1 DEF Lives, Gap
  <2> DEFINE n == timer.next
  <2>4. n \in Nat /\ n > 0 /\ Start(n) \in Nat /\ Start(n) <= now /\ observed[g] \in Nat
        /\ Start(n) # observed[g]
    BY <1>1, <1>2, <2>1, <2>3, StartFacts, MomentFacts
  <2>5. Start(n) - 2 <= observed[g]
    <3>1. Start(n) - 2 \in Moments
      <4> HIDE DEF n
      <4>1. Start(n) <= MaxTime
        BY <2>1, <2>4, ConstantFacts
      <4> QED BY <2>4, <4>1, LastMoment
    <3>2. Start(n) - 2 <= observed[g] \/ now <= Start(n) - 2
      BY <2>3, <3>1
    <3> HIDE DEF n
    <3> QED BY <2>1, <2>4, <3>2
  <2>6. Start(n - 1) <= From(g)
    <3>1. Start(n) = Start(n - 1) + DayLen /\ Start(n - 1) \in Nat
      <4>1. n - 1 \in Nat /\ (n - 1) + 1 = n
        BY <2>4
      <4> HIDE DEF n
      <4> QED BY <4>1, StartFacts
    <3>2. Reach + 2 <= DayLen /\ Reach \in Nat /\ DayLen \in Nat
      BY ConstantFacts
    <3> HIDE DEF n
    <3> QED BY <2>1, <2>3, <2>4, <2>5, <3>1, <3>2
  <2>7. n - 1 <= Day(From(g)) /\ Day(From(g)) \in Nat
    BY <1>2, <2>1, <2>6, DayOf, DayFacts
  <2> QED BY <1>2, <2>7, ConstantFacts, DayFacts DEF Chain, Days
<1>8. Booting'
  BY <1>0, <1>1, <1>2 DEF Booting, From, Until, Active, Begun, Today
<1> QED BY <1>4, <1>5, <1>6, <1>7, <1>8 DEF Inv

LEMMA MidnightSealsStep == Inv /\ MidnightSeals => Inv'
<1> SUFFICES ASSUME Inv, MidnightSeals PROVE Inv'
  OBVIOUS
<1>0. /\ Types /\ Life /\ Chained /\ Rolling /\ Listed /\ Told /\ Booting
      /\ Artifacts /\ Clear
  BY DEF Inv
<1>1. /\ timer.step = "roll" /\ timer.todo = {} /\ roll[Timer] = Idle
      /\ now >= Start(timer.next) + Grace
      /\ sealed' = sealed \cup {timer.next - 1}
      /\ timer' = [timer EXCEPT !.step = "wait", !.next = Today + 1]
      /\ now' = now /\ phase' = phase /\ mark' = mark /\ stale' = stale
      /\ storage' = storage /\ task' = task /\ observed' = observed /\ roll' = roll
      /\ file' = file /\ ready' = ready /\ lost' = lost
      /\ blurred' = blurred /\ refused' = refused
  BY DEF MidnightSeals, boot, closes, history
<1>2. phase = "up" /\ timer.next # 0
  BY <1>0, <1>1 DEF Booting
<1>3. /\ timer.next \in Nat /\ timer.next > 0 /\ timer.next <= Today
      /\ Today \in Nat /\ timer.next - 1 \in Nat
  <2>1. timer.next \in Nat /\ now \in Nat /\ Today \in Nat
    BY <1>0, RollFacts, TypeFacts
  <2>2. Start(timer.next) <= now
    <3>1. Start(timer.next) \in Nat /\ Grace \in Nat
      BY <2>1, StartFacts, ConstantFacts
    <3> QED BY <1>1, <2>1, <3>1
  <2>3. timer.next <= Today
    BY <2>1, <2>2, DayOf DEF Today
  <2> QED BY <1>2, <2>1, <2>3
<1>4. timer' \in [step : {"wait", "roll"}, next : Nat, todo : SUBSET Gap]
      /\ timer'.step = "wait" /\ timer'.next # 0
  <2>1. timer \in [step : {"wait", "roll"}, next : Nat, todo : SUBSET Gap]
    BY <1>0 DEF Types
  <2>2. Today + 1 \in Nat /\ Today + 1 # 0
    BY <1>3
  <2>3. timer' \in [step : {"wait", "roll"}, next : Nat, todo : SUBSET Gap]
    BY <1>1, <2>1, <2>2
  <2>4. timer'.step = "wait" /\ timer'.next = Today + 1
    BY <1>1, <2>1
  <2> QED BY <2>2, <2>3, <2>4
<1>5. Types'
  BY <1>0, <1>1, <1>3, <1>4 DEF Types, Today
<1>6. Life' /\ Chained' /\ Artifacts' /\ Clear'
  <2>1. Life'
    BY <1>0, <1>1 DEF Life, Lives, Active, Begun, From, Until
  <2>2. Chained'
    BY <1>0, <1>1 DEF Chained, Links, Chain, Continued, From
  <2>3. Artifacts' /\ Clear'
    BY <1>0, <1>1 DEF Artifacts, Written, Clear, Exact, Ended, From, Until
  <2> QED BY <2>1, <2>2, <2>3
<1>7. Rolling'
  <2> SUFFICES ASSUME NEW a \in Gap \cup {Timer}, roll[a] # Idle PROVE Rolled(a, roll[a])'
    BY <1>1 DEF Rolling
  <2>1. Rolled(a, roll[a]) /\ a # Timer
    BY <1>0, <1>1 DEF Rolling
  <2> QED BY <1>1, <2>1 DEF Rolled, Chain, Continued, From, Today
<1>8. Listed'
  BY <1>4 DEF Listed
\* the list is empty: each open gap has its OPENs up to the day that is sealed
<1>9. Told'
  <2> SUFFICES ASSUME NEW g \in Gap PROVE Tale(g)'
    BY DEF Told
  <2>1. Tale(g)
    BY <1>0 DEF Told
  <2>2. Active(g) => Chain(g, timer.next - 1)
    <3>1. roll[Timer].gap # g
      BY <1>1, ConstantFacts DEF Idle
    <3> QED BY <1>0, <1>1, <3>1 DEF Listed
  <2>3. Active(g) => \A s \in sealed' : Chain(g, s)
    BY <1>1, <2>1, <2>2 DEF Tale
  <2> QED BY <1>1, <2>1, <2>3 DEF Tale, Heir, Chain, Continued, From, Until, Active, Begun
<1>10. Booting'
  BY <1>0, <1>1, <1>2, <1>4 DEF Booting, From, Until, Active, Begun
<1> QED BY <1>5, <1>6, <1>7, <1>8, <1>9, <1>10 DEF Inv

-----------------------------------------------------------------------------
\* The opening of a gap

Opens(g, from) ==
  /\ task[g] = "none" /\ Open(g, from) /\ from \in 0..now
  /\ g \in LossGap => now - Reach <= from
  /\ g \in StopGap => phase' = "opening"
  /\ timer.step = "roll" => g \in LossGap
  /\ \A s \in sealed : s <= Day(from)
  /\ now' = now /\ stale' = stale /\ roll' = roll /\ timer' = timer /\ file' = file
  /\ sealed' = sealed /\ blurred' = blurred /\ refused' = refused
  /\ phase' \in Phases /\ (phase' = phase \/ phase' = "opening")
  /\ mark' \in {None} \cup (0..now)
  /\ storage' \subseteq storage \cup ({g} \cap LossGap) /\ storage \subseteq storage'

LEMMA OpensFacts ==
  ASSUME Inv, NEW g \in Gap, NEW from, Opens(g, from)
  PROVE  /\ \A h \in Gap : From(h)' = IF h = g THEN from ELSE From(h)
         /\ \A h \in Gap : Until(h)' = Until(h)
         /\ \A h \in Gap : Begun(h)' <=> h = g \/ Begun(h)
         /\ \A h \in Gap : Active(h)' <=> h = g \/ Active(h)
         /\ \A h \in Gap : task'[h] = IF h = g THEN "opened" ELSE task[h]
         /\ \A h \in Gap : observed'[h] = IF h = g THEN now ELSE observed[h]
         /\ Until(g) = Forever /\ ~Begun(g) /\ file[g] = None /\ g \notin storage
         /\ from \in Nat /\ from <= now /\ from < Forever
         /\ task' \in [Gap -> Tasks] /\ observed' \in [Gap -> {None} \cup (0..now)]
         /\ lost' \in [Gap -> [from : 0..Forever, to : 0..Forever]]
<1>0. Types /\ Life
  BY DEF Inv
<1>1. Lives(g) /\ task[g] = "none"
  BY <1>0 DEF Life, Opens
<1>2. Until(g) = Forever /\ ~Begun(g) /\ file[g] = None /\ g \notin storage
  BY <1>1 DEF Lives
<1>3. now \in Nat /\ now < Forever /\ Forever \in Nat
  BY <1>0, TypeFacts, ConstantFacts
<1>4. from \in Nat /\ from <= now /\ from < Forever
  BY <1>3 DEF Opens
<1>5. /\ task' = [task EXCEPT ![g] = "opened"]
      /\ observed' = [observed EXCEPT ![g] = now]
      /\ lost' = [lost EXCEPT ![g].from = from]
  BY DEF Opens, Open
<1>6. /\ \A h \in Gap : task'[h] = IF h = g THEN "opened" ELSE task[h]
      /\ \A h \in Gap : observed'[h] = IF h = g THEN now ELSE observed[h]
      /\ task' \in [Gap -> Tasks] /\ observed' \in [Gap -> {None} \cup (0..now)]
  BY <1>0, <1>3, <1>5 DEF Types, Tasks
<1>7. /\ \A h \in Gap : From(h)' = IF h = g THEN from ELSE From(h)
      /\ \A h \in Gap : Until(h)' = Until(h)
  <2>1. lost \in [Gap -> [from : 0..Forever, to : 0..Forever]]
    BY <1>0 DEF Types
  <2> QED BY <1>5, <2>1 DEF From, Until
<1>8. lost' \in [Gap -> [from : 0..Forever, to : 0..Forever]]
  <2>1. from \in 0..Forever
    BY <1>3, <1>4
  <2>2. lost \in [Gap -> [from : 0..Forever, to : 0..Forever]]
    BY <1>0 DEF Types
  <2> QED BY <1>5, <2>1, <2>2
<1>9. /\ \A h \in Gap : Begun(h)' <=> h = g \/ Begun(h)
      /\ \A h \in Gap : Active(h)' <=> h = g \/ Active(h)
  BY <1>2, <1>3, <1>4, <1>7 DEF Begun, Active, From, Until
<1> QED BY <1>2, <1>4, <1>6, <1>7, <1>8, <1>9

LEMMA OpensStep ==
  ASSUME Inv, NEW g \in Gap, NEW from, Opens(g, from), Booting'
  PROVE  Inv'
<1>0. /\ Types /\ Life /\ Chained /\ Rolling /\ Listed /\ Told /\ Booting
      /\ Artifacts /\ Clear
  BY DEF Inv
<1> DEFINE o == Artifact(g, "OPEN", from, FALSE)
<1>1. /\ task[g] = "none" /\ ready' = ready \cup {o}
      /\ g \in LossGap => now - Reach <= from
      /\ g \in StopGap => phase' = "opening"
      /\ timer.step = "roll" => g \in LossGap
      /\ \A s \in sealed : s <= Day(from)
      /\ now' = now /\ stale' = stale /\ roll' = roll /\ timer' = timer /\ file' = file
      /\ sealed' = sealed /\ blurred' = blurred /\ refused' = refused
      /\ phase' \in Phases /\ (phase' = phase \/ phase' = "opening")
      /\ mark' \in {None} \cup (0..now)
      /\ storage' \subseteq storage \cup ({g} \cap LossGap) /\ storage \subseteq storage'
  BY DEF Opens, Open
<1>2. /\ \A h \in Gap : From(h)' = IF h = g THEN from ELSE From(h)
      /\ \A h \in Gap : Until(h)' = Until(h)
      /\ \A h \in Gap : Begun(h)' <=> h = g \/ Begun(h)
      /\ \A h \in Gap : Active(h)' <=> h = g \/ Active(h)
      /\ \A h \in Gap : task'[h] = IF h = g THEN "opened" ELSE task[h]
      /\ \A h \in Gap : observed'[h] = IF h = g THEN now ELSE observed[h]
      /\ Until(g) = Forever /\ ~Begun(g) /\ file[g] = None /\ g \notin storage
      /\ from \in Nat /\ from <= now /\ from < Forever
      /\ task' \in [Gap -> Tasks] /\ observed' \in [Gap -> {None} \cup (0..now)]
      /\ lost' \in [Gap -> [from : 0..Forever, to : 0..Forever]]
  BY OpensFacts
<1>3. o \in [gap : Gap, state : {"OPEN", "CLOSED"}, at : 0..now, more : BOOLEAN]
      /\ o.gap = g /\ o.state = "OPEN" /\ o.at = from
  <2>1. from \in 0..now
    BY DEF Opens
  <2> QED BY <2>1 DEF Artifact
<1>4. Artifact(g, "OPEN", from, FALSE) \in ready'
  BY <1>1
<1> HIDE DEF o
<1>5. Day(from) \in Nat /\ now \in Moments /\ now \in Nat /\ From(g)' = from
  BY <1>0, <1>2, DayFacts, TypeFacts DEF Types
<1>6. Types'
  <2>1. storage' \subseteq LossGap
    BY <1>0, <1>1 DEF Types
  <2>2. ready' \subseteq [gap : Gap, state : {"OPEN", "CLOSED"}, at : 0..now, more : BOOLEAN]
    BY <1>0, <1>1, <1>3 DEF Types
  <2> QED BY <1>0, <1>1, <1>2, <2>1, <2>2 DEF Types, Today
<1>7. Life'
  <2> SUFFICES ASSUME NEW h \in Gap PROVE Lives(h)'
    BY DEF Life
  <2>1. Lives(h)
    BY <1>0 DEF Life
  <2>2. CASE h = g
    <3>1. /\ task'[g] = "opened" /\ observed'[g] = now /\ Until(g)' = Forever
          /\ Begun(g)' /\ Active(g)' /\ from <= Forever
      BY <1>2, ConstantFacts
    <3>2. \A u \in Moments : u <= now \/ now <= u
      BY <1>5, MomentFacts
    <3> QED BY <1>1, <1>2, <1>4, <1>5, <2>2, <3>1, <3>2 DEF Lives, Closing
  <2>3. CASE h # g
    <3>1. /\ From(h)' = From(h) /\ Until(h)' = Until(h) /\ task'[h] = task[h]
          /\ observed'[h] = observed[h] /\ file'[h] = file[h]
          /\ (Begun(h)' <=> Begun(h)) /\ (Active(h)' <=> Active(h))
          /\ (h \in storage' => h \in storage) /\ ready \subseteq ready'
      BY <1>1, <1>2, <2>3
    <3>2. task[h] = "opened" /\ h \in StopGap => phase' = "opening"
      BY <1>1, <2>1 DEF Lives
    <3> QED BY <1>1, <2>1, <3>1, <3>2 DEF Lives
  <2> QED BY <2>2, <2>3
<1>8. Chained'
  <2> SUFFICES ASSUME NEW h \in Gap PROVE Links(h)'
    BY DEF Chained
  <2>1. Links(h)
    BY <1>0 DEF Chained
  <2>2. CASE h = g
    BY <1>1, <1>2, <2>2 DEF Links
  <2>3. CASE h # g
    <3>1. From(h)' = From(h) /\ task'[h] = task[h] /\ observed'[h] = observed[h]
          /\ ready \subseteq ready'
      BY <1>1, <1>2, <2>3
    <3> QED BY <1>1, <2>1, <3>1 DEF Links, Chain, Continued
  <2> QED BY <2>2, <2>3
<1>9. Rolling'
  <2> SUFFICES ASSUME NEW a \in Gap \cup {Timer}, roll[a] # Idle PROVE Rolled(a, roll[a])'
    BY <1>1 DEF Rolling
  <2>1. Rolled(a, roll[a]) /\ roll[a].gap # g /\ a # g /\ roll[a].gap \in Gap
    BY <1>0, <1>1, ConstantFacts DEF Rolling, Rolled
  <2>2. /\ task'[roll[a].gap] = task[roll[a].gap] /\ lost'[roll[a].gap].from = lost[roll[a].gap].from
        /\ a # Timer => task'[a] = task[a] /\ observed'[a] = observed[a]
        /\ ready \subseteq ready'
    BY <1>1, <1>2, <2>1 DEF From
  <2> QED BY <1>1, <2>1, <2>2 DEF Rolled, Chain, Continued, From, Today
<1>10. Listed'
  <2> SUFFICES ASSUME timer.step = "roll", NEW h \in Gap, Active(h)'
               PROVE  h \in timer.todo \/ roll[Timer].gap = h \/ Chain(h, timer.next - 1)'
    BY <1>0, <1>1 DEF Listed
  <2>1. CASE h = g
    <3> DEFINE n == timer.next
    <3>1. n \in Nat /\ now >= Start(n) /\ n # 0 /\ now - Reach <= from
      BY <1>0, <1>1, RollFacts DEF Listed, Booting
    <3>2. n - 1 \in Nat /\ (n - 1) + 1 = n
      BY <3>1
    <3> HIDE DEF n
    <3>3. Start(n) = Start(n - 1) + DayLen /\ Start(n - 1) \in Nat
      BY <3>2, StartFacts
    <3>4. Start(n - 1) <= from
      <4>1. Reach + 2 <= DayLen /\ Reach \in Nat /\ DayLen \in Nat
        BY ConstantFacts
      <4> QED BY <1>2, <1>5, <3>1, <3>3, <4>1
    <3>5. n - 1 <= Day(from)
      BY <1>2, <3>2, <3>4, DayOf
    <3> QED BY <1>1, <1>5, <2>1, <3>2, <3>5, ConstantFacts, DayFacts DEF Chain, Days, n
  <2>2. CASE h # g
    <3>1. Active(h) /\ From(h)' = From(h) /\ ready \subseteq ready'
      BY <1>1, <1>2, <2>2
    <3> QED BY <1>0, <1>1, <3>1 DEF Listed, Chain, Continued
  <2> QED BY <2>1, <2>2
<1>11. Told'
  <2> SUFFICES ASSUME NEW h \in Gap PROVE Tale(h)'
    BY DEF Told
  <2>1. Tale(h)
    BY <1>0 DEF Told
  <2>2. CASE h = g
    <3>1. \A s \in sealed : Chain(g, s)'
      <4> SUFFICES ASSUME NEW s \in sealed, NEW d \in Days, Day(from) < d, d <= s PROVE FALSE
        BY <1>1, <1>5 DEF Chain
      <4>1. d \in Nat /\ s \in Nat /\ s <= Day(from)
        BY <1>0, <1>1, ConstantFacts, DayFacts DEF Types, Days
      <4> QED BY <1>5, <4>1
    <3>2. Until(g)' = Forever
      BY <1>2
    <3> QED BY <1>1, <2>2, <3>1, <3>2 DEF Tale
  <2>3. CASE h # g
    <3>1. /\ From(h)' = From(h) /\ Until(h)' = Until(h) /\ (Active(h)' <=> Active(h))
          /\ ready \subseteq ready' /\ storage \subseteq storage'
      BY <1>1, <1>2, <2>3
    <3>2. ASSUME NEW k \in StopGap, NEW d \in Days, Heir(k, h, d) PROVE Heir(k, h, d)'
      <4>1. k \in Gap /\ k # g
        BY <1>2, <3>2, ConstantFacts DEF Heir
      <4>2. /\ From(k)' = From(k) /\ Until(k)' = Until(k) /\ (Begun(k)' <=> Begun(k))
            /\ task'[k] = task[k] /\ observed'[k] = observed[k]
        BY <1>2, <4>1
      <4> QED BY <3>1, <3>2, <4>2 DEF Heir
    <3> QED BY <1>1, <2>1, <3>1, <3>2 DEF Tale, Chain, Continued
  <2> QED BY <2>2, <2>3
<1>12. Artifacts'
  <2> SUFFICES ASSUME NEW a \in ready' PROVE Written(a)'
    BY DEF Artifacts
  <2>1. CASE a = o
    BY <1>2, <1>3, <1>5, <2>1 DEF Written
  <2>2. CASE a # o
    <3>1. Written(a) /\ a.gap \in Gap /\ a.gap # g
      BY <1>0, <1>1, <2>2, ArtifactFacts DEF Artifacts, Written
    <3>2. From(a.gap)' = From(a.gap) /\ Until(a.gap)' = Until(a.gap) /\ task'[a.gap] = task[a.gap]
      BY <1>2, <3>1
    <3> QED BY <1>1, <3>1, <3>2 DEF Written
  <2> QED BY <2>1, <2>2
<1>13. Clear'
  <2> SUFFICES ASSUME NEW h \in Gap \ blurred PROVE Exact(h)'
    BY <1>1 DEF Clear
  <2>1. Exact(h)
    BY <1>0 DEF Clear
  <2>2. CASE h = g
    <3>1. task'[g] = "opened"
      BY <1>2
    <3> QED BY <2>2, <3>1 DEF Exact, Closing
  <2>3. CASE h # g
    <3>1. /\ From(h)' = From(h) /\ Until(h)' = Until(h) /\ task'[h] = task[h]
          /\ observed'[h] = observed[h] /\ ready \subseteq ready'
          /\ \A a \in ready' : a.gap = h => a \in ready
      BY <1>1, <1>2, <1>3, <2>3
    <3> QED BY <1>1, <2>1, <3>1 DEF Exact, Ended
  <2> QED BY <2>2, <2>3
<1> QED
  BY <1>6, <1>7, <1>8, <1>9, <1>10, <1>11, <1>12, <1>13 DEF Inv

\* A loss that is noticed today is of today or yesterday: no such day is sealed.
LEMMA NoticedFacts ==
  ASSUME Inv, NEW from \in Nat, now - Reach <= from, from <= now
  PROVE  \A s \in sealed : s <= Day(from)
<1>0. Types
  BY DEF Inv
<1> SUFFICES ASSUME NEW s \in sealed PROVE s <= Day(from)
  OBVIOUS
<1>1. s \in Nat /\ s < Today /\ Today \in Nat /\ now \in Nat
  BY <1>0, TypeFacts DEF Types
<1>2. s + 1 \in Nat /\ s + 1 <= Today
  BY <1>1
<1>3. Start(s + 1) <= now
  BY <1>1, <1>2, DayOf DEF Today
<1>4. Start(s + 1) = Start(s) + DayLen /\ Start(s) \in Nat
  BY <1>1, StartFacts
<1>5. Start(s) <= from
  <2>1. Reach + 2 <= DayLen /\ Reach \in Nat /\ DayLen \in Nat
    BY ConstantFacts
  <2> QED BY <1>1, <1>3, <1>4, <2>1
<1> QED BY <1>1, <1>5, DayOf

LEMMA OpenGapStep == ASSUME Inv, NEW g \in Gap, OpenGap(g) PROVE Inv'
<1>0. Types /\ Life /\ Booting
  BY DEF Inv
<1>1. PICK from \in Noticed : ~Refuses(from) /\ Open(g, from)
  BY DEF OpenGap
<1>2. /\ g \in LossGap /\ task[g] = "none" /\ phase \notin {"down", "opening"}
      /\ now' = now /\ phase' = phase /\ mark' = mark /\ stale' = stale
      /\ storage' = storage /\ roll' = roll /\ timer' = timer /\ file' = file
      /\ sealed' = sealed /\ blurred' = blurred /\ refused' = refused
  BY DEF OpenGap, boot
<1>3. from \in Nat /\ mark <= from /\ now - Reach <= from /\ from <= now /\ now \in Nat
  BY <1>0, MomentFacts, TypeFacts DEF Noticed
<1>4. g \notin StopGap
  BY <1>2, ConstantFacts
<1>5. Opens(g, from)
  <2>1. \A s \in sealed : s <= Day(from)
    BY <1>3, NoticedFacts
  <2> QED BY <1>0, <1>1, <1>2, <1>3, <1>4, <2>1 DEF Opens, Types
<1>6. /\ \A h \in Gap : From(h)' = IF h = g THEN from ELSE From(h)
      /\ \A h \in Gap : Until(h)' = Until(h)
      /\ \A h \in Gap : Active(h)' <=> h = g \/ Active(h)
      /\ \A h \in Gap : task'[h] = IF h = g THEN "opened" ELSE task[h]
      /\ g \notin storage
  BY <1>5, OpensFacts
<1>7. storage \subseteq Gap /\ stale \subseteq Gap
  BY <1>0, ConstantFacts DEF Types
<1>8. Booting'
  <2>1. phase \in {"boot", "stale", "seal"} =>
          \A h \in Gap : Active(h)' => h \in stale \/ mark <= From(h)'
    BY <1>0, <1>3, <1>6 DEF Booting
  <2>2. /\ phase \in {"stale", "seal"} => \A h \in stale \cap storage : Until(h)' # Forever
        /\ phase = "seal" => \A h \in stale : Until(h)' # Forever
    BY <1>0, <1>6, <1>7 DEF Booting
  <2>3. \A h \in storage : Active(h)' = Active(h) /\ From(h)' = From(h)
    BY <1>6, <1>7 DEF Active
  <2>0. phase # "up" => \A h \in storage : task'[h] \notin {"opened"} \cup Closing
    BY <1>0, <1>6, <1>7 DEF Booting
  <2>4. \A h \in StopGap : Active(h)' = Active(h) /\ From(h)' = From(h) /\ task'[h] = task[h]
    BY <1>4, <1>6, ConstantFacts DEF Active
  <2> QED BY <1>0, <1>2, <2>0, <2>1, <2>2, <2>3, <2>4 DEF Booting, Today
<1> QED BY <1>5, <1>8, OpensStep

LEMMA OpenStorageGapStep == ASSUME Inv, NEW g \in Gap, OpenStorageGap(g) PROVE Inv'
<1>0. Types /\ Life /\ Booting
  BY DEF Inv
<1>1. /\ g \in LossGap /\ task[g] = "none" /\ phase = "up" /\ Open(g, now)
      /\ \A h \in storage : task[h] = "closed"
      /\ now' = now /\ phase' = phase /\ mark' = mark /\ stale' = stale
      /\ storage' = storage \cup {g} /\ roll' = roll /\ timer' = timer /\ file' = file
      /\ sealed' = sealed /\ blurred' = blurred /\ refused' = refused
  BY DEF OpenStorageGap
<1>2. g \notin StopGap /\ now \in Nat /\ Reach \in Nat
  BY <1>0, <1>1, ConstantFacts, TypeFacts
<1>3. Opens(g, now)
  <2>1. now - Reach <= now /\ now \in 0..now
    BY <1>2
  <2>2. \A s \in sealed : s <= Day(now)
    BY <1>2, <2>1, NoticedFacts
  <2>3. phase \in Phases /\ mark \in {None} \cup (0..now)
    BY <1>0 DEF Types
  <2> QED BY <1>1, <1>2, <2>1, <2>2, <2>3 DEF Opens
<1>4. \A h \in Gap : Active(h)' <=> h = g \/ Active(h)
  BY <1>3, OpensFacts
<1>5. storage \subseteq Gap /\ \A h \in storage : ~Active(h)
  <2>1. storage \subseteq Gap
    BY <1>0, ConstantFacts DEF Types
  <2>2. ASSUME NEW h \in storage PROVE ~Active(h)
    <3>1. Lives(h) /\ task[h] = "closed"
      BY <1>0, <1>1, <2>1 DEF Life
    <3> QED BY <3>1 DEF Lives
  <2> QED BY <2>1, <2>2
<1>6. Booting'
  <2>1. \A h \in storage' : Active(h)' => h = g
    BY <1>1, <1>4, <1>5
  <2>2. \A h, k \in storage' : Active(h)' /\ Active(k)' => h = k
    BY <2>1
  <2>3. \A h \in StopGap : task'[h] = task[h]
    BY <1>2, <1>3, OpensFacts, ConstantFacts
  <2> QED BY <1>0, <1>1, <2>2, <2>3 DEF Booting
<1> QED BY <1>3, <1>6, OpensStep

\* COLLECTOR_STOPPED begins after each sealed day.
LEMMA FloorFacts ==
  ASSUME Types
  PROVE  /\ Floor \in Nat /\ Floor <= now
         /\ \A s \in sealed : Start(s + 1) <= Floor
         /\ \A d \in Nat : (\A s \in sealed : s < d) => Floor <= Start(d)
<1>1. now \in Nat /\ Today \in Nat /\ sealed \subseteq Nat /\ \A s \in sealed : s < Today
  BY TypeFacts DEF Types
<1>2. CASE sealed = {}
  BY <1>1, <1>2, StartFacts DEF Floor
<1>3. CASE sealed # {}
  <2>1. \A s \in sealed : s <= Today
    BY <1>1
  <2>2. \E m \in sealed : \A s \in sealed : s <= m
    BY <1>1, <1>3, <2>1, GreatestNumber
  <2> DEFINE m == CHOOSE d \in sealed : \A e \in sealed : e <= d
  <2>3. m \in sealed /\ \A s \in sealed : s <= m
    BY <2>2
  <2>4. Floor = Start(1 + m)
    BY <1>3 DEF Floor
  <2> HIDE DEF m
  <2>5. m \in Nat /\ m < Today /\ 1 + m = m + 1 /\ m + 1 \in Nat /\ m + 1 <= Today
    BY <1>1, <2>3
  <2>6. Floor \in Nat /\ Floor = Start(m + 1) /\ Floor <= now
    BY <1>1, <2>4, <2>5, StartFacts, DayOf DEF Today
  <2>7. ASSUME NEW d \in Nat, NEW e \in Nat, d <= e PROVE Start(d) <= Start(e)
    <3>1. CASE d = e
      BY <3>1, StartFacts
    <3>2. CASE d < e
      <4>1. Start(d) + DayLen <= Start(e) /\ Start(d) \in Nat /\ Start(e) \in Nat
        BY <3>2, StartOrder, StartFacts
      <4>2. DayLen \in Nat
        BY ConstantFacts
      <4> QED BY <4>1, <4>2
    <3> QED BY <2>7, <3>1, <3>2
  <2>8. \A s \in sealed : s + 1 \in Nat /\ s + 1 <= m + 1
    BY <1>1, <2>3, <2>5
  <2>9. \A d \in Nat : (\A s \in sealed : s < d) => m + 1 <= d
    BY <2>3, <2>5
  <2> QED BY <2>5, <2>6, <2>7, <2>8, <2>9
<1> QED BY <1>2, <1>3

LEMMA BootStep == Inv /\ Boot => Inv'
<1> SUFFICES ASSUME Inv, Boot PROVE Inv'
  OBVIOUS
<1>0. Types /\ Life /\ Booting
  BY DEF Inv
<1> DEFINE from == Later(mark, Floor)
<1>1. PICK g \in StopGap : task[g] = "none" /\ Open(g, from)
  BY DEF Boot
<1>2. /\ phase = "down" /\ phase' = "opening" /\ mark' = now
      /\ now' = now /\ stale' = stale
      /\ storage' = storage /\ roll' = roll /\ timer' = timer /\ file' = file
      /\ sealed' = sealed /\ blurred' = blurred /\ refused' = refused
  BY DEF Boot
<1>3. /\ mark \in Nat /\ mark <= now /\ now \in Nat /\ timer.step = "wait"
      /\ \A h \in Gap : task[h] \notin {"opened"} \cup Closing
      /\ \A h \in storage : Active(h) => mark <= From(h)
  <2>1. now \in Nat
    BY <1>0, TypeFacts
  <2> QED BY <1>0, <1>2, <2>1 DEF Booting, Types
<1>4. /\ Floor \in Nat /\ Floor <= now
      /\ \A s \in sealed : Start(s + 1) <= Floor
      /\ \A d \in Nat : (\A s \in sealed : s < d) => Floor <= Start(d)
  BY <1>0, FloorFacts
<1>5. from \in Nat /\ from <= now /\ Floor <= from /\ (from = mark \/ from = Floor)
  BY <1>3, <1>4 DEF Later
<1> HIDE DEF from
<1>6. g \in Gap /\ g \notin LossGap
  BY ConstantFacts
<1>7. \A s \in sealed : s <= Day(from)
  <2> SUFFICES ASSUME NEW s \in sealed PROVE s <= Day(from)
    OBVIOUS
  <2>1. s \in Nat /\ s + 1 \in Nat
    BY <1>0 DEF Types
  <2>2. Start(s + 1) <= from /\ Start(s + 1) \in Nat
    BY <1>4, <1>5, <2>1, StartFacts
  <2>3. s + 1 <= Day(from) /\ Day(from) \in Nat
    BY <1>5, <2>1, <2>2, DayOf, DayFacts
  <2> QED BY <2>1, <2>3
<1>8. Opens(g, from)
  <2>1. from \in 0..now /\ now \in 0..now
    BY <1>3, <1>5
  <2> QED BY <1>1, <1>2, <1>3, <1>6, <1>7, <2>1 DEF Opens, Phases
<1>9. /\ \A h \in Gap : From(h)' = IF h = g THEN from ELSE From(h)
      /\ \A h \in Gap : Active(h)' <=> h = g \/ Active(h)
      /\ \A h \in Gap : task'[h] = IF h = g THEN "opened" ELSE task[h]
      /\ g \notin storage
  BY <1>6, <1>8, OpensFacts
<1>10. storage \subseteq Gap
  BY <1>0, ConstantFacts DEF Types
<1>11. Booting'
  <2>1. mark' # None /\ Today <= Day(now) + 1
    BY <1>0, <1>2, TypeFacts DEF Today
  <2>2. \A h \in Gap : /\ task'[h] \in {"none", "gone", "closed", "opened", "open"}
                       /\ task'[h] = "opened" => h = g
    BY <1>0, <1>3, <1>9 DEF Types, Tasks
  <2>0. \A h \in storage : task'[h] \notin {"opened"} \cup Closing
    BY <1>9, <1>10, <2>2 DEF Closing
  <2>3. \A h \in storage : (Active(h)' <=> Active(h)) /\ From(h)' = From(h)
    BY <1>9, <1>10
  <2>4. ASSUME NEW h \in storage, Active(h), NEW d \in Days, Day(From(h)) < d,
               \A s \in sealed : s < d
        PROVE  from <= Start(d)
    <3>1. d \in Nat /\ Start(d) \in Nat /\ From(h) \in Nat
      BY <1>0, <1>10, StartFacts, TypeFacts, ConstantFacts, DayFacts DEF Days
    <3>2. From(h) < Start(d) /\ mark <= From(h)
      BY <1>3, <2>4, <3>1, DayOf
    <3>3. Floor <= Start(d)
      BY <1>4, <2>4, <3>1
    <3> QED BY <1>3, <1>5, <3>1, <3>2, <3>3
  <2>5. ASSUME NEW h \in storage, Active(h)'
        PROVE  \E k \in StopGap :
                 /\ task'[k] \in {"opened", "open"} /\ Active(k)'
                 /\ \A d \in Days : Day(From(h)') < d /\ (\A s \in sealed : s < d)
                                      => From(k)' <= Start(d)
    <3>1. task'[g] = "opened" /\ Active(g)' /\ From(g)' = from
      BY <1>6, <1>9
    <3>2. Active(h) /\ From(h)' = From(h)
      BY <2>3, <2>5
    <3> QED BY <2>4, <3>1, <3>2
  <2>6. \A h, k \in storage : Active(h)' /\ Active(k)' => h = k
    BY <1>0, <2>3 DEF Booting
  <2>7. \A h, k \in StopGap : task'[h] = "opened" /\ task'[k] = "opened" => h = k
    BY <2>2, ConstantFacts
  <2> QED BY <1>2, <1>3, <1>6, <2>0, <2>1, <2>2, <2>5, <2>6, <2>7 DEF Booting, Today
<1> QED BY <1>6, <1>8, <1>11, OpensStep

-----------------------------------------------------------------------------
\* The boot

LEMMA SourcesReadyStep == Inv /\ SourcesReady => Inv'
<1> SUFFICES ASSUME Inv, SourcesReady PROVE Inv'
  OBVIOUS
<1>0. /\ Types /\ Life /\ Chained /\ Rolling /\ Listed /\ Told /\ Booting
      /\ Artifacts /\ Clear
  BY DEF Inv
<1> DEFINE ends(g) == g \in stale \cap storage /\ Until(g) = Forever
<1>1. /\ phase = "boot" /\ phase' = "stale"
      /\ now' = now /\ mark' = mark /\ stale' = stale /\ storage' = storage
      /\ task' = task /\ observed' = observed /\ roll' = roll /\ timer' = timer
      /\ file' = file /\ ready' = ready /\ sealed' = sealed /\ refused' = refused
      /\ blurred' = blurred \cup (stale \cap storage)
  BY DEF SourcesReady, closes, disk
<1>2. now \in Nat /\ now < Forever /\ now \in 0..Forever /\ storage \subseteq Gap
  BY <1>0, TypeFacts, ConstantFacts DEF Types
<1>3. /\ \A g \in Gap : From(g)' = From(g)
      /\ \A g \in Gap : Until(g)' = IF ends(g) THEN now ELSE Until(g)
      /\ lost' \in [Gap -> [from : 0..Forever, to : 0..Forever]]
  <2>1. lost' = [g \in Gap |-> IF ends(g) THEN [lost[g] EXCEPT !.to = now] ELSE lost[g]]
    BY DEF SourcesReady, Until
  <2>2. \A g \in Gap : lost[g] \in [from : 0..Forever, to : 0..Forever]
    BY <1>0 DEF Types
  <2> HIDE DEF ends
  <2> QED BY <1>2, <2>1, <2>2 DEF From, Until
<1>4. \A g \in Gap : Lives(g)
  BY <1>0 DEF Life
<1>5. \A g \in Gap : ends(g) => Active(g) /\ g \in storage /\ g \in blurred'
  BY <1>1, <1>4 DEF Lives, Active, Until
<1>6. \A g \in StopGap : ~ends(g)
  BY <1>0, ConstantFacts DEF Types
<1>7. /\ \A g \in Gap : Begun(g)' <=> Begun(g)
      /\ \A g \in Gap : Active(g)' <=> Active(g) /\ ~ends(g)
  <2> SUFFICES ASSUME NEW g \in Gap
               PROVE  (Begun(g)' <=> Begun(g)) /\ (Active(g)' <=> Active(g) /\ ~ends(g))
    OBVIOUS
  <2>1. From(g)' = From(g) /\ Until(g)' = IF ends(g) THEN now ELSE Until(g)
    BY <1>3
  <2> HIDE DEF ends
  <2> QED BY <1>2, <2>1 DEF Begun, Active, From, Until
<1>8. \A g \in Gap : ends(g) => task[g] \notin {"opened"} \cup Closing
  BY <1>0, <1>1, <1>5 DEF Booting
<1> HIDE DEF ends
<1>9. Types'
  BY <1>0, <1>1, <1>3 DEF Types, Phases, Today
<1>10. Life'
  <2> SUFFICES ASSUME NEW g \in Gap PROVE Lives(g)'
    BY DEF Life
  <2>1. Lives(g) /\ From(g)' = From(g) /\ (Begun(g)' <=> Begun(g))
    BY <1>3, <1>4, <1>7
  <2>2. task[g] = "opened" => g \notin StopGap
    BY <1>1, <2>1 DEF Lives
  <2>3. CASE ends(g)
    <3>1. /\ Until(g)' = now /\ ~Active(g)' /\ Begun(g) /\ From(g) <= now
          /\ task[g] \notin {"opened"} \cup Closing
      BY <1>3, <1>5, <1>7, <1>8, <2>1, <2>3 DEF Lives, Active
    <3>2. Begun(g)' /\ Artifact(g, "OPEN", From(g), FALSE) \in ready
      BY <2>1, <3>1 DEF Lives
    <3>3. task'[g] \notin {"opened"} \cup Closing
      BY <1>1, <3>1
    <3>4. /\ task[g] # "none" /\ file'[g] = file[g] /\ task'[g] = task[g]
          /\ task[g] \in {"none", "opened", "gone"} => file[g] = None
          /\ task[g] \in {"open"} \cup Closing => file[g] # None
      BY <1>1, <2>1, <3>1 DEF Lives
    <3>5. From(g)' <= now' /\ Artifact(g, "OPEN", From(g)', FALSE) \in ready'
          /\ From(g)' <= Until(g)' /\ Until(g)' <= now'
      <4>1. now <= now
        BY <1>2
      <4>2. now' = now /\ ready' = ready
        BY <1>1
      <4>3. From(g)' = From(g) /\ Until(g)' = now /\ From(g) <= now
        BY <2>1, <3>1
      <4>4. Artifact(g, "OPEN", From(g)', FALSE) \in ready'
        BY <3>2, <4>2, <4>3
      <4> QED BY <4>1, <4>2, <4>3, <4>4
    <3> QED BY <1>1, <3>1, <3>2, <3>3, <3>4, <3>5 DEF Lives
  <2>4. CASE ~ends(g)
    <3>1. Until(g)' = Until(g) /\ (Active(g)' <=> Active(g))
      BY <1>3, <1>7, <2>4
    <3> QED BY <1>1, <2>1, <2>2, <3>1 DEF Lives
  <2> QED BY <2>3, <2>4
<1>11. Chained'
  <2> SUFFICES ASSUME NEW g \in Gap PROVE Links(g)'
    BY DEF Chained
  <2>1. Links(g) /\ From(g)' = From(g)
    BY <1>0, <1>3 DEF Chained
  <2> QED BY <1>1, <2>1 DEF Links, Chain, Continued
<1>12. Rolling'
  <2> SUFFICES ASSUME NEW a \in Gap \cup {Timer}, roll[a] # Idle PROVE Rolled(a, roll[a])'
    BY <1>1 DEF Rolling
  <2>1. Rolled(a, roll[a]) /\ roll[a].gap \in Gap
    BY <1>0 DEF Rolling, Rolled
  <2>2. lost'[roll[a].gap].from = lost[roll[a].gap].from
    BY <1>3, <2>1 DEF From
  <2> QED BY <1>1, <2>1, <2>2 DEF Rolled, Chain, Continued, From, Today
<1>13. Listed'
  BY <1>0, <1>1 DEF Listed, Booting
<1>14. Told'
  <2> SUFFICES ASSUME NEW g \in Gap PROVE Tale(g)'
    BY DEF Told
  <2>1. Tale(g) /\ From(g)' = From(g) /\ (Active(g)' => Active(g))
    BY <1>0, <1>3, <1>7 DEF Told
  <2>2. CASE ends(g)
    <3>1. Active(g) /\ g \in storage /\ Until(g)' = now /\ ~Active(g)'
      BY <1>3, <1>5, <1>7, <2>2
    <3>2. PICK h \in StopGap :
            /\ task[h] \in {"opened", "open"} /\ Active(h)
            /\ \A d \in Days : Day(From(g)) < d /\ (\A s \in sealed : s < d)
                                 => From(h) <= Start(d)
      BY <1>0, <1>1, <3>1 DEF Booting
    <3>3. h \in Gap /\ ~ends(h)
      BY <1>6, ConstantFacts
    <3>4. task[h] = "open"
      BY <1>1, <1>4, <3>2, <3>3 DEF Lives
    <3>5. From(h)' = From(h) /\ Until(h)' = Forever /\ Begun(h)'
      BY <1>3, <1>7, <3>2, <3>3 DEF Active, Until
    <3>6. ASSUME NEW d \in Days, Day(From(g)) < d
          PROVE  Continued(g, d) \/ Heir(h, g, d)'
      <4>1. CASE \E s \in sealed : d <= s
        BY <2>1, <3>1, <3>6, <4>1 DEF Tale, Chain
      <4>2. CASE \A s \in sealed : s < d
        <5>1. From(h) <= Start(d)
          BY <3>2, <3>6, <4>2
        <5>2. now <= Forever /\ task'[h] \notin Closing
          BY <1>1, <1>2, <3>4, ConstantFacts DEF Closing
        <5> QED BY <1>1, <3>1, <3>4, <3>5, <5>1, <5>2 DEF Heir
      <4>3. \A s \in sealed : d <= s \/ s < d
        BY <1>0, ConstantFacts, DayFacts DEF Types, Days
      <4> QED BY <4>1, <4>2, <4>3
    <3> QED BY <1>1, <2>1, <3>1, <3>6 DEF Tale, Continued
  <2>3. CASE ~ends(g)
    <3>1. Until(g)' = Until(g)
      BY <1>3, <2>3
    <3>2. ASSUME NEW h \in StopGap, NEW d \in Days, Heir(h, g, d) PROVE Heir(h, g, d)'
      <4>1. h \in Gap /\ ~ends(h)
        BY <1>6, ConstantFacts
      <4>2. From(h)' = From(h) /\ Until(h)' = Until(h) /\ Begun(h)'
        BY <1>3, <1>7, <3>2, <4>1 DEF Heir
      <4> QED BY <1>1, <3>1, <3>2, <4>2 DEF Heir
    <3> QED BY <1>1, <2>1, <3>1, <3>2 DEF Tale, Chain, Continued
  <2> QED BY <2>2, <2>3
<1>15. Booting'
  <2>1. \A g \in Gap : Active(g)' => g \in stale \/ mark <= From(g)'
    BY <1>0, <1>1, <1>3, <1>7 DEF Booting
  <2>2. \A g \in stale \cap storage : Until(g)' # Forever
    BY <1>2, <1>3 DEF ends
  <2>3. \A g, h \in storage : Active(g)' /\ Active(h)' => g = h
    BY <1>0, <1>2, <1>7 DEF Booting
  <2> QED BY <1>0, <1>1, <2>1, <2>2, <2>3 DEF Booting, Today
<1>16. Artifacts'
  <2> SUFFICES ASSUME NEW a \in ready PROVE Written(a)'
    BY <1>1 DEF Artifacts
  <2>1. Written(a) /\ a.gap \in Gap /\ a.at \in Nat /\ a.at <= now
        /\ From(a.gap)' = From(a.gap)
    BY <1>0, <1>3, ArtifactFacts DEF Artifacts
  <2>2. CASE ends(a.gap)
    <3>1. ~(a.state = "CLOSED" /\ ~a.more)
      BY <1>2, <1>5, <2>1, <2>2, ConstantFacts DEF Written, Active, Until
    <3> QED BY <1>1, <2>1, <3>1 DEF Written
  <2>3. CASE ~ends(a.gap)
    <3>1. Until(a.gap)' = Until(a.gap)
      BY <1>3, <2>1, <2>3
    <3> QED BY <1>1, <2>1, <3>1 DEF Written
  <2> QED BY <2>2, <2>3
<1>17. Clear'
  <2> SUFFICES ASSUME NEW g \in Gap \ blurred' PROVE Exact(g)'
    BY DEF Clear
  <2>1. Exact(g) /\ From(g)' = From(g) /\ Until(g)' = Until(g)
    BY <1>0, <1>1, <1>3, <1>5 DEF Clear
  <2> QED BY <1>1, <2>1 DEF Exact, Ended
<1> QED
  BY <1>9, <1>10, <1>11, <1>12, <1>13, <1>14, <1>15, <1>16, <1>17 DEF Inv

LEMMA StaleClosedStep == Inv /\ StaleClosed => Inv'
<1> SUFFICES ASSUME Inv, StaleClosed PROVE Inv'
  OBVIOUS
<1>0. /\ Types /\ Life /\ Chained /\ Rolling /\ Listed /\ Told /\ Booting
      /\ Artifacts /\ Clear
  BY DEF Inv
<1>1. /\ phase = "stale" /\ phase' = "seal"
      /\ \A g \in stale \ storage : task[g] = "closed"
      /\ now' = now /\ mark' = mark /\ stale' = stale /\ storage' = storage
      /\ task' = task /\ observed' = observed /\ roll' = roll /\ timer' = timer
      /\ file' = file /\ ready' = ready /\ sealed' = sealed /\ lost' = lost
      /\ blurred' = blurred /\ refused' = refused
  BY DEF StaleClosed, closes, disk, history
<1>2. \A g \in stale : Until(g) # Forever
  <2> SUFFICES ASSUME NEW g \in stale \ storage PROVE Until(g) # Forever
    BY <1>0, <1>1 DEF Booting
  <2>1. g \in Gap /\ task[g] = "closed"
    BY <1>0, <1>1 DEF Types
  <2>2. Lives(g)
    BY <1>0, <2>1 DEF Life
  <2>3. Begun(g) /\ ~Active(g)
    BY <2>1, <2>2 DEF Lives
  <2> QED BY <2>3 DEF Active, Until
<1>3. Types'
  BY <1>0, <1>1 DEF Types, Phases, Today
<1>4. Life'
  <2> SUFFICES ASSUME NEW g \in Gap PROVE Lives(g)'
    BY DEF Life
  <2>1. Lives(g)
    BY <1>0 DEF Life
  <2>2. task[g] = "opened" => g \notin StopGap
    BY <1>1, <2>1 DEF Lives
  <2> QED BY <1>1, <2>1, <2>2 DEF Lives, Active, Begun, From, Until
<1>5. Chained' /\ Told'
  BY <1>0, <1>1
     DEF Chained, Links, Chain, Continued, From, Told, Tale, Heir, Active, Begun, Until
<1>6. Rolling' /\ Listed'
  BY <1>0, <1>1
     DEF Rolling, Rolled, Listed, Chain, Continued, From, Today, Active, Begun, Until
<1>7. Booting'
  BY <1>0, <1>1, <1>2 DEF Booting, From, Until, Active, Begun, Today
<1>8. Artifacts' /\ Clear'
  BY <1>0, <1>1 DEF Artifacts, Written, Clear, Exact, Ended, From, Until
<1> QED BY <1>3, <1>4, <1>5, <1>6, <1>7, <1>8 DEF Inv

\* No gap is open that began before the boot, and the boot was yesterday at the
\* earliest: the days that the boot seals lie behind all open gaps.
LEMMA SealCompletedStep == Inv /\ SealCompleted => Inv'
<1> SUFFICES ASSUME Inv, SealCompleted PROVE Inv'
  OBVIOUS
<1>0. /\ Types /\ Life /\ Chained /\ Rolling /\ Listed /\ Told /\ Booting
      /\ Artifacts /\ Clear
  BY DEF Inv
<1>1. PICK d \in Completed \ sealed : sealed' = sealed \cup {d}
  BY DEF SealCompleted
<1>2. /\ phase = "seal"
      /\ now' = now /\ phase' = phase /\ mark' = mark /\ stale' = stale
      /\ storage' = storage /\ task' = task /\ observed' = observed /\ roll' = roll
      /\ timer' = timer /\ file' = file /\ ready' = ready /\ lost' = lost
      /\ blurred' = blurred /\ refused' = refused
  BY DEF SealCompleted, boot, closes, history
<1>3. d \in Nat /\ d < Today /\ Today \in Nat
  BY <1>0, TypeFacts, ConstantFacts, DayFacts DEF Completed, Days
<1>4. Types'
  BY <1>0, <1>1, <1>2, <1>3 DEF Types, Today
<1>5. Life' /\ Chained' /\ Artifacts' /\ Clear'
  <2>1. Life' /\ Chained'
    BY <1>0, <1>2
       DEF Life, Lives, Active, Begun, From, Until, Chained, Links, Chain, Continued
  <2>2. Artifacts' /\ Clear'
    BY <1>0, <1>2 DEF Artifacts, Written, Clear, Exact, Ended, From, Until
  <2> QED BY <2>1, <2>2
<1>6. Rolling' /\ Listed'
  BY <1>0, <1>2
     DEF Rolling, Rolled, Listed, Chain, Continued, From, Today, Active, Begun, Until
<1>7. Told'
  <2> SUFFICES ASSUME NEW g \in Gap PROVE Tale(g)'
    BY DEF Told
  <2>1. Tale(g) /\ From(g) \in Nat /\ Day(From(g)) \in Nat
    BY <1>0, TypeFacts DEF Told
  <2>2. ASSUME Active(g) PROVE Chain(g, d)
    <3>1. mark <= From(g) /\ mark # None /\ Today <= Day(mark) + 1
      BY <1>0, <1>2, <2>2 DEF Booting, Active, Until
    <3>2. mark \in Nat /\ Day(mark) \in Nat
      BY <1>0, <3>1, TypeFacts, DayFacts DEF Types
    <3>3. Day(mark) <= Day(From(g))
      BY <2>1, <3>1, <3>2, DayOrder
    <3>4. d <= Day(From(g))
      BY <1>3, <2>1, <3>1, <3>2, <3>3
    <3>5. Days \subseteq Nat
      BY ConstantFacts, DayFacts DEF Days
    <3> QED BY <1>3, <2>1, <3>4, <3>5 DEF Chain
  <2>3. Active(g) => \A s \in sealed' : Chain(g, s)
    BY <1>1, <2>1, <2>2 DEF Tale
  <2> QED BY <1>2, <2>1, <2>3 DEF Tale, Heir, Chain, Continued, From, Until, Active, Begun
<1>8. Booting'
  BY <1>0, <1>2 DEF Booting, From, Until, Active, Begun, Today
<1> QED BY <1>4, <1>5, <1>6, <1>7, <1>8 DEF Inv

LEMMA UpStep == Inv /\ Up => Inv'
<1> SUFFICES ASSUME Inv, Up PROVE Inv'
  OBVIOUS
<1>0. /\ Types /\ Life /\ Chained /\ Rolling /\ Listed /\ Told /\ Booting
      /\ Artifacts /\ Clear
  BY DEF Inv
<1>1. /\ phase = "seal" /\ phase' = "up"
      /\ timer' = [timer EXCEPT !.next = Today + 1]
      /\ now' = now /\ mark' = mark /\ stale' = stale /\ storage' = storage
      /\ task' = task /\ observed' = observed /\ roll' = roll
      /\ file' = file /\ ready' = ready /\ sealed' = sealed /\ lost' = lost
      /\ blurred' = blurred /\ refused' = refused
  BY DEF Up, closes, disk, history
<1>2. /\ timer' \in [step : {"wait", "roll"}, next : Nat, todo : SUBSET Gap]
      /\ timer'.step = "wait" /\ timer'.next # 0 /\ timer.step = "wait"
  <2>1. timer \in [step : {"wait", "roll"}, next : Nat, todo : SUBSET Gap]
        /\ timer.step = "wait"
    BY <1>0, <1>1 DEF Types, Booting
  <2>2. Today + 1 \in Nat /\ Today + 1 # 0
    <3>1. Today \in Nat
      BY <1>0, TypeFacts
    <3> QED BY <3>1
  <2>3. timer' \in [step : {"wait", "roll"}, next : Nat, todo : SUBSET Gap]
    BY <1>1, <2>1, <2>2
  <2>4. timer'.step = "wait" /\ timer'.next = Today + 1
    BY <1>1, <2>1
  <2> QED BY <2>1, <2>2, <2>3, <2>4
<1>3. Types'
  BY <1>0, <1>1, <1>2 DEF Types, Phases, Today
<1>4. Life'
  <2> SUFFICES ASSUME NEW g \in Gap PROVE Lives(g)'
    BY DEF Life
  <2>1. Lives(g)
    BY <1>0 DEF Life
  <2>2. task[g] = "opened" => g \notin StopGap
    BY <1>1, <2>1 DEF Lives
  <2> QED BY <1>1, <2>1, <2>2 DEF Lives, Active, Begun, From, Until
<1>5. Chained' /\ Told'
  BY <1>0, <1>1
     DEF Chained, Links, Chain, Continued, From, Told, Tale, Heir, Active, Begun, Until
<1>6. Rolling' /\ Listed'
  <2>1. Listed'
    BY <1>2 DEF Listed
  <2>2. Rolling'
    <3> SUFFICES ASSUME NEW a \in Gap \cup {Timer}, roll[a] # Idle PROVE Rolled(a, roll[a])'
      BY <1>1 DEF Rolling
    <3>1. Rolled(a, roll[a]) /\ a # Timer
      BY <1>0, <1>2 DEF Rolling, Rolled
    <3> QED BY <1>1, <3>1 DEF Rolled, Chain, Continued, From, Today
  <2> QED BY <2>1, <2>2
<1>7. Booting'
  BY <1>0, <1>1, <1>2 DEF Booting, From, Until, Active, Begun
<1>8. Artifacts' /\ Clear'
  BY <1>0, <1>1 DEF Artifacts, Written, Clear, Exact, Ended, From, Until
<1> QED BY <1>3, <1>4, <1>5, <1>6, <1>7, <1>8 DEF Inv

-----------------------------------------------------------------------------
\* The theorems

LEMMA InvStep == Inv /\ [Next]_vars => Inv'
<1> SUFFICES ASSUME Inv, [Next]_vars PROVE Inv'
  OBVIOUS
<1>1. CASE UNCHANGED vars
  <2>1. /\ now' = now /\ phase' = phase /\ mark' = mark /\ stale' = stale
        /\ storage' = storage /\ task' = task /\ observed' = observed /\ roll' = roll
        /\ timer' = timer /\ file' = file /\ ready' = ready /\ sealed' = sealed
        /\ lost' = lost /\ blurred' = blurred /\ refused' = refused
    BY <1>1 DEF vars, boot, closes, disk, history
  <2>2. Types' /\ Life'
    BY <2>1 DEF Inv, Types, Life, Lives, Active, Begun, From, Until, Today
  <2>3. Chained' /\ Told'
    BY <2>1
       DEF Inv, Chained, Links, Chain, Continued, From, Told, Tale, Heir, Active, Begun, Until
  <2>4. Rolling' /\ Listed'
    BY <2>1
       DEF Inv, Rolling, Rolled, Listed, Chain, Continued, From, Today, Active, Begun, Until
  <2>5. Booting'
    BY <2>1 DEF Inv, Booting, From, Until, Active, Begun, Today
  <2>6. Artifacts' /\ Clear'
    BY <2>1 DEF Inv, Artifacts, Written, Clear, Exact, Ended, From, Until
  <2> QED BY <2>2, <2>3, <2>4, <2>5, <2>6 DEF Inv
<1>2. ASSUME NEW g \in Gap, OpenGap(g) \/ OpenStorageGap(g) PROVE Inv'
  BY <1>2, OpenGapStep, OpenStorageGapStep
<1>3. ASSUME NEW g \in Gap, SaveFile(g) \/ CloseBegins(g) \/ CloseReads(g) PROVE Inv'
  BY <1>3, SaveFileStep, CloseBeginsStep, CloseReadsStep
<1>4. ASSUME NEW g \in Gap, ClosePublishes(g) \/ RemoveFile(g) PROVE Inv'
  BY <1>4, ClosePublishesStep, RemoveFileStep
<1>5. ASSUME NEW a \in Gap \cup {Timer}, RollClose(a) \/ RollOpen(a) \/ RollFile(a)
      PROVE  Inv'
  BY <1>5, RollPublishesStep, RollFileStep
<1>6. CASE \/ \E g \in Gap : OpenRefused(g) \/ CloseRefused(g)
           \/ \E a \in Gap \cup {Timer} : RollRefused(a)
           \/ MidnightFails \/ Crash
  BY <1>6, EndingsStep
<1>7. CASE Midnight \/ MidnightReads \/ MidnightSeals
  BY <1>7, MidnightStep, MidnightReadsStep, MidnightSealsStep
<1>8. CASE Boot \/ SourcesReady \/ StaleClosed \/ SealCompleted \/ Up
  BY <1>8, BootStep, SourcesReadyStep, StaleClosedStep, SealCompletedStep, UpStep
<1>9. CASE Tick
  BY <1>9, TickStep
<1> QED
  BY <1>1, <1>2, <1>3, <1>4, <1>5, <1>6, <1>7, <1>8, <1>9 DEF Next

\* The variables of the journal keep their types: the tasks that own gaps, the
\* state files, the rolls in progress and the artifacts (edge/gaps.py).
THEOREM TypeCorrect == Spec => []TypeOK
<1>1. Spec => []Inv
  BY InvInit, InvStep, PTL DEF Spec
<1> QED BY <1>1, InvTypeOK, PTL

\* Each instant of a loss whose opening was published is told in its sealed day,
\* however opens, closes, roll-overs, crashes and boots interleave
\* (edge/gaps.py:134-180, central/gap_ledger.py).
THEOREM SealedDaysTellLoss == Spec => []SealedDayTellsLoss
<1>1. Spec => []Inv
  BY InvInit, InvStep, PTL DEF Spec
<1> QED BY <1>1, InvTellsLoss, PTL

\* And no other instant is told for a gap that was opened and closed without a
\* crash or a roll-over in the middle (edge/gaps.py:97-132, central/gap_ledger.py).
THEOREM SealedDaysTellNoMore == Spec => []SealedDayTellsNoMore
<1>1. Spec => []Inv
  BY InvInit, InvStep, PTL DEF Spec
<1> QED BY <1>1, InvTellsNoMore, PTL
=============================================================================
