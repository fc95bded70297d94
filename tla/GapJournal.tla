----------------------------- MODULE GapJournal -----------------------------
(***************************************************************************)
(* The journal of gaps (edge/gaps.py) from the publication of an artifact  *)
(* to what central reads in a sealed day (central/gap_ledger.py and        *)
(* process_cli.py): gaps are opened and closed by tasks of their own, the  *)
(* midnight boundary rolls the open ones into the new day and seals the    *)
(* old one, and a crash leaves artifacts and state files for the next boot.*)
(*                                                                         *)
(* Time is counted in instants. What the process does happens at even      *)
(* ones; the first and the last of a day are left to roll-overs.           *)
(***************************************************************************)
EXTENDS Integers, FiniteSets

CONSTANTS
  LossGap,   \* gap ids for the sources and the storage loop
  StopGap,   \* and for COLLECTOR_STOPPED
  Timer,     \* the midnight loop
  DayLen,    \* instants of a day
  Grace,     \* day_seal_grace_seconds
  Reach,     \* how late a gap may be noticed
  MaxTime    \* bound of one behaviour

Gap == LossGap \cup StopGap

ASSUME GapJournalAssumption ==
  /\ DayLen \in Nat /\ DayLen > 2 /\ DayLen % 2 = 0
  /\ {Grace, Reach, MaxTime} \subseteq Nat
  /\ MaxTime >= 2
  /\ Reach + 2 <= DayLen   \* a loss is noticed within minutes
  /\ Timer \notin Gap
  /\ LossGap \cap StopGap = {}

VARIABLES
  now,
  phase,    \* EdgeService.run, as far as gaps depend on it
  task,     \* where the task that owns a gap is
  observed, \* observed_at of the open() or close() in progress
  roll,     \* _roll_state_to of a close or of the midnight loop
  timer,    \* the midnight loop: its midnight and the paths it has listed
  file,     \* open-gaps/<gap>.json: the effective instant, or None
  ready,    \* the published artifacts
  sealed,   \* the sealed days
  mark,     \* the lease watermark: of the process that ended, then the boot
  stale,    \* _stale_gaps: the gaps with a state file at the boot
  storage,  \* the gaps that are STORAGE_EXHAUSTED
  lost,     \* history: the instants that a gap stands for
  blurred,  \* history: gaps whose close met a roll-over or a crash
  refused   \* history: stale gaps whose close a sealed day has refused

boot    == <<phase, mark, stale, storage>>
closes  == <<task, observed>>
disk    == <<file, ready, sealed>>
history == <<lost, blurred, refused>>
vars == <<now, boot, closes, roll, timer, disk, history>>

None    == -1
Forever == MaxTime + 2 * DayLen
Day(t)  == t \div DayLen
Start(d) == d * DayLen
Today   == Day(now)
Days    == 0..Day(Forever)
Sooner(a, b) == IF a < b THEN a ELSE b
Later(a, b) == IF a < b THEN b ELSE a
Moments == {t \in 0..MaxTime : t % 2 = 0 /\ t % DayLen # 0}

Idle == [step |-> "idle", gap |-> Timer, day |-> 0, target |-> 0]
Closing == {"observed", "closing", "removing"}

TypeOK ==
  /\ now \in Moments
  /\ phase \in {"down", "opening", "boot", "stale", "seal", "up"}
  /\ \A g \in Gap :
       /\ task[g] \in {"none", "opened", "open", "closed", "gone"} \cup Closing
       /\ file[g] \in {None} \cup (0..MaxTime)
       /\ observed[g] \in {None} \cup (0..now)
       /\ lost[g].from \in 0..lost[g].to /\ lost[g].to \in 0..Forever
  /\ \A a \in Gap \cup {Timer} :
       roll[a] # Idle =>
         /\ roll[a].step \in {"close", "open", "file"}
         /\ roll[a].day <= roll[a].target /\ roll[a].target <= Today
         /\ a # Timer => roll[a].gap = a /\ task[a] = "observed"
  /\ timer.todo \subseteq Gap /\ sealed \subseteq Days /\ refused \subseteq Gap
  /\ \A a \in ready : a.gap \in Gap /\ a.at \in 0..MaxTime

Init ==
  /\ now = 2 /\ phase = "up"
  /\ task = [g \in Gap |-> "none"] /\ observed = [g \in Gap |-> None]
  /\ roll = [a \in Gap \cup {Timer} |-> Idle]
  /\ timer = [step |-> "wait", next |-> 1, todo |-> {}]
  /\ file = [g \in Gap |-> None] /\ ready = {} /\ sealed = {}
  /\ mark = None /\ stale = {} /\ storage = {}
  /\ lost = [g \in Gap |-> [from |-> Forever, to |-> Forever]]
  /\ blurred = {} /\ refused = {}

-----------------------------------------------------------------------------
\* Publication

Artifact(g, state, at, more) == [gap |-> g, state |-> state, at |-> at, more |-> more]
Refuses(t) == Day(t) \in sealed

\* The lease watermark: while the storage gap is open the sources are mark.
Durable ==
  IF \E g \in storage : lost[g].from < Forever /\ lost[g].to = Forever
  THEN lost[CHOOSE g \in storage : lost[g].from < Forever /\ lost[g].to = Forever].from
  ELSE now

\* The process ends. Gaps with a state file are stale at the next boot, the
\* others end here, at midnight at the latest: COLLECTOR_STOPPED follows.
Ends ==
  /\ phase' = "down"
  /\ mark' = Durable /\ stale' = {}
  /\ task' = [g \in Gap |->
                IF file[g] # None THEN "open"
                ELSE IF task[g] \in {"none", "closed"} THEN task[g] ELSE "gone"]
  /\ lost' = [g \in Gap |->
                IF task[g] = "opened" THEN [from |-> lost[g].from, to |-> Sooner(now, Start(Day(lost[g].from) + 1))]
                ELSE lost[g]]
  /\ blurred' = blurred \cup {g \in Gap : task[g] \in {"opened", "removing"}}
  /\ roll' = [a \in Gap \cup {Timer} |-> Idle]
  /\ timer' = [step |-> "wait", next |-> 0, todo |-> {}]
  /\ UNCHANGED <<now, storage, observed, disk>>

Refused(gaps) == refused' = refused \cup gaps /\ Ends

\* open(): the OPEN artifact, then the state file.
Open(g, from) ==
  /\ ready' = ready \cup {Artifact(g, "OPEN", from, FALSE)}
  /\ lost' = [lost EXCEPT ![g].from = from]
  /\ task' = [task EXCEPT ![g] = "opened"]
  /\ observed' = [observed EXCEPT ![g] = now]

\* A task notices a loss late, but it has seen its streams since the boot.
Noticed == {t \in Moments : mark <= t /\ now - Reach <= t /\ t <= now}

OpenGap(g) ==
  /\ g \in LossGap /\ task[g] = "none" /\ phase \notin {"down", "opening"}
  /\ \E from \in Noticed : ~Refuses(from) /\ Open(g, from)
  /\ UNCHANGED <<now, boot, roll, timer, file, sealed, blurred, refused>>

OpenRefused(g) ==
  /\ g \in LossGap /\ task[g] = "none" /\ phase \notin {"down", "opening"}
  /\ \E from \in Noticed : Refuses(from)
  /\ Refused({})

OpenStorageGap(g) ==
  /\ g \in LossGap /\ task[g] = "none" /\ phase = "up"
  /\ \A h \in storage : task[h] = "closed"
  /\ ~Refuses(now) /\ Open(g, now)
  /\ storage' = storage \cup {g}
  /\ UNCHANGED <<now, phase, mark, stale, roll, timer, file, sealed, blurred, refused>>

SaveFile(g) ==
  /\ task[g] = "opened"
  /\ task' = [task EXCEPT ![g] = "open"]
  /\ file' = [file EXCEPT ![g] = lost[g].from]
  /\ phase' = IF g \in StopGap THEN "boot" ELSE phase
  /\ stale' = IF g \in StopGap THEN {h \in Gap : file[h] # None} \cup {g} ELSE stale
  /\ UNCHANGED <<now, mark, storage, observed, roll, timer, ready, sealed, history>>

-----------------------------------------------------------------------------
\* _roll_state_to, one file operation at a time; a is the gap that is being
\* closed or the midnight loop.

WrongMore(day, target) == day <= target + 1
More(day, target) == day <= target

\* The loop goes on with a day: the old one may have been sealed without the
\* CLOSED of its end; it is told to its end then.
WrongTurn(r) == [r EXCEPT !.step = IF r.day - 1 \in sealed THEN "file" ELSE "close"]
Turn(r) == [r EXCEPT !.step = IF r.day - 1 \in sealed THEN "open" ELSE "close"]

Rolls(a, r) ==
  IF More(r.day, r.target)
  THEN roll' = [roll EXCEPT ![a] = Turn(r)] /\ UNCHANGED task
  ELSE /\ roll' = [roll EXCEPT ![a] = Idle]
       /\ task' = IF a = Timer THEN task ELSE [task EXCEPT ![a] = "closing"]

RollFrom(a, g, target) ==
  Rolls(a, [step |-> "read", gap |-> g, day |-> Day(file[g]) + 1, target |-> target])

RollClose(a) ==
  /\ roll[a].step = "close" /\ ~Refuses(Start(roll[a].day) - 1)
  /\ ready' = ready \cup {Artifact(roll[a].gap, "CLOSED", Start(roll[a].day) - 1, TRUE)}
  /\ roll' = [roll EXCEPT ![a].step = "open"]
  /\ UNCHANGED <<now, boot, closes, timer, file, sealed, history>>

RollOpen(a) ==
  /\ roll[a].step = "open" /\ ~Refuses(Start(roll[a].day))
  /\ ready' = ready \cup {Artifact(roll[a].gap, "OPEN", Start(roll[a].day), FALSE)}
  /\ roll' = [roll EXCEPT ![a].step = "file"]
  /\ UNCHANGED <<now, boot, closes, timer, file, sealed, history>>

RollRefused(a) ==
  /\ \/ roll[a].step = "close" /\ Refuses(Start(roll[a].day) - 1)
     \/ roll[a].step = "open" /\ Refuses(Start(roll[a].day))
  /\ Refused({a} \cap stale)

RollFile(a) ==
  /\ roll[a].step = "file"
  /\ file' = [file EXCEPT ![roll[a].gap] = Start(roll[a].day)]
  /\ Rolls(a, [roll[a] EXCEPT !.day = @ + 1])
  /\ UNCHANGED <<now, boot, observed, timer, ready, sealed, history>>

-----------------------------------------------------------------------------
\* close(). Stale gaps are closed one by one after readiness, the storage gap
\* only by the storage loop.

MayClose(g) ==
  \/ g \in LossGap \ (stale \cup storage) /\ phase # "opening"
  \/ g \in storage /\ phase = "up"
  \/ /\ g \in stale \ storage /\ phase = "stale"
     /\ \A h \in stale : task[h] \notin Closing

CloseBegins(g) ==
  /\ task[g] = "open" /\ phase # "down" /\ MayClose(g)
  /\ lost[g].from < now
  /\ observed' = [observed EXCEPT ![g] = now]
  /\ task' = [task EXCEPT ![g] = "observed"]
  /\ blurred' = IF roll[Timer].gap = g THEN blurred \cup {g} ELSE blurred
  /\ UNCHANGED <<now, boot, roll, timer, disk, lost, refused>>

CloseReads(g) ==
  /\ task[g] = "observed" /\ roll[g] = Idle
  /\ RollFrom(g, g, Day(observed[g]))
  /\ UNCHANGED <<now, boot, observed, timer, disk, history>>

WrongClosedAt(g) == now
ClosedAt(g) == observed[g]

ClosePublishes(g) ==
  /\ task[g] = "closing" /\ ~Refuses(ClosedAt(g))
  /\ ready' = ready \cup {Artifact(g, "CLOSED", ClosedAt(g), FALSE)}
  /\ lost' = [lost EXCEPT ![g].to = IF @ = Forever THEN observed[g] ELSE @]
  /\ task' = [task EXCEPT ![g] = "removing"]
  /\ UNCHANGED <<now, boot, observed, roll, timer, file, sealed, blurred, refused>>

CloseRefused(g) ==
  /\ task[g] = "closing" /\ Refuses(ClosedAt(g))
  /\ Refused({})

RemoveFile(g) ==
  /\ task[g] = "removing"
  /\ file' = [file EXCEPT ![g] = None]
  /\ task' = [task EXCEPT ![g] = "closed"]
  /\ UNCHANGED <<now, boot, observed, roll, timer, ready, sealed, history>>

-----------------------------------------------------------------------------
\* The midnight loop: rollover, the grace time, the seal

Midnight ==
  /\ phase = "up" /\ timer.step = "wait" /\ now >= Start(timer.next)
  /\ timer' = [timer EXCEPT !.step = "roll", !.todo = {g \in Gap : file[g] # None}]
  /\ UNCHANGED <<now, boot, closes, roll, disk, history>>

MidnightReads ==
  /\ timer.step = "roll" /\ roll[Timer] = Idle
  /\ \E g \in timer.todo :
       /\ file[g] # None
       /\ timer' = [timer EXCEPT !.todo = @ \ {g}]
       /\ RollFrom(Timer, g, timer.next)
       /\ blurred' = IF task[g] \in Closing THEN blurred \cup {g} ELSE blurred
  /\ UNCHANGED <<now, boot, observed, disk, lost, refused>>

\* A listed file has been removed by a close: FileNotFoundError ends the loop
\* and with it the process.
MidnightFails ==
  /\ timer.step = "roll" /\ roll[Timer] = Idle
  /\ \E g \in timer.todo : file[g] = None
  /\ Ends
  /\ UNCHANGED refused

MidnightSeals ==
  /\ timer.step = "roll" /\ timer.todo = {} /\ roll[Timer] = Idle
  /\ now >= Start(timer.next) + Grace
  /\ sealed' = sealed \cup {timer.next - 1}
  /\ timer' = [timer EXCEPT !.step = "wait", !.next = Today + 1]
  /\ UNCHANGED <<now, boot, closes, roll, file, ready, history>>

-----------------------------------------------------------------------------
\* The process and time

Crash ==
  /\ phase # "down" /\ \E g \in StopGap : task[g] = "none"
  /\ Ends
  /\ UNCHANGED refused

\* recovery_start_ns: never before the end of a sealed day.
Floor == IF sealed = {} THEN 0
         ELSE Start(1 + CHOOSE d \in sealed : \A e \in sealed : e <= d)

Boot ==
  /\ phase = "down"
  /\ \E g \in StopGap : task[g] = "none" /\ Open(g, Later(mark, Floor))
  /\ phase' = "opening" /\ mark' = now
  /\ UNCHANGED <<now, stale, storage, roll, timer, file, sealed, blurred, refused>>

\* wait_ready has returned: the loss of a stale storage gap ends here, its close
\* is left to the storage loop.
SourcesReady ==
  /\ phase = "boot"
  /\ phase' = "stale"
  /\ lost' = [g \in Gap |-> IF g \in stale \cap storage /\ lost[g].to = Forever
                            THEN [lost[g] EXCEPT !.to = now] ELSE lost[g]]
  /\ blurred' = blurred \cup (stale \cap storage)
  /\ UNCHANGED <<now, mark, stale, storage, closes, roll, timer, disk, refused>>

StaleClosed ==
  /\ phase = "stale"
  /\ \A g \in stale \ storage : task[g] = "closed"
  /\ phase' = "seal"
  /\ UNCHANGED <<now, mark, stale, storage, closes, roll, timer, disk, history>>

\* completed_dates: the days before today that have an artifact.
Completed == {d \in Days : d < Today /\ \E a \in ready : Day(a.at) = d}

SealCompleted ==
  /\ phase = "seal"
  /\ \E d \in Completed \ sealed : sealed' = sealed \cup {d}
  /\ UNCHANGED <<now, boot, closes, roll, timer, file, ready, history>>

Up ==
  /\ phase = "seal" /\ Completed \subseteq sealed
  /\ phase' = "up"
  /\ timer' = [timer EXCEPT !.next = Today + 1]
  /\ UNCHANGED <<now, mark, stale, storage, closes, roll, disk, history>>

\* The state file follows the artifact within two moments, and a boot, whose
\* readiness has a time limit, meets no more than one midnight.
Tick ==
  /\ \A g \in Gap : task[g] = "opened" => observed[g] = now
  /\ \E t \in Moments :
       /\ t > now /\ \A u \in Moments : u <= now \/ t <= u
       /\ phase \notin {"up", "down"} => Day(t) <= Day(mark) + 1
       /\ now' = t
  /\ UNCHANGED <<boot, closes, roll, timer, disk, history>>

Next ==
  \/ \E g \in Gap :
       \/ OpenGap(g) \/ OpenStorageGap(g) \/ OpenRefused(g) \/ SaveFile(g)
       \/ CloseBegins(g) \/ CloseReads(g) \/ ClosePublishes(g) \/ CloseRefused(g)
       \/ RemoveFile(g)
  \/ \E a \in Gap \cup {Timer} :
       RollClose(a) \/ RollOpen(a) \/ RollRefused(a) \/ RollFile(a)
  \/ Midnight \/ MidnightReads \/ MidnightFails \/ MidnightSeals
  \/ Crash \/ Boot \/ SourcesReady \/ StaleClosed \/ SealCompleted \/ Up \/ Tick

Spec == Init /\ [][Next]_vars

-----------------------------------------------------------------------------
\* What central reads in a day

Of(g, d) == {a \in ready : a.gap = g /\ Day(a.at) = d}
Before(a, b) ==
  \/ a.at < b.at
  \/ a.at = b.at /\ a.state = "CLOSED" /\ b.state = "OPEN"
Following(a, E) ==
  {b \in E : Before(a, b) /\ \A c \in E : ~(Before(a, c) /\ Before(c, b))}

\* An OPEN stands until the CLOSED that follows it, one instant longer if the
\* gap continues, or to the end of the day; another OPEN replaces it.
Tells(g, t) ==
  LET E == Of(g, Day(t))
  IN  \E o \in E :
        /\ o.state = "OPEN" /\ o.at <= t
        /\ \A n \in Following(o, E) :
             n.state = "CLOSED" /\ t < n.at + (IF n.more THEN 1 ELSE 0)

SealedInstants == {t \in 0..Forever : Day(t) \in sealed}
LostIn(g, t) == lost[g].from <= t /\ t < lost[g].to

\* Central learns of a loss from the artifacts of the sealed day alone: each
\* instant of a gap whose opening was published lies in an interval of its
\* day, however many midnights, restarts and interrupted roll-overs follow
\* (gaps.py:134-180, README.md:35).
SealedDayTellsLoss ==
  \A t \in SealedInstants :
    (\E g \in Gap : LostIn(g, t)) => \E g \in Gap : Tells(g, t)

\* And it learns of no more: a gap that was opened and closed counts exactly
\* from its loss to its end, unless a crash or a roll-over has come in the
\* middle of its opening or closing.
SealedDayTellsNoMore ==
  \A t \in SealedInstants, g \in Gap :
    task[g] \in {"removing", "closed"} /\ g \notin blurred /\ Tells(g, t) => LostIn(g, t)

\* Every stale gap can be closed by the process that finds it, the storage gap
\* too: "STORAGE_EXHAUSTED_GAP or COLLECTOR_STOPPED_GAP ... must be closed by
\* the new process after full source readiness" (docs/deployment.md:40).
StaleGapsClose == refused = {}
=============================================================================
