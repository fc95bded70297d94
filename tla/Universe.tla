------------------------------ MODULE Universe ------------------------------
(***************************************************************************)
(* The store of universe decisions (edge/universe.py) with the steps of    *)
(* the service that drive it: the boot, the discovery that plans the next  *)
(* decision, the operator's overrides and the midnight boundary that       *)
(* applies what is due. A crash may come between any two file operations.  *)
(***************************************************************************)
EXTENDS Selector

CONSTANTS
  Evidence,      \* what a discovery may find
  Proposal,      \* the candidate roles an operator may ask for
  MaxDays,       \* bounds of one behaviour: days,
  MaxOverrides,  \* overrides,
  MaxWait,       \* days from an override to its midnight,
  MaxCrashes     \* and crashes

ASSUME UniverseAssumption == {MaxDays, MaxOverrides, MaxWait, MaxCrashes} \subseteq Nat
\* A ranking has no symbol twice; a file with other roles is not an override.
ASSUME EvidenceAssumption ==
  \A e \in Evidence : \A s \in {e.order, e.newest} : s \in Seq(Symbol) /\ IsInjective(s)
ASSUME ProposalAssumption ==
  \A p \in Proposal : /\ p.boundary \cup p.probe \subseteq Symbol
                      /\ Cardinality(p.boundary) = Slots /\ Cardinality(p.probe) = Slots
                      /\ p.boundary \cap p.probe = {}

VARIABLES
  policy,     \* the configured roles
  disk,       \* active.json, membership-state.json, pending.json, overrides
  formal,     \* formal-start.json exists
  mem,        \* UniverseStore: _active, _member_since, _core_since
  pc,         \* where the process is
  applying,   \* the source file of the decision that apply_due has selected
  snapshot,   \* a discovery that waits for the operation lock
  ready,      \* a discovery has succeeded since the boot
  polled,     \* the day of the latest scheduled discovery
  day,
  joined,     \* history: effective days of the published memberships
  torn,       \* history: a crash has left an old membership-state.json
  crashes, overrides

store   == <<policy, disk, formal, mem>>
process == <<pc, applying, snapshot, ready, polled>>
history == <<joined, torn>>
bounds  == <<crashes, overrides>>
vars == <<store, process, day, history, bounds>>

\* A file is the set of its contents, empty or with one element.
Only(S) == CHOOSE x \in S : TRUE
Members(d) == d.core \cup d.boundary \cup d.probe
NoMemory == [active |-> {}, member |-> <<>>, core |-> <<>>]
Since(S, d) == [x \in S |-> d]
Active == Only(mem.active)

WholeRoles(d) ==
  /\ Members(d) \subseteq Symbol
  /\ Cardinality(d.core) = CoreSize
  /\ Cardinality(d.boundary) = Slots /\ Cardinality(d.probe) = Slots
  /\ Cardinality(Members(d)) = CoreSize + 2 * Slots

TypeOK ==
  /\ \A d \in disk.active \cup disk.pending \cup mem.active : WholeRoles(d)
  /\ Cardinality(disk.active) <= 1 /\ Cardinality(disk.pending) <= 1
  /\ Cardinality(disk.state) <= 1
  /\ pc \in {"down", "bootstrap", "due", "state", "source", "pending", "up", "failed"}
  /\ pc \in {"down", "failed"} <=> mem = NoMemory
  /\ applying \subseteq disk.overrides \cup disk.pending
  /\ Cardinality(snapshot) <= 1
  /\ {formal, ready, torn} \subseteq BOOLEAN
  /\ day \in 0..MaxDays /\ polled \in -1..MaxDays
  /\ crashes \in 0..MaxCrashes /\ overrides \in 0..MaxOverrides

Init ==
  /\ \E e \in Evidence : CanBootstrap(e) /\ policy = BootstrapRoles(e)
  /\ disk = [active |-> {}, state |-> {}, pending |-> {}, overrides |-> {}]
  /\ formal = FALSE
  /\ mem = NoMemory
  /\ pc = "down" /\ applying = {} /\ snapshot = {} /\ ready = FALSE /\ polled = 0
  /\ day = 0
  /\ joined = [member |-> <<>>, core |-> <<>>] /\ torn = FALSE
  /\ crashes = 0 /\ overrides = 0

-----------------------------------------------------------------------------
\* Boot

\* The first decision becomes effective now, in the middle of a day: for the
\* minimum stay its members join with the next day.
Bootstrap ==
  [gen |-> 1, rev |-> 0, seq |-> 1, created |-> day, effective |-> day,
   core |-> policy.core, boundary |-> policy.boundary, probe |-> policy.probe,
   inactive |-> {}]

FirstBoot ==
  /\ pc = "down" /\ disk.active = {}
  /\ mem' = [active |-> {Bootstrap}, member |-> Since(Members(policy), day + 1),
             core |-> Since(policy.core, day + 1)]
  /\ disk' = [disk EXCEPT !.active = {Bootstrap}]
  /\ joined' = [member |-> Since(Members(policy), day + 1),
                core |-> Since(policy.core, day + 1)]
  /\ pc' = "bootstrap"
  /\ polled' = day - 1
  /\ UNCHANGED <<policy, formal, applying, snapshot, ready, day, torn, bounds>>

SavedState == [member |-> mem.member, core |-> mem.core]

BootstrapState ==
  /\ pc = "bootstrap"
  /\ disk' = [disk EXCEPT !.state = {SavedState}]
  /\ pc' = "due"
  /\ UNCHANGED <<policy, formal, mem, applying, snapshot, ready, polled, day, history, bounds>>

\* _load_state fails without its file.
Boot ==
  /\ pc = "down" /\ disk.active # {} /\ disk.state # {}
  /\ mem' = [active |-> disk.active, member |-> Only(disk.state).member,
             core |-> Only(disk.state).core]
  /\ pc' = "due"
  /\ polled' = day - 1
  /\ UNCHANGED <<policy, disk, formal, applying, snapshot, ready, day, history, bounds>>

-----------------------------------------------------------------------------
\* apply_due, at the boot and at midnight

NextVersion(core) ==
  IF core # Active.core THEN [gen |-> Active.gen + 1, rev |-> 0]
  ELSE [gen |-> Active.gen, rev |-> Active.rev + 1]

\* What _decision_from_override accepts.
WrongAcceptable(o) ==
  LET proposed == o.boundary \cup o.probe
      current  == Active.boundary \cup Active.probe
  IN  /\ Cardinality(proposed \ current) <= DailyLimit
      /\ \A x \in current \ proposed :
           DwellComplete(SinceOr(mem.member, x, o.effective), o.effective, Dwell)
Acceptable(o) ==
  LET proposed == o.boundary \cup o.probe
      current  == Active.boundary \cup Active.probe
  IN  /\ proposed \cap Active.core = {}
      /\ Cardinality(proposed \ current) <= DailyLimit
      /\ \A x \in current \ proposed :
           DwellComplete(SinceOr(mem.member, x, o.effective), o.effective, Dwell)

FromOverride(o) ==
  [gen |-> Active.gen, rev |-> Active.rev + 1, seq |-> Active.seq + 1,
   created |-> o.created, effective |-> o.effective,
   core |-> Active.core, boundary |-> o.boundary, probe |-> o.probe,
   inactive |-> {}]

\* The pending decision if it follows the active one, and the overrides that
\* are accepted, each with the file it comes from.
WrongDue(now) ==
  {[decision |-> d, source |-> d] : d \in {p \in disk.pending : p.effective <= now}}
  \cup {[decision |-> FromOverride(o), source |-> o] :
          o \in {x \in disk.overrides : Acceptable(x) /\ x.effective <= now}}
Due(now) ==
  {[decision |-> d, source |-> d] :
     d \in {p \in disk.pending : p.seq > Active.seq /\ p.effective <= now}}
  \cup {[decision |-> FromOverride(o), source |-> o] :
          o \in {x \in disk.overrides : Acceptable(x) /\ x.effective <= now}}

\* The latest of them: by effective and by creation day, a tie is open.
Selected(cs) ==
  {c \in cs : \A k \in cs :
     \/ k.decision.effective < c.decision.effective
     \/ /\ k.decision.effective = c.decision.effective
        /\ k.decision.created <= c.decision.created}

\* Every look at the overrides renames those that are not acceptable.
Accepted == {o \in disk.overrides : Acceptable(o)}

Joining(since, S, d) == [x \in S |-> SinceOr(since, x, d)]

Apply ==
  /\ pc = "due"
  /\ \E c \in Selected(Due(day)) :
       LET d == c.decision
       IN  /\ mem' = [active |-> {d},
                      member |-> Joining(mem.member, Members(d), d.effective),
                      core |-> [x \in d.core |->
                                  IF x \in Active.core
                                  THEN SinceOr(mem.core, x, d.effective)
                                  ELSE d.effective]]
           /\ disk' = [disk EXCEPT !.active = {d}, !.overrides = Accepted]
           /\ joined' = [member |-> [x \in Members(d) |->
                                       SinceOr(joined.member, x, d.effective)],
                         core |-> [x \in d.core |->
                                     SinceOr(joined.core, x, d.effective)]]
           /\ applying' = {c.source}
  /\ pc' = "state"
  /\ UNCHANGED <<policy, formal, snapshot, ready, polled, day, torn, bounds>>

NothingDue ==
  /\ pc = "due" /\ Due(day) = {}
  /\ disk' = [disk EXCEPT !.overrides = Accepted]
  /\ pc' = "up"
  /\ UNCHANGED <<policy, formal, mem, applying, snapshot, ready, polled, day, history, bounds>>

SaveState ==
  /\ pc = "state"
  /\ disk' = [disk EXCEPT !.state = {SavedState}]
  /\ pc' = "source"
  /\ UNCHANGED <<policy, formal, mem, applying, snapshot, ready, polled, day, history, bounds>>

RemoveSource ==
  /\ pc = "source"
  /\ disk' = [disk EXCEPT !.pending = @ \ applying, !.overrides = @ \ applying]
  /\ applying' = {}
  /\ pc' = "pending"
  /\ UNCHANGED <<policy, formal, mem, snapshot, ready, polled, day, history, bounds>>

RemovePending ==
  /\ pc = "pending"
  /\ disk' = [disk EXCEPT !.pending = {}]
  /\ pc' = "up"
  /\ UNCHANGED <<policy, formal, mem, applying, snapshot, ready, polled, day, history, bounds>>

-----------------------------------------------------------------------------
\* The service

\* A discovery that has waited for the lock since a midnight has its turn before
\* the next.
Midnight ==
  /\ pc \in {"up", "down"} /\ day < MaxDays
  /\ \A o \in snapshot : o.day = day
  /\ day' = day + 1
  /\ pc' = IF pc = "up" THEN "due" ELSE "down"
  /\ UNCHANGED <<store, applying, snapshot, ready, polled, history, bounds>>

\* A discovery has all its evidence, the first after the boot or the one of
\* the day; the lock may keep it waiting past midnight.
Observe ==
  /\ pc = "up" /\ snapshot = {}
  /\ ready => polled < day
  /\ \E e \in Evidence, late \in BOOLEAN :
       snapshot' = {[evidence |-> e, day |-> day, late |-> late]}
  /\ polled' = IF ready THEN day ELSE polled
  /\ UNCHANGED <<store, pc, applying, ready, day, history, bounds>>

\* Evidence after the cutoff minute is for the midnight after the next.
NextEffective(o) == IF o.late THEN o.day + 2 ELSE o.day + 1

Decided(o, roles) ==
  LET version == NextVersion(roles.core)
  IN  [gen |-> version.gen, rev |-> version.rev, seq |-> Active.seq + 1,
       created |-> o.day, effective |-> NextEffective(o),
       core |-> roles.core, boundary |-> roles.boundary, probe |-> roles.probe,
       inactive |-> Inactive(o.evidence, Members(Active))]
Planned(o) ==
  Decided(o, SelectRolling(Active, o.evidence, NextEffective(o), mem.member, mem.core))

\* A decision that changes nothing leaves no pending one.
Pending(d) == IF Roles(d) = Roles(Active) THEN {} ELSE {d}

\* observe_and_plan before the formal start and after it. An exception ends
\* the sources, and with them the process.
Verify ==
  /\ pc = "up" /\ snapshot # {} /\ ~formal
  /\ LET holds == BootstrapHolds(Only(snapshot).evidence, Roles(Active))
     IN  /\ ready' = holds
         /\ pc' = IF holds THEN "up" ELSE "down"
         /\ mem' = IF holds THEN mem ELSE NoMemory
         /\ disk' = IF holds THEN [disk EXCEPT !.active = mem.active] ELSE disk
  /\ snapshot' = {}
  /\ UNCHANGED <<policy, formal, applying, polled, day, history, bounds>>

Plan ==
  /\ pc = "up" /\ snapshot # {} /\ formal
  /\ ~Raises(Only(snapshot).evidence, Active)
  /\ disk' = [disk EXCEPT !.pending = Pending(Planned(Only(snapshot)))]
  /\ snapshot' = {}
  /\ ready' = TRUE
  /\ UNCHANGED <<policy, formal, mem, pc, applying, polled, day, history, bounds>>

PlanRaises ==
  /\ pc = "up" /\ snapshot # {} /\ formal
  /\ Raises(Only(snapshot).evidence, Active)
  /\ pc' = "failed"
  /\ mem' = NoMemory /\ snapshot' = {} /\ ready' = FALSE
  /\ UNCHANGED <<policy, disk, formal, applying, polled, day, history, bounds>>

Restart ==
  /\ pc = "failed"
  /\ pc' = "down"
  /\ UNCHANGED <<store, applying, snapshot, ready, polled, day, history, bounds>>

FormalStart ==
  /\ pc = "up" /\ ready /\ ~formal
  /\ formal' = TRUE
  /\ UNCHANGED <<policy, disk, mem, process, day, history, bounds>>

\* The operator's file arrives; it becomes effective at a later midnight.
Override ==
  /\ overrides < MaxOverrides /\ formal
  /\ \E p \in Proposal, wait \in 1..MaxWait :
       disk' = [disk EXCEPT !.overrides = @ \cup
                  {[boundary |-> p.boundary, probe |-> p.probe, created |-> day,
                    effective |-> day + wait]}]
  /\ overrides' = overrides + 1
  /\ UNCHANGED <<policy, formal, mem, process, day, history, crashes>>

Crash ==
  /\ pc \notin {"down", "failed"} /\ crashes < MaxCrashes
  /\ crashes' = crashes + 1
  /\ torn' = (torn \/ pc = "state")
  /\ pc' = "down" /\ applying' = {} /\ snapshot' = {} /\ ready' = FALSE
  /\ mem' = NoMemory
  /\ UNCHANGED <<policy, disk, formal, polled, day, joined, overrides>>

Next ==
  \/ FirstBoot \/ BootstrapState \/ Boot
  \/ Apply \/ NothingDue \/ SaveState \/ RemoveSource \/ RemovePending
  \/ Midnight \/ Observe \/ Verify \/ Plan \/ PlanRaises \/ Restart
  \/ FormalStart \/ Override \/ Crash

Spec == Init /\ [][Next]_vars

-----------------------------------------------------------------------------
Old == Only(disk.active)
New == Only(disk'.active)
Published == disk.active # {} /\ disk'.active # disk.active

\* Published decisions are numbered without gap or repetition, and the version
\* says whether the core changed, also when a crash leaves a decision behind
\* that has been applied or overtaken (docs/implementation-plan.md:57-60).
SequenceExact ==
  [][Published =>
       /\ New.seq = Old.seq + 1
       /\ IF New.core = Old.core THEN New.gen = Old.gen /\ New.rev = Old.rev + 1
          ELSE New.gen = Old.gen + 1 /\ New.rev = 0]_vars

\* Between two published decisions a member leaves only if it had stopped
\* trading or had been there for the minimum stay, whoever asked for the
\* change and whatever restarts lie between (docs/implementation-plan.md:41,
\* 49), unless a crash has left an old membership-state.json.
DwellRespected ==
  [][Published /\ ~torn =>
       /\ \A x \in Members(Old) \ (Members(New) \cup New.inactive) :
            New.effective - joined.member[x] >= Dwell
       /\ \A x \in Old.core \ (New.core \cup New.inactive) :
            New.effective - joined.core[x] >= CoreDwell]_vars

\* A decision replaces no more than the limits allow, apart from members that
\* stopped trading, and the core otherwise only with the first day of a week
\* (docs/implementation-plan.md:40, 45-50).
ChangeLimits ==
  [][Published =>
       /\ Cardinality((Old.boundary \cup Old.probe)
                      \ (Members(New) \cup New.inactive)) <= DailyLimit
       /\ Cardinality(Old.core \ (New.core \cup New.inactive)) <= WeeklyLimit
       /\ New.effective % Week # 0 =>
            Old.core \ New.core \subseteq New.inactive]_vars

\* A shortage of candidates keeps the collection going: "any role without
\* enough candidates fails closed: keep the current collection, record the
\* evaluation and warn" (docs/implementation-plan.md:53-54).
ShortageKeepsCollecting == pc # "failed"
=============================================================================
