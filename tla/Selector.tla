------------------------------ MODULE Selector ------------------------------
(***************************************************************************)
(* How the collector chooses its instruments (central/selector.py): the    *)
(* pools that market evidence qualifies, the core with its weekly          *)
(* replacements, and the boundary and probe roles with their daily ones.   *)
(*                                                                         *)
(* Evidence is what the pools depend on: who trades in each of the two     *)
(* status requests, two rankings, and the sets of symbols that pass each   *)
(* gate. Symbols are numbers in the order of their names. Time is counted  *)
(* in days; day d starts at 00:00 UTC.                                     *)
(***************************************************************************)
EXTENDS Integers, FiniteSets, SequencesExt

CONSTANTS
  Symbol,             \* the instruments of the exchange, a set of numbers
  CoreSize,           \* the code's 50 core members,
  Slots,              \* and 5 in each of the two candidate roles
  EntryRank, RetainRank, BoundaryRetainRank,  \* RollingPolicy: ranks
  WeeklyLimit, DailyLimit,                    \* replacements
  Dwell, CoreDwell,                           \* minimum stays in days
  DepthStable, DepthProbe,                    \* symbols sampled for depth
  Week                                        \* days of a week

ASSUME SelectorAssumption ==
  /\ Symbol \subseteq Nat /\ IsFiniteSet(Symbol)
  /\ {CoreSize, Slots, WeeklyLimit, DailyLimit, Week} \subseteq Nat \ {0}
  /\ {EntryRank, RetainRank, BoundaryRetainRank, Dwell, CoreDwell,
      DepthStable, DepthProbe} \subseteq Nat

\* A set of numbers in ascending order; the members of a sequence that are in S,
\* and those that are not, in its order.
Sorted(S) ==
  [k \in 1..Cardinality(S) |-> CHOOSE x \in S : Cardinality({y \in S : y <= x}) = k]
Picked(s, at) == [k \in DOMAIN at |-> s[at[k]]]
Among(s, S) == Picked(s, Sorted({i \in DOMAIN s : s[i] \in S}))
Outside(s, S) == Among(s, ToSet(s) \ S)
FirstOf(n, s) == SubSeq(s, 1, IF n < Len(s) THEN n ELSE Len(s))

Unranked == 1000
Rank(s, x) ==
  IF x \in ToSet(s) THEN CHOOSE i \in DOMAIN s : s[i] = x ELSE Unranked

-----------------------------------------------------------------------------
\* The pools

\* A symbol that one of the two status requests does not show as trading is
\* not eligible, and inactive if it is tracked.
Eligible(e) == e.first \cap e.confirmed
Inactive(e, tracked) == tracked \ Eligible(e)

\* The symbols whose order books are sampled, chosen from the first request.
Validated(e) ==
  LET stable == Among(e.order, e.first \cap e.seasoned \cap e.full \cap e.volume)
      probes == Among(e.newest, e.first \cap e.fresh \cap e.volume)
  IN  ToSet(FirstOf(DepthStable, stable)) \cup ToSet(FirstOf(DepthProbe, probes))

Qualified(e) == Eligible(e) \cap e.volume \cap e.depth \cap Validated(e)

\* By liquidity: symbols old enough, with every day of the window.
StablePool(e) == Among(e.order, Qualified(e) \cap e.seasoned \cap e.full)
\* Newest first: symbols with every day since their listing.
ProbePool(e)  == Among(e.newest, Qualified(e) \cap e.fresh)
FormalProbePool(e) == Among(ProbePool(e), e.full)

\* The roles of the bundle that the configuration is written from.
CanBootstrap(e) ==
  /\ Len(FormalProbePool(e)) >= Slots
  /\ Len(Outside(StablePool(e), ToSet(FirstOf(Slots, FormalProbePool(e)))))
       >= CoreSize + Slots
BootstrapRoles(e) ==
  LET probe  == ToSet(FirstOf(Slots, FormalProbePool(e)))
      stable == FirstOf(CoreSize + Slots, Outside(StablePool(e), probe))
      core   == ToSet(FirstOf(CoreSize, stable))
  IN  [core |-> core, boundary |-> ToSet(stable) \ core, probe |-> probe]

\* validate_bootstrap_universe: the configured members still qualify.
BootstrapHolds(e, roles) ==
  LET stable == Outside(StablePool(e), roles.probe)
  IN  /\ roles.core \cup roles.boundary \subseteq ToSet(stable)
      /\ roles.probe \subseteq ToSet(FormalProbePool(e))
      /\ Len(stable) >= CoreSize + Slots
      /\ Len(FormalProbePool(e)) >= Slots

-----------------------------------------------------------------------------
\* The roles

SinceOr(since, x, default) == IF x \in DOMAIN since THEN since[x] ELSE default
WrongDwellComplete(joined, effective, required) == joined < effective - required + 2
DwellComplete(joined, effective, required) == joined <= effective - required

\* The core without its inactive members, each replaced by the best stable
\* symbol outside; the code raises when there are not enough.
Vacant(core, inactive) == core \cap inactive
CanReplace(e, core, inactive) ==
  Len(Outside(StablePool(e), core)) >= Cardinality(Vacant(core, inactive))
Replaced(e, core, inactive) ==
  (core \ inactive) \cup
  ToSet(FirstOf(Cardinality(Vacant(core, inactive)), Outside(StablePool(e), core)))

\* One turn of the weekly loop: challenger x against the worst member that may
\* go. p has the core, the changes so far and whether the loop has ended.
Challenge(p, x, pool, effective, since, default) ==
  LET removable == {m \in p.core :
                      /\ Rank(pool, m) > RetainRank
                      /\ DwellComplete(SinceOr(since, m, default), effective,
                                       CoreDwell)}
      worst == CHOOSE m \in removable : \A k \in removable :
                 \/ Rank(pool, k) < Rank(pool, m)
                 \/ Rank(pool, k) = Rank(pool, m) /\ m <= k
  IN  CASE p.over \/ p.changes >= WeeklyLimit -> p
        [] ~p.over /\ p.changes < WeeklyLimit /\ removable = {} ->
             [p EXCEPT !.over = TRUE]
        [] ~p.over /\ p.changes < WeeklyLimit /\ removable # {} ->
             IF Rank(pool, x) >= Rank(pool, worst) THEN [p EXCEPT !.over = TRUE]
             ELSE [p EXCEPT !.core = (@ \ {worst}) \cup {x}, !.changes = @ + 1]

\* The core of the decision: forced replacements on any day, others in the
\* decision that becomes effective on the first day of a week.
WrongCore(e, active, inactive, effective, since) ==
  LET forced == Replaced(e, active.core, inactive)
      pool   == StablePool(e)
      open   == Outside(FirstOf(EntryRank, pool), active.core \cup forced)
  IN  FoldLeft(LAMBDA p, x : Challenge(p, x, pool, effective, since,
                                       active.effective),
               [core |-> forced, changes |-> 0, over |-> FALSE], open).core
Core(e, active, inactive, effective, since) ==
  LET forced == Replaced(e, active.core, inactive)
      pool   == StablePool(e)
      open   == Outside(FirstOf(EntryRank, pool), active.core \cup forced)
  IN  IF effective % Week # 0 THEN forced
      ELSE FoldLeft(LAMBDA p, x : Challenge(p, x, pool, effective, since,
                                            active.effective),
                    [core |-> forced,
                     changes |-> Cardinality(active.core \ forced),
                     over |-> FALSE],
                    open).core

\* One turn of the second loop of _reconcile_bucket. The removable member that
\* goes is the last of the list, not the worst in rank.
Exchanged(b, x, top, limit, effective, since) ==
  LET removable == Among(b.members, {m \in ToSet(b.members) \ top :
                     DwellComplete(SinceOr(since, m, effective), effective, Dwell)})
  IN  IF x \in ToSet(b.members) \/ b.changes >= limit \/ removable = <<>> THEN b
      ELSE [members |-> Append(Outside(b.members, {Last(removable)}), x),
            changes |-> b.changes + 1]

\* _reconcile_bucket; preferred has no symbol twice and none that is forbidden.
Reconciled(current, preferred, forbidden, inactive, since, effective, limit) ==
  LET kept   == Outside(Sorted(current), forbidden \cup inactive)
      filled == kept \o FirstOf(Slots - Len(kept), Outside(preferred, ToSet(kept)))
      top    == ToSet(FirstOf(Slots, preferred))
  IN  ToSet(FoldLeft(LAMBDA b, x : Exchanged(b, x, top, limit, effective, since),
                     [members |-> filled, changes |-> 0], preferred).members)

\* The boundary prefers its own members of good rank to everybody else.
BoundaryPreference(e, active, core, probe, inactive) ==
  LET ranked    == Outside(StablePool(e), core \cup probe)
      protected == Among(FirstOf(BoundaryRetainRank, ranked),
                         active.boundary \ inactive)
  IN  protected \o Outside(ranked, ToSet(protected))

\* select_rolling_universe raises, keeps the active roles, or chooses new ones.
Raises(e, active) ==
  /\ Len(ProbePool(e)) >= Slots
  /\ ~CanReplace(e, active.core, Inactive(e, active.core))

Roles(d) == [core |-> d.core, boundary |-> d.boundary, probe |-> d.probe]

\* The roles with a new core and with a new probe role, unless a pool is short.
WithProbe(active, e, effective, memberSince, inactive, core, probe) ==
  IF Len(Outside(StablePool(e), probe)) < CoreSize + Slots THEN Roles(active)
  ELSE [core |-> core,
        boundary |-> Reconciled(active.boundary,
                                BoundaryPreference(e, active, core, probe, inactive),
                                core \cup probe, inactive, memberSince, effective,
                                IF DailyLimit > 2 THEN DailyLimit - 1 ELSE 1),
        probe |-> probe]
WithCore(active, e, effective, memberSince, inactive, core) ==
  LET probes == Outside(ProbePool(e), core)
  IN  IF Len(probes) < Slots THEN Roles(active)
      ELSE WithProbe(active, e, effective, memberSince, inactive, core,
                     Reconciled(active.probe, probes, core, inactive, memberSince,
                                effective, 1))

SelectRolling(active, e, effective, memberSince, coreSince) ==
  LET inactive == Inactive(e, active.core \cup active.boundary \cup active.probe)
  IN  IF Len(ProbePool(e)) < Slots THEN Roles(active)
      ELSE WithCore(active, e, effective, memberSince, inactive,
                    Core(e, active, inactive, effective, coreSince))
=============================================================================
