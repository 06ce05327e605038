------------------------------ MODULE Routing ------------------------------
(***************************************************************************)
(* From the operator's document to the profile a worker launches with      *)
(* (config.Parse, decide.RouteProfile, ChooseProfile, QuotaRefusal and     *)
(* shareOut, and the loop's quota gate on the tick and on the dispatch     *)
(* verb).                                                                  *)
(*                                                                         *)
(* A document is read once and accepted or refused.  With an accepted one  *)
(* the daemon ticks: the board offers tasks, the proxy reports what each   *)
(* account has spent or cannot be asked, and the tick deals the tasks out  *)
(* over the projects, routes each by its priority, walks its profile's     *)
(* fallback chain and fills the free slots.  A dispatch asks the same gate *)
(* about one task.                                                         *)
(*                                                                         *)
(* The checks of Parse that read only text (names, empty words, old keys,  *)
(* environments) are one field of a document, sound.                       *)
(***************************************************************************)
EXTENDS Layout, Integers, FiniteSets, SequencesExt

CONSTANTS
  Names,        \* the names a profile may have
  Unnamed,      \* the empty name
  Accounts,     \* the accounts a profile may be pinned to
  Serving,      \* the account the proxy serves: a profile that is not pinned
  Tasks,
  Project,      \* the project of each task
  Priority,     \* the priority of each task
  Documents,    \* the documents an operator may write
  Quotas,       \* what the proxy may report: a quota of each account
  Offers(_),    \* the ready lists the board may give, by document
  MaxFallbackDepth,   \* config: how many profiles a chain may name
  MaxFallbackChain,   \* decide: how many profiles a chain is walked
  DefaultMaxWorkers,
  ReadableColumns,    \* MeasuredReadableColumns
  ReadableRows        \* MeasuredReadableRows

ASSUME RoutingAssumption ==
  /\ Unnamed \notin Names /\ Serving \notin Accounts
  /\ Priority \in [Tasks -> Int]
  /\ MaxFallbackDepth \in Nat \ {0}
  /\ MaxFallbackChain = MaxFallbackDepth
  /\ DefaultMaxWorkers \in Nat \ {0}
  /\ ReadableColumns \in Nat /\ ReadableRows \in Nat

\* No profile is defined under the empty name, what counts is a number, and
\* the board offers a task once.
ASSUME DocumentAssumption ==
  \A d \in Documents :
    /\ DOMAIN d.profiles \subseteq Names /\ d.routes \in Seq([min : Int, profile : Names])
    /\ d.columns \in Int /\ d.workers \in Int
    /\ \A ready \in Offers(d) :
         /\ ready \in Seq(Tasks)
         /\ \A i, j \in DOMAIN ready : ready[i] = ready[j] => i = j

Projects == {Project[t] : t \in Tasks}

Refused == [refused |-> TRUE]
NoTick == [offer |-> <<>>, quota |-> <<>>, live |-> 0, spawns |-> <<>>]

VARIABLES
  doc,     \* the document
  config,  \* what Parse made of it, <<>> before
  tick     \* the last tick: what it was given, and its spawns

vars == <<doc, config, tick>>

----------------------------------------------------------------------------
(* Parse. *)

\* the name n fallbacks down from a name, as far as profiles are defined
Down(d, name) ==
  LET f[n \in 0..MaxFallbackDepth] ==
        IF n = 0 THEN name
        ELSE IF f[n - 1] \in DOMAIN d.profiles THEN d.profiles[f[n - 1]].fallback
        ELSE Unnamed
  IN f

\* checkFallbackChain: defined names, none twice, and not too many
ChainFollowable(d, name) ==
  LET down == Down(d, name) IN
  /\ \A n \in 1..MaxFallbackDepth : down[n] # Unnamed =>
       down[n] \in DOMAIN d.profiles /\ \A k \in 0..(n - 1) : down[k] # down[n]
  /\ down[MaxFallbackDepth] = Unnamed

ProfileSound(p) ==
  /\ p.provider \in {"claude", "codex"}
  /\ p.account # Serving => p.provider = "codex"

\* the cap of a document that leaves it out is derived from its own floor
Columns(d) == IF d.columns = 0 THEN ReadableColumns ELSE d.columns
\* mutant: it is derived from the measured floor
CapMeasured(d) ==
  IF d.panes = 0 THEN MaxPanesClearing(ReadableColumns, ReadableRows) ELSE d.panes

Cap(d) ==
  IF d.panes = 0 THEN MaxPanesClearing(Columns(d), ReadableRows) ELSE d.panes

Workers(d) == IF d.workers = 0 THEN DefaultMaxWorkers ELSE d.workers

\* mutant: a name that is only fallen back on is not looked up
AcceptableDefault(d) ==
  /\ d.sound
  /\ DOMAIN d.profiles # {}
  /\ d.default \in DOMAIN d.profiles
  /\ Columns(d) >= ReadableColumns /\ Cap(d) >= 1 /\ Workers(d) >= 1

Acceptable(d) ==
  /\ d.sound
  /\ d.percent \in 0..100
  /\ \A name \in DOMAIN d.profiles :
       ProfileSound(d.profiles[name]) /\ ChainFollowable(d, name)
  /\ d.default \in DOMAIN d.profiles
  /\ Columns(d) >= ReadableColumns
  /\ Workers(d) >= 1
  /\ Cap(d) >= 1
  /\ \A i \in DOMAIN d.routes : d.routes[i].profile \in DOMAIN d.profiles
  /\ \A p \in DOMAIN d.projects : d.projects[p] \in DOMAIN d.profiles

Parse ==
  /\ config = <<>>
  /\ config' = IF Acceptable(doc)
               THEN [refused |-> FALSE, profiles |-> doc.profiles,
                     default |-> doc.default, projects |-> doc.projects,
                     routes |-> doc.routes, percent |-> doc.percent,
                     columns |-> Columns(doc), cap |-> Cap(doc),
                     workers |-> Workers(doc)]
               ELSE Refused
  /\ UNCHANGED <<doc, tick>>

(* Routing. *)

\* ProfileNameFor: the project's override, else the default
ProfileNameFor(p) ==
  IF p \in DOMAIN config.projects THEN config.projects[p] ELSE config.default

\* RouteProfile: the highest minimum that matches, the first of equals
RouteProfile(priority, default, routes) ==
  LET best[i \in 0..Len(routes)] ==
        IF i = 0 THEN 0
        ELSE LET found == best[i - 1] IN
             IF priority < routes[i].min THEN found
             ELSE IF found = 0 \/ routes[i].min > routes[found].min THEN i ELSE found
      last == best[Len(routes)]
  IN IF last = 0 THEN default ELSE routes[last].profile

Asked(t) == RouteProfile(Priority[t], ProfileNameFor(Project[t]), config.routes)

(* The quota gate. *)

\* QuotaRefusal: what could not be read gates nothing, and neither does a
\* threshold that is not set
AtQuota(q) ==
  q.known /\ (q.reached \/ (config.percent > 0 /\ q.used >= config.percent))

ProfileRefused(name, quota) ==
  LET p == config.profiles[name] IN
  p.provider = "codex" /\ AtQuota(quota[p.account])

\* mutant: the last profile of the longest chain is never looked at
WalkShort(asked, quota) ==
  LET walk[n \in 0..MaxFallbackChain] ==
        IF n = 0 THEN [at |-> asked, tried |-> <<>>, chosen |-> Unnamed]
        ELSE LET w == walk[n - 1] IN
             IF \/ w.at = Unnamed \/ w.chosen # Unnamed \/ Contains(w.tried, w.at)
                \/ n = MaxFallbackChain
             THEN w
             ELSE IF ProfileRefused(w.at, quota)
                  THEN [w EXCEPT !.tried = Append(@, w.at),
                                 !.at = config.profiles[w.at].fallback]
                  ELSE [w EXCEPT !.chosen = w.at]
  IN walk[MaxFallbackChain]

\* ChooseProfile: down the chain to the first profile no quota refuses
Walk(asked, quota) ==
  LET walk[n \in 0..MaxFallbackChain] ==
        IF n = 0 THEN [at |-> asked, tried |-> <<>>, chosen |-> Unnamed]
        ELSE LET w == walk[n - 1] IN
             IF w.at = Unnamed \/ w.chosen # Unnamed \/ Contains(w.tried, w.at)
             THEN w
             ELSE IF ProfileRefused(w.at, quota)
                  THEN [w EXCEPT !.tried = Append(@, w.at),
                                 !.at = config.profiles[w.at].fallback]
                  ELSE [w EXCEPT !.chosen = w.at]
  IN walk[MaxFallbackChain]

Eligible(t, quota) == Walk(Asked(t), quota).chosen # Unnamed

\* mutant: the profile asked for is the only one looked at
DoorRefusesAsked(t, quota) == ProfileRefused(Asked(t), quota)

\* quotaRefusal, on the dispatch verb: only a task whose profile launches
\* through the proxy is walked for, and it is refused if the whole chain is
DoorRefuses(t, quota) ==
  /\ config.profiles[Asked(t)].provider = "codex"
  /\ ~Eligible(t, quota)

(* The tick. *)

\* of a place in a ready list: the places up to it that are its project's,
\* how many they are, and the first of them
Own(ready, i) == {j \in 1..i : Project[ready[j]] = Project[ready[i]]}
Turn(ready, i) == Cardinality(Own(ready, i))
Foremost(ready, i) == Min(Own(ready, i))

\* mutant: one project after the other
ShareOutWhole(ready) ==
  LET earlier(i, j) == \/ Foremost(ready, i) < Foremost(ready, j)
                       \/ Foremost(ready, i) = Foremost(ready, j) /\ i < j
      place(i) == 1 + Cardinality({j \in DOMAIN ready : earlier(j, i)})
  IN [n \in DOMAIN ready |-> ready[CHOOSE i \in DOMAIN ready : place(i) = n]]

\* shareOut: a round for everybody's first task, one for the second, and so
\* on, in each the projects in the order the ready list first names them
Earlier(ready, i, j) ==
  \/ Turn(ready, i) < Turn(ready, j)
  \/ Turn(ready, i) = Turn(ready, j) /\ Foremost(ready, i) < Foremost(ready, j)

Place(ready, i) == 1 + Cardinality({j \in DOMAIN ready : Earlier(ready, j, i)})

ShareOut(ready) ==
  [n \in DOMAIN ready |-> ready[CHOOSE i \in DOMAIN ready : Place(ready, i) = n]]

\* Decide's last loop: a task at its quota is passed over
Spawns(ready, live, quota) ==
  LET dealt == ShareOut(ready)
      spawns[n \in 0..Len(ready)] ==
        IF n = 0 THEN <<>>
        ELSE LET before == spawns[n - 1] IN
             IF live + Len(before) >= config.workers \/ ~Eligible(dealt[n], quota)
             THEN before
             ELSE Append(before, [task |-> dealt[n],
                                  profile |-> Walk(Asked(dealt[n]), quota).chosen])
  IN spawns[Len(ready)]

Running == config # <<>> /\ ~config.refused

Tick(ready, live, quota) ==
  /\ Running
  /\ tick' = [offer |-> ready, quota |-> quota, live |-> live,
              spawns |-> Spawns(ready, live, quota)]
  /\ UNCHANGED <<doc, config>>

Init ==
  /\ doc \in Documents
  /\ config = <<>>
  /\ tick = NoTick

Next ==
  \/ Parse
  \/ tick = NoTick /\ \E ready \in Offers(doc), quota \in Quotas, live \in 0..1 :
       Tick(ready, live, quota)

Spec == Init /\ [][Next]_vars

Fresh == Running /\ tick = NoTick
Ticked == tick # NoTick
Spawned == {tick.spawns[i].task : i \in DOMAIN tick.spawns}

----------------------------------------------------------------------------
\* Everything has its type, and a config that was accepted is complete: it
\* names a profile for every project.
TypeOK ==
  /\ config # <<>> =>
       /\ config.refused \in BOOLEAN
       /\ Running => \A t \in Tasks : Asked(t) \in DOMAIN config.profiles
  /\ tick.live \in Nat
  /\ \A i \in DOMAIN tick.spawns : tick.spawns[i].task \in Tasks

\* the names reached from a name by fallbacks alone, itself included: those of
\* every set that holds it and that no fallback leads out of
Reached(name) ==
  LET closed(S) ==
        /\ name \in S
        /\ \A m \in S \cap DOMAIN config.profiles :
             config.profiles[m].fallback \in S \union {Unnamed}
  IN {m \in Names : \A S \in SUBSET Names : closed(S) => m \in S}

\* the profiles a task may be asked for with: that of a highest band its
\* priority reaches, in whatever order the bands are written
TopBands(t) ==
  LET reached == {i \in DOMAIN config.routes : Priority[t] >= config.routes[i].min}
      top == {i \in reached : \A j \in reached : config.routes[j].min <= config.routes[i].min}
  IN IF reached = {} THEN {ProfileNameFor(Project[t])}
     ELSE {config.routes[i].profile : i \in top}

\* A worker launches with the nearest profile of its task's chain that no
\* quota refuses (RouteProfile, ChooseProfile): the chain starts at the
\* highest band, the profile is not refused, and every profile the chain
\* names before it is.  Nothing is chosen only where the whole chain is
\* refused, so no fallback the document names is lost to the walk's bound.
FirstEligible ==
  Fresh => \A t \in Tasks, quota \in Quotas : \E asked \in TopBands(t) :
    LET chosen == Walk(Asked(t), quota).chosen
        chain == Reached(asked)
    IN IF chosen = Unnamed
       THEN \A m \in chain : ProfileRefused(m, quota)
       ELSE /\ chosen \in chain /\ ~ProfileRefused(chosen, quota)
            /\ \A m \in chain \ Reached(chosen) : ProfileRefused(m, quota)

\* A dispatch is refused for quota exactly when a tick that reads the same
\* quota would pass the task over (quotaRefusal, Decide): nobody is told to
\* wait for a worker that will not come, or refused one that would.
DoorAgrees ==
  Fresh => \A t \in Tasks, quota \in Quotas :
    DoorRefuses(t, quota) <=> ~Eligible(t, quota)

\* No slot stays free while a task that may launch waits, whatever stands
\* in front of it (Decide); and where nothing is gated, no project is given
\* two workers more than another that still has a task waiting, and a
\* project's tasks go out in the board's order (shareOut).
FairShare ==
  Ticked =>
    LET offered == ToSet(tick.offer)
        given(p) == {t \in Spawned : Project[t] = p}
        waiting(p) == {t \in offered \ Spawned : Project[t] = p}
        at(t) == CHOOSE i \in DOMAIN tick.offer : tick.offer[i] = t
    IN /\ \A t \in offered \ Spawned :
            Eligible(t, tick.quota) => tick.live + Len(tick.spawns) >= config.workers
       /\ (\A t \in offered : Eligible(t, tick.quota)) =>
            \A p, o \in Projects :
              /\ waiting(o) # {} => Cardinality(given(p)) <= Cardinality(given(o)) + 1
              /\ \A s \in given(p), t \in waiting(p) : at(s) < at(t)

\* The cap that is derived for a document keeps every pane of a tab filled
\* up to it as wide as the document asks and tall enough to be read
\* (MaxPanesClearing, GridSplit), unless not even one pane would be.
CapClearsFloors ==
  Fresh /\ doc.panes = 0 /\ config.cap > 1 => \A n \in 1..config.cap, i \in 1..config.cap :
    i <= n => /\ Filled[n][i].columns >= config.columns
              /\ Filled[n][i].rows >= ReadableRows
=============================================================================
