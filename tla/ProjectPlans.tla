---------------------------- MODULE ProjectPlans ----------------------------
(***************************************************************************)
(* What the project plans and has proved (eth2077-types): the port of      *)
(* Citadel, the roadmap, the theorem registry and the taxonomy.            *)
(***************************************************************************)
EXTENDS Records

-----------------------------------------------------------------------------
(***************************************************************************)
(* The plan of the port of Citadel's modules (citadel_port.rs).  A         *)
(* migration is [module, phase (0 .. 7, phase_index), placeholders (their  *)
(* severities), proof_status, lines_remaining, dependencies].              *)
(***************************************************************************)
PortProofStatus == {"NotStarted", "Sketched", "PartialProof", "FullProofDraft", "FullProofReviewed",
                    "MachineChecked", "Rejected"}
ProductionReady == 7

Migration(module, phase, placeholders, status, remaining, dependencies) ==
    [module |-> module, phase |-> phase, placeholders |-> placeholders, proof_status |-> status,
     lines_remaining |-> remaining, dependencies |-> dependencies]

(* In hundredths. *)
proof_score(status) ==
    CASE status = "Sketched"          -> 15
      [] status = "PartialProof"      -> 35
      [] status = "FullProofDraft"    -> 55
      [] status = "FullProofReviewed" -> 75
      [] status = "MachineChecked"    -> 100
      [] OTHER                        -> 0

(* A dependency is an edge to the first migration of that module. *)
Adjacency(migrations) ==
    LET at(m)    == {k \in DOMAIN migrations : migrations[k].module = m}
        known(i) == SelectSeq(migrations[i].dependencies, LAMBDA m : at(m) # {})
    IN  [i \in DOMAIN migrations |-> [j \in DOMAIN known(i) |-> Min(at(known(i)[j]))]]

LeaveOnStack(m, node) ==    \* mutant: a node that is done stays on the stack
    [m EXCEPT !.state[node] = 2]

Leave(m, node) == [m EXCEPT !.state[node] = 2, !.stack = Front(@)]

(* m: the colour of every node (0 new, 1 on the stack, 2 done), the stack, *)
(* and the cycle found, <<>> for None.                                     *)
RECURSIVE dfs(_, _, _)
dfs(node, adjacency, m) ==
    IF m.state[node] = 1 THEN
        LET start == Min({i \in DOMAIN m.stack : m.stack[i] = node})
        IN  [m EXCEPT !.cycle = Append(SubSeq(m.stack, start, Len(m.stack)), node)]
    ELSE IF m.state[node] = 2 THEN m
    ELSE LET entered  == [m EXCEPT !.state[node] = 1, !.stack = Append(@, node)]
             searched == FoldLeft(LAMBDA x, next : IF x.cycle # <<>> THEN x
                                                   ELSE dfs(next, adjacency, x),
                                  entered, adjacency[node])
         IN  IF searched.cycle # <<>> THEN searched ELSE Leave(searched, node)

find_dependency_cycle(migrations) ==
    FoldLeft(LAMBDA m, i : IF m.cycle # <<>> \/ m.state[i] # 0 THEN m
                           ELSE dfs(i, Adjacency(migrations), m),
             [state |-> [i \in DOMAIN migrations |-> 0], stack |-> <<>>, cycle |-> <<>>],
             [i \in DOMAIN migrations |-> i]).cycle

Placeholders(c) == FlattenSeq(Column(c.migrations, "placeholders"))

validate_citadel_port(c) ==
    When(c.migrations = <<>>, "EmptyMigrations")
      \cup When(Len(Placeholders(c)) > c.max_allowed_placeholders, "TooManyPlaceholders")
      \cup When(\E s \in ToSet(Placeholders(c)) : s > c.max_severity_allowed,
                "HighSeverityPlaceholder")
      \cup When(find_dependency_cycle(c.migrations) # <<>>, "CyclicDependency")
      \cup When(/\ c.require_machine_checked
                /\ \E m \in ToSet(c.migrations) : m.proof_status # "MachineChecked",
                "ProofIncomplete")

(* Coverage in hundredths and progress in sevenths, each times the count. *)
compute_citadel_port_stats(c) ==
    LET ms == c.migrations
    IN  [total_modules         |-> Len(ms),
         modules_complete      |->
            Count(ms, LAMBDA m : m.phase = ProductionReady /\ m.placeholders = <<>>
                                   /\ m.proof_status = "MachineChecked"),
         total_placeholders    |-> Len(Placeholders(c)),
         critical_placeholders |-> Count(Placeholders(c), LAMBDA s : s >= 4),
         proof_coverage        |-> Total(ms, LAMBDA m : proof_score(m.proof_status)),
         migration_progress    |-> Total(ms, LAMBDA m : m.phase),
         estimated_remaining_work |->
            Total(ms, LAMBDA m : m.lines_remaining + Total(m.placeholders, LAMBDA s : 25 + s * 10)),
         blocking_issues       |->
            UNION {When(m.proof_status = "Rejected", <<"Rejected", m.module>>)
                     \cup When(m.phase = ProductionReady /\ m.lines_remaining > 0,
                               <<"LinesRemaining", m.module>>)
                     \cup When(\E s \in ToSet(m.placeholders) : s >= 4, <<"Severity", m.module>>)
                     : m \in ToSet(ms)}
              \cup When(find_dependency_cycle(ms) # <<>>, <<"Cycle">>)]

-----------------------------------------------------------------------------
(* A cycle is reported exactly when there is one, that is a set of         *)
(* migrations each of which depends on one of the set; what is reported    *)
(* follows dependencies back to where it starts and visits nothing twice.  *)
CycleIsReal(migrations) ==
    LET adjacency == Adjacency(migrations)
        edge(i, j) == j \in ToSet(adjacency[i])
        cycle      == find_dependency_cycle(migrations)
    IN  /\ cycle # <<>> <=> \E S \in SUBSET DOMAIN migrations :
                              S # {} /\ \A i \in S : \E j \in S : edge(i, j)
        /\ cycle # <<>> =>
             /\ Head(cycle) = Last(cycle) /\ Len(cycle) > 1
             /\ \A k \in 1 .. Len(cycle) - 1 : edge(cycle[k], cycle[k + 1])
             /\ Repeats(cycle) = {Len(cycle)}

(* A finished port: every module complete is full progress, full coverage  *)
(* and no placeholder; validation then has nothing left but the graph.     *)
CompleteMeansDone(c) ==
    LET s == compute_citadel_port_stats(c)
    IN  /\ s.modules_complete = s.total_modules <=>
             /\ s.migration_progress = 7 * s.total_modules
             /\ s.proof_coverage = 100 * s.total_modules
             /\ s.total_placeholders = 0
        /\ s.modules_complete = s.total_modules /\ c.migrations # <<>> =>
             /\ validate_citadel_port(c) \subseteq {"CyclicDependency"}
             /\ s.estimated_remaining_work = 0 <=> s.blocking_issues \subseteq {<<"Cycle">>}
        /\ <<"Cycle">> \in s.blocking_issues <=> "CyclicDependency" \in validate_citadel_port(c)

-----------------------------------------------------------------------------
(***************************************************************************)
(* The roadmap items and their dependencies (ef_architecture.rs).  A track *)
(* and a layer are their ranks, a title a number in the titles' order,     *)
(* priority and complexity are scaled integers (never NaN).                *)
(***************************************************************************)
RoadmapTrack      == 0 .. 5    \* Merge, Surge, Verge, Purge, Scourge, Splurge
ArchitectureLayer == 0 .. 5    \* Execution .. StateManagement

ActionableItem(title, track, layer, priority, complexity, dependencies, relevant) ==
    [title |-> title, track |-> track, layer |-> layer, priority |-> priority,
     estimated_complexity |-> complexity, dependencies |-> dependencies,
     eth2077_relevant |-> relevant]

(* Priorities in tenths. *)
default_ef_architecture_config ==
    [tracks |-> <<1, 2, 3, 4, 5, 0>>, layers |-> <<0, 1, 2, 3, 4, 5>>, min_priority |-> 5,
     max_items |-> 64, include_dependencies |-> TRUE]

validate_ef_architecture_config(c) ==
    When(c.tracks = <<>>, "EmptyTracks")
      \cup When(c.layers = <<>>, "EmptyLayers")
      \cup When(c.min_priority \notin 0 .. 10, "PriorityOutOfRange")
      \cup When(c.max_items = 0, "MaxItemsZero")
      \cup When(Repeats(c.tracks) # {}, "DuplicateTrack")
      \cup When(Repeats(c.layers) # {}, "DuplicateLayer")

(* Higher priority, then lower complexity, track, layer and title. *)
Preferred(a, b) ==
    LET key(i) == <<- i.priority, i.estimated_complexity, i.track, i.layer, i.title>>
    IN  \E k \in 1 .. 5 : /\ key(a)[k] < key(b)[k]
                          /\ \A j \in 1 .. k - 1 : key(a)[j] = key(b)[j]

prioritize_items(items) == SortSeq(items, Preferred)

(* The last item of a title, for a map filled in order. *)
ByTitle(items, title) ==
    LET at == {i \in DOMAIN items : items[i].title = title}
    IN  IF at = {} THEN 0 ELSE Max(at)

DependenciesOf(items) == FlattenSeq(Column(items, "dependencies"))

DirectOnly(items, selected, queue) ==    \* mutant: dependencies of dependencies are left out
    selected \o [k \in 1 .. Len(SelectSeq(queue, LAMBDA t : ByTitle(items, t) # 0)) |->
                   items[ByTitle(items, SelectSeq(queue, LAMBDA t : ByTitle(items, t) # 0)[k])]]

(* The stack of titles is popped until it is empty. *)
RECURSIVE WithDependencies(_, _, _)
WithDependencies(items, selected, queue) ==
    IF queue = <<>> THEN selected
    ELSE LET title == Last(queue)
             at    == ByTitle(items, title)
         IN  IF title \in ToSet(Column(selected, "title")) \/ at = 0
               THEN WithDependencies(items, selected, Front(queue))
               ELSE WithDependencies(items, Append(selected, items[at]),
                                     Front(queue) \o items[at].dependencies)

filter_relevant_items(items, c) ==
    LET chosen   == SelectSeq(items, LAMBDA i : /\ i.eth2077_relevant
                                               /\ i.track \in ToSet(c.tracks)
                                               /\ i.layer \in ToSet(c.layers)
                                               /\ i.priority >= c.min_priority)
        selected == IF c.include_dependencies
                      THEN WithDependencies(items, chosen, DependenciesOf(chosen)) ELSE chosen
    IN  SubSeq(prioritize_items(selected), 1, Min({Len(selected), c.max_items}))

(* dependency_depth_from with its memo: [depth, memo], where memo holds the *)
(* depths known; a node being visited counts 0, an unknown title 1.         *)
RECURSIVE dependency_depth_from(_, _, _, _)
dependency_depth_from(i, items, memo, visiting) ==
    IF memo[i] # -1 THEN [depth |-> memo[i], memo |-> memo]
    ELSE IF i \in visiting THEN [depth |-> 0, memo |-> memo]
    ELSE LET step(x, title) ==
               LET at == ByTitle(items, title)
                   r  == dependency_depth_from(at, items, x.memo, visiting \cup {i})
               IN  IF at = 0 THEN [x EXCEPT !.depth = Max({@, 1})]
                   ELSE [depth |-> Max({x.depth, 1 + r.depth}), memo |-> r.memo]
             best == FoldLeft(step, [depth |-> 0, memo |-> memo], items[i].dependencies)
         IN  [best EXCEPT !.memo[i] = best.depth]

compute_dependency_depth(items) ==
    FoldLeft(LAMBDA x, i : LET r == dependency_depth_from(i, items, x.memo, {})
                           IN  [depth |-> Max({x.depth, r.depth}), memo |-> r.memo],
             [depth |-> 0, memo |-> [i \in DOMAIN items |-> -1]],
             [i \in DOMAIN items |-> i]).depth

CountBy(items, field) ==
    [v \in ToSet(Column(items, field)) |-> Count(items, LAMBDA i : i[field] = v)]

(* The averages as sums over total_items. *)
compute_ef_architecture_stats(items, c) ==
    LET f == filter_relevant_items(items, c)
    IN  [total_items    |-> Len(f),
         relevant_items |-> Count(f, LAMBDA i : i.eth2077_relevant),
         items_by_track |-> CountBy(f, "track"),
         items_by_layer |-> CountBy(f, "layer"),
         avg_priority   |-> Total(f, LAMBDA i : i.priority),
         avg_complexity |-> Total(f, LAMBDA i : i.estimated_complexity),
         dependency_depth |-> compute_dependency_depth(f)]

compute_architecture_commitment(items) == Sorted(items)

-----------------------------------------------------------------------------
Succ(items, i) == {ByTitle(items, t) : t \in ToSet(items[i].dependencies)} \ {0}

(* A selection that was not cut to max_items has the dependencies of its   *)
(* items and theirs, and every item in it was asked for or is a dependency *)
(* of one that was.                                                        *)
SelectionIsClosed(items, c) ==
    LET f      == filter_relevant_items(items, c)
        titles == ToSet(Column(f, "title"))
        asked(i) == /\ i.eth2077_relevant /\ i.track \in ToSet(c.tracks)
                    /\ i.layer \in ToSet(c.layers) /\ i.priority >= c.min_priority
    IN  c.include_dependencies =>
          /\ Len(f) < c.max_items =>
               \A i \in ToSet(f) : \A t \in ToSet(i.dependencies) :
                   ByTitle(items, t) # 0 => t \in titles
          /\ Len(f) < c.max_items =>
               \A i \in ToSet(f) : asked(i) \/ \E j \in ToSet(f) : i.title \in ToSet(j.dependencies)

(* Under an accepted configuration the figures are those of at most        *)
(* max_items items, each of one track and one layer, all of them asked for *)
(* unless dependencies are included.  Plans with the same commitment have  *)
(* the same figures, whatever order they list their items in, unless a     *)
(* title is given twice or the selection is cut.                           *)
StatsFollowSelection(items, c) ==
    LET s == compute_ef_architecture_stats(items, c)
        t == compute_ef_architecture_stats(Reverse(items), c)
        sum(f) == MapThenSumSet(LAMBDA k : f[k], DOMAIN f)
    IN  /\ validate_ef_architecture_config(c) = {} =>
             /\ s.total_items <= c.max_items
             /\ sum(s.items_by_track) = s.total_items /\ sum(s.items_by_layer) = s.total_items
             /\ ~ c.include_dependencies =>
                  /\ s.relevant_items = s.total_items
                  /\ DOMAIN s.items_by_track \subseteq ToSet(c.tracks)
                  /\ DOMAIN s.items_by_layer \subseteq ToSet(c.layers)
        /\ /\ compute_architecture_commitment(items) = compute_architecture_commitment(Reverse(items))
           /\ Repeats(Column(items, "title")) = {} /\ s.total_items < c.max_items
           => s = t

(* The depth of acyclic items is that of the longest chain, at any order   *)
(* of the list; the code's memo also ends on cycles, within the items'     *)
(* number.                                                                 *)
DepthIsLongestChain(items) ==
    LET n       == Len(items)
        cyclic  == \E S \in SUBSET (1 .. n) :
                       S # {} /\ \A i \in S : \E j \in S : j \in Succ(items, i)
        chains  == {p \in UNION {[1 .. k -> 1 .. n] : k \in 1 .. n} :
                      \A k \in 1 .. Len(p) - 1 : p[k + 1] \in Succ(items, p[k])}
        open(i) == \E t \in ToSet(items[i].dependencies) : ByTitle(items, t) = 0
        length(p) == Len(p) - 1 + IF open(Last(p)) THEN 1 ELSE 0
        depth   == compute_dependency_depth(items)
    IN  /\ depth <= n
        /\ ~ cyclic /\ n > 0 => depth = Max({length(p) : p \in chains})
        /\ ~ cyclic /\ Repeats(Column(items, "title")) = {}
             => depth = compute_dependency_depth(Reverse(items))

-----------------------------------------------------------------------------
(***************************************************************************)
(* The theorem registry (theorem_registry.rs) and the assumptions its      *)
(* theorems are tagged with (assumption_checker.rs).  A tag is the text    *)
(* after "assumption:"; a date is <<year, month, day>>, unreadable when it *)
(* is no date of the calendar.                                             *)
(***************************************************************************)
Never    == <<0, 0, 0>>     \* last_reviewed is None
NoAnchor == <<-1, 0>>       \* threat_model_anchor is None

Assumption(id, anchor, owner, cadence, reviewed, status) ==
    [id |-> id, threat_model_anchor |-> anchor, owner |-> owner, revisit_cadence_days |-> cadence,
     last_reviewed |-> reviewed, status |-> status]

TheoremEntry(id, dependencies, tags) == [id |-> id, dependencies |-> dependencies, tags |-> tags]

validate(entries) ==
    LET ids == ToSet(Column(entries, "id"))
    IN  {<<"DuplicateId", entries[i].id>> : i \in Repeats(Column(entries, "id"))}
          \cup UNION {{<<"MissingDependency", e.id, d>> : d \in ToSet(e.dependencies) \ ids}
                        : e \in ToSet(entries)}

-----------------------------------------------------------------------------
NoCentury(year) ==    \* mutant: every fourth year is a leap year
    year % 4 = 0

is_leap_year(year) == (year % 4 = 0 /\ year % 100 # 0) \/ year % 400 = 0

DaysIn(year, month) ==
    CASE month \in {1, 3, 5, 7, 8, 10, 12} -> 31
      [] month \in {4, 6, 9, 11}           -> 30
      [] OTHER                             -> IF is_leap_year(year) THEN 29 ELSE 28

is_valid_ymd(year, month, day) == month \in 1 .. 12 /\ day \in 1 .. DaysIn(year, month)

days_from_civil(year, month, day) ==
    LET adjusted    == year - IF month <= 2 THEN 1 ELSE 0
        era         == IF adjusted >= 0 THEN adjusted \div 400 ELSE - ((399 - adjusted) \div 400)
        year_of_era == adjusted - era * 400
        day_of_year == (153 * (month + IF month > 2 THEN -3 ELSE 9) + 2) \div 5 + day - 1
    IN  era * 146097 + year_of_era * 365 + year_of_era \div 4 - year_of_era \div 100
          + day_of_year - 719468

(* parse_yyyy_mm_dd_to_days: is there a day number, and which. *)
Readable(date) == is_valid_ymd(date[1], date[2], date[3])
Days(date)     == days_from_civil(date[1], date[2], date[3])

Overdue(a, today) ==
    \/ a.last_reviewed = Never
    \/ ~ Readable(a.last_reviewed)
    \/ Days(a.last_reviewed) + a.revisit_cadence_days < Days(today)

get_overdue_reviews(assumptions, today) ==
    IF Readable(today) THEN SelectSeq(assumptions, LAMBDA a : Overdue(a, today))
    ELSE SelectSeq(assumptions, LAMBDA a : a.last_reviewed = Never)

get_violated(assumptions) == SelectSeq(assumptions, LAMBDA a : a.status = "Violated")

-----------------------------------------------------------------------------
(* A tag is trimmed and must then be an id as it is written. *)
Names(tag, a) == a.id = <<trim(tag), 0>> /\ ~ is_empty(tag)

Tags(entries) == ToSet(FlattenSeq(Column(entries, "tags")))

check_assumption_coverage(entries, assumptions) ==
    LET missing  == {trim(t) : t \in {u \in Tags(entries) :
                                        ~ \E a \in ToSet(assumptions) : Names(u, a)}}
        orphaned == {a.id : a \in {b \in ToSet(assumptions) : ~ \E t \in Tags(entries) : Names(t, b)}}
        broken   == {a.id : a \in {b \in ToSet(assumptions) : is_empty(b.threat_model_anchor)}}
    IN  [MissingAssumptions |-> missing, OrphanedAssumptions |-> orphaned, BrokenAnchors |-> broken]

-----------------------------------------------------------------------------
NextDay(date) ==
    CASE date[3] < DaysIn(date[1], date[2]) -> <<date[1], date[2], date[3] + 1>>
      [] date[3] = DaysIn(date[1], date[2]) /\ date[2] < 12 -> <<date[1], date[2] + 1, 1>>
      [] OTHER -> <<date[1] + 1, 1, 1>>

(* Day numbers follow the calendar: the next date has the next number,     *)
(* across months, leap days, centuries and the year 0.                     *)
DaysFollowCalendar(date) ==
    /\ Readable(date) => Readable(NextDay(date)) /\ Days(NextDay(date)) = Days(date) + 1
    /\ days_from_civil(1970, 1, 1) = 0

(* A review is due the day after its cadence, not on its last day; an      *)
(* assumption once overdue stays so, also once it is violated, and one     *)
(* never reviewed is overdue even on a date nobody can read.               *)
OverdueOnTheDay(assumptions, today) ==
    LET due(date) == ToSet(get_overdue_reviews(assumptions, date))
        violated  == [i \in DOMAIN assumptions |-> [assumptions[i] EXCEPT !.status = "Violated"]]
    IN  /\ get_violated(violated) = violated
        /\ Column(get_overdue_reviews(violated, today), "id")
             = Column(get_overdue_reviews(assumptions, today), "id")
        /\ \A a \in ToSet(assumptions) : a.last_reviewed = Never => a \in due(today)
        /\ Readable(today) =>
             /\ due(today) \subseteq due(NextDay(today))
             /\ \A a \in ToSet(assumptions) :
                  Readable(a.last_reviewed) =>
                    (a \in due(today) <=> Days(today) > Days(a.last_reviewed) + a.revisit_cadence_days)

(* With nothing reported, theorems and assumptions name each other exactly *)
(* and registering a theorem never orphans an assumption.                  *)
CoverageIsExact(entries, assumptions) ==
    LET r(es) == check_assumption_coverage(es, assumptions)
    IN  /\ r(entries).MissingAssumptions = {} /\ r(entries).OrphanedAssumptions = {} =>
             {<<trim(t), 0>> : t \in Tags(entries)} = {a.id : a \in ToSet(assumptions)}
        /\ \A i \in DOMAIN entries :
             r(entries).OrphanedAssumptions \subseteq r(SubSeq(entries, 1, i)).OrphanedAssumptions
        /\ validate(entries) = {} =>
             \A e \in ToSet(entries) : \A d \in ToSet(e.dependencies) :
                 \E f \in ToSet(entries) : f.id = d

-----------------------------------------------------------------------------
(***************************************************************************)
(* Theorems by family and tier (theorem_taxonomy.rs).  A theorem is        *)
(* [family, tier, proof_status, dependencies (their number)]; a prefix is  *)
(* a text and whether its characters are the allowed ones; metadata is a   *)
(* set of <<key, value, fits>>, two texts and whether they keep to their   *)
(* length limits of 128 and 4096 bytes.                                    *)
(***************************************************************************)
TheoremFamily == {"SafetyInvariant", "LivenessGuarantee", "PerformanceBound", "FairnessProperty",
                  "PrivacyPreserving", "ResourceBound"}
TheoremTier == {"Tier1Critical", "Tier2Important", "Tier3Nice", "Tier1Blocking",
                "Tier2Regression", "Tier3Advisory"}
ProofStatus == {"Proven", "InProgress", "Conjectured", "Admitted", "Disputed", "Withdrawn"}

default_theorem_taxonomy_config ==
    [require_tier1_proven |-> TRUE, max_admitted_tier1 |-> 0, max_conjectured_tier2 |-> 2,
     auto_promote_on_proof |-> TRUE, review_period_days |-> 30,
     namespace_prefix |-> <<1, 0>>, prefix_chars_ok |-> TRUE,
     metadata |-> {<<<<1, 0>>, <<1, 0>>, TRUE>>, <<<<2, 0>>, <<2, 0>>, TRUE>>}]

validate_theorem_taxonomy_config(c) ==
    When(is_empty(c.namespace_prefix) \/ ~ c.prefix_chars_ok, "namespace_prefix")
      \cup When(c.review_period_days \notin 1 .. 3650, "review_period_days")
      \cup When(c.require_tier1_proven /\ c.max_admitted_tier1 > 0, "max_admitted_tier1")
      \cup When(c.max_conjectured_tier2 > 10000, "max_conjectured_tier2")
      \cup When(\E m \in c.metadata : is_empty(m[1]), "metadata")
      \cup When(\E m \in c.metadata : is_empty(m[2]), "metadata_value")
      \cup When(\E m \in c.metadata : ~ m[3], "metadata_length")

FirstFour ==    \* mutant: a tier added to the enum is missing from the list
    {"Tier1Critical", "Tier2Important", "Tier3Nice", "Tier1Blocking"}

all_theorem_tiers    == TheoremTier
all_theorem_families == TheoremFamily

(* Percentages and the mean as counts over total_theorems; a tier that is  *)
(* not listed is not counted.                                              *)
compute_theorem_taxonomy_stats(theorems) ==
    [total_theorems |-> Len(theorems),
     by_tier |-> [t \in all_theorem_tiers |-> Count(theorems, LAMBDA e : e.tier = t)],
     proven_pct |-> Count(theorems, LAMBDA e : e.proof_status = "Proven"),
     admitted_count |-> Count(theorems, LAMBDA e : e.proof_status = "Admitted"),
     avg_dependencies |-> Total(theorems, LAMBDA e : e.dependencies),
     coverage_by_family |->
        [f \in all_theorem_families |-> Count(theorems, LAMBDA e : e.family = f)]]

-----------------------------------------------------------------------------
Sum(f) == MapThenSumSet(LAMBDA x : f[x], DOMAIN f)

(* The tiers and the families each divide the theorems: their counts add   *)
(* up to the total, and no theorem is both proven and admitted.            *)
TaxonomyAddsUp(theorems) ==
    LET s == compute_theorem_taxonomy_stats(theorems)
    IN  /\ Sum(s.by_tier) = s.total_theorems
        /\ Sum(s.coverage_by_family) = s.total_theorems
        /\ s.proven_pct + s.admitted_count <= s.total_theorems

(* A policy without room for admitted theorems stays valid when tier 1     *)
(* proofs become required, and one that requires them has no such room.    *)
PolicyIsConsistent(c) ==
    LET valid(p) == validate_theorem_taxonomy_config(p) = {}
    IN  /\ valid(c) /\ c.max_admitted_tier1 = 0 => valid([c EXCEPT !.require_tier1_proven = TRUE])
        /\ valid(c) /\ c.require_tier1_proven => c.max_admitted_tier1 = 0
        /\ valid(c) => ~ is_empty(c.namespace_prefix)
        /\ valid(default_theorem_taxonomy_config)

=============================================================================
