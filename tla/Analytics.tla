------------------------------ MODULE Analytics ------------------------------
(***************************************************************************)
(* Web analytics over event rows.  The compute node's executors work       *)
(* through batches and keep state between them (executor/analytics/        *)
(* funnel.rs, cohort.rs, path.rs; analytics/sessionize.rs); the query      *)
(* node's functions read all the rows of a table at once                   *)
(* (query-node/src/executor/analytics_exec.rs).  One executor per user     *)
(* runs here, the way the data is partitioned, and the partial results are *)
(* merged.  Times are in days, as parse_datetime numbers them.             *)
(***************************************************************************)
EXTENDS Integers, Sequences, FiniteSets, FiniteSetsExt, SequencesExt, Folds

CONSTANTS
  EventUsers, EventNames, Dates,      \* the dates events carry, <<year, month, day>>
  MaxEvents, MaxBatch,                \* bounds: events of a behaviour, and of a batch
  FunnelSteps, FunnelWindow,          \* FunnelDef, FUNNEL_COUNT's steps and time_window
  EntryEvent, ReturnEvent, MaxPeriods,
  PathDefs, WindowLength,             \* the PathDef of a behaviour; path_length
  SessionTimeout

ASSUME WindowAssumption == WindowLength \in Nat \ {0}

VARIABLES
  pathDef,
  log,            \* per user: the events processed, in order
  funnel,         \* per user's executor: UserFunnelState
  cohort,         \* CohortExecutor: entry_periods and retention
  paths           \* the bag of paths counted so far

analyticsVars == <<pathDef, log, funnel, cohort, paths>>

\* parse_datetime: every year has 365 days and February 28, so the 29th of
\* February and the 1st of March get one number.
DaysPerMonth == <<31, 28, 31, 30, 31, 30, 31, 31, 30, 31, 30, 31>>
ParseDatetime(date) ==
  (date[1] - 1970) * 365 + FoldLeft(+, 0, SubSeq(DaysPerMonth, 1, date[2] - 1)) + date[3] - 1
EventSet == [name : EventNames, at : {ParseDatetime(d) : d \in Dates}]
PeriodOf(at) == at \div 7

-------------------------------------------------------------------------------
\* FunnelExecutor::process_events for one event.  A step counts when the one
\* before it was reached at most the window earlier.
MutFunnelStep(state, e, i) ==
  IF e.name # FunnelSteps[i] THEN state
  ELSE IF i = 1 \/ (i - 1) \in state.achieved
         THEN [achieved |-> state.achieved \union {i}, last |-> [state.last EXCEPT ![i] = e.at]]
         ELSE state
FunnelStep(state, e, i) ==
  IF e.name # FunnelSteps[i] THEN state
  ELSE IF \/ i = 1
          \/ (i - 1) \in state.achieved /\ e.at - state.last[i - 1] \in 0 .. FunnelWindow
         THEN [achieved |-> state.achieved \union {i}, last |-> [state.last EXCEPT ![i] = e.at]]
         ELSE state
FunnelEvent(state, e) == FoldLeft(LAMBDA s, i : FunnelStep(s, e, i), state, [i \in DOMAIN FunnelSteps |-> i])
NewFunnel == [achieved |-> {}, last |-> [i \in DOMAIN FunnelSteps |-> -1]]
\* merge of the users' executors, then step_counts.
StepCounts == [i \in DOMAIN FunnelSteps |-> Cardinality({u \in EventUsers : i \in funnel[u].achieved})]

\* CohortExecutor::process_events for one event: the first entry event fixes
\* the user's cohort; a period before it wraps to a large usize.
CohortEvent(state, u, e) ==
  LET entered == IF e.name = EntryEvent /\ state.entry[u] = -1
                   THEN [state EXCEPT !.entry[u] = PeriodOf(e.at)] ELSE state
      delta == PeriodOf(e.at) - entered.entry[u] IN
  IF e.name = ReturnEvent /\ entered.entry[u] # -1 /\ delta \in 0 .. MaxPeriods
    THEN [entered EXCEPT !.retention = @ \union {<<entered.entry[u], delta, u>>}] ELSE entered
\* build_result: a row per cohort, with its size and its returning users.
BuildResult ==
  {[period |-> p, size |-> Cardinality({u \in EventUsers : cohort.entry[u] = p}),
    periods |-> [d \in 0 .. MaxPeriods |-> Cardinality({r \in cohort.retention : r[1] = p /\ r[2] = d})]] :
   p \in {cohort.entry[u] : u \in EventUsers} \ {-1}}

\* PathExecutor::process_events for one event; `flush' collects the paths.
PathEvent(state, e) ==
  LET cut == state.path # <<>> /\ e.at - state.last > pathDef.gap
      before == IF cut THEN <<>> ELSE state.path
      flushed == IF cut THEN Append(state.flush, state.path) ELSE state.flush
      start == before # <<>> \/ pathDef.start \in {"", e.name}
      path == Append(before, e.name) IN
  CASE ~start -> [state EXCEPT !.path = <<>>, !.flush = flushed]
    [] e.name = pathDef.end \/ Len(path) >= pathDef.depth
         -> [path |-> <<>>, last |-> e.at, flush |-> Append(flushed, path)]
    [] OTHER -> [path |-> path, last |-> e.at, flush |-> flushed]
\* The rest of the call: flush what is open, count the paths of two or more.
PathsOf(batch) ==
  LET s == FoldLeft(PathEvent, [path |-> <<>>, last |-> 0, flush |-> <<>>], batch) IN
  SelectSeq(Append(s.flush, s.path), LAMBDA p : Len(p) >= 2)
CountPaths(counts, new) ==
  FoldLeft(LAMBDA c, p : [q \in DOMAIN c \union {p} |->
                            (IF q \in DOMAIN c THEN c[q] ELSE 0) + (IF q = p THEN 1 ELSE 0)], counts, new)

ProcessBatch(u, batch) ==
  /\ log' = [log EXCEPT ![u] = @ \o batch]
  /\ funnel' = [funnel EXCEPT ![u] = FoldLeft(FunnelEvent, @, batch)]
  /\ cohort' = FoldLeft(LAMBDA s, e : CohortEvent(s, u, e), cohort, batch)
  /\ paths' = CountPaths(paths, PathsOf(batch))
  /\ UNCHANGED pathDef

-------------------------------------------------------------------------------
\* A stable sort by time, and Sessionizer::build_sessions over the result.
ByTime(s) == FoldLeft(LAMBDA acc, e :
  LET before == SelectSeq(acc, LAMBDA x : x.at <= e.at)
      after == SelectSeq(acc, LAMBDA x : x.at > e.at) IN before \o <<e>> \o after, <<>>, s)
BuildSessions(sorted) ==
  FoldLeft(LAMBDA acc, e :
    IF acc = <<>> \/ e.at - Last(acc).end > SessionTimeout
      THEN Append(acc, [start |-> e.at, end |-> e.at, count |-> 1, sequence |-> <<e.name>>])
      ELSE Append(Front(acc), [start |-> Last(acc).start, end |-> e.at, count |-> Last(acc).count + 1,
                               sequence |-> Append(Last(acc).sequence, e.name)]), <<>>, sorted)

\* execute_funnel_count: max_step of one user.  A step past the window makes
\* its own event the new first step.
MaxStep(u) ==
  FoldLeft(LAMBDA s, e :
    IF ~(s.next <= Len(FunnelSteps) /\ e.name = FunnelSteps[s.next]) THEN s
    ELSE IF s.next = 1 THEN [next |-> 2, first |-> e.at, reached |-> 1]
    ELSE IF e.at - s.first <= FunnelWindow THEN [s EXCEPT !.next = @ + 1, !.reached = s.next]
    ELSE [s EXCEPT !.next = 2, !.first = e.at],
    [next |-> 1, first |-> 0, reached |-> 0], ByTime(log[u])).reached

\* execute_cohort_analysis: the week of a user's cohort, and in which of the
\* three retention columns the user is counted.
EntryOf(u) == LET es == SelectSeq(ByTime(log[u]), LAMBDA e : e.name = EntryEvent) IN
              IF es = <<>> THEN -1 ELSE Head(es).at
Retained(u) ==
  LET entry == EntryOf(u)
      returns == SelectSeq(ByTime(log[u]), LAMBDA e : e.name = ReturnEvent /\ e.at > entry) IN
  IF entry = -1 \/ returns = <<>> THEN {} ELSE {d \in {7, 14, 30} : Head(returns).at - entry <= d}

\* execute_path_analysis: every window of path_length pages.
PathWindows(u) ==
  LET pages == [i \in DOMAIN log[u] |-> ByTime(log[u])[i].name] IN
  [i \in 1 .. Max({0, Len(pages) - WindowLength + 1}) |-> SubSeq(pages, i, i + WindowLength - 1)]

-------------------------------------------------------------------------------
AnalyticsInit ==
  /\ pathDef \in PathDefs
  /\ log = [u \in EventUsers |-> <<>>]
  /\ funnel = [u \in EventUsers |-> NewFunnel]
  /\ cohort = [entry |-> [u \in EventUsers |-> -1], retention |-> {}]
  /\ paths = [p \in {} |-> 0]
Processed == MapThenSumSet(LAMBDA u : Len(log[u]), EventUsers)
AnalyticsNext ==
  \E u \in EventUsers, n \in 1 .. MaxBatch :
    /\ Processed + n <= MaxEvents
    /\ \E batch \in [1 .. n -> EventSet] : ProcessBatch(u, batch)

InTime(u) == \A i, j \in DOMAIN log[u] : i < j => log[u][i].at <= log[u][j].at
\* A chain of events for the first n steps, each at most the window after the
\* one before it.
Chain(u, n) ==
  \E ix \in [1 .. n -> DOMAIN log[u]] :
    \A k \in 1 .. n : /\ log[u][ix[k]].name = FunnelSteps[k]
                      /\ k > 1 => ix[k - 1] < ix[k] /\ log[u][ix[k]].at - log[u][ix[k - 1]].at \in 0 .. FunnelWindow
InOrderSteps(s, n) ==
  \E ix \in [1 .. n -> DOMAIN s] : \A k \in 1 .. n : s[ix[k]].name = FunnelSteps[k] /\ (k > 1 => ix[k - 1] < ix[k])
Occurrences(u, p) ==
  {i \in DOMAIN log[u] : /\ i + Len(p) - 1 <= Len(log[u])
                         /\ \A k \in DOMAIN p : log[u][i + k - 1].name = p[k]
                         /\ \A k \in 1 .. Len(p) - 1 : log[u][i + k].at - log[u][i + k - 1].at <= pathDef.gap}

\* What the analytics compute is what their definitions say.  On events in
\* time order, however they are split into batches and over executors: a user
\* reached a funnel step exactly when a chain of events inside the windows
\* leads to it; the cohort matrix counts exactly the users whose first entry
\* and some later return lie that many periods apart.  Sessions cut the sorted
\* events exactly at the gaps above the timeout.  No path is counted more often
\* than it occurs without such a gap.  The query node's funnel counts nobody
\* who did not do the steps in order, and misses nobody who did them within
\* the window of the first; a retained user has a return within the days.
AnalyticsExact ==
  Processed > 0 =>
    /\ \A u \in EventUsers : InTime(u) =>
         /\ \A n \in DOMAIN FunnelSteps : n \in funnel[u].achieved <=> Chain(u, n)
         /\ \A p \in 0 .. MaxPeriods : \A c \in {cohort.entry[u]} \ {-1} :
              <<c, p, u>> \in cohort.retention <=>
                \E i, j \in DOMAIN log[u] : /\ i <= j /\ log[u][i].name = EntryEvent /\ log[u][j].name = ReturnEvent
                                            /\ \A h \in 1 .. i - 1 : log[u][h].name # EntryEvent
                                            /\ PeriodOf(log[u][j].at) - PeriodOf(log[u][i].at) = p
    /\ \A r \in BuildResult : \A d \in 0 .. MaxPeriods : r.periods[d] <= r.size
    /\ StepCounts[1] >= StepCounts[Len(FunnelSteps)]
    /\ \A u \in EventUsers :
         LET s == ByTime(log[u])
            starts == {i \in DOMAIN s : i = 1 \/ s[i].at - s[i - 1].at > SessionTimeout} IN
         ToSet(BuildSessions(s)) =
           {LET next == Min({j \in starts : j > i} \union {Len(s) + 1}) IN
              [start |-> s[i].at, end |-> s[next - 1].at, count |-> next - i,
               sequence |-> [k \in 1 .. next - i |-> s[i + k - 1].name]] : i \in starts}
    /\ \A p \in DOMAIN paths : /\ Len(p) \in 2 .. Max({2, pathDef.depth})
                               /\ paths[p] <= MapThenSumSet(LAMBDA u : Cardinality(Occurrences(u, p)), EventUsers)
    /\ \A u \in EventUsers :
         LET s == ByTime(log[u])
             first == SelectInSeq(s, LAMBDA e : e.name = FunnelSteps[1])
             near == IF first = 0 THEN <<>> ELSE SelectSeq(SubSeq(s, first, Len(s)), LAMBDA e : e.at - s[first].at <= FunnelWindow) IN
         \A n \in DOMAIN FunnelSteps : /\ n <= MaxStep(u) => InOrderSteps(s, n)
                                       /\ InOrderSteps(near, n) => n <= MaxStep(u)
    /\ \A u \in EventUsers, d \in {7, 14, 30} : EntryOf(u) # -1 =>
         (d \in Retained(u) <=> \E i \in DOMAIN log[u] : log[u][i].name = ReturnEvent /\ log[u][i].at - EntryOf(u) \in 1 .. d)
    /\ \A u \in EventUsers : \A w \in ToSet(PathWindows(u)) :
         \A x \in ToSet(w) : \E i \in DOMAIN log[u] : log[u][i].name = x
==============================================================================
