------------------------------ MODULE Admission ------------------------------
(***************************************************************************)
(* The bookkeeping around a query and around a web session of the query    *)
(* node: resource groups (query-node/src/resource_group.rs), the profiler  *)
(* and its ring of finished queries (profiler.rs, execution.rs), the       *)
(* counters of monitoring.rs, and SessionStore (meta/session_store.rs),    *)
(* whose calls read and then write one key of the Raft KV.  A behaviour is *)
(* about the queries or about one session, `admitting'.                    *)
(***************************************************************************)
EXTENDS Integers, Sequences, FiniteSets, FiniteSetsExt, SequencesExt

CONSTANTS
  Groups, QueryIds, Limits, HistoryCap,      \* names of groups; bound on the history
  MaxGroupDdl,                                \* bound on the DDL statements
  Clients, SessionTtl, MaxTime, SessionDbs    \* callers of the store; bounds on time; databases

VARIABLES
  admitting,
  groups, userGroup, roleGroup,               \* ResourceGroupManager
  queries, inFlight, history, metrics, finished,
  groupDdl, staleRelease,
  time, webSession, webCall, served, expected, overlapped

admitVars == <<groups, userGroup, roleGroup, queries, inFlight, history, metrics, finished, groupDdl, staleRelease>>
webVars == <<time, webSession, webCall, served, expected, overlapped>>
admissionVars == <<admitting, admitVars, webVars>>

None == "none"
NewGroup(limit, gen) == [max |-> limit, active |-> 0, rejected |-> 0, gen |-> gen, widest |-> limit]
NoGroup == [max |-> -1, active |-> 0, rejected |-> 0, gen |-> 0, widest |-> -1]
BuiltIn == {"default"}
GroupExists(g) == groups[g] # NoGroup

-------------------------------------------------------------------------------
\* create_group, alter_group, drop_group, map_user, map_role; a limit of 0
\* stands for None (no limit).  `gen' counts the incarnations of a name.
Ddl ==
  /\ groupDdl < MaxGroupDdl /\ groupDdl' = groupDdl + 1
  /\ UNCHANGED <<queries, inFlight, history, metrics, finished, staleRelease>>
CreateGroup(g, limit) ==
  /\ ~GroupExists(g) /\ Ddl
  /\ groups' = [groups EXCEPT ![g] = NewGroup(limit, groupDdl + 1)]
  /\ UNCHANGED <<userGroup, roleGroup>>
Wider(a, b) == IF a = 0 \/ b = 0 THEN 0 ELSE Max({a, b})
AlterGroup(g, limit) ==
  /\ GroupExists(g) /\ groups[g].max # limit /\ Ddl
  /\ groups' = [groups EXCEPT ![g].max = limit, ![g].widest = Wider(@, limit)]
  /\ UNCHANGED <<userGroup, roleGroup>>
ToDefault(g, mapped) == IF mapped = g THEN "default" ELSE mapped
DropGroup(g) ==
  /\ GroupExists(g) /\ g \notin BuiltIn /\ Ddl
  /\ groups' = [groups EXCEPT ![g] = NoGroup]
  /\ userGroup' = ToDefault(g, userGroup) /\ roleGroup' = ToDefault(g, roleGroup)
MapUser(g) ==
  /\ GroupExists(g) /\ userGroup # g /\ Ddl /\ userGroup' = g /\ UNCHANGED <<groups, roleGroup>>
MapRole(g) ==
  /\ GroupExists(g) /\ roleGroup # g /\ Ddl /\ roleGroup' = g /\ UNCHANGED <<groups, userGroup>>

-------------------------------------------------------------------------------
ResolveGroup == IF userGroup # None THEN userGroup ELSE IF roleGroup # None THEN roleGroup ELSE "default"
Resolve(q) ==
  /\ queries[q].phase = "new"
  /\ queries' = [queries EXCEPT ![q] = [phase |-> "resolved", group |-> ResolveGroup, gen |-> 0]]
  /\ UNCHANGED <<groups, userGroup, roleGroup, inFlight, history, metrics, finished, groupDdl, staleRelease>>

\* admit, then QueryProfiler::begin and on_query_begin.
MutMayAdmit(group) == group.max = 0 \/ group.active <= group.max
MayAdmit(group) == group.max = 0 \/ group.active < group.max
Admit(q) ==
  LET g == queries[q].group IN
  /\ queries[q].phase = "resolved" /\ GroupExists(g) /\ MayAdmit(groups[g])
  /\ groups' = [groups EXCEPT ![g].active = @ + 1]
  /\ queries' = [queries EXCEPT ![q].phase = "running", ![q].gen = groups[g].gen]
  /\ inFlight' = inFlight \union {q}
  /\ metrics' = [metrics EXCEPT !.active = @ + 1, !.total = @ + 1]
  /\ UNCHANGED <<userGroup, roleGroup, history, finished, groupDdl, staleRelease>>
\* Over the limit, or the group was dropped since it was resolved.
Reject(q) ==
  LET g == queries[q].group IN
  /\ queries[q].phase = "resolved"
  /\ ~(GroupExists(g) /\ MayAdmit(groups[g]))
  /\ groups' = IF GroupExists(g) THEN [groups EXCEPT ![g].rejected = @ + 1] ELSE groups
  /\ queries' = [queries EXCEPT ![q].phase = "rejected"]
  /\ UNCHANGED <<userGroup, roleGroup, inFlight, history, metrics, finished, groupDdl, staleRelease>>

\* finish: into the ring, whose oldest entry makes room; on_query_end.
Pushed(ring, entry) == Append(IF Len(ring) >= HistoryCap THEN Tail(ring) ELSE ring, entry)
FinishQuery(q) ==
  /\ queries[q].phase = "running"
  /\ queries' = [queries EXCEPT ![q].phase = "finished"]
  /\ inFlight' = inFlight \ {q} /\ history' = Pushed(history, q)
  /\ finished' = Append(finished, q)
  /\ metrics' = [metrics EXCEPT !.active = @ - 1]
  /\ UNCHANGED <<groups, userGroup, roleGroup, groupDdl, staleRelease>>
\* release goes by the group's name; a missing group and a zero are ignored.
Release(q) ==
  LET g == queries[q].group IN
  /\ queries[q].phase = "finished"
  /\ queries' = [queries EXCEPT ![q].phase = "done"]
  /\ groups' = IF GroupExists(g) /\ groups[g].active > 0 THEN [groups EXCEPT ![g].active = @ - 1] ELSE groups
  /\ staleRelease' = (staleRelease \/ (GroupExists(g) /\ groups[g].gen # queries[q].gen /\ groups[g].active > 0))
  /\ UNCHANGED <<userGroup, roleGroup, inFlight, history, metrics, finished, groupDdl>>
QueriesNext ==
  \/ \E g \in Groups : \/ DropGroup(g) \/ MapUser(g) \/ MapRole(g)
                       \/ \E limit \in Limits : CreateGroup(g, limit) \/ AlterGroup(g, limit)
  \/ \E q \in QueryIds : Resolve(q) \/ Admit(q) \/ Reject(q) \/ FinishQuery(q) \/ Release(q)

-------------------------------------------------------------------------------
\* SessionStore.  A call reads the key (webCall[c] holds what it read), then
\* writes it.  `expected' is the session if the calls ran one after the other,
\* in the order of their writes; `overlapped' says that two of them did not.
NoSession == [expires |-> -1, db |-> None]
Expired(s) == time > s.expires
InCall(c) == webCall[c] # <<>>
StartCall(c, call) ==
  /\ ~InCall(c) /\ webCall' = [webCall EXCEPT ![c] = call]
  /\ overlapped' = (overlapped \/ \E d \in Clients : InCall(d))
EndCall(c) == webCall' = [webCall EXCEPT ![c] = <<>>]

CreateSession ==
  /\ time = 0 /\ webSession = NoSession /\ served = <<>> /\ \A c \in Clients : ~InCall(c)
  /\ webSession' = [expires |-> time + SessionTtl, db |-> None] /\ expected' = webSession'
  /\ served' = <<time, time + SessionTtl>>
  /\ UNCHANGED <<time, webCall, overlapped>>
GetSession(c) ==
  /\ served # <<>> /\ webSession # NoSession
  /\ IF Expired(webSession)
       THEN StartCall(c, <<"expire", webSession>>) /\ UNCHANGED served
       ELSE /\ ~InCall(c) /\ served' = <<time, webSession.expires>>
            /\ UNCHANGED <<webCall, overlapped>>
  /\ UNCHANGED <<time, webSession, expected>>
RenewRead(c) ==
  /\ webSession # NoSession /\ ~Expired(webSession)
  /\ StartCall(c, <<"renew", [webSession EXCEPT !.expires = time + SessionTtl]>>)
  /\ UNCHANGED <<time, webSession, served, expected>>
SetDbRead(c, db) ==
  /\ webSession # NoSession /\ webSession.db # db
  /\ StartCall(c, <<"setdb", [webSession EXCEPT !.db = db]>>)
  /\ UNCHANGED <<time, webSession, served, expected>>
StartLogout(c) ==
  /\ served # <<>> /\ StartCall(c, <<"delete", NoSession>>)
  /\ UNCHANGED <<time, webSession, served, expected>>
WebWrite(c) ==
  /\ InCall(c) /\ EndCall(c)
  /\ LET kind == webCall[c][1]  s == webCall[c][2] IN
     /\ webSession' = IF kind \in {"delete", "expire"} THEN NoSession ELSE s
     /\ expected' = CASE kind = "delete" -> NoSession
                      [] kind = "expire" -> IF Expired(expected) THEN NoSession ELSE expected
                      [] expected = NoSession -> NoSession
                      [] kind = "renew" -> [expected EXCEPT !.expires = s.expires]
                      [] OTHER -> [expected EXCEPT !.db = s.db]
  /\ UNCHANGED <<time, served, overlapped>>
TimePasses == time < MaxTime /\ time' = time + 1 /\ UNCHANGED <<webSession, webCall, served, expected, overlapped>>
WebNext ==
  \/ CreateSession \/ TimePasses
  \/ \E c \in Clients : \/ GetSession(c) \/ RenewRead(c) \/ StartLogout(c) \/ WebWrite(c)
                        \/ \E db \in SessionDbs : SetDbRead(c, db)

-------------------------------------------------------------------------------
AdmissionInit ==
  /\ admitting \in {"queries", "session"}
  /\ groups = [g \in Groups |-> IF g \in BuiltIn THEN NewGroup(0, 0) ELSE NoGroup]
  /\ userGroup = None /\ roleGroup = None
  /\ queries = [q \in QueryIds |-> [phase |-> "new", group |-> None, gen |-> 0]]
  /\ inFlight = {} /\ history = <<>> /\ finished = <<>> /\ metrics = [active |-> 0, total |-> 0]
  /\ groupDdl = 0 /\ staleRelease = FALSE
  /\ time = 0 /\ webSession = NoSession /\ webCall = [c \in Clients |-> <<>>]
  /\ served = <<>> /\ expected = NoSession /\ overlapped = FALSE
AdmissionNext ==
  \/ admitting = "queries" /\ QueriesNext /\ UNCHANGED <<admitting, webVars>>
  \/ admitting = "session" /\ WebNext /\ UNCHANGED <<admitting, admitVars>>

Holding(g) == {q \in QueryIds : /\ queries[q].phase \in {"running", "finished"}
                                /\ queries[q].group = g /\ queries[q].gen = groups[g].gen}
\* The two halves of AdmissionExact, below.
QueriesCounted ==
  /\ \A g \in Groups : GroupExists(g) /\ ~staleRelease =>
       /\ groups[g].active = Cardinality(Holding(g))
       /\ groups[g].widest # 0 => groups[g].active <= groups[g].widest
  /\ \A g \in {userGroup, roleGroup} \ {None} : GroupExists(g)
  /\ inFlight = {q \in QueryIds : queries[q].phase = "running"} /\ metrics.active = Cardinality(inFlight)
  /\ metrics.total = Len(finished) + Cardinality(inFlight)
  /\ history = SubSeq(finished, Max({1, Len(finished) - HistoryCap + 1}), Len(finished))
SessionsInOrder ==
  /\ served # <<>> => served[1] <= served[2]
  /\ ~overlapped => webSession = expected

\* The counters agree with the queries: a group's count is the number of
\* queries admitted to this incarnation of it and not yet released, and never
\* above the widest limit it had, unless a query of a dropped group of the
\* same name was released into it; users and roles map to groups that exist;
\* the profiler holds exactly the running queries and, in order, the latest
\* finished ones; the active gauge counts the running queries.
\* No answer shows an expired session; and as long as no two calls on a token
\* overlapped, the stored session is the one the calls made in turn: a logout
\* is final, a renewal extends it, USE sets its database.
AdmissionExact == QueriesCounted /\ SessionsInOrder
==============================================================================
