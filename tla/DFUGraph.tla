------------------------------ MODULE DFUGraph ------------------------------
(***************************************************************************)
(* The state the DFU traversal works on and the parts of the traversal    *)
(* the two engines of the repository share: the resource graph data of    *)
(* src/resource_data.hpp (colors, edge decisions, planners, tags,          *)
(* allocations, reservations, job2span), the color epochs, priming of the  *)
(* request tree, the prune checks both engines make, resolve/enforce, and  *)
(* the whole update phase (updcore, upd_dfv), which is the same code in    *)
(* src/dfu_traverse_impl.cpp and in the dfu_impl_t of src/dfu_traverse.hpp.*)
(***************************************************************************)
EXTENDS MatchPolicy, Planner

CONSTANTS
  Vertices,          \* resource pool vertices
  VType, VSize,      \* vertex -> type, vertex -> size
  OutEdges,          \* vertex -> its out-edges <<u, v>>, in declared order
  Member,            \* edge -> the subsystems it belongs to
  Roots,             \* subsystem -> root vertex (m_roots)
  PlannerNumTypes,   \* PLANNER_NUM_TYPES: most types a subtree planner holds
  Jobs,              \* job ids
  Jobspecs,          \* [resources, duration]: request tree and system.duration
  StartTimes,        \* start times a caller asks for
  MaxInitialize      \* bound on initialize() calls

Edges == UNION {ToSet(OutEdges[u]) : u \in Vertices}

Target(e) == e[2]

Ops == {"MATCH_ALLOCATE", "MATCH_ALLOCATE_ORELSE_RESERVE"}

VARIABLES
  colorBase,     \* m_color_base
  bestKCnt,      \* m_best_k_cnt, the match generation
  colors,        \* idata.colors: subsystem -> vertex -> color
  edgeData,      \* edge idata: needs, best_k_cnt stamp, exclusive
  plans,         \* schedule.plans: vertex -> its own planner
  subplans,      \* idata.subplans: subsystem -> vertex -> subtree planner
  subplanKeys,   \* subsystem -> vertices whose subplans map has that key
  tags,          \* schedule.tags: vertex -> job ids
  allocations,   \* schedule.allocations: vertex -> (job id -> span)
  reservations,  \* schedule.reservations: vertex -> (job id -> span)
  job2span,      \* idata.job2span: vertex -> (job id -> subtree span)
  inits,         \* initialize() calls so far
  outcome,       \* job id -> what run() returned for it
  crashed        \* an exception or undefined behaviour in run(): the process is gone

vars == <<colorBase, bestKCnt, colors, edgeData, plans, subplans, subplanKeys,
          tags, allocations, reservations, job2span, inits, outcome, crashed>>

NotRun == [rc |-> 1]

HasRun(j) == outcome[j].rc # NotRun.rc

-----------------------------------------------------------------------------
(* color_t (resource_data.hpp): offsets from the color base. *)
Gray(base)  == base + 1
Black(base) == base + 2
NEW_BASE == 3

\* Mutant of tick: a new match generation in the same color epoch.
tickSameBase(w) == [w EXCEPT !.gen = @ + 1]

\* dfu_impl_t::tick: a new match generation and color epoch.
tick(w) == [w EXCEPT !.gen = @ + 1, !.base = @ + NEW_BASE]

\* dfu_impl_t::tick_color_base
tick_color_base(base) == base + NEW_BASE

in_subsystem(e, s) == s \in Member[e]

stop_explore(cl, base, e, s) ==
  cl[s][Target(e)] \in {Gray(base), Black(base)}

\* accum_if: add n to accum[type] if the policy rolls type up for s.
accum_if(s, type, n, accum) ==
  IF type \notin SdauTypes[s] THEN accum
  ELSE IF type \in DOMAIN accum THEN [accum EXCEPT ![type] = @ + n]
  ELSE (type :> n) @@ accum

\* Every entry of m accumulated into accum (the loops over a dfv map).
AccumAll(s, m, accum) ==
  FoldSet(LAMBDA t, acc : accum_if(s, t, m[t], acc), accum, DOMAIN m)

\* count(plan, lookup, agg): the lookup's amount of each type of the planner.
count(p, lookup) ==
  [t \in PlannerTypes(p) |-> IF t \in DOMAIN lookup THEN lookup[t] ELSE 0]

(***************************************************************************)
(* prime(resources, to_parent): annotate each request with the minimum     *)
(* counts of the policy's types below it (user_data, accumulated into     *)
(* what the jobspec already holds) and roll them up.  [res, acc].          *)
(***************************************************************************)
PrimeSpecJoin(r2, rest) == [res |-> <<r2>> \o rest.res, acc |-> rest.acc]

RECURSIVE PrimeSpec(_, _), PrimeSpecRest(_, _, _)

\* The rest of prime(resources) once the head's children returned kids.
PrimeSpecRest(resources, toParent, kids) ==
  LET r    == Head(resources)
      acc1 == accum_if(Dom, r.type, r.count.min, toParent)
  IN PrimeSpecJoin([r EXCEPT !.with = kids.res, !.user_data = kids.acc],
                   PrimeSpec(Tail(resources), AccumAll(Dom, kids.acc, acc1)))

PrimeSpec(resources, toParent) ==
  IF resources = <<>> THEN [res |-> <<>>, acc |-> toParent]
  ELSE PrimeSpecRest(resources, toParent,
                     PrimeSpec(Head(resources).with, Head(resources).user_data))

-----------------------------------------------------------------------------
(***************************************************************************)
(* Select phase.  A traversal session w = [colors, edges, keys, gen, base] *)
(* holds what select changes: colors, edge decision state (enforce), the  *)
(* subplans keys operator[] inserts, m_best_k_cnt and m_color_base.        *)
(* Planners and tags are only read.  meta = [allocate, jobid, at, duration]*)
(***************************************************************************)
Root == Roots[Dom]

NoReq == [type |-> "(none)", with |-> <<>>]

NoEdge == <<>>

Matching(resources, u) == {i \in DOMAIN resources : resources[i].type = VType[u]}

OwnAvail(meta, u) ==
  planner_avail_resources_during(plans[u], meta.at, meta.duration, VType[u])

\* Mutant of TagPrune: the prune by tag left out.
TagPruneDropped(meta, excl, u) == FALSE

TagPrune(meta, excl, u) == meta.allocate /\ excl /\ tags[u] # {}

SubtreePrune(meta, s, u, r) ==
  LET p == subplans[s][u]
  IN /\ DOMAIN r.user_data # {}
     /\ PlannerTypes(p) # {}
     /\ planner_avail_during(p, meta.at, meta.duration, count(p, r.user_data)) # 0

Touch(w, s, u, b) == IF b THEN [w EXCEPT !.keys[s] = @ \cup {u}] ELSE w

Paint(w, s, u, c) == [w EXCEPT !.colors[s][u] = c]

\* enforce(s, dfu): write the chosen non-root groups' edges, stamped.
enforce(s, a, w) ==
  LET evs == UNION {UNION {ToSet(at(a, s, t, i).edges) :
                             i \in {i \in 0..(best_i(a, s, t) - 1) : ~at(a, s, t, i).root}} :
                      t \in resrc_types(a, s)}
  IN [w EXCEPT !.edges =
        [e \in DOMAIN @ |->
           IF \E ev \in evs : ev.edge = e
           THEN LET ev == CHOOSE ev \in evs : ev.edge = e
                IN [needs |-> ev.needs, stamp |-> w.gen, excl |-> ev.exclusive]
           ELSE @[e]]]

EnforceAll(a, w) == FoldLeft(LAMBDA ww, s : enforce(s, a, ww), w, Subsystems)

\* resolve(dfu, to_parent): enforce now or merge for the parent, if scored.
resolve(a, toParent, w) ==
  IF a.score <= 0 THEN [agg |-> toParent, w |-> w]
  ELSE IF hier_constrain_now(a) THEN [agg |-> toParent, w |-> EnforceAll(a, w)]
  ELSE [agg |-> merge(toParent, a), w |-> w]

\* dom_dfv() after resolve(): the avail and score of u set on the parent's agg.
DomDfvScored(x_in, avail, score, up) ==
  [rc |-> 0, excl |-> x_in,
   agg |-> set_overall_score(set_avail(up.agg, avail), score), w |-> up.w]

\* The rest of aux_upv() once the up-walk returned up.
AuxUpvDone(meta, u, aux, excl, toParent, up) ==
  LET w2 == Paint(up.w, aux, u, Black(up.w.base))
  IN IF up.rc # 0 THEN [rc |-> up.rc, excl |-> excl, agg |-> toParent, w |-> up.w]
     ELSE IF OwnAvail(meta, u) = 0
          THEN [rc |-> 0, excl |-> excl, agg |-> toParent, w |-> w2]
     ELSE [rc |-> 0, excl |-> excl] @@ resolve(up.agg, toParent, w2)

(***************************************************************************)
(* resolve(root, resources, dfu, excl, needs): whole-request policy, the   *)
(* root's own count, accept-all for the types left unconstrained, then    *)
(* enforce every subsystem.  [rc, needs, w].                                *)
(***************************************************************************)
ResolveRoot(resources, g, w) ==
  LET a1   == g.agg
      hits == Matching(resources, Root)
      cnt(i) == select_count(resources[i].count, a1.avail)
      keys == UNION {{<<s, t>> : t \in resrc_types(a1, s)} : s \in SubsystemSet}
      a2   == FoldSet(LAMBDA k, acc : IF best_k(acc, k[1], k[2]) THEN acc
                                      ELSE choose_accum_all(acc, k[1], k[2]),
                      a1, keys)
  IN IF \/ g.rc # 0
        \/ \E i \in hits : cnt(i) = 0
        \/ \E k \in keys : qualified_count(a1, k[1], k[2]) = 0
     THEN [rc |-> -1, needs |-> 0, w |-> w]
     ELSE [rc |-> 0, needs |-> IF hits = {} THEN 0 ELSE cnt(Max(hits)),
           w |-> EnforceAll(a2, w)]

resolve_root(resources, a, w) == ResolveRoot(resources, dom_finish_graph(resources, a), w)

\* select() once the walk from the root returned r: add the root's
\* singleton and resolve.
SelectRoot(resources, excl, r) ==
  LET cnt == r.agg.avail
      single == Group(Dom, VType[Root], r.agg.score, cnt, excl, TRUE,
                      <<EvalEdge(cnt, cnt, excl, NoEdge)>>)
  IN IF r.rc # 0 THEN [rc |-> r.rc, needs |-> 0, w |-> r.w]
     ELSE resolve_root(resources, add(r.agg, single), r.w)

-----------------------------------------------------------------------------
(***************************************************************************)
(* Update phase.  g = [plans, subplans, keys, tags, allocations,           *)
(* reservations, job2span, colors] is what the commit walk changes.  meta *)
(* carries gen (m_best_k_cnt), base (m_color_base after tick_color_base)  *)
(* and the edge decision state select left, which update only reads.      *)
(***************************************************************************)
\* m[k] = v on a std::map held as a function with a growing domain.
MapPut(m, k, v) == (k :> v) @@ m

\* Mutant of RecordSpan: the span is recorded whether or not u is exclusive.
RecordSpanShared(g, u, excl, meta, span) ==
  [g EXCEPT !.allocations[u]  = IF meta.allocate THEN MapPut(@, meta.jobid, span) ELSE @,
            !.reservations[u] = IF ~meta.allocate THEN MapPut(@, meta.jobid, span) ELSE @]

\* Mutant of RecordSpan: a reservation span is never recorded.
RecordSpanAllocOnly(g, u, excl, meta, span) ==
  [g EXCEPT !.allocations[u] = IF excl /\ meta.allocate THEN MapPut(@, meta.jobid, span) ELSE @]

\* The span of an exclusive u recorded as the job's allocation or reservation.
RecordSpan(g, u, excl, meta, span) ==
  [g EXCEPT !.allocations[u]  = IF excl /\ meta.allocate
                                THEN MapPut(@, meta.jobid, span) ELSE @,
            !.reservations[u] = IF excl /\ ~meta.allocate
                                THEN MapPut(@, meta.jobid, span) ELSE @]

\* Mutant of updcore: the children's counts are not rolled up to the parent.
UpdcoreNoRollup(meta, u, s, needs, excl, n, dfu, toParent, g) ==
  LET own  == planner_add_span(g.plans[u], meta.at, meta.duration,
                               VType[u] :> needs, meta.jobid)
      n1   == IF excl THEN n + 1 ELSE n
      g1   == IF excl THEN [g EXCEPT !.plans[u] = own.p] ELSE g
      sp   == g1.subplans[s][u]
      hasSub == PlannerTypes(sp) # {} /\ DOMAIN dfu # {}
      sub  == planner_add_span(sp, meta.at, meta.duration, count(sp, dfu), meta.jobid)
      span == IF excl THEN own.id ELSE NoSpan
  IN IF n1 = 0 THEN [n |-> 0, acc |-> toParent, g |-> g1]
     ELSE [n |-> n1, acc |-> IF excl THEN accum_if(s, VType[u], needs, toParent) ELSE toParent,
           g |-> [RecordSpan(g1, u, excl, meta, span) EXCEPT
                   !.keys[s]         = @ \cup {u},
                   !.tags[u]         = IF meta.allocate THEN @ \cup {meta.jobid} ELSE @,
                   !.subplans[s][u]  = IF hasSub THEN sub.p ELSE @,
                   !.job2span[u]     = IF hasSub THEN MapPut(@, meta.jobid, sub.id) ELSE @]]

\* updcore(): commit u (own span if exclusive; tag, record, subtree span if
\* anything below or at u was committed) and roll its counts up.
updcore(meta, u, s, needs, excl, n, dfu, toParent, g) ==
  LET own  == planner_add_span(g.plans[u], meta.at, meta.duration,
                               VType[u] :> needs, meta.jobid)
      n1   == IF excl THEN n + 1 ELSE n
      span == IF excl THEN own.id ELSE NoSpan
      g1   == IF excl THEN [g EXCEPT !.plans[u] = own.p] ELSE g
      tp1  == IF excl THEN accum_if(s, VType[u], needs, toParent) ELSE toParent
      sp   == g1.subplans[s][u]
      hasSub == PlannerTypes(sp) # {} /\ DOMAIN dfu # {}
      sub  == planner_add_span(sp, meta.at, meta.duration, count(sp, dfu), meta.jobid)
  IN IF n1 = 0 THEN [n |-> 0, acc |-> tp1, g |-> g1]
     ELSE [n |-> n1, acc |-> AccumAll(s, dfu, tp1),
           g |-> [RecordSpan(g1, u, excl, meta, span) EXCEPT
                   !.keys[s]         = @ \cup {u},
                   !.tags[u]         = IF meta.allocate THEN @ \cup {meta.jobid} ELSE @,
                   !.subplans[s][u]  = IF hasSub THEN sub.p ELSE @,
                   !.job2span[u]     = IF hasSub THEN MapPut(@, meta.jobid, sub.id) ELSE @]]

\* upd_dfv() once the walk of u's out-edges returned st: paint u black, updcore.
UpdDfvCommit(meta, u, needs, excl, toParent, st) ==
  updcore(meta, u, Dom, needs, excl, st.n, st.dfu, toParent,
          [st.g EXCEPT !.colors[Dom][u] = Black(meta.base)])

RECURSIVE upd_dfv(_, _, _, _, _, _), upd_edges(_, _, _, _), UpdEdgesChild(_, _, _, _, _)

\* upd_edges() once the child at Head(es) returned r: add its count.
UpdEdgesChild(meta, s, es, n, r) ==
  upd_edges(meta, s, Tail(es), [n |-> n + r.n, dfu |-> r.acc, g |-> r.g])

\* Mutant of upd_edges: the generation stamp is not compared.
UpdEdgesAnyStamp(meta, s, es, st) ==
  IF es = <<>> THEN st
  ELSE LET e  == Head(es)
           ed == meta.edges[e]
       IN IF ~in_subsystem(e, s) \/ stop_explore(st.g.colors, meta.base, e, s)
          THEN upd_edges(meta, s, Tail(es), st)
          ELSE UpdEdgesChild(meta, s, es, st.n,
                 IF s = Dom THEN upd_dfv(meta, Target(e), ed.needs, ed.excl, st.dfu, st.g)
                 ELSE [n |-> 0, acc |-> st.dfu, g |-> st.g])

\* The out-edges of one subsystem that carry the current generation's stamp.
\* upd_upv is a stub returning 0 in the code.  st = [n, dfu, g].
upd_edges(meta, s, es, st) ==
  IF es = <<>> THEN st
  ELSE LET e  == Head(es)
           ed == meta.edges[e]
       IN IF \/ ~in_subsystem(e, s)
             \/ stop_explore(st.g.colors, meta.base, e, s)
             \/ ed.stamp # meta.gen
          THEN upd_edges(meta, s, Tail(es), st)
          ELSE UpdEdgesChild(meta, s, es, st.n,
                 IF s = Dom THEN upd_dfv(meta, Target(e), ed.needs, ed.excl, st.dfu, st.g)
                 ELSE [n |-> 0, acc |-> st.dfu, g |-> st.g])

upd_dfv(meta, u, needs, excl, toParent, g) ==
  UpdDfvCommit(meta, u, needs, excl, toParent,
               FoldLeft(LAMBDA acc, s : upd_edges(meta, s, OutEdges[u], acc),
                        [n |-> 0, dfu |-> <<>>, g |-> g], Subsystems))

=============================================================================
