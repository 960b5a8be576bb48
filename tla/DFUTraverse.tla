----------------------------- MODULE DFUTraverse -----------------------------
(***************************************************************************)
(* The traverser front end, dfu_traverser_t of src/dfu_traverse.hpp:     *)
(* initialize() and run(jobspec, op, jobid, at) over the graph state of   *)
(* DFUGraph, with the select walk of either engine: the slot-aware one of *)
(* src/dfu_traverse_impl.cpp (DFUSelect) or the dfu_impl_t of             *)
(* src/dfu_traverse.hpp (DFULegacy), which dfu_traverser_t derives from.  *)
(*                                                                         *)
(* One step of the specification is one public call of the traverser.    *)
(* The recursive select and update walks inside a call are operators that *)
(* thread the state they change, in the order the code changes it.        *)
(***************************************************************************)
EXTENDS DFUSelect

\* The engine behind the front end: "slot" or "legacy".
CONSTANT Engine

Legacy == INSTANCE DFULegacy

\* The dfu_impl_t calls of dfu_traverser_t, bound to the chosen engine.
EngineSelect(resources, meta, excl, w) ==
  IF Engine = "legacy" THEN Legacy!select(resources, meta, excl, w)
  ELSE select(resources, meta, excl, w)

EnginePrime(s, u, toParent, st, base) ==
  IF Engine = "legacy" THEN Legacy!prime(s, u, toParent, st, base)
  ELSE prime(s, u, toParent, st, base)

EngineExclusivity(resources, u) ==
  IF Engine = "legacy" THEN Legacy!exclusivity(resources, u)
  ELSE exclusivity(resources, u)

-----------------------------------------------------------------------------
(* run(): the or-else-reserve loop over the root's feasible start times. *)
RECURSIVE ReserveLoop(_, _, _, _, _)
ReserveLoop(resources, meta, excl, times, sel) ==
  IF times = <<>> \/ sel.rc = 0 THEN sel
  ELSE LET m == [meta EXCEPT !.at = Head(times)]
       IN ReserveLoop(resources, m, excl, Tail(times),
                      EngineSelect(resources, m, excl, sel.w) @@ [meta |-> m])

\* planner_avail_time_first / _next on the root's subtree planner; a NULL
\* planner enumerates nothing.
RetryTimes(p, t, dur, lookup) ==
  IF PlannerTypes(p) = {} THEN <<>> ELSE AvailTimes(p, t, dur, count(p, lookup))

Init ==
  /\ colorBase = 0
  /\ bestKCnt = 0
  /\ colors = [s \in SubsystemSet |-> [v \in Vertices |-> 0]]
  /\ edgeData = [e \in Edges |-> [needs |-> 0, stamp |-> 0, excl |-> FALSE]]
  /\ plans = [v \in Vertices |-> planner_new(VType[v] :> VSize[v])]
  /\ subplans = [s \in SubsystemSet |-> [v \in Vertices |-> NoPlanner]]
  /\ subplanKeys = [s \in SubsystemSet |-> {}]
  /\ tags = [v \in Vertices |-> {}]
  /\ allocations = [v \in Vertices |-> <<>>]
  /\ reservations = [v \in Vertices |-> <<>>]
  /\ job2span = [v \in Vertices |-> <<>>]
  /\ inits = 0
  /\ outcome = [j \in Jobs |-> NotRun]
  /\ crashed = FALSE

\* dfu_traverser_t::initialize(): prime every subsystem from its root.
Initialize ==
  /\ ~crashed
  /\ inits < MaxInitialize
  /\ LET st0 == [colors |-> colors, subplans |-> subplans, keys |-> subplanKeys]
         st  == FoldLeft(LAMBDA acc, s : EnginePrime(s, Roots[s], <<>>, acc, colorBase).st,
                         st0, Subsystems)
     IN /\ colors' = st.colors
        /\ subplans' = st.subplans
        /\ subplanKeys' = st.keys
  /\ inits' = inits + 1
  /\ UNCHANGED <<colorBase, bestKCnt, edgeData, plans, tags, allocations,
                 reservations, job2span, outcome, crashed>>

\* A run() end that reports the first attempt's allocate flag after a reserve retry.
RunEndStaleMeta(j, js, op, throws, fin, umeta, g0, up) ==
  LET commit == ~throws /\ fin.rc = 0
      g      == IF commit THEN up.g ELSE g0
  IN /\ edgeData' = fin.w.edges
     /\ bestKCnt' = fin.w.gen
     /\ colorBase' = IF commit THEN umeta.base ELSE fin.w.base
     /\ colors' = g.colors
     /\ subplanKeys' = g.keys
     /\ plans' = g.plans
     /\ subplans' = g.subplans
     /\ tags' = g.tags
     /\ allocations' = g.allocations
     /\ reservations' = g.reservations
     /\ job2span' = g.job2span
     /\ crashed' = throws
     /\ outcome' = IF throws THEN outcome
                   ELSE [outcome EXCEPT ![j] =
                           [rc |-> IF ~commit THEN fin.rc
                                   ELSE IF up.n > 0 THEN 0 ELSE -1,
                            at |-> fin.meta.at, duration |-> js.duration,
                            allocate |-> TRUE, op |-> op,
                            resources |-> js.resources]]

\* run() after update: the state the commit (or the failed match) leaves.
RunEnd(j, js, op, throws, fin, umeta, g0, up) ==
  LET commit == ~throws /\ fin.rc = 0
      g      == IF commit THEN up.g ELSE g0
  IN /\ edgeData' = fin.w.edges
     /\ bestKCnt' = fin.w.gen
     /\ colorBase' = IF commit THEN umeta.base ELSE fin.w.base
     /\ colors' = g.colors
     /\ subplanKeys' = g.keys
     /\ plans' = g.plans
     /\ subplans' = g.subplans
     /\ tags' = g.tags
     /\ allocations' = g.allocations
     /\ reservations' = g.reservations
     /\ job2span' = g.job2span
     /\ crashed' = throws
     /\ outcome' = IF throws THEN outcome
                   ELSE [outcome EXCEPT ![j] =
                           [rc |-> IF ~commit THEN fin.rc
                                   ELSE IF up.n > 0 THEN 0 ELSE -1,
                            at |-> fin.meta.at, duration |-> js.duration,
                            allocate |-> fin.meta.allocate, op |-> op,
                            resources |-> js.resources]]

\* run() once the match (and any reservation retry) returned fin: update.
RunUpdate(j, js, op, ex, throws, fin) ==
  LET umeta == fin.meta @@ [gen |-> fin.w.gen, base |-> tick_color_base(fin.w.base),
                            edges |-> fin.w.edges]
      g0    == [plans |-> plans, subplans |-> subplans, keys |-> fin.w.keys,
                tags |-> tags, allocations |-> allocations,
                reservations |-> reservations, job2span |-> job2span,
                colors |-> fin.w.colors]
  IN RunEnd(j, js, op, throws, fin, umeta, g0, upd_dfv(umeta, Root, fin.needs, ex, <<>>, g0))

\* run() once select at `at` returned s0: the or-else-reserve retry, whose
\* lookup subplans.at(dom) throws if the root has no such key.  Undefined
\* behaviour in any select (w.ub) is taken as the outcome in which the
\* process dies.
RunRetry(j, js, op, at0, pr, ex, meta0, s0) ==
  LET retry  == s0.rc # 0 /\ op = "MATCH_ALLOCATE_ORELSE_RESERVE"
      throws == retry /\ Root \notin s0.w.keys[Dom]
      fin    == IF retry /\ ~throws
                THEN ReserveLoop(pr.res, [meta0 EXCEPT !.allocate = FALSE], ex,
                                 RetryTimes(subplans[Dom][Root], at0 + 1, js.duration, pr.acc), s0)
                ELSE s0
  IN RunUpdate(j, js, op, ex, throws \/ fin.w.ub, fin)

(***************************************************************************)
(* dfu_traverser_t::run(jobspec, op, jobid, at): prime the jobspec, select *)
(* at `at` (allocate), on failure under or-else-reserve select again       *)
(* (reserve) at each feasible later time of the root's subtree planner --  *)
(* whose lookup subplans.at(dom) throws if the root has no such key --     *)
(* and on success update.                                                  *)
(***************************************************************************)
Run(j, js, op, at0) ==
  /\ ~crashed
  /\ inits >= 1
  /\ ~HasRun(j)
  /\ LET pr    == PrimeSpec(js.resources, <<>>)
         ex    == EngineExclusivity(pr.res, Root)
         meta0 == [allocate |-> TRUE, jobid |-> j, at |-> at0, duration |-> js.duration]
         w0    == [colors |-> colors, edges |-> edgeData, keys |-> subplanKeys,
                   gen |-> bestKCnt, base |-> colorBase, ub |-> FALSE]
     IN RunRetry(j, js, op, at0, pr, ex, meta0,
                 EngineSelect(pr.res, meta0, ex, w0) @@ [meta |-> meta0])
  /\ UNCHANGED inits

\* Every job has been run, or the process is gone.
Done ==
  /\ crashed \/ \A j \in Jobs : HasRun(j)
  /\ UNCHANGED vars

Next ==
  \/ Initialize
  \/ \E j \in Jobs, js \in Jobspecs, op \in Ops, t \in StartTimes : Run(j, js, op, t)
  \/ Done

Spec == Init /\ [][Next]_vars

-----------------------------------------------------------------------------
(***************************************************************************)
(*                              Properties                                 *)
(***************************************************************************)
RECURSIVE DescOf(_)
DescOf(u) ==
  UNION {{Target(e)} \cup DescOf(Target(e)) :
           e \in {e \in ToSet(OutEdges[u]) : Dom \in Member[e]}}

\* The dominant-subsystem descendants of each vertex.
Desc == [u \in Vertices |-> DescOf(u)]

\* A span the planner really holds for job j.
SpanOf(p, id, j) == id \in DOMAIN p.spans /\ p.spans[id].job = j

\* v is exclusively allocated or reserved to j; v or a vertex below it is.
Held(v, j) == j \in DOMAIN allocations[v] \/ j \in DOMAIN reservations[v]
Used(v, j) == \E d \in {v} \cup Desc[v] : Held(d, j)

Window(j) == outcome[j].at..(outcome[j].at + outcome[j].duration - 1)

Overlap(j, k) == Window(j) \cap Window(k) # {}

TypeOK ==
  /\ colorBase \in Nat /\ bestKCnt \in Nat
  /\ colors \in [SubsystemSet -> [Vertices -> Nat]]
  /\ edgeData \in [Edges -> [needs : Nat, stamp : 0..bestKCnt, excl : BOOLEAN]]
  /\ subplanKeys \in [SubsystemSet -> SUBSET Vertices]
  /\ tags \in [Vertices -> SUBSET Jobs]
  /\ \A v \in Vertices : /\ DOMAIN allocations[v] \subseteq Jobs
                         /\ DOMAIN reservations[v] \subseteq Jobs
                         /\ DOMAIN job2span[v] \subseteq Jobs
  /\ inits \in 0..MaxInitialize
  /\ crashed \in BOOLEAN

(***************************************************************************)
(* What a successful run() committed embeds the request tree: under every *)
(* request of type T, the number of T vertices the job uses lies in the   *)
(* request's [min, max], each is held outright if the request is          *)
(* exclusive, and each embeds the child requests below it; a slot request *)
(* holds slots * max of each of its element types.  (Unit-size vertices.) *)
(* This is about the whole select/update pipeline: dom_dfv's return code,  *)
(* the aggregator merges, resolve/enforce stamping and upd_dfv following  *)
(* the stamps.                                                              *)
(***************************************************************************)
RECURSIVE Embeds(_, _, _)
Embeds(resources, scope, j) ==
  \A i \in DOMAIN resources :
    LET r == resources[i]
        Vs == {v \in scope : VType[v] = r.type /\ Used(v, j)}
    IN IF r.type = "slot"
       THEN \A c \in ToSet(r.with) :
              Cardinality({d \in scope : VType[d] = c.type /\ Held(d, j)})
                \in {k * c.count.max : k \in r.count.min..r.count.max}
       ELSE /\ Cardinality(Vs) \in r.count.min..r.count.max
            /\ \A v \in Vs : /\ r.exclusive => Held(v, j)
                             /\ Embeds(r.with, Desc[v], j)

CommitSatisfiesRequest ==
  \A j \in Jobs : HasRun(j) /\ outcome[j].rc = 0 =>
                    Embeds(outcome[j].resources, {Root} \cup Desc[Root], j)

(***************************************************************************)
(* Every allocation, reservation and job2span entry updcore recorded names *)
(* a span the planner holds for that job: no planner_add_span failure was  *)
(* recorded as a commit.                                                    *)
(***************************************************************************)
AllocationsBacked ==
  \A v \in Vertices :
    /\ \A j \in DOMAIN allocations[v]  : SpanOf(plans[v], allocations[v][j], j)
    /\ \A j \in DOMAIN reservations[v] : SpanOf(plans[v], reservations[v][j], j)
    /\ \A j \in DOMAIN job2span[v]     : SpanOf(subplans[Dom][v], job2span[v][j], j)

(***************************************************************************)
(* Conversely, every span a planner holds is the one updcore recorded for  *)
(* its job: an own-planner span in allocations or reservations, a subtree  *)
(* span in job2span.  A span with no record can never be found again by   *)
(* job id.  updcore writes the records with std::map operator[], which     *)
(* silently replaces an earlier span of the same job id.                    *)
(***************************************************************************)
RecordedAs(m, j, id) == j \in DOMAIN m /\ m[j] = id

NoLeakedSpans ==
  \A v \in Vertices :
    /\ \A id \in DOMAIN plans[v].spans :
         LET j == plans[v].spans[id].job
         IN RecordedAs(allocations[v], j, id) \/ RecordedAs(reservations[v], j, id)
    /\ \A id \in DOMAIN subplans[Dom][v].spans :
         RecordedAs(job2span[v], subplans[Dom][v].spans[id].job, id)

(***************************************************************************)
(* The subtree planner of every vertex accounts, at every time, exactly    *)
(* for what its descendants' own planners hold of each rolled-up type:    *)
(* the counts updcore accumulates to the parent match the spans it adds.   *)
(***************************************************************************)
SubtreeAccounting ==
  \A u \in Vertices : \A t \in PlannerTypes(subplans[Dom][u]) : \A tm \in 0..(Horizon - 1) :
    UsedAt(subplans[Dom][u], t, tm) =
      MapThenSumSet(LAMBDA d : UsedAt(plans[d], t, tm),
                    {d \in Desc[u] : VType[d] = t})

(***************************************************************************)
(* Exclusivity: while a job holds a vertex exclusively, no other job with *)
(* an overlapping window holds that vertex or anything below it.           *)
(***************************************************************************)
ExclusiveIsolation ==
  \A v \in Vertices, j, k \in Jobs :
    (j # k /\ Held(v, j)) =>
      \A d \in {v} \cup Desc[v] : Held(d, k) => ~Overlap(j, k)

(***************************************************************************)
(* Allocations alone: while a job has a vertex exclusively allocated, no  *)
(* other job with an overlapping window has it, or anything below it,     *)
(* allocated.  The tag prune of prune() and the own-planner checks of      *)
(* dom_dfv must agree across two run() calls.                               *)
(***************************************************************************)
AllocationIsolation ==
  \A v \in Vertices, j, k \in Jobs :
    (j # k /\ j \in DOMAIN allocations[v]) =>
      \A d \in {v} \cup Desc[v] : k \in DOMAIN allocations[d] => ~Overlap(j, k)

(***************************************************************************)
(* run() never ends the process: a failed allocation under               *)
(* MATCH_ALLOCATE_ORELSE_RESERVE falls back to reservation (its lookup   *)
(* subplans.at(dom) must find the root's subtree planner), and dom_slot's *)
(* cursors never run past the candidates they walk.                       *)
(***************************************************************************)
NoCrash == ~crashed

(***************************************************************************)
(* Color epochs (color_t in resource_data.hpp, dfu_impl_t::tick): colors  *)
(* are never cleared; a select session instead advances the color base,   *)
(* which must turn every color an earlier select, update or initialize()  *)
(* left behind white again.  So from every state a run() can start from,   *)
(* a select of any jobspec at any start time of the model, allocating or *)
(* reserving, returns the same code and needs, and leaves the same edge   *)
(* decisions and subtree-planner keys, as the same select on colors reset *)
(* to white.  select does not read the job id.                            *)
(***************************************************************************)
Whitened == [s \in SubsystemSet |-> [v \in Vertices |-> 0]]

SameSelect(s1, s2) ==
  /\ s1.rc = s2.rc /\ s1.needs = s2.needs
  /\ s1.w.edges = s2.w.edges /\ s1.w.keys = s2.w.keys /\ s1.w.ub = s2.w.ub

EpochEquivalence ==
  (~crashed /\ inits >= 1) =>
    \A js \in Jobspecs, t \in StartTimes, a \in BOOLEAN :
      LET pr   == PrimeSpec(js.resources, <<>>)
          ex   == EngineExclusivity(pr.res, Root)
          meta == [allocate |-> a, jobid |-> CHOOSE j \in Jobs : TRUE, at |-> t,
                   duration |-> js.duration]
          w0   == [colors |-> colors, edges |-> edgeData, keys |-> subplanKeys,
                   gen |-> bestKCnt, base |-> colorBase, ub |-> FALSE]
      IN SameSelect(EngineSelect(pr.res, meta, ex, w0),
                    EngineSelect(pr.res, meta, ex, [w0 EXCEPT !.colors = Whitened]))

(***************************************************************************)
(* Priming a request (prime(resources)) adds each child request's counts  *)
(* into resource.user_data of the caller's Jobspec, which run() takes by   *)
(* reference and never clears.  The spec (section 4.4, step 2) prunes on   *)
(* the child-type counts the remaining request implies.  So a select of a *)
(* Jobspec must decide the same whether or not that Jobspec object went    *)
(* through an earlier run(): the same as the select of the request as the  *)
(* parser built it.                                                         *)
(***************************************************************************)
RECURSIVE AsParsed(_)
AsParsed(resources) ==
  [i \in DOMAIN resources |->
     [resources[i] EXCEPT !.with = AsParsed(@), !.user_data = <<>>]]

PrimedSelect(resources, t, dur) ==
  LET pr   == PrimeSpec(resources, <<>>)
      meta == [allocate |-> TRUE, jobid |-> CHOOSE j \in Jobs : TRUE, at |-> t,
               duration |-> dur]
      w0   == [colors |-> colors, edges |-> edgeData, keys |-> subplanKeys,
               gen |-> bestKCnt, base |-> colorBase, ub |-> FALSE]
  IN EngineSelect(pr.res, meta, EngineExclusivity(pr.res, Root), w0)

ReuseEquivalence ==
  (~crashed /\ inits >= 1) =>
    \A js \in Jobspecs, t \in StartTimes :
      SameSelect(PrimedSelect(js.resources, t, js.duration),
                 PrimedSelect(AsParsed(js.resources), t, js.duration))

(***************************************************************************)
(* Refinement.  run() implements the Allocator: mapped to the holdings     *)
(* updcore records, each job's outcome and the window of a granted job,   *)
(* every step of the traverser is a step of Allocator or leaves it alone.  *)
(* The mapped status of a job whose run() threw stays "none".              *)
(***************************************************************************)
Status(j) ==
  IF ~HasRun(j) THEN "none"
  ELSE IF outcome[j].rc # 0 THEN "failed"
  ELSE IF outcome[j].allocate THEN "allocated" ELSE "reserved"

Abs == INSTANCE Allocator WITH
         alloc   <- [v \in Vertices |-> DOMAIN allocations[v]],
         resv    <- [v \in Vertices |-> DOMAIN reservations[v]],
         status  <- [j \in Jobs |-> Status(j)],
         win     <- [j \in Jobs |-> IF Status(j) \in {"allocated", "reserved"}
                                    THEN Window(j) ELSE {}],
         Under   <- Desc,
         Windows <- {a..(a + d - 1) : a \in 0..Horizon, d \in 1..Horizon}

\* Each run() decides its job once and changes the holdings of that job
\* alone, adding at least one vertex when it reports success and none when
\* it fails, and never an allocation that overlaps another job's, in time
\* and in the containment tree.
AllocatorRefinement == Abs!ASpec

=============================================================================

