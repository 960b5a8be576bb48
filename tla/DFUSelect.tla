------------------------------ MODULE DFUSelect ------------------------------
(***************************************************************************)
(* The select walk of the slot-aware engine, src/dfu_traverse_impl.cpp:   *)
(* graph priming with its PLANNER_NUM_TYPES check, exclusivity, prune,    *)
(* request matching with slots (match, slot_match, test), dom_slot, and    *)
(* the recursive dom_dfv / dom_exp / explore / aux_upv walk.               *)
(***************************************************************************)
EXTENDS DFUGraph

-----------------------------------------------------------------------------
(***************************************************************************)
(* Priming (dfu_impl_t::prime(s, u, to_parent) and prime_exp): a depth-   *)
(* first walk that rolls the sizes of the policy's types up the tree and  *)
(* gives every vertex with a non-empty roll-up of its descendants a fresh  *)
(* subtree planner over those totals.  st = [colors, subplans, keys].      *)
(***************************************************************************)
\* The rest of prime(s, u) once prime_exp returned ex for u's out-edges.
PrimeFinish(s, u, acc1, ex, base) ==
  LET dfv == ex.acc
      acc2 == IF ex.rc = 0 THEN AccumAll(s, dfv, acc1) ELSE acc1
      fits == Cardinality(DOMAIN dfv) <= PlannerNumTypes
      st2 == IF ex.rc = 0 /\ DOMAIN dfv # {} /\ fits
             THEN [ex.st EXCEPT !.subplans[s][u] = planner_new(dfv),
                                !.keys[s] = @ \cup {u}]
             ELSE ex.st
  IN [rc  |-> IF ex.rc = 0 /\ (DOMAIN dfv = {} \/ fits) THEN 0 ELSE -1,
      acc |-> acc2,
      st  |-> [st2 EXCEPT !.colors[s][u] = Black(base)]]

RECURSIVE prime(_, _, _, _, _), prime_exp(_, _, _, _, _), PrimeExpNext(_, _, _, _)

\* The rest of prime_exp once the child of Head(es) returned r.
PrimeExpNext(s, es, r, base) ==
  IF r.rc # 0 THEN r ELSE prime_exp(s, Tail(es), r.acc, r.st, base)

prime_exp(s, es, dfv, st, base) ==
  IF es = <<>> THEN [rc |-> 0, acc |-> dfv, st |-> st]
  ELSE IF ~in_subsystem(Head(es), s) \/ stop_explore(st.colors, base, Head(es), s)
       THEN prime_exp(s, Tail(es), dfv, st, base)
       ELSE PrimeExpNext(s, es, prime(s, Target(Head(es)), dfv, st, base), base)

prime(s, u, toParent, st, base) ==
  PrimeFinish(s, u, accum_if(s, VType[u], VSize[u], toParent),
              prime_exp(s, OutEdges[u], <<>>, [st EXCEPT !.colors[s][u] = Gray(base)], base),
              base)

exclusivity(resources, u) ==
  \E i \in DOMAIN resources : resources[i].type = VType[u] /\ resources[i].exclusive

\* prune: the vertex's own planner is busy, or a request of its type finds it
\* tagged (exclusive allocation) or its subtree planner short of user_data.
prune(meta, excl, s, u, resources) ==
  \/ OwnAvail(meta, u) = 0
  \/ \E i \in Matching(resources, u) :
       TagPrune(meta, excl, u) \/ SubtreePrune(meta, s, u, resources[i])

\* The subplans[s] read of prune, which inserts the key when absent.
PruneTouchesKey(meta, excl, u, resources) ==
  /\ OwnAvail(meta, u) # 0
  /\ ~TagPrune(meta, excl, u)
  /\ \E i \in Matching(resources, u) : DOMAIN resources[i].user_data # {}

\* match(): the first request of u's type (with the last slot among its
\* children), or a slot request met before it.
match(u, resources) ==
  LET hits == {i \in DOMAIN resources :
                 resources[i].type \in {VType[u], "slot"}}
      r == resources[Min(hits)]
      sl == {j \in DOMAIN r.with : r.with[j].type = "slot"}
  IN IF hits = {} THEN [slot |-> NoReq, res |-> NoReq]
     ELSE IF r.type = VType[u]
          THEN [slot |-> IF sl = {} THEN NoReq ELSE r.with[Max(sl)], res |-> r]
          ELSE [slot |-> r, res |-> NoReq]

\* slot_match(): u has an out-edge (of any subsystem) to each slot type.
slot_match(u, slot) ==
  /\ slot # NoReq
  /\ \A j \in DOMAIN slot.with :
       \E k \in DOMAIN OutEdges[u] : VType[Target(OutEdges[u][k])] = slot.with[j].type

test(u, resources) ==
  LET m == match(u, resources)
  IN IF slot_match(u, m.slot) THEN [kind |-> "SLOT_MATCH", next |-> m.slot.with]
     ELSE IF m.res # NoReq THEN [kind |-> "RESOURCE_MATCH", next |-> m.res.with]
     ELSE [kind |-> "NO_MATCH", next |-> resources]

(***************************************************************************)
(* dom_slot helpers: the slot instances built from dfu_slot's candidates, *)
(* walking one iteration cursor per type (iter_cur / incr_iter_cur, rewound*)
(* for the first instance) over all candidates of the type.  A cursor     *)
(* that runs past the last candidate is reported as `over`.               *)
(***************************************************************************)
RECURSIVE SlotTake(_, _, _, _, _)
SlotTake(ds, idx, pos, j, need) ==
  IF j >= need THEN [edges |-> <<>>, score |-> 0, pos |-> pos, over |-> FALSE]
  ELSE IF pos > Len(idx) THEN [edges |-> <<>>, score |-> 0, pos |-> pos, over |-> TRUE]
  ELSE LET g    == ds.cands[idx[pos]]
           e1   == g.edges[1]
           rest == SlotTake(ds, idx, pos + 1, j + e1.count, need)
       IN [edges |-> <<EvalEdge(e1.count, e1.count, TRUE, e1.edge)>> \o rest.edges,
           score |-> g.score + rest.score, pos |-> rest.pos, over |-> rest.over]

\* The qual_num_slots slot groups, and whether some iter_cur ran past the
\* last candidate of its type (undefined behaviour in the code).
RECURSIVE SlotInstances(_, _, _, _, _)
SlotInstances(ds, shape, i, num, cur) ==
  IF i >= num THEN [groups |-> <<>>, over |-> FALSE]
  ELSE LET Step(acc, k) ==
             LET t  == shape[k].type
                 tk == SlotTake(ds, KeyIdx(ds, Dom, t),
                                IF i = 0 THEN 1 ELSE acc.cur[t], 0, shape[k].count.max)
             IN [edges |-> acc.edges \o tk.edges, score |-> acc.score + tk.score,
                 cur |-> (t :> tk.pos) @@ acc.cur, over |-> acc.over \/ tk.over]
           one  == FoldLeft(Step, [edges |-> <<>>, score |-> MATCH_MET, cur |-> cur, over |-> FALSE],
                            [k \in 1..Len(shape) |-> k])
           more == SlotInstances(ds, shape, i + 1, num, one.cur)
       IN [groups |-> <<Group(Dom, "slot", one.score, 1, TRUE, FALSE, one.edges)>> \o more.groups,
           over   |-> one.over \/ more.over]

\* The rest of dom_slot(): count the whole slots every shape element can
\* fill from what explore left in ex and add one group for each.  Dividing
\* by a zero count.max, or a cursor run past its candidates, is undefined
\* behaviour, recorded in w.ub.
DomSlotCount(shape, ex) ==
  LET ds      == ex.agg
      scored  == ex.rc2 = 0 /\ dom_finish_slot(ds) = 0
      divZero == \E k \in DOMAIN shape : shape[k].count.max = 0
      Fit(k)  == qualified_count(ds, Dom, shape[k].type) \div shape[k].count.max
      defined == Assert(shape # <<>>, "dom_slot: empty slot shape")
      num     == IF ~scored \/ divZero THEN 0 ELSE Min({Fit(k) : k \in DOMAIN shape})
      inst    == SlotInstances(ds, shape, 0, num, <<>>)
  IN [rc  |-> IF num > 0 THEN 0 ELSE -1,
      agg |-> IF defined THEN FoldLeft(add, EmptyAgg, inst.groups) ELSE EmptyAgg,
      w   |-> [ex.w EXCEPT !.ub = @ \/ inst.over \/ (scored /\ divZero)]]

\* The rest of dom_dfv() once the subtree walk returned sub and
\* dom_finish_vtx returned fin: paint u black, then resolve u if it scored.
DomDfvResolve(meta, u, x_in, toParent, sub, fin) ==
  LET w2    == Paint(sub.w, Dom, u, Black(sub.w.base))
      avail == OwnAvail(meta, u)
  IN IF avail = 0 \/ fin.rc # 0
     THEN [rc |-> sub.rc, excl |-> x_in, agg |-> toParent, w |-> w2]
     ELSE DomDfvScored(x_in, avail, fin.agg.score, resolve(fin.agg, toParent, w2))

\* The explore() state a finished walk of the subsystems reports as dom_exp's.
ExpResult(st) == [rc |-> st.rc2, agg |-> st.agg, w |-> st.w]

(***************************************************************************)
(* The recursive select walk.  Each call returns what the code leaves in  *)
(* its by-reference arguments: rc, the exclusivity written to *excl, the  *)
(* caller's aggregator (to_parent / dfu) and the session.  A result the   *)
(* code keeps in a local and reads several times is passed on as the      *)
(* argument of the operator that models the rest of the function.         *)
(***************************************************************************)
RECURSIVE dom_dfv(_, _, _, _, _, _), dom_exp(_, _, _, _, _),
          explore(_, _, _, _, _, _), ExploreChild(_, _, _, _, _, _, _),
          aux_upv(_, _, _, _, _, _, _), aux_upv_edges(_, _, _, _, _, _),
          AuxUpvChild(_, _, _, _, _, _), dom_slot(_, _, _, _),
          DomDfvFinish(_, _, _, _, _, _)

\* explore(): visit the eligible out-edges es in order; add a singleton
\* candidate for every child that matched.  st = [rc2, agg, w].
explore(meta, s, resources, excl, es, st) ==
  IF es = <<>> THEN st
  ELSE IF ~in_subsystem(Head(es), s) \/ stop_explore(st.w.colors, st.w.base, Head(es), s)
       THEN explore(meta, s, resources, excl, Tail(es), st)
       ELSE ExploreChild(meta, s, resources, excl, es, st.rc2,
              IF s = Dom THEN dom_dfv(meta, Target(Head(es)), resources, excl, st.agg, st.w)
              ELSE aux_upv(meta, Target(Head(es)), s, resources, excl, st.agg, st.w))

\* explore() once the child at Head(es) returned r.
ExploreChild(meta, s, resources, excl, es, rc2, r) ==
  LET e      == Head(es)
      cnt    == r.agg.avail
      single == Group(s, VType[Target(e)], r.agg.score, cnt, r.excl, FALSE,
                      <<EvalEdge(cnt, cnt, r.excl, e)>>)
  IN explore(meta, s, resources, excl, Tail(es),
             [rc2 |-> IF r.rc = 0 THEN 0 ELSE rc2,
              agg |-> IF r.rc = 0 THEN add(r.agg, single) ELSE r.agg,
              w   |-> r.w])

\* dom_exp(): explore every subsystem into one aggregator; rc is the last one's.
dom_exp(meta, u, resources, excl, w) ==
  ExpResult(FoldLeft(LAMBDA acc, s :
                       explore(meta, s, resources, excl, OutEdges[u],
                               [rc2 |-> -1, agg |-> acc.agg, w |-> acc.w]),
                     [rc2 |-> -1, agg |-> EmptyAgg, w |-> w], Subsystems))

aux_upv_edges(meta, aux, resources, excl, es, st) ==
  IF es = <<>> THEN st
  ELSE IF ~in_subsystem(Head(es), aux) \/ stop_explore(st.w.colors, st.w.base, Head(es), aux)
       THEN aux_upv_edges(meta, aux, resources, excl, Tail(es), st)
       ELSE AuxUpvChild(meta, aux, resources, excl, es,
              aux_upv(meta, Target(Head(es)), aux, resources, excl, st.agg, st.w))

\* aux_upv_edges() once the child at Head(es) returned r.
AuxUpvChild(meta, aux, resources, excl, es, r) ==
  IF r.rc # 0 THEN [rc |-> r.rc, agg |-> r.agg, w |-> r.w]
  ELSE aux_upv_edges(meta, aux, resources, excl, Tail(es),
                     [rc |-> 0, agg |-> r.agg, w |-> r.w])

\* aux_upv(): the up-walk of an auxiliary subsystem towards its root.
aux_upv(meta, u, aux, resources, excl, toParent, w) ==
  LET w0 == Touch(w, aux, u, PruneTouchesKey(meta, excl, u, resources))
      w1 == Paint(w0, aux, u, Gray(w0.base))
  IN IF prune(meta, excl, aux, u, resources)
     THEN [rc |-> -1, excl |-> excl, agg |-> toParent, w |-> w0]
     ELSE AuxUpvDone(meta, u, aux, excl, toParent,
            IF u = Roots[aux] THEN [rc |-> 0, agg |-> EmptyAgg, w |-> w1]
            ELSE aux_upv_edges(meta, aux, resources, excl, OutEdges[u],
                               [rc |-> 0, agg |-> EmptyAgg, w |-> w1]))

\* dom_slot(): explore u's children for the slot shape, exclusively.
dom_slot(meta, u, shape, w) ==
  DomSlotCount(shape, explore(meta, Dom, shape, TRUE, OutEdges[u],
                              [rc2 |-> -1, agg |-> EmptyAgg, w |-> w]))

\* dom_dfv(): prune, recurse (slot or subsystems), finish and resolve u.
dom_dfv(meta, u, resources, excl, toParent, w) ==
  LET x_in == excl \/ exclusivity(resources, u)
      t    == test(u, resources)
      w0   == Touch(w, Dom, u, PruneTouchesKey(meta, x_in, u, resources))
      w1   == Paint(w0, Dom, u, Gray(w0.base))
  IN IF prune(meta, x_in, Dom, u, resources)
     THEN [rc |-> -1, excl |-> excl, agg |-> toParent, w |-> w0]
     ELSE DomDfvFinish(meta, u, resources, x_in, toParent,
            IF t.kind = "SLOT_MATCH" THEN dom_slot(meta, u, t.next, w1)
            ELSE dom_exp(meta, u, t.next, x_in, w1))

\* dom_dfv() once the subtree walk returned sub: dom_finish_vtx, then resolve.
DomDfvFinish(meta, u, resources, x_in, toParent, sub) ==
  DomDfvResolve(meta, u, x_in, toParent, sub, dom_finish_vtx(VType[u], resources, sub.agg))

\* select(): tick, walk from the root, add the root's singleton, resolve.
select(resources, meta, excl, w) ==
  SelectRoot(resources, excl, dom_dfv(meta, Root, resources, excl, EmptyAgg, tick(w)))

=============================================================================
