------------------------------ MODULE DFULegacy ------------------------------
(***************************************************************************)
(* The select walk of the slot-less engine: the dfu_impl_t defined in      *)
(* src/dfu_traverse.hpp, the engine its dfu_traverser_t front end derives  *)
(* from.  It shares the graph state, resolve/enforce and the update phase  *)
(* with the slot-aware engine (DFUGraph); what differs is modelled here:  *)
(* priming without a PLANNER_NUM_TYPES check, exclusivity taken from the  *)
(* last request of the vertex's type, a prune that looks at a vertex only  *)
(* when a request names its type, next() in place of test()/dom_slot, an   *)
(* explore() whose rc is its last child's, and a dom_dfv() that returns    *)
(* dom_finish_vtx's rc.                                                    *)
(***************************************************************************)
EXTENDS DFUGraph

\* The rest of prime(s, u) after the loop over u's out-edges: a failed child
\* returns at once (u stays gray, nothing rolled up); otherwise roll the
\* children's totals up and give u a subtree planner over them.
PrimeFinish(s, u, acc1, ex, base) ==
  IF ex.rc # 0 THEN [rc |-> ex.rc, acc |-> acc1, st |-> ex.st]
  ELSE LET dfv == ex.acc
           st2 == IF DOMAIN dfv # {}
                  THEN [ex.st EXCEPT !.subplans[s][u] = planner_new(dfv),
                                     !.keys[s] = @ \cup {u}]
                  ELSE ex.st
       IN [rc |-> 0, acc |-> AccumAll(s, dfv, acc1),
           st |-> [st2 EXCEPT !.colors[s][u] = Black(base)]]

RECURSIVE prime(_, _, _, _, _), prime_exp(_, _, _, _, _), PrimeExpNext(_, _, _, _)

PrimeExpNext(s, es, r, base) ==
  IF r.rc # 0 THEN r ELSE prime_exp(s, Tail(es), r.acc, r.st, base)

\* The loop of prime() over u's out-edges.
prime_exp(s, es, dfv, st, base) ==
  IF es = <<>> THEN [rc |-> 0, acc |-> dfv, st |-> st]
  ELSE IF ~in_subsystem(Head(es), s) \/ stop_explore(st.colors, base, Head(es), s)
       THEN prime_exp(s, Tail(es), dfv, st, base)
       ELSE PrimeExpNext(s, es, prime(s, Target(Head(es)), dfv, st, base), base)

prime(s, u, toParent, st, base) ==
  PrimeFinish(s, u, accum_if(s, VType[u], VSize[u], toParent),
              prime_exp(s, OutEdges[u], <<>>, [st EXCEPT !.colors[s][u] = Gray(base)], base),
              base)

\* exclusivity(): the exclusive flag of the last request of u's type.
exclusivity(resources, u) ==
  LET m == Matching(resources, u)
  IN m # {} /\ resources[Max(m)].exclusive

\* prune(): only a request of u's type prunes u, by tag, by u's own planner
\* or by its subtree planner, in that order.
prune(meta, excl, s, u, resources) ==
  /\ Matching(resources, u) # {}
  /\ \/ TagPrune(meta, excl, u)
     \/ OwnAvail(meta, u) = 0
     \/ \E i \in Matching(resources, u) : SubtreePrune(meta, s, u, resources[i])

\* The subplans[s] read of prune, which inserts the key when absent.
PruneTouchesKey(meta, excl, u, resources) ==
  /\ ~TagPrune(meta, excl, u)
  /\ OwnAvail(meta, u) # 0
  /\ \E i \in Matching(resources, u) : DOMAIN resources[i].user_data # {}

\* next(): the children of the first request of the type, else all requests.
next(type, resources) ==
  LET m == {i \in DOMAIN resources : resources[i].type = type}
  IN IF m = {} THEN resources ELSE resources[Min(m)].with

\* The rest of dom_dfv() once dom_exp returned sub and dom_finish_vtx fin:
\* u is painted black; a busy u returns dom_exp's rc, a rejected u its own.
DomDfvResolve(meta, u, x_in, toParent, sub, fin) ==
  LET w2    == Paint(sub.w, Dom, u, Black(sub.w.base))
      avail == OwnAvail(meta, u)
  IN IF avail = 0 THEN [rc |-> sub.rc, excl |-> x_in, agg |-> toParent, w |-> w2]
     ELSE IF fin.rc # 0 THEN [rc |-> fin.rc, excl |-> x_in, agg |-> toParent, w |-> w2]
     ELSE DomDfvScored(x_in, avail, fin.agg.score, resolve(fin.agg, toParent, w2))

(***************************************************************************)
(* The recursive select walk, threading [rc, excl, agg, w] as the slot-  *)
(* aware walk of DFUSelect does.                                           *)
(***************************************************************************)
RECURSIVE dom_dfv(_, _, _, _, _, _), dom_exp(_, _, _, _, _),
          explore(_, _, _, _, _, _), ExploreChild(_, _, _, _, _, _),
          aux_upv(_, _, _, _, _, _, _), aux_upv_edges(_, _, _, _, _, _),
          AuxUpvChild(_, _, _, _, _, _), DomDfvFinish(_, _, _, _, _, _)

\* explore(): visit the eligible out-edges es in order; add a singleton for
\* every child that returned 0.  st = [rc, agg, w]; rc is the last child's.
explore(meta, s, resources, excl, es, st) ==
  IF es = <<>> THEN st
  ELSE IF ~in_subsystem(Head(es), s) \/ stop_explore(st.w.colors, st.w.base, Head(es), s)
       THEN explore(meta, s, resources, excl, Tail(es), st)
       ELSE ExploreChild(meta, s, resources, excl, es,
              IF s = Dom THEN dom_dfv(meta, Target(Head(es)), resources, excl, st.agg, st.w)
              ELSE aux_upv(meta, Target(Head(es)), s, resources, excl, st.agg, st.w))

ExploreChild(meta, s, resources, excl, es, r) ==
  LET e   == Head(es)
      cnt == r.agg.avail
  IN explore(meta, s, resources, excl, Tail(es),
             [rc  |-> r.rc,
              agg |-> IF r.rc = 0
                      THEN add(r.agg, Group(s, VType[Target(e)], r.agg.score, cnt, r.excl,
                                            FALSE, <<EvalEdge(cnt, cnt, r.excl, e)>>))
                      ELSE r.agg,
              w   |-> r.w])

\* dom_exp(): explore every subsystem into one aggregator; rc is the last one's.
dom_exp(meta, u, resources, excl, w) ==
  FoldLeft(LAMBDA acc, s : explore(meta, s, resources, excl, OutEdges[u],
                                   [rc |-> -1, agg |-> acc.agg, w |-> acc.w]),
           [rc |-> -1, agg |-> EmptyAgg, w |-> w], Subsystems)

aux_upv_edges(meta, aux, resources, excl, es, st) ==
  IF es = <<>> THEN st
  ELSE IF ~in_subsystem(Head(es), aux) \/ stop_explore(st.w.colors, st.w.base, Head(es), aux)
       THEN aux_upv_edges(meta, aux, resources, excl, Tail(es), st)
       ELSE AuxUpvChild(meta, aux, resources, excl, es,
              aux_upv(meta, Target(Head(es)), aux, resources, excl, st.agg, st.w))

AuxUpvChild(meta, aux, resources, excl, es, r) ==
  IF r.rc # 0 THEN [rc |-> r.rc, agg |-> r.agg, w |-> r.w]
  ELSE aux_upv_edges(meta, aux, resources, excl, Tail(es),
                     [rc |-> 0, agg |-> r.agg, w |-> r.w])

\* aux_upv(): the up-walk of an auxiliary subsystem towards its root.
aux_upv(meta, u, aux, resources, excl, toParent, w) ==
  LET w0 == Touch(w, aux, u, PruneTouchesKey(meta, excl, u, resources))
      w1 == Paint(w0, aux, u, Gray(w0.base))
  IN IF prune(meta, excl, aux, u, resources)
     THEN [rc |-> -1, excl |-> excl, agg |-> toParent, w |-> w0]
     ELSE AuxUpvDone(meta, u, aux, excl, toParent,
            IF u = Roots[aux] THEN [rc |-> 0, agg |-> EmptyAgg, w |-> w1]
            ELSE aux_upv_edges(meta, aux, resources, excl, OutEdges[u],
                               [rc |-> 0, agg |-> EmptyAgg, w |-> w1]))

\* dom_dfv(): prune, explore the requests next() picks, finish and resolve u.
dom_dfv(meta, u, resources, excl, toParent, w) ==
  LET x_in == excl \/ exclusivity(resources, u)
      w0   == Touch(w, Dom, u, PruneTouchesKey(meta, x_in, u, resources))
      w1   == Paint(w0, Dom, u, Gray(w0.base))
  IN IF prune(meta, x_in, Dom, u, resources)
     THEN [rc |-> -1, excl |-> excl, agg |-> toParent, w |-> w0]
     ELSE DomDfvFinish(meta, u, resources, x_in, toParent,
                       dom_exp(meta, u, next(VType[u], resources), x_in, w1))

DomDfvFinish(meta, u, resources, x_in, toParent, sub) ==
  DomDfvResolve(meta, u, x_in, toParent, sub, dom_finish_vtx(VType[u], resources, sub.agg))

\* select(): tick, walk from the root, add the root's singleton, resolve.
select(resources, meta, excl, w) ==
  SelectRoot(resources, excl, dom_dfv(meta, Root, resources, excl, EmptyAgg, tick(w)))

=============================================================================
