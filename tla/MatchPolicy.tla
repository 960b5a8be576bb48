----------------------------- MODULE MatchPolicy -----------------------------
(***************************************************************************)
(* The match policy the traversal calls back (dfu_match_cb_t and its      *)
(* matcher_data_t base).  The subsystem list, the dominant subsystem and  *)
(* select_count are src/ code; the base class's discover/finish callbacks  *)
(* are no-ops returning 0 (src/dfu_match_cb.hpp).  The concrete policy a  *)
(* caller plugs in is not under src/: the finishing callbacks below are    *)
(* the count-selecting policy spec section 4.3 describes (dom_finish_vtx   *)
(* narrows each child request type to select_count of its qualified count, *)
(* dom_finish_graph does the same for the top-level request types).         *)
(***************************************************************************)
EXTENDS ScoringAPI, SelectCount

CONSTANTS
  Subsystems,   \* m_subsystems, in add_subsystem order
  SdauTypes,    \* sdau_resource_types: subsystem -> the types rolled up by priming
  HierTypes     \* vertex types at which the policy asks to enforce at once

\* dom_subsystem(): the first subsystem added.
Dom == Head(Subsystems)

SubsystemSet == ToSet(Subsystems)

(***************************************************************************)
(* Narrow each request of reqs to select_count(request, qualified count),  *)
(* stopping at the first one that cannot be met.  [ok, agg].              *)
(***************************************************************************)
RECURSIVE NarrowCounts(_, _)
NarrowCounts(reqs, a) ==
  IF reqs = <<>> THEN [ok |-> TRUE, agg |-> a]
  ELSE LET r     == Head(reqs)
           count == select_count(r.count, qualified_count(a, Dom, r.type))
       IN IF count = 0 THEN [ok |-> FALSE, agg |-> a]
          ELSE NarrowCounts(Tail(reqs), choose_best_k(a, Dom, r.type, count))

\* Score and result code a finishing callback reports.
Finish(n, hier) ==
  [rc  |-> IF n.ok THEN 0 ELSE -1,
   agg |-> [n.agg EXCEPT !.score = IF n.ok THEN MATCH_MET ELSE MATCH_UNMET,
                         !.hier  = hier]]

(***************************************************************************)
(* dom_finish_vtx(u, resources, dfu): for the request matching u's type,   *)
(* narrow its child requests; a vertex no request matches is accepted.     *)
(***************************************************************************)
dom_finish_vtx(utype, resources, a) ==
  LET hits == {i \in DOMAIN resources : resources[i].type = utype}
      kids == IF hits = {} THEN <<>> ELSE resources[Min(hits)].with
  IN Finish(NarrowCounts(kids, a), utype \in HierTypes)

\* dom_finish_graph(resources, dfu): narrow the top-level requests.
dom_finish_graph(resources, a) == Finish(NarrowCounts(resources, a), a.hier)

\* dom_finish_slot(dfu_slot): accepts the scored slot candidates as they are.
dom_finish_slot(a) == 0

=============================================================================
