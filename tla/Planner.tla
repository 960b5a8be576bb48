------------------------------- MODULE Planner -------------------------------
(***************************************************************************)
(* The interval tracker ("planner") each vertex delegates to.  It is not  *)
(* part of src/; its operations are modelled from the interface the       *)
(* traversal uses (spec section 6): a planner holds totals per resource   *)
(* type over [0, Horizon) and a sequence of spans; a span id is the        *)
(* span's position (>= 1), NoSpan the error sentinel.                      *)
(***************************************************************************)
EXTENDS Integers, Sequences, FiniteSets, SequencesExt

CONSTANTS Horizon

NoSpan == -1

\* A vertex that has no subtree planner for a subsystem (a NULL planner_t).
NoPlanner == [total |-> <<>>, spans |-> <<>>, none |-> TRUE]

planner_new(totals) == [total |-> totals, spans |-> <<>>, none |-> FALSE]

PlannerTypes(p) == DOMAIN p.total

InWindow(at, dur) == at >= 0 /\ dur >= 1 /\ at + dur <= Horizon

\* Amount of type ty held by spans covering time t.
UsedAt(p, ty, t) ==
  MapThenSumSet(LAMBDA i : p.spans[i].counts[ty],
                {i \in DOMAIN p.spans :
                   /\ ty \in DOMAIN p.spans[i].counts
                   /\ p.spans[i].at <= t
                   /\ t < p.spans[i].at + p.spans[i].dur})

\* Residual capacity of type ty over [at, at+dur); -1 outside the horizon.
planner_avail_resources_during(p, at, dur, ty) ==
  IF ~InWindow(at, dur) THEN -1
  ELSE p.total[ty] - Max({UsedAt(p, ty, t) : t \in at..(at + dur - 1)})

\* 0 if every type of the planner has counts[ty] free over the window, else -1.
planner_avail_during(p, at, dur, counts) ==
  IF /\ InWindow(at, dur)
     /\ \A ty \in PlannerTypes(p) :
          counts[ty] <= planner_avail_resources_during(p, at, dur, ty)
  THEN 0 ELSE -1

\* Reserves counts over the window: [p |-> new planner, id |-> span id or NoSpan].
planner_add_span(p, at, dur, counts, job) ==
  IF /\ ~p.none
     /\ DOMAIN counts \subseteq PlannerTypes(p)
     /\ InWindow(at, dur)
     /\ \A ty \in DOMAIN counts :
          counts[ty] <= planner_avail_resources_during(p, at, dur, ty)
  THEN [p  |-> [p EXCEPT !.spans = Append(@, [job |-> job, at |-> at,
                                               dur |-> dur, counts |-> counts])],
        id |-> Len(p.spans) + 1]
  ELSE [p |-> p, id |-> NoSpan]

(***************************************************************************)
(* planner_avail_time_first(p, t, dur, counts) and the planner_avail_time_ *)
(* next calls after it enumerate, in increasing order, the start times >= t*)
(* at which planner_avail_during succeeds.                                 *)
(***************************************************************************)
AvailTimes(p, t, dur, counts) ==
  SetToSortSeq({s \in t..(Horizon - dur) : planner_avail_during(p, s, dur, counts) = 0},
               LAMBDA a, b : a < b)

=============================================================================
