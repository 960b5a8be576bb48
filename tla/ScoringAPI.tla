----------------------------- MODULE ScoringAPI -----------------------------
(***************************************************************************)
(* The score aggregator (scoring_api_t) of one traversal frame.  It is not *)
(* part of src/; its operations are modelled from the contract of spec     *)
(* section 4.2.  An aggregator is a value: the engine threads it through  *)
(* its recursive calls exactly where the code passes it by reference.      *)
(*                                                                         *)
(*   cands  the evaluation groups in insertion order, each tagged with its *)
(*          (subsystem, type) key;                                          *)
(*   bestk  for the keys narrowed to a top-K, the K (count) chosen;         *)
(*   avail, score  set_avail / set_overall_score;                           *)
(*   hier   hier_constrain_now().                                           *)
(***************************************************************************)
EXTENDS Integers, Sequences, FiniteSets, SequencesExt, TLC

MATCH_UNMET == 0
MATCH_MET   == 1

EmptyAgg ==
  [cands |-> <<>>, bestk |-> <<>>, avail |-> 0, score |-> MATCH_UNMET, hier |-> FALSE]

\* An evaluation group (eval_egroup_t) of key (s, t).
Group(s, t, score, count, excl, isRoot, edges) ==
  [sub |-> s, type |-> t, score |-> score, count |-> count,
   exclusive |-> excl, root |-> isRoot, edges |-> edges]

\* An edge evaluation (eval_edg_t).
EvalEdge(count, needs, excl, e) ==
  [count |-> count, needs |-> needs, exclusive |-> excl, edge |-> e]

add(a, g) == [a EXCEPT !.cands = Append(@, g)]

Qualified(g) == g.score >= MATCH_MET

HasKey(g, s, t) == g.sub = s /\ g.type = t

\* The positions of the candidate vector, in insertion order.
Positions(a) == [i \in 1..Len(a.cands) |-> i]

\* Positions of the groups of key (s, t), in insertion order.
KeyIdx(a, s, t) == SelectSeq(Positions(a), LAMBDA i : HasKey(a.cands[i], s, t))

QualIdx(a, s, t) ==
  SelectSeq(Positions(a), LAMBDA i : HasKey(a.cands[i], s, t) /\ Qualified(a.cands[i]))

resrc_types(a, s) == {a.cands[i].type : i \in {i \in DOMAIN a.cands : a.cands[i].sub = s}}

qualified_count(a, s, t) ==
  FoldLeft(LAMBDA acc, i : acc + a.cands[i].count, 0, QualIdx(a, s, t))

best_k(a, s, t) == <<s, t>> \in DOMAIN a.bestk

choose_best_k(a, s, t, k) == [a EXCEPT !.bestk = (<<s, t>> :> k) @@ @]

choose_accum_all(a, s, t) == choose_best_k(a, s, t, qualified_count(a, s, t))

\* The chosen groups: the shortest prefix of the qualified ones whose counts reach K.
RECURSIVE Prefix(_, _, _)
Prefix(a, idx, need) ==
  IF need <= 0 \/ idx = <<>> THEN <<>>
  ELSE <<Head(idx)>> \o Prefix(a, Tail(idx), need - a.cands[Head(idx)].count)

ChosenIdx(a, s, t) ==
  IF best_k(a, s, t) THEN Prefix(a, QualIdx(a, s, t), a.bestk[<<s, t>>]) ELSE <<>>

best_i(a, s, t) == Len(ChosenIdx(a, s, t))

at(a, s, t, i) == a.cands[ChosenIdx(a, s, t)[i + 1]]

\* merge: the child's chosen groups of each narrowed key, all groups of the others.
merge(a, o) ==
  LET Kept(i) == LET g == o.cands[i] IN
                   best_k(o, g.sub, g.type) => i \in ToSet(ChosenIdx(o, g.sub, g.type))
      keep == SelectSeq(Positions(o), LAMBDA i : Kept(i))
  IN [a EXCEPT !.cands = @ \o [j \in DOMAIN keep |-> o.cands[keep[j]]]]

set_avail(a, n) == [a EXCEPT !.avail = n]

set_overall_score(a, n) == [a EXCEPT !.score = n]

hier_constrain_now(a) == a.hier

=============================================================================
