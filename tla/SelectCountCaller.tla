------------------------- MODULE SelectCountCaller -------------------------
EXTENDS SelectCount

(***************************************************************************)
(* The caller: each step is one call select_count(c, qc) with a count the  *)
(* parser accepted and a qualified count qc.                               *)
(***************************************************************************)
CONSTANTS Requests, Quals

VARIABLES req, qc, result

vars == <<req, qc, result>>

TypeOK ==
  /\ req \in Requests
  /\ qc \in Quals
  /\ result \in Nat \cup {Diverges}

Init ==
  /\ req \in Requests
  /\ qc \in Quals
  /\ result = select_count(req, qc)

Call(c, q) ==
  /\ req' = c
  /\ qc' = q
  /\ result' = select_count(c, q)

Next == \E c \in Requests, q \in Quals : Call(c, q)

Spec == Init /\ [][Next]_vars

(***************************************************************************)
(* select_count never grants more than is available, nor less than the    *)
(* request's min: its result is 0 (infeasible) or in min..qc.              *)
(***************************************************************************)
CountWithinAvail ==
  result # Diverges => (result = 0 \/ (req.min <= result /\ result <= qc))

(* select_count returns, for every count the parser accepts. *)
Terminates == result # Diverges

(***************************************************************************)
(* select_count computes the count the jobspec's reduction defines: the    *)
(* largest reachable value <= qc and >= min.                               *)
(***************************************************************************)
MatchesReference == result = RefSelectCount(req, qc)

=============================================================================
