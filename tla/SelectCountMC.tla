--------------------------- MODULE SelectCountMC ---------------------------
(***************************************************************************)
(* Instances of SelectCount for TLC.  A request is a count the jobspec     *)
(* parser accepts, built from small sets of min, max, operator and operand;*)
(* qc ranges over the qualified counts a traversal can report.             *)
(***************************************************************************)
EXTENDS SelectCountCaller

CONSTANTS Mins, Maxs, Opers, Operands, MaxQual

MCQuals == 0..MaxQual

Verbose == {c \in [min : Mins, max : Maxs, oper : Opers, operand : Operands] :
              ParsedCount(c)}

MCRequests == Verbose \cup {ScalarCount(n) : n \in Maxs}

(***************************************************************************)
(* The counts whose reduction stays in the first 2^32 values and ends:    *)
(* operand >= 1, and for '^' a base min >= 2.                              *)
(***************************************************************************)
SafeRequests == {c \in MCRequests : c.operand >= 1 /\ (c.oper = "^" => c.min >= 2)}

=============================================================================
