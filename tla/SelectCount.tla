---------------------------- MODULE SelectCount ----------------------------
(***************************************************************************)
(* The count selection of a match policy: matcher_data_t::select_count and *)
(* prev_pwr (src/matcher_data.hpp), fed with the counts the jobspec parser *)
(* Resource::parse_yaml_count (src/jobspec.cpp) accepts.                   *)
(*                                                                         *)
(* count, min, max are C++ unsigned int (32 bits); operand is an int that  *)
(* the arithmetic converts to unsigned.  TLC integers are 32-bit signed,   *)
(* so the two places where a 32-bit word can exceed 2^31 are modelled by  *)
(* what they compute rather than by the raw value: the subtraction loop    *)
(* of '+' by the residues it passes through, the squaring of prev_pwr on   *)
(* a word split in two 16-bit halves.                                      *)
(***************************************************************************)
EXTENDS Integers, FiniteSets

CONSTANTS
  Fuel     \* bound on wrap-arounds / squarings; reaching it means the loop never ends

\* A loop of select_count or prev_pwr that does not terminate.
Diverges == -1

Half == 65536

(***************************************************************************)
(* Counts accepted by parse_yaml_count: the scalar form sets min = max and *)
(* keeps the defaults oper '+', operand 1; the verbose form checks min >= 1*)
(* max >= 1, max >= min and oper in {'+', '-', '^'}; operand is any int.   *)
(***************************************************************************)
ScalarCount(n) == [min |-> n, max |-> n, oper |-> "+", operand |-> 1]

ParsedCount(c) ==
  /\ c.min >= 1
  /\ c.max >= 1
  /\ c.max >= c.min
  /\ c.oper \in {"+", "-", "^"}

(***************************************************************************)
(* '+': while (count > qc) count -= operand, in unsigned arithmetic.  The  *)
(* loop steps down in the residue class of count modulo op; when it passes *)
(* below zero without meeting a value <= qc it wraps to r - op + 2^32,     *)
(* whose residue is (r + 2^32) % op.  It ends at the largest value <= qc   *)
(* of the class it is in, or never, if the residues cycle above qc.        *)
(***************************************************************************)
RECURSIVE PowMod(_, _, _)
PowMod(b, e, m) == IF e = 0 THEN 1 % m ELSE (b * PowMod(b, e - 1, m)) % m

\* Mutant of the '+' loop: while (count >= qc), an off-by-one condition.
SubtractLoopGeq(count, qc, op) ==
  LET r == count % op
  IN IF count < qc \/ op = 0 THEN count
     ELSE IF r < qc THEN (qc - 1) - ((qc - 1 - r) % op) ELSE Diverges

SubtractLoop(count, qc, op) ==
  LET wrapShift == PowMod(2, 32, op)
      RECURSIVE Descend(_, _)
      Descend(r, fuel) ==
        IF r <= qc THEN qc - ((qc - r) % op)
        ELSE IF fuel = 0 THEN Diverges
        ELSE Descend((r + wrapShift) % op, fuel - 1)
  IN IF count <= qc THEN count
     ELSE IF op = 0 THEN Diverges
     ELSE Descend(count % op, Fuel)

\* '*': while (count > qc) count /= operand; a zero operand divides by zero.
DivideLoop(count, qc, op) ==
  LET RECURSIVE Loop(_, _)
      Loop(x, fuel) == IF x <= qc THEN x
                       ELSE IF op <= 1 \/ fuel = 0 THEN Diverges
                       ELSE Loop(x \div op, fuel - 1)
  IN Loop(count, Fuel)

(***************************************************************************)
(* i *= i on a 32-bit word w = [hi, lo] of two 16-bit halves:               *)
(* (hi*2^16 + lo)^2 mod 2^32 = ((2*hi*lo + lo^2 div 2^16) mod 2^16) * 2^16 *)
(*                             + lo^2 mod 2^16.                            *)
(***************************************************************************)
MulLow(x, y) == (((x \div 256) * y % 256) * 256 + (x % 256) * y) % Half

Square32(w) ==
  LET a == w.lo \div 256
      b == w.lo % 256
      t == 2 * a * b * 256 + b * b
  IN [hi |-> (2 * MulLow(w.hi, w.lo) + a * a + t \div Half) % Half,
      lo |-> t % Half]

Below(w, n) == \/ w.hi < n \div Half
               \/ w.hi = n \div Half /\ w.lo < n % Half

(***************************************************************************)
(* prev_pwr(min, count, operand): i = min; while (i < count) { sol = i;    *)
(* square i operand times }; return sol.  sol < count, so it is a small    *)
(* number even when i has wrapped.                                         *)
(***************************************************************************)
prev_pwr(min, count, operand) ==
  LET RECURSIVE Raise(_, _)
      Raise(w, j) == IF j < operand THEN Raise(Square32(w), j + 1) ELSE w
      RECURSIVE Loop(_, _, _)
      Loop(w, sol, fuel) ==
        IF ~Below(w, count) THEN sol
        ELSE IF fuel = 0 THEN Diverges
        ELSE Loop(Raise(w, 0), w.hi * Half + w.lo, fuel - 1)
  IN Loop([hi |-> min \div Half, lo |-> min % Half], 0, Fuel)

\* '^': while (count > qc) count = prev_pwr(min, count, operand).
PowerLoop(c, qc) ==
  LET RECURSIVE Loop(_, _)
      Loop(x, fuel) == IF x = Diverges \/ x <= qc THEN x
                       ELSE IF fuel = 0 THEN Diverges
                       ELSE Loop(prev_pwr(c.min, x, c.operand), fuel - 1)
  IN Loop(c.max, Fuel)

(***************************************************************************)
(* select_count(resource, qc): 0 if max < min or min > qc; otherwise shrink*)
(* max by the operator until it is <= qc (any other operator leaves it at  *)
(* max) and return it if it is still >= min, else 0.                      *)
(***************************************************************************)
select_count(c, qc) ==
  LET count == CASE c.oper = "+" -> SubtractLoop(c.max, qc, c.operand)
                 [] c.oper = "*" -> DivideLoop(c.max, qc, c.operand)
                 [] c.oper = "^" -> PowerLoop(c, qc)
                 [] OTHER        -> c.max
  IN IF c.max < c.min \/ c.min > qc THEN 0
     ELSE IF count = Diverges THEN Diverges
     ELSE IF count >= c.min THEN count ELSE 0

(***************************************************************************)
(* Reference definition, from the count semantics of the jobspec: the      *)
(* values a count may take are max and what repeated reduction by the      *)
(* operator gives (additive: max - k*operand; multiplicative:              *)
(* max div operand^k; power-of: min, min^(2^operand), ... below max); the  *)
(* selected count is the largest of them <= qc, if it is >= min, else 0.   *)
(***************************************************************************)
RefCandidates(c) ==
  LET Capped(x) == IF x >= c.max THEN c.max ELSE x * x
      RECURSIVE Pow(_, _)
      Pow(x, j) == IF j = 0 THEN x ELSE Pow(Capped(x), j - 1)
      RECURSIVE Chain(_)
      Chain(x) == IF x >= c.max THEN {}
                  ELSE IF Pow(x, c.operand) = x THEN {x}
                  ELSE {x} \cup Chain(Pow(x, c.operand))
      RECURSIVE Quotients(_)
      Quotients(x) == IF x = 0 \/ c.operand <= 1 THEN {x}
                      ELSE {x} \cup Quotients(x \div c.operand)
  IN {c.max} \cup
     CASE c.oper = "+" -> {c.max - k * c.operand : k \in 0..c.max}
       [] c.oper = "*" -> Quotients(c.max)
       [] c.oper = "^" -> Chain(c.min)
       [] OTHER        -> {}

RefSelectCount(c, qc) ==
  LET fit == {x \in RefCandidates(c) : x <= qc}
      best == CHOOSE x \in fit : \A y \in fit : y <= x
  IN IF fit = {} \/ c.min > qc THEN 0
     ELSE IF best >= c.min THEN best ELSE 0

=============================================================================
