------------------------------ MODULE Allocator ------------------------------
(***************************************************************************)
(* What dfu_traverser_t::run promises its caller, with the traversal left *)
(* out: each job is decided once -- allocated, reserved or failed -- and   *)
(* the decision adds holdings for that job alone and removes none.  A      *)
(* granted job holds at least one vertex, a failed one none, and an       *)
(* allocation never shares a vertex, or a vertex above or below it, with  *)
(* another job's allocation over an overlapping window.                    *)
(***************************************************************************)
EXTENDS FiniteSets

CONSTANTS
  Jobs,
  Vertices,
  Under,     \* Under[v]: the vertices under v in the containment tree
  Windows    \* the windows (sets of time points) a job can be given

VARIABLES
  alloc,     \* alloc[v]: the jobs v is allocated to
  resv,      \* resv[v]: the jobs v is reserved for
  status,    \* status[j] \in {"none", "allocated", "reserved", "failed"}
  win        \* win[j]: the window of a granted job, {} otherwise

avars == <<alloc, resv, status, win>>

\* u and v are the same vertex, or one lies under the other.
Related(u, v) == u = v \/ u \in Under[v] \/ v \in Under[u]

\* Giving S to a job over W keeps every other job's allocations clear of it.
ClearOf(j, S, W) ==
  \A v \in S, d \in Vertices, k \in Jobs \ {j} :
    Related(v, d) /\ k \in alloc[d] => W \cap win[k] = {}

AInit ==
  /\ alloc = [v \in Vertices |-> {}]
  /\ resv = [v \in Vertices |-> {}]
  /\ status = [j \in Jobs |-> "none"]
  /\ win = [j \in Jobs |-> {}]

\* h2 is h with j added at the vertices of a non-empty set, and nowhere else.
GrantedTo(h2, h, j) ==
  /\ h2 \in [Vertices -> SUBSET Jobs]
  /\ \A v \in Vertices : h2[v] \in {h[v], h[v] \cup {j}}
  /\ \E v \in Vertices : j \in h2[v] \ h[v]

\* The vertices h2 gives to j.
Granted(h2, j) == {v \in Vertices : j \in h2[v]}

Allocate(j, W) ==
  /\ status[j] = "none"
  /\ GrantedTo(alloc', alloc, j)
  /\ ClearOf(j, Granted(alloc', j), W)
  /\ status' = [status EXCEPT ![j] = "allocated"]
  /\ win' = [win EXCEPT ![j] = W]
  /\ UNCHANGED resv

Reserve(j, W) ==
  /\ status[j] = "none"
  /\ GrantedTo(resv', resv, j)
  /\ status' = [status EXCEPT ![j] = "reserved"]
  /\ win' = [win EXCEPT ![j] = W]
  /\ UNCHANGED alloc

Fail(j) ==
  /\ status[j] = "none"
  /\ status' = [status EXCEPT ![j] = "failed"]
  /\ UNCHANGED <<alloc, resv, win>>

ANext ==
  \E j \in Jobs :
    \/ \E W \in Windows : Allocate(j, W) \/ Reserve(j, W)
    \/ Fail(j)

ASpec == AInit /\ [][ANext]_avars

=============================================================================
