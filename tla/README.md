# TLA+ models of resource-query's DFU traversal

These modules model the matching engine of `src/`: the jobspec reader, count
selection (`select_count`), and the depth-first-and-up (DFU) traversal. The traversal
primes a resource graph, selects an embedding of a request tree, and commits it to
per-vertex interval trackers ("planners"). The models are checked with TLC.

## The system

| Part | Source | State | Operations |
|---|---|---|---|
| Jobspec reader | `src/jobspec.cpp` (`Jobspec`, `Resource`, `Task` constructors, `parse_yaml_count`), `src/jobspec.hpp`; `jobmeta_t::build` in `src/dfu_traverse.hpp` | the request tree (`type`, `count{min,max,oper,operand}`, `exclusive`, `with`, `user_data`), tasks, attributes; the job's duration | construct from a YAML document, or throw |
| Count selection | `src/matcher_data.hpp` `select_count`, `prev_pwr` | none: pure 32-bit unsigned arithmetic | reduce `max` by the operator until it is `<= qc`, then check `min` |
| Match policy | `src/matcher_data.hpp`, `src/dfu_match_cb.hpp` | subsystems, dominant subsystem, sdau types | `dom_finish_vtx`, `dom_finish_graph`, `dom_finish_slot` callbacks |
| Score aggregator | not in `src/` (spec §4.2) | evaluation groups per (subsystem, type), best-K, avail, score | `add`, `merge`, `choose_best_k`, `best_i`/`at`, `qualified_count` |
| Interval tracker (planner) | not in `src/`: `src/planner` holds only a timing benchmark of its interface (spec §6) | totals per type, spans | `add_span`, `avail_during`, `avail_time_first/next` |
| Resource graph data | `src/resource_data.hpp` | per vertex: colors, own planner, subtree planners, tags, allocations, reservations, job2span; per edge: needs, stamp, exclusive | written by the engine |
| DFU engine | `src/dfu_traverse_impl.cpp` | `m_best_k_cnt`, `m_color_base` | `prime`, `select` (`dom_dfv`, `dom_exp`, `dom_slot`, `explore`, `aux_upv`, `prune`, `resolve`, `enforce`), `update` (`upd_dfv`, `updcore`) |
| Front end | `src/dfu_traverse.hpp` `dfu_traverser_t` | none of its own | `initialize()`, `run(jobspec, op, jobid, at)` |

How the parts interact: `initialize()` primes each subsystem from its root. Priming rolls
the sizes of the policy's types up the tree and gives each vertex a subtree planner
over them. `run()` then takes these steps:

1. It primes the request tree, so each request gets the minimum counts below it in `user_data`.
2. It calls `select` with `allocate = true`. `select` ticks the generation and the color
   epoch and walks the dominant subsystem depth first.
3. At each vertex, `prune` consults three things: the vertex's own planner, its tags,
   and its subtree planner (against `user_data`).
4. The match policy narrows each level's candidates with `select_count`.
5. `resolve`/`enforce` write the chosen edges' decisions, stamped with the generation.
6. If the match fails under `MATCH_ALLOCATE_ORELSE_RESERVE`, `run()` retries `select` as
   a reservation. It does so at each later time the root's subtree planner finds feasible.
7. On success, `update` walks the edges stamped with the current generation. `updcore`
   adds spans to the own planners of exclusive vertices and to the subtree planners.
   It also records allocations, reservations and tags.

Everything is single-threaded and synchronous. The hard behaviours are therefore
sequences of calls, and state that one call leaves for the next:

- edge stamps and colors that persist across matches;
- tags that outlive their window;
- an or-else-reserve retry that runs on what a failed select left behind;
- a re-`initialize()`;
- the unsigned arithmetic of the count reduction;
- the return codes threaded through the recursion, some of which are dropped.

## Modules

| Module | Models | Kind |
|---|---|---|
| `SelectCount` | `select_count`, `prev_pwr`, and the counts the parser accepts; `RefSelectCount` is a reference definition of the count semantics | pure operators (RECURSIVE, with a `Fuel` bound for non-termination) |
| `JobspecParse` | the constructors of `jobspec.cpp` and `jobmeta_t::build`: YAML nodes are records (`YScalar`, `YMap`, `YSeq`), and each constructor is an operator returning `Accepted(value)` or `Rejected` (every `throw`) | pure operators (RECURSIVE for `with`); EXTENDS `SelectCount` |
| `SelectCountCaller` | one `select_count` call per step, over accepted counts and qualified counts | state machine around the operators |
| `ScoringAPI` | `scoring_api_t` from the spec's contract (spec-modelled) | value-level operators |
| `Planner` | the planner interface from the spec (spec-modelled) | value-level operators |
| `MatchPolicy` | subsystem list and dominant subsystem (src), count-selecting finish callbacks (spec-modelled; the concrete policy is not in `src/`) | operators; EXTENDS `ScoringAPI`, `SelectCount` |
| `DFUGraph` | the graph data of `resource_data.hpp` and the parts both engines share: `resolve`, `enforce`, `update`, `upd_dfv`, `updcore`, the tag and subtree prunes, colors and epochs | CONSTANTS for the graph shape; operators over the state |
| `DFUSelect` | the slot-aware engine of `dfu_traverse_impl.cpp`: `prime`, `exclusivity`, `prune`, `test`, `dom_dfv`, `dom_exp`, `dom_slot`, `explore`, `aux_upv`, `select` | RECURSIVE operators; EXTENDS `DFUGraph` |
| `DFULegacy` | the slot-less `dfu_impl_t` defined in `dfu_traverse.hpp` itself: its `prime` (no `PLANNER_NUM_TYPES` check), last-request `exclusivity`, type-gated `prune`, `next`, `explore`, `dom_exp`, `aux_upv`, `dom_dfv`, `select` | RECURSIVE operators; EXTENDS `DFUGraph` |
| `DFUTraverse` | the front end `dfu_traverser_t`: `initialize()` and `run()`, on the engine the constant `Engine` names (`"slot"` or `"legacy"`) | VARIABLES for the graph data and engine counters; actions `Initialize`, `Run(j, jobspec, op, at)`, `Done`; the refinement mapping `Abs` |
| `Allocator` | what `run()` promises its caller, with the traversal left out | abstract state machine: `Allocate`, `Reserve`, `Fail` |
| `DFUTraverseMC`, `SelectCountMC` | model-checking instances | graphs, YAML jobspec documents read through `JobspecParse`, count sets |

The modules build in this order: `SelectCount` first, then `ScoringAPI` and `Planner`,
then `MatchPolicy`, which composes count selection with the aggregator. `DFUGraph`
composes `MatchPolicy` and `Planner`. `DFUSelect` extends it, and `DFUTraverse` extends
`DFUSelect` and instantiates `DFULegacy` as `Legacy`. The header's `dfu_traverser_t`
derives from the header's own `dfu_impl_t`, so the two engines are alternatives of the
same front end. `EngineSelect`, `EnginePrime` and `EngineExclusivity` pick one. Both
engines share `resolve`, `enforce` and the update phase, whose code is the same in both
files. `DFUTraverse` is also shown to implement `Allocator` (see Refinement).

`ScoringAPI` keeps the candidates of a group in insertion order. It selects them by index
with `SelectSeq` over their positions, which keeps the cost of `choose_best_k` linear in
the candidates.

One step of `DFUTraverse` is one public call: `initialize()` or `run()`. The recursive
select and update walks are RECURSIVE operators. They thread the changed state (a
session record of colors, edge decisions, subplan keys, generation and color base) in
the order the code changes it. Each call returns what the C++ leaves in its
by-reference arguments (`rc`, `*excl`, the aggregator). A function whose code keeps a
result in a local and reads it several times is split in two. The result becomes the
argument of an operator that models the rest of the function, for example
`ExploreChild`, `DomDfvFinish` and `RunRetry`. This keeps each recursive call written
once, which keeps the models fast to check. Each operator is named after
the function it models. PROJECT.json's `map` gives the lines. Two code behaviours are
kept on purpose:

- `prune`'s `subplans[s]` uses `operator[]`, which inserts the key (`PruneTouchesKey`, `Touch`);
- `updcore`'s `subplans[s]` does the same.

`run()`'s `subplans.at(dom)` throws when the key is absent. The model keeps this as the
variable `crashed`, which stops every further step. `dom_slot` dereferences its
iteration cursor without checking the end. When the cursor runs past the last
candidate, the model sets `overrun` in the session record. That is undefined
behaviour, and the model takes the outcome in which the process dies, which also sets
`crashed`.

## Runs

| Run | Expect | Property | What it shows |
|---|---|---|---|
| `sc_pass` | pass | `MatchesReference` | For counts with operand ≥ 1, and base ≥ 2 for `^`, `select_count` returns exactly the reference count, which is 0 or a value in `min..qc`. `CountWithinAvail` follows from it here, so it is checked only where the reference does not apply (`sc_minus`). |
| `sc_minus` | violation | `CountWithinAvail` | Operator `-` is accepted by the parser and not reduced: `select_count` returns `max > qc`. |
| `sc_hang` | violation | `Terminates` | Operand 0, or `^` with `min = 1`, loops forever. |
| `sc_wrap` | violation | `MatchesReference` | `count -= operand` wraps below zero and gives a wrong count or cycles. |
| `dfu_pass` | pass | `CommitSatisfiesRequest`, `AllocationsBacked`, `SubtreeAccounting`, `AllocationIsolation`, `EpochEquivalence`, `NoLeakedSpans`, `AllocatorRefinement` | Three jobs of four request shapes (exclusive node with core, node with a slot of a core, exclusive core, both nodes), allocate or or-else-reserve, at time 0 or 1, on the slot engine. The cluster has a second subsystem, power, which every node walks up with `aux_upv`. Every commit embeds its request. Every recorded span exists, and every span a planner holds is recorded under its job (`NoLeakedSpans`). Every subtree planner equals the sum of its descendants' spans at every time. Exclusive allocations of different jobs never overlap, and every step is a step of `Allocator`. From every reachable state, a select of any jobspec, at either start time, allocating or reserving, gives the same rc, needs, edge decisions and subtree-planner keys on the colors earlier sessions left as on colors reset to white (`EpochEquivalence`, spec §8: bumping the epoch is equivalent to a full color reset). |
| `dfu_legacy_pass` | pass | the same seven | The same jobs on the one-subsystem cluster, through the header's slot-less engine. |
| `dfu_reuse` | violation | `ReuseEquivalence` | The jobs of `dfu_pass`, where a caller may also pass a Jobspec object that already went through one `run()`. `prime(resources)` adds the child counts into `user_data` again (`impl.cpp:742`). node[1] with slot[1] of core[1] then demands 3 cores of each node, and its select fails on the idle cluster right after `initialize()`. The freshly parsed request matches there. |
| `dfu_aux_mask` | violation | `CommitSatisfiesRequest` | The same cluster on the slot engine. `dom_exp` keeps only the last subsystem's explore rc (`impl.cpp:341`), so node1's failed containment explore is masked by its successful power up-walk. node[2] with core[1] each is then committed on node0 and the coreless node1. |
| `dfu_finish_rc` | violation | `CommitSatisfiesRequest` | `dom_dfv` does not take `rc` from a failing `dom_finish_vtx`. The rejected node is added with its sibling's score and count, and is allocated without cores. |
| `dfu_reserve_throw` | violation | `NoCrash` | With no sdau types, an or-else-reserve request that fails first makes `run()` throw `out_of_range` (spec §7: must not crash). |
| `dfu_reserve_excl` | violation | `ExclusiveIsolation` | The reservation retry skips the tag prune. It reserves a node exclusively over another job's allocated core in an overlapping window (spec §4.4 step 2). |
| `dfu_slot_overrun` | violation | `NoCrash` | A slot of 1..3 cores under a node with three cores of size 2. Each core qualifies with count 2, so `dom_slot` counts 6 / 3 = 2 slots. The first slot takes 2 + 2 cores, and the second slot's `iter_cur` runs past the last core (`impl.cpp:378`, undefined behaviour; spec §4.4 step 4 promises that many whole slots). |

Each property of a passing run has a mutant in PROJECT.json: a plausible bug in the
mapped code that TLC catches. The mutants are:

- a `>=` loop condition in the subtraction loop;
- `upd_dfv` ignoring the generation stamp;
- `updcore` recording spans for shared vertices;
- `updcore` not rolling the children's counts up;
- a dropped tag prune;
- `run()` reporting the first attempt's `allocate` flag after a reservation retry;
- `tick()` advancing the match generation but not the color base;
- `updcore` never recording a reservation span.

### Bounds

- **`dfu_pass`, `dfu_legacy_pass`:** a cluster of 2 nodes × 2 cores, unit sizes, and 3 jobs.
  `dfu_pass` adds pdu0 and pdu1 under a power root. Durations are 2, start times are
  {0, 1} and the horizon is 4. So windows overlap, and a failed allocation has later
  feasible times to retry at. Counts are scalar: count forms are checked separately by
  the `sc_*` runs. Each jobspec is a YAML document, with one task and
  `attributes.system.duration`, read by `JobspecParse`. The jobspecs of the heterogeneous
  cluster carry no duration, so `jobmeta_t::build` leaves `SYSTEM_DEFAULT_DURATION`,
  which `DFUTraverseMC` sets to 2.
  - The four shapes make every pair of jobs meet:
    - exclusive node against a core under it;
    - whole cluster against anything;
    - slot against exclusive node.
  - Allocation failures and committed reservations are both reachable.
  - With three jobs, a third request meets the leftovers of two earlier commits,
    for example a retry after an allocation and a reservation.
  - The jobs are symmetric (`Permutations(Jobs)`). Every property is a safety
    property that treats jobs alike, so the symmetry is sound.
  - The runs have 3,782 and 3,646 distinct states. `EpochEquivalence` runs two selects
    for each of 16 requests in every state, so they take about 50 s and 40 s.
- **`dfu_reuse`:** the cluster and jobs of `dfu_pass`, plus each jobspec as the object
  stands after one `run()` (`RanOnce` in `DFUTraverseMC`: `PrimeSpec` applied once).
  That is the state a caller's Jobspec is in after `run()` returns.
- **`dfu_aux_mask`:** the power cluster without core2 and core3.
  node1 keeps only its power edge, and no type is rolled up, so no subtree planner
  prunes node1 for lack of cores. With a rolled-up core count, or without the power
  subsystem, the masking cannot show.
- **`dfu_slot_overrun`:** one node with three cores of size 2, and one job. It is the
  smallest cluster on which candidate counts do not divide the slot's `count.max`.
- **`sc_pass`:** counts `min ∈ {1,2,3}`, `max` up to 17, operands 1..3, and `qc` 0..17.
  These cover reductions that reach, miss and undershoot `min`.
- **`dfu_finish_rc`, `dfu_reserve_throw`:** a heterogeneous cluster (node0 with two
  cores, node1 with one) and no sdau types. With no sdau types the subtree planners do
  not mask the return-code bug, and the root gets no subtree planner.

Deadlock is checked. After every job has run, `Done` stutters; `Done` is also enabled
once `crashed` is set.

## Refinement

`Allocator` states what `run()` promises, with the traversal left out. Its state is:

- `alloc[v]` and `resv[v]`, the jobs holding vertex v;
- `status[j]`, one of none, allocated, reserved or failed;
- `win[j]`, the window of a granted job.

Each job is decided once. `Allocate(j, W)` and `Reserve(j, W)` add j at a non-empty set
of vertices and change no other job's holdings. `Allocate` also requires that no other
job holds an allocation, at a vertex above or below, over an overlapping window. `Fail(j)`
changes no holdings.

`DFUTraverse` maps to it through `Abs`:

- the keys of `allocations` and `reservations`;
- the job's outcome: not run, rc ≠ 0, or `meta.allocate`;
- the window `at..at+duration-1`;
- `Desc` as the containment relation.

`AllocatorRefinement == Abs!ASpec` is checked as a PROPERTY by both passing DFU runs.
`Initialize`, a throwing `run()` and `Done` map to stuttering steps.

## Liveness

There are no liveness properties, and no fairness is assumed. The reasons:

- `initialize()` and `run()` are synchronous calls of one thread, and the engine does
  no work of its own between them. Which jobs are submitted, and when, is the caller's
  choice. Fairness on `Run` would be an assumption about the caller, not about this code.
- Termination of a single call is what can go wrong. That is checked where it can fail:
  - `select_count`'s loops, by `Terminates` in `sc_hang`;
  - the recursive walks, which TLC evaluates completely on every step. A walk that did
    not terminate would stop the run with an evaluation error.

## Not modelled (yet)

- The output trace (`emit_vertex`, `level`).
- The YAML library. `JobspecParse` starts from the parsed node tree.
- `jobmeta_t::build`'s unchecked `find("system")` (`hpp:62`). `Jobspec::Jobspec` accepts
  a document whose `attributes` has no `system` entry (an empty mapping passes), and
  spec §3 says the duration then defaults. The code dereferences `end()` instead, which
  is undefined behaviour with no outcome a model can bound. `jobmeta_duration` `Assert`s
  against it, and every document of `DFUTraverseMC` carries a `system` section. The
  other edges of `build` are modelled and not checked by a property. A non-numeric
  duration reads as 0 through `atoll`. A negative one wraps to nearly 2^64 through the
  `uint64_t` cast. Neither falls back to the default. Both reach the planner, whose
  code is not under `src/`.
- Zero counts and empty slot shapes (`impl.cpp:365`). The parser accepts a scalar
  `count: 0`, and `dom_slot` then divides by it. The model records that as undefined
  behaviour, like the cursor overrun. A one-job run of node[1] with slot[1] of core[0]
  violates `NoCrash`, but no kept run uses that jobspec. An empty slot shape stays an
  `Assert`: it would loop over `UINT_MAX` empty slots.
- A second `initialize()` (`impl.cpp:723`). Every run has `MaxInitialize = 1`: the spec
  describes priming as one-time. With `MaxInitialize = 2`, TLC finds `SubtreeAccounting`
  violated. The re-prime drops the subtree spans of committed jobs. `initialize()` also
  primes without `tick()`, at the base the last `run()` left, so vertices that `run()`
  painted black are skipped. In TLC's trace the root's subtree planner is rebuilt from
  node1 alone.
- A reused job id. `run()` never checks that `jobid` is new, and `updcore` overwrites
  `allocations`, `reservations` and `job2span[jobid]` with `operator[]`. The model's `Run`
  takes only ids not yet run, which is the caller's obligation. With that guard dropped,
  TLC finds `NoLeakedSpans` violated at the second `run()` of an id.
- Completeness: that a request the planners can fit is matched. Tags are time-agnostic
  (`impl.cpp:556`), and a prime that fails with `ERANGE` (`impl.cpp:718`) leaves the root
  without a subtree planner. Both make `run()` fail requests that would fit. Stating
  this needs a feasibility oracle over embeddings, which the current bounds cannot
  afford. A probe with `PlannerNumTypes = 1` on the two-type cluster found
  `NoCrash` and the safety properties intact on this path (546 states).

The `avail == 0` returns of the `.cpp`'s `dom_dfv` and `aux_upv` are unreachable:
`prune` checks the vertex's own planner first. They have no hazard. The legacy engine's
prune is gated on a type match, so its `avail == 0` path (`hpp:592`) is reachable. It is
covered by `dfu_legacy_pass`. The legacy engine on the service-node cluster of
`dfu_aux_mask` (three allocate-only jobs, 450 states) keeps `CommitSatisfiesRequest`,
`AllocationsBacked` and `AllocationIsolation`: its `dom_dfv` returns `dom_finish_vtx`'s
rc. That configuration is not one of the kept runs.

## Further work

1. **Completeness.** A property that a request feasible in the planners is matched, over
   a small enough cluster for a feasibility oracle.
