---------------------------- MODULE DFUTraverseMC ----------------------------
(***************************************************************************)
(* A cluster of two nodes with two cores each, in the containment         *)
(* subsystem, and the jobspecs callers submit against it.                  *)
(***************************************************************************)
EXTENDS DFUTraverse, TLC

MCVertices == {"cluster0", "node0", "node1", "core0", "core1", "core2", "core3"}

MCVType ==
  [v \in MCVertices |->
     CASE v = "cluster0" -> "cluster"
       [] v \in {"node0", "node1"} -> "node"
       [] OTHER -> "core"]

MCVSize == [v \in MCVertices |-> 1]

MCOutEdges ==
  [v \in MCVertices |->
     CASE v = "cluster0" -> <<<<"cluster0", "node0">>, <<"cluster0", "node1">>>>
       [] v = "node0"    -> <<<<"node0", "core0">>, <<"node0", "core1">>>>
       [] v = "node1"    -> <<<<"node1", "core2">>, <<"node1", "core3">>>>
       [] OTHER          -> <<>>]

MCMember == [e \in Edges |-> {"containment"}]

MCSubsystems == <<"containment">>

MCRoots == [s \in {"containment"} |-> "cluster0"]

MCSdau == [s \in {"containment"} |-> {"node", "core"}]

\* The jobspec reader, with SYSTEM_DEFAULT_DURATION at 2 time units.
JP == INSTANCE JobspecParse WITH DefaultDuration <- 2

\* A resource entry of a YAML jobspec: type, count, "exclusive: true" when
\* x, and the "with" list w of resource entries when there is one.
ReqNode(t, cn, x, w) ==
  JP!YMap(("type" :> JP!YScalar(t)) @@ ("count" :> cn)
          @@ (IF x THEN "exclusive" :> JP!YScalar("true") ELSE <<>>)
          @@ (IF w = <<>> THEN <<>> ELSE "with" :> JP!YSeq(w)))

\* The same with a scalar count n.
Req(t, n, x, w) == ReqNode(t, JP!YScalar(n), x, w)

\* One task of one slot, and the system attributes: a duration of d, or
\* none at all.
AppTask ==
  JP!YMap(("command" :> JP!YScalar("app")) @@ ("slot" :> JP!YMap("default" :> JP!YScalar("task")))
          @@ ("count" :> JP!YMap("per_slot" :> JP!YScalar(1))))

Lasting(d) == JP!YMap("duration" :> JP!YScalar(d))

NoDuration == JP!YMap(<<>>)

(***************************************************************************)
(* A jobspec document with resources res and system attributes sys, read *)
(* by Jobspec::Jobspec, with its duration taken by jobmeta_t::build: what  *)
(* run() is handed.  The documents here are well formed; Assert stops TLC *)
(* on one the reader rejects.                                              *)
(***************************************************************************)
Job(res, sys) ==
  LET doc == JP!YMap(("version" :> JP!YScalar(1)) @@ ("resources" :> JP!YSeq(res))
                     @@ ("tasks" :> JP!YSeq(<<AppTask>>))
                     @@ ("attributes" :> JP!YMap("system" :> sys)))
      p   == JP!ParseJobspec(doc)
  IN IF Assert(p.ok, <<"jobspec rejected", res>>)
     THEN [resources |-> p.val.resources, duration |-> JP!jobmeta_duration(p.val.attributes)]
     ELSE {}

\* node[1] exclusive with core[1].
NodeWithCore == <<Req("node", 1, TRUE, <<Req("core", 1, FALSE, <<>>)>>)>>

\* node[1] with slot[1] of core[1].
SlotOfCore == <<Req("node", 1, FALSE, <<Req("slot", 1, FALSE, <<Req("core", 1, FALSE, <<>>)>>)>>)>>

\* node[2] exclusive with core[1] each.
BothNodes == <<Req("node", 2, TRUE, <<Req("core", 1, FALSE, <<>>)>>)>>

\* core[1] exclusive, at whatever node.
OneCore == <<Req("core", 1, TRUE, <<>>)>>

MCJobspecs == {Job(r, Lasting(2)) : r \in {NodeWithCore, SlotOfCore, OneCore, BothNodes}}

MCStartTimes == {0, 1}

\* The same Jobspec objects after one run() of each: priming has already
\* added the child counts into their user_data.
RanOnce(js) == [js EXCEPT !.resources = PrimeSpec(@, <<>>).res]

ReusedJobspecs == MCJobspecs \cup {RanOnce(js) : js \in MCJobspecs}

MCSymmetry == Permutations(Jobs)

-----------------------------------------------------------------------------
(***************************************************************************)
(* A heterogeneous cluster: node0 has two cores, node1 one, and the policy *)
(* rolls nothing up (no sdau types), so no subtree planner prunes a node   *)
(* for lack of cores and the root has no subtree planner.                  *)
(***************************************************************************)
HetVertices == {"cluster0", "node0", "node1", "core0", "core1", "core2"}

HetVType ==
  [v \in HetVertices |->
     CASE v = "cluster0" -> "cluster"
       [] v \in {"node0", "node1"} -> "node"
       [] OTHER -> "core"]

HetVSize == [v \in HetVertices |-> 1]

HetOutEdges ==
  [v \in HetVertices |->
     CASE v = "cluster0" -> <<<<"cluster0", "node0">>, <<"cluster0", "node1">>>>
       [] v = "node0"    -> <<<<"node0", "core0">>, <<"node0", "core1">>>>
       [] v = "node1"    -> <<<<"node1", "core2">>>>
       [] OTHER          -> <<>>]

HetSdau == [s \in {"containment"} |-> {}]

\* node[2] exclusive with core[2] each, and node[3]: more than the cluster has.
NodesTwoCores == <<Req("node", 2, TRUE, <<Req("core", 2, FALSE, <<>>)>>)>>

ThreeNodes == <<Req("node", 3, FALSE, <<>>)>>

\* These carry no duration, so they last SYSTEM_DEFAULT_DURATION.
HetJobspecs == {Job(r, NoDuration) : r \in {NodesTwoCores, NodeWithCore, ThreeNodes}}

AllocateOnly == {"MATCH_ALLOCATE"}

-----------------------------------------------------------------------------
(***************************************************************************)
(* The 2-node 4-core cluster with a second, auxiliary subsystem: node0   *)
(* and node1 have a "power" edge up to pdu0 and pdu1, which both feed    *)
(* pwr0, the root of the power subsystem.  add_subsystem order puts      *)
(* containment first, so it is dominant.                                  *)
(***************************************************************************)
AuxVertices == MCVertices \cup {"pdu0", "pdu1", "pwr0"}

AuxVType ==
  [v \in AuxVertices |->
     CASE v \in {"pdu0", "pdu1"} -> "pdu"
       [] v = "pwr0" -> "power"
       [] OTHER -> MCVType[v]]

AuxVSize == [v \in AuxVertices |-> 1]

AuxOutEdges ==
  [v \in AuxVertices |->
     CASE v = "node0" -> MCOutEdges[v] \o <<<<"node0", "pdu0">>>>
       [] v = "node1" -> MCOutEdges[v] \o <<<<"node1", "pdu1">>>>
       [] v \in {"pdu0", "pdu1"} -> <<<<v, "pwr0">>>>
       [] v = "pwr0" -> <<>>
       [] OTHER -> MCOutEdges[v]]

AuxMember ==
  [e \in Edges |-> IF AuxVType[Target(e)] \in {"pdu", "power"} THEN {"power"} ELSE {"containment"}]

AuxSubsystems == <<"containment", "power">>

AuxRoots == [s \in {"containment", "power"} |-> IF s = "power" THEN "pwr0" ELSE "cluster0"]

AuxSdau == [s \in {"containment", "power"} |-> IF s = "power" THEN {} ELSE {"node", "core"}]

\* The same, but node1 is a service node without cores, and nothing is
\* rolled up, so no subtree planner prunes node1 for lack of cores.
SvcVertices == AuxVertices \ {"core2", "core3"}

SvcOutEdges ==
  [v \in SvcVertices |-> IF v = "node1" THEN <<<<"node1", "pdu1">>>> ELSE AuxOutEdges[v]]

SvcSdau == [s \in {"containment", "power"} |-> {}]

-----------------------------------------------------------------------------
(***************************************************************************)
(* A pool cluster: one node with three cores of size 2, nothing rolled    *)
(* up, and a slot whose core count is the verbose range 1..3 the parser  *)
(* accepts.  Each core qualifies with count 2, so dom_slot counts         *)
(* qual_num_slots = 6 \div 3 = 2 and the first slot takes 2 + 2 cores.    *)
(***************************************************************************)
PoolVertices == {"cluster0", "node0", "core0", "core1", "core2"}

PoolVType == [v \in PoolVertices |-> IF v \in {"cluster0", "node0"} THEN MCVType[v] ELSE "core"]

PoolVSize == [v \in PoolVertices |-> IF PoolVType[v] = "core" THEN 2 ELSE 1]

PoolOutEdges ==
  [v \in PoolVertices |->
     CASE v = "cluster0" -> <<<<"cluster0", "node0">>>>
       [] v = "node0"    -> <<<<"node0", "core0">>, <<"node0", "core1">>, <<"node0", "core2">>>>
       [] OTHER          -> <<>>]

PoolSdau == [s \in {"containment"} |-> {}]

\* node[1] with slot[1] of core{min 1, max 3, '+', 1}.
SlotOfCoreRange ==
  <<Req("node", 1, FALSE,
        <<Req("slot", 1, FALSE,
              <<ReqNode("core", JP!YMap(("min" :> JP!YScalar(1)) @@ ("max" :> JP!YScalar(3))
                                        @@ ("operator" :> JP!YScalar("+"))
                                        @@ ("operand" :> JP!YScalar(1))),
                        FALSE, <<>>)>>)>>)>>

PoolJobspecs == {Job(SlotOfCoreRange, Lasting(2))}

=============================================================================
