---------------------------- MODULE JobspecParse ----------------------------
(***************************************************************************)
(* The jobspec reader of src/jobspec.cpp (the Resource, Task and Jobspec   *)
(* constructors over a YAML document) and jobmeta_t::build of             *)
(* src/dfu_traverse.hpp, which takes a job's duration from its            *)
(* attributes.  Every error path of the code throws out of the            *)
(* constructor; the model returns Rejected for all of them alike.  The    *)
(* strings the matcher never reads (unit, label, id, command, slot,      *)
(* distribution) are checked for shape and then dropped.                  *)
(***************************************************************************)
EXTENDS SelectCount, FiniteSets, Sequences, TLC

CONSTANT DefaultDuration    \* SYSTEM_DEFAULT_DURATION

(* A YAML node: a scalar, a mapping (a function from its keys) or a sequence. *)
YScalar(v) == [kind |-> "scalar", val |-> v]
YMap(f)    == [kind |-> "map", map |-> f]
YSeq(s)    == [kind |-> "seq", seq |-> s]

Rejected == [ok |-> FALSE]
Accepted(v) == [ok |-> TRUE, val |-> v]

IsScalar(n) == n.kind = "scalar"
IsMap(n)    == n.kind = "map"
Keys(n)     == DOMAIN n.map

\* A mapping whose values all read as<string>(), i.e. are scalars.
ScalarMap(n) == IsMap(n) /\ \A k \in Keys(n) : IsScalar(n.map[k])

\* as<unsigned>() / as<int>(): a scalar holding a number of that range.
AsUnsigned(n) == IsScalar(n) /\ n.val \in Nat
AsInt(n)      == IsScalar(n) /\ n.val \in Int

\* Resource::parse_yaml_count: a scalar n is [n, n, '+', 1]; the mapping
\* form needs min, max, operator and operand and passes ParsedCount.
ParseCount(cn) ==
  LET f == cn.map
      c == [min |-> f["min"].val, max |-> f["max"].val,
            oper |-> f["operator"].val, operand |-> f["operand"].val]
  IN IF AsUnsigned(cn) THEN Accepted(ScalarCount(cn.val))
     ELSE IF /\ IsMap(cn)
             /\ {"min", "max", "operator", "operand"} \subseteq Keys(cn)
             /\ AsUnsigned(f["min"]) /\ AsUnsigned(f["max"])
             /\ IsScalar(f["operator"]) /\ AsInt(f["operand"])
             /\ ParsedCount(c)
          THEN Accepted(c) ELSE Rejected

ResourceKeys == {"type", "count", "unit", "exclusive", "with", "label", "id"}

\* The string-valued optional keys: as<string>() needs a scalar.
StringKeys == {"unit", "label", "id", "exclusive"}

RECURSIVE ParseResources(_), ParseResourceList(_, _)

(***************************************************************************)
(* Resource::Resource: a mapping of 2..10 entries with type and count,     *)
(* whose keys are all known (field_count = size()); exclusive only when   *)
(* the string is exactly "true"; with parsed recursively.                 *)
(***************************************************************************)
ParseResource(n) ==
  LET f == n.map
      c == ParseCount(f["count"])
      w == IF "with" \in Keys(n) THEN ParseResources(f["with"]) ELSE Accepted(<<>>)
  IN IF /\ IsMap(n)
        /\ Cardinality(Keys(n)) \in 2..10
        /\ {"type", "count"} \subseteq Keys(n)
        /\ IsScalar(f["type"])
        /\ c.ok
        /\ \A k \in StringKeys \cap Keys(n) : IsScalar(f[k])
        /\ w.ok
        /\ Keys(n) \subseteq ResourceKeys
     THEN Accepted([type |-> f["type"].val, count |-> c.val,
                    exclusive |-> "exclusive" \in Keys(n) /\ f["exclusive"].val = "true",
                    with |-> w.val, user_data |-> <<>>])
     ELSE Rejected

\* parse_yaml_resources: a sequence, each element a Resource, in order.
ParseResourceList(s, acc) ==
  IF s = <<>> THEN Accepted(acc)
  ELSE LET r == ParseResource(Head(s))
       IN IF r.ok THEN ParseResourceList(Tail(s), Append(acc, r.val)) ELSE Rejected

ParseResources(n) ==
  IF n.kind = "seq" THEN ParseResourceList(n.seq, <<>>) ELSE Rejected

(***************************************************************************)
(* Task::Task: a mapping of 3..5 entries with command and a one-entry slot *)
(* mapping; count and attributes mappings of strings, distribution a     *)
(* string.  Unknown keys are not checked.  The count loop              *)
(* assigns into the local YAML node it iterates, which shadows the member,*)
(* so a task's count map always stays empty.                               *)
(***************************************************************************)
ParseTask(n) ==
  LET f == n.map
  IN IF /\ IsMap(n)
        /\ Cardinality(Keys(n)) \in 3..5
        /\ {"command", "slot"} \subseteq Keys(n)
        /\ IsScalar(f["command"])
        /\ ScalarMap(f["slot"]) /\ Cardinality(Keys(f["slot"])) = 1
        /\ \A k \in {"count", "attributes"} \cap Keys(n) : ScalarMap(f[k])
        /\ "distribution" \in Keys(n) => IsScalar(f["distribution"])
     THEN Accepted([count |-> <<>>,
                    attributes |-> IF "attributes" \in Keys(n)
                                   THEN [a \in Keys(f["attributes"]) |-> f["attributes"].map[a].val]
                                   ELSE <<>>])
     ELSE Rejected

\* parse_yaml_tasks: a sequence of tasks.
ParseTasks(n) ==
  IF n.kind = "seq" /\ \A i \in DOMAIN n.seq : ParseTask(n.seq[i]).ok
  THEN Accepted([i \in DOMAIN n.seq |-> ParseTask(n.seq[i]).val])
  ELSE Rejected

(***************************************************************************)
(* Jobspec::Jobspec: exactly version, resources, tasks and attributes;     *)
(* version an unsigned scalar; attributes a mapping of string mappings,   *)
(* read first; then resources, then tasks.                                 *)
(***************************************************************************)
ParseJobspec(top) ==
  LET f  == top.map
      at == f["attributes"]
      rs == ParseResources(f["resources"])
      ts == ParseTasks(f["tasks"])
  IN IF /\ IsMap(top)
        /\ Keys(top) = {"version", "resources", "tasks", "attributes"}
        /\ AsUnsigned(f["version"])
        /\ IsMap(at)
        /\ \A a \in Keys(at) : ScalarMap(at.map[a])
        /\ rs.ok /\ ts.ok
     THEN Accepted([resources |-> rs.val, tasks |-> ts.val,
                    attributes |-> [a \in Keys(at) |->
                                      [k \in Keys(at.map[a]) |-> at.map[a].map[k].val]]])
     ELSE Rejected

\* std::atoll on an attribute string: the number it spells, else 0.  A
\* string with a numeric prefix ("12h") is not among the model's values.
atoll(s) == IF s \in Int THEN s ELSE 0

\* The (uint64_t) cast of a long long.
AsUInt64(n) == IF n >= 0 THEN n ELSE n + 2^64

(***************************************************************************)
(* jobmeta_t::build: the duration is attributes.system.duration when it is *)
(* there (a non-number reads as 0, a negative one wraps), else the        *)
(* default.  find("system") is dereferenced without a check against       *)
(* end(): a jobspec with no system attributes is undefined behaviour,     *)
(* which Assert keeps the model out of.                                    *)
(***************************************************************************)
jobmeta_duration(attrs) ==
  IF /\ Assert("system" \in DOMAIN attrs, "jobmeta_t::build: no system attributes")
     /\ "duration" \in DOMAIN attrs["system"]
  THEN AsUInt64(atoll(attrs["system"]["duration"]))
  ELSE DefaultDuration

=============================================================================
