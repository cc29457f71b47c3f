------------------------------ MODULE Routing ------------------------------
(***************************************************************************)
(* The routes of an application description. Its ctrl_path entries, pairs  *)
(* of a match and an action, are read twice: by PipelineRouting, into the  *)
(* edge rules of the whole graph, and block by block by                    *)
(* __init_retval_mappings, into the channels of kernel return values that  *)
(* ComponentRouting keeps.                                                 *)
(*                                                                         *)
(* The text of an entry is given by its parts: a match by its field, its   *)
(* operator and its value, an action by its verb, its target and, if one   *)
(* is named, its channel. A value is a number or not one; std::stoi and    *)
(* std::stoul, which read it, throw for a number that is out of their      *)
(* range, and both callers catch that and go on.                           *)
(***************************************************************************)
EXTENDS Integers, Sequences, SequencesExt, FiniteSetsExt

CONSTANTS
  IntMax,     \* the largest int (2^31 - 1)
  UlongMax    \* the largest unsigned long (2^64 - 1)

ASSUME WidthAssumption ==
  /\ IntMax \in Nat
  /\ UlongMax \in Nat
  /\ IntMax < UlongMax

Operators == {"=", "!=", ">", "<", ">=", "<=", "none"}

CtrlEntry ==
  [match : [field : STRING, op : Operators, value : [number : BOOLEAN, is : Int]],
   action : [verb : STRING, target : STRING, channel : STRING]]

\* nicc_core_retval_t is 8 bits wide.
Retvals == 0 .. 255
Narrow(n) == n % 256

\* What std::stoi can return, and what std::stoul can: it negates the number
\* that follows a minus sign, as an unsigned long. (256 divides 2^64, so that
\* nothing is left of that once the result is narrowed.)
IsInt(value) == value.number /\ -IntMax - 1 <= value.is /\ value.is <= IntMax
IsUlong(value) == value.number /\ -UlongMax <= value.is /\ value.is <= UlongMax

----------------------------------------------------------------------------
(* AppDAG: dp_graph is a list of items, a later one of the same component  *)
(* replaces the earlier one.                                               *)

Items(graph, name) == {i \in DOMAIN graph : graph[i].component = name}

CtrlEntries(graph, name) ==
  IF Items(graph, name) = {} THEN <<>> ELSE graph[Max(Items(graph, name))].entries

----------------------------------------------------------------------------
(* A plausible slip, a variant of the operator it is named after.          *)

\* The longer operators are recognised, and lose their second sign.
Bug_ParseMatchCondition(match) ==
  [field |-> match.field,
   operator_type |-> IF match.op \in {">=", "<="} THEN "=" ELSE match.op,
   value |-> match.value]

----------------------------------------------------------------------------
(* PipelineRouting::load_from_app_dag.                                     *)

\* __parse_match_condition looks for "!=" first, then for "=" anywhere: of
\* ">=" and "<=" the first sign is left in the field.
ParseMatchCondition(match) ==
  [field |-> IF match.op \in {">=", "<="} THEN "garbled" ELSE match.field,
   operator_type |-> CASE match.op \in {"=", ">=", "<="} -> "="
                       [] match.op = "none" -> "exists"
                       [] OTHER -> match.op,
   value |-> match.value]

\* __parse_action_spec: a verb alone has neither target nor channel.
ParseActionSpec(action) ==
  [action_type |-> action.verb,
   target |-> action.target,
   channel_name |-> IF action.target # "" /\ action.channel = "" THEN "default"
                    ELSE action.channel]

\* __component_name_to_type.
ComponentNameToType(name) ==
  CASE name = "dpa" -> "DPA"
    [] name \in {"flow_engine", "root"} -> "FlowEngine"
    [] OTHER -> "SoC"

\* __extract_retval_from_conditions: 0 where there is no number to be found.
Numeric(condition) ==
  condition.field = "retval" /\ condition.operator_type = "=" /\ IsUlong(condition.value)

ExtractRetval(condition) == IF Numeric(condition) THEN Narrow(condition.value.is) ELSE 0

DAGEdgeRule(name, entry) ==
  [source |-> name,
   source_component |-> ComponentNameToType(name),
   condition |-> ParseMatchCondition(entry.match),
   kernel_retval |-> ExtractRetval(ParseMatchCondition(entry.match)),
   action |-> ParseActionSpec(entry.action)]

\* The names it knows are looked up one after the other.
KnownNames == {"root", "soc", "dpa", "flow_engine", "decompress", "sha"}

RulesOf(graph, name) ==
  LET entries == CtrlEntries(graph, name)
  IN [i \in DOMAIN entries |-> DAGEdgeRule(name, entries[i])]

LoadFromAppDag(graph) ==
  RulesOf(graph, "root") \o RulesOf(graph, "soc") \o RulesOf(graph, "dpa")
    \o RulesOf(graph, "flow_engine") \o RulesOf(graph, "decompress") \o RulesOf(graph, "sha")

----------------------------------------------------------------------------
(* ComponentRouting of one block.                                          *)

\* __init_retval_mappings: only "retval=" counts, a value that is not an int is
\* passed over, and whatever the action, the channel is the local one named
\* "default". A mapping that is there already is replaced.
Mapping(graph, name, channel) ==
  LET entries == CtrlEntries(graph, name)
      counted == {i \in DOMAIN entries :
                    LET match == entries[i].match
                    IN match.field = "retval" /\ match.op = "=" /\ IsInt(match.value)}
  IN [r \in {Narrow(entries[i].match.value.is) : i \in counted} |-> channel]

\* register_local_channels registers the channel of the block under the name
\* "default" and makes it the one for unmapped return values.
Registered(graph, name, channel) ==
  [map |-> Mapping(graph, name, channel), default |-> channel]

\* lookup_channel; 0 is the null pointer.
LookupChannel(router, retval) ==
  IF retval \in DOMAIN router.map THEN router.map[retval] ELSE router.default

NoRoutes == [map |-> [r \in {} |-> 0], default |-> 0]

=============================================================================
