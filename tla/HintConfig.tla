----------------------------- MODULE HintConfig -----------------------------
(***************************************************************************)
(* The libperfmgr configuration loader: HintManager::GetFromJSON,         *)
(* ParseNodes and ParseActions (HintManager.cc).  A JSON document is      *)
(* abstracted to what jsoncpp hands the parser: whether the file could be *)
(* read and parsed, and the Nodes and Actions arrays, each element a      *)
(* record of its members.  A member that is absent, or not of the JSON    *)
(* type the parser asks for (isUInt64, isBool), is None; asString() of an *)
(* absent member is "".                                                    *)
(*                                                                         *)
(* The loader is the pure function GetFromJSON; the specification is the  *)
(* service start-up that calls it once on the config file.               *)
(***************************************************************************)
EXTENDS Integers, Sequences, SequencesExt, Functions

CONSTANTS
  None,       \* an absent member, or one of the wrong JSON type
  Documents   \* the config files the service may start with

NodeTypes == {"", "File", "Property"}
HintActionTypes == {"DoHint", "EndHint", "MaskHint"}

\* Node::GetValueIndex (Node.cc is not in this repository): the index of
\* the first declared value equal to the string, or none.
ValueIndex(values, v) == SelectInSeq(values, LAMBDA x : x = v) - 1

-----------------------------------------------------------------------------
(* ParseNodes: every Node[i] in order; any failure clears nodes_parsed and *)
(* returns it empty.                                                       *)

\* Fault: DefaultIndex compared with the number of values, not the last index.
NodeRejectedOffByOne(js, i) ==
  LET j == js[i]
      earlier == {js[k] : k \in 1 .. i - 1}
  IN \/ j.Name = "" \/ j.Name \in {e.Name : e \in earlier}
     \/ j.Path = "" \/ j.Path \in {e.Path : e \in earlier}
     \/ j.Type \notin NodeTypes \/ ~IsInjective(j.Values)
     \/ j.Type # "Property" /\ "" \in Range(j.Values)
     \/ Len(j.Values) < 1
     \/ j.DefaultIndex # None /\ j.DefaultIndex > Len(j.Values)

\* The checks of Node[i], in the order of the early returns: Name empty or
\* already parsed, Path empty or already parsed, an unknown Type, a Value
\* repeated or (File node) empty, no Values, DefaultIndex out of bound.
NodeRejected(js, i) ==
  LET j == js[i]
      earlier == {js[k] : k \in 1 .. i - 1}
  IN \/ j.Name = ""
     \/ j.Name \in {e.Name : e \in earlier}
     \/ j.Path = ""
     \/ j.Path \in {e.Path : e \in earlier}
     \/ j.Type \notin NodeTypes
     \/ ~IsInjective(j.Values)
     \/ j.Type # "Property" /\ "" \in Range(j.Values)
     \/ Len(j.Values) < 1
     \/ j.DefaultIndex # None /\ j.DefaultIndex > Len(j.Values) - 1

\* The FileNode or PropertyNode made from a Node[i] that passed: a missing
\* DefaultIndex is the last index, a missing ResetOnInit or HoldFd false,
\* and only a FileNode holds its fd.
MakeNode(j) ==
  [name    |-> j.Name,
   path    |-> j.Path,
   isFile  |-> j.Type # "Property",
   values  |-> j.Values,
   default |-> IF j.DefaultIndex = None THEN Len(j.Values) - 1 ELSE j.DefaultIndex,
   reset   |-> j.ResetOnInit = TRUE,
   holdFd  |-> j.Type # "Property" /\ j.HoldFd = TRUE]

RECURSIVE NodesLoop(_, _, _)
NodesLoop(js, i, parsed) ==
  IF i > Len(js) THEN parsed
  ELSE IF NodeRejected(js, i) THEN <<>>
  ELSE NodesLoop(js, i + 1, Append(parsed, MakeNode(js[i])))

ParseNodes(doc) == IF doc.json THEN NodesLoop(doc.Nodes, 1, <<>>) ELSE <<>>

-----------------------------------------------------------------------------
(* ParseActions: every Action[i] in order, grouped by PowerHint into       *)
(* actions_parsed; any failure clears it and returns it empty.             *)

\* actions_parsed[hint_type], default-constructed when absent.
Entry(m, h) ==
  IF h \in DOMAIN m THEN m[h] ELSE [node_actions |-> <<>>, hint_actions |-> <<>>]

\* An earlier node action of the same hint already drives the node.
DupNode(na, idx) == \E k \in DOMAIN na : na[k].node = idx

\* A Node action (no Type): the Node must be in the Nodes section, the
\* Value one of its values, Duration a UInt64, and no other node action of
\* the hint may use the node.  The result is {actions_parsed} with the
\* action added, or {} when the parse fails.
NodeAction(nodes, m, a) ==
  LET ni == SelectInSeq(nodes, LAMBDA n : n.name = a.Node)
      vi == IF ni = 0 THEN -1 ELSE ValueIndex(nodes[ni].values, a.Value)
      e  == Entry(m, a.PowerHint)
  IN IF ni = 0 \/ vi < 0 \/ a.Duration = None \/ DupNode(e.node_actions, ni - 1)
     THEN {}
     ELSE {a.PowerHint :> [e EXCEPT !.node_actions =
                             Append(@, [node |-> ni - 1, value |-> vi,
                                        timeout |-> a.Duration])] @@ m}

\* A DoHint, EndHint or MaskHint action: its Value names the other hint.
HintAction(m, a) ==
  IF a.Value = "" THEN {}
  ELSE LET e == Entry(m, a.PowerHint)
       IN {a.PowerHint :> [e EXCEPT !.hint_actions =
                             Append(@, [type |-> a.Type, value |-> a.Value])] @@ m}

ParseAction(nodes, m, a) ==
  IF a.PowerHint = "" \/ a.Type \notin {""} \cup HintActionTypes THEN {}
  ELSE IF a.Type = "" THEN NodeAction(nodes, m, a)
  ELSE HintAction(m, a)

RECURSIVE ActionsLoop(_, _, _, _)
ActionsLoop(nodes, as, i, parsed) ==
  IF i > Len(as) THEN parsed
  ELSE LET r == ParseAction(nodes, parsed, as[i]) IN
       IF r = {} THEN <<>> ELSE ActionsLoop(nodes, as, i + 1, CHOOSE x \in r : TRUE)

ParseActions(doc, nodes) ==
  IF doc.json THEN ActionsLoop(nodes, doc.Actions, 1, <<>>) ELSE <<>>

-----------------------------------------------------------------------------
(* GetFromJSON: nullptr (NoManager) when the file cannot be read, when no  *)
(* node or no action was parsed; otherwise a HintManager over the parsed  *)
(* nodes and hints.  InitHintStatus succeeds for a non-null manager.      *)

NoManager == [loaded |-> FALSE]

GetFromJSON(doc) ==
  IF ~doc.read THEN NoManager
  ELSE LET nodes == ParseNodes(doc) IN
       IF nodes = <<>> THEN NoManager
       ELSE LET actions == ParseActions(doc, nodes) IN
            IF DOMAIN actions = {} THEN NoManager
            ELSE [loaded |-> TRUE, nodes |-> nodes, actions |-> actions]

VARIABLES
  config,   \* the config file the service starts with
  done,     \* GetFromJSON has returned
  hm,       \* its result
  running   \* NodeLooperThread started (GetFromJSON(path, start))

vars == <<config, done, hm, running>>

Init == config \in Documents /\ done = FALSE /\ hm = NoManager /\ running = FALSE

\* GetFromJSON(config_path, start): hm->Start() when start is set.
Load ==
  /\ ~done
  /\ done' = TRUE
  /\ hm' = GetFromJSON(config)
  /\ \E start \in BOOLEAN : running' = (start /\ hm'.loaded)
  /\ UNCHANGED config

Next == Load

Spec == Init /\ [][Next]_vars

-----------------------------------------------------------------------------
(* The loader's contract, from spec.md section 6 and the config format:    *)
(* a configuration is accepted exactly when every node and action is       *)
(* well formed, and it is then loaded whole.                               *)

NodeWellFormed(j) ==
  /\ j.Name # "" /\ j.Path # ""
  /\ j.Type \in NodeTypes
  /\ Len(j.Values) >= 1 /\ IsInjective(j.Values)
  /\ j.Type # "Property" => "" \notin Range(j.Values)
  /\ j.DefaultIndex \in {None} \cup (0 .. Len(j.Values) - 1)

NodesWellFormed(js) ==
  /\ js # <<>>
  /\ \A i \in DOMAIN js : NodeWellFormed(js[i])
  /\ IsInjective([i \in DOMAIN js |-> js[i].Name])
  /\ IsInjective([i \in DOMAIN js |-> js[i].Path])

IsNodeAction(a) == a.Type = ""

ActionWellFormed(js, a) ==
  /\ a.PowerHint # ""
  /\ a.Type \in {""} \cup HintActionTypes
  /\ IsNodeAction(a) =>
       /\ \E k \in DOMAIN js : js[k].Name = a.Node /\ a.Value \in Range(js[k].Values)
       /\ a.Duration # None
  /\ ~IsNodeAction(a) => a.Value # ""

ActionsWellFormed(js, as) ==
  /\ as # <<>>
  /\ \A i \in DOMAIN as : ActionWellFormed(js, as[i])
  /\ \A i, k \in DOMAIN as :
       /\ i < k /\ IsNodeAction(as[i]) /\ IsNodeAction(as[k])
       /\ as[i].PowerHint = as[k].PowerHint
       => as[i].Node # as[k].Node

WellFormed(doc) ==
  doc.read /\ doc.json /\ NodesWellFormed(doc.Nodes)
  /\ ActionsWellFormed(doc.Nodes, doc.Actions)

\* The node table: DefaultIndex, else the last index.
RefNodes(js) ==
  [i \in DOMAIN js |->
     [name |-> js[i].Name, path |-> js[i].Path, isFile |-> js[i].Type # "Property",
      values |-> js[i].Values,
      default |-> IF js[i].DefaultIndex = None THEN Len(js[i].Values) - 1
                  ELSE js[i].DefaultIndex,
      reset |-> js[i].ResetOnInit = TRUE,
      holdFd |-> js[i].Type # "Property" /\ js[i].HoldFd = TRUE]]

\* The hint table: each PowerHint's node and hint actions in file order,
\* node and value names resolved to indices.
RefHints(js, as) ==
  LET Of(h, P(_)) == SelectSeq(as, LAMBDA a : a.PowerHint = h /\ P(a))
      Idx(s, x) == (CHOOSE k \in DOMAIN s : s[k] = x) - 1
      NodeIdx(a) == (CHOOSE k \in DOMAIN js : js[k].Name = a.Node)
  IN [h \in {as[i].PowerHint : i \in DOMAIN as} |->
        [node_actions |->
           [k \in DOMAIN Of(h, IsNodeAction) |->
              LET a == Of(h, IsNodeAction)[k] IN
              [node |-> NodeIdx(a) - 1, value |-> Idx(js[NodeIdx(a)].Values, a.Value),
               timeout |-> a.Duration]],
         hint_actions |->
           [k \in DOMAIN Of(h, LAMBDA a : ~IsNodeAction(a)) |->
              LET a == Of(h, LAMBDA b : ~IsNodeAction(b))[k] IN
              [type |-> a.Type, value |-> a.Value]]]]

\* GetFromJSON is all or nothing: it returns a HintManager exactly for a
\* well-formed configuration, with the node and hint tables it describes,
\* and nullptr for any other; a parse that fails part way through
\* ParseNodes or ParseActions leaves nothing behind.
ConfigMatchesContract ==
  done =>
    IF WellFormed(config)
    THEN hm = [loaded |-> TRUE, nodes |-> RefNodes(config.Nodes),
               actions |-> RefHints(config.Nodes, config.Actions)]
    ELSE hm = NoManager

=============================================================================
