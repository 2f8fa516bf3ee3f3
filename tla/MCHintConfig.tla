---------------------------- MODULE MCHintConfig ----------------------------
(***************************************************************************)
(* Config files for the loader: up to two nodes, each an identity (Name,  *)
(* Path) and a body (Type, Values, DefaultIndex, ResetOnInit, HoldFd),    *)
(* and up to two actions.  Every node list is tried with one MaskHint     *)
(* action, and every action list with every well-formed node list, so     *)
(* each early return of ParseNodes and ParseActions is reached at either  *)
(* position, after a node or action that parsed.                          *)
(***************************************************************************)
EXTENDS HintConfig

\* (Name, Path): two distinct nodes, a repeated name, a repeated path,
\* an empty name, an empty path.
Ids == {<<"n0", "p0">>, <<"n1", "p1">>, <<"n0", "p1">>, <<"", "p1">>, <<"n1", "">>}

Body(t, vs, d, r, f) ==
  [Type |-> t, Values |-> vs, DefaultIndex |-> d, ResetOnInit |-> r, HoldFd |-> f]

Bodies ==
  { Body("", <<"v0", "v1">>, None, None, TRUE),     \* File, default last
    Body("Property", <<"", "v0">>, 0, TRUE, TRUE),  \* Property, may be empty
    Body("File", <<"v0", "">>, None, None, None),   \* empty File value
    Body("Other", <<"v0">>, None, None, None),      \* unknown Type
    Body("Property", <<"v0", "v0">>, 0, None, None), \* repeated value
    Body("File", <<>>, None, None, None),           \* no Values
    Body("", <<"v0">>, 1, None, None) }             \* DefaultIndex out of bound

NodeJson == {[Name |-> id[1], Path |-> id[2]] @@ b : id \in Ids, b \in Bodies}

Act(h, t, n, v, d) == [PowerHint |-> h, Type |-> t, Node |-> n, Value |-> v, Duration |-> d]

ActionBodies ==
  { <<"", "n0", "v0", 0>>,          \* node action until cancelled
    <<"", "n1", "", 2>>,            \* empty value (Property node only)
    <<"", "n0", "v1", None>>,       \* no Duration
    <<"", "n2", "v0", 1>>,          \* node not in the Nodes section
    <<"", "n1", "v1", 1>>,          \* value the node may lack
    <<"MaskHint", "", "H2", None>>,
    <<"DoHint", "", "", None>>,     \* hint action without a Value
    <<"Other", "n0", "v0", 1>> }    \* unknown Type

ActionJson ==
  {Act(h, b[1], b[2], b[3], b[4]) : h \in {"H1", "H2"}, b \in ActionBodies}
  \cup {Act("", "", "n0", "v0", 1)}

Doc(ns, as) == [read |-> TRUE, json |-> TRUE, Nodes |-> ns, Actions |-> as]

NodeLists == BoundedSeq(NodeJson, 2)

MCDocuments ==
  {Doc(ns, <<Act("H1", "MaskHint", "", "H2", None)>>) : ns \in NodeLists}
  \cup {Doc(ns, as) : ns \in {l \in NodeLists : NodesWellFormed(l)},
                      as \in BoundedSeq(ActionJson, 2)}
  \cup {[Doc(<<>>, <<>>) EXCEPT !.read = FALSE], [Doc(<<>>, <<>>) EXCEPT !.json = FALSE]}

=============================================================================
