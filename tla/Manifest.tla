------------------------------ MODULE Manifest ------------------------------
(***************************************************************************)
(* The manifest (manifest.cpp, manifest.h): the root's id, the next id and *)
(* the known nodes with their valid flags, as a record; the operations on  *)
(* it; and its file, a set of lines.  Levels and paths of the nodes        *)
(* are left out.  Module GravTree takes its steps with these operators.    *)
(***************************************************************************)
EXTENDS Integers, Sequences, FiniteSets, SequencesExt

INVALID_NODE_ID == 0

\* A Manifest as constructed.
NewManifest == [root |-> INVALID_NODE_ID, next |-> 1, nodes |-> << >>]

register(m, ids) ==
  [m EXCEPT !.nodes = [i \in DOMAIN @ \cup ids |-> i \in ids \/ @[i]]]

\* Mutant: replaced nodes stay valid.
BadInvalidate(m, ids) == m

invalidate(m, ids) ==
  [m EXCEPT !.nodes = [i \in DOMAIN @ |-> @[i] /\ i \notin ids]]

\* Mutant: the old root stays the root.
BadSetRoot(m, id) == m

set_root(m, id) == [m EXCEPT !.root = id]

\* next_node_id, called n times.
take_ids(m, n) == [m EXCEPT !.next = @ + n]

\* The nodes for which node_path does not throw, and those gc is for.
ValidIds(m) == {i \in DOMAIN m.nodes : m.nodes[i]}
InvalidIds(m) == DOMAIN m.nodes \ ValidIds(m)

\* One round of gc's loop: an invalid node is forgotten.
forget(m, id) == [m EXCEPT !.nodes = Restrict(@, DOMAIN @ \ {id})]

-----------------------------------------------------------------------------
(* The file *)

Line(token, id, valid) == [token |-> token, id |-> id, valid |-> valid]

\* What save writes.  The lines are a set: no two of them set the same thing, so
\* load does not depend on their order, which for the NODE lines is that of an
\* unordered_map.
save(m) ==
  {Line("VERSION", 1, FALSE), Line("ROOT", m.root, FALSE), Line("NEXT_ID", m.next, FALSE)}
  \cup {Line("NODE", i, m.nodes[i]) : i \in DOMAIN m.nodes}

\* The ids on the lines with a token, and the one on its line, if there is one.
IdsOf(lines, token) == {l.id : l \in {x \in lines : x.token = token}}

IdOr(lines, token, default) ==
  IF IdsOf(lines, token) = {} THEN default ELSE CHOOSE i \in IdsOf(lines, token) : TRUE

\* What load makes of the NODE lines.
NodesOf(lines) == [i \in IdsOf(lines, "NODE") |-> Line("NODE", i, TRUE) \in lines]

\* Mutant: NEXT_ID is not read and the ids of the nodes not looked at.
BadLoad(lines) ==
  [root  |-> IdOr(lines, "ROOT", INVALID_NODE_ID), next |-> 1, nodes |-> NodesOf(lines)]

\* load, of a file or of none (no lines): next_id_ ends up beyond every stored id.
load(lines) ==
  [root  |-> IdOr(lines, "ROOT", INVALID_NODE_ID),
   next  |-> Max({IdOr(lines, "NEXT_ID", 1)} \cup {i + 1 : i \in IdsOf(lines, "NODE")}),
   nodes |-> NodesOf(lines)]
=============================================================================
