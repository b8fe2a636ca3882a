--------------------------- MODULE GraphPartition ---------------------------
(***************************************************************************)
(* Tier 0 of ExecutionProviderPlugin::GetCapabilityImpl                    *)
(* (src/src/directml/dml_ep.cc): the nodes of the graph, in topological    *)
(* order, are put into groups, and a loop then resolves shapes and claims  *)
(* the groups that can be compiled as one DirectML graph.                  *)
(*                                                                         *)
(* A node is its position in the topological order and stands for its only *)
(* output too; 0 stands for a value that no node produces.  The shape of   *)
(* an output is known or not; its dimensions, like the names under which   *)
(* it is recorded, are left out.                                           *)
(***************************************************************************)
EXTENDS Integers, Sequences, FiniteSets

CONSTANTS N,             \* how many nodes the graph has
          MaxIterations  \* of the resolve-and-claim loop (10 in the code)

ASSUME GraphAssumption == N \in Nat /\ MaxIterations \in Nat \ {0}

Node == 1 .. N
Group == 1 .. N   \* each group is started by a node

VARIABLES
  \* The graph, and what the translators can do with it.  Chosen at the start.
  inputs,     \* the inputs of each node, in order
  implicit,   \* values that the subgraphs of a node (If, Loop) use
  fuseable,   \* DirectML nodes with a translator that are not CPU-preferred
  dynamic,    \* nodes for whose output ORT reports a dynamic shape
  resizes,    \* Upsample and Resize nodes whose scales can be computed, and the
              \* Cast that follows one
  translates, \* nodes that TryTranslateNodes can translate
  compiles,   \* nodes that TryCompilePartition accepts
  static,     \* AllGraphInputsStatic
  \* What GetCapabilityImpl computes.
  phase, next,
  used,       \* groups.size()
  nodes,      \* the nodes of each group, in the order they were appended
  finalized,  \* the node at whose visit the group was finalized, 0 if open
  groupOf,    \* output_to_group, 0 where it has no entry
  resolved,   \* resolved_shapes
  claimed,    \* the groups claimed
  iter, cursor, before

graph == <<inputs, implicit, fuseable, dynamic, resizes, translates, compiles,
           static>>
partition == <<next, used, nodes, finalized, groupOf>>
claims == <<resolved, claimed, iter, cursor, before>>
vars == <<graph, phase, partition, claims>>

TypeOK ==
  /\ phase \in {"partition", "resolve", "claim", "claimed"}
  /\ next \in 1 .. N + 1 /\ used \in 0 .. N
  /\ nodes \in [Group -> Seq(Node)]
  /\ finalized \in [Group -> 0 .. N]
  /\ groupOf \in [Node -> 0 .. used]
  /\ resolved \subseteq Node /\ claimed \subseteq Group
  /\ iter \in 0 .. MaxIterations /\ cursor \in 1 .. N + 1
  /\ before \in [resolved : 0 .. N, claimed : 0 .. N]

\* What a graph is: values come from earlier nodes, and only a node without a
\* translator has subgraphs.
GraphOK ==
  /\ inputs \in [Node -> Seq(0 .. N)]
  /\ \A n \in Node : \A i \in DOMAIN inputs[n] : inputs[n][i] < n
  /\ implicit \in [Node -> SUBSET Node]
  /\ \A n \in Node : \A m \in implicit[n] : m < n
  /\ fuseable \subseteq Node
  /\ \A n \in fuseable : implicit[n] = {}
  /\ dynamic \subseteq Node /\ resizes \subseteq dynamic
  /\ translates \subseteq Node /\ compiles \subseteq Node
  /\ static \in BOOLEAN

\* The passes after the choice of the graph.
InitPasses ==
  /\ phase = IF static THEN "partition" ELSE "claimed"
  /\ next = 1 /\ used = 0
  /\ nodes = [g \in Group |-> <<>>]
  /\ finalized = [g \in Group |-> 0]
  /\ groupOf = [n \in Node |-> 0]
  /\ resolved = {} /\ claimed = {}
  /\ iter = 0 /\ cursor = 1
  /\ before = [resolved |-> 0, claimed |-> 0]

Init == GraphOK /\ InitPasses

Inputs(n) == {inputs[n][i] : i \in DOMAIN inputs[n]} \ {0}

-----------------------------------------------------------------------------
(* The groups *)

Visiting(n) == phase = "partition" /\ n \in Node /\ n = next

\* The i-th input of n comes from a group that is still open.
OpenInput(n, i) ==
  /\ inputs[n][i] # 0
  /\ groupOf[inputs[n][i]] # 0
  /\ finalized[groupOf[inputs[n][i]]] = 0

\* Mutant: only the first input's group is finalized.
FirstUpstreamGroup(n) ==
  {groupOf[inputs[n][i]] : i \in {i \in DOMAIN inputs[n] : i = 1 /\ OpenInput(n, i)}}

OpenUpstream(n) ==
  {groupOf[inputs[n][i]] : i \in {i \in DOMAIN inputs[n] : OpenInput(n, i)}}

\* A node that is not fuseable finalizes the open groups of its inputs.  The
\* inputs are those GetNodeInputNames lists: implicit ones are not among them.
Boundary(n) ==
  /\ Visiting(n) /\ n \notin fuseable
  /\ finalized' = [g \in Group |->
                     IF g \in OpenUpstream(n) THEN n ELSE finalized[g]]
  /\ next' = n + 1
  /\ UNCHANGED <<graph, phase, used, nodes, groupOf, claims>>

StartGroup(n) ==
  /\ Visiting(n) /\ n \in fuseable /\ OpenUpstream(n) = {}
  /\ used' = used + 1
  /\ nodes' = [nodes EXCEPT ![used + 1] = <<n>>]
  /\ groupOf' = [groupOf EXCEPT ![n] = used + 1]
  /\ next' = n + 1
  /\ UNCHANGED <<graph, phase, finalized, claims>>

\* The group of the first open input is the target; i is that input.
IsTarget(n, i) ==
  /\ i \in DOMAIN inputs[n] /\ OpenInput(n, i)
  /\ \A j \in DOMAIN inputs[n] : j < i => ~OpenInput(n, j)

\* Mutant: the outputs of the group merged stay mapped to it.
KeepMapping(src, target) == groupOf

\* Every output of the group merged is mapped to the target.
Remapped(src, target) ==
  [m \in Node |-> IF groupOf[m] = src THEN target ELSE groupOf[m]]

\* One iteration of the loop that merges the other open groups into the target.
MergeGroup(n) == \E i, k \in DOMAIN inputs[n] :
  LET target == groupOf[inputs[n][i]]
      src == groupOf[inputs[n][k]]
  IN /\ Visiting(n) /\ n \in fuseable
     /\ IsTarget(n, i) /\ OpenInput(n, k) /\ src # target
     /\ \A j \in DOMAIN inputs[n] :
          (j < k /\ OpenInput(n, j)) => groupOf[inputs[n][j]] = target
     /\ nodes' = [nodes EXCEPT ![target] = nodes[target] \o nodes[src],
                               ![src] = <<>>]
     /\ finalized' = [finalized EXCEPT ![src] = n]
     /\ groupOf' = Remapped(src, target)
     /\ UNCHANGED <<graph, phase, next, used, claims>>

\* Mutant: the node is put before the members it reads.
JoinedFirst(target, n) == <<n>> \o nodes[target]

Joined(target, n) == Append(nodes[target], n)

\* Nothing is left to merge: the node joins the target.
JoinGroup(n) == \E i \in DOMAIN inputs[n] :
  LET target == groupOf[inputs[n][i]]
  IN /\ Visiting(n) /\ n \in fuseable
     /\ IsTarget(n, i) /\ OpenUpstream(n) = {target}
     /\ nodes' = [nodes EXCEPT ![target] = Joined(target, n)]
     /\ groupOf' = [groupOf EXCEPT ![n] = target]
     /\ next' = n + 1
     /\ UNCHANGED <<graph, phase, used, finalized, claims>>

EndPartition ==
  /\ phase = "partition" /\ next = N + 1
  /\ phase' = "resolve"
  /\ UNCHANGED <<graph, partition, claims>>

-----------------------------------------------------------------------------
(* The resolve-and-claim loop *)

Known(m) == m = 0 \/ m \notin dynamic \/ m \in resolved

\* The outputs of Upsample and Resize nodes whose first input is known, until
\* nothing changes; inputs come before the node.
Resolvable ==
  LET known[m \in 0 .. N] ==
        \/ Known(m)
        \/ m \in resizes /\ inputs[m] # <<>> /\ known[inputs[m][1]]
  IN {m \in resizes : known[m]}

Resolve ==
  /\ phase = "resolve"
  /\ before' = [resolved |-> Cardinality(resolved), claimed |-> Cardinality(claimed)]
  /\ resolved' = resolved \cup Resolvable
  /\ cursor' = 1
  /\ phase' = "claim"
  /\ UNCHANGED <<graph, partition, claimed, iter>>

Members(g) == {nodes[g][i] : i \in DOMAIN nodes[g]}

\* ValidateTier0 rejects a group with an input whose shape is dynamic.
ValidateTier0(g) == \A n \in Members(g) : \A m \in Inputs(n) : Known(m)

\* TryTranslateNodes goes on after a node that fails, and exports every shape it
\* knows whether or not the whole group translates.
Exported(g) == (Node \ dynamic) \cup (Members(g) \cap translates)

Claimable(g) ==
  /\ nodes[g] # <<>> /\ ValidateTier0(g)
  /\ Members(g) \subseteq translates
  /\ Members(g) \subseteq compiles

\* One group of the loop: skipped, rejected, or claimed by AddNodesToFuse,
\* which refuses only an empty list.
ClaimGroup ==
  LET g == cursor
      tried == nodes[g] # <<>> /\ g \notin claimed
  IN /\ phase = "claim" /\ cursor <= used
     /\ resolved' = IF tried /\ ValidateTier0(g) THEN resolved \cup Exported(g)
                    ELSE resolved
     /\ claimed' = IF tried /\ Claimable(g) THEN claimed \cup {g} ELSE claimed
     /\ cursor' = cursor + 1
     /\ UNCHANGED <<graph, phase, partition, iter, before>>

\* Mutant: only a claim counts as progress.
ClaimProgress == Cardinality(claimed) > before.claimed

MadeProgress ==
  \/ Cardinality(resolved) > before.resolved
  \/ Cardinality(claimed) > before.claimed

EndIteration ==
  /\ phase = "claim" /\ cursor > used
  /\ iter' = iter + 1
  /\ phase' = IF MadeProgress /\ iter + 1 < MaxIterations THEN "resolve" ELSE "claimed"
  /\ UNCHANGED <<graph, partition, resolved, claimed, cursor, before>>

Next ==
  \/ \E n \in Node : Boundary(n) \/ StartGroup(n) \/ MergeGroup(n) \/ JoinGroup(n)
  \/ EndPartition
  \/ Resolve \/ ClaimGroup \/ EndIteration

Spec == Init /\ [][Next]_vars

-----------------------------------------------------------------------------
(* Properties *)

\* A node waits for the producers of its inputs and of the values its subgraphs
\* use.
Edges == {e \in Node \X Node : e[1] \in Inputs(e[2]) \cup implicit[e[2]]}

\* The graph that is run: a fused group is one unit, any other node its own.
UnitIn(fused, n) == IF groupOf[n] \in fused THEN groupOf[n] ELSE -n

\* Every nonempty set of units has one that waits for no other unit of the set:
\* the units can be run one after the other.
RunnableWith(fused) ==
  \A S \in (SUBSET {UnitIn(fused, n) : n \in Node}) \ {{}} :
    \E u \in S : \A e \in Edges :
      (UnitIn(fused, e[2]) = u /\ UnitIn(fused, e[1]) # u) => UnitIn(fused, e[1]) \notin S

\* Without subgraphs, fusing the claimed groups never makes a cycle: no group
\* and node outside it wait for each other, directly or through others.
ClaimsAcyclic == (\A n \in Node : implicit[n] = {}) => RunnableWith(claimed)

\* The same for graphs whose nodes have subgraphs.
ClaimsAcyclicWithSubgraphs == RunnableWith(claimed)

\* Groups are translated in the order of their nodes: a producer is never listed
\* after its consumer, although merging appends older nodes to newer ones.
GroupsOrdered == \A g \in Group : \A i, j \in DOMAIN nodes[g] :
  i < j => <<nodes[g][j], nodes[g][i]>> \notin Edges

\* The node lists and output_to_group are two records of the same partition:
\* each visited fuseable node is in the list of its group, once.
ListsMatchMap ==
  /\ \A g \in Group : Members(g) = {n \in Node : groupOf[n] = g}
  /\ \A g \in Group : Len(nodes[g]) = Cardinality(Members(g))

\* The loop may stop: unless the bound on iterations ended it, a group left
\* unclaimed is one that further iterations would not claim either.
ClaimsComplete ==
  (phase = "claimed" /\ static /\ iter < MaxIterations) =>
     /\ \A g \in Group \ claimed : ~Claimable(g)
     /\ Resolvable \subseteq resolved
=============================================================================
