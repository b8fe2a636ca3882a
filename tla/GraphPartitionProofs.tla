------------------------ MODULE GraphPartitionProofs ------------------------
(***************************************************************************)
(* Proofs about GraphPartition and Capability for graphs of any size: that *)
(* fusing the groups never makes a cycle, that the tiers together claim    *)
(* every node once, and that the fusions of the rules make no cycle either.*)
(***************************************************************************)
EXTENDS Capability, FiniteSetTheorems, WellFoundedInduction, SequenceTheorems, TLAPS

\* The groups not started have no state, and the loop over the groups has not
\* used up its iterations while it goes on.
CountsInv ==
  /\ used < next
  /\ \A g \in Group : g > used => finalized[g] = 0
  /\ phase # "claimed" => iter < MaxIterations
  /\ phase \in {"resolve", "claim"} => next = N + 1
  /\ claimed # {} => next = N + 1

\* The members of a group were visited, before the group was finalized.
MembersInv ==
  /\ \A n \in Node : groupOf[n] # 0 => n < next
  /\ \A g \in Group : finalized[g] <= next
  /\ \A n \in Node : (groupOf[n] # 0 /\ finalized[groupOf[n]] # 0)
                       => n < finalized[groupOf[n]]

\* A visited node outside a group that uses a value of the group found it
\* finalized or finalized it.
EdgesInv ==
  \A n \in Node : \A m \in Inputs(n) :
    (n < next /\ groupOf[m] # 0 /\ groupOf[n] # groupOf[m])
      => finalized[groupOf[m]] # 0 /\ finalized[groupOf[m]] <= n

IInv == TypeOK /\ GraphOK /\ CountsInv /\ MembersInv /\ EdgesInv

-----------------------------------------------------------------------------
(* Lemmas *)

\* Inputs are earlier nodes.
LEMMA InputsEarlier ==
  ASSUME GraphOK, NEW n \in Node, NEW m \in Inputs(n)
  PROVE  m \in Node /\ m < n
<1>1. PICK i \in DOMAIN inputs[n] : m = inputs[n][i]
  BY DEF Inputs
<1>2. inputs[n] \in Seq(0 .. N)
  BY DEF GraphOK
<1>2a. inputs[n][i] \in 0 .. N
  BY <1>2, ElementOfSeq, LenProperties
<1>3. m # 0 /\ m < n
  BY <1>1 DEF Inputs, GraphOK
<1>4. QED
  BY <1>1, <1>2a, <1>3, GraphAssumption DEF Node

\* The value an input names is one of the node's inputs.
LEMMA InputIsInput ==
  ASSUME NEW n \in Node, NEW i \in DOMAIN inputs[n], inputs[n][i] # 0
  PROVE  inputs[n][i] \in Inputs(n)
BY DEF Inputs

\* The group of an open input.
LEMMA OpenInputGroup ==
  ASSUME GraphOK, TypeOK, NEW n \in Node, NEW i \in DOMAIN inputs[n], OpenInput(n, i)
  PROVE  /\ inputs[n][i] \in Inputs(n)
         /\ groupOf[inputs[n][i]] \in Group
         /\ groupOf[inputs[n][i]] <= used
         /\ finalized[groupOf[inputs[n][i]]] = 0
<1>1. inputs[n][i] \in Inputs(n)
  BY InputIsInput DEF OpenInput
<1>2. inputs[n][i] \in Node
  BY <1>1, InputsEarlier
<1>3. groupOf[inputs[n][i]] \in 0 .. used /\ groupOf[inputs[n][i]] # 0
  BY <1>2 DEF TypeOK, OpenInput
<1>4. QED
  BY <1>1, <1>3, GraphAssumption DEF TypeOK, OpenInput, Group

\* The group of an input is finalized, or it is one of the open groups.
LEMMA OpenOrFinalized ==
  ASSUME GraphOK, TypeOK, NEW n \in Node, NEW m \in Inputs(n), groupOf[m] # 0
  PROVE  finalized[groupOf[m]] # 0 \/ groupOf[m] \in OpenUpstream(n)
<1>1. PICK i \in DOMAIN inputs[n] : m = inputs[n][i] /\ m # 0
  BY DEF Inputs
<1>2. SUFFICES ASSUME finalized[groupOf[m]] = 0
               PROVE  groupOf[m] \in OpenUpstream(n)
  OBVIOUS
<1>3. OpenInput(n, i)
  BY <1>1, <1>2 DEF OpenInput
<1>4. QED
  BY <1>1, <1>3 DEF OpenUpstream

\* No action changes the graph.
LEMMA GraphKept ==
  ASSUME GraphOK, UNCHANGED graph
  PROVE  GraphOK' /\ \A n \in Node : Inputs(n)' = Inputs(n)
BY DEF graph, GraphOK, Inputs

-----------------------------------------------------------------------------
(* The invariant holds initially and is preserved by each action. *)

\* The initial states satisfy the invariant.
LEMMA InitIInv == Init => IInv
<1> SUFFICES ASSUME Init PROVE IInv
  OBVIOUS
<1> USE GraphAssumption
<1>1. TypeOK /\ GraphOK
  BY EmptySeq DEF Init, InitPasses, TypeOK, Group, Node
<1>2. CountsInv
  BY DEF Init, InitPasses, CountsInv, Group
<1>3. MembersInv
  BY DEF Init, InitPasses, MembersInv, Group
<1>4. EdgesInv
  <2>1. \A n \in Node : \A m \in Inputs(n) : m \in Node /\ groupOf[m] = 0
    BY <1>1, InputsEarlier DEF Init, InitPasses
  <2>2. QED
    BY <2>1 DEF EdgesInv
<1>5. QED
  BY <1>1, <1>2, <1>3, <1>4 DEF IInv

\* A boundary finalizes groups all of whose members come before it, and no
\* visited node outside them uses their values.
LEMMA BoundaryIInv ==
  ASSUME IInv, NEW n \in Node, Boundary(n)
  PROVE  IInv'
<1> USE GraphAssumption
<1>1. GraphOK' /\ \A k \in Node : Inputs(k)' = Inputs(k)
  BY GraphKept DEF Boundary, IInv
<1>2. /\ n = next /\ next' = n + 1 /\ phase = "partition" /\ claimed = {}
      /\ finalized' = [g \in Group |-> IF g \in OpenUpstream(n) THEN n ELSE finalized[g]]
      /\ UNCHANGED <<groupOf, used, nodes, phase, claims>>
  BY DEF Boundary, Visiting, IInv, CountsInv, Node
<1>3. \A g \in OpenUpstream(n) : g \in Group /\ g <= used /\ finalized[g] = 0
  BY OpenInputGroup DEF OpenUpstream, IInv
<1>4. TypeOK'
  BY <1>2 DEF IInv, TypeOK, claims, Node
<1>5. CountsInv'
  <2>1. \A g \in Group : g > used => g \notin OpenUpstream(n)
    BY <1>3 DEF IInv, TypeOK, Group
  <2>2. QED
    BY <1>2, <2>1 DEF IInv, CountsInv, TypeOK, claims
<1>6. MembersInv'
  <2>1. \A k \in Node : groupOf'[k] # 0 => k < next'
    BY <1>2 DEF IInv, MembersInv, TypeOK, Node
  <2>2. \A g \in Group : finalized'[g] <= next'
    BY <1>2 DEF IInv, MembersInv, TypeOK, Node
  <2>3. ASSUME NEW k \in Node, groupOf'[k] # 0, finalized'[groupOf'[k]] # 0
        PROVE  k < finalized'[groupOf'[k]]
    <3>1. groupOf[k] \in 0 .. used /\ groupOf[k] # 0 /\ used \in 0 .. N
      BY <1>2, <2>3 DEF IInv, TypeOK
    <3>2. groupOf[k] \in Group
      BY <3>1 DEF Group
    <3>3. k < n
      BY <1>2, <3>1 DEF IInv, MembersInv
    <3>4. QED
      BY <1>2, <2>3, <3>2, <3>3 DEF IInv, MembersInv
  <2>4. QED
    BY <2>1, <2>2, <2>3 DEF MembersInv
<1>7. EdgesInv'
  <2>1. SUFFICES ASSUME NEW k \in Node, NEW m \in Inputs(k), k < next',
                        groupOf[m] # 0, groupOf[k] # groupOf[m]
                 PROVE  finalized'[groupOf[m]] # 0 /\ finalized'[groupOf[m]] <= k
    BY <1>1, <1>2 DEF EdgesInv
  <2>2. m \in Node /\ m < k
    BY InputsEarlier DEF IInv
  <2>3. groupOf[m] \in Group
    BY <2>1, <2>2 DEF IInv, TypeOK, Group
  <2>4. CASE k = n
    <3>1. finalized[groupOf[m]] # 0 \/ groupOf[m] \in OpenUpstream(n)
      BY <2>1, <2>4, OpenOrFinalized DEF IInv
    <3>2. finalized[groupOf[m]] <= n
      BY <1>2, <2>3 DEF IInv, MembersInv
    <3>3. QED
      BY <1>2, <2>3, <2>4, <3>1, <3>2 DEF Node
  <2>5. CASE k # n
    <3>1. k < next
      BY <1>2, <2>1, <2>5 DEF Node
    <3>2. finalized[groupOf[m]] # 0 /\ finalized[groupOf[m]] <= k
      BY <2>1, <3>1 DEF IInv, EdgesInv
    <3>3. QED
      BY <1>2, <1>3, <2>3, <3>2
  <2>6. QED
    BY <2>4, <2>5
<1>8. QED
  BY <1>1, <1>4, <1>5, <1>6, <1>7 DEF IInv

\* The groups of all inputs of a node that starts a group are finalized.
LEMMA StartGroupIInv ==
  ASSUME IInv, NEW n \in Node, StartGroup(n)
  PROVE  IInv'
<1> USE GraphAssumption
<1>1. GraphOK' /\ \A k \in Node : Inputs(k)' = Inputs(k)
  BY GraphKept DEF StartGroup, IInv
<1>2. /\ n = next /\ next' = n + 1 /\ phase = "partition" /\ claimed = {}
      /\ used' = used + 1 /\ used + 1 \in Group
      /\ nodes' = [nodes EXCEPT ![used + 1] = <<n>>]
      /\ groupOf' = [groupOf EXCEPT ![n] = used + 1]
      /\ OpenUpstream(n) = {}
      /\ UNCHANGED <<finalized, phase, claims>>
  BY DEF StartGroup, Visiting, IInv, CountsInv, TypeOK, Node, Group
<1>3. groupOf \in [Node -> 0 .. used] /\ used \in 0 .. N
  BY DEF IInv, TypeOK
<1>4. TypeOK'
  <2>1. nodes' \in [Group -> Seq(Node)]
    BY <1>2 DEF IInv, TypeOK
  <2>2. groupOf' \in [Node -> 0 .. used']
    BY <1>2, <1>3
  <2>3. QED
    BY <1>2, <2>1, <2>2 DEF IInv, TypeOK, claims, Node, Group
<1>5. CountsInv'
  BY <1>2, <1>3 DEF IInv, CountsInv, TypeOK, claims, Group
<1>6. MembersInv'
  <2>1. finalized[used + 1] = 0
    BY <1>2, <1>3 DEF IInv, CountsInv
  <2>2. \A k \in Node : groupOf'[k] # 0 => k < next'
    BY <1>2, <1>3 DEF IInv, MembersInv, TypeOK, Node
  <2>3. \A g \in Group : finalized'[g] <= next'
    BY <1>2 DEF IInv, MembersInv, TypeOK, Node
  <2>4. \A k \in Node : (groupOf'[k] # 0 /\ finalized'[groupOf'[k]] # 0)
                           => k < finalized'[groupOf'[k]]
    BY <1>2, <1>3, <2>1 DEF IInv, MembersInv
  <2>5. QED
    BY <2>2, <2>3, <2>4 DEF MembersInv
<1>7. EdgesInv'
  <2>1. SUFFICES ASSUME NEW k \in Node, NEW m \in Inputs(k), k < next',
                        groupOf'[m] # 0, groupOf'[k] # groupOf'[m]
                 PROVE  finalized[groupOf'[m]] # 0 /\ finalized[groupOf'[m]] <= k
    BY <1>1, <1>2 DEF EdgesInv
  <2>2. m \in Node /\ m < k /\ k <= n
    BY <1>2, <2>1, InputsEarlier DEF IInv, Node
  <2>3. groupOf'[m] = groupOf[m] /\ groupOf[m] \in Group
    BY <1>2, <1>3, <2>1, <2>2 DEF Group, Node
  <2>4. CASE k = n
    <3>1. finalized[groupOf[m]] # 0
      BY <1>2, <2>1, <2>3, <2>4, OpenOrFinalized DEF IInv
    <3>2. finalized[groupOf[m]] <= n
      BY <1>2, <2>3 DEF IInv, MembersInv
    <3>3. QED
      BY <2>3, <2>4, <3>1, <3>2
  <2>5. CASE k # n
    <3>1. k < next /\ groupOf'[k] = groupOf[k]
      BY <1>2, <1>3, <2>2, <2>5 DEF Node
    <3>2. QED
      BY <2>1, <2>3, <3>1 DEF IInv, EdgesInv
  <2>6. QED
    BY <2>4, <2>5
<1>8. QED
  BY <1>1, <1>4, <1>5, <1>6, <1>7 DEF IInv

\* Merging moves the members of an open group to another open group.
LEMMA MergeGroupIInv ==
  ASSUME IInv, NEW n \in Node, MergeGroup(n)
  PROVE  IInv'
<1> USE GraphAssumption
<1>1. GraphOK' /\ \A k \in Node : Inputs(k)' = Inputs(k)
  BY GraphKept DEF MergeGroup, IInv
<1>2. PICK i \in DOMAIN inputs[n], k \in DOMAIN inputs[n] :
        /\ OpenInput(n, i) /\ OpenInput(n, k)
        /\ groupOf[inputs[n][k]] # groupOf[inputs[n][i]]
        /\ nodes' = [nodes EXCEPT
              ![groupOf[inputs[n][i]]] = nodes[groupOf[inputs[n][i]]] \o nodes[groupOf[inputs[n][k]]],
              ![groupOf[inputs[n][k]]] = <<>>]
        /\ finalized' = [finalized EXCEPT ![groupOf[inputs[n][k]]] = n]
        /\ groupOf' = Remapped(groupOf[inputs[n][k]], groupOf[inputs[n][i]])
  BY DEF MergeGroup, IsTarget
<1> DEFINE target == groupOf[inputs[n][i]]
           src == groupOf[inputs[n][k]]
<1>3. /\ target \in Group /\ target <= used /\ finalized[target] = 0
      /\ src \in Group /\ src <= used /\ finalized[src] = 0 /\ src # target
  BY <1>2, OpenInputGroup DEF IInv
<1>4. /\ n = next /\ phase = "partition" /\ claimed = {}
      /\ nodes' = [nodes EXCEPT ![target] = nodes[target] \o nodes[src], ![src] = <<>>]
      /\ finalized' = [finalized EXCEPT ![src] = n]
      /\ groupOf' = [m \in Node |-> IF groupOf[m] = src THEN target ELSE groupOf[m]]
      /\ UNCHANGED <<next, used, phase, claims>>
  <2>1. n = next /\ phase = "partition" /\ UNCHANGED <<next, used, phase, claims>>
    BY DEF MergeGroup, Visiting
  <2>2. claimed = {}
    BY <2>1 DEF IInv, CountsInv, Node
  <2>3. groupOf' = [m \in Node |-> IF groupOf[m] = src THEN target ELSE groupOf[m]]
    BY <1>2 DEF Remapped
  <2>4. QED
    BY <1>2, <2>1, <2>2, <2>3
<1> HIDE DEF target, src
<1>5. groupOf \in [Node -> 0 .. used] /\ used \in 0 .. N /\ finalized \in [Group -> 0 .. N]
  BY DEF IInv, TypeOK
<1>6. TypeOK'
  <2>1. nodes' \in [Group -> Seq(Node)]
    <3>1. nodes[target] \o nodes[src] \in Seq(Node)
      BY <1>3, ConcatProperties DEF IInv, TypeOK
    <3>2. <<>> \in Seq(Node)
      BY EmptySeq
    <3>3. QED
      BY <1>4, <3>1, <3>2 DEF IInv, TypeOK
  <2>2. groupOf' \in [Node -> 0 .. used]
    BY <1>3, <1>4, <1>5 DEF Group
  <2>3. finalized' \in [Group -> 0 .. N]
    BY <1>3, <1>4, <1>5 DEF Node
  <2>4. QED
    BY <1>4, <2>1, <2>2, <2>3 DEF IInv, TypeOK, claims
<1>7. CountsInv'
  <2>1. \A g \in Group : g > used => finalized'[g] = 0
    BY <1>3, <1>4, <1>5 DEF IInv, CountsInv, Group
  <2>2. QED
    BY <1>4, <2>1 DEF IInv, CountsInv, claims
<1>8. MembersInv'
  <2>1. \A m \in Node : groupOf'[m] # 0 => m < next
    BY <1>3, <1>4, <1>5 DEF IInv, MembersInv, Group
  <2>2. \A g \in Group : finalized'[g] <= next
    BY <1>3, <1>4, <1>5 DEF IInv, MembersInv, Node
  <2>3. ASSUME NEW m \in Node, groupOf'[m] # 0, finalized'[groupOf'[m]] # 0
        PROVE  m < finalized'[groupOf'[m]]
    <3>1. groupOf'[m] # src
      BY <1>3, <1>4, <1>5
    <3>2. groupOf'[m] # target
      BY <1>3, <1>4, <1>5, <2>3
    <3>3. groupOf'[m] = groupOf[m] /\ groupOf[m] \in Group
      BY <1>4, <1>5, <2>3, <3>2 DEF Group
    <3>4. QED
      BY <1>3, <1>4, <1>5, <2>3, <3>1, <3>3 DEF IInv, MembersInv
  <2>4. QED
    BY <1>4, <2>1, <2>2, <2>3 DEF MembersInv
<1>9. EdgesInv'
  <2>1. SUFFICES ASSUME NEW l \in Node, NEW m \in Inputs(l), l < next,
                        groupOf'[m] # 0, groupOf'[l] # groupOf'[m]
                 PROVE  finalized'[groupOf'[m]] # 0 /\ finalized'[groupOf'[m]] <= l
    BY <1>1, <1>4 DEF EdgesInv
  <2>2. m \in Node
    BY InputsEarlier DEF IInv
  <2>3. groupOf[m] # 0 /\ groupOf[l] # groupOf[m] /\ groupOf[m] \in Group
    BY <1>3, <1>4, <1>5, <2>1, <2>2 DEF Group
  <2>4. finalized[groupOf[m]] # 0 /\ finalized[groupOf[m]] <= l
    BY <2>1, <2>3 DEF IInv, EdgesInv
  <2>5. groupOf'[m] = groupOf[m] /\ groupOf[m] # src
    BY <1>3, <1>4, <2>2, <2>4
  <2>6. QED
    BY <1>3, <1>4, <1>5, <2>3, <2>4, <2>5
<1>10. QED
  BY <1>1, <1>6, <1>7, <1>8, <1>9 DEF IInv

\* A node joins the only open group among those of its inputs.
LEMMA JoinGroupIInv ==
  ASSUME IInv, NEW n \in Node, JoinGroup(n)
  PROVE  IInv'
<1> USE GraphAssumption
<1>1. GraphOK' /\ \A k \in Node : Inputs(k)' = Inputs(k)
  BY GraphKept DEF JoinGroup, IInv
<1>2. PICK i \in DOMAIN inputs[n] :
        /\ OpenInput(n, i) /\ OpenUpstream(n) = {groupOf[inputs[n][i]]}
        /\ nodes' = [nodes EXCEPT ![groupOf[inputs[n][i]]] = Joined(groupOf[inputs[n][i]], n)]
        /\ groupOf' = [groupOf EXCEPT ![n] = groupOf[inputs[n][i]]]
  BY DEF JoinGroup, IsTarget
<1> DEFINE target == groupOf[inputs[n][i]]
<1>3. target \in Group /\ target <= used /\ finalized[target] = 0
  BY <1>2, OpenInputGroup DEF IInv
<1>4. /\ n = next /\ next' = n + 1 /\ phase = "partition" /\ claimed = {}
      /\ OpenUpstream(n) = {target}
      /\ nodes' = [nodes EXCEPT ![target] = Append(nodes[target], n)]
      /\ groupOf' = [groupOf EXCEPT ![n] = target]
      /\ UNCHANGED <<used, finalized, phase, claims>>
  <2>1. n = next /\ next' = n + 1 /\ phase = "partition" /\ UNCHANGED <<used, finalized, phase, claims>>
    BY DEF JoinGroup, Visiting
  <2>2. claimed = {}
    BY <2>1 DEF IInv, CountsInv, Node
  <2>3. QED
    BY <1>2, <2>1, <2>2 DEF Joined
<1> HIDE DEF target
<1>5. groupOf \in [Node -> 0 .. used] /\ used \in 0 .. N /\ finalized \in [Group -> 0 .. N]
  BY DEF IInv, TypeOK
<1>6. TypeOK'
  <2>1. nodes' \in [Group -> Seq(Node)]
    <3>1. Append(nodes[target], n) \in Seq(Node)
      BY <1>3, AppendProperties DEF IInv, TypeOK
    <3>2. QED
      BY <1>4, <3>1 DEF IInv, TypeOK
  <2>2. groupOf' \in [Node -> 0 .. used]
    BY <1>3, <1>4, <1>5 DEF Group
  <2>3. QED
    BY <1>4, <2>1, <2>2 DEF IInv, TypeOK, claims, Node
<1>7. CountsInv'
  BY <1>4, <1>5 DEF IInv, CountsInv, TypeOK, claims
<1>8. MembersInv'
  <2>1. \A k \in Node : groupOf'[k] # 0 => k < next'
    BY <1>4, <1>5 DEF IInv, MembersInv, Node
  <2>2. \A g \in Group : finalized'[g] <= next'
    BY <1>4, <1>5 DEF IInv, MembersInv, Node
  <2>3. \A k \in Node : (groupOf'[k] # 0 /\ finalized'[groupOf'[k]] # 0)
                           => k < finalized'[groupOf'[k]]
    BY <1>3, <1>4, <1>5 DEF IInv, MembersInv
  <2>4. QED
    BY <2>1, <2>2, <2>3 DEF MembersInv
<1>9. EdgesInv'
  <2>1. SUFFICES ASSUME NEW k \in Node, NEW m \in Inputs(k), k < next',
                        groupOf'[m] # 0, groupOf'[k] # groupOf'[m]
                 PROVE  finalized[groupOf'[m]] # 0 /\ finalized[groupOf'[m]] <= k
    BY <1>1, <1>4 DEF EdgesInv
  <2>2. m \in Node /\ m < k /\ k <= n
    BY <1>4, <2>1, InputsEarlier DEF IInv, Node
  <2>3. groupOf'[m] = groupOf[m] /\ groupOf[m] \in Group
    BY <1>4, <1>5, <2>1, <2>2 DEF Group, Node
  <2>4. CASE k = n
    <3>1. finalized[groupOf[m]] # 0 \/ groupOf[m] = target
      BY <1>4, <2>1, <2>3, <2>4, OpenOrFinalized DEF IInv
    <3>2. groupOf[m] # target
      BY <1>4, <1>5, <2>1, <2>3, <2>4
    <3>3. finalized[groupOf[m]] <= n
      BY <1>4, <2>3 DEF IInv, MembersInv
    <3>4. QED
      BY <2>3, <2>4, <3>1, <3>2, <3>3
  <2>5. CASE k # n
    <3>1. k < next /\ groupOf'[k] = groupOf[k]
      BY <1>4, <1>5, <2>2, <2>5 DEF Node
    <3>2. QED
      BY <2>1, <2>3, <3>1 DEF IInv, EdgesInv
  <2>6. QED
    BY <2>4, <2>5
<1>10. QED
  BY <1>1, <1>6, <1>7, <1>8, <1>9 DEF IInv

\* A set of nodes, or of groups, has at most N elements.
LEMMA AtMostN ==
  ASSUME NEW S, S \subseteq 1 .. N
  PROVE  Cardinality(S) \in 0 .. N
<1>1. IsFiniteSet(1 .. N) /\ Cardinality(1 .. N) <= N
  BY FS_Interval, GraphAssumption
<1>2. IsFiniteSet(S) /\ Cardinality(S) <= Cardinality(1 .. N)
  BY <1>1, FS_Subset
<1>3. Cardinality(S) \in Nat /\ Cardinality(1 .. N) \in Nat
  BY <1>1, <1>2, FS_CardinalityType
<1>4. QED
  BY <1>1, <1>2, <1>3, GraphAssumption

\* The parts of the invariant about the partition do not depend on the rest.
LEMMA PartitionKept ==
  ASSUME IInv, UNCHANGED <<graph, partition>>
  PROVE  GraphOK' /\ MembersInv' /\ EdgesInv'
<1>1. GraphOK' /\ \A n \in Node : Inputs(n)' = Inputs(n)
  BY GraphKept DEF IInv
<1>2. UNCHANGED <<next, used, nodes, finalized, groupOf>>
  BY DEF partition
<1>3. MembersInv'
  BY <1>2 DEF IInv, MembersInv
<1>4. EdgesInv'
  BY <1>1, <1>2 DEF IInv, EdgesInv
<1>5. QED
  BY <1>1, <1>3, <1>4

\* The steps of the resolve-and-claim loop.
LEMMA LoopIInv ==
  ASSUME IInv, EndPartition \/ Resolve \/ ClaimGroup \/ EndIteration
  PROVE  IInv'
<1> USE GraphAssumption
<1>1. UNCHANGED <<graph, partition>> /\ UNCHANGED <<next, used, nodes, finalized, groupOf>>
  BY DEF EndPartition, Resolve, ClaimGroup, EndIteration, partition
<1>2. GraphOK' /\ MembersInv' /\ EdgesInv'
  BY <1>1, PartitionKept
<1>3. resizes \subseteq Node /\ translates \subseteq Node
  BY DEF IInv, GraphOK
<1>4. TypeOK /\ CountsInv
  BY DEF IInv
<1>5. CASE EndPartition
  <2>1. TypeOK'
    BY <1>1, <1>4, <1>5 DEF EndPartition, claims, TypeOK
  <2>2. CountsInv'
    BY <1>1, <1>4, <1>5 DEF EndPartition, claims, CountsInv
  <2>3. QED
    BY <1>2, <2>1, <2>2 DEF IInv
<1>6. CASE Resolve
  <2>1. resolved' \subseteq Node
    BY <1>3, <1>4, <1>6 DEF Resolve, Resolvable, TypeOK
  <2>2. before' \in [resolved : 0 .. N, claimed : 0 .. N]
    <3>1. Cardinality(resolved) \in 0 .. N /\ Cardinality(claimed) \in 0 .. N
      BY <1>4, AtMostN DEF TypeOK, Node, Group
    <3>2. QED
      BY <1>6, <3>1 DEF Resolve
  <2>3. TypeOK'
    BY <1>1, <1>4, <1>6, <2>1, <2>2 DEF Resolve, TypeOK
  <2>4. CountsInv'
    BY <1>1, <1>4, <1>6 DEF Resolve, CountsInv
  <2>5. QED
    BY <1>2, <2>3, <2>4 DEF IInv
<1>7. CASE ClaimGroup
  <2>1. resolved' \subseteq Node
    BY <1>3, <1>4, <1>7 DEF ClaimGroup, Exported, TypeOK
  <2>2. cursor \in Group /\ cursor' = cursor + 1 /\ cursor + 1 \in 1 .. N + 1
    BY <1>4, <1>7 DEF ClaimGroup, TypeOK, Group
  <2>3. claimed' \subseteq Group
    BY <1>4, <1>7, <2>2 DEF ClaimGroup, TypeOK
  <2>4. TypeOK'
    BY <1>1, <1>4, <1>7, <2>1, <2>2, <2>3 DEF ClaimGroup, TypeOK
  <2>5. CountsInv'
    BY <1>1, <1>4, <1>7 DEF ClaimGroup, CountsInv
  <2>6. QED
    BY <1>2, <2>4, <2>5 DEF IInv
<1>8. CASE EndIteration
  <2>1. TypeOK'
    BY <1>1, <1>4, <1>8 DEF EndIteration, TypeOK, CountsInv
  <2>2. CountsInv'
    BY <1>1, <1>4, <1>8 DEF EndIteration, CountsInv, TypeOK
  <2>3. QED
    BY <1>2, <2>1, <2>2 DEF IInv
<1>9. QED
  BY <1>5, <1>6, <1>7, <1>8

\* Every step, or stutter, preserves the invariant.
LEMMA StepIInv == IInv /\ [Next]_vars => IInv'
<1> SUFFICES ASSUME IInv, [Next]_vars PROVE IInv'
  OBVIOUS
<1>1. CASE UNCHANGED vars
  <2>1. UNCHANGED <<graph, phase, partition, claims>>
    BY <1>1 DEF vars
  <2>2. GraphOK' /\ MembersInv' /\ EdgesInv'
    BY <2>1, PartitionKept
  <2>3. TypeOK'
    BY <2>1 DEF IInv, TypeOK, partition, claims
  <2>4. CountsInv'
    BY <2>1 DEF IInv, CountsInv, partition, claims
  <2>5. QED
    BY <2>2, <2>3, <2>4 DEF IInv
<1>2. CASE Next
  BY <1>2, BoundaryIInv, StartGroupIInv, MergeGroupIInv, JoinGroupIInv, LoopIInv DEF Next
<1>3. QED
  BY <1>1, <1>2

\* The types of the pass hold: lists of nodes, groups, shapes and counters stay
\* in their bounds, whatever the graph.
THEOREM TypeCorrect == Spec => []TypeOK
<1>1. IInv => TypeOK
  BY DEF IInv
<1>2. QED
  BY InitIInv, StepIInv, <1>1, PTL DEF Spec

-----------------------------------------------------------------------------
(* Fused groups are acyclic *)

\* When a unit could run, doubled: a group just before the node that finalized
\* it, and a group never finalized at the end.
Rank(u) == IF u < 0 THEN 1 - 2 * u
           ELSE IF finalized[u] = 0 THEN 2 * N + 2 ELSE 2 * finalized[u]

\* A unit is a group that is fused or the negation of a node that is not in one.
LEMMA UnitCases ==
  ASSUME IInv, NEW F, F \subseteq Group, NEW n \in Node
  PROVE  \/ UnitIn(F, n) = groupOf[n] /\ groupOf[n] \in F
         \/ UnitIn(F, n) = -n /\ groupOf[n] \notin F
BY DEF UnitIn

\* Groups are positive, and so differ from the units of single nodes.
LEMMA GroupPositive ==
  ASSUME NEW F, F \subseteq Group, NEW g \in F
  PROVE  g \in Group /\ g # 0 /\ ~(g < 0)
<1>1. g \in Group
  OBVIOUS
<1>2. QED
  BY <1>1, GraphAssumption DEF Group

\* Ranks are natural numbers.
LEMMA RankNat ==
  ASSUME IInv, NEW F, F \subseteq Group, NEW n \in Node
  PROVE  Rank(UnitIn(F, n)) \in Nat
<1> USE GraphAssumption
<1>1. finalized \in [Group -> 0 .. N]
  BY DEF IInv, TypeOK
<1>2. CASE UnitIn(F, n) = groupOf[n] /\ groupOf[n] \in F
  <2>1. groupOf[n] \in Group /\ ~(groupOf[n] < 0)
    BY <1>2, GroupPositive
  <2>2. finalized[groupOf[n]] \in 0 .. N
    BY <1>1, <2>1
  <2>3. QED
    BY <1>2, <2>1, <2>2 DEF Rank
<1>3. CASE UnitIn(F, n) = -n
  BY <1>3 DEF Rank, Node
<1>4. QED
  BY <1>2, <1>3, UnitCases

\* A unit that waits for another ranks higher.
LEMMA EdgeRank ==
  ASSUME IInv, NEW F, F \subseteq Group, F # {} => next = N + 1,
         NEW n \in Node, NEW m \in Inputs(n), UnitIn(F, m) # UnitIn(F, n)
  PROVE  Rank(UnitIn(F, m)) < Rank(UnitIn(F, n))
<1> USE GraphAssumption
<1>1. m \in Node /\ m < n
  BY InputsEarlier DEF IInv
<1>2. finalized \in [Group -> 0 .. N]
  BY DEF IInv, TypeOK
<1>3. CASE UnitIn(F, m) = groupOf[m] /\ groupOf[m] \in F
  <2>1. groupOf[m] # 0 /\ groupOf[m] \in Group /\ n < next /\ groupOf[n] # groupOf[m]
    <3>1. groupOf[m] \in Group /\ groupOf[m] # 0
      BY <1>3, GroupPositive
    <3>2. n < next
      BY <1>3 DEF Node
    <3>3. groupOf[n] # groupOf[m]
      BY <1>3 DEF UnitIn
    <3>4. QED
      BY <3>1, <3>2, <3>3
  <2>2. finalized[groupOf[m]] # 0 /\ finalized[groupOf[m]] <= n
    BY <2>1 DEF IInv, EdgesInv
  <2>3. Rank(UnitIn(F, m)) = 2 * finalized[groupOf[m]]
    BY <1>2, <1>3, <2>1, <2>2 DEF Rank, Group
  <2>4. CASE UnitIn(F, n) = groupOf[n] /\ groupOf[n] \in F
    <3>1. groupOf[n] \in Group /\ groupOf[n] # 0
      BY <2>4, GroupPositive
    <3>2. finalized[groupOf[n]] # 0 => n < finalized[groupOf[n]]
      BY <3>1 DEF IInv, MembersInv
    <3>3. QED
      BY <1>2, <2>1, <2>2, <2>3, <2>4, <3>1, <3>2 DEF Rank, Group, Node
  <2>5. CASE UnitIn(F, n) = -n
    BY <1>2, <2>1, <2>2, <2>3, <2>5 DEF Rank, Node
  <2>6. QED
    BY <2>4, <2>5, UnitCases
<1>4. CASE UnitIn(F, m) = -m
  <2>1. Rank(UnitIn(F, m)) = 1 + 2 * m
    BY <1>1, <1>4 DEF Rank, Node
  <2>2. CASE UnitIn(F, n) = groupOf[n] /\ groupOf[n] \in F
    <3>1. groupOf[n] \in Group /\ groupOf[n] # 0
      BY <2>2, GroupPositive
    <3>2. finalized[groupOf[n]] # 0 => n < finalized[groupOf[n]]
      BY <3>1 DEF IInv, MembersInv
    <3>3. QED
      BY <1>1, <1>2, <2>1, <2>2, <3>1, <3>2 DEF Rank, Group, Node
  <2>3. CASE UnitIn(F, n) = -n
    BY <1>1, <2>1, <2>3 DEF Rank, Node
  <2>4. QED
    BY <2>2, <2>3, UnitCases
<1>5. QED
  BY <1>1, <1>3, <1>4, UnitCases

\* Any set of complete groups may be fused: among the units of S, one of least
\* rank waits for none of the others.
LEMMA UnitsRunnable ==
  ASSUME IInv, NEW F, F \subseteq Group, F # {} => next = N + 1,
         \A n \in Node : implicit[n] = {}
  PROVE  RunnableWith(F)
<1> SUFFICES ASSUME NEW S \in (SUBSET {UnitIn(F, n) : n \in Node}) \ {{}}
             PROVE  \E u \in S : \A e \in Edges :
                      (UnitIn(F, e[2]) = u /\ UnitIn(F, e[1]) # u) => UnitIn(F, e[1]) \notin S
  BY DEF RunnableWith
<1> DEFINE Ranks == {Rank(u) : u \in S}
<1>1. Ranks \subseteq Nat /\ Ranks # {}
  BY RankNat
<1>2. PICK r \in Ranks : \A q \in Ranks : ~(<<q, r>> \in OpToRel(<, Nat))
  BY <1>1, NatLessThanWellFounded, WFMin
<1>3. \A q \in Ranks : ~(q < r)
  BY <1>1, <1>2 DEF OpToRel
<1>4. PICK u \in S : r = Rank(u)
  OBVIOUS
<1>5. ASSUME NEW e \in Edges, UnitIn(F, e[2]) = u, UnitIn(F, e[1]) # u
      PROVE  UnitIn(F, e[1]) \notin S
  <2>1. e[2] \in Node /\ e[1] \in Inputs(e[2])
    BY DEF Edges
  <2>2. Rank(UnitIn(F, e[1])) < r
    BY <1>4, <1>5, <2>1, EdgeRank
  <2>3. QED
    BY <1>3, <2>2
<1>6. QED
  BY <1>5

\* The groups the loop claims are complete when it starts to claim, and no set
\* of them makes a cycle with the nodes that are not fused.
THEOREM FusingIsAcyclic == Spec => []ClaimsAcyclic
<1>1. IInv => ClaimsAcyclic
  <2>1. SUFFICES ASSUME IInv, \A n \in Node : implicit[n] = {}
                 PROVE  RunnableWith(claimed)
    BY DEF ClaimsAcyclic
  <2>2. claimed \subseteq Group /\ (claimed # {} => next = N + 1)
    BY <2>1 DEF IInv, TypeOK, CountsInv
  <2>3. QED
    BY <2>1, <2>2, UnitsRunnable
<1>2. QED
  BY InitIInv, StepIInv, <1>1, PTL DEF Spec

-----------------------------------------------------------------------------
(* The lists of the groups *)

\* Only fuseable nodes are members, and a group not started has none.
ListsInv ==
  /\ \A n \in Node : groupOf[n] # 0 => n \in fuseable
  /\ \A g \in Group : g > used => nodes[g] = <<>>
  /\ ListsMatchMap
  /\ GroupsOrdered

\* The elements of a list.
Elements(s) == {s[i] : i \in DOMAIN s}

\* The elements of a list of nodes are finitely many nodes.
LEMMA ElementsType ==
  ASSUME NEW s \in Seq(Node)
  PROVE  Elements(s) \subseteq Node /\ IsFiniteSet(Elements(s))
<1>1. Elements(s) \subseteq Node
  BY LenProperties, ElementOfSeq DEF Elements
<1>2. IsFiniteSet(Node)
  BY FS_Interval, GraphAssumption DEF Node
<1>3. QED
  BY <1>1, <1>2, FS_Subset

\* Concatenation unites the elements.
LEMMA ElementsConcat ==
  ASSUME NEW s \in Seq(Node), NEW t \in Seq(Node)
  PROVE  Elements(s \o t) = Elements(s) \cup Elements(t)
<1>1. /\ DOMAIN s = 1 .. Len(s) /\ Len(s) \in Nat
      /\ DOMAIN t = 1 .. Len(t) /\ Len(t) \in Nat
  BY LenProperties
<1>2. DOMAIN (s \o t) = 1 .. Len(s) + Len(t)
  BY ConcatProperties, LenProperties
<1>3. \A i \in 1 .. Len(s) + Len(t) : (s \o t)[i] = IF i <= Len(s) THEN s[i] ELSE t[i - Len(s)]
  BY ConcatProperties
<1>4. ASSUME NEW x \in Elements(s \o t) PROVE x \in Elements(s) \cup Elements(t)
  <2>1. PICK i \in 1 .. Len(s) + Len(t) : x = (s \o t)[i]
    BY <1>2 DEF Elements
  <2>2. CASE i <= Len(s)
    BY <1>1, <1>3, <2>1, <2>2 DEF Elements
  <2>3. CASE ~(i <= Len(s))
    <3>1. i - Len(s) \in DOMAIN t /\ x = t[i - Len(s)]
      BY <1>1, <1>3, <2>1, <2>3
    <3>2. QED
      BY <3>1 DEF Elements
  <2>4. QED
    BY <2>2, <2>3
<1>5. ASSUME NEW x \in Elements(s) PROVE x \in Elements(s \o t)
  <2>1. PICK i \in 1 .. Len(s) : x = s[i]
    BY <1>1 DEF Elements
  <2>2. i \in DOMAIN (s \o t) /\ x = (s \o t)[i]
    BY <1>1, <1>2, <1>3, <2>1
  <2>3. QED
    BY <2>2 DEF Elements
<1>6. ASSUME NEW x \in Elements(t) PROVE x \in Elements(s \o t)
  <2>1. PICK i \in 1 .. Len(t) : x = t[i]
    BY <1>1 DEF Elements
  <2>2. i + Len(s) \in DOMAIN (s \o t) /\ x = (s \o t)[i + Len(s)]
    BY <1>1, <1>2, <1>3, <2>1
  <2>3. QED
    BY <2>2 DEF Elements
<1>7. QED
  BY <1>4, <1>5, <1>6

\* A list of one node.
LEMMA ElementsOne ==
  ASSUME NEW n \in Node
  PROVE  <<n>> \in Seq(Node) /\ Len(<<n>>) = 1 /\ Elements(<<n>>) = {n} /\ <<n>>[1] = n
BY DEF Elements

\* Concatenating lists without repetitions or common elements repeats none.
LEMMA ConcatExact ==
  ASSUME NEW s \in Seq(Node), NEW t \in Seq(Node),
         Len(s) = Cardinality(Elements(s)), Len(t) = Cardinality(Elements(t)),
         Elements(s) \cap Elements(t) = {}
  PROVE  Len(s \o t) = Cardinality(Elements(s \o t))
<1>1. IsFiniteSet(Elements(s)) /\ IsFiniteSet(Elements(t))
  BY ElementsType
<1>2. Cardinality(Elements(s) \cup Elements(t))
        = Cardinality(Elements(s)) + Cardinality(Elements(t)) - Cardinality(Elements(s) \cap Elements(t))
  BY <1>1, FS_Union
<1>3. Cardinality(Elements(s) \cap Elements(t)) = 0
  BY FS_EmptySet
<1>4. Len(s) \in Nat /\ Len(t) \in Nat /\ Len(s \o t) = Len(s) + Len(t)
  BY LenProperties, ConcatProperties
<1>5. Elements(s \o t) = Elements(s) \cup Elements(t)
  BY ElementsConcat
<1>6. QED
  BY <1>2, <1>3, <1>4, <1>5

\* Concatenating ordered lists keeps the order if no element of the first waits
\* for one of the second.
LEMMA ConcatOrdered ==
  ASSUME NEW s \in Seq(Node), NEW t \in Seq(Node), NEW E,
         \A i, j \in DOMAIN s : i < j => <<s[j], s[i]>> \notin E,
         \A i, j \in DOMAIN t : i < j => <<t[j], t[i]>> \notin E,
         \A x \in Elements(s), y \in Elements(t) : <<y, x>> \notin E
  PROVE  \A i, j \in DOMAIN (s \o t) : i < j => <<(s \o t)[j], (s \o t)[i]>> \notin E
<1>1. /\ DOMAIN s = 1 .. Len(s) /\ Len(s) \in Nat
      /\ DOMAIN t = 1 .. Len(t) /\ Len(t) \in Nat
      /\ DOMAIN (s \o t) = 1 .. Len(s) + Len(t)
  BY LenProperties, ConcatProperties
<1>2. \A i \in 1 .. Len(s) + Len(t) : (s \o t)[i] = IF i <= Len(s) THEN s[i] ELSE t[i - Len(s)]
  BY ConcatProperties
<1>3. SUFFICES ASSUME NEW i \in 1 .. Len(s) + Len(t), NEW j \in 1 .. Len(s) + Len(t), i < j
               PROVE  <<(s \o t)[j], (s \o t)[i]>> \notin E
  BY <1>1
<1>4. CASE j <= Len(s)
  <2>1. i \in DOMAIN s /\ j \in DOMAIN s /\ (s \o t)[i] = s[i] /\ (s \o t)[j] = s[j]
    BY <1>1, <1>2, <1>3, <1>4
  <2>2. QED
    BY <1>3, <2>1
<1>5. CASE i <= Len(s) /\ ~(j <= Len(s))
  <2>1. i \in DOMAIN s /\ j - Len(s) \in DOMAIN t
        /\ (s \o t)[i] = s[i] /\ (s \o t)[j] = t[j - Len(s)]
    BY <1>1, <1>2, <1>5
  <2>2. (s \o t)[i] \in Elements(s) /\ (s \o t)[j] \in Elements(t)
    BY <2>1 DEF Elements
  <2>3. QED
    BY <2>2
<1>6. CASE ~(i <= Len(s))
  <2>1. /\ i - Len(s) \in DOMAIN t /\ j - Len(s) \in DOMAIN t /\ i - Len(s) < j - Len(s)
        /\ (s \o t)[i] = t[i - Len(s)] /\ (s \o t)[j] = t[j - Len(s)]
    BY <1>1, <1>2, <1>3, <1>6
  <2>2. QED
    BY <2>1
<1>7. QED
  BY <1>1, <1>4, <1>5, <1>6

\* No edge leads from a node to itself or an earlier one.
LEMMA EdgesForward ==
  ASSUME GraphOK, NEW m, NEW n, <<m, n>> \in Edges
  PROVE  m \in Node /\ n \in Node /\ m < n
<1>1. m \in Node /\ n \in Node /\ m \in Inputs(n) \cup implicit[n]
  BY DEF Edges
<1>2. CASE m \in Inputs(n)
  BY <1>1, <1>2, InputsEarlier
<1>3. CASE m \in implicit[n]
  BY <1>1, <1>3 DEF GraphOK
<1>4. QED
  BY <1>1, <1>2, <1>3

\* The edges do not change.
LEMMA EdgesKept ==
  ASSUME UNCHANGED graph
  PROVE  Edges' = Edges
BY DEF graph, Edges, Inputs

\* Initially all lists are empty.
LEMMA InitLists == Init => ListsInv
<1> SUFFICES ASSUME Init PROVE ListsInv
  OBVIOUS
<1>1. nodes = [g \in Group |-> <<>>] /\ groupOf = [n \in Node |-> 0]
  BY DEF Init, InitPasses
<1>2. \A g \in Group : Members(g) = {} /\ Len(nodes[g]) = 0 /\ DOMAIN nodes[g] = {}
  BY <1>1, EmptySeq DEF Members
<1>3. ListsMatchMap
  <2>1. \A g \in Group : {n \in Node : groupOf[n] = g} = {}
    BY <1>1 DEF Group
  <2>2. \A g \in Group : Cardinality(Members(g)) = 0
    BY <1>2, FS_EmptySet
  <2>3. QED
    BY <1>2, <2>1, <2>2 DEF ListsMatchMap
<1>4. GroupsOrdered
  BY <1>2 DEF GroupsOrdered
<1>5. QED
  BY <1>1, <1>3, <1>4 DEF ListsInv

\* The steps that leave groups and lists alone.
LEMMA ListsKept ==
  ASSUME ListsInv, UNCHANGED <<graph, used, nodes, groupOf>>
  PROVE  ListsInv'
<1>1. Edges' = Edges
  BY EdgesKept
<1>2. \A g : Members(g)' = Members(g)
  BY DEF Members
<1>3. ListsMatchMap'
  BY <1>2 DEF ListsInv, ListsMatchMap
<1>4. GroupsOrdered'
  BY <1>1 DEF ListsInv, GroupsOrdered
<1>5. QED
  BY <1>3, <1>4 DEF ListsInv, graph

\* The nodes a group map puts in a group.
InGroup(map, g) == {n \in Node : map[n] = g}

\* List s lists the nodes of S, each once, producers first.
Exact(s, S) ==
  /\ Elements(s) = S
  /\ Len(s) = Cardinality(Elements(s))
  /\ \A i, j \in DOMAIN s : i < j => <<s[j], s[i]>> \notin Edges

\* The two properties of the lists, in these terms.
LEMMA ListsExact ==
  ListsMatchMap /\ GroupsOrdered <=> \A g \in Group : Exact(nodes[g], InGroup(groupOf, g))
<1>1. \A g : Members(g) = Elements(nodes[g])
  BY DEF Members, Elements
<1>2. QED
  BY <1>1 DEF ListsMatchMap, GroupsOrdered, Exact, InGroup

\* The same in the next state.
LEMMA ListsExactNext ==
  ASSUME UNCHANGED graph, \A g \in Group : Exact(nodes'[g], InGroup(groupOf', g))
  PROVE  ListsMatchMap' /\ GroupsOrdered'
<1>1. \A g : Members(g)' = Elements(nodes'[g])
  BY DEF Members, Elements
<1>2. Edges' = Edges
  BY EdgesKept
<1>3. QED
  BY <1>1, <1>2 DEF ListsMatchMap, GroupsOrdered, Exact, InGroup

\* A new group lists its only node.
LEMMA StartGroupLists ==
  ASSUME IInv, ListsInv, NEW n \in Node, StartGroup(n)
  PROVE  ListsInv'
<1> USE GraphAssumption
<1> DEFINE g == used + 1
<1>1. /\ n = next /\ n \in fuseable /\ UNCHANGED graph /\ used' = g
      /\ nodes' = [nodes EXCEPT ![g] = <<n>>] /\ groupOf' = [groupOf EXCEPT ![n] = g]
  BY DEF StartGroup, Visiting
<1>2. g \in Group /\ groupOf \in [Node -> 0 .. used] /\ nodes \in [Group -> Seq(Node)] /\ used \in 0 .. N
  BY <1>1 DEF IInv, TypeOK, CountsInv, Group, Node
<1>3. groupOf[n] = 0
  BY <1>1, <1>2 DEF IInv, MembersInv, Node
<1>4. Exact(nodes'[g], InGroup(groupOf', g))
  <2>1. nodes'[g] = <<n>>
    BY <1>1, <1>2
  <2>2. InGroup(groupOf', g) = {n}
    BY <1>1, <1>2 DEF InGroup
  <2>3. Len(<<n>>) = 1 /\ Elements(<<n>>) = {n} /\ Cardinality({n}) = 1
    BY ElementsOne, FS_Singleton
  <2>4. \A i, j \in DOMAIN <<n>> : ~(i < j)
    OBVIOUS
  <2>5. QED
    BY <2>1, <2>2, <2>3, <2>4 DEF Exact
<1>5. ASSUME NEW h \in Group, h # g PROVE Exact(nodes'[h], InGroup(groupOf', h))
  <2>1. nodes'[h] = nodes[h]
    BY <1>1, <1>2, <1>5
  <2>2. InGroup(groupOf', h) = InGroup(groupOf, h)
    BY <1>1, <1>2, <1>3, <1>5 DEF InGroup, Group
  <2>3. QED
    BY <2>1, <2>2, ListsExact DEF ListsInv
<1>9. ListsMatchMap' /\ GroupsOrdered'
  BY <1>1, <1>4, <1>5, ListsExactNext
<1>10. \A k \in Node : groupOf'[k] # 0 => k \in fuseable'
  BY <1>1, <1>2 DEF ListsInv, graph
<1>11. \A h \in Group : h > used' => nodes'[h] = <<>>
  BY <1>1, <1>2 DEF ListsInv, Group, g
<1>12. QED
  BY <1>9, <1>10, <1>11 DEF ListsInv

\* A merged list has the nodes of both groups; neither group uses the other, as
\* both are open.
LEMMA MergeGroupLists ==
  ASSUME IInv, ListsInv, NEW n \in Node, MergeGroup(n)
  PROVE  ListsInv'
<1> USE GraphAssumption
<1>1. PICK i \in DOMAIN inputs[n], k \in DOMAIN inputs[n] :
        /\ OpenInput(n, i) /\ OpenInput(n, k)
        /\ groupOf[inputs[n][k]] # groupOf[inputs[n][i]]
        /\ nodes' = [nodes EXCEPT
              ![groupOf[inputs[n][i]]] = nodes[groupOf[inputs[n][i]]] \o nodes[groupOf[inputs[n][k]]],
              ![groupOf[inputs[n][k]]] = <<>>]
        /\ groupOf' = Remapped(groupOf[inputs[n][k]], groupOf[inputs[n][i]])
  BY DEF MergeGroup, IsTarget
<1> DEFINE target == groupOf[inputs[n][i]]
           src == groupOf[inputs[n][k]]
<1>2. /\ target \in Group /\ target <= used /\ finalized[target] = 0
      /\ src \in Group /\ src <= used /\ finalized[src] = 0 /\ src # target
  BY <1>1, OpenInputGroup DEF IInv
<1>3. groupOf' = [m \in Node |-> IF groupOf[m] = src THEN target ELSE groupOf[m]]
  BY <1>1 DEF Remapped
<1>4. nodes' = [nodes EXCEPT ![target] = nodes[target] \o nodes[src], ![src] = <<>>]
  BY <1>1
<1>5. n = next /\ UNCHANGED <<graph, used>>
  BY DEF MergeGroup, Visiting
<1> HIDE DEF target, src
<1>6. groupOf \in [Node -> 0 .. used] /\ used \in 0 .. N /\ nodes \in [Group -> Seq(Node)]
  BY DEF IInv, TypeOK
<1>7. Exact(nodes[target], InGroup(groupOf, target)) /\ Exact(nodes[src], InGroup(groupOf, src))
  BY <1>2, ListsExact DEF ListsInv
<1>8. nodes[target] \in Seq(Node) /\ nodes[src] \in Seq(Node)
  BY <1>2, <1>6
<1>9. Exact(nodes'[target], InGroup(groupOf', target))
  <2>1. nodes'[target] = nodes[target] \o nodes[src]
    BY <1>2, <1>4, <1>6
  <2>2. InGroup(groupOf', target) = InGroup(groupOf, target) \cup InGroup(groupOf, src)
    BY <1>2, <1>3 DEF InGroup
  <2>3. Elements(nodes[target] \o nodes[src]) = InGroup(groupOf', target)
    BY <1>7, <1>8, <2>2, ElementsConcat DEF Exact
  <2>4. Elements(nodes[target]) \cap Elements(nodes[src]) = {}
    BY <1>2, <1>7 DEF Exact, InGroup
  <2>5. Len(nodes[target] \o nodes[src]) = Cardinality(Elements(nodes[target] \o nodes[src]))
    BY <1>7, <1>8, <2>4, ConcatExact DEF Exact
  <2>6. ASSUME NEW x \in Elements(nodes[target]), NEW y \in Elements(nodes[src])
        PROVE  <<y, x>> \notin Edges
    <3>1. x \in Node /\ y \in Node /\ groupOf[x] = target /\ groupOf[y] = src
      BY <1>7 DEF Exact, InGroup
    <3>2. groupOf[x] # 0 /\ groupOf[y] # 0
      BY <1>2, <3>1 DEF Group
    <3>3. x < next /\ implicit[x] = {}
      BY <3>1, <3>2 DEF IInv, MembersInv, ListsInv, GraphOK
    <3>4. y \notin Inputs(x)
      BY <1>2, <3>1, <3>2, <3>3 DEF IInv, EdgesInv
    <3>5. QED
      BY <3>3, <3>4 DEF Edges
  <2>7. \A a, b \in DOMAIN (nodes[target] \o nodes[src]) :
           a < b => <<(nodes[target] \o nodes[src])[b], (nodes[target] \o nodes[src])[a]>> \notin Edges
    BY <1>7, <1>8, <2>6, ConcatOrdered DEF Exact
  <2>8. QED
    BY <2>1, <2>3, <2>5, <2>7 DEF Exact
<1>10. Exact(nodes'[src], InGroup(groupOf', src))
  <2>1. nodes'[src] = <<>>
    BY <1>2, <1>4, <1>6
  <2>2. InGroup(groupOf', src) = {}
    BY <1>2, <1>3 DEF InGroup
  <2>3. Elements(<<>>) = {} /\ Len(<<>>) = 0 /\ Cardinality({}) = 0 /\ DOMAIN <<>> = {}
    BY FS_EmptySet DEF Elements
  <2>4. QED
    BY <2>1, <2>2, <2>3 DEF Exact
<1>11. ASSUME NEW h \in Group, h # target, h # src PROVE Exact(nodes'[h], InGroup(groupOf', h))
  <2>1. nodes'[h] = nodes[h]
    BY <1>2, <1>4, <1>6, <1>11
  <2>2. InGroup(groupOf', h) = InGroup(groupOf, h)
    BY <1>3, <1>11 DEF InGroup
  <2>3. QED
    BY <2>1, <2>2, ListsExact DEF ListsInv
<1>12. ListsMatchMap' /\ GroupsOrdered'
  BY <1>5, <1>9, <1>10, <1>11, ListsExactNext
<1>13. \A m \in Node : groupOf'[m] # 0 => m \in fuseable'
  BY <1>2, <1>3, <1>5 DEF ListsInv, graph, Group
<1>14. \A h \in Group : h > used' => nodes'[h] = <<>>
  BY <1>2, <1>4, <1>5, <1>6 DEF ListsInv, Group
<1>15. QED
  BY <1>12, <1>13, <1>14 DEF ListsInv

\* A node that joins is listed after the members, which are earlier nodes.
LEMMA JoinGroupLists ==
  ASSUME IInv, ListsInv, NEW n \in Node, JoinGroup(n)
  PROVE  ListsInv'
<1> USE GraphAssumption
<1>1. PICK i \in DOMAIN inputs[n] :
        /\ OpenInput(n, i)
        /\ nodes' = [nodes EXCEPT ![groupOf[inputs[n][i]]] = Joined(groupOf[inputs[n][i]], n)]
        /\ groupOf' = [groupOf EXCEPT ![n] = groupOf[inputs[n][i]]]
  BY DEF JoinGroup, IsTarget
<1> DEFINE target == groupOf[inputs[n][i]]
<1>2. target \in Group /\ target <= used
  BY <1>1, OpenInputGroup DEF IInv
<1>3. nodes' = [nodes EXCEPT ![target] = Append(nodes[target], n)]
  BY <1>1 DEF Joined
<1>4. groupOf' = [groupOf EXCEPT ![n] = target]
  BY <1>1
<1>5. n = next /\ n \in fuseable /\ UNCHANGED <<graph, used>>
  BY DEF JoinGroup, Visiting
<1> HIDE DEF target
<1>6. groupOf \in [Node -> 0 .. used] /\ used \in 0 .. N /\ nodes \in [Group -> Seq(Node)]
  BY DEF IInv, TypeOK
<1>7. Exact(nodes[target], InGroup(groupOf, target)) /\ nodes[target] \in Seq(Node)
  BY <1>2, <1>6, ListsExact DEF ListsInv
<1>8. groupOf[n] = 0
  BY <1>5, <1>6 DEF IInv, MembersInv, Node
<1>9. Exact(nodes'[target], InGroup(groupOf', target))
  <2>1. nodes'[target] = nodes[target] \o <<n>>
    BY <1>2, <1>3, <1>6, <1>7, AppendIsConcat
  <2>2. InGroup(groupOf', target) = InGroup(groupOf, target) \cup {n}
    BY <1>4, <1>6 DEF InGroup
  <2>3. <<n>> \in Seq(Node) /\ Len(<<n>>) = 1 /\ Elements(<<n>>) = {n} /\ Cardinality({n}) = 1
    BY ElementsOne, FS_Singleton
  <2>4. Elements(nodes[target] \o <<n>>) = InGroup(groupOf', target)
    BY <1>7, <2>2, <2>3, ElementsConcat DEF Exact
  <2>5. Elements(nodes[target]) \cap Elements(<<n>>) = {}
    BY <1>2, <1>7, <1>8, <2>3 DEF Exact, InGroup, Group
  <2>6. Len(nodes[target] \o <<n>>) = Cardinality(Elements(nodes[target] \o <<n>>))
    BY <1>7, <2>3, <2>5, ConcatExact DEF Exact
  <2>7. ASSUME NEW x \in Elements(nodes[target]), NEW y \in Elements(<<n>>)
        PROVE  <<y, x>> \notin Edges
    <3>1. x \in Node /\ groupOf[x] # 0 /\ y = n
      BY <1>2, <1>7, <2>3 DEF Exact, InGroup, Group
    <3>2. x < n
      BY <1>5, <3>1 DEF IInv, MembersInv
    <3>3. QED
      BY <3>1, <3>2, EdgesForward DEF IInv, Node
  <2>8. \A a, b \in DOMAIN <<n>> : a < b => << <<n>>[b], <<n>>[a] >> \notin Edges
    OBVIOUS
  <2>9. \A a, b \in DOMAIN (nodes[target] \o <<n>>) :
           a < b => <<(nodes[target] \o <<n>>)[b], (nodes[target] \o <<n>>)[a]>> \notin Edges
    BY <1>7, <2>3, <2>7, <2>8, ConcatOrdered DEF Exact
  <2>10. QED
    BY <2>1, <2>4, <2>6, <2>9 DEF Exact
<1>10. ASSUME NEW h \in Group, h # target PROVE Exact(nodes'[h], InGroup(groupOf', h))
  <2>1. nodes'[h] = nodes[h]
    BY <1>2, <1>3, <1>6, <1>10
  <2>2. InGroup(groupOf', h) = InGroup(groupOf, h)
    BY <1>4, <1>6, <1>8, <1>10 DEF InGroup, Group
  <2>3. QED
    BY <2>1, <2>2, ListsExact DEF ListsInv
<1>11. ListsMatchMap' /\ GroupsOrdered'
  BY <1>5, <1>9, <1>10, ListsExactNext
<1>12. \A m \in Node : groupOf'[m] # 0 => m \in fuseable'
  BY <1>4, <1>5, <1>6 DEF ListsInv, graph
<1>13. \A h \in Group : h > used' => nodes'[h] = <<>>
  BY <1>2, <1>3, <1>5, <1>6 DEF ListsInv, Group
<1>14. QED
  BY <1>11, <1>12, <1>13 DEF ListsInv

\* Every step, or stutter, preserves the lists.
LEMMA StepLists == IInv /\ ListsInv /\ [Next]_vars => ListsInv'
<1> SUFFICES ASSUME IInv, ListsInv, [Next]_vars PROVE ListsInv'
  OBVIOUS
<1>1. CASE UNCHANGED <<graph, used, nodes, groupOf>>
  BY <1>1, ListsKept
<1>2. CASE \E n \in Node : StartGroup(n)
  BY <1>2, StartGroupLists
<1>3. CASE \E n \in Node : MergeGroup(n)
  BY <1>3, MergeGroupLists
<1>4. CASE \E n \in Node : JoinGroup(n)
  BY <1>4, JoinGroupLists
<1>5. CASE \/ UNCHANGED vars \/ \E n \in Node : Boundary(n)
           \/ EndPartition \/ Resolve \/ ClaimGroup \/ EndIteration
  <2>1. UNCHANGED <<graph, used, nodes, groupOf>>
    BY <1>5 DEF vars, Boundary, EndPartition, Resolve, ClaimGroup, EndIteration, partition
  <2>2. QED
    BY <2>1, ListsKept
<1>6. QED
  BY <1>1, <1>2, <1>3, <1>4, <1>5 DEF Next

\* The lists and output_to_group stay two records of one partition.
THEOREM ListsAgree == Spec => []ListsMatchMap
<1>1. ListsInv => ListsMatchMap
  BY DEF ListsInv
<1>2. QED
  BY InitIInv, StepIInv, InitLists, StepLists, <1>1, PTL DEF Spec

\* TryTranslateNodes meets the nodes of a group in an order in which it can
\* translate them.
THEOREM TranslationOrder == Spec => []GroupsOrdered
<1>1. ListsInv => GroupsOrdered
  BY DEF ListsInv
<1>2. QED
  BY InitIInv, StepIInv, InitLists, StepLists, <1>1, PTL DEF Spec

-----------------------------------------------------------------------------
(* The loop stops when nothing more can be claimed *)

\* In an iteration: as long as nothing was resolved or claimed, every shape that
\* can be resolved is, and no group met so far can be claimed.
LoopInv ==
  /\ phase = "claim" =>
       /\ Cardinality(resolved) >= before.resolved
       /\ Cardinality(claimed) >= before.claimed
       /\ (Cardinality(resolved) = before.resolved /\ Cardinality(claimed) = before.claimed)
            => /\ Resolvable \subseteq resolved
               /\ \A g \in Group : (g < cursor /\ g \notin claimed) => ~Claimable(g)
  /\ ClaimsComplete

\* Whether a group can be claimed depends on its nodes and the shapes known.
LEMMA ClaimableKept ==
  ASSUME UNCHANGED <<graph, nodes, resolved>>
  PROVE  Resolvable' = Resolvable /\ \A g : Claimable(g)' = Claimable(g)
<1>1. Resolvable' = Resolvable
  BY DEF graph, Resolvable, Known
<1>2. \A g : Members(g)' = Members(g)
  BY DEF Members
<1>3. \A n : Inputs(n)' = Inputs(n)
  BY DEF graph, Inputs
<1>4. \A m : Known(m)' = Known(m)
  BY DEF graph, Known
<1>5. \A g : ValidateTier0(g)' = ValidateTier0(g)
  BY <1>2, <1>3, <1>4 DEF ValidateTier0
<1>6. QED
  BY <1>1, <1>2, <1>5 DEF Claimable, graph

\* A set of nodes or groups that grows without having more elements is the same.
LEMMA SameCardinality ==
  ASSUME NEW S, NEW T, T \subseteq 1 .. N, S \subseteq T
  PROVE  Cardinality(S) <= Cardinality(T) /\ (Cardinality(S) = Cardinality(T) => S = T)
<1>1. IsFiniteSet(1 .. N)
  BY FS_Interval, GraphAssumption
<1>2. IsFiniteSet(T)
  BY <1>1, FS_Subset
<1>3. QED
  BY <1>2, FS_Subset

\* Initially no iteration has begun.
LEMMA InitLoop == Init => LoopInv
BY DEF Init, InitPasses, LoopInv, ClaimsComplete

\* The loop's steps preserve its invariant.
LEMMA StepLoop == IInv /\ ListsInv /\ LoopInv /\ [Next]_vars => LoopInv'
<1> SUFFICES ASSUME IInv, ListsInv, LoopInv, [Next]_vars PROVE LoopInv'
  OBVIOUS
<1> USE GraphAssumption
<1>1. /\ resolved \subseteq 1 .. N /\ claimed \subseteq 1 .. N
      /\ Cardinality(resolved) \in 0 .. N /\ Cardinality(claimed) \in 0 .. N
      /\ before \in [resolved : 0 .. N, claimed : 0 .. N]
      /\ iter \in 0 .. MaxIterations /\ cursor \in 1 .. N + 1 /\ used \in 0 .. N
  BY AtMostN DEF IInv, TypeOK, Node, Group
<1>2. TypeOK'
  BY StepIInv DEF IInv
<1>3. /\ resolved' \subseteq 1 .. N /\ claimed' \subseteq 1 .. N
      /\ Cardinality(resolved)' \in 0 .. N /\ Cardinality(claimed)' \in 0 .. N
  BY <1>2, AtMostN DEF TypeOK, Node, Group
<1>4. CASE phase = "partition" /\ (phase' = "partition" \/ phase' = "resolve")
  BY <1>4 DEF LoopInv, ClaimsComplete
<1>5. CASE UNCHANGED vars
  <2>1. UNCHANGED <<graph, nodes, resolved, phase, claimed, cursor, before, iter>>
    BY <1>5 DEF vars, partition, claims
  <2>2. Resolvable' = Resolvable /\ \A g : Claimable(g)' = Claimable(g)
    BY <2>1, ClaimableKept
  <2>3. QED
    BY <2>1, <2>2 DEF LoopInv, ClaimsComplete, graph
<1>6. CASE Resolve
  <2>1. /\ phase = "resolve" /\ phase' = "claim" /\ cursor' = 1
        /\ before' = [resolved |-> Cardinality(resolved), claimed |-> Cardinality(claimed)]
        /\ resolved' = resolved \cup Resolvable /\ claimed' = claimed
        /\ UNCHANGED <<graph, nodes>>
    BY <1>6 DEF Resolve, partition
  <2>2. Cardinality(resolved) <= Cardinality(resolved')
        /\ (Cardinality(resolved) = Cardinality(resolved') => resolved = resolved')
    BY <1>3, <2>1, SameCardinality
  <2>3. ASSUME Cardinality(resolved') = before'.resolved
        PROVE  Resolvable' \subseteq resolved'
    <3>1. resolved' = resolved
      BY <2>1, <2>2, <2>3
    <3>2. Resolvable' = Resolvable
      BY <2>1, <3>1, ClaimableKept
    <3>3. QED
      BY <2>1, <3>2
  <2>4. \A g \in Group : ~(g < cursor')
    BY <2>1 DEF Group
  <2>5. QED
    BY <1>1, <1>3, <2>1, <2>2, <2>3, <2>4 DEF LoopInv, ClaimsComplete
<1>7. CASE ClaimGroup
  <2>1. /\ phase = "claim" /\ phase' = "claim" /\ cursor' = cursor + 1 /\ before' = before
        /\ resolved \subseteq resolved' /\ claimed \subseteq claimed'
        /\ UNCHANGED <<graph, nodes>>
        /\ claimed' = IF nodes[cursor] # <<>> /\ cursor \notin claimed /\ Claimable(cursor)
                      THEN claimed \cup {cursor} ELSE claimed
    BY <1>7 DEF ClaimGroup, partition
  <2>2. /\ Cardinality(resolved) <= Cardinality(resolved')
        /\ Cardinality(claimed) <= Cardinality(claimed')
        /\ Cardinality(resolved) = Cardinality(resolved') => resolved = resolved'
        /\ Cardinality(claimed) = Cardinality(claimed') => claimed = claimed'
    BY <1>3, <2>1, SameCardinality
  <2>3. Cardinality(resolved) >= before.resolved /\ Cardinality(claimed) >= before.claimed
    BY <2>1 DEF LoopInv
  <2>4. Cardinality(resolved') >= before.resolved /\ Cardinality(claimed') >= before.claimed
    BY <1>1, <1>3, <2>2, <2>3
  <2>5. ASSUME Cardinality(resolved') = before.resolved, Cardinality(claimed') = before.claimed
        PROVE  /\ Resolvable' \subseteq resolved'
               /\ \A g \in Group : (g < cursor' /\ g \notin claimed') => ~Claimable(g)'
    <3>1. resolved' = resolved /\ claimed' = claimed
          /\ Cardinality(resolved) = before.resolved /\ Cardinality(claimed) = before.claimed
      BY <1>1, <1>3, <2>2, <2>3, <2>5
    <3>2. Resolvable' = Resolvable /\ \A g : Claimable(g)' = Claimable(g)
      BY <2>1, <3>1, ClaimableKept
    <3>3. Resolvable \subseteq resolved /\ \A g \in Group : (g < cursor /\ g \notin claimed) => ~Claimable(g)
      BY <2>1, <3>1 DEF LoopInv
    <3>4. cursor \notin claimed => ~Claimable(cursor)
      BY <2>1, <3>1 DEF Claimable
    <3>5. \A g \in Group : g < cursor' => g < cursor \/ g = cursor
      BY <1>1, <2>1 DEF Group
    <3>6. QED
      BY <3>1, <3>2, <3>3, <3>4, <3>5
  <2>6. QED
    BY <2>1, <2>4, <2>5 DEF LoopInv, ClaimsComplete
<1>8. CASE EndIteration
  <2>1. /\ phase = "claim" /\ cursor > used /\ iter' = iter + 1
        /\ phase' \in {"resolve", "claimed"}
        /\ phase' = "claimed" => ~(MadeProgress /\ iter + 1 < MaxIterations)
        /\ UNCHANGED <<graph, nodes, resolved, claimed>>
    BY <1>8 DEF EndIteration, partition
  <2>2. SUFFICES ASSUME phase' = "claimed", iter' < MaxIterations
                 PROVE  /\ \A g \in Group \ claimed' : ~Claimable(g)'
                        /\ Resolvable' \subseteq resolved'
    BY <2>1 DEF LoopInv, ClaimsComplete
  <2>3. Cardinality(resolved) = before.resolved /\ Cardinality(claimed) = before.claimed
    BY <1>1, <2>1, <2>2 DEF LoopInv, MadeProgress
  <2>4. Resolvable' = Resolvable /\ \A g : Claimable(g)' = Claimable(g)
    BY <2>1, ClaimableKept
  <2>5. ASSUME NEW g \in Group, g \notin claimed PROVE ~Claimable(g)
    <3>1. CASE g < cursor
      BY <2>1, <2>3, <2>5, <3>1 DEF LoopInv
    <3>2. CASE g > used
      BY <3>2 DEF ListsInv, Claimable
    <3>3. QED
      BY <1>1, <2>1, <3>1, <3>2 DEF Group
  <2>6. QED
    BY <2>1, <2>3, <2>4, <2>5 DEF LoopInv
<1>9. CASE EndPartition \/ \E n \in Node : Boundary(n) \/ StartGroup(n) \/ MergeGroup(n) \/ JoinGroup(n)
  <2>1. phase = "partition" /\ (phase' = "partition" \/ phase' = "resolve")
    BY <1>9 DEF EndPartition, Boundary, StartGroup, MergeGroup, JoinGroup, Visiting
  <2>2. QED
    BY <1>4, <2>1
<1>10. QED
  BY <1>5, <1>6, <1>7, <1>8, <1>9 DEF Next

\* Unless its bound stops it, the loop ends at a fixed point: no group that is left
\* could be claimed, and no shape that is left could be resolved.
THEOREM ClaimsReachFixedPoint == Spec => []ClaimsComplete
<1>1. LoopInv => ClaimsComplete
  BY DEF LoopInv
<1>2. QED
  BY InitIInv, StepIInv, InitLists, StepLists, InitLoop, StepLoop, <1>1, PTL DEF Spec

-----------------------------------------------------------------------------
(* The matcher *)

\* A set of numbers has a least one.
LEMMA LeastNumber ==
  ASSUME NEW S \in SUBSET Nat, S # {}
  PROVE  \E n \in S : \A m \in S : n <= m
<1>1. PICK n \in S : \A m \in S : ~(<<m, n>> \in OpToRel(<, Nat))
  BY NatLessThanWellFounded, WFMin
<1>2. \A m \in S : ~(m < n)
  BY <1>1 DEF OpToRel
<1> QED
  BY <1>2

\* What holds of 0, and of k whenever it holds of k - 1, holds up to m.
LEMMA UpTo ==
  ASSUME NEW m \in Nat, NEW P, 0 \in P, \A k \in 1..m : k - 1 \in P => k \in P
  PROVE  \A k \in 0..m : k \in P
<1> DEFINE Out == {k \in 0..m : k \notin P}
<1> SUFFICES ASSUME Out # {} PROVE FALSE
  OBVIOUS
<1>1. Out \in SUBSET Nat
  OBVIOUS
<1>2. PICK n \in Out : \A k \in Out : n <= k
  <2> HIDE DEF Out
  <2> QED
    BY <1>1, LeastNumber
<1>3. n \in 1..m /\ n - 1 \in 0..m /\ n - 1 < n
  BY <1>2
<1>4. n - 1 \in P
  BY <1>2, <1>3
<1> QED
  BY <1>2, <1>3, <1>4

\* A function may be defined by its value at 0 and a step.
Follows(g, S, e, f, m) ==
  g \in [0..m -> S] /\ \A k \in 0..m : g[k] = IF k = 0 THEN e ELSE f[<<k, g[k - 1]>>]

LEMMA Recursion ==
  ASSUME NEW S, NEW e \in S, NEW m \in Nat, NEW f \in [(1..m) \X S -> S]
  PROVE  \E g : Follows(g, S, e, f, m)
<1> DEFINE P == {n \in 0..m : \E g : Follows(g, S, e, f, n)}
<1>1. 0 \in P
  <2>1. Follows([k \in 0..0 |-> e], S, e, f, 0)
    BY DEF Follows
  <2> QED
    BY <2>1
<1>2. ASSUME NEW n \in 1..m, n - 1 \in P PROVE n \in P
  <2>1. PICK g : Follows(g, S, e, f, n - 1)
    BY <1>2
  <2>2. n - 1 \in 0..n - 1 /\ g[n - 1] \in S /\ f[<<n, g[n - 1]>>] \in S
    BY <2>1 DEF Follows
  <2> DEFINE h == [k \in 0..n |-> IF k = n THEN f[<<n, g[n - 1]>>] ELSE g[k]]
  <2>3. h \in [0..n -> S]
    <3>1. \A k \in 0..n : k # n => k \in 0..n - 1
      OBVIOUS
    <3> QED
      BY <3>1, <2>1, <2>2 DEF Follows
  <2>4. ASSUME NEW k \in 0..n PROVE h[k] = IF k = 0 THEN e ELSE f[<<k, h[k - 1]>>]
    <3>1. CASE k = n
      <4>1. k # 0 /\ k - 1 \in 0..n /\ k - 1 # n
        BY <3>1
      <4> QED
        BY <3>1, <4>1
    <3>2. CASE k # n
      <4>1. k \in 0..n - 1
        BY <3>2
      <4>2. h[k] = g[k] /\ (k # 0 => k - 1 \in 0..n /\ h[k - 1] = g[k - 1])
        BY <3>2, <4>1
      <4> QED
        BY <2>1, <4>1, <4>2 DEF Follows
    <3> QED
      BY <3>1, <3>2
  <2> HIDE DEF h
  <2>5. Follows(h, S, e, f, n)
    BY <2>3, <2>4 DEF Follows
  <2> QED
    BY <2>5
<1> HIDE DEF P
<1>3. m \in P
  BY <1>1, <1>2, UpTo
<1> QED
  BY <1>3 DEF P

\* Matches none of whose nodes is in a set.
Avoiding(S) == {m \in Match : \A i \in DOMAIN m.nodes : m.nodes[i] \notin S}

\* What is asked of the recursion: a node, a pattern, and the match so far.
Calls == Node \X Trees \X Match

\* A function of these that stays clear of a set.
Avoids(below, S) ==
  below \in [Calls -> Match] /\ \A x \in Calls : x[3] \in Avoiding(S) => below[x] \in Avoiding(S)

LEMMA NoMatchAvoids == ASSUME NEW S PROVE NoMatch \in Avoiding(S)
<1>1. NoMatch \in Match /\ NoMatch.nodes = <<>>
  BY DEF NoMatch, Match
<1> QED
  BY <1>1 DEF Avoiding

\* The values a node reads.
LEMMA InputInRange ==
  ASSUME GraphOK, NEW n \in Node
  PROVE  /\ \A i \in DOMAIN inputs[n] : inputs[n][i] \in 0 .. N
         /\ inputs[n] # <<>> => inputs[n][1] \in 0 .. N
<1>1. \A V : \A s \in Seq(V) : (\A i \in DOMAIN s : s[i] \in V) /\ (s # <<>> => s[1] \in V)
  OBVIOUS
<1>2. inputs[n] \in Seq(0 .. N)
  BY DEF GraphOK
<1> QED
  BY <1>1, <1>2

\* One edge.
LEMMA FollowAvoids ==
  ASSUME GraphOK, NEW S, NEW below, Avoids(below, S), NEW n \in Node,
         NEW e, e.child \in Trees, NEW m \in Avoiding(S)
  PROVE  Follow(n, e, m, below) \in Avoiding(S)
<1> DEFINE cs == Children(n, e)
           c == CHOOSE c \in cs : \A d \in cs : c <= d
           tried == IF cs = {} THEN NoMatch ELSE below[<<c, e.child, m>>]
<1>1. cs \subseteq Node
  <2>1. \A i \in DOMAIN inputs[n] : inputs[n][i] \in 0 .. N
    BY InputInRange
  <2>2. \A x \in 0 .. N : x # 0 => x \in Node
    BY GraphAssumption DEF Node
  <2> QED
    BY <2>1, <2>2 DEF Children
<1>2. cs # {} => c \in Node
  <2> HIDE DEF cs
  <2> SUFFICES ASSUME cs # {} PROVE c \in Node
    OBVIOUS
  <2>1. cs \in SUBSET Nat
    BY <1>1 DEF Node
  <2>2. \E x \in cs : \A d \in cs : x <= d
    BY <2>1, LeastNumber
  <2> QED
    BY <1>1, <2>2
<1> HIDE DEF cs, c
<1>3. tried \in Avoiding(S)
  <2>1. CASE cs = {}
    BY <2>1, NoMatchAvoids
  <2>2. CASE cs # {}
    <3> DEFINE x == <<c, e.child, m>>
    <3>1. x \in Calls /\ x[3] = m
      BY <1>2, <2>2 DEF Calls, Avoiding
    <3> HIDE DEF x
    <3>2. below[x] \in Avoiding(S)
      BY <3>1 DEF Avoids
    <3> QED
      BY <2>2, <3>2 DEF x
  <2> QED
    BY <2>1, <2>2
<1>4. Follow(n, e, m, below) \in {NoMatch, tried, m}
  BY DEF Follow, tried, cs, c
<1> HIDE DEF tried
<1> QED
  BY <1>3, <1>4, NoMatchAvoids

\* The edges of a node, one after the other.
Along(n, edges, m, below, along) ==
  /\ along \in [0 .. Len(edges) -> Match]
  /\ along[0] = m
  /\ \A i \in 1 .. Len(edges) : along[i] = Follow(n, edges[i], along[i - 1], below)
  /\ MatchEdges(n, edges, m, below) = along[Len(edges)]

LEMMA EdgesUnfold ==
  ASSUME GraphOK, NEW below \in [Calls -> Match], NEW n \in Node,
         NEW edges, Len(edges) \in Nat, \A i \in 1 .. Len(edges) : edges[i].child \in Trees,
         NEW m \in Match
  PROVE  \E along : Along(n, edges, m, below, along)
<1> DEFINE l == Len(edges)
           f == [q \in (1 .. l) \X Match |-> Follow(n, edges[q[1]], q[2], below)]
           along == CHOOSE g : g = [i \in 0 .. Len(edges) |->
             IF i = 0 THEN m ELSE Follow(n, edges[i], g[i - 1], below)]
<1>1. MatchEdges(n, edges, m, below) = along[l]
  BY DEF MatchEdges
<1>2. \A i \in 1 .. l : \A x \in Match : Follow(n, edges[i], x, below) \in Match
  <2>1. Avoids(below, {}) /\ \A x \in Match : x \in Avoiding({})
    BY DEF Avoids, Avoiding
  <2>2. \A x \in Avoiding({}) : x \in Match
    BY DEF Avoiding
  <2> QED
    BY <2>1, <2>2, FollowAvoids
<1>3. \E g : g = [i \in 0 .. l |->
             IF i = 0 THEN m ELSE Follow(n, edges[i], g[i - 1], below)]
  <2> HIDE DEF l
  <2>1. f \in [(1 .. l) \X Match -> Match]
    BY <1>2
  <2>2. \A i \in 1 .. l : \A x \in Match : f[<<i, x>>] = Follow(n, edges[i], x, below)
    OBVIOUS
  <2>3. l \in Nat
    BY DEF l
  <2> HIDE DEF f
  <2>4. PICK g : Follows(g, Match, m, f, l)
    BY <2>1, <2>3, Recursion
  <2>5. ASSUME NEW i \in 0 .. l
        PROVE  g[i] = IF i = 0 THEN m ELSE Follow(n, edges[i], g[i - 1], below)
    <3>1. CASE i = 0
      BY <2>4, <3>1 DEF Follows
    <3>2. CASE i # 0
      <4>1. i \in 1 .. l /\ i - 1 \in 0 .. l
        BY <2>3, <3>2
      <4>2. g[i - 1] \in Match /\ g[i] = f[<<i, g[i - 1]>>]
        BY <2>4, <3>2, <4>1 DEF Follows
      <4> QED
        BY <2>2, <3>2, <4>1, <4>2
    <3> QED
      BY <3>1, <3>2
  <2>6. g = [i \in 0 .. l |-> g[i]]
    BY <2>4 DEF Follows
  <2>7. g = [i \in 0 .. l |-> IF i = 0 THEN m ELSE Follow(n, edges[i], g[i - 1], below)]
    BY <2>5, <2>6
  <2> QED
    BY <2>7
<1>4. along = [i \in 0 .. l |->
             IF i = 0 THEN m ELSE Follow(n, edges[i], along[i - 1], below)]
  BY <1>3
<1>5. l \in Nat
  OBVIOUS
<1> HIDE DEF along, f, l
<1>6. along[0] = m /\ \A i \in 1 .. l : along[i] = Follow(n, edges[i], along[i - 1], below)
  <2>1. \A i \in 0 .. l : along[i] = IF i = 0 THEN m ELSE Follow(n, edges[i], along[i - 1], below)
    BY <1>4
  <2>2. 0 \in 0 .. l /\ \A i \in 1 .. l : i \in 0 .. l /\ i # 0
    BY <1>5
  <2> QED
    BY <2>1, <2>2
<1> DEFINE P == {i \in 0 .. l : along[i] \in Match}
<1>7. 0 \in P
  BY <1>5, <1>6
<1>8. ASSUME NEW i \in 1 .. l, i - 1 \in P PROVE i \in P
  <2>1. along[i] = Follow(n, edges[i], along[i - 1], below) /\ along[i - 1] \in Match
    BY <1>6, <1>8
  <2> QED
    BY <1>2, <1>5, <2>1
<1> HIDE DEF P
<1>9. \A i \in 0 .. l : i \in P
  BY <1>5, <1>7, <1>8, UpTo
<1>10. along \in [0 .. l -> Match]
  BY <1>4, <1>9 DEF P
<1> QED
  BY <1>1, <1>6, <1>10 DEF Along, l

\* All edges.
LEMMA EdgesAvoid ==
  ASSUME GraphOK, NEW S, NEW below, Avoids(below, S), NEW n \in Node,
         NEW edges, Len(edges) \in Nat, \A i \in 1 .. Len(edges) : edges[i].child \in Trees,
         NEW m \in Avoiding(S)
  PROVE  MatchEdges(n, edges, m, below) \in Avoiding(S)
<1> DEFINE l == Len(edges)
<1>1. m \in Match /\ below \in [Calls -> Match]
  BY DEF Avoiding, Avoids
<1>2. PICK along : Along(n, edges, m, below, along)
  BY <1>1, EdgesUnfold
<1>3. /\ along[0] = m /\ MatchEdges(n, edges, m, below) = along[l]
      /\ \A i \in 1 .. l : along[i] = Follow(n, edges[i], along[i - 1], below)
  BY <1>2 DEF Along
<1> DEFINE P == {i \in 0 .. l : along[i] \in Avoiding(S)}
<1>4. 0 \in P
  BY <1>3
<1>5. ASSUME NEW i \in 1 .. l, i - 1 \in P PROVE i \in P
  <2>1. along[i - 1] \in Avoiding(S) /\ i \in 0 .. l
    BY <1>5
  <2>2. along[i] \in Avoiding(S)
    BY <1>3, <2>1, FollowAvoids
  <2> QED
    BY <2>1, <2>2
<1>6. l \in Nat
  OBVIOUS
<1> HIDE DEF P, l
<1>7. \A i \in 0 .. l : i \in P
  BY <1>4, <1>5, <1>6, UpTo
<1>8. l \in P
  BY <1>6, <1>7
<1> QED
  BY <1>3, <1>8 DEF P

\* One call of the matcher, that takes no node of a set it was told is taken.
LEMMA OneAvoids ==
  ASSUME GraphOK, NEW taken, NEW S, S \subseteq taken, NEW below, Avoids(below, S),
         NEW n \in Node, NEW p \in Trees, NEW m \in Avoiding(S)
  PROVE  MatchOne(n, p, m, taken, below) \in Avoiding(S)
<1>1. CASE n \in taken \cup Matched(m) \/ op[n] # p.op \/ ~InputsMatch(n, p, m)
  BY <1>1, NoMatchAvoids DEF MatchOne
<1>2. CASE n \notin taken /\ InputsMatch(n, p, m)
           /\ ~(n \in taken \cup Matched(m) \/ op[n] # p.op \/ ~InputsMatch(n, p, m))
  <2> DEFINE v == Captured(n, p, m)
             k == [nodes |-> Append(m.nodes, n), value |-> v]
  <2>1. v \in 0 .. N \cup {NoValue}
    <3>1. m.value \in 0 .. N \cup {NoValue}
      BY DEF Avoiding, Match
    <3>2. inputs[n] # <<>> => inputs[n][1] \in 0 .. N
      BY InputInRange
    <3>3. CASE p.input = "first"
      BY <1>2, <3>2, <3>3 DEF Captured, InputsMatch
    <3>4. CASE p.input = "any"
      <4>1. inputs[n] # <<>>
        BY <1>2, <3>4 DEF InputsMatch
      <4> QED
        BY <3>1, <3>2, <3>4, <4>1 DEF Captured
    <3>5. CASE p.input # "first" /\ p.input # "any"
      BY <3>1, <3>5 DEF Captured
    <3> QED
      BY <3>3, <3>4, <3>5
  <2> HIDE DEF v
  <2>2. k \in Avoiding(S)
    <3>1. m.nodes \in Seq(Node) /\ \A i \in DOMAIN m.nodes : m.nodes[i] \notin S
      BY DEF Avoiding, Match
    <3>2. Append(m.nodes, n) \in Seq(Node)
      BY <3>1
    <3>3. \A i \in DOMAIN Append(m.nodes, n) : Append(m.nodes, n)[i] \notin S
      <4>1. n \notin S
        BY <1>2
      <4> QED
        BY <3>1, <4>1
    <3>4. k \in Match /\ k.nodes = Append(m.nodes, n)
      BY <2>1, <3>2 DEF Match
    <3> HIDE DEF k
    <3> QED
      BY <3>3, <3>4 DEF Avoiding
  <2>3. MatchOne(n, p, m, taken, below) = MatchEdges(n, p.edges, k, below)
    BY <1>2 DEF MatchOne, v
  <2>4. Len(p.edges) \in Nat /\ \A i \in 1 .. Len(p.edges) : p.edges[i].child \in Trees
    BY PatternAssumption
  <2> HIDE DEF k
  <2> QED
    BY <2>2, <2>3, <2>4, EdgesAvoid
<1> QED
  BY <1>1, <1>2

\* The calls of the matcher, by how deep they may go.
Deepens(taken, match) ==
  /\ match \in [0 .. N -> [Calls -> Match]]
  /\ match[0] = [x \in Calls |-> NoMatch]
  /\ \A d \in 1 .. N :
       match[d] = [x \in Calls |-> MatchOne(x[1], x[2], x[3], taken, match[d - 1])]

LEMMA MatchUnfold ==
  ASSUME GraphOK, NEW taken
  PROVE  \E match : /\ Deepens(taken, match)
                    /\ \A a, p : MatchNode(a, p, taken) = match[N][<<a, p, NoMatch>>]
<1> DEFINE F == [Calls -> Match]
           none == [x \in Calls |-> NoMatch]
           deeper(g) == [x \in Calls |-> MatchOne(x[1], x[2], x[3], taken, g)]
           f == [q \in (1 .. N) \X F |-> deeper(q[2])]
           match == CHOOSE g : g = [depth \in 0 .. N |->
             [x \in Node \X Trees \X Match |->
                IF depth = 0 THEN NoMatch ELSE MatchOne(x[1], x[2], x[3], taken, g[depth - 1])]]
<1>1. \A a, p : MatchNode(a, p, taken) = match[N][<<a, p, NoMatch>>]
  BY DEF MatchNode
<1>2. N \in Nat
  BY GraphAssumption
<1>3. NoMatch \in Match /\ \A m : m \in Match <=> m \in Avoiding({})
  BY NoMatchAvoids DEF Avoiding
<1>4. none \in F
  BY <1>3
<1>5. \A g \in F : deeper(g) \in F
  <2> SUFFICES ASSUME NEW g \in F, NEW x \in Calls
               PROVE  MatchOne(x[1], x[2], x[3], taken, g) \in Match
    OBVIOUS
  <2>1. Avoids(g, {})
    BY <1>3 DEF Avoids
  <2>2. x[1] \in Node /\ x[2] \in Trees /\ x[3] \in Avoiding({})
    BY <1>3 DEF Calls
  <2> QED
    BY <1>3, <2>1, <2>2, OneAvoids
<1>6. \E g : /\ g \in [0 .. N -> F]
             /\ g = [depth \in 0 .. N |->
                  [x \in Calls |->
                     IF depth = 0 THEN NoMatch ELSE MatchOne(x[1], x[2], x[3], taken, g[depth - 1])]]
  <2> HIDE DEF F, deeper, none
  <2>1. f \in [(1 .. N) \X F -> F]
    BY <1>5
  <2>2. \A d \in 1 .. N : \A g \in F : f[<<d, g>>] = deeper(g)
    OBVIOUS
  <2> HIDE DEF f
  <2>3. PICK g : Follows(g, F, none, f, N)
    BY <1>2, <1>4, <2>1, Recursion
  <2>4. ASSUME NEW d \in 0 .. N
        PROVE  g[d] = IF d = 0 THEN none ELSE deeper(g[d - 1])
    <3>1. CASE d = 0
      BY <2>3, <3>1 DEF Follows
    <3>2. CASE d # 0
      <4>1. d \in 1 .. N /\ d - 1 \in 0 .. N
        BY <1>2, <3>2
      <4>2. g[d - 1] \in F /\ g[d] = f[<<d, g[d - 1]>>]
        BY <2>3, <3>2, <4>1 DEF Follows
      <4> QED
        BY <2>2, <3>2, <4>1, <4>2
    <3> QED
      BY <3>1, <3>2
  <2>5. ASSUME NEW d \in 0 .. N
        PROVE  g[d] = [x \in Calls |->
                 IF d = 0 THEN NoMatch ELSE MatchOne(x[1], x[2], x[3], taken, g[d - 1])]
    <3>1. CASE d = 0
      BY <2>4, <3>1 DEF none
    <3>2. CASE d # 0
      BY <2>4, <3>2 DEF deeper
    <3> QED
      BY <3>1, <3>2
  <2>6. g = [d \in 0 .. N |-> g[d]] /\ g \in [0 .. N -> F]
    BY <2>3 DEF Follows
  <2>7. g = [d \in 0 .. N |->
             [x \in Calls |->
                IF d = 0 THEN NoMatch ELSE MatchOne(x[1], x[2], x[3], taken, g[d - 1])]]
    BY <2>5, <2>6
  <2> QED
    BY <2>6, <2>7
<1>7. \A g : (g = [depth \in 0 .. N |->
             [x \in Calls |->
                IF depth = 0 THEN NoMatch ELSE MatchOne(x[1], x[2], x[3], taken, g[depth - 1])]])
        => /\ g[0] = none
           /\ \A d \in 1 .. N : g[d] = deeper(g[d - 1])
  <2> SUFFICES ASSUME NEW g, g = [depth \in 0 .. N |->
             [x \in Calls |->
                IF depth = 0 THEN NoMatch ELSE MatchOne(x[1], x[2], x[3], taken, g[depth - 1])]]
               PROVE  g[0] = none /\ \A d \in 1 .. N : g[d] = deeper(g[d - 1])
    OBVIOUS
  <2>1. \A d \in 0 .. N : g[d] = [x \in Calls |->
                IF d = 0 THEN NoMatch ELSE MatchOne(x[1], x[2], x[3], taken, g[d - 1])]
    OBVIOUS
  <2>2. g[0] = none
    BY <1>2, <2>1
  <2>3. ASSUME NEW d \in 1 .. N PROVE g[d] = deeper(g[d - 1])
    <3>1. d \in 0 .. N /\ d # 0
      OBVIOUS
    <3> QED
      BY <2>1, <3>1
  <2> QED
    BY <2>2, <2>3
<1> HIDE DEF f, F, none, deeper
<1>8. match = [depth \in 0 .. N |->
             [x \in Calls |->
                IF depth = 0 THEN NoMatch ELSE MatchOne(x[1], x[2], x[3], taken, match[depth - 1])]]
  BY <1>6 DEF Calls
<1> HIDE DEF match
<1>9. match[0] = none /\ \A d \in 1 .. N : match[d] = deeper(match[d - 1])
  BY <1>7, <1>8
<1> DEFINE P == {d \in 0 .. N : match[d] \in F}
<1>10. 0 \in P
  BY <1>2, <1>4, <1>9
<1>11. ASSUME NEW d \in 1 .. N, d - 1 \in P PROVE d \in P
  BY <1>5, <1>9, <1>11
<1> HIDE DEF P
<1>12. \A d \in 0 .. N : d \in P
  BY <1>2, <1>10, <1>11, UpTo
<1>13. match = [d \in 0 .. N |-> match[d]]
  BY <1>8
<1>14. match \in [0 .. N -> F]
  BY <1>12, <1>13 DEF P
<1>15. Deepens(taken, match)
  BY <1>9, <1>14 DEF Deepens, F, none, deeper
<1> QED
  BY <1>1, <1>15

\* The matcher: what it finds takes no node that is taken.
LEMMA MatchAvoids ==
  ASSUME GraphOK, NEW taken, NEW a \in Node, NEW p \in Trees
  PROVE  MatchNode(a, p, taken) \in Avoiding(taken)
<1>1. PICK match : /\ Deepens(taken, match)
                   /\ \A b, q : MatchNode(b, q, taken) = match[N][<<b, q, NoMatch>>]
  BY MatchUnfold
<1>2. N \in Nat
  BY GraphAssumption
<1>3. \A x \in Calls : x[1] \in Node /\ x[2] \in Trees
  BY DEF Calls
<1> DEFINE P == {d \in 0 .. N : Avoids(match[d], taken)}
<1>4. 0 \in P
  <2>1. match[0] = [x \in Calls |-> NoMatch] /\ match[0] \in [Calls -> Match]
    BY <1>1, <1>2 DEF Deepens
  <2>2. Avoids(match[0], taken)
    BY <2>1, NoMatchAvoids DEF Avoids
  <2> QED
    BY <1>2, <2>2
<1>5. ASSUME NEW d \in 1 .. N, d - 1 \in P PROVE d \in P
  <2> DEFINE g == match[d - 1]
  <2>1. d \in 0 .. N /\ Avoids(g, taken)
    BY <1>5
  <2>2. /\ match[d] = [x \in Calls |-> MatchOne(x[1], x[2], x[3], taken, g)]
        /\ match[d] \in [Calls -> Match]
    BY <1>1, <2>1 DEF Deepens
  <2> HIDE DEF g
  <2>3. ASSUME NEW x \in Calls, x[3] \in Avoiding(taken)
        PROVE  match[d][x] \in Avoiding(taken)
    BY <1>3, <2>1, <2>2, <2>3, OneAvoids
  <2>4. Avoids(match[d], taken)
    BY <2>2, <2>3 DEF Avoids
  <2> QED
    BY <2>1, <2>4
<1> HIDE DEF P
<1>6. N \in P
  BY <1>2, <1>4, <1>5, UpTo
<1> DEFINE x == <<a, p, NoMatch>>
<1>7. x \in Calls /\ x[3] = NoMatch
  <2>1. NoMatch \in Match
    BY NoMatchAvoids DEF Avoiding
  <2> QED
    BY <2>1 DEF Calls
<1> HIDE DEF x
<1>8. match[N][x] \in Avoiding(taken)
  BY <1>6, <1>7, NoMatchAvoids DEF P, Avoids
<1> QED
  BY <1>1, <1>8 DEF x

-----------------------------------------------------------------------------
(* The tiers together *)

\* Fusing begins when tier 0 has ended; the fusions take nodes that it left, each
\* node once; the map holds every fusion until the compilations take theirs.
FusionInv ==
  /\ fuseable \subseteq supported
  /\ phase # "claimed" => stage = "fuse" /\ fused = {}
  /\ \A f \in fused : f.nodes \subseteq Candidates /\ f.matched \subseteq Candidates
  /\ \A f, g \in fused : f # g => f.nodes \cap g.nodes = {}
  /\ stage = "fuse" => fusionMap = fused
  /\ stage # "fuse" => singles = Left
  /\ CompiledByItsTier

\* Tier 0 does nothing once its loop has ended.
LEMMA ClaimedIsFinal == Next => phase # "claimed"
BY DEF Next, Boundary, StartGroup, MergeGroup, JoinGroup, Visiting, EndPartition,
       Resolve, ClaimGroup, EndIteration

\* A step of the tiers is a step of tier 0 or leaves it alone.
LEMMA TierStep == [NextFusion]_allVars => [Next]_vars
BY DEF NextFusion, allVars, FuseAnchor, AddSingleNodes, CompileTier0, CompileTier2,
       CompileFails, CompileDone

\* Later tiers do not touch tier 0.
THEOREM TiersKeepPartition == FusionSpec => Spec
BY TierStep, PTL DEF FusionSpec, Spec

\* What tier 0 claims.
LEMMA ClaimedNodes ==
  ASSUME TypeOK, ListsInv
  PROVE  /\ Claimed \subseteq fuseable
         /\ \A g, h \in claimed : g # h => Members(g) \cap Members(h) = {}
<1>1. claimed \subseteq Group
  BY DEF TypeOK
<1>2. \A g \in Group : Members(g) = {n \in Node : groupOf[n] = g} /\ 0 # g
  BY GraphAssumption DEF ListsInv, ListsMatchMap, Group
<1>3. \A g \in Group : Members(g) \subseteq fuseable
  BY <1>2 DEF ListsInv
<1>4. Claimed \subseteq fuseable
  BY <1>1, <1>3 DEF Claimed
<1>5. \A g, h \in claimed : g # h => Members(g) \cap Members(h) = {}
  BY <1>1, <1>2
<1> QED
  BY <1>4, <1>5

\* Tier 0 keeps the sets its variables make up.
LEMMA ClaimsKept ==
  ASSUME UNCHANGED vars
  PROVE  /\ Claimed' = Claimed /\ Tier0Groups' = Tier0Groups /\ phase' = phase
         /\ UNCHANGED supported => Candidates' = Candidates
         /\ UNCHANGED <<supported, fused>> => Left' = Left /\ Subgraphs' = Subgraphs
         /\ UNCHANGED fuseable
<1>1. UNCHANGED <<nodes, claimed, phase, fuseable>>
  BY DEF vars, graph, partition, claims
<1>2. \A g : Members(g)' = Members(g)
  BY <1>1 DEF Members
<1>3. Claimed' = Claimed /\ Tier0Groups' = Tier0Groups
  BY <1>1, <1>2 DEF Claimed, Tier0Groups
<1>4. UNCHANGED fused => Fused' = Fused
  BY DEF Fused
<1> QED
  BY <1>1, <1>3, <1>4 DEF Candidates, Left, Subgraphs

LEMMA InitFusionInv ==
  ASSUME Init, InitFusion, fuseable \subseteq supported
  PROVE  FusionInv
BY DEF InitFusion, FusionInv, CompiledByItsTier

\* What the matcher finds at an anchor: one match at most, of nodes not fused.
LEMMA AnchorMatches ==
  ASSUME GraphOK, NEW a \in Node
  PROVE  /\ \A m \in Matches(a) : Kept(a, m) \cap Fused = {}
         /\ \A m, k \in Matches(a) : m = k
<1>1. ASSUME NEW m \in Matches(a)
      PROVE  \E p \in Patterns : p.op = op[a] /\ m = MatchNode(a, p, Fused)
  BY DEF Matches
<1>2. \A m, k \in Matches(a) : m = k
  BY <1>1, PatternAssumption
<1>3. ASSUME NEW m \in Matches(a) PROVE Kept(a, m) \cap Fused = {}
  <2>1. PICK p \in Patterns : m = MatchNode(a, p, Fused)
    BY <1>1
  <2>2. p \in Trees
    BY PatternAssumption
  <2>3. m \in Avoiding(Fused)
    BY <2>1, <2>2, MatchAvoids
  <2>4. Matched(m) \cap Fused = {}
    BY <2>3 DEF Avoiding, Matched, ToSet
  <2> QED
    BY <2>4 DEF Kept
<1> QED
  BY <1>2, <1>3

\* A fusion takes nodes that neither tier 0 nor another fusion has.
LEMMA FuseAnchorKeeps ==
  ASSUME GraphOK, FusionInv, FuseAnchor
  PROVE  FusionInv'
<1> DEFINE found == {m \in Matches(anchor) : Matched(m) \subseteq Candidates
                                          /\ Cardinality(Kept(anchor, m)) > 1}
           new == IF anchor \in Fused THEN {} ELSE {Fusion(anchor, m) : m \in found}
<1>1. /\ phase = "claimed" /\ stage = "fuse" /\ anchor \in Node
      /\ fused' = fused \cup new /\ fusionMap' = fusionMap \cup new
      /\ UNCHANGED <<vars, op, supported, stage, singles, compiled>>
  BY DEF FuseAnchor
<1>2. \A f \in new : \E m \in found : f = Fusion(anchor, m)
  OBVIOUS
<1>3. \A f \in new : /\ f.nodes \subseteq Candidates /\ f.matched \subseteq Candidates
                     /\ f.nodes \cap Fused = {}
  <2>1. \A m : Fusion(anchor, m).nodes = Kept(anchor, m) /\ Fusion(anchor, m).matched = Matched(m)
    BY DEF Fusion
  <2>2. \A m \in found : Kept(anchor, m) \subseteq Candidates /\ Matched(m) \subseteq Candidates
    BY DEF Kept
  <2>3. \A m \in found : Kept(anchor, m) \cap Fused = {}
    BY <1>1, AnchorMatches
  <2> HIDE DEF found, new
  <2> QED
    BY <1>2, <2>1, <2>2, <2>3
<1>4. \A f, g \in new : f = g
  <2>1. \A m, k \in found : m = k
    BY <1>1, AnchorMatches
  <2> HIDE DEF found, new
  <2> QED
    BY <1>2, <2>1
<1> HIDE DEF found, new
<1>5. Candidates' = Candidates /\ UNCHANGED <<phase, fuseable>>
  BY <1>1, ClaimsKept
<1>6. \A f \in fused' : f.nodes \subseteq Candidates' /\ f.matched \subseteq Candidates'
  BY <1>1, <1>3, <1>5 DEF FusionInv
<1>7. \A f, g \in fused' : f # g => f.nodes \cap g.nodes = {}
  <2>1. \A f \in fused : f.nodes \subseteq Fused
    BY DEF Fused
  <2>2. \A f \in fused, g \in new : f.nodes \cap g.nodes = {} /\ g.nodes \cap f.nodes = {}
    BY <1>3, <2>1
  <2> QED
    BY <1>1, <1>4, <2>2 DEF FusionInv
<1>8. fusionMap' = fused' /\ stage' = "fuse" /\ phase' = "claimed"
  BY <1>1, <1>5 DEF FusionInv
<1>9. CompiledByItsTier'
  BY <1>8 DEF CompiledByItsTier
<1> QED
  BY <1>1, <1>5, <1>6, <1>7, <1>8, <1>9 DEF FusionInv

\* The steps that leave tier 0 and the fusions alone.
LEMMA FusionsKept ==
  ASSUME FusionInv, phase = "claimed", UNCHANGED <<vars, supported, fused>>,
         stage' # "fuse", singles' = Left, CompiledByItsTier'
  PROVE  FusionInv'
<1>1. /\ Candidates' = Candidates /\ Left' = Left
      /\ UNCHANGED <<phase, fuseable>>
  BY ClaimsKept
<1> QED
  BY <1>1 DEF FusionInv

\* Every step, or stutter, keeps the tiers in order.
LEMMA StepFusion ==
  IInv /\ FusionInv /\ [NextFusion]_allVars => FusionInv'
<1> SUFFICES ASSUME IInv, FusionInv, [NextFusion]_allVars PROVE FusionInv'
  OBVIOUS
<1>1. CASE UNCHANGED allVars
  <2>1. UNCHANGED <<vars, supported, stage, fusionMap, fused, singles, compiled>>
    BY <1>1 DEF allVars, fusion
  <2>2. /\ Candidates' = Candidates /\ Left' = Left /\ Subgraphs' = Subgraphs
        /\ Tier0Groups' = Tier0Groups /\ UNCHANGED <<phase, fuseable>>
    BY <2>1, ClaimsKept
  <2>3. CompiledByItsTier'
    BY <2>1, <2>2 DEF FusionInv, CompiledByItsTier, CompiledSets
  <2> QED
    BY <2>1, <2>2, <2>3 DEF FusionInv
<1>2. CASE Next /\ UNCHANGED <<op, supported, fusion>>
  <2>1. stage = "fuse" /\ fused = {}
    BY <1>2, ClaimedIsFinal DEF FusionInv
  <2>2. UNCHANGED <<supported, stage, fusionMap, fused>>
    BY <1>2 DEF fusion
  <2>3. UNCHANGED fuseable
    BY <1>2 DEF Next, Boundary, StartGroup, MergeGroup, JoinGroup, EndPartition,
                Resolve, ClaimGroup, EndIteration, graph
  <2>4. CompiledByItsTier'
    BY <2>1, <2>2 DEF CompiledByItsTier
  <2> QED
    BY <2>1, <2>2, <2>3, <2>4 DEF FusionInv
<1>3. CASE FuseAnchor
  BY <1>3, FuseAnchorKeeps DEF IInv
<1>4. CASE AddSingleNodes
  <2>1. /\ phase = "claimed" /\ stage = "fuse" /\ stage' = "compile" /\ singles' = Left
        /\ UNCHANGED <<vars, supported, fused, fusionMap>>
    BY <1>4 DEF AddSingleNodes
  <2>2. Subgraphs' = Subgraphs /\ Tier0Groups' = Tier0Groups
    BY <2>1, ClaimsKept
  <2>3. fusionMap' = fused
    BY <2>1 DEF FusionInv
  <2>4. CompiledByItsTier'
    BY <2>2, <2>3 DEF CompiledByItsTier, Subgraphs
  <2> QED
    BY <2>1, <2>4, FusionsKept
<1>5. CASE \/ \E s \in Subgraphs : CompileTier0(s) \/ CompileTier2(s) \/ CompileFails(s)
           \/ CompileDone
  <2>1. /\ stage = "compile" /\ stage' # "fuse"
        /\ UNCHANGED <<vars, supported, fused, singles>>
    BY <1>5 DEF CompileTier0, CompileTier2, CompileFails, CompileDone
  <2>2. phase = "claimed" /\ singles' = Left
    BY <2>1 DEF FusionInv
  <2>3. Subgraphs' = Subgraphs /\ Tier0Groups' = Tier0Groups
    BY <2>1, ClaimsKept
  <2>4. CASE stage' # "compile"
    <3>1. CompiledByItsTier'
      BY <2>4 DEF CompiledByItsTier
    <3> QED
      BY <2>1, <2>2, <3>1, FusionsKept
  <2>5. CASE stage' = "compile"
    <3>1. PICK s \in Subgraphs : CompileTier0(s) \/ CompileTier2(s)
      BY <1>5, <2>5 DEF CompileFails, CompileDone
    <3>2. s \in CompiledSets' /\ CompiledSets \subseteq CompiledSets'
      BY <3>1 DEF CompileTier0, CompileTier2, CompiledSets
    <3>3. \A f \in fusionMap : f.nodes # s => f \in fusionMap'
      BY <3>1 DEF CompileTier0, CompileTier2, TakeMatch
    <3>4. CompiledByItsTier'
      BY <2>1, <2>3, <3>2, <3>3 DEF FusionInv, CompiledByItsTier
    <3> QED
      BY <2>1, <2>2, <3>4, FusionsKept
  <2> QED
    BY <2>4, <2>5
<1> QED
  BY <1>1, <1>2, <1>3, <1>4, <1>5 DEF NextFusion

\* In a reachable state, each supported node is claimed exactly once.
LEMMA OneClaimEach ==
  ASSUME TypeOK, ListsInv, FusionInv
  PROVE  ClaimedOnce
<1> SUFFICES ASSUME stage # "fuse"
             PROVE  /\ (UNION Subgraphs) \cup singles = supported
                    /\ \A s, t \in Subgraphs : s # t => s \cap t = {}
                    /\ (UNION Subgraphs) \cap singles = {}
  BY DEF ClaimedOnce
<1>1. UNION Subgraphs = Claimed \cup Fused
  BY DEF Subgraphs, Tier0Groups, Claimed, Fused
<1>2. Claimed \subseteq supported
  BY ClaimedNodes DEF FusionInv
<1>3. Fused \subseteq supported \ Claimed
  BY DEF FusionInv, Fused, Candidates
<1>4. singles = supported \ (Claimed \cup Fused)
  BY DEF FusionInv, Left
<1>5. ASSUME NEW s \in Subgraphs, NEW t \in Subgraphs, s # t PROVE s \cap t = {}
  <2>1. \A u \in Subgraphs : u \in Tier0Groups \/ \E f \in fused : u = f.nodes
    BY DEF Subgraphs
  <2>2. \A u \in Tier0Groups : u \subseteq Claimed
    BY DEF Tier0Groups, Claimed
  <2>3. \A f \in fused : f.nodes \cap Claimed = {}
    BY DEF FusionInv, Candidates
  <2>4. CASE s \in Tier0Groups /\ t \in Tier0Groups
    BY <1>5, <2>4, ClaimedNodes DEF Tier0Groups
  <2>5. CASE (\E f \in fused : s = f.nodes) /\ (\E f \in fused : t = f.nodes)
    BY <1>5, <2>5 DEF FusionInv
  <2>6. CASE s \in Tier0Groups /\ \E f \in fused : t = f.nodes
    BY <2>2, <2>3, <2>6
  <2>7. CASE t \in Tier0Groups /\ \E f \in fused : s = f.nodes
    BY <2>2, <2>3, <2>7
  <2> QED
    BY <2>1, <2>4, <2>5, <2>6, <2>7
<1>6. (UNION Subgraphs) \cup singles = supported /\ (UNION Subgraphs) \cap singles = {}
  BY <1>1, <1>2, <1>3, <1>4
<1> QED
  BY <1>5, <1>6

\* However tier 0, the fusions and their compilations go, AddNodesToFuse and
\* AddSingleNode claim every supported node once and no other node.
THEOREM EveryNodeClaimedOnce == FusionSpec => []ClaimedOnce
<1>1. IInv => TypeOK
  BY DEF IInv
<1>2. FusionSpec => Init /\ [][NextFusion]_allVars
  BY DEF FusionSpec
<1>3. FusionSpec => FusionInv
  BY InitFusionInv DEF FusionSpec
<1> QED
  BY <1>1, <1>2, <1>3, InitIInv, InitLists, StepIInv, StepLists, StepFusion, TierStep,
     OneClaimEach, PTL

\* CompileImpl finds the compiler of every set of nodes handed over, whatever the
\* order of the compilations.
THEOREM EverySetHasCompiler == FusionSpec => []CompiledByItsTier
<1>1. FusionInv => CompiledByItsTier
  BY DEF FusionInv
<1>2. FusionSpec => Init /\ [][NextFusion]_allVars
  BY DEF FusionSpec
<1>3. FusionSpec => FusionInv
  BY InitFusionInv DEF FusionSpec
<1> QED
  BY <1>1, <1>2, <1>3, InitIInv, StepIInv, StepFusion, TierStep, PTL

-----------------------------------------------------------------------------
(* Groups and fusions together are acyclic *)

\* A state whose fusions each have a pivot, of a graph without subgraphs.
PivotState ==
  /\ IInv /\ ListsInv /\ FusionInv
  /\ \A n \in Node : implicit[n] = {}
  /\ \A f \in fused : \E c \in Node : Pivot(f, c)

FusionOf(n) == CHOOSE f \in fused : n \in f.nodes
PivotOf(f) == CHOOSE c \in Node : Pivot(f, c)

\* When the unit of a node could run, doubled: as in Rank, and a fusion at its pivot.
Turn(n) ==
  IF n \in Claimed
  THEN IF finalized[groupOf[n]] = 0 THEN 2 * N + 2 ELSE 2 * finalized[groupOf[n]]
  ELSE IF n \in Fused THEN 2 * PivotOf(FusionOf(n)) + 1 ELSE 2 * n + 1

\* The group of a claimed node is its unit.
LEMMA ClaimedUnit ==
  ASSUME PivotState, NEW n \in Node
  PROVE  /\ n \in Claimed <=> groupOf[n] \in claimed
         /\ n \in Claimed => /\ groupOf[n] \in Group /\ groupOf[n] # 0
                             /\ UnitOf(n) = Members(groupOf[n])
                             /\ n \in UnitOf(n)
                             /\ next = N + 1
<1>1. claimed \subseteq Group /\ (claimed # {} => next = N + 1)
  BY DEF PivotState, IInv, TypeOK, CountsInv
<1>2. \A g \in Group : Members(g) = {m \in Node : groupOf[m] = g} /\ g # 0
  BY GraphAssumption DEF PivotState, ListsInv, ListsMatchMap, Group
<1>3. n \in Claimed <=> groupOf[n] \in claimed
  BY <1>1, <1>2 DEF Claimed
<1>4. ASSUME n \in Claimed
      PROVE  UnitOf(n) = Members(groupOf[n]) /\ n \in UnitOf(n)
  <2>1. Members(groupOf[n]) \in Subgraphs /\ n \in Members(groupOf[n])
    BY <1>1, <1>2, <1>3, <1>4 DEF Subgraphs, Tier0Groups
  <2>2. ASSUME NEW s \in Subgraphs, n \in s PROVE s = Members(groupOf[n])
    <3>1. CASE s \in Tier0Groups
      BY <1>1, <1>2, <2>2, <3>1 DEF Tier0Groups
    <3>2. CASE \E f \in fused : s = f.nodes
      BY <1>4, <2>2, <3>2 DEF PivotState, FusionInv, Candidates
    <3> QED
      BY <3>1, <3>2 DEF Subgraphs
  <2>3. UnitOf(n) \in Subgraphs /\ n \in UnitOf(n)
    BY <1>4, <2>1 DEF UnitOf
  <2> QED
    BY <2>2, <2>3
<1> QED
  BY <1>1, <1>2, <1>3, <1>4

\* The fusion a node is in is its unit.
LEMMA FusedUnit ==
  ASSUME PivotState, NEW n \in Node, n \in Fused
  PROVE  /\ FusionOf(n) \in fused
         /\ n \in FusionOf(n).nodes
         /\ UnitOf(n) = FusionOf(n).nodes
         /\ n \notin Claimed
         /\ \A f \in fused : n \in f.nodes => f = FusionOf(n)
         /\ PivotOf(FusionOf(n)) \in Node
         /\ Pivot(FusionOf(n), PivotOf(FusionOf(n)))
<1>1. FusionOf(n) \in fused /\ n \in FusionOf(n).nodes
  BY DEF Fused, FusionOf
<1>2. n \notin Claimed
  BY <1>1 DEF PivotState, FusionInv, Candidates
<1>3. \A f \in fused : n \in f.nodes => f = FusionOf(n)
  BY <1>1 DEF PivotState, FusionInv
<1>4. ASSUME NEW s \in Subgraphs, n \in s PROVE s = FusionOf(n).nodes
  <2>1. s \notin Tier0Groups
    BY <1>2, <1>4 DEF Tier0Groups, Claimed
  <2> QED
    BY <1>3, <1>4, <2>1 DEF Subgraphs
<1>5. FusionOf(n).nodes \in Subgraphs
  BY <1>1 DEF Subgraphs
<1>6. UnitOf(n) \in Subgraphs /\ n \in UnitOf(n)
  BY <1>1, <1>5 DEF UnitOf
<1>7. /\ PivotOf(FusionOf(n)) \in Node
      /\ Pivot(FusionOf(n), PivotOf(FusionOf(n)))
  BY <1>1 DEF PivotState, PivotOf
<1> QED
  BY <1>1, <1>2, <1>3, <1>4, <1>6, <1>7

\* Any other node is a unit of its own.
LEMMA SingleUnit ==
  ASSUME NEW n \in Node, n \notin Claimed, n \notin Fused
  PROVE  UnitOf(n) = {n} /\ Turn(n) = 2 * n + 1
BY DEF UnitOf, Turn

\* The nodes of a unit share their turn.
LEMMA UnitsShareTurn ==
  ASSUME PivotState, NEW n \in Node, NEW m \in Node, UnitOf(n) = UnitOf(m)
  PROVE  Turn(n) = Turn(m)
<1>1. \A k \in Node : k \in UnitOf(k)
  BY ClaimedUnit, FusedUnit, SingleUnit
<1>2. m \in UnitOf(n)
  BY <1>1
<1>3. CASE n \in Claimed
  <2>1. UnitOf(n) = Members(groupOf[n]) /\ groupOf[n] \in Group /\ groupOf[n] \in claimed
    BY <1>3, ClaimedUnit
  <2>2. groupOf[m] = groupOf[n]
    BY <1>2, <2>1 DEF PivotState, ListsInv, ListsMatchMap
  <2>3. m \in Claimed
    BY <2>1, <2>2, ClaimedUnit
  <2> QED
    BY <1>3, <2>2, <2>3 DEF Turn
<1>4. CASE n \in Fused
  <2>1. FusionOf(n) \in fused /\ m \in FusionOf(n).nodes /\ n \notin Claimed
    BY <1>2, <1>4, FusedUnit
  <2>2. m \in Fused
    BY <2>1 DEF Fused
  <2>3. m \notin Claimed /\ FusionOf(m) = FusionOf(n)
    BY <2>1, <2>2, FusedUnit
  <2> QED
    BY <1>4, <2>1, <2>2, <2>3 DEF Turn
<1>5. CASE n \notin Claimed /\ n \notin Fused
  BY <1>2, <1>5, SingleUnit
<1> QED
  BY <1>3, <1>4, <1>5

\* Turns are natural numbers.
LEMMA TurnNat ==
  ASSUME PivotState, NEW n \in Node
  PROVE  Turn(n) \in Nat
<1> USE GraphAssumption
<1>1. CASE n \in Claimed
  <2>1. finalized[groupOf[n]] \in 0 .. N
    BY <1>1, ClaimedUnit DEF PivotState, IInv, TypeOK
  <2> QED
    BY <1>1, <2>1 DEF Turn
<1>2. CASE n \in Fused
  <2>1. PivotOf(FusionOf(n)) \in Node /\ n \notin Claimed
    BY <1>2, FusedUnit
  <2> QED
    BY <1>2, <2>1 DEF Turn, Node
<1>3. CASE n \notin Claimed /\ n \notin Fused
  BY <1>3, SingleUnit DEF Node
<1> QED
  BY <1>1, <1>2, <1>3

\* The turn of a group comes before any node outside it that uses its values.
LEMMA GroupTurn ==
  ASSUME PivotState, NEW m \in Node, m \in Claimed,
         NEW r \in Node, m \in Inputs(r), groupOf[r] # groupOf[m]
  PROVE  Turn(m) <= 2 * r
<1>0. groupOf[m] \in Group /\ groupOf[m] # 0 /\ next = N + 1
  BY ClaimedUnit
<1>1. groupOf[m] \in Group /\ groupOf[m] # 0 /\ r < next
  BY <1>0, GraphAssumption DEF Node
<1>2. finalized[groupOf[m]] # 0 /\ finalized[groupOf[m]] <= r
  BY <1>1 DEF PivotState, IInv, EdgesInv
<1>3. finalized[groupOf[m]] \in 0 .. N
  BY <1>1 DEF PivotState, IInv, TypeOK
<1> QED
  BY <1>2, <1>3, GraphAssumption DEF Turn, Node

\* The turn of another unit comes no later than a node whose output leaves it.
LEMMA ExitTurn ==
  ASSUME PivotState, NEW m \in Node, m \notin Claimed,
         NEW n \in Node, m \in Inputs(n), UnitOf(m) # UnitOf(n)
  PROVE  Turn(m) <= 2 * m + 1
<1> USE GraphAssumption
<1>1. CASE m \in Fused
  <2>1. FusionOf(m) \in fused /\ m \in FusionOf(m).nodes /\ UnitOf(m) = FusionOf(m).nodes
    BY <1>1, FusedUnit
  <2>2. n \notin FusionOf(m).nodes
    <3>1. SUFFICES ASSUME n \in FusionOf(m).nodes PROVE FALSE
      OBVIOUS
    <3>2. n \in Fused
      BY <2>1, <3>1 DEF Fused
    <3>3. FusionOf(n) = FusionOf(m)
      BY <2>1, <3>1, <3>2, FusedUnit
    <3> QED
      BY <2>1, <3>2, <3>3, FusedUnit
  <2>3. <<m, n>> \in Edges
    BY DEF Edges
  <2>4. PivotOf(FusionOf(m)) \in Node /\ PivotOf(FusionOf(m)) <= m
    BY <1>1, <2>1, <2>2, <2>3, FusedUnit DEF Pivot
  <2> QED
    BY <1>1, <2>4 DEF Turn, Node
<1>2. CASE m \notin Fused
  BY <1>2, SingleUnit DEF Node
<1> QED
  BY <1>1, <1>2

\* A node outside the claimed groups is in no claimed node's group.
LEMMA OtherGroup ==
  ASSUME PivotState, NEW m \in Node, m \in Claimed, NEW r \in Node, r \notin Claimed
  PROVE  groupOf[r] # groupOf[m]
BY ClaimedUnit

\* The edge's source comes before the pivot of the fusion it enters.
LEMMA EntryTurn ==
  ASSUME PivotState, NEW n \in Node, n \in Fused,
         NEW m \in Inputs(n), UnitOf(m) # UnitOf(n)
  PROVE  Turn(m) < Turn(n)
<1> USE GraphAssumption
<1> DEFINE f == FusionOf(n)
           c == PivotOf(f)
<1>1. /\ f \in fused /\ n \in f.nodes /\ UnitOf(n) = f.nodes /\ n \notin Claimed
      /\ c \in Node /\ Pivot(f, c)
  BY FusedUnit
<1>2. m \in Node /\ m < n
  BY InputsEarlier DEF PivotState, IInv
<1>3. m \notin f.nodes
  <2>1. SUFFICES ASSUME m \in f.nodes PROVE FALSE
    OBVIOUS
  <2>2. m \in Fused
    BY <1>1, <2>1 DEF Fused
  <2>3. FusionOf(m) = f
    BY <1>1, <1>2, <2>1, <2>2, FusedUnit
  <2> QED
    BY <1>1, <1>2, <2>2, <2>3, FusedUnit
<1>4. <<m, n>> \in Edges
  BY <1>2 DEF Edges
<1>5. PICK r \in f.matched : r <= c /\ <<m, r>> \in Edges
  BY <1>1, <1>3, <1>4 DEF Pivot
<1>6. r \in Node /\ m \in Inputs(r)
  BY <1>5 DEF Edges, PivotState
<1>7. r \notin Claimed
  BY <1>1, <1>5 DEF PivotState, FusionInv, Candidates
<1>8. m < r
  BY <1>6, InputsEarlier DEF PivotState, IInv
<1>9. Turn(n) = 2 * c + 1
  BY <1>1 DEF Turn
<1> HIDE DEF f, c
<1>10. CASE m \in Claimed
  <2>1. Turn(m) <= 2 * r
    BY <1>2, <1>6, <1>7, <1>10, OtherGroup, GroupTurn
  <2>2. Turn(m) \in Nat
    BY <1>2, TurnNat
  <2> QED
    BY <1>1, <1>5, <1>6, <1>9, <2>1, <2>2 DEF Node
<1>11. CASE m \notin Claimed
  <2>1. Turn(m) <= 2 * m + 1
    BY <1>2, <1>11, ExitTurn
  <2>2. Turn(m) \in Nat
    BY <1>2, TurnNat
  <2> QED
    BY <1>1, <1>2, <1>5, <1>6, <1>8, <1>9, <2>1, <2>2 DEF Node
<1> QED
  BY <1>10, <1>11

\* A unit that waits for another has a later turn.
LEMMA EdgeTurn ==
  ASSUME PivotState, NEW n \in Node, NEW m \in Inputs(n), UnitOf(m) # UnitOf(n)
  PROVE  Turn(m) < Turn(n)
<1> USE GraphAssumption
<1>1. m \in Node /\ m < n
  BY InputsEarlier DEF PivotState, IInv
<1>2. Turn(m) \in Nat /\ Turn(n) \in Nat
  BY <1>1, TurnNat
<1>3. m \notin Claimed => Turn(m) <= 2 * m + 1
  BY <1>1, ExitTurn
<1>4. CASE n \in Claimed
  <2>1. groupOf[n] \in Group /\ groupOf[n] # 0 /\ UnitOf(n) = Members(groupOf[n])
    BY <1>4, ClaimedUnit
  <2>2. finalized[groupOf[n]] # 0 => n < finalized[groupOf[n]]
    BY <2>1 DEF PivotState, IInv, MembersInv
  <2>3. finalized[groupOf[n]] \in 0 .. N
    BY <2>1 DEF PivotState, IInv, TypeOK
  <2>4. 2 * n + 2 <= Turn(n)
    BY <1>4, <2>2, <2>3 DEF Turn, Node
  <2>5. m \in Claimed => Turn(m) <= 2 * n
    BY <1>1, <2>1, ClaimedUnit, GroupTurn
  <2> QED
    BY <1>1, <1>2, <1>3, <2>4, <2>5 DEF Node
<1>5. CASE n \in Fused
  BY <1>5, EntryTurn
<1>6. CASE n \notin Claimed /\ n \notin Fused
  <2>1. Turn(n) = 2 * n + 1
    BY <1>6, SingleUnit
  <2>2. m \in Claimed => Turn(m) <= 2 * n
    BY <1>1, <1>6, OtherGroup, GroupTurn
  <2> QED
    BY <1>1, <1>2, <1>3, <2>1, <2>2 DEF Node
<1> QED
  BY <1>4, <1>5, <1>6

\* Among the units of a set, one with the least turn waits for none of the others.
LEMMA PivotsRunnable ==
  ASSUME PivotState
  PROVE  CapabilityRunnable
<1> SUFFICES ASSUME NEW S \in (SUBSET {UnitOf(n) : n \in Node}) \ {{}}
             PROVE  \E u \in S : \A e \in Edges :
                      (UnitOf(e[2]) = u /\ UnitOf(e[1]) # u) => UnitOf(e[1]) \notin S
  BY DEF CapabilityRunnable
<1> DEFINE Turns == {Turn(n) : n \in {n \in Node : UnitOf(n) \in S}}
<1>1. Turns \subseteq Nat /\ Turns # {}
  BY TurnNat
<1>2. PICK t \in Turns : \A q \in Turns : ~(<<q, t>> \in OpToRel(<, Nat))
  BY <1>1, NatLessThanWellFounded, WFMin
<1>3. \A q \in Turns : ~(q < t)
  BY <1>1, <1>2 DEF OpToRel
<1>4. PICK n \in Node : UnitOf(n) \in S /\ t = Turn(n)
  OBVIOUS
<1>5. ASSUME NEW e \in Edges, UnitOf(e[2]) = UnitOf(n), UnitOf(e[1]) # UnitOf(n)
      PROVE  UnitOf(e[1]) \notin S
  <2>1. e[1] \in Node /\ e[2] \in Node /\ e[1] \in Inputs(e[2])
    BY DEF Edges, PivotState
  <2>2. Turn(e[1]) < Turn(e[2])
    BY <1>5, <2>1, EdgeTurn
  <2>3. Turn(e[2]) = t
    BY <1>4, <1>5, <2>1, UnitsShareTurn
  <2> QED
    BY <1>3, <2>1, <2>2, <2>3
<1> QED
  BY <1>4, <1>5

\* Whatever the graph and the rules, the groups and the fusions together leave the
\* graph acyclic when each fusion has a pivot, as those of the rules checked have.
THEOREM PivotsKeepAcyclic == FusionSpec => [](FusionsHavePivot => CapabilityAcyclic)
<1>1. IInv /\ ListsInv /\ FusionInv => (FusionsHavePivot => CapabilityAcyclic)
  BY PivotsRunnable DEF PivotState, FusionsHavePivot, CapabilityAcyclic
<1>2. FusionSpec => Init /\ [][NextFusion]_allVars
  BY DEF FusionSpec
<1>3. FusionSpec => FusionInv
  BY InitFusionInv DEF FusionSpec
<1> QED
  BY <1>1, <1>2, <1>3, InitIInv, InitLists, StepIInv, StepLists, StepFusion, TierStep, PTL

-----------------------------------------------------------------------------
(* What the rules match has a pivot *)

\* Node n is read by one of S, value x by one no later than a, and n only reads
\* such values besides the output of a node of S that comes no earlier than a.
Wanted(n, S) == \E c \in S : n \in Inputs(c)
ReadBy(a, x, S) == \E r \in S : r <= a /\ x \in Inputs(r)
Entered(a, n, S) ==
  \E q \in S : q >= a /\ q \in Inputs(n) /\ \A x \in Inputs(n) \ {q} : ReadBy(a, x, S)

\* What was matched from node a: up to a, the producers of what is matched; after
\* a, consumers entered from the match.
AnchoredSet(a, S) ==
  /\ S \subseteq Node /\ a \in S
  /\ \A n \in S : n >= a \/ Wanted(n, S)
  /\ \A n \in S : n > a => Entered(a, n, S)

\* The value captured is read by a node up to the anchor.
Anchored(a, m) ==
  /\ m \in Match
  /\ AnchoredSet(a, Matched(m))
  /\ m.value \in {NoValue, 0} \/ ReadBy(a, m.value, Matched(m))

HasValue(m) == m.value # NoValue

\* What a call or an edge may make of match m.
Grown(a, m) ==
  {r \in Match : r = NoMatch \/ /\ Anchored(a, r) /\ Matched(m) \subseteq Matched(r)
                                /\ HasValue(m) => HasValue(r)}

\* Tree t may be tried at node n: a producer before the anchor, or a consumer
\* that compares with a value captured before.
Ready(U, Q, D, a, n, t, m) ==
  \/ n \in Matched(m)
  \/ t \in U /\ n < a /\ Wanted(n, Matched(m))
  \/ (t \in Q \/ (t \in D /\ HasValue(m))) /\ \E q \in Matched(m) : q >= a /\ q \in Inputs(n)

\* Calls that keep a match anchored.
Grows(U, Q, D, a, below) ==
  /\ below \in [Calls -> Match]
  /\ \A x \in Calls : Anchored(a, x[3]) /\ Ready(U, Q, D, a, x[1], x[2], x[3]) =>
       /\ below[x] \in Grown(a, x[3])
       /\ x[2].input = "first" /\ below[x] # NoMatch => HasValue(below[x])

\* An anchored match has its anchor, so it is a match.
LEMMA AnchoredMatches ==
  ASSUME NEW a, NEW m, Anchored(a, m)
  PROVE  m # NoMatch /\ m \in Match /\ Matched(m) \subseteq Node /\ a \in Matched(m)
<1>1. Matched(NoMatch) = {}
  BY DEF Matched, NoMatch, ToSet
<1> QED
  BY <1>1 DEF Anchored, AnchoredSet

\* Growing is transitive.
LEMMA GrownTwice ==
  ASSUME NEW a, NEW m, NEW k \in Grown(a, m), k # NoMatch, NEW r \in Grown(a, k)
  PROVE  r \in Grown(a, m)
BY DEF Grown

LEMMA GrownSelf ==
  ASSUME NEW a, NEW m, Anchored(a, m)
  PROVE  m \in Grown(a, m) /\ NoMatch \in Grown(a, m)
<1>1. NoMatch \in Match
  BY NoMatchAvoids DEF Avoiding
<1> QED
  BY <1>1 DEF Grown, Anchored

\* The node an edge leads to.
LEMMA ChildReady ==
  ASSUME GraphOK, NEW U, NEW Q, NEW D, NEW a \in Node, NEW m, Anchored(a, m),
         NEW n \in Matched(m), NEW e,
         e.dir = "up" => e.child \in U,
         e.dir # "up" => n >= a /\ (e.child \in Q \/ (e.child \in D /\ HasValue(m))),
         NEW c \in Children(n, e)
  PROVE  c \in Node /\ Ready(U, Q, D, a, c, e.child, m)
<1>0. n \in Node /\ AnchoredSet(a, Matched(m))
  BY AnchoredMatches DEF Anchored
<1>1. CASE e.dir = "up"
  <2>1. c \in Inputs(n)
    BY <1>0, <1>1, InputIsInput DEF Children
  <2>2. c \in Node /\ c < n
    BY <1>0, <2>1, InputsEarlier
  <2>3. CASE n <= a
    BY <1>0, <1>1, <2>1, <2>2, <2>3 DEF Ready, Wanted, Node
  <2>4. CASE n > a
    <3>1. PICK q \in Matched(m) : q >= a /\ \A x \in Inputs(n) \ {q} : ReadBy(a, x, Matched(m))
      BY <1>0, <2>4 DEF AnchoredSet, Entered
    <3>2. CASE c = q
      BY <2>2, <3>1, <3>2 DEF Ready
    <3>3. CASE c # q
      <4>1. PICK r \in Matched(m) : r <= a /\ c \in Inputs(r)
        BY <2>1, <3>1, <3>3 DEF ReadBy
      <4>2. r \in Node /\ c < r
        BY <1>0, <4>1, InputsEarlier DEF AnchoredSet
      <4> QED
        BY <1>0, <1>1, <2>2, <4>1, <4>2 DEF Ready, Wanted, Node
    <3> QED
      BY <3>2, <3>3
  <2> QED
    BY <1>0, <2>3, <2>4 DEF Node
<1>2. CASE e.dir # "up"
  <2>1. PICK i \in 1 .. N : c \in Node /\ <<c, i>> \in Consumers(n)
    BY <1>2 DEF Children
  <2>2. i \in DOMAIN inputs[c] /\ inputs[c][i] = n
    BY <2>1 DEF Consumers
  <2>3. n \in Inputs(c)
    BY <1>0, <2>1, <2>2, InputIsInput DEF Node
  <2> QED
    BY <1>2, <2>1, <2>3 DEF Ready
<1> QED
  BY <1>1, <1>2

\* One edge.
LEMMA FollowGrows ==
  ASSUME GraphOK, NEW U, NEW Q, NEW D, NEW a \in Node, NEW below, Grows(U, Q, D, a, below),
         NEW m, Anchored(a, m), NEW n \in Matched(m), NEW e, e.child \in Trees,
         e.dir = "up" => e.child \in U,
         e.dir # "up" => n >= a /\ (e.child \in Q \/ (e.child \in D /\ HasValue(m)))
  PROVE  LET r == Follow(n, e, m, below)
         IN  /\ r \in Grown(a, m)
             /\ ~e.optional /\ e.child.input = "first" /\ r # NoMatch => HasValue(r)
<1> DEFINE cs == Children(n, e)
           c == CHOOSE c \in cs : \A d \in cs : c <= d
           tried == IF cs = {} THEN NoMatch ELSE below[<<c, e.child, m>>]
           r == Follow(n, e, m, below)
<1>1. cs \subseteq Node
  BY ChildReady
<1>2. cs # {} => c \in cs
  <2> HIDE DEF cs
  <2> SUFFICES ASSUME cs # {} PROVE c \in cs
    OBVIOUS
  <2>1. cs \in SUBSET Nat
    BY <1>1 DEF Node
  <2>2. \E x \in cs : \A d \in cs : x <= d
    BY <2>1, LeastNumber
  <2> QED
    BY <2>2
<1> HIDE DEF c
<1>3. /\ tried \in Grown(a, m)
      /\ e.child.input = "first" /\ tried # NoMatch => HasValue(tried)
  <2>1. CASE cs = {}
    BY <2>1, GrownSelf
  <2>2. CASE cs # {}
    <3> DEFINE x == <<c, e.child, m>>
    <3>1. c \in Node /\ Ready(U, Q, D, a, c, e.child, m)
      BY <1>2, <2>2, ChildReady
    <3>2. x \in Calls /\ x[1] = c /\ x[2] = e.child /\ x[3] = m
      BY <3>1, AnchoredMatches DEF Calls
    <3> HIDE DEF x
    <3>3. /\ below[x] \in Grown(a, m)
          /\ e.child.input = "first" /\ below[x] # NoMatch => HasValue(below[x])
      BY <3>1, <3>2 DEF Grows
    <3> QED
      BY <2>2, <3>3 DEF x
  <2> QED
    BY <2>1, <2>2
<1>4. /\ r \in {NoMatch, tried, m}
      /\ ~e.optional => r \in {NoMatch, tried}
  BY DEF Follow, c
<1> HIDE DEF tried, r
<1>5. r \in Grown(a, m)
  BY <1>3, <1>4, GrownSelf
<1>6. ~e.optional /\ e.child.input = "first" /\ r # NoMatch => HasValue(r)
  BY <1>3, <1>4
<1> QED
  BY <1>5, <1>6 DEF r

\* Each edge may be followed from node n when those before it were.
Passable(U, Q, D, a, n, t, m) ==
  \/ Leads(t, U, {})
  \/ n >= a /\ Leads(t, U, Q)
  \/ n >= a /\ Leads(t, U, D) /\ (HasValue(m) \/ CapturesFirst(t))

LEMMA EdgesGrow ==
  ASSUME GraphOK, NEW U, NEW Q, NEW D, NEW a \in Node, NEW below, Grows(U, Q, D, a, below),
         NEW m, Anchored(a, m), NEW n \in Matched(m), NEW t \in Trees,
         Passable(U, Q, D, a, n, t, m), t.input = "first" => HasValue(m)
  PROVE  MatchEdges(n, t.edges, m, below) \in Grown(a, m)
<1> DEFINE e == t.edges
           l == Len(e)
           Opens == l > 0 /\ e[1].dir = "up" /\ ~e[1].optional /\ e[1].child.input = "first"
           V(i) == HasValue(m) \/ (i > 0 /\ Opens)
<1>1. n \in Node /\ m \in Match /\ l \in Nat /\ \A i \in 1 .. l : e[i].child \in Trees
  BY AnchoredMatches, PatternAssumption
<1>2. below \in [Calls -> Match]
  BY DEF Grows
<1>3. PICK along : Along(n, e, m, below, along)
  BY <1>1, <1>2, EdgesUnfold
<1>4. /\ along[0] = m /\ MatchEdges(n, e, m, below) = along[l]
      /\ \A i \in 1 .. l : along[i] = Follow(n, e[i], along[i - 1], below)
  BY <1>3 DEF Along
<1>5. ASSUME NEW i \in 1 .. l
      PROVE  /\ e[i].dir = "up" => e[i].child \in U
             /\ e[i].dir # "up" => /\ n >= a
                                   /\ e[i].child \in Q \/ (e[i].child \in D /\ V(i - 1))
  <2>1. CASE Leads(t, U, {})
    BY <2>1 DEF Leads
  <2>2. CASE n >= a /\ Leads(t, U, Q)
    BY <2>2 DEF Leads
  <2>3. CASE n >= a /\ Leads(t, U, D) /\ (HasValue(m) \/ CapturesFirst(t))
    <3>1. e[i].child \in (IF e[i].dir = "up" THEN U ELSE D)
      BY <2>3 DEF Leads
    <3>2. e[i].dir # "up" => V(i - 1)
      <4> SUFFICES ASSUME e[i].dir # "up", ~HasValue(m) PROVE i - 1 > 0 /\ Opens
        OBVIOUS
      <4>1. Opens
        BY <2>3 DEF CapturesFirst
      <4>2. i # 1
        BY <4>1
      <4> QED
        BY <1>1, <4>1, <4>2
    <3> QED
      BY <2>3, <3>1, <3>2
  <2> QED
    BY <2>1, <2>2, <2>3 DEF Passable
<1> DEFINE Valued == {r \in Grown(a, m) : r = NoMatch \/ HasValue(r)}
           W == {i \in 0 .. l : V(i)}
           P == {i \in 0 .. l : along[i] \in Grown(a, m) /\ (i \in W => along[i] \in Valued)}
<1>6. 0 \in P
  BY <1>1, <1>4, GrownSelf
<1>7. ASSUME NEW i \in 1 .. l, i - 1 \in P PROVE i \in P
  <2> DEFINE k == along[i - 1]
             r == Follow(n, e[i], k, below)
  <2> HIDE DEF W, Valued, V
  <2>1. k \in Grown(a, m) /\ (i - 1 \in W => k \in Valued) /\ along[i] = r /\ i \in 0 .. l
    BY <1>4, <1>7
  <2>2. i - 1 \in 0 .. l
    BY <1>1
  <2>3. CASE k = NoMatch
    <3>1. r = NoMatch
      BY <2>3 DEF Follow
    <3>2. NoMatch \in Grown(a, m) /\ NoMatch \in Valued
      BY GrownSelf DEF Valued
    <3> QED
      BY <2>1, <3>1, <3>2
  <2>4. CASE k # NoMatch
    <3>1. Anchored(a, k) /\ Matched(m) \subseteq Matched(k) /\ n \in Matched(k)
      BY <2>1, <2>4 DEF Grown
    <3>2. V(i - 1) => HasValue(k)
      BY <2>1, <2>2, <2>4 DEF W, Valued
    <3>3. /\ e[i].dir = "up" => e[i].child \in U
          /\ e[i].dir # "up" => n >= a /\ (e[i].child \in Q \/ (e[i].child \in D /\ HasValue(k)))
      BY <1>5, <3>2
    <3> HIDE DEF k, Opens
    <3>4. /\ r \in Grown(a, k)
          /\ ~e[i].optional /\ e[i].child.input = "first" /\ r # NoMatch => HasValue(r)
      BY <1>1, <3>1, <3>3, FollowGrows
    <3> HIDE DEF r
    <3>5. r \in Grown(a, m)
      BY <2>1, <2>4, <3>4, GrownTwice
    <3>6. HasValue(k) /\ r # NoMatch => HasValue(r)
      BY <3>4 DEF Grown
    <3>7. i \in W => r \in Valued
      <4>1. CASE V(i - 1)
        BY <3>2, <3>5, <3>6, <4>1 DEF Valued
      <4>2. CASE V(i) /\ ~V(i - 1)
        <5>1. i = 1 /\ Opens
          BY <1>1, <4>2 DEF V
        <5> QED
          BY <3>4, <3>5, <5>1 DEF Opens, Valued
      <4>3. CASE ~V(i)
        BY <4>3 DEF W
      <4> QED
        BY <4>1, <4>2, <4>3
    <3> QED
      BY <2>1, <3>5, <3>7
  <2> QED
    BY <2>3, <2>4
<1> HIDE DEF P, l
<1>8. \A i \in 0 .. l : i \in P
  BY <1>1, <1>6, <1>7, UpTo
<1>9. l \in P
  BY <1>1, <1>8
<1> HIDE DEF W, Valued
<1>10. along[l] \in Grown(a, m)
  BY <1>9 DEF P
<1> QED
  BY <1>4, <1>10

\* The match with one more node.
Extended(n, t, m) == [nodes |-> Append(m.nodes, n), value |-> Captured(n, t, m)]

LEMMA ExtendedMatch ==
  ASSUME GraphOK, NEW n \in Node, NEW t, NEW m \in Match, InputsMatch(n, t, m)
  PROVE  /\ Extended(n, t, m) \in Match
         /\ Matched(Extended(n, t, m)) = Matched(m) \cup {n}
         /\ Extended(n, t, m).value = Captured(n, t, m)
         /\ \/ Captured(n, t, m) = m.value
            \/ Captured(n, t, m) \in Inputs(n) \cup {0}
         /\ HasValue(m) \/ t.input \in {"first", "any"} => HasValue(Extended(n, t, m))
         /\ t.input = "none" => Captured(n, t, m) = m.value
<1>1. m.nodes \in Seq(Node) /\ m.value \in 0 .. N \cup {NoValue}
  BY DEF Match
<1>2. inputs[n] # <<>> => inputs[n][1] \in 0 .. N /\ inputs[n][1] \in Inputs(n) \cup {0}
  <2> SUFFICES ASSUME inputs[n] # <<>>
               PROVE  inputs[n][1] \in 0 .. N /\ inputs[n][1] \in Inputs(n) \cup {0}
    OBVIOUS
  <2>1. inputs[n][1] \in 0 .. N
    BY InputInRange
  <2>2. \A V : \A s \in Seq(V) : s # <<>> => 1 \in DOMAIN s
    OBVIOUS
  <2>3. 1 \in DOMAIN inputs[n]
    BY <2>2 DEF GraphOK
  <2> QED
    BY <2>1, <2>3 DEF Inputs
<1>3. t.input \in {"first", "any"} => inputs[n] # <<>>
  BY DEF InputsMatch
<1>4. \/ Captured(n, t, m) = m.value /\ (t.input = "any" => HasValue(m)) /\ t.input # "first"
      \/ t.input \in {"first", "any"} /\ Captured(n, t, m) = inputs[n][1]
  BY DEF Captured, HasValue
<1>5. t.input = "none" => Captured(n, t, m) = m.value
  BY DEF Captured
<1>6. Captured(n, t, m) \in 0 .. N \cup {NoValue}
  BY <1>1, <1>2, <1>3, <1>4
<1>7. Append(m.nodes, n) \in Seq(Node) /\ ToSet(Append(m.nodes, n)) = ToSet(m.nodes) \cup {n}
  BY <1>1 DEF ToSet
<1>8. HasValue(m) \/ t.input \in {"first", "any"} => Captured(n, t, m) # NoValue
  BY <1>2, <1>3, <1>4, NoValueAssumption DEF HasValue
<1>9. \/ Captured(n, t, m) = m.value
      \/ Captured(n, t, m) \in Inputs(n) \cup {0}
  BY <1>2, <1>3, <1>4
<1>10. Extended(n, t, m) \in Match
  BY <1>6, <1>7 DEF Extended, Match
<1> QED
  BY <1>5, <1>7, <1>8, <1>9, <1>10 DEF Extended, Matched, HasValue

\* What is said of a set of nodes is said of a larger one.
LEMMA LargerSet ==
  ASSUME NEW a, NEW S, NEW T, S \subseteq T
  PROVE  /\ \A n : Wanted(n, S) => Wanted(n, T)
         /\ \A x : ReadBy(a, x, S) => ReadBy(a, x, T)
         /\ \A n : Entered(a, n, S) => Entered(a, n, T)
<1>1. /\ \A n : Wanted(n, S) => Wanted(n, T)
      /\ \A x : ReadBy(a, x, S) => ReadBy(a, x, T)
  BY DEF Wanted, ReadBy
<1>2. \A n : Entered(a, n, S) => Entered(a, n, T)
  BY <1>1 DEF Entered
<1> QED
  BY <1>1, <1>2

\* A list of one or two values.
LEMMA ShortList ==
  ASSUME NEW V, NEW s \in Seq(V)
  PROVE  /\ Len(s) <= 1 => \A i, j \in DOMAIN s : s[i] = s[j]
         /\ Len(s) <= 2 => \A i, j, k \in DOMAIN s : s[i] # s[j] => s[k] \in {s[i], s[j]}
<1>1. Len(s) <= 1 => \A i, j \in DOMAIN s : i = j
  OBVIOUS
<1>2. Len(s) <= 2 => \A i \in DOMAIN s : i \in {1, 2}
  OBVIOUS
<1>3. Len(s) <= 2 => \A i, j, k \in DOMAIN s : s[i] # s[j] => s[k] \in {s[i], s[j]}
  BY <1>2
<1> QED
  BY <1>1, <1>3

\* What a consumer in the fusion reads besides the node it was reached from.
LEMMA ConsumerEntered ==
  ASSUME GraphOK, NEW U, NEW Q, NEW D, RuleShape(U, Q, D), SchemaArity(Q \cup D),
         NEW a \in Node, NEW m, Anchored(a, m), NEW n \in Node,
         NEW t, t \in Q \/ (t \in D /\ HasValue(m)),
         op[n] = t.op, InputsMatch(n, t, m),
         NEW q \in Matched(m), q >= a, q \in Inputs(n)
  PROVE  \A x \in Inputs(n) \ {q} : ReadBy(a, x, Matched(m))
<1> SUFFICES ASSUME NEW x \in Inputs(n) \ {q} PROVE ReadBy(a, x, Matched(m))
  OBVIOUS
<1>1. inputs[n] \in Seq(0 .. N) /\ q \in Node
  BY AnchoredMatches DEF GraphOK
<1>2. PICK i \in DOMAIN inputs[n] : q = inputs[n][i]
  BY DEF Inputs
<1>3. PICK k \in DOMAIN inputs[n] : x = inputs[n][k] /\ x # 0
  BY DEF Inputs
<1>4. Len(inputs[n]) <= IF t.input = "any" THEN 2 ELSE 1
  BY DEF SchemaArity
<1>5. t.input = "any" /\ Len(inputs[n]) <= 2
  BY <1>1, <1>2, <1>3, <1>4, ShortList
<1>6. HasValue(m)
  BY <1>5 DEF RuleShape
<1>7. PICK j \in DOMAIN inputs[n] : m.value = inputs[n][j]
  BY <1>5, <1>6 DEF InputsMatch, HasValue, ToSet
<1>8. m.value # q
  <2>1. CASE m.value = 0
    BY <1>1, <2>1 DEF Node
  <2>2. CASE m.value # 0
    <3>1. PICK r \in Matched(m) : r <= a /\ m.value \in Inputs(r)
      BY <1>6, <2>2 DEF Anchored, ReadBy, HasValue
    <3>2. r \in Node /\ m.value \in Node /\ m.value < r
      BY <3>1, AnchoredMatches, InputsEarlier
    <3> QED
      BY <1>1, <3>1, <3>2 DEF Node
  <2> QED
    BY <2>1, <2>2
<1>9. x = m.value
  BY <1>1, <1>2, <1>3, <1>5, <1>7, <1>8, ShortList
<1> QED
  BY <1>3, <1>6, <1>9 DEF Anchored, HasValue

\* A node that a call is ready for leaves the match anchored.
LEMMA ExtendedAnchored ==
  ASSUME GraphOK, NEW U, NEW Q, NEW D, RuleShape(U, Q, D), SchemaArity(Q \cup D),
         NEW a \in Node, NEW m, Anchored(a, m), NEW n \in Node, NEW t,
         Ready(U, Q, D, a, n, t, m), n \notin Matched(m), op[n] = t.op, InputsMatch(n, t, m)
  PROVE  /\ Anchored(a, Extended(n, t, m))
         /\ Passable(U, Q, D, a, n, t, Extended(n, t, m))
<1> DEFINE k == Extended(n, t, m)
           S == Matched(m)
           T == Matched(k)
<1>1. m \in Match /\ AnchoredSet(a, S) /\ (m.value \in {NoValue, 0} \/ ReadBy(a, m.value, S))
  BY DEF Anchored
<1>2. /\ k \in Match /\ T = S \cup {n} /\ k.value = Captured(n, t, m)
      /\ k.value = m.value \/ k.value \in Inputs(n) \cup {0}
      /\ t.input = "none" => k.value = m.value
      /\ HasValue(m) => HasValue(k)
  BY <1>1, ExtendedMatch
<1> HIDE DEF k
<1>3. S \subseteq T /\ n \in T
  BY <1>2
<1>4. /\ \A x : Wanted(x, S) => Wanted(x, T)
      /\ \A x : ReadBy(a, x, S) => ReadBy(a, x, T)
      /\ \A x : Entered(a, x, S) => Entered(a, x, T)
  BY <1>3, LargerSet
<1>5. CASE t \in U /\ n < a /\ Wanted(n, S)
  <2>1. AnchoredSet(a, T)
    BY <1>1, <1>2, <1>4, <1>5 DEF AnchoredSet, Node
  <2>2. k.value \in {NoValue, 0} \/ ReadBy(a, k.value, T)
    <3>1. k.value \in Inputs(n) => ReadBy(a, k.value, T)
      BY <1>3, <1>5 DEF ReadBy, Node
    <3> QED
      BY <1>1, <1>2, <1>4, <3>1
  <2>3. Leads(t, U, {})
    BY <1>5 DEF RuleShape
  <2> QED
    BY <1>2, <2>1, <2>2, <2>3 DEF Anchored, Passable, k
<1>6. CASE (t \in Q \/ (t \in D /\ HasValue(m))) /\ \E q \in S : q >= a /\ q \in Inputs(n)
  <2>1. PICK q \in S : q >= a /\ q \in Inputs(n)
    BY <1>6
  <2>2. q \in Node /\ q < n
    BY <2>1, InputsEarlier
  <2>3. n > a
    BY <2>1, <2>2 DEF Node
  <2>4. \A x \in Inputs(n) \ {q} : ReadBy(a, x, S)
    BY <1>6, <2>1, ConsumerEntered
  <2>5. Entered(a, n, T)
    BY <1>3, <1>4, <2>1, <2>4 DEF Entered
  <2>6. AnchoredSet(a, T)
    BY <1>1, <1>2, <1>4, <2>3, <2>5 DEF AnchoredSet, Node
  <2>7. k.value = m.value
    <3>1. t.input = "none" \/ (t.input = "any" /\ HasValue(m))
      BY <1>6 DEF RuleShape
    <3> QED
      BY <1>2, <3>1 DEF Captured, HasValue
  <2>8. Leads(t, U, Q) \/ (Leads(t, U, D) /\ HasValue(k))
    BY <1>2, <1>6 DEF RuleShape
  <2> QED
    BY <1>1, <1>2, <1>4, <2>3, <2>6, <2>7, <2>8 DEF Anchored, Passable, Node, k
<1> QED
  BY <1>5, <1>6 DEF Ready

\* One call.
LEMMA OneGrows ==
  ASSUME GraphOK, NEW U, NEW Q, NEW D, RuleShape(U, Q, D), SchemaArity(Q \cup D),
         NEW taken, NEW a \in Node, NEW below, Grows(U, Q, D, a, below),
         NEW n \in Node, NEW t \in Trees, NEW m, Anchored(a, m), Ready(U, Q, D, a, n, t, m)
  PROVE  LET r == MatchOne(n, t, m, taken, below)
         IN  r \in Grown(a, m) /\ (t.input = "first" /\ r # NoMatch => HasValue(r))
<1> DEFINE r == MatchOne(n, t, m, taken, below)
           k == Extended(n, t, m)
<1>1. CASE n \in taken \cup Matched(m) \/ op[n] # t.op \/ ~InputsMatch(n, t, m)
  <2>1. r = NoMatch
    BY <1>1 DEF MatchOne
  <2> QED
    BY <2>1, GrownSelf
<1>2. CASE ~(n \in taken \cup Matched(m) \/ op[n] # t.op \/ ~InputsMatch(n, t, m))
  <2>0. n \notin Matched(m) /\ op[n] = t.op /\ InputsMatch(n, t, m) /\ m \in Match
    BY <1>2, AnchoredMatches
  <2>1. r = MatchEdges(n, t.edges, k, below)
    BY <1>2 DEF MatchOne, Extended
  <2>2. Anchored(a, k) /\ Passable(U, Q, D, a, n, t, k)
    BY <2>0, ExtendedAnchored
  <2>3. /\ k \in Match /\ Matched(k) = Matched(m) \cup {n}
        /\ HasValue(m) \/ t.input \in {"first", "any"} => HasValue(k)
    BY <2>0, ExtendedMatch
  <2> HIDE DEF k, r
  <2>4. r \in Grown(a, k)
    BY <2>1, <2>2, <2>3, EdgesGrow
  <2>5. k \in Grown(a, m) /\ k # NoMatch
    BY <2>2, <2>3, AnchoredMatches DEF Grown
  <2>6. r \in Grown(a, m)
    BY <2>4, <2>5, GrownTwice
  <2>7. t.input = "first" /\ r # NoMatch => HasValue(r)
    BY <2>3, <2>4 DEF Grown
  <2> QED
    BY <2>6, <2>7 DEF r
<1> QED
  BY <1>1, <1>2

\* The call at the anchor.
LEMMA AnchorGrows ==
  ASSUME GraphOK, NEW U, NEW Q, NEW D, RuleShape(U, Q, D),
         NEW taken, NEW a \in Node, NEW below, Grows(U, Q, D, a, below), NEW p \in Patterns
  PROVE  LET r == MatchOne(a, p, NoMatch, taken, below) IN r = NoMatch \/ Anchored(a, r)
<1> DEFINE r == MatchOne(a, p, NoMatch, taken, below)
           k == Extended(a, p, NoMatch)
<1>0. NoMatch \in Match /\ Matched(NoMatch) = {} /\ NoMatch.value = NoValue
  <2>1. NoMatch \in Match
    BY NoMatchAvoids DEF Avoiding
  <2> QED
    BY <2>1 DEF NoMatch, Matched, ToSet
<1>1. CASE a \in taken \cup Matched(NoMatch) \/ op[a] # p.op \/ ~InputsMatch(a, p, NoMatch)
  BY <1>1 DEF MatchOne
<1>2. CASE ~(a \in taken \cup Matched(NoMatch) \/ op[a] # p.op \/ ~InputsMatch(a, p, NoMatch))
  <2>1. r = MatchEdges(a, p.edges, k, below)
    BY <1>2 DEF MatchOne, Extended
  <2>2. /\ k \in Match /\ Matched(k) = {a}
        /\ k.value \in {NoValue, 0} \cup Inputs(a)
        /\ p.input = "first" => HasValue(k)
    BY <1>0, <1>2, ExtendedMatch
  <2> HIDE DEF k, r
  <2>3. AnchoredSet(a, Matched(k))
    BY <2>2 DEF AnchoredSet, Node
  <2>4. Anchored(a, k)
    BY <2>2, <2>3 DEF Anchored, ReadBy, Node
  <2>5. Passable(U, Q, D, a, a, p, k) /\ p \in Trees
    BY PatternAssumption DEF RuleShape, Passable, Node
  <2>6. r \in Grown(a, k)
    BY <2>1, <2>2, <2>4, <2>5, EdgesGrow
  <2> QED
    BY <2>6 DEF Grown, r
<1> QED
  BY <1>1, <1>2

\* What the matcher finds for a rule is anchored.
LEMMA MatchAnchored ==
  ASSUME GraphOK, NEW U, NEW Q, NEW D, RuleShape(U, Q, D), SchemaArity(Q \cup D),
         NEW taken, NEW a \in Node, NEW p \in Patterns
  PROVE  MatchNode(a, p, taken) = NoMatch \/ Anchored(a, MatchNode(a, p, taken))
<1>1. PICK match : /\ Deepens(taken, match)
                   /\ \A b, q : MatchNode(b, q, taken) = match[N][<<b, q, NoMatch>>]
  BY MatchUnfold
<1>2. N \in Nat /\ N \in 1 .. N /\ N - 1 \in 0 .. N
  BY GraphAssumption DEF Node
<1>3. \A x \in Calls : x[1] \in Node /\ x[2] \in Trees /\ x[3] \in Match
  BY DEF Calls
<1> DEFINE P == {d \in 0 .. N : Grows(U, Q, D, a, match[d])}
<1>4. 0 \in P
  <2>1. match[0] = [x \in Calls |-> NoMatch] /\ match[0] \in [Calls -> Match]
    BY <1>1, <1>2 DEF Deepens
  <2>2. Grows(U, Q, D, a, match[0])
    BY <2>1, GrownSelf DEF Grows
  <2> QED
    BY <1>2, <2>2
<1>5. ASSUME NEW d \in 1 .. N, d - 1 \in P PROVE d \in P
  <2>1. d \in 0 .. N /\ Grows(U, Q, D, a, match[d - 1])
    BY <1>5
  <2> DEFINE g == match[d - 1]
  <2>2. /\ match[d] = [x \in Calls |-> MatchOne(x[1], x[2], x[3], taken, g)]
        /\ match[d] \in [Calls -> Match]
    BY <1>1, <2>1 DEF Deepens
  <2>3. Grows(U, Q, D, a, g)
    BY <2>1
  <2> HIDE DEF g
  <2>4. ASSUME NEW x \in Calls, Anchored(a, x[3]), Ready(U, Q, D, a, x[1], x[2], x[3])
        PROVE  /\ match[d][x] \in Grown(a, x[3])
               /\ x[2].input = "first" /\ match[d][x] # NoMatch => HasValue(match[d][x])
    <3>1. match[d][x] = MatchOne(x[1], x[2], x[3], taken, g)
      BY <2>2
    <3> QED
      BY <1>3, <2>3, <2>4, <3>1, OneGrows
  <2>5. Grows(U, Q, D, a, match[d])
    BY <2>2, <2>4 DEF Grows
  <2> QED
    BY <2>1, <2>5
<1> HIDE DEF P
<1>6. N - 1 \in P
  BY <1>2, <1>4, <1>5, UpTo
<1>7. Grows(U, Q, D, a, match[N - 1])
  BY <1>6 DEF P
<1> DEFINE x == <<a, p, NoMatch>>
<1>8. x \in Calls /\ x[1] = a /\ x[2] = p /\ x[3] = NoMatch
  <2>1. NoMatch \in Match
    BY NoMatchAvoids DEF Avoiding
  <2> QED
    BY <2>1, PatternAssumption DEF Calls
<1> HIDE DEF x
<1>9. match[N][x] = MatchOne(a, p, NoMatch, taken, match[N - 1])
  BY <1>1, <1>2, <1>8 DEF Deepens
<1>10. MatchNode(a, p, taken) = MatchOne(a, p, NoMatch, taken, match[N - 1])
  BY <1>1, <1>9 DEF x
<1> QED
  BY <1>7, <1>10, AnchorGrows

\* A fusion, made at node a.
FusionAnchored(a, f) ==
  /\ a \in f.nodes /\ f.nodes \subseteq f.matched /\ AnchoredSet(a, f.matched)
  /\ \A n \in f.nodes :
       \/ n = a
       \/ \A c \in f.matched : c # n => n \notin Inputs(c)
       \/ \A c \in Node : n \in Inputs(c) => c \in f.matched

AnchoredFusions == \A f \in fused : \E a \in Node : FusionAnchored(a, f)

\* A node that stays in a match has its consumers outside it, or all inside.
LEMMA KeptAnchored ==
  ASSUME NEW a, NEW m, Anchored(a, m)
  PROVE  FusionAnchored(a, Fusion(a, m))
<1>1. AnchoredSet(a, Matched(m)) /\ Matched(m) \subseteq Node /\ a \in Matched(m)
  BY DEF Anchored, AnchoredSet
<1>2. Fusion(a, m).nodes = Kept(a, m) /\ Fusion(a, m).matched = Matched(m)
  BY DEF Fusion
<1>3. a \in Kept(a, m) /\ Kept(a, m) \subseteq Matched(m)
  BY <1>1 DEF Kept
<1>4. \A n, c \in Node : n \in ToSet(inputs[c]) <=> n \in Inputs(c)
  BY GraphAssumption DEF ToSet, Inputs, Node
<1>5. ASSUME NEW n \in Kept(a, m)
      PROVE  \/ n = a
             \/ \A c \in Matched(m) : c # n => n \notin Inputs(c)
             \/ \A c \in Node : n \in Inputs(c) => c \in Matched(m)
  <2>1. n \in Node
    BY <1>1, <1>3
  <2>2. Terminal(n, m) => \A c \in Matched(m) : c # n => n \notin Inputs(c)
    BY <1>1, <1>4, <2>1 DEF Terminal
  <2>3. ~External(n, m) => \A c \in Node : n \in Inputs(c) => c \in Matched(m)
    BY <1>4, <2>1 DEF External
  <2> QED
    BY <2>2, <2>3 DEF Kept
<1> QED
  BY <1>1, <1>2, <1>3, <1>5 DEF FusionAnchored

\* When the nodes left out are inputs of the fusion, none comes after the anchor.
LEMMA LeftOutBefore ==
  ASSUME GraphOK, NEW a \in Node, NEW f, FusionAnchored(a, f),
         \A e \in Edges : ~(e[1] \in f.nodes /\ e[2] \in f.matched \ f.nodes)
  PROVE  \A n \in f.matched \ f.nodes : n < a
<1> DEFINE L == {n \in f.matched \ f.nodes : n > a}
<1>1. f.matched \subseteq Node /\ a \in f.nodes /\ AnchoredSet(a, f.matched)
  BY DEF FusionAnchored, AnchoredSet
<1>2. SUFFICES ASSUME L # {} PROVE FALSE
  BY <1>1 DEF Node
<1>3. L \subseteq Nat
  BY <1>1 DEF Node
<1>4. PICK n \in L : \A k \in L : n <= k
  <2> HIDE DEF L
  <2> QED
    BY <1>2, <1>3, LeastNumber
<1>5. PICK q \in f.matched : q >= a /\ q \in Inputs(n)
  BY <1>1, <1>4 DEF AnchoredSet, Entered
<1>6. n \in Node /\ q \in Node /\ q < n
  BY <1>1, <1>4, <1>5, InputsEarlier
<1>7. q \in f.nodes
  BY <1>1, <1>3, <1>4, <1>5, <1>6 DEF Node
<1>8. <<q, n>> \in Edges
  BY <1>5, <1>6 DEF Edges
<1> QED
  BY <1>4, <1>7, <1>8

\* The anchor of a fusion is its pivot.
LEMMA AnchorIsPivot ==
  ASSUME GraphOK, \A n \in Node : implicit[n] = {}, NEW a \in Node, NEW f, FusionAnchored(a, f),
         \A e \in Edges : ~(e[1] \in f.nodes /\ e[2] \in f.matched \ f.nodes)
  PROVE  Pivot(f, a)
<1>1. f.matched \subseteq Node /\ a \in f.nodes /\ f.nodes \subseteq f.matched
      /\ AnchoredSet(a, f.matched)
  BY DEF FusionAnchored, AnchoredSet
<1>2. \A x, y : <<x, y>> \in Edges <=> x \in Node /\ y \in Node /\ x \in Inputs(y)
  BY DEF Edges
<1>3. ASSUME NEW x \in Node, NEW y \in Node, x \in Inputs(y), x \notin f.nodes, y \in f.nodes
      PROVE  \E r \in f.matched : r <= a /\ <<x, r>> \in Edges
  <2>1. CASE y <= a
    BY <1>1, <1>2, <1>3, <2>1
  <2>2. CASE y > a
    <3>1. PICK q \in f.matched : /\ q >= a
                                 /\ \A z \in Inputs(y) \ {q} : ReadBy(a, z, f.matched)
      BY <1>1, <1>3, <2>2 DEF AnchoredSet, Entered
    <3>2. x # q
      <4>1. SUFFICES ASSUME x = q PROVE FALSE
        OBVIOUS
      <4>2. x < a
        BY <1>3, <3>1, <4>1, LeftOutBefore
      <4> QED
        BY <1>1, <3>1, <4>1, <4>2 DEF Node
    <3>3. ReadBy(a, x, f.matched)
      BY <1>3, <3>1, <3>2
    <3> QED
      BY <1>1, <1>2, <1>3, <3>3 DEF ReadBy
  <2> QED
    BY <1>3, <2>1, <2>2 DEF Node
<1>4. ASSUME NEW x \in Node, NEW y \in Node, x \in Inputs(y), x \in f.nodes, y \notin f.nodes
      PROVE  a <= x
  <2>1. y \notin f.matched
    <3>1. <<x, y>> \in Edges
      BY <1>2, <1>4
    <3> QED
      BY <1>4, <3>1
  <2>2. x = a \/ \A c \in f.matched : c # x => x \notin Inputs(c)
    BY <1>4, <2>1 DEF FusionAnchored
  <2>3. x >= a \/ \E c \in f.matched : x \in Inputs(c)
    BY <1>1, <1>4 DEF AnchoredSet, Wanted
  <2>4. \A c \in f.matched : x \in Inputs(c) => c # x
    BY <1>1, <1>4, InputsEarlier DEF Node
  <2> QED
    BY <1>4, <2>2, <2>3, <2>4 DEF Node
<1>5. \A e \in Edges : e = <<e[1], e[2]>> /\ e[1] \in Node /\ e[2] \in Node /\ e[1] \in Inputs(e[2])
  BY DEF Edges
<1> QED
  BY <1>3, <1>4, <1>5 DEF Pivot

\* The graph and the operations never change.
LEMMA OperationsKept ==
  ASSUME [NextFusion]_allVars
  PROVE  UNCHANGED <<op, inputs, implicit>>
<1>1. CASE Next /\ UNCHANGED <<op, supported, fusion>>
  BY <1>1 DEF Next, Boundary, StartGroup, MergeGroup, JoinGroup, EndPartition,
              Resolve, ClaimGroup, EndIteration, graph
<1>2. CASE UNCHANGED <<vars, op>>
  BY <1>2 DEF vars, graph
<1>3. UNCHANGED <<vars, op>> \/ (Next /\ UNCHANGED <<op, supported, fusion>>)
  BY DEF NextFusion, allVars, FuseAnchor, AddSingleNodes, CompileTier0, CompileTier2,
         CompileFails, CompileDone
<1> QED
  BY <1>1, <1>2, <1>3

\* Every step leaves the fusions anchored.
LEMMA StepAnchored ==
  ASSUME NEW U, NEW Q, NEW D, RuleShape(U, Q, D)
  PROVE  IInv /\ FusionInv /\ SchemaArity(Q \cup D) /\ AnchoredFusions /\ [NextFusion]_allVars
           => AnchoredFusions' /\ SchemaArity(Q \cup D)'
<1> SUFFICES ASSUME IInv, FusionInv, SchemaArity(Q \cup D), AnchoredFusions, [NextFusion]_allVars
             PROVE  AnchoredFusions' /\ SchemaArity(Q \cup D)'
  OBVIOUS
<1>1. UNCHANGED <<op, inputs>> /\ GraphOK
  BY OperationsKept DEF IInv
<1>2. SchemaArity(Q \cup D)'
  BY <1>1 DEF SchemaArity
<1>3. \A a, f : FusionAnchored(a, f) => FusionAnchored(a, f)'
  BY <1>1 DEF FusionAnchored, AnchoredSet, Wanted, Entered, ReadBy, Inputs
<1>4. \A f \in fused' : f \in fused \/ \E a \in Node : FusionAnchored(a, f)
  <2>1. CASE FuseAnchor
    <3>1. anchor \in Node /\ \A f \in fused' : f \in fused \/ \E m \in Matches(anchor) : f = Fusion(anchor, m)
      BY <2>1 DEF FuseAnchor
    <3>2. ASSUME NEW m \in Matches(anchor) PROVE Anchored(anchor, m)
      <4>1. PICK p \in Patterns : m = MatchNode(anchor, p, Fused) /\ m # NoMatch
        BY DEF Matches
      <4> QED
        BY <1>1, <3>1, <4>1, MatchAnchored
    <3> QED
      BY <3>1, <3>2, KeptAnchored
  <2>2. CASE Next /\ UNCHANGED <<op, supported, fusion>>
    BY <2>2 DEF fusion
  <2>3. CASE ~FuseAnchor /\ ~(Next /\ UNCHANGED <<op, supported, fusion>>)
    BY <2>3 DEF NextFusion, allVars, fusion, AddSingleNodes, CompileTier0, CompileTier2,
                CompileFails, CompileDone
  <2> QED
    BY <2>1, <2>2, <2>3
<1> QED
  BY <1>2, <1>3, <1>4 DEF AnchoredFusions

\* FusionsHavePivot: whatever rules of this shape are indexed, and whatever the
\* graph, a fusion takes all it reads before the first of its outputs is used.
THEOREM RulesHavePivots ==
  ASSUME NEW U, NEW Q, NEW D, RuleShape(U, Q, D)
  PROVE  FusionSpec /\ SchemaArity(Q \cup D)
           => []((\A n \in Node : implicit[n] = {}) => FusionsHavePivot)
<1>1. IInv /\ AnchoredFusions => ((\A n \in Node : implicit[n] = {}) => FusionsHavePivot)
  BY AnchorIsPivot DEF IInv, AnchoredFusions, FusionsHavePivot, LeftOutUpstream
<1>2. FusionSpec => Init /\ [][NextFusion]_allVars
  BY DEF FusionSpec
<1>3. FusionSpec => FusionInv /\ AnchoredFusions
  BY InitFusionInv DEF FusionSpec, InitFusion, AnchoredFusions
<1> QED
  BY <1>1, <1>2, <1>3, InitIInv, StepIInv, StepFusion, TierStep, StepAnchored, PTL

\* CapabilityAcyclic: for such rules the groups of tier 0 and the fusions of tier 2
\* leave the graph acyclic, as long as no node left out of a fusion uses it.
THEOREM RulesKeepAcyclic ==
  ASSUME NEW U, NEW Q, NEW D, RuleShape(U, Q, D)
  PROVE  FusionSpec /\ SchemaArity(Q \cup D) => []CapabilityAcyclic
<1>1. (FusionsHavePivot => CapabilityAcyclic)
      /\ ((\A n \in Node : implicit[n] = {}) => FusionsHavePivot) => CapabilityAcyclic
  BY DEF CapabilityAcyclic
<1> QED
  BY <1>1, RulesHavePivots, PivotsKeepAcyclic, PTL
=============================================================================
