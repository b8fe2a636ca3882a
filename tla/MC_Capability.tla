---------------------------- MODULE MC_Capability ----------------------------
(* Graphs and patterns for the runs of Capability. *)
EXTENDS Capability

CONSTANTS Families   \* which families of graphs

Edge(dir, index, optional, child) ==
  [dir |-> dir, index |-> index, optional |-> optional, child |-> child]
Tree(name, input, edges) ==
  [op |-> name, input |-> input, edges |-> edges, exclusive |-> name = "MatMul"]

QuickGelu == Tree("Sigmoid", "first", <<
  Edge("up", 1, TRUE, Tree("Mul", "first", <<>>)),
  Edge("down", 1, FALSE, Tree("Mul", "any", <<>>))>>)

FusedMatMul == Tree("MatMul", "none", <<
  Edge("up", 1, TRUE, Tree("Transpose", "none", <<>>)),
  Edge("up", 2, TRUE, Tree("Transpose", "none", <<>>)),
  Edge("down", 1, TRUE, Tree("Scale", "none", <<
    Edge("down", 1, TRUE, Tree("Relu", "none", <<>>))>>)),
  Edge("down", 1, TRUE, Tree("Relu", "none", <<>>))>>)

BiasGelu == Tree("Erf", "none", <<
  Edge("up", 1, FALSE, Tree("Div", "first", <<
    Edge("up", 1, FALSE, Tree("Add", "none", <<>>))>>)),
  Edge("down", 1, FALSE, Tree("AddOne", "none", <<
    Edge("down", 1, FALSE, Tree("Mul", "any", <<
      Edge("up", 2, TRUE, Tree("MulHalf", "any", <<>>)),
      Edge("down", 1, TRUE, Tree("MulHalf", "none", <<>>))>>))>>))>>)

AllPatterns == {QuickGelu, FusedMatMul, BiasGelu}

RECURSIVE Below(_)
Below(p) == {p} \cup UNION {Below(p.edges[i].child) : i \in DOMAIN p.edges}
AllTrees == UNION {Below(p) : p \in AllPatterns}

\* The rules have the shape that theorem RulesKeepAcyclic asks for.
EdgesOf(t) == {t.edges[i] : i \in DOMAIN t.edges}
UpTrees == UNION {Below(e.child) : e \in {e \in UNION {EdgesOf(t) : t \in AllTrees} : e.dir = "up"}}
PlainTrees == UNION {Below(FusedMatMul.edges[i].child) : i \in {3, 4}}
DownTrees == (AllTrees \ (UpTrees \cup AllPatterns)) \cup PlainTrees
ASSUME RulesAreShaped == RuleShape(UpTrees, PlainTrees, DownTrees)

\* Lists of at most k different values among S (an input of the graph, 0, only
\* as the first), and the graphs whose nodes each have such a list of inputs.
Lists(S, k) == {l \in UNION {[1 .. j -> S] : j \in 1 .. k} :
                  IsInjective(l) /\ \A i \in DOMAIN l : l[i] = 0 => i = 1}

RECURSIVE Graphs(_, _)
Graphs(n, k) ==
  IF n = 0 THEN {<<>>}
  ELSE {Append(g, l) : g \in Graphs(n - 1, k), l \in Lists(0 .. n - 1, k)}

\* What a node is, in each family: whether it is supported and fuseable, dynamic,
\* resizes, translates, compiles, and its operation.
Kind(s, f, d, r, t, c, o) ==
  [supported |-> s, fuseable |-> f, dynamic |-> d, resizes |-> r,
   translates |-> t, compiles |-> c, op |-> o]

FromKinds(kind) ==
  /\ op = [n \in Node |-> kind[n].op]
  /\ supported = {n \in Node : kind[n].supported}
  /\ fuseable = {n \in Node : kind[n].fuseable}
  /\ dynamic = {n \in Node : kind[n].dynamic}
  /\ resizes = {n \in Node : kind[n].resizes}
  /\ translates = {n \in Node : kind[n].translates}
  /\ compiles = {n \in Node : kind[n].compiles}

Host == Kind(FALSE, FALSE, FALSE, FALSE, FALSE, FALSE, "Host")
Single == Kind(TRUE, FALSE, FALSE, FALSE, FALSE, FALSE, "Single")
Upsample == Kind(TRUE, TRUE, TRUE, TRUE, TRUE, TRUE, "Upsample")
Dyn == Kind(TRUE, TRUE, TRUE, FALSE, TRUE, TRUE, "Dyn")
Untranslated == Kind(TRUE, TRUE, FALSE, FALSE, FALSE, TRUE, "Bad")
Uncompiled == Kind(TRUE, TRUE, TRUE, FALSE, TRUE, FALSE, "Bad")
Op(o) == Kind(TRUE, FALSE, FALSE, FALSE, FALSE, FALSE, o)
Fuseable(o) == Kind(TRUE, TRUE, FALSE, FALSE, TRUE, TRUE, o)

NoSubgraphs == implicit = [n \in Node |-> {}]

\* Every graph, of nodes that are fuseable or not.
Topologies ==
  /\ inputs \in Graphs(N, 3)
  /\ \E kind \in [Node -> {Host, Fuseable("Plain")}] : FromKinds(kind)
  /\ NoSubgraphs /\ static = TRUE

\* Every way the claim loop can go, on trees whose nodes use the first node or
\* the one before them.
Claims ==
  /\ inputs \in {g \in Graphs(N, 1) : \A n \in 2 .. N : g[n][1] \in {1, n - 1}}
  /\ \E kind \in [Node -> {Host, Upsample, Dyn, Untranslated, Uncompiled}] :
       FromKinds(kind)
  /\ NoSubgraphs /\ static = TRUE

\* Graphs of the operations of QuickGelu, with tier 0 and without it.
QuickGelus ==
  /\ inputs \in {g \in Graphs(N, 2) : \A n \in Node : Len(g[n]) = 2 => g[n][1] < g[n][2]}
  /\ \/ static = FALSE /\ \E kind \in [Node -> {Single, Op("Sigmoid"), Op("Mul")}] :
          FromKinds(kind)
     \/ static = TRUE /\ \E kind \in [Node -> {Fuseable("Sigmoid"), Fuseable("Mul"), Op("Mul")}] :
          FromKinds(kind)
  /\ NoSubgraphs

\* A MatMul scaled, with an activation, and one more user of one of their outputs.
MatMuls ==
  /\ \E user \in 1 .. 4 : inputs = << <<0>>, <<1>>, <<2>>, <<3>>, <<user>> >>
  /\ FromKinds(<<Host, Op("MatMul"), Op("Scale"), Op("Relu"), Host>>)
  /\ NoSubgraphs /\ static = FALSE

\* Nodes that are not fuseable may have subgraphs, which use any earlier value.
WithSubgraphs ==
  /\ inputs \in Graphs(N, 2)
  /\ \E kind \in [Node -> {Host, Fuseable("Plain")}] : FromKinds(kind)
  /\ implicit \in [Node -> SUBSET Node]
  /\ \A n \in Node : implicit[n] \subseteq 1 .. n - 1 /\ (n \in fuseable => implicit[n] = {})
  /\ static = TRUE

\* The six nodes of BiasGelu, and one that uses the output of one of them.
BiasGelus ==
  /\ \E user \in 1 .. 6 :
       inputs = << <<0>>, <<1>>, <<2>>, <<3>>, <<4, 1>>, <<5>>, <<user>> >>
  /\ FromKinds(<<Op("Add"), Op("Div"), Op("Erf"), Op("AddOne"), Op("Mul"),
                 Op("MulHalf"), Host>>)
  /\ NoSubgraphs /\ static = FALSE

MCInit ==
  /\ \/ "topologies" \in Families /\ Topologies
     \/ "claims" \in Families /\ Claims
     \/ "gelu" \in Families /\ QuickGelus
     \/ "matmul" \in Families /\ MatMuls
     \/ "bias" \in Families /\ BiasGelus
     \/ "subgraphs" \in Families /\ WithSubgraphs
  /\ InitPasses /\ InitFusion

MCSpec == MCInit /\ [][NextFusion]_allVars
=============================================================================
