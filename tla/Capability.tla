------------------------------ MODULE Capability ------------------------------
(***************************************************************************)
(* GetCapabilityImpl and CompileImpl of the DirectML provider              *)
(* (src/src/directml/dml_ep.cc): after the groups of tier 0                *)
(* (GraphPartition), patterns are fused (tier 2, EpFusionManager in        *)
(* ep_fusion_manager.cc with the matcher of pattern_matcher.cc), what is   *)
(* left is claimed node by node (tier 1), and ONNX Runtime has each fused  *)
(* set of nodes compiled.                                                  *)
(*                                                                         *)
(* A pattern is a tree.  The values a pattern compares are kept; that an   *)
(* operand is a given scalar or a constant of some rank is part of the     *)
(* name of the operation, and constant operands are not among the inputs.  *)
(* A graph output counts as a consumer: here it is a node of its own that  *)
(* is not supported.                                                       *)
(***************************************************************************)
EXTENDS GraphPartition, SequencesExt

CONSTANTS Trees,      \* the patterns' nodes, each with the tree below it
          Patterns,   \* the trees of the anchor index
          NoValue

\* An operation has one tree: rules that share an anchor are merged.
ASSUME PatternAssumption ==
  /\ Patterns \subseteq Trees
  /\ \A p, q \in Patterns : p.op = q.op => p = q
  /\ \A p \in Trees : \A i \in 1 .. Len(p.edges) : p.edges[i].child \in Trees
  /\ \A p \in Trees : Len(p.edges) \in Nat

\* The mark for no value captured is not a value.
ASSUME NoValueAssumption == NoValue \notin 0 .. N

VARIABLES op,         \* the operation of each node
          supported,  \* IsNodeSupportedByDml and not CPU-preferred
          stage, anchor,
          fusionMap,  \* m_fusionMap: the nodes fused and the nodes matched
          fused,      \* the fusions handed to AddNodesToFuse
          singles,    \* the nodes handed to AddSingleNode
          compiled    \* the sets of nodes CompileImpl compiled, and by which tier

fusion == <<stage, anchor, fusionMap, fused, singles, compiled>>
allVars == <<vars, op, supported, fusion>>

InitFusion ==
  /\ stage = "fuse" /\ anchor = 1
  /\ fusionMap = {} /\ fused = {} /\ singles = {} /\ compiled = {}

-----------------------------------------------------------------------------
(* The pattern matcher *)

\* A match: the nodes matched, in order, and the value captured.
Match == [nodes : Seq(Node), value : 0 .. N \cup {NoValue}]
NoMatch == [nodes |-> <<>>, value |-> NoValue]
Size(m) == Len(m.nodes)
Matched(m) == ToSet(m.nodes)

\* consumer_map: a node that uses a value twice is listed twice.
Consumers(v) == {c \in Node \X (1 .. N) :
                   c[2] \in DOMAIN inputs[c[1]] /\ inputs[c[1]][c[2]] = v}
HasSingleConsumer(v) == Cardinality(Consumers(v)) = 1

\* The value captured after the constraints of a node; "any" (an input that is
\* the value captured before, or the first one) is PSameAs on every input.
Captured(n, p, m) ==
  CASE p.input = "first" -> inputs[n][1]
    [] p.input = "any" /\ m.value = NoValue -> inputs[n][1]
    [] OTHER -> m.value

\* Mutant: any input is taken for the one the fusion already reads.
AnyInputMatches(n, p, m) == p.input \in {"first", "any"} => inputs[n] # <<>>

InputsMatch(n, p, m) ==
  CASE p.input = "first" -> inputs[n] # <<>>
    [] p.input = "any" -> /\ inputs[n] # <<>>
                          /\ m.value # NoValue => m.value \in ToSet(inputs[n])
    [] OTHER -> TRUE

\* The node an edge leads to.  Downstream, the value must have a single consumer
\* unless the child is a leaf; upstream, its consumers are not counted.
Children(n, e) ==
  IF e.dir = "up"
  THEN IF e.index \in DOMAIN inputs[n] THEN {inputs[n][e.index]} \ {0} ELSE {}
  ELSE IF e.child.edges = <<>> \/ HasSingleConsumer(n)
       THEN {c \in Node : \E i \in 1 .. N : <<c, i>> \in Consumers(n) /\ op[c] = e.child.op}
       ELSE {}

\* The match after an edge of node n; below matches what an edge leads to.  An
\* optional edge is kept only if it makes the match longer.
Follow(n, e, m, below) ==
  LET cs == Children(n, e)
      tried == IF cs = {} THEN NoMatch
               ELSE below[<<CHOOSE c \in cs : \A d \in cs : c <= d, e.child, m>>]
  IN IF m = NoMatch THEN NoMatch
     ELSE IF ~e.optional THEN tried
     ELSE IF Size(tried) > Size(m) THEN tried ELSE m

\* The edges in order.
MatchEdges(n, edges, m, below) ==
  LET along[i \in 0 .. Len(edges)] ==
        IF i = 0 THEN m ELSE Follow(n, edges[i], along[i - 1], below)
  IN  along[Len(edges)]

\* m with node n and what its pattern p reaches, or NoMatch.
MatchOne(n, p, m, taken, below) ==
  IF n \in taken \cup Matched(m) \/ op[n] # p.op \/ ~InputsMatch(n, p, m) THEN NoMatch
  ELSE MatchEdges(n, p.edges,
                  [nodes |-> Append(m.nodes, n), value |-> Captured(n, p, m)], below)

\* The matcher from an anchor.  Its recursion goes no deeper than there are
\* nodes, since no node is matched twice.
MatchNode(anchored, p, taken) ==
  LET match[depth \in 0 .. N] ==
        [x \in Node \X Trees \X Match |->
           IF depth = 0 THEN NoMatch
           ELSE MatchOne(x[1], x[2], x[3], taken, match[depth - 1])]
  IN  match[N][<<anchored, p, NoMatch>>]

-----------------------------------------------------------------------------
(* Tier 2: ApplyFusions *)

Claimed == UNION {Members(g) : g \in claimed}
Fused == UNION {f.nodes : f \in fused}

\* Mutant: nodes of tier 0 may be matched again.
AllSupported == supported

\* CPU-preferred nodes and those tier 0 claimed are excluded.
Candidates == supported \ Claimed

Terminal(n, m) == \A c \in Node : (c # n /\ n \in ToSet(inputs[c])) => c \notin Matched(m)
External(n, m) == \E c \in Node : n \in ToSet(inputs[c]) /\ c \notin Matched(m) \ Fused

\* Mutant: every node matched is fused.
KeepAll(a, m) == Matched(m)

\* A node whose output is used both inside and outside the match stays in the
\* graph, and the fused kernel reads past it; the anchor always stays in.
Kept(a, m) == {n \in Matched(m) : n = a \/ Terminal(n, m) \/ ~External(n, m)}

\* ValidateCapture.  FusedMatMul, an exclusive pattern, needs an operand from a
\* node outside the match, and if a consumer of the anchor is matched the anchor
\* may have no other; the other rules accept every match.
ValidateCapture(a, p, m) == p.exclusive =>
  /\ \E v \in ToSet(inputs[a]) : v # 0 /\ v \notin Matched(m)
  /\ (\E c \in Matched(m) : a \in ToSet(inputs[c])) => HasSingleConsumer(a)

Matches(a) ==
  {m \in {MatchNode(a, p, Fused) : p \in {p \in Patterns : p.op = op[a]}} :
     m # NoMatch /\ \A p \in Patterns : p.op = op[a] => ValidateCapture(a, p, m)}

Fusion(a, m) == [nodes |-> Kept(a, m), matched |-> Matched(m)]

\* One anchor; a match of which less than two nodes are left is dropped.
FuseAnchor ==
  LET found == {m \in Matches(anchor) : Matched(m) \subseteq Candidates
                                          /\ Cardinality(Kept(anchor, m)) > 1}
      new == IF anchor \in Fused THEN {} ELSE {Fusion(anchor, m) : m \in found}
  IN /\ phase = "claimed" /\ stage = "fuse" /\ anchor \in Node
     /\ fused' = fused \cup new
     /\ fusionMap' = fusionMap \cup new
     /\ anchor' = anchor + 1
     /\ UNCHANGED <<vars, op, supported, stage, singles, compiled>>

-----------------------------------------------------------------------------
(* Tier 1, and CompileImpl *)

Left == supported \ (Claimed \cup Fused)

AddSingleNodes ==
  /\ phase = "claimed" /\ stage = "fuse" /\ anchor = N + 1
  /\ singles' = Left
  /\ stage' = "compile"
  /\ UNCHANGED <<vars, op, supported, anchor, fusionMap, fused, compiled>>

\* m_tier0GroupHashes: the node sets of the groups claimed.
Tier0Groups == {Members(g) : g \in claimed}
Subgraphs == Tier0Groups \cup {f.nodes : f \in fused}
CompiledSets == {c.nodes : c \in compiled}

CompileTier0(s) ==
  /\ stage = "compile" /\ s \in Tier0Groups \ CompiledSets
  /\ compiled' = compiled \cup {[nodes |-> s, tier |-> 0]}
  /\ UNCHANGED <<vars, op, supported, stage, anchor, fusionMap, fused, singles>>

\* Mutant: the matches of the other subgraphs go too.
TakeEveryMatch(s) == fusionMap' = {}

\* CompileFusion takes the match out of the map before the rule compiles it.
TakeMatch(s) == fusionMap' = {f \in fusionMap : f.nodes # s}

CompileTier2(s) ==
  /\ stage = "compile" /\ s \in Subgraphs \ CompiledSets
  /\ s \notin Tier0Groups /\ \E f \in fusionMap : f.nodes = s
  /\ TakeMatch(s)
  /\ compiled' = compiled \cup {[nodes |-> s, tier |-> 2]}
  /\ UNCHANGED <<vars, op, supported, stage, anchor, fused, singles>>

\* Compilation fails in its tier: a group of tier 0 goes on to tier 2, which has
\* no match for it.  The other sets are not compiled any more.
CompileFails(s) ==
  /\ stage = "compile" /\ s \in Subgraphs \ CompiledSets
  /\ TakeMatch(s)
  /\ stage' = "failed"
  /\ UNCHANGED <<vars, op, supported, anchor, fused, singles, compiled>>

CompileDone ==
  /\ stage = "compile" /\ Subgraphs = CompiledSets
  /\ stage' = "done"
  /\ UNCHANGED <<vars, op, supported, anchor, fusionMap, fused, singles, compiled>>

NextFusion ==
  \/ Next /\ UNCHANGED <<op, supported, fusion>>
  \/ FuseAnchor \/ AddSingleNodes
  \/ \E s \in Subgraphs : CompileTier0(s) \/ CompileTier2(s) \/ CompileFails(s)
  \/ CompileDone

\* A node that can be fused is supported.
FusionSpec ==
  /\ Init /\ InitFusion /\ fuseable \subseteq supported /\ supported \subseteq Node
  /\ [][NextFusion]_allVars

-----------------------------------------------------------------------------
(* Properties *)

CapabilityTypeOK ==
  /\ TypeOK /\ GraphOK
  /\ supported \subseteq Node /\ fuseable \subseteq supported
  /\ stage \in {"fuse", "compile", "done", "failed"}
  /\ anchor \in 1 .. N + 1
  /\ \A f \in fused : f.nodes \subseteq f.matched /\ f.matched \subseteq supported
  /\ fusionMap \subseteq fused
  /\ singles \subseteq supported
  /\ CompiledSets \subseteq Subgraphs

\* "creating overlapping fused groups that crash at inference time": however the
\* tiers fail and fall through, each supported node is claimed exactly once, in
\* one group, in one fusion or alone, and no other node is claimed.
ClaimedOnce == stage # "fuse" =>
  /\ (UNION Subgraphs) \cup singles = supported
  /\ \A s, t \in Subgraphs : s # t => s \cap t = {}
  /\ (UNION Subgraphs) \cap singles = {}

\* Every set of nodes handed over has its compiler, whatever order they are
\* compiled in, and a match is used once.
CompiledByItsTier ==
  stage = "compile" => \A s \in Subgraphs :
    s \in CompiledSets \/ s \in Tier0Groups \/ \E f \in fusionMap : f.nodes = s

\* The unit a node ends in.
UnitOf(n) == IF n \in Claimed \cup Fused
             THEN CHOOSE s \in Subgraphs : n \in s ELSE {n}

CapabilityRunnable ==
  \A S \in (SUBSET {UnitOf(n) : n \in Node}) \ {{}} :
    \E u \in S : \A e \in Edges :
      (UnitOf(e[2]) = u /\ UnitOf(e[1]) # u) => UnitOf(e[1]) \notin S

\* No node left out of a fusion uses a node that is in it.
LeftOutUpstream == \A f \in fused :
  \A e \in Edges : ~(e[1] \in f.nodes /\ e[2] \in f.matched \ f.nodes)

\* Everything a fusion waits for is used by a node of the match no later than
\* node c, and the nodes whose outputs leave the fusion come no earlier than c.
Pivot(f, c) ==
  /\ \A e \in Edges : (e[1] \notin f.nodes /\ e[2] \in f.nodes) =>
       \E r \in f.matched : r <= c /\ <<e[1], r>> \in Edges
  /\ \A e \in Edges : (e[1] \in f.nodes /\ e[2] \notin f.nodes) => c <= e[1]

\* A fused kernel takes all it reads before the first of its outputs is used.
FusionsHavePivot == LeftOutUpstream => \A f \in fused : \E c \in Node : Pivot(f, c)

\* The shape of the rules.  A tree of U only leads to producers.  A tree of Q or D
\* leads to consumers; one of Q compares no value, and one of D is reached when a
\* value was captured already.
Leads(t, U, D) == \A i \in 1 .. Len(t.edges) :
  t.edges[i].child \in (IF t.edges[i].dir = "up" THEN U ELSE D)

CapturesFirst(p) ==
  \/ p.input = "first"
  \/ /\ Len(p.edges) > 0
     /\ p.edges[1].dir = "up" /\ ~p.edges[1].optional /\ p.edges[1].child.input = "first"

RuleShape(U, Q, D) ==
  /\ \A t \in U : Leads(t, U, {})
  /\ \A t \in Q : t.input = "none" /\ Leads(t, U, Q)
  /\ \A t \in D : t.input \in {"none", "any"} /\ Leads(t, U, D)
  /\ \A p \in Patterns : Leads(p, U, Q) \/ (CapturesFirst(p) /\ Leads(p, U, D))

\* What the operations of such trees read: one value, besides constants, or two
\* if one is compared with the value captured.
SchemaArity(T) == \A n \in Node : \A t \in T :
  op[n] = t.op => Len(inputs[n]) <= IF t.input = "any" THEN 2 ELSE 1

\* The groups and the fusions together leave the graph acyclic, as long as the
\* nodes kept out of a fusion are inputs of it.
CapabilityAcyclic ==
  stage \in {"done", "failed"} /\ (\A n \in Node : implicit[n] = {}) /\ LeftOutUpstream
    => CapabilityRunnable

\* The same without that condition.
FusionsAcyclic == stage \in {"done", "failed"} => CapabilityRunnable

\* "the fused node only produces the post-activation/scaled result": at most one
\* node of a fusion has its output used outside.
FusionsHaveOneOutput == \A f \in fused :
  Cardinality({n \in f.nodes : \E c \in Node \ f.nodes : n \in ToSet(inputs[c])}) <= 1
=============================================================================
