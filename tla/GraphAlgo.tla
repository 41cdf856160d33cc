----------------------------- MODULE GraphAlgo -----------------------------
(***************************************************************************)
(* The searches of Graph<TxnInfo> as the code runs them: the recursion of  *)
(* strong_connect (deptran/graph.h) and the work list of find_txn_anc_opt  *)
(* (deptran/dep_graph.cc), on a graph that grows edge by edge and commits  *)
(* vertices, compared with what module DepGraph says they find; and        *)
(* sorted_scc compared with what its comments promise.                     *)
(***************************************************************************)
EXTENDS DepGraph, SequencesExt

CONSTANTS MaxEdges,    \* bound on the edges of the graph
          MaxCommits   \* bound on the committed vertices

ASSUME BoundAssumption == MaxEdges \in Nat /\ MaxCommits \in Nat

VARIABLE g

\* All vertices are there: an isolated one stands for one not started.
Init == \E s \in Server :
           g = [EmptyGraph EXCEPT !.srv = [t \in Txn |-> {s}]]

\* entry_t::touch adds one edge; scc_anc_commit_cb sets one COMMIT bit.
AddEdge ==
  /\ Cardinality(g.edge) < MaxEdges
  /\ \E e \in Edge \ g.edge : g' = [g EXCEPT !.edge = @ \cup {e}]

Commit ==
  /\ Cardinality({t \in Txn : IsCommit(g, t)}) < MaxCommits
  /\ \E t \in Txn : /\ ~IsCommit(g, t)
                    /\ g' = [g EXCEPT !.st = [@ EXCEPT ![t] = {"COMMIT"}]]

Next == AddEdge \/ Commit

Spec == Init /\ [][Next]_g

-----------------------------------------------------------------------------
(* strong_connect *)

ToSeq(G, v, ptr) == InPointerOrder({w \in Txn : IsEdge(G, v, w)}, ptr)

Unseen == [S |-> <<>>, ret |-> <<>>, index |-> 0,
           indexes |-> << >>, lowlinks |-> << >>]

Smaller(a, b) == IF a < b THEN a ELSE b

\* Mutant: the stack is not searched, so a vertex of a finished component
\* lowers the link.
LowerAlways(x, v, w) ==
  [x EXCEPT !.lowlinks = [@ EXCEPT ![v] = Smaller(@, x.indexes[w])]]

\* w was reached before: it lowers the link of v if it is still on the stack.
Lower(x, v, w) ==
  IF w \in ToSet(x.S)
  THEN [x EXCEPT !.lowlinks = [@ EXCEPT ![v] = Smaller(@, x.indexes[w])]]
  ELSE x

\* S is popped down to v when v is the root of a component.
PopComponent(x, v) ==
  IF x.lowlinks[v] # x.indexes[v] THEN [x EXCEPT !.ret = <<>>]
  ELSE LET k == CHOOSE i \in DOMAIN x.S : x.S[i] = v
       IN  [x EXCEPT !.S = SubSeq(@, 1, k - 1),
                     !.ret = Reverse(SubSeq(x.S, k, Len(x.S)))]

Enter(x, v) ==
  [x EXCEPT !.indexes = (v :> x.index) @@ @, !.lowlinks = (v :> x.index) @@ @,
            !.index = @ + 1, !.S = Append(@, v)]

RECURSIVE StrongConnect(_, _, _, _)
StrongConnect(G, v, ptr, x) ==
  LET Visit(y, w) ==
        IF w \in DOMAIN y.indexes THEN Lower(y, v, w)
        ELSE LET z == StrongConnect(G, w, ptr, y)
             IN  [z EXCEPT !.lowlinks =
                    [@ EXCEPT ![v] = Smaller(@, z.lowlinks[w])]]
  IN  PopComponent(FoldLeft(Visit, Enter(x, v), ToSeq(G, v, ptr)), v)

FindScc(G, v, ptr) == StrongConnect(G, v, ptr, Unseen).ret

-----------------------------------------------------------------------------
(* find_txn_anc_opt *)

\* Mutant: committed parents are passed through as well.
PushAllParents(G, v, x) ==
  LET new == SetToSeq(Parents(G, v) \ x.ret)
  IN  [ret |-> x.ret \cup ToSet(new), stack |-> Front(x.stack) \o new]

PushParents(G, v, x) ==
  LET new == SetToSeq({p \in Parents(G, v) : ~IsCommit(G, p) /\ p \notin x.ret})
  IN  [ret |-> x.ret \cup ToSet(new), stack |-> Front(x.stack) \o new]

RECURSIVE Search(_, _)
Search(G, x) ==
  IF x.stack = <<>> THEN x.ret ELSE Search(G, PushParents(G, Last(x.stack), x))

FindTxnAncOpt(G, source) == Search(G, [ret |-> {}, stack |-> <<source>>]) \ {source}

-----------------------------------------------------------------------------
(* Properties *)

\* From every vertex and in every order of the addresses, strong_connect
\* returns each member of the vertex's strongly connected component once,
\* although it starts from the vertex and not from a root of the graph.
FindSccCorrect ==
  \A v \in Txn, ptr \in PointerOrders :
     LET f == FindScc(g, v, ptr)
     IN  ToSet(f) = Scc(g, v) /\ Len(f) = Cardinality(Scc(g, v))

\* The work list of find_txn_anc_opt, which marks a parent when it is pushed
\* and removes the source at the end, finds the uncommitted ancestors that are
\* reached through uncommitted ones, also when the source is on a cycle.
AncOptCorrect == \A v \in Txn : FindTxnAncOpt(g, v) = AncOpt(g, v)

\* When no verify() fails, sorted_scc returns every member of the component
\* once and no member before one of its I-parents.
SortRespectsI ==
  \A v \in Txn, ptr \in PointerOrders :
     LET o == SortedScc(g, v, ptr)
     IN  SortFails(g, v, ptr) \/
           /\ ToSet(o) = Scc(g, v)
           /\ \A i, j \in DOMAIN o : i <= j => o[j] \notin IParents(g, o[i])

\* sorted_scc returns the same order from every member and on every server
\* while sort_vv has at most two vertices to sort: "to ensure that the result
\* is unique, initial sets must be sorted" (graph.h:371).  sort_vv leaves some
\* longer vectors unsorted, and two servers that disagree run conflicting
\* pieces in opposite orders.
SortUniqueOfTwo ==
  \A S \in {Scc(g, v) : v \in Txn} :
     Cardinality({v \in S : IParents(g, v) \cap S = {}}) <= 2 =>
       Cardinality({SortedScc(g, v, ptr) : v \in S, ptr \in PointerOrders}) = 1

=============================================================================
