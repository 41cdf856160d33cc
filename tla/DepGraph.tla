------------------------------ MODULE DepGraph ------------------------------
(***************************************************************************)
(* The dependency graph of transactions: Graph<TxnInfo> (deptran/graph.h), *)
(* TxnInfo (deptran/txn_info.h) and the queries DepGraph asks of it        *)
(* (deptran/dep_graph.cc, dep_graph.hpp).                                  *)
(*                                                                         *)
(* A graph maps every transaction to the set of servers known to run one   *)
(* of its pieces (servers_) and to its status bits (status_).  A vertex    *)
(* exists exactly when servers_ is not empty: start_pie inserts the own    *)
(* site id in the vertex it creates and every other vertex is copied with  *)
(* its data.  An edge <<p, c, k>> is from_/to_ with relation bit k.        *)
(***************************************************************************)
EXTENDS Naturals, FiniteSets, Sequences

CONSTANTS Txn,      \* transaction ids, ordered as in sort_vv
          Server    \* site ids, ordered as in std::set<uint32_t> servers_

ASSUME TxnAssumption == Txn \subseteq Nat /\ IsFiniteSet(Txn)
ASSUME ServerAssumption == Server \subseteq Nat

Flag == {"FINISH", "COMMIT"}
Kind == {"D", "I"}
Edge == Txn \X Txn \X Kind

Graph == [srv  : [Txn -> SUBSET Server],
          st   : [Txn -> SUBSET Flag],
          edge : SUBSET Edge]

EmptyGraph == [srv  |-> [t \in Txn |-> {}],
               st   |-> [t \in Txn |-> {}],
               edge |-> {}]

Vertices(g) == {t \in Txn : g.srv[t] # {}}

IsCommit(g, t) == "COMMIT" \in g.st[t]
IsFinish(g, t) == "FINISH" \in g.st[t]

\* register_event and trigger compare status_ as a number: COMMIT alone is
\* above FINISH.
AtLeast(g, t, f) == IF f = "FINISH" THEN g.st[t] # {} ELSE "COMMIT" \in g.st[t]

IsEdge(g, p, c) == \E k \in Kind : <<p, c, k>> \in g.edge
Parents(g, c) == {p \in Txn : IsEdge(g, p, c)}

-----------------------------------------------------------------------------
(* union_graph and the marshalled sub-graph *)

\* Mutant: the data of a vertex that is there already is not merged.
UnionGraphKeepsData(g, h) ==
  [srv  |-> [t \in Txn |-> IF t \in Vertices(g) THEN g.srv[t] ELSE h.srv[t]],
   st   |-> [t \in Txn |-> g.st[t] \cup h.st[t]],
   edge |-> g.edge \cup h.edge]

UnionGraph(g, h) ==
  [srv  |-> [t \in Txn |-> g.srv[t] \cup h.srv[t]],
   st   |-> [t \in Txn |-> g.st[t] \cup h.st[t]],
   edge |-> g.edge \cup h.edge]

\* A server keeps its own status bits for a transaction it is involved in
\* (union_status with is_server); a vertex it does not have yet is copied
\* with its bits.
UnionGraphAt(s, g, h) ==
  [UnionGraph(g, h) EXCEPT !.st =
     [t \in Txn |-> IF t \in Vertices(g) /\ s \in g.srv[t] \cup h.srv[t]
                    THEN g.st[t]
                    ELSE g.st[t] \cup h.st[t]]]

\* find_txn_anc_opt: the search from source goes up through parents that are
\* not committed.  AncClosed holds of the sets the search cannot leave, so the
\* search visits what all of them have.
AncClosed(g, source, S) ==
  \A c \in S \cup {source} : \A p \in Parents(g, c) :
     IsCommit(g, p) \/ p \in S

AncOpt(g, source) ==
  {a \in Vertices(g) \ {source} :
     /\ ~IsCommit(g, a)
     /\ \A S \in SUBSET Txn : AncClosed(g, source, S) => a \in S}

\* write_to_marshal: the vertices of ret_set with the edges between them.
Induced(g, V) ==
  [srv  |-> [t \in Txn |-> IF t \in V THEN g.srv[t] ELSE {}],
   st   |-> [t \in Txn |-> IF t \in V THEN g.st[t] ELSE {}],
   edge |-> {e \in g.edge : e[1] \in V /\ e[2] \in V}]

\* Mutant: the answer carries the transaction without its ancestors.
SubTxnGraphAlone(g, t) == Induced(g, {t})

SubTxnGraph(g, t) == Induced(g, AncOpt(g, t) \cup {t})

-----------------------------------------------------------------------------
(* Strongly connected components, and the order they are committed in *)

Reaches(g, a, b) ==
  \A S \in SUBSET Txn :
     (a \in S /\ \A p \in S : \A c \in Txn : IsEdge(g, p, c) => c \in S)
        => b \in S

Scc(g, t) == {u \in Vertices(g) \cup {t} : Reaches(g, t, u) /\ Reaches(g, u, t)}

SccNearestAnc(g, t) ==
  LET scc == Scc(g, t)
  IN  UNION {Parents(g, u) : u \in scc} \ scc

\* Mutant: the vector is left in the order of the addresses.
SortVVNot(vv, flag) == vv

\* sort_vv: one pass of adjacent swaps per i, the pass starting at i;
\* upwards for flag 0, downwards for 1.
SortVV(vv, flag) ==
  LET n == Len(vv)
      Swap(a, j) == IF (flag = 0 /\ a[j] > a[j + 1]) \/ (flag = 1 /\ a[j] < a[j + 1])
                    THEN [a EXCEPT ![j] = a[j + 1], ![j + 1] = a[j]]
                    ELSE a
      \* the vector when pass i has reached position j
      at[i \in 0..n, j \in 0..n] == IF i = 0 THEN vv
                                    ELSE IF j <= i THEN at[i - 1, n]
                                    ELSE Swap(at[i, j - 1], j - 1)
  IN  at[n, n]

\* The order in which a std::set or std::map of vertex pointers is walked.
InPointerOrder(S, ptr) == SelectSeq(ptr, LAMBDA t : t \in S)

Elems(s) == {s[i] : i \in DOMAIN s}

IParents(g, t) == {p \in Txn : <<p, t, "I">> \in g.edge}

\* Mutant: a child is pushed as soon as one of its I-parents is emitted.
SortStepAnyChild(g, scc, ptr, x) ==
  IF x.stack = <<>> THEN x
  ELSE LET v == x.stack[Len(x.stack)]
           rest == SubSeq(x.stack, 1, Len(x.stack) - 1)
           out == Append(x.out, v)
           children == {c \in scc : v \in IParents(g, c)} \ Elems(out)
       IN  [stack |-> rest \o SortVV(InPointerOrder(children, ptr), 0),
            out |-> out]

\* One turn of the loop of sorted_scc: the top of the stack is emitted and
\* those of its children in the component whose I-parents (inside the
\* component or not) are all emitted are pushed.
SortStep(g, scc, ptr, x) ==
  IF x.stack = <<>> THEN x
  ELSE LET v == x.stack[Len(x.stack)]
           rest == SubSeq(x.stack, 1, Len(x.stack) - 1)
           out == Append(x.out, v)
           children == {c \in scc : v \in IParents(g, c)}
           ready == SelectSeq(SortVV(InPointerOrder(children, ptr), 0),
                              LAMBDA c : IParents(g, c) \subseteq Elems(out))
       IN  [stack |-> rest \o ready, out |-> out]

SortedScc(g, t, ptr) ==
  LET scc == Scc(g, t)
      start == {v \in scc : IParents(g, v) \cap scc = {}}
      init == [stack |-> SortVV(InPointerOrder(start, ptr), 1), out |-> <<>>]
      turn[i \in 0..Cardinality(scc)] ==
        IF i = 0 THEN init ELSE SortStep(g, scc, ptr, turn[i - 1])
  IN  turn[Cardinality(scc)].out

\* Every order the vertices may have in memory.
PointerOrders == {f \in [1..Cardinality(Txn) -> Txn] :
                    \A i, j \in 1..Cardinality(Txn) : i # j => f[i] # f[j]}

\* sorted_scc's two verify()s, that a start vertex exists and that every
\* member was emitted, hold exactly when the result is one of these.
Orders(S) == [1..Cardinality(S) -> S]

SortFails(g, t, ptr) == SortedScc(g, t, ptr) \notin Orders(Scc(g, t))
=============================================================================
