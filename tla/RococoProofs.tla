---------------------------- MODULE RococoProofs ----------------------------
(***************************************************************************)
(* IInv is an inductive invariant of module Rococo, for every set of       *)
(* transactions, servers and pieces, and implies the properties that the   *)
(* commit protocol relies on; with AInv it implies that a client is        *)
(* answered once.                                                          *)
(***************************************************************************)
EXTENDS RococoInv, WellFoundedInduction, TLAPS

\* The first-order prover is the default; leaves that need arithmetic or records name SMT.
USE ZenonT(60)

(* Graphs *)

\* Merging two graphs (union_graph at a coordinator) gives a graph.
LEMMA UnionType ==
  ASSUME NEW g \in Graph, NEW h \in Graph
  PROVE  UnionGraph(g, h) \in Graph
BY DEF Graph, UnionGraph

\* Merging at a server (union_graph with is_server) gives a graph.
LEMMA UnionAtType ==
  ASSUME NEW g \in Graph, NEW h \in Graph, NEW s \in Server
  PROVE  UnionGraphAt(s, g, h) \in Graph
BY DEF Graph, UnionGraphAt, UnionGraph

\* The marshalled sub-graph is a graph.
LEMMA InducedType ==
  ASSUME NEW g \in Graph, NEW V
  PROVE  Induced(g, V) \in Graph
BY DEF Graph, Induced

\* What union_graph at a coordinator does to each part of a graph.
LEMMA UnionParts ==
  ASSUME NEW g \in Graph, NEW h \in Graph, NEW t \in Txn, NEW p \in Txn
  PROVE  LET u == UnionGraph(g, h)
         IN  /\ u.srv[t] = g.srv[t] \cup h.srv[t]
             /\ IsFinish(u, t) => IsFinish(g, t) \/ IsFinish(h, t)
             /\ IsCommit(u, t) => IsCommit(g, t) \/ IsCommit(h, t)
             /\ IsEdge(u, p, t) <=> IsEdge(g, p, t) \/ IsEdge(h, p, t)
BY DEF Graph, UnionGraph, IsFinish, IsCommit, IsEdge

\* What union_graph at a server does to each part: a bit may be dropped, and
\* none is made up.
LEMMA UnionAtParts ==
  ASSUME NEW g \in Graph, NEW h \in Graph, NEW t \in Txn, NEW p \in Txn,
         NEW s \in Server
  PROVE  LET u == UnionGraphAt(s, g, h)
         IN  /\ u.srv[t] = g.srv[t] \cup h.srv[t]
             /\ IsFinish(u, t) => IsFinish(g, t) \/ IsFinish(h, t)
             /\ IsCommit(u, t) => IsCommit(g, t) \/ IsCommit(h, t)
             /\ IsCommit(g, t) => IsCommit(u, t)
             /\ IsEdge(u, p, t) <=> IsEdge(g, p, t) \/ IsEdge(h, p, t)
BY DEF Graph, UnionGraphAt, UnionGraph, IsFinish, IsCommit, IsEdge

\* find_txn_anc_opt stops at committed parents only: a parent of a vertex of
\* the sub-graph is in the sub-graph or committed.
LEMMA AncOptClosed ==
  ASSUME NEW g \in Graph, NEW source \in Txn, NEW p \in Txn,
         NEW t \in AncOpt(g, source) \cup {source},
         IsEdge(g, p, t), p \in Vertices(g), ~IsCommit(g, p)
  PROVE  p \in AncOpt(g, source) \cup {source}
BY DEF AncOpt, AncClosed, Parents, Vertices

\* A merge has the vertices of both graphs.
LEMMA UnionVertices ==
  ASSUME NEW g \in Graph, NEW h \in Graph
  PROVE  Vertices(UnionGraph(g, h)) = Vertices(g) \cup Vertices(h)
BY DEF Graph, UnionGraph, Vertices

\* The same at a server.
LEMMA UnionAtVertices ==
  ASSUME NEW g \in Graph, NEW h \in Graph, NEW s \in Server
  PROVE  Vertices(UnionGraphAt(s, g, h)) = Vertices(g) \cup Vertices(h)
BY DEF Graph, UnionGraphAt, UnionGraph, Vertices

-----------------------------------------------------------------------------
(* Soundness of a graph, for fixed sets of facts *)

\* A graph stays sound while the facts grow, as long as the coordinator of a
\* transaction whose pieces have all started learns no more edges.
LEMMA SoundGrows ==
  ASSUME NEW g \in Graph,
         NEW R, NEW D, NEW CM, NEW Own, NEW K,
         NEW R2, NEW D2, NEW CM2, NEW Own2, NEW K2,
         R \subseteq R2, D \subseteq D2, CM \subseteq CM2, K \subseteq K2,
         \A p, t \in Txn : <<p, t>> \in Own2 /\ t \in D => <<p, t>> \in Own,
         Sound(g, R, D, CM, Own, K)
  PROVE  Sound(g, R2, D2, CM2, Own2, K2)
BY DEF Sound, FinishSound

\* union_graph at a coordinator merges sound graphs to a sound one.
LEMMA UnionSound ==
  ASSUME NEW g \in Graph, NEW h \in Graph,
         NEW R, NEW D, NEW CM, NEW Own, NEW K,
         Sound(g, R, D, CM, Own, K), Sound(h, R, D, CM, Own, K)
  PROVE  Sound(UnionGraph(g, h), R, D, CM, Own, K)
BY UnionParts, UnionVertices, SMTT(60) DEF Sound, FinishSound

\* The same at a server.
LEMMA UnionAtSound ==
  ASSUME NEW g \in Graph, NEW h \in Graph, NEW s \in Server,
         NEW R, NEW D, NEW CM, NEW Own, NEW K,
         Sound(g, R, D, CM, Own, K), Sound(h, R, D, CM, Own, K)
  PROVE  Sound(UnionGraphAt(s, g, h), R, D, CM, Own, K)
BY UnionAtParts, UnionAtVertices, SMTT(60) DEF Sound, FinishSound

\* The sub-graph of find_txn_anc_opt, marshalled in a reply, is sound: what it
\* leaves out are ancestors that are committed or come before committed ones.
LEMMA SubTxnGraphSound ==
  ASSUME NEW g \in Graph, NEW src \in Vertices(g),
         NEW R, NEW D, NEW CM, NEW Own, NEW K,
         Sound(g, R, D, CM, Own, K)
  PROVE  Sound(SubTxnGraph(g, src), R, D, CM, Own, K)
<1> DEFINE V == AncOpt(g, src) \cup {src}
           h == Induced(g, V)
<1>1. V \subseteq Vertices(g) /\ Vertices(g) \subseteq Txn
  BY DEF AncOpt, Vertices
<1>2. ASSUME NEW t \in Txn, NEW p \in Txn
      PROVE  /\ t \in V => h.srv[t] = g.srv[t]
             /\ t \notin V => h.srv[t] = {}
             /\ IsFinish(h, t) <=> t \in V /\ IsFinish(g, t)
             /\ IsCommit(h, t) <=> t \in V /\ IsCommit(g, t)
             /\ IsEdge(h, p, t) <=> p \in V /\ t \in V /\ IsEdge(g, p, t)
  BY DEF Graph, Induced, IsFinish, IsCommit, IsEdge
<1>3. Vertices(h) = V
  <2>1. \A t \in Txn : h.srv[t] = IF t \in V THEN g.srv[t] ELSE {}
    BY DEF Graph, Induced
  <2> HIDE DEF V, h
  <2> QED
    BY <1>1, <2>1 DEF Vertices
<1>4. ASSUME NEW t \in Txn, IsFinish(h, t)
      PROVE  FinishSound(h, t, D, CM, Own)
  <2>1. t \in V /\ FinishSound(g, t, D, CM, Own)
    BY <1>2, <1>4 DEF Sound
  <2>2. ASSUME NEW p \in Txn, <<p, t>> \in Own, p \notin CM
        PROVE  IsEdge(h, p, t)
    <3>1. IsEdge(g, p, t) /\ p \in Vertices(g) /\ ~IsCommit(g, p)
      BY <2>1, <2>2 DEF FinishSound, Sound
    <3>2. p \in V
      BY <1>1, <2>1, <3>1, AncOptClosed
    <3> QED
      BY <1>2, <2>1, <3>1, <3>2
  <2> QED
    BY <1>2, <2>1, <2>2 DEF FinishSound
<1> HIDE DEF V, h
<1>5. Sound(h, R, D, CM, Own, K)
  BY <1>1, <1>2, <1>3, <1>4 DEF Sound
<1> QED
  BY <1>5 DEF SubTxnGraph, h, V

\* rcc_finish_txn sets FINISH on its transaction, scc_anc_commit_cb sets COMMIT
\* on a component: the graph stays sound if what the bits say is true.
LEMMA StatusSound ==
  ASSUME NEW g \in Graph, NEW h \in Graph,
         NEW R, NEW D, NEW CM, NEW Own, NEW K,
         Sound(g, R, D, CM, Own, K),
         h.srv = g.srv, h.edge = g.edge,
         \A t \in Txn : IsFinish(h, t) => IsFinish(g, t) \/ FinishSound(g, t, D, CM, Own),
         \A t \in Txn : IsCommit(h, t) => IsCommit(g, t) \/ t \in CM
  PROVE  Sound(h, R, D, CM, Own, K)
<1>1. Vertices(h) = Vertices(g)
  BY DEF Vertices
<1>2. \A p, t \in Txn : IsEdge(h, p, t) <=> IsEdge(g, p, t)
  BY DEF IsEdge
<1>3. \A t \in Txn : FinishSound(g, t, D, CM, Own) => FinishSound(h, t, D, CM, Own)
  BY <1>2 DEF FinishSound
<1> QED
  BY <1>1, <1>2, <1>3 DEF Sound

\* rcc_start_pie adds the own site to a vertex, and edges into it: the graph
\* stays sound if the vertex really runs here and the edges are known.
LEMMA StartSound ==
  ASSUME NEW g \in Graph, NEW h \in Graph, NEW s \in Server, NEW t \in Txn,
         NEW R, NEW D, NEW CM, NEW Own, NEW K, NEW P \in SUBSET Txn,
         Sound(g, R, D, CM, Own, K),
         <<s, t>> \in R, s \in Sites(t), P \subseteq Vertices(g),
         \A p \in P : <<p, t>> \in K,
         h.srv = [g.srv EXCEPT ![t] = @ \cup {s}], h.st = g.st,
         \A p, c \in Txn : IsEdge(h, p, c) <=> IsEdge(g, p, c) \/ (p \in P /\ c = t)
  PROVE  Sound(h, R, D, CM, Own, K)
<1>1. \A c \in Txn : h.srv[c] = IF c = t THEN g.srv[c] \cup {s} ELSE g.srv[c]
  BY DEF Graph
<1>2. Vertices(h) = Vertices(g) \cup {t}
  BY <1>1 DEF Vertices
<1>3. \A c \in Txn : (IsFinish(h, c) <=> IsFinish(g, c)) /\ (IsCommit(h, c) <=> IsCommit(g, c))
  BY DEF IsFinish, IsCommit
<1>4. \A c \in Txn : FinishSound(g, c, D, CM, Own) => FinishSound(h, c, D, CM, Own)
  BY <1>1 DEF FinishSound
<1> QED
  BY <1>1, <1>2, <1>3, <1>4 DEF Sound

-----------------------------------------------------------------------------
(* What a step does to the facts *)

\* random_server of a vertex is one of its servers.
LEMMA RandomServerIn ==
  ASSUME NEW g \in Graph, NEW t \in Vertices(g)
  PROVE  RandomServer(g, t) \in g.srv[t] /\ RandomServer(g, t) \in Server
<1> DEFINE T == g.srv[t]
           Less == OpToRel(<, Nat)
<1>1. T # {} /\ T \subseteq Server /\ T \subseteq Nat
  BY ServerAssumption DEF Vertices, Graph
<1>2. \E x \in T : \A y \in T : <<y, x>> \notin Less
  <2> HIDE DEF T, Less
  <2>1. IsWellFoundedOn(Less, Nat)
    BY NatLessThanWellFounded DEF Less
  <2> QED
    BY <1>1, <2>1, WFMin
<1>3. \A x, y \in Nat : y < x => <<y, x>> \in Less
  BY DEF OpToRel
<1>4. \E x \in T : \A y \in T : x <= y
  <2> HIDE DEF T, Less
  <2>1. PICK x \in T : \A y \in T : <<y, x>> \notin Less
    BY <1>2
  <2>2. ASSUME NEW y \in T PROVE x <= y
    <3>1. x \in Nat /\ y \in Nat /\ ~(y < x)
      BY <1>1, <1>3, <2>1
    <3> QED
      BY <3>1, SMTT(60)
  <2> QED
    BY <2>2
<1> QED
  BY <1>1, <1>4 DEF RandomServer

\* The facts only grow in a step, and a coordinator learns no edge into a
\* transaction all of whose pieces have been answered.
Grow ==
  /\ Runs \subseteq Runs'
  /\ Done \subseteq Done'
  /\ Committed \subseteq Committed'
  /\ KnownEdges \subseteq KnownEdges'
  /\ \A p, t \in Txn : <<p, t>> \in OwnEdges' /\ t \in Done => <<p, t>> \in OwnEdges

\* A graph that does not change stays sound.
LEMMA StaysSound ==
  ASSUME Grow, NEW g \in Graph, SoundNow(g)
  PROVE  SoundNow(g)'
BY SoundGrows, SMTT(60) DEF Grow, SoundNow

\* The fields of the messages.
LEMMA MsgFields ==
  ASSUME NEW m \in Message
  PROVE  /\ m.type = "start" => m.piece \in Piece
         /\ m.type = "start_reply" => m.piece \in Piece /\ m.gra \in Graph
         /\ m.type = "finish" => m.txn \in Txn /\ m.to \in Server /\ m.gra \in Graph
         /\ m.type = "finish_reply" => m.txn \in Txn /\ m.from \in Server
         /\ m.type = "ask" => m.txn \in Txn /\ m.from \in Server /\ m.to \in Server
         /\ m.type = "ask_reply" => m.txn \in Txn /\ m.to \in Server /\ m.gra \in Graph
BY DEF Message

\* The fields of a piece.
LEMMA PieceFields ==
  ASSUME NEW p \in Piece
  PROVE  /\ p.txn \in Txn /\ p.site \in Server /\ p.cells \subseteq Cell
         /\ p.kind \in Kind /\ p \in PiecesOf(p.txn) /\ p.site \in Sites(p.txn)
BY PieceAssumption DEF PieceType, PiecesOf, Sites

\* A message that stays in transit stays right.
LEMMA MsgStaysOK ==
  ASSUME Grow, NEW m \in Message, MsgOK(m)
  PROVE  MsgOK(m)'
<1>1. ASSUME m.type \in {"start_reply", "finish", "ask_reply"}
      PROVE  SoundNow(m.gra)'
  BY <1>1, MsgFields, StaysSound DEF MsgOK
<1>2. ASSUME m.type = "finish"
      PROVE  FinishSound(m.gra, m.txn, Done', {}, OwnEdges')
  <2>1. m.txn \in Txn /\ FinishSound(m.gra, m.txn, Done, {}, OwnEdges)
    BY <1>2, MsgFields DEF MsgOK
  <2> QED
    BY <2>1 DEF FinishSound, Grow
<1>3. ASSUME m.type = "ask"
      PROVE  Involved(m.to, m.txn)'
  <2>1. m.txn \in Txn /\ m.to \in Server /\ Involved(m.to, m.txn)
    BY <1>3, MsgFields DEF MsgOK
  <2>2. <<m.to, m.txn>> \in Runs'
    BY <2>1 DEF Grow, Runs
  <2> QED
    BY <2>2 DEF Runs
<1> QED
  BY <1>1, <1>2, <1>3 DEF MsgOK

\* A step that only adds servers, COMMIT bits and answered pieces, and drops a
\* start reply only into the coordinator's graph, makes the facts grow.
LEMMA StepGrows ==
  ASSUME TypeOK, TypeOK',
         \A s \in Server, t \in Txn : Involved(s, t) => Involved(s, t)',
         \A s \in Server, t \in Txn : IsCommit(gra[s], t) => IsCommit(gra'[s], t),
         started \subseteq started',
         \A p, t \in Txn : IsEdge(cgra[t], p, t) => IsEdge(cgra'[t], p, t),
         \A p, t \in Txn : t \in Done /\ IsEdge(cgra'[t], p, t) => IsEdge(cgra[t], p, t),
         \A m \in msgs : m.type = "start_reply" =>
            \/ m \in msgs'
            \/ \A p \in Txn : IsEdge(m.gra, p, m.piece.txn)
                                => IsEdge(cgra'[m.piece.txn], p, m.piece.txn)
  PROVE  Grow
<1>1. Runs \subseteq Runs'
  BY DEF Runs
<1>2. Done \subseteq Done'
  BY DEF Done
<1>3. Committed \subseteq Committed'
  BY DEF Committed
<1>4. KnownEdges \subseteq KnownEdges'
  BY <1>3 DEF KnownEdges
<1>5. \A p, t \in Txn : <<p, t>> \in OwnEdges' /\ t \in Done => <<p, t>> \in OwnEdges
  BY DEF OwnEdges
<1> QED
  BY <1>1, <1>2, <1>3, <1>4, <1>5 DEF Grow

-----------------------------------------------------------------------------
(* Steps that leave the pieces alone *)

\* A graph keeps its servers and edges.
GraphGrows(g, h) ==
  \A p, t \in Txn : /\ g.srv[t] \subseteq h.srv[t]
                    /\ IsEdge(g, p, t) => IsEdge(h, p, t)

\* Graphs and messages that stay the same stay sound and right while the facts
\* grow: a step has to show it only for those it changes.
LEMMA FactsStep ==
  ASSUME IInv, TypeOK', Grow,
         \A s \in Server : gra'[s] = gra[s] \/ SoundNow(gra[s])',
         \A t \in Txn : cgra'[t] = cgra[t] \/ SoundNow(cgra[t])',
         \A m \in msgs' : m \in msgs \/ MsgOK(m)',
         \A s \in Server : \A a \in asked'[s] : a \in asked[s] \/ Involved(s, a[1])',
         \A s \in Server : GraphGrows(gra[s], gra'[s]),
         \A s \in Server : \A t \in finishing'[s] :
            t \in finishing[s] \/ FinishSound(gra'[s], t, Done', {}, OwnEdges')
  PROVE  ServersSound' /\ CoordsSound' /\ MsgsOK' /\ AskedInvolved' /\ FinishingSound'
<1>1. ServersSound'
  <2>1. ASSUME NEW s \in Server, gra'[s] = gra[s]
        PROVE  SoundNow(gra[s])'
    <3>1. gra[s] \in Graph /\ SoundNow(gra[s])
      BY DEF IInv, TypeOK, ServersSound
    <3>2. Sound(gra[s], Runs', Done', Committed', OwnEdges', KnownEdges')
      BY <3>1, SoundGrows, SMTT(60) DEF SoundNow, Grow
    <3> QED
      BY <2>1, <3>2 DEF SoundNow
  <2> QED
    BY <2>1 DEF ServersSound
<1>2. CoordsSound'
  <2>1. ASSUME NEW t \in Txn, cgra'[t] = cgra[t]
        PROVE  SoundNow(cgra[t])'
    <3>1. cgra[t] \in Graph /\ SoundNow(cgra[t])
      BY DEF IInv, TypeOK, CoordsSound
    <3>2. Sound(cgra[t], Runs', Done', Committed', OwnEdges', KnownEdges')
      BY <3>1, SoundGrows, SMTT(60) DEF SoundNow, Grow
    <3> QED
      BY <2>1, <3>2 DEF SoundNow
  <2> QED
    BY <2>1 DEF CoordsSound
<1>3. MsgsOK'
  <2>1. ASSUME NEW m \in msgs PROVE MsgOK(m)'
    BY MsgStaysOK DEF IInv, TypeOK, MsgsOK
  <2> QED
    BY <2>1 DEF MsgsOK
<1>4. AskedInvolved'
  <2>1. ASSUME NEW s \in Server, NEW a \in asked[s] PROVE Involved(s, a[1])'
    <3>1. a[1] \in Txn /\ Involved(s, a[1])
      BY SMTT(60) DEF IInv, TypeOK, AskedInvolved
    <3>2. <<s, a[1]>> \in Runs'
      BY <3>1 DEF Grow, Runs
    <3> QED
      BY <3>2 DEF Runs
  <2> QED
    BY <2>1 DEF AskedInvolved
<1>5. FinishingSound'
  <2>1. ASSUME NEW s \in Server, NEW t \in finishing[s]
        PROVE  FinishSound(gra'[s], t, Done', {}, OwnEdges')
    <3>1. t \in Txn /\ FinishSound(gra[s], t, Done, {}, OwnEdges)
      BY DEF IInv, TypeOK, FinishingSound
    <3> QED
      BY <3>1 DEF FinishSound, Grow, GraphGrows
  <2> QED
    BY <2>1 DEF FinishingSound
<1> QED
  BY <1>1, <1>2, <1>3, <1>4, <1>5

\* A step of a handler that starts and answers no piece preserves IInv if it
\* leaves its own graph sound and sends right messages.
LEMMA ServerStep ==
  ASSUME IInv, TypeOK', Grow,
         UNCHANGED <<cgra, sent, started, last>>,
         \A s \in Server : GraphGrows(gra[s], gra'[s]),
         \A s \in Server : gra'[s] = gra[s] \/ SoundNow(gra[s])',
         \A m \in msgs' : m \in msgs \/ (~Carries(m) /\ MsgOK(m)'),
         \A t \in Txn : phase'[t] = phase[t] \/ phase'[t] = "gone",
         \A s \in Server : \A a \in asked'[s] : a \in asked[s] \/ Involved(s, a[1])',
         \A s \in Server : \A t \in finishing'[s] :
            t \in finishing[s] \/ FinishSound(gra'[s], t, Done', {}, OwnEdges')
  PROVE  IInv'
<1>1. PieceFlow'
  <2>1. Done' = Done
    BY DEF Done
  <2> QED
    BY <2>1 DEF IInv, PieceFlow, Carries
<1>2. ServersSound' /\ CoordsSound' /\ MsgsOK' /\ AskedInvolved' /\ FinishingSound'
  BY FactsStep
<1>3. SitesKnown'
  BY DEF IInv, SitesKnown
<1>4. LastVertex'
  <2>1. \A s \in Server : Vertices(gra[s]) \subseteq Vertices(gra'[s])
    BY DEF Vertices, GraphGrows
  <2> QED
    BY <2>1, PieceFields DEF IInv, LastVertex
<1> QED
  BY <1>1, <1>2, <1>3, <1>4 DEF IInv

\* The same for a step that changes no graph.
LEMMA QuietStep ==
  ASSUME IInv, TypeOK',
         UNCHANGED <<gra, cgra, sent, started, last, finishing>>,
         \A m \in msgs : m.type = "start_reply" => m \in msgs',
         \A m \in msgs' : m \in msgs \/ (~Carries(m) /\ MsgOK(m)'),
         \A t \in Txn : phase'[t] = phase[t] \/ phase'[t] = "gone",
         \A s \in Server : \A a \in asked'[s] : a \in asked[s] \/ Involved(s, a[1])'
  PROVE  IInv'
<1>1. Grow
  <2>1. \A s \in Server, t \in Txn : Involved(s, t) => Involved(s, t)'
    BY DEF Involved
  <2> QED
    BY <2>1, StepGrows DEF IInv
<1>2. \A s \in Server : GraphGrows(gra[s], gra'[s])
  BY DEF GraphGrows
<1> QED
  BY <1>1, <1>2, ServerStep

\* FinishReply changes no graph.
LEMMA FinishReplyStep ==
  ASSUME IInv, NEW m \in msgs, FinishReply(m)
  PROVE  IInv'
<1>1. m.txn \in Txn /\ m.from \in Server /\ m.type = "finish_reply"
  BY MsgFields DEF IInv, TypeOK, FinishReply
<1>2. TypeOK'
  BY <1>1, SMTT(60) DEF IInv, TypeOK, FinishReply, svars
<1>3. /\ UNCHANGED <<gra, cgra, sent, started, last, asked, finishing>>
      /\ \A n \in msgs : n.type = "start_reply" => n \in msgs'
      /\ msgs' \subseteq msgs
      /\ \A t \in Txn : phase'[t] = phase[t] \/ phase'[t] = "gone"
  BY <1>1 DEF IInv, TypeOK, FinishReply, svars
<1> QED
  BY <1>2, <1>3, QuietStep

\* rcc_ask_finish asks servers that run a piece of the transaction.
LEMMA AskMsgsOK ==
  ASSUME IInv, NEW s \in Server, NEW A \in SUBSET Vertices(gra[s]), NEW m \in AskMsgs(s, A)
  PROVE  m \in Message /\ m.type = "ask" /\ Involved(m.to, m.txn)
<1>1. PICK a \in ToAsk(s, A) :
        m = [type |-> "ask", txn |-> a, from |-> s, to |-> RandomServer(gra[s], a)]
  BY DEF AskMsgs
<1>2. a \in Vertices(gra[s]) /\ a \in Txn
  BY <1>1 DEF ToAsk, Unrelated, Vertices
<1>3. gra[s] \in Graph /\ SoundNow(gra[s])
  BY DEF IInv, TypeOK, ServersSound
<1> DEFINE r == RandomServer(gra[s], a)
<1>4. r \in gra[s].srv[a] /\ r \in Server
  BY <1>2, <1>3, RandomServerIn
<1>5. <<r, a>> \in Runs
  BY <1>2, <1>3, <1>4 DEF SoundNow, Sound
<1> QED
  BY <1>1, <1>2, <1>4, <1>5 DEF Message, Runs

\* Setting what one transaction waits for at one server keeps the type of ball.
LEMMA BallType ==
  ASSUME NEW f \in [Server -> [Txn -> Ball]], NEW s \in Server, NEW t \in Txn, NEW b \in Ball
  PROVE  [f EXCEPT ![s] = [@ EXCEPT ![t] = b]] \in [Server -> [Txn -> Ball]]
OBVIOUS

\* rcc_finish_to_commit changes no graph and asks only servers involved.
LEMMA FinishToCommitStep ==
  ASSUME IInv, NEW s \in Server, NEW t \in Txn, NEW d \in BOOLEAN, FinishToCommit(s, t, d)
  PROVE  IInv'
<1> DEFINE A == AncOpt(gra[s], t)
<1>1. A \in SUBSET Vertices(gra[s]) /\ A \subseteq Txn
  BY DEF AncOpt, Vertices
<1>2. ToCall(s, A) \subseteq Txn /\ ToAsk(s, A) \subseteq Txn
  BY <1>1 DEF ToCall, ToAsk, Unrelated
<1>3. \A m \in AskMsgs(s, A) : m \in Message /\ m.type = "ask" /\ Involved(m.to, m.txn)
  BY <1>1, AskMsgsOK
<1> DEFINE b == [phase |-> "finish", wait |-> A, defer |-> d]
           call == <<t, d>>
<1>0. /\ ball' = ball \/ ball' = [ball EXCEPT ![s] = [@ EXCEPT ![t] = b]]
      /\ \/ calls' = [calls EXCEPT ![s] = @ \ {call}]
         \/ calls' = [calls EXCEPT ![s] = (@ \ {call}) \cup (ToCall(s, A) \X {FALSE})]
      /\ asking' = asking \/ asking' = [asking EXCEPT ![s] = @ \cup ToAsk(s, A)]
      /\ msgs' = msgs \/ msgs' = msgs \cup AskMsgs(s, A)
  BY DEF FinishToCommit
<1>b. b \in Ball
  BY <1>1 DEF Ball
<1> HIDE DEF A, b, call
<1>4. TypeOK'
  <2>1. msgs' \subseteq Message
    BY <1>0, <1>3 DEF IInv, TypeOK
  <2>2. ball' \in [Server -> [Txn -> Ball]]
    <3>1. ball \in [Server -> [Txn -> Ball]]
      BY DEF IInv, TypeOK
    <3> QED
      BY <1>0, <1>b, <3>1, BallType, SMTT(60)
  <2>3. calls' \in [Server -> SUBSET (Txn \X BOOLEAN)]
    <3>1. calls \in [Server -> SUBSET (Txn \X BOOLEAN)]
      BY DEF IInv, TypeOK
    <3>2. ToCall(s, A) \X {FALSE} \subseteq Txn \X BOOLEAN
      BY <1>2
    <3>3. CASE calls' = [calls EXCEPT ![s] = @ \ {call}]
      BY <3>1, <3>3
    <3>4. CASE calls' = [calls EXCEPT ![s] = (@ \ {call}) \cup (ToCall(s, A) \X {FALSE})]
      BY <3>1, <3>2, <3>4
    <3> QED
      BY <1>0, <3>3, <3>4
  <2>4. asking' \in [Server -> SUBSET Txn]
    <3>1. asking \in [Server -> SUBSET Txn]
      BY DEF IInv, TypeOK
    <3> QED
      BY <1>0, <1>2, <3>1
  <2> QED
    BY <2>1, <2>2, <2>3, <2>4 DEF IInv, TypeOK, FinishToCommit, cvars
<1>5. /\ UNCHANGED <<gra, cgra, sent, started, last, asked, phase, finishing>>
      /\ msgs \subseteq msgs'
      /\ \A m \in msgs' : m \in msgs \/ m \in AskMsgs(s, A)
  BY <1>0 DEF FinishToCommit, cvars
<1>6. \A m \in msgs' : m \in msgs \/ (~Carries(m) /\ MsgOK(m)')
  BY <1>3, <1>5 DEF Carries, MsgOK, Involved
<1> QED
  BY <1>4, <1>5, <1>6, QuietStep

\* anc_finish_cb changes no graph and asks only servers involved.
LEMMA AncFinishCbStep ==
  ASSUME IInv, NEW s \in Server, NEW t \in Txn, AncFinishCb(s, t)
  PROVE  IInv'
<1> DEFINE A == SccNearestAnc(gra[s], t)
<1>1. A \in SUBSET Vertices(gra[s]) /\ A \subseteq Txn
  <2>1. SoundNow(gra[s])
    BY DEF IInv, ServersSound
  <2>2. Scc(gra[s], t) \subseteq Txn
    BY DEF Scc, Vertices
  <2> QED
    BY <2>1, <2>2 DEF SccNearestAnc, Parents, SoundNow, Sound
<1>2. ToCall(s, A) \subseteq Txn /\ ToAsk(s, A) \subseteq Txn
  BY <1>1 DEF ToCall, ToAsk, Unrelated
<1>3. \A m \in AskMsgs(s, A) : m \in Message /\ m.type = "ask" /\ Involved(m.to, m.txn)
  BY <1>1, AskMsgsOK
<1> DEFINE b == [phase |-> "commit", wait |-> A, defer |-> ball[s][t].defer]
<1>0. /\ ball' = [ball EXCEPT ![s] = [@ EXCEPT ![t] = b]]
      /\ calls' = [calls EXCEPT ![s] = @ \cup (ToCall(s, A) \X {FALSE})]
      /\ asking' = [asking EXCEPT ![s] = @ \cup ToAsk(s, A)]
      /\ msgs' = msgs \cup AskMsgs(s, A)
  BY DEF AncFinishCb
<1> HIDE DEF A
<1>4. TypeOK'
  <2>1. msgs' \subseteq Message
    BY <1>3 DEF IInv, TypeOK, AncFinishCb, A
  <2>2. ball' \in [Server -> [Txn -> Ball]]
    <3>1. ball \in [Server -> [Txn -> Ball]]
      BY DEF IInv, TypeOK
    <3>2. b \in Ball
      BY <1>1, <3>1 DEF Ball
    <3> QED
      BY <1>0, <3>1, <3>2, BallType
  <2>3. calls' \in [Server -> SUBSET (Txn \X BOOLEAN)] /\ asking' \in [Server -> SUBSET Txn]
    BY <1>2 DEF IInv, TypeOK, AncFinishCb, A
  <2> QED
    BY <2>1, <2>2, <2>3 DEF IInv, TypeOK, AncFinishCb, cvars
<1>5. /\ UNCHANGED <<gra, cgra, sent, started, last, asked, phase, finishing>>
      /\ msgs \subseteq msgs'
      /\ \A m \in msgs' : m \in msgs \/ m \in AskMsgs(s, A)
  BY DEF AncFinishCb, cvars, A
<1>6. \A m \in msgs' : m \in msgs \/ (~Carries(m) /\ MsgOK(m)')
  BY <1>3, <1>5 DEF Carries, MsgOK, Involved
<1> QED
  BY <1>4, <1>5, <1>6, QuietStep

\* A failed verify() stops the server and changes nothing else.
LEMMA SccVerifyFailsStep ==
  ASSUME IInv, NEW s \in Server, NEW t \in Txn, SccVerifyFails(s, t)
  PROVE  IInv'
<1>1. TypeOK'
  BY DEF IInv, TypeOK, SccVerifyFails, cvars
<1>2. UNCHANGED <<gra, cgra, sent, started, last, asked, phase, msgs, finishing>>
  BY DEF SccVerifyFails, cvars
<1> QED
  BY <1>1, <1>2, QuietStep

\* rcc_ask_txn only registers the request, for a transaction involved here.
LEMMA AskTxnStep ==
  ASSUME IInv, NEW m \in msgs, AskTxn(m)
  PROVE  IInv'
<1>1. m.type = "ask" /\ m.txn \in Txn /\ m.from \in Server /\ m.to \in Server
  BY MsgFields DEF IInv, TypeOK, AskTxn
<1>2. Involved(m.to, m.txn)
  BY <1>1 DEF IInv, MsgsOK, MsgOK
<1>3. TypeOK'
  <2>1. asked' \in [Server -> SUBSET (Txn \X Server)]
    BY <1>1, SMTT(60) DEF IInv, TypeOK, AskTxn
  <2> QED
    BY <2>1 DEF IInv, TypeOK, AskTxn, cvars
<1>4. /\ UNCHANGED <<gra, cgra, sent, started, last, phase, finishing>>
      /\ \A n \in msgs : n.type = "start_reply" => n \in msgs'
      /\ msgs' \subseteq msgs
  BY <1>1 DEF AskTxn, cvars
<1>5. \A s \in Server : \A a \in asked'[s] : a \in asked[s] \/ Involved(s, a[1])'
  <2>1. \A s \in Server : \A a \in asked'[s] :
           a \in asked[s] \/ (s = m.to /\ a = <<m.txn, m.from>>)
    BY <1>1 DEF IInv, TypeOK, AskTxn
  <2> QED
    BY <1>2, <1>4, <2>1, SMTT(60) DEF Involved
<1> QED
  BY <1>3, <1>4, <1>5, QuietStep

\* The callback of rcc_ask_txn answers with a sound sub-graph.
LEMMA AskFinishCbStep ==
  ASSUME IInv, NEW s \in Server, NEW a \in asked[s], AskFinishCb(s, a)
  PROVE  IInv'
<1> DEFINE h == SubTxnGraph(gra[s], a[1])
           m == [type |-> "ask_reply", txn |-> a[1], to |-> a[2], gra |-> h]
<1>1. a[1] \in Txn /\ a[2] \in Server /\ gra[s] \in Graph /\ SoundNow(gra[s])
  BY SMTT(60) DEF IInv, TypeOK, ServersSound
<1>2. a[1] \in Vertices(gra[s])
  BY <1>1 DEF IInv, AskedInvolved, Involved, Vertices
<1>3. h \in Graph /\ SoundNow(h)
  BY <1>1, <1>2, InducedType, SubTxnGraphSound DEF SoundNow, SubTxnGraph
<1> HIDE DEF h
<1>4. m \in Message
  BY <1>1, <1>3 DEF Message
<1>5. /\ msgs' = msgs \cup {m}
      /\ UNCHANGED <<gra, cgra, sent, started, last, phase, finishing>>
      /\ asked' = [asked EXCEPT ![s] = @ \ {a}]
  BY DEF AskFinishCb, cvars, h
<1>6. TypeOK'
  BY <1>4, <1>5, SMTT(60) DEF IInv, TypeOK, AskFinishCb, cvars
<1>7. Runs' = Runs /\ Done' = Done /\ Committed' = Committed /\ OwnEdges' = OwnEdges
  BY <1>5 DEF Runs, Involved, Done, Committed, OwnEdges
<1>8. KnownEdges \subseteq KnownEdges'
  BY <1>5, <1>7 DEF KnownEdges
<1>9. Sound(h, Runs', Done', Committed', OwnEdges', KnownEdges')
  BY <1>3, <1>7, <1>8, SoundGrows DEF SoundNow
<1>10. ASSUME NEW n \in msgs', n \notin msgs
       PROVE  ~Carries(n) /\ MsgOK(n)'
  <2>1. n.type = "ask_reply" /\ n.gra = h
    BY <1>5, <1>10, SMTT(60)
  <2> QED
    BY <1>9, <2>1 DEF Carries, MsgOK, SoundNow
<1>11. \A r \in Server : \A x \in asked'[r] : x \in asked[r]
  BY <1>5 DEF IInv, TypeOK
<1> QED
  BY <1>5, <1>6, <1>10, <1>11, QuietStep

-----------------------------------------------------------------------------
(* Steps that change a server's graph *)

\* A server that only adds servers, edges and COMMIT bits to its graph makes
\* the facts grow.
LEMMA ServerGrows ==
  ASSUME TypeOK, TypeOK', NEW s \in Server, NEW h \in Graph,
         gra' = [gra EXCEPT ![s] = h],
         UNCHANGED <<cgra, started>>,
         \A m \in msgs : m.type = "start_reply" => m \in msgs',
         GraphGrows(gra[s], h),
         \A t \in Txn : IsCommit(gra[s], t) => IsCommit(h, t)
  PROVE  /\ Grow
         /\ \A r \in Server : GraphGrows(gra[r], gra'[r])
         /\ \A r \in Server : r # s => gra'[r] = gra[r]
         /\ gra'[s] = h
<1>1. /\ gra'[s] = h
      /\ \A r \in Server : r # s => gra'[r] = gra[r]
  BY DEF TypeOK
<1>2. \A r \in Server, t \in Txn : Involved(r, t) => Involved(r, t)'
  BY <1>1 DEF Involved, GraphGrows
<1>3. \A r \in Server, t \in Txn : IsCommit(gra[r], t) => IsCommit(gra'[r], t)
  BY <1>1
<1>4. Grow
  BY <1>2, <1>3, StepGrows
<1>5. \A r \in Server : GraphGrows(gra[r], gra'[r])
  BY <1>1 DEF GraphGrows
<1> QED
  BY <1>1, <1>4, <1>5

\* The callback of async_rcc_ask_txn merges a sound graph.
LEMMA AskReplyStep ==
  ASSUME IInv, NEW m \in msgs, AskReply(m)
  PROVE  IInv'
<1> DEFINE s == m.to
           h == UnionGraphAt(s, gra[s], m.gra)
<1>1. /\ m.type = "ask_reply" /\ m.txn \in Txn /\ s \in Server
      /\ m.gra \in Graph /\ SoundNow(m.gra)
  BY MsgFields DEF IInv, TypeOK, MsgsOK, MsgOK, AskReply
<1>2. gra[s] \in Graph /\ SoundNow(gra[s])
  BY <1>1 DEF IInv, TypeOK, ServersSound
<1>3. h \in Graph /\ SoundNow(h)
  BY <1>1, <1>2, UnionAtType, UnionAtSound DEF SoundNow
<1>4. /\ GraphGrows(gra[s], h)
      /\ \A t \in Txn : IsCommit(gra[s], t) => IsCommit(h, t)
  BY <1>1, <1>2, UnionAtParts, SMTT(60) DEF GraphGrows
<1>5. /\ gra' = [gra EXCEPT ![s] = h]
      /\ msgs' = msgs \ {m}
      /\ UNCHANGED <<cgra, sent, started, last, phase, asked, finishing>>
  BY DEF AskReply, cvars
<1> HIDE DEF h
<1>6. TypeOK'
  <2>1. calls' \in [Server -> SUBSET (Txn \X BOOLEAN)]
    <3>1. calls \in [Server -> SUBSET (Txn \X BOOLEAN)]
      BY DEF IInv, TypeOK
    <3>2. <<m.txn, FALSE>> \in Txn \X BOOLEAN
      BY <1>1
    <3>3. calls' = [calls EXCEPT ![s] = @ \cup {<<m.txn, FALSE>>}]
      BY DEF AskReply
    <3> QED
      BY <1>1, <3>1, <3>2, <3>3
  <2>2. gra' \in [Server -> Graph]
    BY <1>3, <1>5 DEF IInv, TypeOK
  <2> QED
    BY <1>5, <2>1, <2>2 DEF IInv, TypeOK, AskReply, cvars
<1>7. /\ Grow
      /\ \A r \in Server : GraphGrows(gra[r], gra'[r])
      /\ \A r \in Server : r # s => gra'[r] = gra[r]
      /\ gra'[s] = h
  BY <1>1, <1>3, <1>4, <1>5, <1>6, ServerGrows DEF IInv
<1>8. SoundNow(gra[s])'
  <2>1. Sound(h, Runs', Done', Committed', OwnEdges', KnownEdges')
    BY <1>3, <1>7, SoundGrows, SMTT(60) DEF SoundNow, Grow
  <2> QED
    BY <1>7, <2>1 DEF SoundNow
<1> QED
  BY <1>5, <1>6, <1>7, <1>8, ServerStep

\* rcc_finish_txn merges a sound graph, in which its transaction is complete.
LEMMA FinishUnionStep ==
  ASSUME IInv, NEW m \in msgs, FinishUnion(m)
  PROVE  IInv'
<1> DEFINE s == m.to
           t == m.txn
           h == UnionGraphAt(s, gra[s], m.gra)
<1>1. /\ m.type = "finish" /\ t \in Txn /\ s \in Server
      /\ m.gra \in Graph /\ SoundNow(m.gra)
      /\ FinishSound(m.gra, t, Done, {}, OwnEdges)
  BY MsgFields DEF IInv, TypeOK, MsgsOK, MsgOK, FinishUnion
<1>2. gra[s] \in Graph /\ SoundNow(gra[s])
  BY <1>1 DEF IInv, TypeOK, ServersSound
<1>3. h \in Graph /\ SoundNow(h)
  BY <1>1, <1>2, UnionAtType, UnionAtSound DEF SoundNow
<1>4. /\ GraphGrows(gra[s], h) /\ GraphGrows(m.gra, h)
      /\ \A u \in Txn : IsCommit(gra[s], u) => IsCommit(h, u)
  BY <1>1, <1>2, UnionAtParts, SMTT(60) DEF GraphGrows
<1>5. /\ gra' = [gra EXCEPT ![s] = h]
      /\ msgs' = msgs \ {m}
      /\ finishing' = [finishing EXCEPT ![s] = @ \cup {t}]
      /\ UNCHANGED <<cgra, sent, started, last, phase, asked>>
  BY DEF FinishUnion, cvars
<1> HIDE DEF h
<1>6. TypeOK'
  <2>1. gra' \in [Server -> Graph]
    BY <1>3, <1>5 DEF IInv, TypeOK
  <2>2. finishing' \in [Server -> SUBSET Txn]
    BY <1>1, <1>5 DEF IInv, TypeOK
  <2> QED
    BY <1>5, <2>1, <2>2 DEF IInv, TypeOK, FinishUnion, cvars
<1>7. /\ Grow
      /\ \A r \in Server : GraphGrows(gra[r], gra'[r])
      /\ \A r \in Server : r # s => gra'[r] = gra[r]
      /\ gra'[s] = h
  BY <1>1, <1>3, <1>4, <1>5, <1>6, ServerGrows DEF IInv
<1>8. SoundNow(gra[s])'
  <2>1. Sound(h, Runs', Done', Committed', OwnEdges', KnownEdges')
    BY <1>3, <1>7, SoundGrows, SMTT(60) DEF SoundNow, Grow
  <2> QED
    BY <1>7, <2>1 DEF SoundNow
<1>9. FinishSound(h, t, Done', {}, OwnEdges')
  BY <1>1, <1>4, <1>7 DEF FinishSound, GraphGrows, Grow
<1>10. \A r \in Server : \A u \in finishing'[r] :
          u \in finishing[r] \/ FinishSound(gra'[r], u, Done', {}, OwnEdges')
  <2>1. \A r \in Server : \A u \in finishing'[r] : u \in finishing[r] \/ (r = s /\ u = t)
    BY <1>5 DEF IInv, TypeOK
  <2> QED
    BY <1>7, <1>9, <2>1
<1> QED
  BY <1>5, <1>6, <1>7, <1>8, <1>10, ServerStep

\* rcc_finish_txn sets FINISH on a transaction that is complete.
LEMMA FinishTxnStep ==
  ASSUME IInv, NEW s \in Server, NEW t \in Txn, FinishTxn(s, t)
  PROVE  IInv'
<1> DEFINE g == gra[s]
           h == [g EXCEPT !.st = [g.st EXCEPT ![t] = g.st[t] \cup {"FINISH"}]]
<1>1. /\ g \in Graph /\ SoundNow(g)
      /\ FinishSound(g, t, Done, {}, OwnEdges)
  BY DEF IInv, TypeOK, ServersSound, FinishingSound, FinishTxn
<1>2. /\ gra' = [gra EXCEPT ![s] = h]
      /\ finishing' = [finishing EXCEPT ![s] = @ \ {t}]
      /\ UNCHANGED <<msgs, cgra, sent, started, last, phase, asked>>
  BY DEF FinishTxn, cvars
<1>3. FinishSound(g, t, Done, Committed, OwnEdges)
  BY <1>1 DEF FinishSound
<1>4. /\ h \in Graph /\ h.srv = g.srv /\ h.edge = g.edge
      /\ \A u \in Txn : IsFinish(h, u) => IsFinish(g, u) \/ u = t
      /\ \A u \in Txn : IsCommit(h, u) <=> IsCommit(g, u)
  BY <1>1 DEF Graph, Flag, IsFinish, IsCommit
<1> HIDE DEF h
<1>5. SoundNow(h)
  BY <1>1, <1>3, <1>4, StatusSound DEF SoundNow
<1>6. TypeOK'
  <2>1. calls' \in [Server -> SUBSET (Txn \X BOOLEAN)]
    <3>1. calls \in [Server -> SUBSET (Txn \X BOOLEAN)]
      BY DEF IInv, TypeOK
    <3>2. <<t, TRUE>> \in Txn \X BOOLEAN
      OBVIOUS
    <3>3. calls' = [calls EXCEPT ![s] = @ \cup {<<t, TRUE>>}]
      BY DEF FinishTxn
    <3> QED
      BY <3>1, <3>2, <3>3
  <2>2. gra' \in [Server -> Graph]
    BY <1>2, <1>4 DEF IInv, TypeOK
  <2>3. res' \in [Server -> SUBSET Txn] /\ finishing' \in [Server -> SUBSET Txn]
    BY DEF IInv, TypeOK, FinishTxn
  <2> QED
    BY <1>2, <2>1, <2>2, <2>3 DEF IInv, TypeOK, FinishTxn, cvars
<1>7. GraphGrows(g, h)
  BY <1>4 DEF GraphGrows, IsEdge
<1>8. /\ Grow
      /\ \A r \in Server : GraphGrows(gra[r], gra'[r])
      /\ \A r \in Server : r # s => gra'[r] = gra[r]
      /\ gra'[s] = h
  BY <1>2, <1>4, <1>6, <1>7, ServerGrows DEF IInv
<1>9. SoundNow(gra[s])'
  <2>1. Sound(h, Runs', Done', Committed', OwnEdges', KnownEdges')
    BY <1>4, <1>5, <1>8, SoundGrows, SMTT(60) DEF SoundNow, Grow
  <2> QED
    BY <1>8, <2>1 DEF SoundNow
<1>10. \A r \in Server : \A u \in finishing'[r] : u \in finishing[r]
  BY <1>2 DEF IInv, TypeOK
<1> QED
  BY <1>2, <1>6, <1>8, <1>9, <1>10, ServerStep

\* scc_anc_commit_cb sets COMMIT on a component, or finds it set, and answers
\* a finish request.
LEMMA SccAncCommitCbStep ==
  ASSUME IInv, NEW s \in Server, NEW t \in Txn, SccAncCommitCb(s, t)
  PROVE  IInv'
<1> DEFINE b == [ball[s][t] EXCEPT !.phase = "done"]
           S == Scc(gra[s], t)
           h == [gra[s] EXCEPT !.st =
                   [u \in Txn |-> IF u \in S THEN gra[s].st[u] \cup {"COMMIT"}
                                             ELSE gra[s].st[u]]]
<1>1. gra[s] \in Graph /\ SoundNow(gra[s]) /\ S \subseteq Txn
  BY DEF IInv, TypeOK, ServersSound, Scc, Vertices
<1>2. /\ UNCHANGED <<cgra, sent, started, last, phase, asked, finishing>>
      /\ msgs' = msgs \cup FinishReplies(s, t)
      /\ \/ UNCHANGED <<gra, deferred, acc, prec>>
         \/ /\ gra' = [gra EXCEPT ![s] = h]
            /\ deferred' = deferred \ AppliedPieces(s, t)
            /\ \E order : ApplyInOrder(s, t, order)
  BY DEF SccAncCommitCb, cvars
<1>3. \A m \in FinishReplies(s, t) : m \in Message /\ m.type = "finish_reply"
  BY SMTT(60) DEF FinishReplies, Message
<1>4. /\ h \in Graph /\ h.srv = gra[s].srv /\ h.edge = gra[s].edge
      /\ \A u \in Txn : IsFinish(h, u) <=> IsFinish(gra[s], u)
      /\ \A u \in Txn : IsCommit(gra[s], u) => IsCommit(h, u)
  BY <1>1 DEF Graph, Flag, IsFinish, IsCommit
<1> HIDE DEF h
<1>9. GraphGrows(gra[s], h)
  BY <1>4 DEF GraphGrows, IsEdge
<1>5. TypeOK'
  <2>1. ball' \in [Server -> [Txn -> Ball]]
    <3>1. ball \in [Server -> [Txn -> Ball]]
      BY DEF IInv, TypeOK
    <3>2. b \in Ball
      <4>1. ball[s][t] \in Ball
        BY <3>1
      <4> QED
        BY <4>1 DEF Ball
    <3>3. ball' = [ball EXCEPT ![s] = [@ EXCEPT ![t] = b]]
      BY DEF SccAncCommitCb
    <3> QED
      BY <3>1, <3>2, <3>3, BallType
  <2>2. gra' \in [Server -> Graph]
    BY <1>2, <1>4 DEF IInv, TypeOK
  <2>3. acc' \in [Cell -> SUBSET Txn] /\ prec' \subseteq Txn \X Txn
    <3>1. Applied(s, t) \subseteq Txn
      BY <1>1 DEF Applied
    <3> QED
      BY <1>2, <3>1, SMTT(60) DEF IInv, TypeOK, ApplyInOrder
  <2>4. msgs' \subseteq Message /\ deferred' \subseteq Piece
    BY <1>2, <1>3 DEF IInv, TypeOK
  <2> QED
    BY <2>1, <2>2, <2>3, <2>4 DEF IInv, TypeOK, SccAncCommitCb, cvars
<1>6. \A m \in msgs' : m \in msgs \/ (~Carries(m) /\ MsgOK(m)')
  BY <1>2, <1>3 DEF Carries, MsgOK
<1>7. CASE UNCHANGED gra
  BY <1>2, <1>5, <1>6, <1>7, QuietStep
<1>8. CASE gra' = [gra EXCEPT ![s] = h]
  <2>1. /\ Grow
        /\ \A r \in Server : GraphGrows(gra[r], gra'[r])
        /\ \A r \in Server : r # s => gra'[r] = gra[r]
        /\ gra'[s] = h
    BY <1>2, <1>4, <1>5, <1>8, <1>9, ServerGrows DEF IInv
  <2>2. Sound(gra[s], Runs', Done', Committed', OwnEdges', KnownEdges')
    BY <1>1, <2>1, SoundGrows, SMTT(60) DEF SoundNow, Grow
  <2>3. \A u \in Txn : IsCommit(h, u) => u \in Committed'
    BY <2>1 DEF Committed
  <2>4. Sound(h, Runs', Done', Committed', OwnEdges', KnownEdges')
    BY <1>1, <1>4, <2>2, <2>3, StatusSound
  <2>5. SoundNow(gra[s])'
    BY <2>1, <2>4 DEF SoundNow
  <2> QED
    BY <1>2, <1>5, <1>6, <2>1, <2>5, ServerStep
<1> QED
  BY <1>2, <1>7, <1>8

-----------------------------------------------------------------------------
(* Steps of the pieces *)

\* rcc_start_pie: the new edges are in the answer, or start at committed
\* transactions.
LEMMA StartPieStep ==
  ASSUME IInv, NEW m \in msgs, StartPie(m)
  PROVE  IInv'
<1> DEFINE p == m.piece
           s == p.site
           t == p.txn
           P == {last[c] : c \in {d \in p.cells : last[d] # NoTxn}}
           h == [gra[s] EXCEPT !.srv = [@ EXCEPT ![t] = gra[s].srv[t] \cup {s}],
                               !.edge = gra[s].edge \cup NewEdges(p)]
           k == SubTxnGraph(h, t)
           n == [type |-> "start_reply", piece |-> p, gra |-> k]
<1>1. m.type = "start" /\ p \in Piece /\ m \in Message
  BY MsgFields DEF IInv, TypeOK, StartPie
<1>2. /\ s \in Server /\ t \in Txn /\ p.cells \subseteq Cell
      /\ p.kind \in Kind /\ s \in Sites(t)
  BY <1>1, PieceFields
<1>3. gra[s] \in Graph /\ SoundNow(gra[s])
  BY <1>2 DEF IInv, TypeOK, ServersSound
<1>4. P \subseteq Vertices(gra[s]) /\ P \subseteq Txn
  BY <1>1 DEF IInv, LastVertex, Vertices
<1>5. /\ gra' = [gra EXCEPT ![s] = h]
      /\ msgs' = (msgs \ {m}) \cup {n}
      /\ UNCHANGED <<cgra, sent, started, phase, asked, finishing>>
      /\ Touch(p)
  BY DEF StartPie, cvars
<1>6. /\ h \in Graph /\ h.st = gra[s].st
      /\ h.srv = [gra[s].srv EXCEPT ![t] = @ \cup {s}]
      /\ \A q, c \in Txn : IsEdge(h, q, c) <=> IsEdge(gra[s], q, c) \/ (q \in P /\ c = t)
  <2>1. NewEdges(p) = {<<q, t, p.kind>> : q \in P}
    BY DEF NewEdges
  <2>2. NewEdges(p) \subseteq Edge
    BY <1>2, <1>4, <2>1, SMTT(60) DEF Edge
  <2>3. /\ h \in Graph /\ h.st = gra[s].st
        /\ h.srv = [gra[s].srv EXCEPT ![t] = @ \cup {s}]
        /\ h.edge = gra[s].edge \cup NewEdges(p)
    BY <1>2, <1>3, <2>2 DEF Graph
  <2> HIDE DEF P, h
  <2> QED
    BY <1>2, <2>1, <2>3 DEF IsEdge
<1> HIDE DEF P, h
<1>7. /\ GraphGrows(gra[s], h)
      /\ \A u \in Txn : IsCommit(gra[s], u) <=> IsCommit(h, u)
      /\ s \in h.srv[t] /\ t \in Vertices(h)
      /\ Vertices(gra[s]) \subseteq Vertices(h)
  <2>1. gra[s].srv \in [Txn -> SUBSET Server]
    BY <1>3 DEF Graph
  <2>2. \A u \in Txn : h.srv[u] = IF u = t THEN gra[s].srv[u] \cup {s} ELSE gra[s].srv[u]
    BY <1>2, <1>6, <2>1
  <2>3. \A u \in Txn : IsCommit(gra[s], u) <=> IsCommit(h, u)
    BY <1>6 DEF IsCommit
  <2> QED
    BY <1>2, <1>6, <2>2, <2>3 DEF Vertices, GraphGrows
<1>8. k \in Graph /\ k.srv[t] = h.srv[t]
  BY <1>2, <1>6, InducedType DEF SubTxnGraph, Induced
<1>9. \A q \in P : IsEdge(k, q, t) \/ IsCommit(h, q)
  <2>1. ASSUME NEW q \in P, ~IsCommit(h, q) PROVE IsEdge(k, q, t)
    <3>1. q \in Txn /\ q \in Vertices(h) /\ IsEdge(h, q, t)
      BY <1>2, <1>4, <1>6, <1>7
    <3>2. q \in AncOpt(h, t) \cup {t}
      BY <1>2, <1>6, <2>1, <3>1, AncOptClosed, SMTT(60)
    <3> QED
      BY <3>1, <3>2 DEF SubTxnGraph, Induced, IsEdge
  <2> QED
    BY <2>1
<1> HIDE DEF k
<1>10. TypeOK'
  <2>1. n \in Message
    BY <1>1, <1>8 DEF Message
  <2>2. gra' \in [Server -> Graph]
    BY <1>5, <1>6 DEF IInv, TypeOK
  <2>3. last' \in [Cell -> Txn \cup {NoTxn}]
    BY <1>2, <1>5 DEF IInv, TypeOK, Touch
  <2>4. acc' \in [Cell -> SUBSET Txn] /\ prec' \subseteq Txn \X Txn
    <3>1. acc \in [Cell -> SUBSET Txn] /\ prec \subseteq Txn \X Txn
      BY DEF IInv, TypeOK
    <3>2. UNCHANGED <<acc, prec>> \/ RunNow(p)
      BY DEF StartPie
    <3>3. CASE RunNow(p)
      <4>1. acc' \in [Cell -> SUBSET Txn]
        BY <1>2, <3>1, <3>3 DEF RunNow
      <4>2. UNION {acc[c] : c \in p.cells} \subseteq Txn
        BY <1>2, <3>1
      <4>3. prec' \subseteq Txn \X Txn
        BY <1>2, <3>1, <3>3, <4>2, SMTT(60) DEF RunNow
      <4> QED
        BY <4>1, <4>3
    <3> QED
      BY <3>1, <3>2, <3>3
  <2>5. deferred' \subseteq Piece
    BY <1>1 DEF IInv, TypeOK, StartPie
  <2> QED
    BY <1>5, <2>1, <2>2, <2>3, <2>4, <2>5 DEF IInv, TypeOK, StartPie, cvars
<1>11. /\ Grow
       /\ \A r \in Server : GraphGrows(gra[r], gra'[r])
       /\ \A r \in Server : r # s => gra'[r] = gra[r]
       /\ gra'[s] = h
  <2>1. \A x \in msgs : x.type = "start_reply" => x \in msgs'
    BY <1>1, <1>5
  <2> QED
    BY <1>2, <1>5, <1>6, <1>7, <1>10, <2>1, ServerGrows DEF IInv
<1>12. Sound(h, Runs', Done', Committed', OwnEdges', KnownEdges')
  <2>1. Sound(gra[s], Runs', Done', Committed', OwnEdges', KnownEdges')
    BY <1>3, <1>11, SoundGrows, SMTT(60) DEF SoundNow, Grow
  <2>2. <<s, t>> \in Runs'
    BY <1>2, <1>7, <1>11 DEF Runs, Involved
  <2>3. \A q \in P : <<q, t>> \in KnownEdges'
    <3>1. ASSUME NEW q \in P PROVE <<q, t>> \in KnownEdges'
      <4>1. CASE IsCommit(h, q)
        BY <1>2, <1>4, <1>11, <4>1 DEF KnownEdges, Committed
      <4>2. CASE IsEdge(k, q, t)
        <5>1. n \in msgs' /\ n.type = "start_reply" /\ n.piece.txn = t /\ n.gra = k
          BY <1>5
        <5> QED
          BY <1>2, <1>4, <4>2, <5>1 DEF KnownEdges
      <4> QED
        BY <1>9, <4>1, <4>2
    <3> QED
      BY <3>1
  <2>4. /\ gra[s] \in Graph /\ h \in Graph /\ P \in SUBSET Txn /\ s \in Server /\ t \in Txn
        /\ s \in Sites(t) /\ P \subseteq Vertices(gra[s])
    BY <1>2, <1>3, <1>4, <1>6
  <2>5. ASSUME NEW g, g = gra[s], NEW r, r = s, NEW u, u = t,
               NEW R, R = Runs', NEW D, D = Done', NEW CM, CM = Committed',
               NEW Own, Own = OwnEdges', NEW K, K = KnownEdges'
        PROVE  Sound(h, R, D, CM, Own, K)
    <3>1. /\ g \in Graph /\ h \in Graph /\ P \in SUBSET Txn /\ r \in Server /\ u \in Txn
          /\ r \in Sites(u) /\ P \subseteq Vertices(g)
      BY <2>4, <2>5
    <3>2. Sound(g, R, D, CM, Own, K) /\ <<r, u>> \in R /\ \A q \in P : <<q, u>> \in K
      BY <2>1, <2>2, <2>3, <2>5
    <3>3. /\ h.srv = [g.srv EXCEPT ![u] = @ \cup {r}] /\ h.st = g.st
          /\ \A q, c \in Txn : IsEdge(h, q, c) <=> IsEdge(g, q, c) \/ (q \in P /\ c = u)
      BY <1>6, <2>5
    <3> QED
      BY <3>1, <3>2, <3>3, StartSound, SMTT(60)
  <2> QED
    BY <2>5
<1>13. SoundNow(gra[s])'
  BY <1>11, <1>12 DEF SoundNow
<1>14. Sound(k, Runs', Done', Committed', OwnEdges', KnownEdges')
  BY <1>6, <1>7, <1>12, SubTxnGraphSound DEF k
<1>15. ASSUME NEW x \in msgs', x \notin msgs PROVE MsgOK(x)'
  <2>1. x.type = "start_reply" /\ x.piece = p /\ x.gra = k
    BY <1>5, <1>15, SMTT(60)
  <2> QED
    BY <1>7, <1>8, <1>14, <2>1 DEF MsgOK, SoundNow
<1>16. ServersSound' /\ CoordsSound' /\ MsgsOK' /\ AskedInvolved' /\ FinishingSound'
  BY <1>5, <1>10, <1>11, <1>13, <1>15, FactsStep
<1>17. PieceFlow'
  <2>1. Done' = Done
    BY <1>5 DEF Done
  <2>2. \A x \in msgs' : (x \in msgs /\ x # m) \/ (x = n /\ x.piece = m.piece)
    BY <1>5, SMTT(60)
  <2>3. Carries(m)
    BY <1>1 DEF Carries
  <2> HIDE DEF n
  <2> QED
    BY <1>5, <2>1, <2>2, <2>3 DEF IInv, PieceFlow
<1>18. SitesKnown'
  BY <1>5 DEF IInv, SitesKnown
<1>19. LastVertex'
  <2>1. ASSUME NEW q \in Piece, NEW c \in q.cells, last'[c] # NoTxn
        PROVE  last'[c] \in Vertices(gra'[q.site])
    <3>1. c \in Cell /\ q.site \in Server
      BY PieceFields
    <3>2. CASE c \in p.cells
      <4>1. q.site = s
        BY <1>1, <3>2, PieceAssumption
      <4>2. last'[c] = t \/ last'[c] = last[c]
        BY <1>5, <3>1 DEF Touch
      <4> QED
        BY <1>7, <1>11, <2>1, <3>1, <4>1, <4>2 DEF IInv, LastVertex
    <3>3. CASE c \notin p.cells
      <4>1. last'[c] = last[c]
        BY <1>5, <3>1, <3>3 DEF Touch
      <4>2. last[c] \in Vertices(gra[q.site])
        BY <2>1, <4>1 DEF IInv, LastVertex
      <4> QED
        BY <1>7, <1>11, <3>1, <4>1, <4>2
    <3> QED
      BY <3>2, <3>3
  <2> QED
    BY <2>1 DEF LastVertex
<1> QED
  BY <1>10, <1>16, <1>17, <1>18, <1>19 DEF IInv

\* do_one sends pieces that were not sent.
LEMMA DoOneStep ==
  ASSUME IInv, NEW t \in Txn, DoOne(t)
  PROVE  IInv'
<1> DEFINE ready == {p \in PiecesOf(t) : p.after = {}}
           new == {StartMsg(p) : p \in ready}
<1>1. /\ phase[t] = "new" /\ phase' = [phase EXCEPT ![t] = "start"]
      /\ sent' = sent \cup ready /\ msgs' = msgs \cup new
      /\ UNCHANGED <<gra, cgra, started, last, asked, finishing>>
  BY DEF DoOne, svars
<1>2. ready \subseteq PiecesOf(t) /\ PiecesOf(t) \subseteq Piece
  BY DEF PiecesOf
<1>3. \A m \in new : m \in Message /\ m.type = "start" /\ m.piece \in ready
  BY <1>2, SMTT(60) DEF StartMsg, Message
<1>4. \A m, n \in new : m.piece = n.piece => m = n
  BY SMTT(60) DEF StartMsg
<1> HIDE DEF ready, new
<1>5. TypeOK'
  BY <1>1, <1>2, <1>3 DEF IInv, TypeOK, DoOne, svars
<1>6. Grow
  <2>1. \A s \in Server, u \in Txn : Involved(s, u) => Involved(s, u)'
    BY <1>1 DEF Involved
  <2> QED
    BY <1>1, <1>5, <2>1, StepGrows DEF IInv
<1>7. \A m \in msgs' : m \in msgs \/ MsgOK(m)'
  BY <1>1, <1>3 DEF MsgOK
<1>8. ServersSound' /\ CoordsSound' /\ MsgsOK' /\ AskedInvolved' /\ FinishingSound'
  BY <1>1, <1>5, <1>6, <1>7, FactsStep DEF GraphGrows
<1>9. PieceFlow'
  <2>1. Done' = Done
    BY <1>1 DEF Done
  <2>2. ready \cap sent = {} /\ ready \cap started = {}
    BY <1>1, <1>2 DEF IInv, PieceFlow
  <2>3. started' \subseteq sent'
    BY <1>1 DEF IInv, PieceFlow
  <2>4. \A m \in msgs' : Carries(m) => m.piece \in sent' \ started'
    BY <1>1, <1>3, <2>2 DEF IInv, PieceFlow
  <2>5. \A m, n \in msgs' : Carries(m) /\ Carries(n) /\ m.piece = n.piece => m = n
    BY <1>1, <1>3, <1>4, <2>2 DEF IInv, PieceFlow
  <2>6. \A u \in Txn : phase'[u] = "new" => PiecesOf(u) \cap sent' = {}
    <3>1. ASSUME NEW u \in Txn, phase'[u] = "new" PROVE PiecesOf(u) \cap sent' = {}
      <4>1. u # t /\ phase[u] = "new"
        BY <1>1, <3>1 DEF IInv, TypeOK
      <4>2. PiecesOf(u) \cap PiecesOf(t) = {}
        BY <4>1 DEF PiecesOf
      <4> QED
        BY <1>1, <1>2, <4>1, <4>2 DEF IInv, PieceFlow
    <3> QED
      BY <3>1
  <2>7. \A u \in Txn : phase'[u] = "finish" => u \in Done'
    BY <1>1, <2>1 DEF IInv, TypeOK, PieceFlow
  <2> QED
    BY <2>3, <2>4, <2>5, <2>6, <2>7 DEF PieceFlow
<1>10. SitesKnown' /\ LastVertex'
  BY <1>1 DEF IInv, SitesKnown, LastVertex
<1> QED
  BY <1>5, <1>8, <1>9, <1>10 DEF IInv

\* The callback of a start reply merges a sound graph; when it sends the finish
\* requests, the graph is complete for the transaction.
LEMMA StartReplyStep ==
  ASSUME IInv, NEW m \in msgs, StartReply(m)
  PROVE  IInv'
<1> DEFINE p == m.piece
           t == p.txn
           answered == started \cup {p}
           ready == Unlocked(p, answered)
           g == UnionGraph(cgra[t], m.gra)
           done == ready = {} /\ PiecesOf(t) \subseteq answered
           new == {StartMsg(q) : q \in ready}
           fin == {[type |-> "finish", txn |-> t, to |-> s, gra |-> g] : s \in Sites(t)}
<1>1. /\ m.type = "start_reply" /\ p \in Piece /\ m.gra \in Graph
      /\ SoundNow(m.gra) /\ p.site \in m.gra.srv[t]
  BY MsgFields DEF IInv, TypeOK, MsgsOK, MsgOK, StartReply
<1>2. t \in Txn /\ p \in PiecesOf(t) /\ PiecesOf(t) \subseteq Piece
  BY <1>1, PieceFields DEF PiecesOf
<1>3. cgra[t] \in Graph /\ SoundNow(cgra[t])
  BY <1>2 DEF IInv, TypeOK, CoordsSound
<1>4. /\ g \in Graph /\ SoundNow(g)
      /\ \A u, q \in Txn : /\ g.srv[u] = cgra[t].srv[u] \cup m.gra.srv[u]
                           /\ IsEdge(g, q, u) <=> IsEdge(cgra[t], q, u) \/ IsEdge(m.gra, q, u)
  BY <1>1, <1>3, UnionType, UnionSound, UnionParts DEF SoundNow
<1>5. /\ cgra' = [cgra EXCEPT ![t] = g]
      /\ started' = answered /\ sent' = sent \cup ready
      /\ msgs' = (msgs \ {m}) \cup new \cup (IF done THEN fin ELSE {})
      /\ phase' = IF done THEN [phase EXCEPT ![t] = "finish"] ELSE phase
      /\ UNCHANGED <<gra, last, asked, finishing>>
  BY DEF StartReply, svars
<1>6. ready \subseteq PiecesOf(t) \ sent
  BY <1>2 DEF Unlocked
<1>7. \A x \in new : x \in Message /\ x.type = "start" /\ x.piece \in ready
  BY <1>2, <1>6, SMTT(60) DEF StartMsg, Message
<1>8. \A x, y \in new : x.piece = y.piece => x = y
  BY SMTT(60) DEF StartMsg
<1>9. Sites(t) \subseteq Server
  BY <1>2, PieceFields DEF Sites
<1>10. \A x \in fin : x \in Message /\ x.type = "finish" /\ x.txn = t /\ x.gra = g
  BY <1>2, <1>4, <1>9, SMTT(60) DEF Message
<1>11. p \in sent \ started /\ t \notin Done
  <2>1. Carries(m)
    BY <1>1 DEF Carries
  <2> QED
    BY <1>2, <2>1 DEF IInv, PieceFlow, Done
<1> HIDE DEF g, ready, new, fin
<1>12. TypeOK'
  <2>1. cgra' \in [Txn -> Graph]
    BY <1>2, <1>4, <1>5 DEF IInv, TypeOK
  <2>2. msgs' \subseteq Message
    BY <1>5, <1>7, <1>10 DEF IInv, TypeOK
  <2>3. sent' \subseteq Piece /\ started' \subseteq Piece
    BY <1>1, <1>2, <1>5, <1>6 DEF IInv, TypeOK
  <2>4. phase' \in [Txn -> {"new", "start", "finish", "gone"}]
    BY <1>2, <1>5 DEF IInv, TypeOK
  <2>5. early' \in [Txn -> BOOLEAN]
    <3>1. early \in [Txn -> BOOLEAN]
      BY DEF IInv, TypeOK
    <3>2. early' = [early EXCEPT ![t] = early[t] /\ KeepEarly(p, m.gra)]
      BY DEF StartReply
    <3> QED
      BY <1>2, <3>1, <3>2 DEF KeepEarly
  <2>6. replies' \in [Txn -> Nat]
    <3>1. replies \in [Txn -> Nat]
      BY DEF IInv, TypeOK
    <3>2. replies' = [replies EXCEPT ![t] = @ + 1] \/ replies' = replies
      BY DEF StartReply
    <3> QED
      BY <1>2, <3>1, <3>2, SMTT(60)
  <2> QED
    BY <2>1, <2>2, <2>3, <2>4, <2>5, <2>6 DEF IInv, TypeOK, StartReply, svars
<1>13. cgra'[t] = g /\ \A u \in Txn : u # t => cgra'[u] = cgra[u]
  BY <1>2, <1>5 DEF IInv, TypeOK
<1>14. Grow
  <2>1. \A s \in Server, u \in Txn : Involved(s, u) => Involved(s, u)'
    BY <1>5 DEF Involved
  <2>2. \A q, u \in Txn : IsEdge(cgra[u], q, u) => IsEdge(cgra'[u], q, u)
    BY <1>4, <1>13
  <2>3. \A q, u \in Txn : u \in Done /\ IsEdge(cgra'[u], q, u) => IsEdge(cgra[u], q, u)
    BY <1>11, <1>13
  <2>4. \A x \in msgs : x.type = "start_reply" =>
            \/ x \in msgs'
            \/ \A q \in Txn : IsEdge(x.gra, q, x.piece.txn)
                                => IsEdge(cgra'[x.piece.txn], q, x.piece.txn)
    BY <1>2, <1>4, <1>5, <1>13, SMTT(60)
  <2>5. started \subseteq started'
    BY <1>5
  <2>6. \A s \in Server, u \in Txn : IsCommit(gra[s], u) => IsCommit(gra'[s], u)
    BY <1>5
  <2> QED
    BY <1>12, <2>1, <2>2, <2>3, <2>4, <2>5, <2>6, StepGrows DEF IInv
<1>15. Sound(g, Runs', Done', Committed', OwnEdges', KnownEdges')
  BY <1>4, <1>14, SoundGrows, SMTT(60) DEF SoundNow, Grow
<1>16. \A q \in answered : q.txn = t => q.site \in g.srv[t]
  BY <1>1, <1>2, <1>4 DEF IInv, SitesKnown
<1>17. ASSUME done PROVE FinishSound(g, t, Done', {}, OwnEdges')
  <2>1. t \in Done'
    BY <1>2, <1>5, <1>17 DEF Done
  <2>2. Sites(t) \subseteq g.srv[t]
    BY <1>16, <1>17 DEF Sites, PiecesOf
  <2>3. \A q \in Txn : <<q, t>> \in OwnEdges' => IsEdge(g, q, t)
    BY <1>2, <1>13 DEF OwnEdges
  <2> QED
    BY <2>1, <2>2, <2>3 DEF FinishSound
<1>18. ASSUME NEW x \in msgs', x \notin msgs PROVE MsgOK(x)'
  <2>1. x \in new \/ (x \in fin /\ done)
    BY <1>5, <1>18
  <2>2. CASE x \in new
    BY <1>7, <2>2 DEF MsgOK
  <2>3. CASE x \in fin /\ done
    <3>1. x.type = "finish" /\ x.txn = t /\ x.gra = g /\ FinishSound(g, t, Done', {}, OwnEdges')
      BY <1>10, <1>17, <2>3
    <3> QED
      BY <1>15, <3>1 DEF MsgOK, SoundNow
  <2> QED
    BY <2>1, <2>2, <2>3
<1>19. \A u \in Txn : cgra'[u] = cgra[u] \/ SoundNow(cgra[u])'
  BY <1>13, <1>15 DEF SoundNow
<1>20. ServersSound' /\ CoordsSound' /\ MsgsOK' /\ AskedInvolved' /\ FinishingSound'
  BY <1>5, <1>12, <1>14, <1>18, <1>19, FactsStep DEF GraphGrows
<1>21. PieceFlow'
  <2>1. ready \cap sent = {} /\ ready \cap started' = {} /\ p \notin ready
    BY <1>5, <1>6, <1>11 DEF IInv, PieceFlow
  <2>2. started' \subseteq sent'
    BY <1>5, <1>11 DEF IInv, PieceFlow
  <2>3. \A x \in msgs' : Carries(x) => x \in new \/ (x \in msgs /\ x # m)
    BY <1>5, <1>10 DEF Carries
  <2>4. \A x \in msgs : Carries(x) /\ x # m => x.piece # p
    BY <1>1 DEF IInv, PieceFlow, Carries
  <2>5. \A x \in msgs' : Carries(x) => x.piece \in sent' \ started'
    BY <1>5, <1>7, <2>1, <2>3, <2>4 DEF IInv, PieceFlow
  <2>6. \A x, y \in msgs' : Carries(x) /\ Carries(y) /\ x.piece = y.piece => x = y
    BY <1>7, <1>8, <2>1, <2>3 DEF IInv, PieceFlow
  <2>7. \A u \in Txn : phase'[u] = "new" => PiecesOf(u) \cap sent' = {}
    <3>1. ASSUME NEW u \in Txn, phase'[u] = "new" PROVE PiecesOf(u) \cap sent' = {}
      <4>1. phase[u] = "new"
        BY <1>2, <1>5, <3>1 DEF IInv, TypeOK
      <4>2. u # t
        BY <1>2, <1>11, <4>1 DEF IInv, PieceFlow
      <4>3. PiecesOf(u) \cap PiecesOf(t) = {}
        BY <4>2 DEF PiecesOf
      <4> QED
        BY <1>5, <1>6, <4>1, <4>3 DEF IInv, PieceFlow
    <3> QED
      BY <3>1
  <2>8. \A u \in Txn : phase'[u] = "finish" => u \in Done'
    <3>1. ASSUME NEW u \in Txn, phase'[u] = "finish" PROVE u \in Done'
      <4>1. CASE phase[u] = "finish"
        BY <1>14, <4>1 DEF IInv, PieceFlow, Grow
      <4>2. CASE phase[u] # "finish"
        <5>1. done /\ u = t
          BY <1>2, <1>5, <3>1, <4>2 DEF IInv, TypeOK
        <5> QED
          BY <1>17, <5>1 DEF FinishSound
      <4> QED
        BY <4>1, <4>2
    <3> QED
      BY <3>1
  <2> QED
    BY <2>2, <2>5, <2>6, <2>7, <2>8 DEF PieceFlow
<1>22. SitesKnown'
  <2>1. ASSUME NEW q \in started' PROVE q.site \in cgra'[q.txn].srv[q.txn]
    <3>1. q \in answered /\ q.txn \in Txn
      BY <1>1, <1>5, PieceFields DEF IInv, TypeOK
    <3>2. CASE q.txn = t
      BY <1>13, <1>16, <3>1, <3>2
    <3>3. CASE q.txn # t
      BY <1>13, <3>1, <3>3 DEF IInv, SitesKnown
    <3> QED
      BY <3>2, <3>3
  <2> QED
    BY <2>1 DEF SitesKnown
<1>23. LastVertex'
  BY <1>5 DEF IInv, LastVertex
<1> QED
  BY <1>12, <1>20, <1>21, <1>22, <1>23 DEF IInv

-----------------------------------------------------------------------------
(* The invariant *)

\* Nothing is sent, started or known at the beginning.
LEMMA InitInv == Init => IInv
<1> SUFFICES ASSUME Init PROVE IInv
  OBVIOUS
<1>1. EmptyGraph \in Graph
  BY DEF EmptyGraph, Graph
<1>2. \A R, D, CM, Own, K : Sound(EmptyGraph, R, D, CM, Own, K)
  BY DEF EmptyGraph, Sound, IsEdge, IsFinish, IsCommit
<1>3. TypeOK
  <2>1. NoBall \in Ball
    BY DEF NoBall, Ball
  <2>2. early \in [Txn -> BOOLEAN]
    BY EarlyAssumption DEF Init
  <2> QED
    BY <1>1, <2>1, <2>2 DEF Init, TypeOK
<1>4. PieceFlow /\ MsgsOK /\ FinishingSound /\ SitesKnown /\ AskedInvolved
  BY DEF Init, PieceFlow, MsgsOK, FinishingSound, SitesKnown, AskedInvolved
<1>5. ServersSound /\ CoordsSound
  BY <1>2 DEF Init, ServersSound, CoordsSound, SoundNow
<1>6. LastVertex
  BY PieceFields DEF Init, LastVertex
<1> QED
  BY <1>3, <1>4, <1>5, <1>6 DEF IInv

\* Every step of a coordinator, a server's handler or a callback keeps all
\* dependency graphs sound and every piece in one place.
THEOREM NextInv == IInv /\ [Next]_vars => IInv'
<1> SUFFICES ASSUME IInv, [Next]_vars PROVE IInv'
  OBVIOUS
<1>1. ASSUME NEW t \in Txn, DoOne(t) PROVE IInv'
  BY <1>1, DoOneStep
<1>2. ASSUME NEW m \in msgs, StartReply(m) PROVE IInv'
  BY <1>2, StartReplyStep
<1>3. ASSUME NEW m \in msgs, FinishReply(m) PROVE IInv'
  BY <1>3, FinishReplyStep
<1>4. ASSUME NEW m \in msgs, StartPie(m) PROVE IInv'
  BY <1>4, StartPieStep
<1>5. ASSUME NEW m \in msgs, FinishUnion(m) PROVE IInv'
  BY <1>5, FinishUnionStep
<1>6. ASSUME NEW m \in msgs, AskTxn(m) PROVE IInv'
  BY <1>6, AskTxnStep
<1>7. ASSUME NEW m \in msgs, AskReply(m) PROVE IInv'
  BY <1>7, AskReplyStep
<1>8. ASSUME NEW s \in Server, NEW t \in Txn, NEW d \in BOOLEAN, FinishToCommit(s, t, d)
      PROVE  IInv'
  BY <1>8, FinishToCommitStep
<1>9. ASSUME NEW s \in Server, NEW t \in Txn,
             \/ FinishTxn(s, t) \/ AncFinishCb(s, t)
             \/ SccAncCommitCb(s, t) \/ SccVerifyFails(s, t)
      PROVE  IInv'
  BY <1>9, FinishTxnStep, AncFinishCbStep, SccAncCommitCbStep, SccVerifyFailsStep
<1>10. ASSUME NEW s \in Server, NEW a \in asked[s], AskFinishCb(s, a) PROVE IInv'
  BY <1>10, AskFinishCbStep
<1>11. CASE UNCHANGED vars
  <2>1. TypeOK' /\ UNCHANGED <<gra, cgra, sent, started, last, msgs, phase, asked, finishing>>
    BY <1>11 DEF IInv, TypeOK, vars, cvars, svars
  <2> QED
    BY <2>1, QuietStep
<1> QED
  BY <1>1, <1>2, <1>3, <1>4, <1>5, <1>6, <1>7, <1>8, <1>9, <1>10, <1>11
     DEF Next, Handlers, Callbacks, AllGone

\* All dependency graphs are sound, and every piece is in one place, always.
THEOREM GraphsSound == Spec => []IInv
BY InitInv, NextInv, PTL DEF Spec

\* Every variable keeps its type.
THEOREM TypeCorrect == Spec => []TypeOK
<1>1. IInv => TypeOK
  BY DEF IInv
<1> QED
  BY <1>1, GraphsSound, PTL

\* The verify() of rcc_ask_txn never fails: a server is asked only about a
\* transaction that runs a piece there.
THEOREM AskVerifyHolds == Spec => []AskInvolved
<1>1. IInv => AskInvolved
  BY DEF IInv, MsgsOK, MsgOK, AskInvolved
<1> QED
  BY <1>1, GraphsSound, PTL

\* The verify() of deptran_finish never fails: the graph names exactly the
\* servers pieces were sent to.
THEOREM FinishVerifyHolds == Spec => []FinishKnowsSites
<1>1. IInv => FinishKnowsSites
  <2> SUFFICES ASSUME IInv, NEW t \in Txn, phase[t] = "finish"
               PROVE  cgra[t].srv[t] = Sites(t)
    BY DEF FinishKnowsSites
  <2>1. t \in Done /\ cgra[t] \in Graph /\ SoundNow(cgra[t])
    BY DEF IInv, TypeOK, PieceFlow, CoordsSound
  <2>2. Sites(t) \subseteq cgra[t].srv[t]
    BY <2>1 DEF IInv, SitesKnown, Done, Sites, PiecesOf
  <2>3. cgra[t].srv[t] \subseteq Sites(t)
    BY <2>1 DEF SoundNow, Sound, Graph
  <2> QED
    BY <2>2, <2>3
<1> QED
  BY <1>1, GraphsSound, PTL

\* Neither verify() about the servers of a transaction ever fails.
THEOREM RccVerifiesHold == Spec => []VerifiesHold
  BY AskVerifyHolds, FinishVerifyHolds, PTL DEF VerifiesHold

\* A server that holds a transaction for FINISH knows all its servers, and all
\* its pieces have started.
THEOREM FinishIsComplete == Spec => []FinishedServersComplete
<1>1. IInv => FinishedServersComplete
  <2> SUFFICES ASSUME IInv, NEW s \in Server, NEW t \in Txn, IsFinish(gra[s], t)
               PROVE  gra[s].srv[t] = Sites(t) /\ PiecesOf(t) \subseteq started
    BY DEF FinishedServersComplete
  <2>1. gra[s] \in Graph /\ SoundNow(gra[s])
    BY DEF IInv, TypeOK, ServersSound
  <2>2. FinishSound(gra[s], t, Done, Committed, OwnEdges)
    BY <2>1 DEF SoundNow, Sound
  <2>3. gra[s].srv[t] \subseteq Sites(t)
    BY <2>1 DEF SoundNow, Sound, Graph
  <2> QED
    BY <2>2, <2>3 DEF FinishSound, Done
<1> QED
  BY <1>1, GraphsSound, PTL

\* A server that holds t for FINISH has every edge into t that any server has,
\* except from committed transactions.
THEOREM FinishHasEdges == Spec => []EdgesComplete
<1>1. IInv => EdgesComplete
  <2> SUFFICES ASSUME IInv, NEW s \in Server, NEW r \in Server, NEW p \in Txn, NEW t \in Txn,
                      IsFinish(gra[s], t), IsEdge(gra[r], p, t), p \notin Committed
               PROVE  IsEdge(gra[s], p, t)
    BY DEF EdgesComplete, Committed
  <2>1. FinishSound(gra[s], t, Done, Committed, OwnEdges)
    BY DEF IInv, ServersSound, SoundNow, Sound
  <2>2. <<p, t>> \in KnownEdges
    BY DEF IInv, ServersSound, SoundNow, Sound
  <2>3. ASSUME NEW m \in msgs, m.type = "start_reply", m.piece.txn = t PROVE FALSE
    <3>1. m.piece \in Piece /\ Carries(m)
      BY <2>3, MsgFields DEF IInv, TypeOK, Carries
    <3>2. m.piece \in PiecesOf(t) /\ m.piece \notin started
      BY <2>3, <3>1 DEF IInv, PieceFlow, PiecesOf
    <3> QED
      BY <2>1, <3>2 DEF FinishSound, Done
  <2>4. <<p, t>> \in OwnEdges
    BY <2>2, <2>3 DEF KnownEdges, OwnEdges
  <2> QED
    BY <2>1, <2>4 DEF FinishSound
<1> QED
  BY <1>1, GraphsSound, PTL
-----------------------------------------------------------------------------
(* The client is answered once *)

\* The finish request of t to s does not turn up in a new place.
Stays(s, t) ==
  /\ UnderWay(s, t)' => UnderWay(s, t)
  /\ Merging(s, t)' => Merging(s, t)
  /\ Calling(s, t)' => Calling(s, t)
  /\ Waiting(s, t)' => Waiting(s, t)
  /\ ComingBack(s, t)' => ComingBack(s, t)
  /\ Counted(s, t)' => Counted(s, t)

\* A request that stays is in one place.
LEMMA StaysInOne ==
  ASSUME NEW s, NEW t, InOnePlace(s, t), Stays(s, t)
  PROVE  InOnePlace(s, t)' /\ (Somewhere(s, t)' => Somewhere(s, t))
<1> USE DEF Stays
<1>1. InOnePlace(s, t)'
  BY DEF InOnePlace
<1>2. Somewhere(s, t)' => Somewhere(s, t)
  BY DEF Somewhere
<1> QED
  BY <1>1, <1>2

\* What is said of the answer to t stays so when its coordinator does nothing.
LEMMA AnswersKept ==
  ASSUME NEW t \in Txn, Answers(t), \A s \in Server : Somewhere(s, t)' => Somewhere(s, t),
         phase'[t] = phase[t], replies'[t] = replies[t], early'[t] = early[t],
         finished'[t] = finished[t], started \subseteq started'
  PROVE  Answers(t)'
<1>1. t \in Done => t \in Done'
  BY DEF Done
<1> QED
  BY <1>1 DEF Answers

\* What a step of a server may do to the finish request of u to r.
ServerMoves(r, u) ==
  /\ UNCHANGED cvars
  /\ \A m \in msgs' : m.type = "finish" => m \in msgs
  /\ \A s \in Server, t \in Txn : s # r \/ t # u => Stays(s, t)
  /\ Stays(r, u) \/ (Somewhere(r, u) /\ InOnePlace(r, u)')

\* Such a step keeps every finish request in one place.
LEMMA ServerMovesInv ==
  ASSUME AInv, NEW r \in Server, NEW u \in Txn, ServerMoves(r, u)
  PROVE  AInv'
<1>1. OneRequest'
  BY DEF AInv, OneRequest, ServerMoves
<1>2. ASSUME NEW s \in Server, NEW t \in Txn
      PROVE  InOnePlace(s, t)' /\ (Somewhere(s, t)' => Somewhere(s, t))
  <2>1. InOnePlace(s, t)
    BY DEF AInv
  <2>2. CASE Stays(s, t)
    BY <2>1, <2>2, StaysInOne
  <2>3. CASE ~Stays(s, t)
    BY <2>3 DEF ServerMoves
  <2> QED
    BY <2>2, <2>3
<1>3. ASSUME NEW t \in Txn PROVE Answers(t)'
  <2>1. /\ phase' = phase /\ replies' = replies /\ early' = early /\ finished' = finished
        /\ started' = started
    BY DEF ServerMoves, cvars
  <2>2. Answers(t)
    BY DEF AInv
  <2> QED
    BY <1>2, <2>1, <2>2, AnswersKept
<1> QED
  BY <1>1, <1>2, <1>3 DEF AInv

\* A step that takes no finish request, sends no answer to one, and leaves the
\* waits, keeps them where they are.
LEMMA NothingMoves ==
  ASSUME AInv, UNCHANGED cvars,
         \A m \in msgs' : m.type \in {"finish", "finish_reply"} => m \in msgs,
         \A s \in Server : finishing'[s] \subseteq finishing[s],
         \A s \in Server, t \in Txn : Calling(s, t)' => Calling(s, t),
         \A s \in Server, t \in Txn : Waiting(s, t)' => Waiting(s, t)
  PROVE  AInv'
<1>1. ASSUME NEW s \in Server, NEW t \in Txn PROVE Stays(s, t)
  <2>1. UnderWay(s, t)' => UnderWay(s, t)
    BY DEF UnderWay
  <2>2. ComingBack(s, t)' => ComingBack(s, t)
    BY DEF ComingBack
  <2>3. Merging(s, t)' => Merging(s, t)
    BY DEF Merging
  <2>4. Counted(s, t)' => Counted(s, t)
    BY DEF Counted, cvars
  <2> QED
    BY <2>1, <2>2, <2>3, <2>4 DEF Stays
<1>2. CASE Server = {} \/ Txn = {}
  <2>1. OneRequest'
    BY DEF AInv, OneRequest
  <2>2. ASSUME NEW t \in Txn PROVE Answers(t)'
    <3>1. /\ phase' = phase /\ replies' = replies /\ early' = early /\ finished' = finished
          /\ started' = started
      BY DEF cvars
    <3> QED
      BY <1>2, <3>1, AnswersKept DEF AInv
  <2> QED
    BY <1>2, <2>1, <2>2 DEF AInv
<1>3. CASE Server # {} /\ Txn # {}
  <2>1. PICK r \in Server, u \in Txn : TRUE
    BY <1>3
  <2>2. ServerMoves(r, u)
    BY <1>1 DEF ServerMoves
  <2> QED
    BY <2>2, ServerMovesInv
<1> QED
  BY <1>2, <1>3

\* A start request, and the callbacks of rcc_ask_txn, move no finish request.
LEMMA QuietServerAnswers ==
  ASSUME IInv, AInv,
         \/ \E m \in msgs : StartPie(m) \/ AskTxn(m) \/ AskReply(m)
         \/ \E s \in Server : \/ \E t \in Txn : SccVerifyFails(s, t)
                              \/ \E a \in asked[s] : AskFinishCb(s, a)
  PROVE  AInv'
<1>1. UNCHANGED cvars /\ finishing' = finishing /\ ball' = ball
  BY DEF StartPie, AskTxn, AskReply, SccVerifyFails, AskFinishCb
<1>2. ASSUME NEW n \in msgs', n.type \in {"finish", "finish_reply"} PROVE n \in msgs
  <2>1. ASSUME NEW m \in msgs, StartPie(m) PROVE n \in msgs \/ n.type = "start_reply"
    <3>1. PICK g : msgs' = (msgs \ {m}) \cup {[type |-> "start_reply", piece |-> m.piece, gra |-> g]}
      BY <2>1 DEF StartPie
    <3>2. n \in msgs \/ n = [type |-> "start_reply", piece |-> m.piece, gra |-> g]
      BY <3>1
    <3>3. CASE n = [type |-> "start_reply", piece |-> m.piece, gra |-> g]
      BY <3>3
    <3> QED
      BY <3>2, <3>3
  <2>2. ASSUME NEW s \in Server, NEW b \in asked[s], AskFinishCb(s, b)
        PROVE  n \in msgs \/ n.type = "ask_reply"
    <3>1. n \in msgs \/ n = [type |-> "ask_reply", txn |-> b[1], to |-> b[2],
                              gra |-> SubTxnGraph(gra[s], b[1])]
      BY <2>2 DEF AskFinishCb
    <3>2. CASE n = [type |-> "ask_reply", txn |-> b[1], to |-> b[2],
                    gra |-> SubTxnGraph(gra[s], b[1])]
      BY <3>2
    <3> QED
      BY <3>1, <3>2
  <2>3. CASE msgs' \subseteq msgs
    BY <2>3
  <2> QED
    BY <1>2, <2>1, <2>2, <2>3 DEF AskTxn, AskReply, SccVerifyFails
<1>3. ASSUME NEW s \in Server, NEW t \in Txn PROVE Calling(s, t)' => Calling(s, t)
  <2>1. CASE calls' = calls
    BY <2>1 DEF Calling
  <2>2. CASE \E m \in msgs : AskReply(m)
    <3>1. PICK m \in msgs : AskReply(m)
      BY <2>2
    <3>2. calls \in [Server -> SUBSET (Txn \X BOOLEAN)]
      BY DEF IInv, TypeOK
    <3>3. calls'[s] \subseteq calls[s] \cup {<<m.txn, FALSE>>}
      BY <3>1, <3>2 DEF AskReply
    <3>4. <<t, TRUE>> # <<m.txn, FALSE>>
      OBVIOUS
    <3> QED
      BY <3>3, <3>4 DEF Calling
  <2> QED
    BY <2>1, <2>2 DEF StartPie, AskTxn, SccVerifyFails, AskFinishCb
<1>4. \A s \in Server, t \in Txn : Waiting(s, t)' => Waiting(s, t)
  BY <1>1 DEF Waiting
<1>5. \A s \in Server : finishing'[s] \subseteq finishing[s]
  BY <1>1
<1> QED
  BY <1>1, <1>2, <1>3, <1>4, <1>5, NothingMoves

\* The merge takes the one request of t to s.
LEMMA FinishUnionAnswers ==
  ASSUME IInv, AInv, NEW m \in msgs, FinishUnion(m)
  PROVE  AInv'
<1> DEFINE r == m.to
           u == m.txn
<1>1. r \in Server /\ u \in Txn /\ m.type = "finish"
  BY MsgFields DEF IInv, TypeOK, FinishUnion
<1>2. finishing' = [finishing EXCEPT ![r] = @ \cup {u}] /\ msgs' = msgs \ {m}
  BY DEF FinishUnion
<1>3. UNCHANGED cvars /\ calls' = calls /\ ball' = ball
  BY DEF FinishUnion
<1>4. \A s \in Server : finishing'[s] = IF s = r THEN finishing[s] \cup {u} ELSE finishing[s]
  BY <1>1, <1>2 DEF IInv, TypeOK
<1> HIDE DEF r, u
<1>5. ASSUME NEW s \in Server, NEW t \in Txn
      PROVE  /\ UnderWay(s, t)' => UnderWay(s, t)
             /\ Calling(s, t)' => Calling(s, t)
             /\ Waiting(s, t)' => Waiting(s, t)
             /\ ComingBack(s, t)' => ComingBack(s, t)
             /\ Counted(s, t)' => Counted(s, t)
             /\ s # r \/ t # u => (Merging(s, t)' => Merging(s, t))
  <2>1. UnderWay(s, t)' => UnderWay(s, t)
    BY <1>2 DEF UnderWay
  <2>2. ComingBack(s, t)' => ComingBack(s, t)
    BY <1>2 DEF ComingBack
  <2>3. s # r \/ t # u => (Merging(s, t)' => Merging(s, t))
    BY <1>4 DEF Merging
  <2>4. (Calling(s, t)' => Calling(s, t)) /\ (Waiting(s, t)' => Waiting(s, t))
    BY <1>3 DEF Calling, Waiting
  <2>5. Counted(s, t)' => Counted(s, t)
    BY <1>3 DEF Counted, cvars
  <2> QED
    BY <2>1, <2>2, <2>3, <2>4, <2>5
<1>6. UnderWay(r, u) /\ ~UnderWay(r, u)'
  <2>1. UnderWay(r, u)
    BY <1>1 DEF UnderWay, r, u
  <2>2. ASSUME NEW n \in msgs', n.type = "finish", n.to = r, n.txn = u PROVE FALSE
    BY <1>1, <1>2, <2>2 DEF AInv, OneRequest, r, u
  <2> QED
    BY <2>1, <2>2 DEF UnderWay
<1>7. InOnePlace(r, u)
  BY <1>1 DEF AInv, r, u
<1>8. InOnePlace(r, u)'
  BY <1>1, <1>5, <1>6, <1>7 DEF InOnePlace, r, u
<1>9. Somewhere(r, u)
  BY <1>6 DEF Somewhere
<1>10. \A s \in Server, t \in Txn : s # r \/ t # u => Stays(s, t)
  BY <1>5 DEF Stays
<1>11. ServerMoves(r, u)
  BY <1>2, <1>3, <1>8, <1>9, <1>10 DEF ServerMoves
<1> QED
  BY <1>1, <1>11, ServerMovesInv DEF r, u

\* rcc_finish_txn passes the request on to rcc_finish_to_commit.
LEMMA FinishTxnAnswers ==
  ASSUME IInv, AInv, NEW r \in Server, NEW u \in Txn, FinishTxn(r, u)
  PROVE  AInv'
<1>1. UNCHANGED cvars /\ msgs' = msgs /\ ball' = ball /\ u \in finishing[r]
  BY DEF FinishTxn
<1>2. /\ finishing' = [finishing EXCEPT ![r] = @ \ {u}]
      /\ calls' = [calls EXCEPT ![r] = @ \cup {<<u, TRUE>>}]
  BY DEF FinishTxn
<1>3. /\ \A s \in Server : finishing'[s] = IF s = r THEN finishing[s] \ {u} ELSE finishing[s]
      /\ \A s \in Server : calls'[s] = IF s = r THEN calls[s] \cup {<<u, TRUE>>} ELSE calls[s]
  BY <1>2 DEF IInv, TypeOK
<1>4. ASSUME NEW s \in Server, NEW t \in Txn
      PROVE  /\ UnderWay(s, t)' => UnderWay(s, t)
             /\ Merging(s, t)' => Merging(s, t)
             /\ Waiting(s, t)' => Waiting(s, t)
             /\ ComingBack(s, t)' => ComingBack(s, t)
             /\ Counted(s, t)' => Counted(s, t)
             /\ s # r \/ t # u => (Calling(s, t)' => Calling(s, t))
  <2>1. UnderWay(s, t)' => UnderWay(s, t)
    BY <1>1 DEF UnderWay
  <2>2. ComingBack(s, t)' => ComingBack(s, t)
    BY <1>1 DEF ComingBack
  <2>3. s # r \/ t # u => (Calling(s, t)' => Calling(s, t))
    <3>1. <<t, TRUE>> = <<u, TRUE>> => t = u
      OBVIOUS
    <3> QED
      BY <1>3, <3>1 DEF Calling
  <2>4. (Merging(s, t)' => Merging(s, t)) /\ (Waiting(s, t)' => Waiting(s, t))
    BY <1>1, <1>3 DEF Merging, Waiting
  <2>5. Counted(s, t)' => Counted(s, t)
    BY <1>1 DEF Counted, cvars
  <2> QED
    BY <2>1, <2>2, <2>3, <2>4, <2>5
<1>5. Merging(r, u) /\ ~Merging(r, u)'
  BY <1>1, <1>3 DEF Merging
<1>6. InOnePlace(r, u)
  BY DEF AInv
<1>7. InOnePlace(r, u)'
  BY <1>4, <1>5, <1>6 DEF InOnePlace
<1>8. Somewhere(r, u)
  BY <1>5 DEF Somewhere
<1>9. \A s \in Server, t \in Txn : s # r \/ t # u => Stays(s, t)
  BY <1>4 DEF Stays
<1>10. ServerMoves(r, u)
  BY <1>1, <1>7, <1>8, <1>9 DEF ServerMoves
<1> QED
  BY <1>10, ServerMovesInv

\* What transaction u waits for at server r after a step that changes only that.
LEMMA BallAt ==
  ASSUME NEW f \in [Server -> [Txn -> Ball]], NEW r \in Server, NEW u \in Txn, NEW b,
         NEW h, h = [f EXCEPT ![r] = [@ EXCEPT ![u] = b]],
         NEW s \in Server, NEW t \in Txn
  PROVE  h[s][t] = IF s = r /\ t = u THEN b ELSE f[s][t]
OBVIOUS

\* The calls of rcc_ask_finish are made with defer NULL.
LEMMA CallsAdded ==
  ASSUME NEW t, NEW A, NEW C, <<t, TRUE>> \in C \cup (A \X {FALSE})
  PROVE  <<t, TRUE>> \in C
OBVIOUS

\* The requests of rcc_ask_finish are of type ask.
LEMMA AskType ==
  ASSUME NEW s, NEW A, NEW m \in AskMsgs(s, A)
  PROVE  m.type = "ask"
<1>1. PICK a \in ToAsk(s, A) :
        m = [type |-> "ask", txn |-> a, from |-> s, to |-> RandomServer(gra[s], a)]
  BY DEF AskMsgs
<1> QED
  BY <1>1

\* rcc_finish_to_commit keeps the request in the wait, or drops it when the
\* commit of t is under way already.
LEMMA FinishToCommitAnswers ==
  ASSUME IInv, AInv, NEW r \in Server, NEW u \in Txn, NEW d \in BOOLEAN,
         FinishToCommit(r, u, d)
  PROVE  AInv'
<1> DEFINE A == AncOpt(gra[r], u)
           b == [phase |-> "finish", wait |-> A, defer |-> d]
           rest == calls[r] \ {<<u, d>>}
<1>1. UNCHANGED cvars /\ finishing' = finishing /\ <<u, d>> \in calls[r]
  BY DEF FinishToCommit
<1>2. /\ ball' = ball \/ ball' = [ball EXCEPT ![r] = [@ EXCEPT ![u] = b]]
      /\ \/ calls' = [calls EXCEPT ![r] = rest]
         \/ calls' = [calls EXCEPT ![r] = rest \cup (ToCall(r, A) \X {FALSE})]
      /\ msgs' = msgs \/ msgs' = msgs \cup AskMsgs(r, A)
  BY DEF FinishToCommit
<1>3. b.defer = d
  OBVIOUS
<1>4. <<u, d>> \notin rest
  OBVIOUS
<1>5. rest \subseteq calls[r]
  OBVIOUS
<1> HIDE DEF A, b, rest
<1>6. /\ ball \in [Server -> [Txn -> Ball]]
      /\ calls \in [Server -> SUBSET (Txn \X BOOLEAN)]
  BY DEF IInv, TypeOK
<1>7. ASSUME NEW n \in msgs' PROVE n \in msgs \/ n.type = "ask"
  <2>1. n \in msgs \/ n \in AskMsgs(r, A)
    BY <1>2
  <2> QED
    BY <2>1, AskType
<1>8. /\ \A s \in Server : s # r => calls'[s] = calls[s]
      /\ calls'[r] = rest \/ calls'[r] = rest \cup (ToCall(r, A) \X {FALSE})
  BY <1>2, <1>6
<1>9. ASSUME NEW t, <<t, TRUE>> \in calls'[r] PROVE <<t, TRUE>> \in rest
  BY <1>8, <1>9, CallsAdded
<1>10. ASSUME NEW s \in Server, NEW t \in Txn
       PROVE  /\ s # r \/ t # u => ball'[s][t] = ball[s][t]
              /\ s = r /\ t = u => ball'[s][t] = ball[s][t] \/ ball'[s][t] = b
  <2>1. ASSUME ball' = [ball EXCEPT ![r] = [@ EXCEPT ![u] = b]]
        PROVE  ball'[s][t] = IF s = r /\ t = u THEN b ELSE ball[s][t]
    BY <1>6, <2>1, BallAt
  <2> QED
    BY <1>2, <2>1
<1>11. ASSUME NEW s \in Server, NEW t \in Txn
       PROVE  /\ UnderWay(s, t)' => UnderWay(s, t)
              /\ Merging(s, t)' => Merging(s, t)
              /\ Calling(s, t)' => Calling(s, t)
              /\ ComingBack(s, t)' => ComingBack(s, t)
              /\ Counted(s, t)' => Counted(s, t)
              /\ s # r \/ t # u => (Waiting(s, t)' => Waiting(s, t))
  <2>1. UnderWay(s, t)' => UnderWay(s, t)
    BY <1>7 DEF UnderWay
  <2>2. ComingBack(s, t)' => ComingBack(s, t)
    BY <1>7 DEF ComingBack
  <2>3. Calling(s, t)' => Calling(s, t)
    BY <1>5, <1>8, <1>9 DEF Calling
  <2>4. Merging(s, t)' => Merging(s, t)
    BY <1>1 DEF Merging
  <2>5. Counted(s, t)' => Counted(s, t)
    BY <1>1 DEF Counted, cvars
  <2>6. s # r \/ t # u => (Waiting(s, t)' => Waiting(s, t))
    BY <1>10 DEF Waiting
  <2> QED
    BY <2>1, <2>2, <2>3, <2>4, <2>5, <2>6
<1>12. \A s \in Server, t \in Txn : s # r \/ t # u => Stays(s, t)
  BY <1>11 DEF Stays
<1>13. Stays(r, u) \/ (Somewhere(r, u) /\ InOnePlace(r, u)')
  <2>1. CASE Waiting(r, u)' => Waiting(r, u)
    BY <1>11, <2>1 DEF Stays
  <2>2. CASE Waiting(r, u)' /\ ~Waiting(r, u)
    <3>1. d = TRUE
      BY <1>3, <1>10, <2>2 DEF Waiting
    <3>2. Calling(r, u) /\ ~Calling(r, u)'
      BY <1>1, <1>4, <1>9, <3>1 DEF Calling
    <3>3. InOnePlace(r, u)
      BY DEF AInv
    <3>4. InOnePlace(r, u)'
      BY <1>11, <3>2, <3>3 DEF InOnePlace
    <3> QED
      BY <3>2, <3>4 DEF Somewhere
  <2> QED
    BY <2>1, <2>2
<1>14. ServerMoves(r, u)
  BY <1>1, <1>7, <1>12, <1>13 DEF ServerMoves
<1> QED
  BY <1>14, ServerMovesInv

\* anc_finish_cb goes on to the second wait with the same defer.
LEMMA AncFinishCbAnswers ==
  ASSUME IInv, AInv, NEW r \in Server, NEW u \in Txn, AncFinishCb(r, u)
  PROVE  AInv'
<1> DEFINE A == SccNearestAnc(gra[r], u)
           b == [phase |-> "commit", wait |-> A, defer |-> ball[r][u].defer]
<1>1. UNCHANGED cvars /\ finishing' = finishing /\ ball[r][u].phase = "finish"
  BY DEF AncFinishCb, BallReady
<1>2. /\ ball' = [ball EXCEPT ![r] = [@ EXCEPT ![u] = b]]
      /\ calls' = [calls EXCEPT ![r] = @ \cup (ToCall(r, A) \X {FALSE})]
      /\ msgs' = msgs \cup AskMsgs(r, A)
  BY DEF AncFinishCb
<1>3. b.defer = ball[r][u].defer
  OBVIOUS
<1> HIDE DEF A, b
<1>4. /\ ball \in [Server -> [Txn -> Ball]]
      /\ calls \in [Server -> SUBSET (Txn \X BOOLEAN)]
  BY DEF IInv, TypeOK
<1>5. ASSUME NEW n \in msgs', n.type \in {"finish", "finish_reply"} PROVE n \in msgs
  <2>1. n \in msgs \/ n.type = "ask"
    BY <1>2, AskType
  <2> QED
    BY <1>5, <2>1
<1>6. ASSUME NEW s \in Server, NEW t \in Txn PROVE Calling(s, t)' => Calling(s, t)
  <2>1. calls'[s] = calls[s] \/ calls'[s] = calls[s] \cup (ToCall(r, A) \X {FALSE})
    BY <1>2, <1>4
  <2> QED
    BY <2>1, CallsAdded DEF Calling
<1>7. ASSUME NEW s \in Server, NEW t \in Txn PROVE Waiting(s, t)' => Waiting(s, t)
  <2>1. ball'[s][t] = IF s = r /\ t = u THEN b ELSE ball[s][t]
    BY <1>2, <1>4, BallAt
  <2> QED
    BY <1>1, <1>3, <2>1 DEF Waiting
<1>8. \A s \in Server : finishing'[s] \subseteq finishing[s]
  BY <1>1
<1> QED
  BY <1>1, <1>5, <1>6, <1>7, <1>8, NothingMoves

\* What is left of a wait when it is over.
LEMMA DonePhase ==
  ASSUME NEW x \in Ball
  PROVE  [x EXCEPT !.phase = "done"].phase = "done"
BY DEF Ball

\* scc_anc_commit_cb ends the wait and answers the request if there is one.
LEMMA SccAncCommitCbAnswers ==
  ASSUME IInv, AInv, NEW r \in Server, NEW u \in Txn, SccAncCommitCb(r, u)
  PROVE  AInv'
<1> DEFINE b == [ball[r][u] EXCEPT !.phase = "done"]
<1>1. UNCHANGED cvars /\ finishing' = finishing /\ calls' = calls
  BY DEF SccAncCommitCb
<1>2. /\ ball' = [ball EXCEPT ![r] = [@ EXCEPT ![u] = b]]
      /\ msgs' = msgs \cup FinishReplies(r, u)
      /\ ball[r][u].phase = "commit"
  BY DEF SccAncCommitCb, BallReady
<1>3. ball \in [Server -> [Txn -> Ball]]
  BY DEF IInv, TypeOK
<1>4. b.phase = "done"
  <2>1. ball[r][u] \in Ball
    BY <1>3
  <2> QED
    BY <2>1, DonePhase
<1> HIDE DEF b
<1>5. ASSUME NEW n \in FinishReplies(r, u)
      PROVE  n.type = "finish_reply" /\ n.from = r /\ n.txn = u /\ ball[r][u].defer
  <2>1. n = [type |-> "finish_reply", txn |-> u, from |-> r] /\ ball[r][u].defer
    BY DEF FinishReplies
  <2> QED
    BY <2>1
<1>6. ASSUME NEW s \in Server, NEW t \in Txn
      PROVE  /\ UnderWay(s, t)' => UnderWay(s, t)
             /\ Merging(s, t)' => Merging(s, t)
             /\ Calling(s, t)' => Calling(s, t)
             /\ Counted(s, t)' => Counted(s, t)
             /\ Waiting(s, t)' => Waiting(s, t) /\ (s # r \/ t # u)
             /\ ComingBack(s, t)' => ComingBack(s, t) \/ (s = r /\ t = u /\ ball[r][u].defer)
  <2>1. UnderWay(s, t)' => UnderWay(s, t)
    BY <1>2, <1>5 DEF UnderWay
  <2>2. ComingBack(s, t)' => ComingBack(s, t) \/ (s = r /\ t = u /\ ball[r][u].defer)
    BY <1>2, <1>5 DEF ComingBack
  <2>3. (Calling(s, t)' => Calling(s, t)) /\ (Merging(s, t)' => Merging(s, t))
    BY <1>1 DEF Calling, Merging
  <2>4. Counted(s, t)' => Counted(s, t)
    BY <1>1 DEF Counted, cvars
  <2>5. ball'[s][t] = IF s = r /\ t = u THEN b ELSE ball[s][t]
    BY <1>2, <1>3, BallAt
  <2>6. Waiting(s, t)' => Waiting(s, t) /\ (s # r \/ t # u)
    BY <1>4, <2>5 DEF Waiting
  <2> QED
    BY <2>1, <2>2, <2>3, <2>4, <2>6
<1>7. \A s \in Server, t \in Txn : s # r \/ t # u => Stays(s, t)
  BY <1>6 DEF Stays
<1>8. Stays(r, u) \/ (Somewhere(r, u) /\ InOnePlace(r, u)')
  <2>1. CASE ~ball[r][u].defer
    BY <1>6, <2>1 DEF Stays
  <2>2. CASE ball[r][u].defer
    <3>1. Waiting(r, u)
      BY <1>2, <2>2 DEF Waiting
    <3>2. InOnePlace(r, u) /\ Somewhere(r, u)
      BY <3>1 DEF AInv, Somewhere
    <3>3. InOnePlace(r, u)'
      BY <1>6, <3>1, <3>2 DEF InOnePlace
    <3> QED
      BY <3>2, <3>3
  <2> QED
    BY <2>1, <2>2
<1>9. ASSUME NEW n \in msgs', n.type = "finish" PROVE n \in msgs
  BY <1>2, <1>5, <1>9
<1>10. ServerMoves(r, u)
  BY <1>1, <1>7, <1>8, <1>9 DEF ServerMoves
<1> QED
  BY <1>10, ServerMovesInv

\* do_one sends start requests only.
LEMMA DoOneAnswers ==
  ASSUME IInv, AInv, NEW u \in Txn, DoOne(u)
  PROVE  AInv'
<1> DEFINE ready == {p \in PiecesOf(u) : p.after = {}}
<1>1. /\ UNCHANGED <<finished, early, replies, started>>
      /\ UNCHANGED <<finishing, calls, ball>>
  BY DEF DoOne, svars
<1>2. /\ msgs' = msgs \cup {StartMsg(p) : p \in ready}
      /\ phase[u] = "new"
      /\ phase' = [phase EXCEPT ![u] = "start"]
  BY DEF DoOne
<1> HIDE DEF ready
<1>3. ASSUME NEW n \in msgs' PROVE n \in msgs \/ n.type = "start"
  <2>1. n \in msgs \/ \E p \in ready : n = StartMsg(p)
    BY <1>2
  <2> QED
    <3>1. ASSUME NEW p \in ready PROVE StartMsg(p).type = "start"
      BY DEF StartMsg
    <3> QED
      BY <2>1, <3>1
<1>4. ASSUME NEW s \in Server, NEW t \in Txn
      PROVE  InOnePlace(s, t)' /\ (Somewhere(s, t)' => Somewhere(s, t))
  <2>1. UnderWay(s, t)' => UnderWay(s, t)
    BY <1>3 DEF UnderWay
  <2>2. ComingBack(s, t)' => ComingBack(s, t)
    BY <1>3 DEF ComingBack
  <2>3. Stays(s, t)
    BY <1>1, <2>1, <2>2 DEF Stays, Merging, Calling, Waiting, Counted
  <2> QED
    BY <2>3, StaysInOne DEF AInv
<1>5. OneRequest'
  BY <1>3 DEF AInv, OneRequest
<1>6. ASSUME NEW t \in Txn PROVE Answers(t)'
  <2>1. Answers(t)
    BY DEF AInv
  <2>2. CASE t # u
    <3>1. phase'[t] = phase[t]
      BY <1>2, <2>2 DEF IInv, TypeOK
    <3> QED
      BY <1>1, <1>4, <2>1, <3>1, AnswersKept
  <2>3. CASE t = u
    <3>1. phase'[t] = "start" /\ phase[t] = "new"
      BY <1>2, <2>3 DEF IInv, TypeOK
    <3>2. replies'[t] = 0 /\ \A s \in Server : ~Somewhere(s, t)'
      BY <1>1, <1>4, <2>1, <3>1 DEF Answers
    <3> QED
      BY <3>1, <3>2 DEF Answers
  <2> QED
    BY <2>2, <2>3
<1> QED
  BY <1>4, <1>5, <1>6 DEF AInv

\* An answer to a finish request is known by its server and transaction.
LEMMA OneAnswer ==
  ASSUME NEW m \in Message, NEW n \in Message, m.type = "finish_reply", n.type = "finish_reply",
         m.txn = n.txn, m.from = n.from
  PROVE  m = n
<1>1. /\ m \in [type : {"finish_reply"}, txn : Txn, from : Server]
      /\ n \in [type : {"finish_reply"}, txn : Txn, from : Server]
  BY DEF Message
<1>2. /\ m = [type |-> "finish_reply", txn |-> m.txn, from |-> m.from]
      /\ n = [type |-> "finish_reply", txn |-> n.txn, from |-> n.from]
  BY <1>1
<1> QED
  BY <1>2

\* The coordinator counts an answer once, and answers the client with the last.
LEMMA FinishReplyAnswers ==
  ASSUME IInv, AInv, NEW m \in msgs, FinishReply(m)
  PROVE  AInv'
<1> DEFINE u == m.txn
           r == m.from
           all == finished[u] \cup {r} = Sites(u)
<1>1. u \in Txn /\ r \in Server /\ m.type = "finish_reply" /\ m \in Message
  BY MsgFields DEF IInv, TypeOK, FinishReply
<1>2. /\ msgs' = msgs \ {m}
      /\ finished' = [finished EXCEPT ![u] = @ \cup {r}]
      /\ phase' = IF all THEN [phase EXCEPT ![u] = "gone"] ELSE phase
      /\ replies' = IF all /\ ~early[u] THEN [replies EXCEPT ![u] = @ + 1] ELSE replies
  BY DEF FinishReply
<1>3. UNCHANGED <<early, started, finishing, calls, ball>>
  BY DEF FinishReply, svars
<1>4. /\ finished \in [Txn -> SUBSET Server] /\ phase \in [Txn -> {"new", "start", "finish", "gone"}]
      /\ replies \in [Txn -> Nat] /\ msgs \subseteq Message /\ early \in [Txn -> BOOLEAN]
  BY DEF IInv, TypeOK
<1>5. ComingBack(r, u) /\ ~ComingBack(r, u)'
  <2>1. ComingBack(r, u)
    BY <1>1 DEF ComingBack
  <2>2. ASSUME NEW n \in msgs', n.type = "finish_reply", n.from = r, n.txn = u PROVE FALSE
    BY <1>1, <1>2, <1>4, <2>2, OneAnswer
  <2> QED
    BY <2>1, <2>2 DEF ComingBack
<1>6. Answers(u) /\ InOnePlace(r, u) /\ Somewhere(r, u)
  BY <1>1, <1>5 DEF AInv, Somewhere
<1>7. ~Counted(r, u)
  BY <1>5, <1>6 DEF InOnePlace
<1>8. phase[u] = "finish" /\ r \in Sites(u)
  <2>1. r \in Sites(u)
    BY <1>1, <1>6 DEF Answers
  <2>2. phase[u] \notin {"new", "start"}
    BY <1>1, <1>6 DEF Answers
  <2>3. phase[u] # "gone"
    BY <1>6, <1>7, <2>1 DEF Answers, Counted
  <2>4. phase[u] \in {"new", "start", "finish", "gone"}
    BY <1>1, <1>4
  <2> QED
    BY <2>1, <2>2, <2>3, <2>4
<1>9. replies[u] = IF early[u] THEN 1 ELSE 0
  BY <1>6, <1>8 DEF Answers
<1>10. u \in Done
  BY <1>1, <1>8 DEF IInv, PieceFlow
<1> HIDE DEF all
<1>11. /\ phase'[u] = IF all THEN "gone" ELSE "finish"
       /\ finished'[u] = finished[u] \cup {r}
  BY <1>1, <1>2, <1>4, <1>8
<1>12. replies'[u] = IF all \/ early[u] THEN 1 ELSE 0
  <2>1. CASE all /\ ~early[u]
    <3>1. replies'[u] = replies[u] + 1
      BY <1>1, <1>2, <1>4, <2>1
    <3>2. replies[u] = 0
      BY <1>9, <2>1
    <3>3. replies'[u] = 1
      BY <3>1, <3>2, SMT
    <3> QED
      BY <2>1, <3>3
  <2>2. CASE ~(all /\ ~early[u])
    BY <1>2, <1>9, <2>2
  <2> QED
    BY <2>1, <2>2
<1>13. ASSUME NEW t \in Txn, t # u
       PROVE  finished'[t] = finished[t] /\ phase'[t] = phase[t] /\ replies'[t] = replies[t]
  BY <1>1, <1>2, <1>4, <1>13
<1> HIDE DEF r, u
<1>14. ASSUME NEW s \in Server, NEW t \in Txn
       PROVE  /\ UnderWay(s, t)' => UnderWay(s, t)
              /\ Merging(s, t)' => Merging(s, t)
              /\ Calling(s, t)' => Calling(s, t)
              /\ Waiting(s, t)' => Waiting(s, t)
              /\ ComingBack(s, t)' => ComingBack(s, t)
              /\ s # r \/ t # u => (Counted(s, t)' => Counted(s, t))
  <2>1. UnderWay(s, t)' => UnderWay(s, t)
    BY <1>2 DEF UnderWay
  <2>2. ComingBack(s, t)' => ComingBack(s, t)
    BY <1>2 DEF ComingBack
  <2>3. s # r \/ t # u => (Counted(s, t)' => Counted(s, t))
    BY <1>11, <1>13 DEF Counted
  <2> QED
    BY <1>3, <2>1, <2>2, <2>3 DEF Merging, Calling, Waiting
<1>15. ASSUME NEW s \in Server, NEW t \in Txn
       PROVE  InOnePlace(s, t)' /\ (Somewhere(s, t)' => Somewhere(s, t))
  <2>1. CASE s = r /\ t = u
    <3>1. InOnePlace(r, u)'
      BY <1>5, <1>6, <1>14, <2>1 DEF InOnePlace
    <3> QED
      BY <1>6, <2>1, <3>1
  <2>2. CASE s # r \/ t # u
    <3>1. Stays(s, t)
      BY <1>14, <2>2 DEF Stays
    <3> QED
      BY <3>1, StaysInOne DEF AInv
  <2> QED
    BY <2>1, <2>2
<1>16. ASSUME NEW t \in Txn PROVE Answers(t)'
  <2>1. CASE t # u
    BY <1>3, <1>13, <1>15, <2>1, AnswersKept DEF AInv
  <2>2. CASE t = u
    <3>1. \A s \in Server : Somewhere(s, u)' => s \in Sites(u)
      BY <1>6, <1>15, <2>2 DEF Answers
    <3>2. u \in Done'
      BY <1>3, <1>10 DEF Done
    <3>3. phase'[u] = "gone" => all
      BY <1>11
    <3>4. phase'[u] = "finish" => replies'[u] = IF early'[u] THEN 1 ELSE 0
      BY <1>3, <1>11, <1>12
    <3>5. all => finished'[u] = Sites(u)
      BY <1>11 DEF all, r, u
    <3>6. phase'[u] \notin {"new", "start"}
      BY <1>11
    <3>7. phase'[u] = "gone" => replies'[u] = 1
      BY <1>12, <3>3
    <3> QED
      BY <2>2, <3>1, <3>2, <3>3, <3>4, <3>5, <3>6, <3>7 DEF Answers
  <2> QED
    BY <2>1, <2>2
<1>17. OneRequest'
  BY <1>2 DEF AInv, OneRequest
<1> QED
  BY <1>15, <1>16, <1>17 DEF AInv

\* A piece is answered while its transaction is in phase start.
LEMMA StartReplyPhase ==
  ASSUME IInv, AInv, NEW m \in msgs, m.type = "start_reply"
  PROVE  /\ m.piece \in Piece /\ m.piece.txn \in Txn
         /\ phase[m.piece.txn] = "start"
<1> DEFINE p == m.piece
           u == p.txn
<1>1. p \in Piece /\ p \in sent /\ p \notin started
  BY MsgFields DEF IInv, TypeOK, PieceFlow, Carries
<1>2. u \in Txn /\ p \in PiecesOf(u)
  BY <1>1, PieceFields
<1> HIDE DEF p, u
<1>3. u \notin Done
  BY <1>1, <1>2 DEF Done
<1>4. phase[u] # "new" /\ phase[u] # "finish"
  BY <1>1, <1>2, <1>3 DEF IInv, PieceFlow
<1>5. phase[u] # "gone"
  BY <1>2, <1>3 DEF AInv, Answers
<1>6. phase[u] \in {"new", "start", "finish", "gone"}
  BY <1>2 DEF IInv, TypeOK
<1>7. phase[u] = "start"
  BY <1>4, <1>5, <1>6
<1> QED
  BY <1>1, <1>2, <1>7 DEF p, u

\* A transaction runs at servers.
LEMMA SitesServers ==
  ASSUME NEW t
  PROVE  Sites(t) \subseteq Server
BY PieceFields DEF Sites, PiecesOf

\* The finish requests that deptran_finish sends.
FinishMsgs(t, g) == {[type |-> "finish", txn |-> t, to |-> s, gra |-> g] : s \in Sites(t)}

\* They go to the servers of t, one each.
LEMMA FinishMsgsOne ==
  ASSUME NEW t, NEW g, NEW m \in FinishMsgs(t, g)
  PROVE  /\ m.type = "finish" /\ m.txn = t /\ m.to \in Sites(t)
         /\ m = [type |-> "finish", txn |-> t, to |-> m.to, gra |-> g]
<1>1. PICK s \in Sites(t) : m = [type |-> "finish", txn |-> t, to |-> s, gra |-> g]
  BY DEF FinishMsgs
<1> QED
  BY <1>1

\* The answer that starts the last piece sends the requests, the first of t.
LEMMA StartReplyAnswers ==
  ASSUME IInv, AInv, NEW m \in msgs, StartReply(m)
  PROVE  AInv'
<1> DEFINE p == m.piece
           u == p.txn
           answered == started \cup {p}
           ready == Unlocked(p, answered)
           g == UnionGraph(cgra[u], m.gra)
           e == early[u] /\ KeepEarly(p, m.gra)
           done == ready = {} /\ PiecesOf(u) \subseteq answered
<1>1. u \in Txn /\ phase[u] = "start"
  BY StartReplyPhase DEF StartReply
<1>2. /\ early' = [early EXCEPT ![u] = e]
      /\ started' = answered
      /\ msgs' = (msgs \ {m}) \cup {StartMsg(q) : q \in ready}
                   \cup (IF done THEN FinishMsgs(u, g) ELSE {})
      /\ phase' = IF done THEN [phase EXCEPT ![u] = "finish"] ELSE phase
      /\ replies' = IF done /\ e THEN [replies EXCEPT ![u] = @ + 1] ELSE replies
  BY DEF StartReply, FinishMsgs
<1>3. UNCHANGED <<finished, finishing, calls, ball>>
  BY DEF StartReply, svars
<1>4. e \in BOOLEAN /\ started \subseteq answered
  BY DEF KeepEarly
<1> HIDE DEF p, u, answered, ready, g, e, done
<1>5. /\ phase \in [Txn -> {"new", "start", "finish", "gone"}]
      /\ replies \in [Txn -> Nat] /\ early \in [Txn -> BOOLEAN]
  BY DEF IInv, TypeOK
<1>6. Answers(u) /\ replies[u] = 0 /\ \A s \in Server : ~Somewhere(s, u)
  BY <1>1 DEF AInv, Answers
<1>7. /\ phase'[u] = IF done THEN "finish" ELSE "start"
      /\ early'[u] = e
      /\ \A t \in Txn : t # u => phase'[t] = phase[t] /\ early'[t] = early[t] /\ replies'[t] = replies[t]
  BY <1>1, <1>2, <1>5
<1>8. replies'[u] = IF done /\ e THEN 1 ELSE 0
  <2>1. CASE done /\ e
    <3>1. replies'[u] = replies[u] + 1
      BY <1>1, <1>2, <1>5, <2>1
    <3>2. replies[u] = 0
      BY <1>6
    <3>3. replies'[u] = 1
      BY <3>1, <3>2, SMT
    <3> QED
      BY <2>1, <3>3
  <2>2. CASE ~(done /\ e)
    BY <1>2, <1>6, <2>2
  <2> QED
    BY <2>1, <2>2
<1>9. ASSUME NEW n \in msgs' PROVE n \in msgs \/ n.type = "start" \/ (done /\ n \in FinishMsgs(u, g))
  <2>1. n \in msgs \/ (\E q \in ready : n = StartMsg(q)) \/ (done /\ n \in FinishMsgs(u, g))
    BY <1>2
  <2>2. ASSUME NEW q \in ready PROVE StartMsg(q).type = "start"
    BY DEF StartMsg
  <2> QED
    BY <2>1, <2>2
<1>10. ASSUME NEW n \in msgs', n.type = "finish", n.to \in Server
       PROVE  \/ n \in msgs /\ n.txn # u
              \/ done /\ n \in FinishMsgs(u, g)
  <2>1. n \in msgs \/ (done /\ n \in FinishMsgs(u, g))
    BY <1>9, <1>10
  <2>2. CASE n \in msgs
    <3>1. n.txn = u => UnderWay(n.to, u)
      BY <1>10, <2>2 DEF UnderWay
    <3> QED
      BY <1>6, <1>10, <2>2, <3>1 DEF Somewhere
  <2> QED
    BY <2>1, <2>2
<1>11. ASSUME NEW s \in Server, NEW t \in Txn
       PROVE  /\ Merging(s, t)' => Merging(s, t)
              /\ Calling(s, t)' => Calling(s, t)
              /\ Waiting(s, t)' => Waiting(s, t)
              /\ ComingBack(s, t)' => ComingBack(s, t)
              /\ Counted(s, t)' => Counted(s, t)
              /\ t # u => (UnderWay(s, t)' => UnderWay(s, t))
              /\ t = u => (UnderWay(s, t)' => done /\ s \in Sites(u))
  <2>1. ASSUME NEW n \in msgs', n.type = "finish_reply" PROVE n \in msgs
    BY <1>9, <2>1, FinishMsgsOne
  <2>2. ComingBack(s, t)' => ComingBack(s, t)
    BY <2>1 DEF ComingBack
  <2>3. ASSUME NEW n \in msgs', n.type = "finish", n.to = s, n.txn = t
        PROVE  (t # u => n \in msgs) /\ (t = u => done /\ s \in Sites(u))
    BY <1>10, <2>3, FinishMsgsOne
  <2>4. /\ t # u => (UnderWay(s, t)' => UnderWay(s, t))
        /\ t = u => (UnderWay(s, t)' => done /\ s \in Sites(u))
    BY <2>3 DEF UnderWay
  <2> QED
    BY <1>3, <2>2, <2>4 DEF Merging, Calling, Waiting, Counted
<1>12. ASSUME NEW s \in Server, NEW t \in Txn, t # u
       PROVE  InOnePlace(s, t)' /\ (Somewhere(s, t)' => Somewhere(s, t))
  <2>1. Stays(s, t)
    BY <1>11, <1>12 DEF Stays
  <2> QED
    BY <2>1, StaysInOne DEF AInv
<1>13. ASSUME NEW s \in Server
       PROVE  InOnePlace(s, u)' /\ (Somewhere(s, u)' => done /\ s \in Sites(u))
  <2>1. ~(Merging(s, u)' \/ Calling(s, u)' \/ Waiting(s, u)' \/ ComingBack(s, u)' \/ Counted(s, u)')
    BY <1>1, <1>6, <1>11 DEF Somewhere
  <2> QED
    BY <1>1, <1>11, <2>1 DEF InOnePlace, Somewhere
<1>14. ASSUME NEW t \in Txn PROVE Answers(t)'
  <2>1. CASE t # u
    BY <1>2, <1>3, <1>4, <1>7, <1>12, <2>1, AnswersKept DEF AInv
  <2>2. CASE t = u
    <3>1. phase'[u] \in {"new", "start"} => ~done
      BY <1>7
    <3>2. phase'[u] = "finish" => replies'[u] = IF early'[u] THEN 1 ELSE 0
      BY <1>7, <1>8
    <3>3. phase'[u] # "gone"
      BY <1>7
    <3>4. phase'[u] \in {"new", "start"} => replies'[u] = 0
      BY <1>8, <3>1
    <3> QED
      BY <1>13, <2>2, <3>1, <3>2, <3>3, <3>4 DEF Answers
  <2> QED
    BY <2>1, <2>2
<1>15. OneRequest'
  <2>1. ASSUME NEW n \in msgs', n.type = "finish" PROVE n.to \in Server
    <3>1. CASE n \in msgs
      BY <2>1, <3>1, MsgFields DEF IInv, TypeOK
    <3>2. CASE n \in FinishMsgs(u, g)
      BY <3>2, FinishMsgsOne, SitesServers
    <3> QED
      BY <1>9, <2>1, <3>1, <3>2
  <2>2. ASSUME NEW k \in msgs', NEW n \in msgs', k.type = "finish", n.type = "finish",
               k.to = n.to, k.txn = n.txn
        PROVE  k = n
    <3>1. CASE k.txn = u
      <4>1. k \in FinishMsgs(u, g) /\ n \in FinishMsgs(u, g)
        BY <1>10, <2>1, <2>2, <3>1
      <4>2. k = [type |-> "finish", txn |-> u, to |-> k.to, gra |-> g]
        BY <4>1, FinishMsgsOne
      <4>3. n = [type |-> "finish", txn |-> u, to |-> n.to, gra |-> g]
        BY <4>1, FinishMsgsOne
      <4> QED
        BY <2>2, <4>2, <4>3
    <3>2. CASE k.txn # u
      <4>1. k \in msgs /\ n \in msgs
        BY <1>10, <2>1, <2>2, <3>2, FinishMsgsOne
      <4> QED
        BY <2>2, <4>1 DEF AInv, OneRequest
    <3> QED
      BY <3>1, <3>2
  <2> QED
    BY <2>2 DEF OneRequest
<1>16. ASSUME NEW s \in Server, NEW t \in Txn PROVE InOnePlace(s, t)'
  BY <1>12, <1>13
<1> QED
  BY <1>14, <1>15, <1>16 DEF AInv

\* No request is anywhere at first.
LEMMA InitAnswers ==
  ASSUME Init
  PROVE  AInv
<1>1. ASSUME NEW s \in Server, NEW t \in Txn PROVE ~Somewhere(s, t)
  <2>1. ball[s][t] = NoBall
    BY DEF Init
  <2>2. ~Waiting(s, t)
    <3>1. ball[s][t].phase = "none"
      BY <2>1, SMT DEF NoBall
    <3> QED
      BY <3>1 DEF Waiting
  <2>3. ~UnderWay(s, t) /\ ~ComingBack(s, t)
    BY DEF Init, UnderWay, ComingBack
  <2>4. finishing[s] = {} /\ calls[s] = {} /\ finished[t] = {}
    BY DEF Init
  <2> QED
    BY <2>2, <2>3, <2>4 DEF Somewhere, Merging, Calling, Counted
<1>2. ASSUME NEW s \in Server, NEW t \in Txn PROVE InOnePlace(s, t)
  BY <1>1 DEF Somewhere, InOnePlace
<1>3. ASSUME NEW t \in Txn PROVE Answers(t)
  <2>1. phase[t] = "new" /\ replies[t] = 0
    BY DEF Init
  <2> QED
    BY <1>1, <2>1 DEF Answers
<1>4. OneRequest
  BY DEF Init, OneRequest
<1> QED
  BY <1>2, <1>3, <1>4 DEF AInv

\* Every step keeps the finish requests in one place.
LEMMA NextAnswers ==
  ASSUME IInv, AInv, [Next]_vars
  PROVE  AInv'
<1>1. ASSUME UNCHANGED vars PROVE AInv'
  <2>1. UNCHANGED <<msgs, phase, replies, early, finished, started, finishing, calls, ball>>
    BY <1>1 DEF vars, cvars, svars
  <2>2. ASSUME NEW s \in Server, NEW t \in Txn
        PROVE  InOnePlace(s, t)' /\ (Somewhere(s, t)' => Somewhere(s, t))
    <3>1. Stays(s, t)
      BY <2>1 DEF Stays, UnderWay, Merging, Calling, Waiting, ComingBack, Counted
    <3> QED
      BY <3>1, StaysInOne DEF AInv
  <2>3. ASSUME NEW t \in Txn PROVE Answers(t)'
    BY <2>1, <2>2, AnswersKept DEF AInv
  <2>4. OneRequest'
    BY <2>1 DEF AInv, OneRequest
  <2> QED
    BY <2>2, <2>3, <2>4 DEF AInv
<1>2. ASSUME NEW t \in Txn, DoOne(t) PROVE AInv'
  BY <1>2, DoOneAnswers
<1>3. ASSUME NEW m \in msgs,
             \/ StartReply(m) \/ FinishReply(m) \/ StartPie(m)
             \/ FinishUnion(m) \/ AskTxn(m) \/ AskReply(m)
      PROVE  AInv'
  BY <1>3, StartReplyAnswers, FinishReplyAnswers, FinishUnionAnswers, QuietServerAnswers
<1>4. ASSUME NEW s \in Server, Callbacks(s) PROVE AInv'
  BY <1>4, FinishToCommitAnswers, FinishTxnAnswers, AncFinishCbAnswers, SccAncCommitCbAnswers,
     QuietServerAnswers DEF Callbacks
<1> QED
  BY <1>1, <1>2, <1>3, <1>4 DEF Next, Handlers, AllGone

\* The answer to the client follows from where the finish requests are.
LEMMA AnsweredOnceHolds ==
  ASSUME IInv, AInv
  PROVE  AnsweredOnce
<1>1. ASSUME NEW t \in Txn
      PROVE  /\ replies[t] \in {0, 1}
             /\ replies[t] = 1 => t \in Done
             /\ phase[t] = "gone" => replies[t] = 1
  <2>1. Answers(t)
    BY DEF AInv
  <2>2. phase[t] \in {"new", "start", "finish", "gone"}
    BY DEF IInv, TypeOK
  <2>3. phase[t] = "finish" => t \in Done
    BY DEF IInv, PieceFlow
  <2>4. 0 # 1
    BY SMT
  <2>5. replies[t] \in {0, 1}
    BY <2>1, <2>2 DEF Answers
  <2>6. phase[t] \in {"new", "start"} => replies[t] # 1
    BY <2>1, <2>4 DEF Answers
  <2>7. phase[t] = "gone" => replies[t] = 1 /\ t \in Done
    BY <2>1 DEF Answers
  <2> QED
    BY <2>2, <2>3, <2>5, <2>6, <2>7
<1> QED
  BY <1>1 DEF AnsweredOnce

\* The client's callback_ is called at most once, whatever mix of early return,
\* dropped and late answers there is: not before the last piece has started,
\* and before the chopper is deleted.
THEOREM ClientAnsweredOnce == Spec => []AnsweredOnce
<1>1. Init => IInv /\ AInv
  BY InitInv, InitAnswers
<1>2. IInv /\ AInv /\ [Next]_vars => (IInv /\ AInv)'
  BY NextInv, NextAnswers
<1>3. IInv /\ AInv => AnsweredOnce
  BY AnsweredOnceHolds
<1> QED
  BY <1>1, <1>2, <1>3, PTL DEF Spec
=============================================================================
