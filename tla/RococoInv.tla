----------------------------- MODULE RococoInv -----------------------------
(***************************************************************************)
(* The inductive invariants of module Rococo.  IInv: what every dependency *)
(* graph says is true, wherever the graph is (at a server, at a            *)
(* coordinator, or in a message), and a piece is in one place.  AInv: a    *)
(* finish request is in one place.                                         *)
(***************************************************************************)
EXTENDS Rococo

\* What the servers and coordinators know, taken together.
Runs == {e \in Server \X Txn : Involved(e[1], e[2])}
Done == {t \in Txn : PiecesOf(t) \subseteq started}
Committed == {t \in Txn : \E s \in Server : IsCommit(gra[s], t)}
OwnEdges == {e \in Txn \X Txn : IsEdge(cgra[e[2]], e[1], e[2])}
KnownEdges ==
  {e \in Txn \X Txn :
     \/ IsEdge(cgra[e[2]], e[1], e[2])
     \/ e[1] \in Committed
     \/ \E m \in msgs : /\ m.type = "start_reply"
                        /\ m.piece.txn = e[2]
                        /\ IsEdge(m.gra, e[1], e[2])}

\* A graph names only servers that run a piece; edges have their end points; a
\* transaction with FINISH has all its servers, all its pieces started and all
\* edges its coordinator has, except from committed ones; COMMIT was set by
\* some server; the coordinator of t knows, or is about to, every edge into t.
FinishSound(g, t, D, CM, Own) ==
  /\ Sites(t) \subseteq g.srv[t]
  /\ t \in D
  /\ \A p \in Txn : <<p, t>> \in Own => IsEdge(g, p, t) \/ p \in CM

Sound(g, R, D, CM, Own, K) ==
  /\ \A t \in Txn, s \in Server : s \in g.srv[t] => <<s, t>> \in R /\ s \in Sites(t)
  /\ \A p, t \in Txn : IsEdge(g, p, t) => p \in Vertices(g) /\ t \in Vertices(g)
  /\ \A t \in Txn : IsFinish(g, t) => FinishSound(g, t, D, CM, Own)
  /\ \A t \in Txn : IsCommit(g, t) => t \in CM
  /\ \A p, t \in Txn : IsEdge(g, p, t) => <<p, t>> \in K

SoundNow(g) == Sound(g, Runs, Done, Committed, OwnEdges, KnownEdges)

ServersSound == \A s \in Server : SoundNow(gra[s])
CoordsSound == \A t \in Txn : SoundNow(cgra[t])

\* An answer to a start request names the server of the piece; a finish
\* request carries all the coordinator knows; rcc_ask_txn goes to a server of
\* the transaction.
MsgOK(m) ==
  /\ m.type \in {"start_reply", "finish", "ask_reply"} => SoundNow(m.gra)
  /\ m.type = "start_reply" => m.piece.site \in m.gra.srv[m.piece.txn]
  /\ m.type = "finish" => FinishSound(m.gra, m.txn, Done, {}, OwnEdges)
  /\ m.type = "ask" => Involved(m.to, m.txn)
MsgsOK == \A m \in msgs : MsgOK(m)

\* A server that has merged the graph of a finish request has all it carried.
FinishingSound ==
  \A s \in Server : \A t \in finishing[s] :
     FinishSound(gra[s], t, Done, {}, OwnEdges)

\* Each piece is unsent, or in one message, or started.
Carries(m) == m.type \in {"start", "start_reply"}
PieceFlow ==
  /\ started \subseteq sent
  /\ \A m \in msgs : Carries(m) => m.piece \in sent \ started
  /\ \A m, n \in msgs : Carries(m) /\ Carries(n) /\ m.piece = n.piece => m = n
  /\ \A t \in Txn : phase[t] = "new" => PiecesOf(t) \cap sent = {}
  /\ \A t \in Txn : phase[t] = "finish" => t \in Done

SitesKnown == \A p \in started : p.site \in cgra[p.txn].srv[p.txn]

AskedInvolved == \A s \in Server : \A a \in asked[s] : Involved(s, a[1])

LastVertex ==
  \A p \in Piece : \A c \in p.cells :
     last[c] # NoTxn => last[c] \in Vertices(gra[p.site])

\* The conjunction that every step of the servers and coordinators preserves:
\* all graphs are sound, and each piece is in one place.
IInv ==
  /\ TypeOK
  /\ PieceFlow
  /\ ServersSound
  /\ CoordsSound
  /\ MsgsOK
  /\ FinishingSound
  /\ SitesKnown
  /\ AskedInvolved
  /\ LastVertex
-----------------------------------------------------------------------------
(* The finish request of t to s is in one place: under way, in rcc_finish_txn  *)
(* after the merge or before its call of rcc_finish_to_commit, in the wait for *)
(* ancestors, on its way back, or counted by the coordinator.                  *)

UnderWay(s, t) == \E m \in msgs : m.type = "finish" /\ m.to = s /\ m.txn = t
Merging(s, t) == t \in finishing[s]
Calling(s, t) == <<t, TRUE>> \in calls[s]
Waiting(s, t) == ball[s][t].defer /\ ball[s][t].phase \in {"finish", "commit"}
ComingBack(s, t) == \E m \in msgs : m.type = "finish_reply" /\ m.from = s /\ m.txn = t
Counted(s, t) == s \in finished[t]

InOnePlace(s, t) ==
  /\ UnderWay(s, t) => ~(Merging(s, t) \/ Calling(s, t) \/ Waiting(s, t) \/ ComingBack(s, t) \/ Counted(s, t))
  /\ Merging(s, t) => ~(Calling(s, t) \/ Waiting(s, t) \/ ComingBack(s, t) \/ Counted(s, t))
  /\ Calling(s, t) => ~(Waiting(s, t) \/ ComingBack(s, t) \/ Counted(s, t))
  /\ Waiting(s, t) => ~(ComingBack(s, t) \/ Counted(s, t))
  /\ ComingBack(s, t) => ~Counted(s, t)

Somewhere(s, t) ==
  \/ UnderWay(s, t) \/ Merging(s, t) \/ Calling(s, t)
  \/ Waiting(s, t) \/ ComingBack(s, t) \/ Counted(s, t)

\* There is such a request only when all pieces have started, to a server of t;
\* callback_ was called when the requests were sent or is called when the last
\* one has come back.
Answers(t) ==
  /\ phase[t] \in {"new", "start"} => replies[t] = 0 /\ \A s \in Server : ~Somewhere(s, t)
  /\ \A s \in Server : Somewhere(s, t) => s \in Sites(t)
  /\ phase[t] = "finish" => replies[t] = IF early[t] THEN 1 ELSE 0
  /\ phase[t] = "gone" => replies[t] = 1 /\ finished[t] = Sites(t) /\ t \in Done

\* At most one finish request of a transaction to a server is in transit.
OneRequest ==
  \A m, n \in msgs : m.type = "finish" /\ n.type = "finish" /\ m.to = n.to /\ m.txn = n.txn => m = n

\* The conjunction that every step preserves, next to IInv.
AInv ==
  /\ OneRequest
  /\ \A t \in Txn : Answers(t) /\ \A s \in Server : InOnePlace(s, t)

\* The client's callback_ is called at most once, by the early return or by the
\* last answer to the finish requests, never before all pieces have started,
\* and it has been called when the chopper is deleted.
AnsweredOnce ==
  \A t \in Txn : /\ replies[t] \in {0, 1}
                 /\ replies[t] = 1 => t \in Done
                 /\ phase[t] = "gone" => replies[t] = 1
=============================================================================
