------------------------------- MODULE Rococo -------------------------------
(***************************************************************************)
(* The Rococo protocol (MODE_RCC): the coordinator's deptran_start and     *)
(* deptran_finish (deptran/coordinator.cc) and the server's rcc_start_pie, *)
(* rcc_finish_txn and rcc_ask_txn with the callbacks they wait in          *)
(* (deptran/rcc_service.cc), over the graph of module DepGraph.            *)
(*                                                                         *)
(* A transaction is chopped into pieces.  A server runs a piece at once or *)
(* keeps it for the finish request; either way the piece touches cells     *)
(* (entry_t) and so gets edges in the server's graph.  When all pieces of  *)
(* a transaction have started, its coordinator sends the union of the      *)
(* graphs to the servers, which wait for the ancestors to finish, then for *)
(* the ancestors of the strongly connected component to commit, and then   *)
(* commit the component in sorted order.                                   *)
(*                                                                         *)
(* Every handler of a server runs under mtx_, and so do the callbacks of   *)
(* the DragonBalls it triggers.  A callback is an action of its own here;  *)
(* no message is handled at the server before all callbacks that are due   *)
(* have run (Idle), so they are part of the handler that made them due.    *)
(* The order of the callbacks that are due at one time, in the code that   *)
(* of addresses and registrations, is left open.                           *)
(***************************************************************************)
EXTENDS DepGraph

CONSTANTS Cell,         \* entry_t: a column of a row, on one server
          Piece,        \* the pieces of all transactions
          EarlyReturn,  \* Config::do_early_return
          NoTxn         \* last_ == NULL

PieceType == [id : Nat, txn : Txn, site : Server, cells : SUBSET Cell,
              kind : Kind, defer : {"NO", "REAL", "FAKE"},
              after : SUBSET Nat, out : BOOLEAN]

ASSUME PieceAssumption ==
  /\ Piece \subseteq PieceType
  /\ \A p, q \in Piece : p.id = q.id => p = q
  /\ \A p, q \in Piece : p.cells \cap q.cells # {} => p.site = q.site
  /\ \A p, q \in Piece : q.id \in p.after => q.txn = p.txn /\ q.defer # "REAL"
ASSUME NoTxnAssumption == NoTxn \notin Txn
ASSUME EarlyAssumption == EarlyReturn \in BOOLEAN

VARIABLES
  msgs,      \* RPC requests and replies in transit; each is delivered once
  phase,     \* of the chopper: "new", "start", "finish", "gone" (deleted)
  cgra,      \* TxnChopper::gra_
  sent,      \* pieces with status_ 1
  started,   \* pieces whose start was answered (n_started_)
  finished,  \* servers that answered the finish request (n_finished_)
  early,     \* early_return_
  replies,   \* calls of callback_
  gra,       \* DepGraph::txn_gra_ of each server
  last,      \* entry_t::last_
  deferred,  \* TxnRegistry::deferred_reqs_
  finishing, \* rcc_finish_txn has merged the graph and not yet set res
  res,       \* transactions with TxnInfo::res set, at each server
  ball,      \* what rcc_finish_to_commit waits for, at each server
  calls,     \* rcc_finish_to_commit calls the running handler still makes
  asking,    \* TxnInfo::during_asking
  asked,     \* rcc_ask_txn requests waiting for FINISH
  acc,       \* the transactions whose pieces accessed a cell
  prec,      \* <<u, v>>: u accessed some cell before v did
  down       \* servers where a verify() failed

cvars == <<phase, cgra, sent, started, finished, early, replies>>
svars == <<gra, last, deferred, finishing, res, ball, calls, asking, asked, acc,
           prec, down>>
vars == <<msgs, cvars, svars>>

PiecesOf(t) == {p \in Piece : p.txn = t}
Sites(t) == {p.site : p \in PiecesOf(t)}
Ids(P) == {p.id : p \in P}

Ball == [phase : {"none", "finish", "commit", "done"},
         wait  : SUBSET Txn,
         defer : BOOLEAN]
NoBall == [phase |-> "none", wait |-> {}, defer |-> FALSE]

Message ==
       [type : {"start"}, piece : Piece]
  \cup [type : {"start_reply"}, piece : Piece, gra : Graph]
  \cup [type : {"finish"}, txn : Txn, to : Server, gra : Graph]
  \cup [type : {"finish_reply"}, txn : Txn, from : Server]
  \cup [type : {"ask"}, txn : Txn, from : Server, to : Server]
  \cup [type : {"ask_reply"}, txn : Txn, to : Server, gra : Graph]

StartMsg(p) == [type |-> "start", piece |-> p]

Init ==
  /\ msgs = {}
  /\ phase = [t \in Txn |-> "new"]
  /\ cgra = [t \in Txn |-> EmptyGraph]
  /\ sent = {}
  /\ started = {}
  /\ finished = [t \in Txn |-> {}]
  /\ early = [t \in Txn |-> EarlyReturn]
  /\ replies = [t \in Txn |-> 0]
  /\ gra = [s \in Server |-> EmptyGraph]
  /\ last = [c \in Cell |-> NoTxn]
  /\ deferred = {}
  /\ finishing = [s \in Server |-> {}]
  /\ res = [s \in Server |-> {}]
  /\ ball = [s \in Server |-> [t \in Txn |-> NoBall]]
  /\ calls = [s \in Server |-> {}]
  /\ asking = [s \in Server |-> {}]
  /\ asked = [s \in Server |-> {}]
  /\ acc = [c \in Cell |-> {}]
  /\ prec = {}
  /\ down = {}

-----------------------------------------------------------------------------
(* Coordinator *)

\* do_one: a new chopper; deptran_start sends every piece that is ready.
DoOne(t) ==
  LET ready == {p \in PiecesOf(t) : p.after = {}}
  IN  /\ phase[t] = "new"
      /\ phase' = [phase EXCEPT ![t] = "start"]
      /\ sent' = sent \cup ready
      /\ msgs' = msgs \cup {StartMsg(p) : p \in ready}
      /\ UNCHANGED <<cgra, started, finished, early, replies, svars>>

\* Only the answer of a piece that was not deferred can make others ready.
Unlocked(p, P) ==
  IF p.defer = "REAL" THEN {}
  ELSE {q \in PiecesOf(p.txn) \ sent : q.after \subseteq Ids(P)}

KeepEarly(p, g) == Cardinality(Vertices(g)) <= 1 /\ ~(p.defer = "REAL" /\ p.out)

\* The callback of async_rcc_start_pie, with the deptran_start or
\* deptran_finish it calls.
StartReply(m) ==
  LET p == m.piece
      t == p.txn
      answered == started \cup {p}
      ready == Unlocked(p, answered)
      g == UnionGraph(cgra[t], m.gra)
      e == early[t] /\ KeepEarly(p, m.gra)
      done == ready = {} /\ PiecesOf(t) \subseteq answered
  IN  /\ m \in msgs /\ m.type = "start_reply"
      /\ cgra' = [cgra EXCEPT ![t] = g]
      /\ early' = [early EXCEPT ![t] = e]
      /\ started' = answered
      /\ sent' = sent \cup ready
      /\ msgs' = (msgs \ {m})
                   \cup {StartMsg(q) : q \in ready}
                   \cup (IF done
                         THEN {[type |-> "finish", txn |-> t, to |-> s, gra |-> g] :
                                 s \in Sites(t)}
                         ELSE {})
      /\ phase' = IF done THEN [phase EXCEPT ![t] = "finish"] ELSE phase
      /\ replies' = IF done /\ e THEN [replies EXCEPT ![t] = @ + 1] ELSE replies
      /\ UNCHANGED <<finished, svars>>

\* The callback of async_rcc_finish_txn.
FinishReply(m) ==
  LET t == m.txn
      all == finished[t] \cup {m.from} = Sites(t)
  IN  /\ m \in msgs /\ m.type = "finish_reply"
      /\ msgs' = msgs \ {m}
      /\ finished' = [finished EXCEPT ![t] = @ \cup {m.from}]
      /\ phase' = IF all THEN [phase EXCEPT ![t] = "gone"] ELSE phase
      /\ replies' = IF all /\ ~early[t] THEN [replies EXCEPT ![t] = @ + 1]
                    ELSE replies
      /\ UNCHANGED <<cgra, sent, started, early, svars>>

-----------------------------------------------------------------------------
(* Server: what is due while mtx_ is held *)

\* Mutant: the wait for the ancestors' FINISH is skipped.
BallReadyAtOnce(s, t, ph) ==
  /\ ball[s][t].phase = ph
  /\ ph = "commit" => \A a \in ball[s][t].wait : AtLeast(gra[s], a, "COMMIT")

\* Mutant: both waits end when the ancestors are FINISH.
BallReadyFinish(s, t, ph) ==
  /\ ball[s][t].phase = ph
  /\ \A a \in ball[s][t].wait : AtLeast(gra[s], a, "FINISH")

BallReady(s, t, ph) ==
  /\ ball[s][t].phase = ph
  /\ \A a \in ball[s][t].wait :
       AtLeast(gra[s], a, IF ph = "finish" THEN "FINISH" ELSE "COMMIT")

AskReady(s, a) == a \in asked[s] /\ AtLeast(gra[s], a[1], "FINISH")

CallbacksDone(s) ==
  /\ s \notin down
  /\ calls[s] = {}
  /\ \A t \in Txn : ~BallReady(s, t, "finish") /\ ~BallReady(s, t, "commit")
  /\ \A a \in asked[s] : ~AskReady(s, a)

Idle(s) == CallbacksDone(s) /\ finishing[s] = {}

Involved(s, t) == s \in gra[s].srv[t]

\* Mutant: the request goes to the first server of all.
FirstServer(g, t) == CHOOSE s \in Server : \A r \in Server : s <= r

\* random_server advances an iterator but returns *servers_.begin().
RandomServer(g, t) == CHOOSE s \in g.srv[t] : \A r \in g.srv[t] : s <= r

\* Mutant: rcc_ask_finish sends no request.
NeverAsk(s, A) == {}

\* rcc_ask_finish for each transaction of A: which are asked for, and for
\* which rcc_finish_to_commit is called.
Unrelated(s, A) == {a \in A : ~Involved(s, a) /\ ~IsCommit(gra[s], a)}
ToAsk(s, A) == {a \in Unrelated(s, A) : ~IsFinish(gra[s], a)} \ asking[s]
ToCall(s, A) == {a \in Unrelated(s, A) : IsFinish(gra[s], a)}

AskMsgs(s, A) ==
  {[type |-> "ask", txn |-> a, from |-> s, to |-> RandomServer(gra[s], a)] :
     a \in ToAsk(s, A)}

-----------------------------------------------------------------------------
(* Server: handlers *)

\* entry_t::touch keeps the first transaction for good: last_ is set when it
\* is NULL and never again.
Touch(p) ==
  last' = [c \in Cell |-> IF c \in p.cells /\ last[c] = NoTxn THEN p.txn
                                                              ELSE last[c]]

NewEdges(p) ==
  {<<last[c], p.txn, p.kind>> : c \in {d \in p.cells : last[d] # NoTxn}}

\* The handler of an immediate piece reads and writes its cells.
RunNow(p) ==
  /\ acc' = [c \in Cell |-> IF c \in p.cells THEN acc[c] \cup {p.txn} ELSE acc[c]]
  /\ prec' = prec \cup {<<u, p.txn>> : u \in UNION {acc[c] : c \in p.cells} \ {p.txn}}

\* rcc_start_pie: start_pie, exe_deptran_start, sub_txn_graph, reply.
StartPie(m) ==
  LET p == m.piece
      s == p.site
      g == [gra[s] EXCEPT !.srv = [@ EXCEPT ![p.txn] = gra[s].srv[p.txn] \cup {s}],
                          !.edge = gra[s].edge \cup NewEdges(p)]
  IN  /\ m \in msgs /\ m.type = "start"
      /\ Idle(s)
      /\ gra' = [gra EXCEPT ![s] = g]
      /\ Touch(p)
      /\ deferred' = IF p.defer = "NO" THEN deferred ELSE deferred \cup {p}
      /\ IF p.defer = "REAL" THEN UNCHANGED <<acc, prec>> ELSE RunNow(p)
      /\ msgs' = (msgs \ {m}) \cup
                   {[type |-> "start_reply", piece |-> p,
                     gra |-> SubTxnGraph(g, p.txn)]}
      /\ UNCHANGED <<cvars, finishing, res, ball, calls, asking, asked, down>>

\* rcc_finish_txn merges the graph, which triggers callbacks.
FinishUnion(m) ==
  LET s == m.to
  IN  /\ m \in msgs /\ m.type = "finish"
      /\ Idle(s)
      /\ gra' = [gra EXCEPT ![s] = UnionGraphAt(s, gra[s], m.gra)]
      /\ finishing' = [finishing EXCEPT ![s] = @ \cup {m.txn}]
      /\ msgs' = msgs \ {m}
      /\ UNCHANGED <<cvars, last, deferred, res, ball, calls, asking, asked, acc, prec, down>>

\* Then it sets res and FINISH.  Its call of rcc_finish_to_commit is left in
\* calls, to be made with the callbacks the new bit triggers.
FinishTxn(s, t) ==
  /\ t \in finishing[s]
  /\ CallbacksDone(s)
  /\ gra' = [gra EXCEPT ![s] = [@ EXCEPT !.st =
                [gra[s].st EXCEPT ![t] = gra[s].st[t] \cup {"FINISH"}]]]
  /\ res' = [res EXCEPT ![s] = @ \cup {t}]
  /\ calls' = [calls EXCEPT ![s] = @ \cup {<<t, TRUE>>}]
  /\ finishing' = [finishing EXCEPT ![s] = @ \ {t}]
  /\ UNCHANGED <<msgs, cvars, last, deferred, ball, asking, asked, acc, prec, down>>

\* rcc_finish_to_commit(t, defer): nothing when during_commit is set.
FinishToCommit(s, t, defer) ==
  LET anc == AncOpt(gra[s], t)
  IN  /\ s \notin down
      /\ <<t, defer>> \in calls[s]
      /\ IF ball[s][t].phase # "none"
         THEN /\ calls' = [calls EXCEPT ![s] = @ \ {<<t, defer>>}]
              /\ UNCHANGED <<ball, asking, msgs>>
         ELSE /\ ball' = [ball EXCEPT ![s] = [@ EXCEPT ![t] =
                            [phase |-> "finish", wait |-> anc, defer |-> defer]]]
              /\ calls' = [calls EXCEPT ![s] =
                            (@ \ {<<t, defer>>}) \cup (ToCall(s, anc) \X {FALSE})]
              /\ asking' = [asking EXCEPT ![s] = @ \cup ToAsk(s, anc)]
              /\ msgs' = msgs \cup AskMsgs(s, anc)
      /\ UNCHANGED <<cvars, gra, last, deferred, finishing, res, asked, acc, prec, down>>

\* anc_finish_cb: the ancestors found when the wait began are FINISH.
AncFinishCb(s, t) ==
  LET anc == SccNearestAnc(gra[s], t)
  IN  /\ s \notin down
      /\ BallReady(s, t, "finish")
      /\ ball' = [ball EXCEPT ![s] = [@ EXCEPT ![t] =
                    [phase |-> "commit", wait |-> anc, defer |-> ball[s][t].defer]]]
      /\ calls' = [calls EXCEPT ![s] = @ \cup (ToCall(s, anc) \X {FALSE})]
      /\ asking' = [asking EXCEPT ![s] = @ \cup ToAsk(s, anc)]
      /\ msgs' = msgs \cup AskMsgs(s, anc)
      /\ UNCHANGED <<cvars, gra, last, deferred, finishing, res, asked, acc, prec, down>>

\* Mutant: only the transaction whose wait ended is run.
AppliedAlone(s, t) == {t} \cap res[s]

\* The members of the component that this commit runs: exe_deptran_finish is
\* called for those with res set, and runs what they have deferred.
Applied(s, t) == {u \in Scc(gra[s], t) : ~IsCommit(gra[s], u) /\ u \in res[s]}
AppliedPieces(s, t) == {p \in deferred : p.site = s /\ p.txn \in Applied(s, t)}

\* The second half of a DF_FAKE piece only releases the row.
AppliesTo(s, t, u) ==
  UNION {p.cells : p \in {q \in AppliedPieces(s, t) : q.txn = u /\ q.defer = "REAL"}}

\* The deferred pieces run in the given order of the component.
ApplyInOrder(s, t, order) ==
  LET Earlier(u, v) == \E i, j \in DOMAIN order :
                          i < j /\ order[i] = u /\ order[j] = v
  IN  /\ acc' = [c \in Cell |-> acc[c] \cup
                   {u \in Applied(s, t) : c \in AppliesTo(s, t, u)}]
      /\ prec' = prec \cup
           {e \in Txn \X Applied(s, t) :
              /\ e[1] # e[2]
              /\ \E c \in AppliesTo(s, t, e[2]) :
                    \/ e[1] \in acc[c]
                    \/ c \in AppliesTo(s, t, e[1]) /\ Earlier(e[1], e[2])}

FinishReplies(s, t) ==
  IF ball[s][t].defer THEN {[type |-> "finish_reply", txn |-> t, from |-> s]} ELSE {}

\* scc_anc_commit_cb: commit the component unless another member did.
SccAncCommitCb(s, t) ==
  /\ s \notin down
  /\ BallReady(s, t, "commit")
  /\ ball' = [ball EXCEPT ![s] = [@ EXCEPT ![t] =
                [ball[s][t] EXCEPT !.phase = "done"]]]
  /\ msgs' = msgs \cup FinishReplies(s, t)
  /\ IF IsCommit(gra[s], t)
     THEN UNCHANGED <<gra, deferred, acc, prec>>
     ELSE \E ptr \in PointerOrders, order \in Orders(Scc(gra[s], t)) :
            /\ order = SortedScc(gra[s], t, ptr)
            /\ ApplyInOrder(s, t, order)
            /\ deferred' = deferred \ AppliedPieces(s, t)
            /\ gra' = [gra EXCEPT ![s] = [@ EXCEPT !.st =
                 [u \in Txn |-> IF u \in Scc(gra[s], t) THEN gra[s].st[u] \cup {"COMMIT"}
                                                        ELSE gra[s].st[u]]]]
  /\ UNCHANGED <<cvars, last, finishing, res, calls, asking, asked, down>>

\* The same callback when a verify() of sorted_scc fails: the process stops.
SccVerifyFails(s, t) ==
  /\ s \notin down
  /\ BallReady(s, t, "commit")
  /\ ~IsCommit(gra[s], t)
  /\ \E ptr \in PointerOrders : SortFails(gra[s], t, ptr)
  /\ down' = down \cup {s}
  /\ UNCHANGED <<msgs, cvars, gra, last, deferred, finishing, res, ball, calls, asking,
                 asked, acc, prec>>

\* rcc_ask_txn waits for FINISH; its callback answers with the sub-graph.
AskTxn(m) ==
  /\ m \in msgs /\ m.type = "ask"
  /\ Idle(m.to)
  /\ asked' = [asked EXCEPT ![m.to] = @ \cup {<<m.txn, m.from>>}]
  /\ msgs' = msgs \ {m}
  /\ UNCHANGED <<cvars, gra, last, deferred, finishing, res, ball, calls, asking, acc,
                 prec, down>>

AskFinishCb(s, a) ==
  /\ s \notin down
  /\ AskReady(s, a)
  /\ asked' = [asked EXCEPT ![s] = @ \ {a}]
  /\ msgs' = msgs \cup {[type |-> "ask_reply", txn |-> a[1], to |-> a[2],
                         gra |-> SubTxnGraph(gra[s], a[1])]}
  /\ UNCHANGED <<cvars, gra, last, deferred, finishing, res, ball, calls, asking, acc,
                 prec, down>>

\* The callback of async_rcc_ask_txn.
AskReply(m) ==
  LET s == m.to
  IN  /\ m \in msgs /\ m.type = "ask_reply"
      /\ Idle(s)
      /\ gra' = [gra EXCEPT ![s] = UnionGraphAt(s, gra[s], m.gra)]
      /\ calls' = [calls EXCEPT ![s] = @ \cup {<<m.txn, FALSE>>}]
      /\ msgs' = msgs \ {m}
      /\ UNCHANGED <<cvars, last, deferred, finishing, res, ball, asking, asked, acc,
                     prec, down>>

-----------------------------------------------------------------------------
Callbacks(s) ==
  \/ \E t \in Txn, d \in BOOLEAN : FinishToCommit(s, t, d)
  \/ \E t \in Txn : \/ FinishTxn(s, t) \/ AncFinishCb(s, t)
                     \/ SccAncCommitCb(s, t) \/ SccVerifyFails(s, t)
  \/ \E a \in asked[s] : AskFinishCb(s, a)

Handlers ==
  \/ \E m \in msgs : \/ StartReply(m) \/ FinishReply(m) \/ StartPie(m)
                     \/ FinishUnion(m) \/ AskTxn(m) \/ AskReply(m)
  \/ \E s \in Server : Callbacks(s)

AllGone == /\ \A t \in Txn : phase[t] = "gone"
           /\ UNCHANGED vars

Next == (\E t \in Txn : DoOne(t)) \/ Handlers \/ AllGone

Spec == Init /\ [][Next]_vars

\* Every message is delivered and every due callback runs: the poll threads
\* and the server's dispatch never stop.
FairSpec == Spec /\ WF_vars(Handlers)

-----------------------------------------------------------------------------
(* Properties *)

\* Every variable has its type; in particular last_ points to a transaction
\* and the graphs name transactions and servers only.
TypeOK ==
  /\ msgs \subseteq Message
  /\ phase \in [Txn -> {"new", "start", "finish", "gone"}]
  /\ cgra \in [Txn -> Graph]
  /\ sent \subseteq Piece
  /\ started \subseteq Piece
  /\ finished \in [Txn -> SUBSET Server]
  /\ early \in [Txn -> BOOLEAN]
  /\ replies \in [Txn -> Nat]
  /\ gra \in [Server -> Graph]
  /\ last \in [Cell -> Txn \cup {NoTxn}]
  /\ deferred \subseteq Piece
  /\ finishing \in [Server -> SUBSET Txn]
  /\ res \in [Server -> SUBSET Txn]
  /\ ball \in [Server -> [Txn -> Ball]]
  /\ calls \in [Server -> SUBSET (Txn \X BOOLEAN)]
  /\ asking \in [Server -> SUBSET Txn]
  /\ asked \in [Server -> SUBSET (Txn \X Server)]
  /\ acc \in [Cell -> SUBSET Txn]
  /\ prec \subseteq Txn \X Txn
  /\ down \subseteq Server

\* rcc_ask_txn verifies that the transaction it is asked about is involved
\* here (rcc_service.cc:686): servers_ of a graph, however many servers and
\* coordinators it came through, names only servers where a piece has started.
AskInvolved == \A m \in msgs : m.type = "ask" => Involved(m.to, m.txn)

\* deptran_finish verifies that the servers the graph names for the own
\* transaction are the ones pieces were sent to (coordinator.cc:752).
FinishKnowsSites ==
  \A t \in Txn : phase[t] = "finish" => cgra[t].srv[t] = Sites(t)

\* No verify about the servers of a transaction fails: neither the one of
\* rcc_ask_txn nor the one of deptran_finish.
VerifiesHold == AskInvolved /\ FinishKnowsSites

\* A server that holds a transaction for FINISH, involved or told by an answer
\* to rcc_ask_txn, knows all its servers, and all its pieces have started: no
\* edge into the transaction can still be made.
FinishedServersComplete ==
  \A s \in Server, t \in Txn :
     IsFinish(gra[s], t) => gra[s].srv[t] = Sites(t) /\ PiecesOf(t) \subseteq started

\* A server that holds t for FINISH has every edge into t that any server has,
\* except from transactions that some server has committed already: this is
\* what the search for ancestors in rcc_finish_to_commit relies on, although
\* sub_txn_graph sends only part of a graph.
EdgesComplete ==
  \A s, r \in Server, p, t \in Txn :
     IsFinish(gra[s], t) /\ IsEdge(gra[r], p, t)
        => IsEdge(gra[s], p, t) \/ \E q \in Server : IsCommit(gra[q], p)

\* scc_anc_commit_cb commits a transaction at a server that runs a piece of it
\* only after the finish request of the transaction came ("after all ancestors
\* become FINISH", rcc_service.cc:563): without it res is not set and the
\* deferred pieces are skipped.
CommitAfterFinish ==
  \A s \in Server, t \in Txn :
     Involved(s, t) /\ IsCommit(gra[s], t) => IsFinish(gra[s], t)

\* When a server has committed a transaction of its own, it has committed all
\* the transactions it knows to come before it.
CommitClosed ==
  \A s \in Server, t \in Txn :
     Involved(s, t) /\ IsCommit(gra[s], t) =>
        \A p \in Parents(gra[s], t) : IsCommit(gra[s], p)

\* The servers run conflicting pieces in an order that some serial execution
\* has: the order of the accesses to the cells is acyclic.
Serializable ==
  ~ \E S \in SUBSET Txn : S # {} /\ \A v \in S : \E u \in S : <<u, v>> \in prec

\* When the coordinator has all answers to the finish requests and deletes the
\* chopper, every deferred piece of the transaction has run.
GoneApplied ==
  \A t \in Txn : phase[t] = "gone" => deferred \cap PiecesOf(t) = {}

\* Every transaction that is started is answered by all its servers: a server
\* that waits for a transaction of its own will "sooner or later" have the
\* finish request (rcc_service.cc:652).  The client's callback_ has then been
\* called once: by the early return or by the last answer to the finish
\* requests, never by both.
Completes == \A t \in Txn : phase[t] = "start" ~> phase[t] = "gone" /\ replies[t] = 1
=============================================================================
