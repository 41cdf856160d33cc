------------------------------ MODULE TwoPLInv ------------------------------
(***************************************************************************)
(* The inductive invariant of module TwoPL: what holds of a site           *)
(* (Txn2PLInv), of the connection of a coordinator to a site, and of the   *)
(* counters of a chopper.                                                  *)
(***************************************************************************)
EXTENDS TwoPL, Txn2PLInv

-----------------------------------------------------------------------------
(* A connection.  What follows is about a transaction with the chopper c,    *)
(* and about its connection to the site s: the transaction at the site is x, *)
(* the requests under way are q, the answers r, and u says whether the       *)
(* connection is up.                                                         *)

SentTo(c, s) == {i \in c.sent : PieceOf(i).site = s}

ErrorReply == [op |-> "error"]
PreparedReply(x) == [op |-> "prepared", res |-> IF x.wound THEN "REJECT" ELSE "SUCCESS"]
FinishedReply == [op |-> "finished"]

\* The start calls q bring pieces of I, each of them once.
Carries(q, I) ==
  /\ \A n \in DOMAIN q : /\ q[n].op = "start" /\ q[n].call # <<>> /\ OneByOne(q[n].call)
                         /\ CallIds(q[n].call) \subseteq I
  /\ \A m, n \in DOMAIN q : m # n => CallIds(q[m].call) \cap CallIds(q[n].call) = {}

\* While pieces are started: the pieces sent are in a request, at the site or in
\* an answer.
ConnStart(c, s, x, q, r, u) ==
  /\ u => /\ Carries(q, SentTo(c, s) \ DOMAIN x.ps)
          /\ DOMAIN x.ps \subseteq SentTo(c, s) /\ CallsKept(x) /\ ~x.prepared
          /\ \A a \in r : Answer(x, a)
  /\ ~u => q = <<>> /\ r \subseteq {ErrorReply}

\* Nothing is under way.
Quiet(q, r) == q = <<>> /\ r = {}

\* A request of kind op, or the error that took its place, is under way.
Asks(q, r, u, op) == u /\ q = <<[op |-> op]>> /\ r = {}
Failed(q, r, u) == ~u /\ q = <<>> /\ r = {ErrorReply}

AllSucceeded(x) == \A i \in DOMAIN x.ps : x.ps[i].res = "SUCCESS"

\* The transaction may commit at the site.
Holds(x) == x.prepared /\ ~x.wound /\ AllSucceeded(x)

ConnPrepare(c, s, x, q, r, u) ==
  /\ x.in /\ Idle(x) /\ DOMAIN x.ps = SentTo(c, s)
  /\ c.commit => AllSucceeded(x)
  /\ \/ Asks(q, r, u, "prepare")
     \/ u /\ q = <<>> /\ x.prepared /\ r = {PreparedReply(x)}
     \/ Failed(q, r, u)
     \/ Quiet(q, r) /\ (c.commit => x.prepared /\ ~x.wound)

ConnFinish(op, x, q, r, u) ==
  /\ Idle(x)
  /\ op = "commit" /\ x.in => Holds(x)
  /\ \/ Asks(q, r, u, op) /\ x.in
     \/ u /\ q = <<>> /\ r = {FinishedReply} /\ x = NoTx
     \/ Failed(q, r, u)
     \/ Quiet(q, r) /\ (u => x = NoTx)

ConnOver(c, x, q, r, u) ==
  /\ Quiet(q, r) /\ Idle(x)
  /\ u => x = NoTx
  /\ c.phase = "SUCCESS" /\ x.in => Holds(x)

\* No piece of the attempt was sent to the site.
ConnUnused(x, q, r, u) == Quiet(q, r) /\ (u => x = NoTx)

Conn(t, c, s, x, q, r, u) ==
  /\ ~u => Idle(x)
  /\ DOMAIN x.ps \subseteq {p.id : p \in {p \in PiecesOf(t) : p.site = s}}
  /\ s \notin c.proxies => ConnUnused(x, q, r, u)
  /\ s \in c.proxies =>
       /\ c.phase \in {"start", "crashed"} => ConnStart(c, s, x, q, r, u)
       /\ c.phase = "prepare" => ConnPrepare(c, s, x, q, r, u)
       /\ c.phase \in {"commit", "abort"} => ConnFinish(c.phase, x, q, r, u)
       /\ c.phase \in {"SUCCESS", "REJECT"} => ConnOver(c, x, q, r, u)

-----------------------------------------------------------------------------
(* A chopper: X, Q, R and U are x, q, r and u for each site.                 *)

Phase == {"new", "start", "prepare", "commit", "abort", "SUCCESS", "REJECT", "crashed"}

Chopper == [phase : Phase, sent : SUBSET Ids(Piece), answered : SUBSET Ids(Piece), started : Nat,
            start_sent : Nat, prepared : Nat, finished : Nat, proxies : SUBSET Site,
            commit : BOOLEAN, out : SUBSET (Cell \X Values), res : {"none", "SUCCESS", "REJECT"},
            n_try : Nat, loop : {"no", "next", "sent"}]

\* The start of piece i was answered and the answer taken.
HandledAt(x, r, i) ==
  /\ i \in DOMAIN x.ps /\ Ended(x, x.ps[i].call)
  /\ \A a \in r : i \notin CallIds(a.call)

Handled(c, X, R, U) ==
  {i \in c.sent : U[PieceOf(i).site] /\ HandledAt(X[PieceOf(i).site], R[PieceOf(i).site], i)}

AtSite(X, i) == X[PieceOf(i).site].ps[i]

QuietSites(c, Q, R) == {s \in c.proxies : Quiet(Q[s], R[s])}

\* While pieces are started, those of H were answered.
CountStart(c, X, H) ==
  /\ c.started = Cardinality(H) /\ c.start_sent = Cardinality(c.sent \ H)
  /\ c.prepared = 0 /\ c.finished = 0
  /\ c.commit => \A i \in H : AtSite(X, i).res = "SUCCESS"
  /\ c.out = UNION {AtSite(X, i).out : i \in H}

\* Afterwards, nothing is under way with the sites of G.
CountEnd(t, c, X, G) ==
  /\ c.started \in 0 .. Cardinality(PiecesOf(t)) /\ c.start_sent \in 0 .. Cardinality(PiecesOf(t))
  /\ c.prepared \in 0 .. Cardinality(c.proxies) /\ c.finished \in 0 .. Cardinality(c.proxies)
  /\ c.phase = "prepare" =>
       /\ c.sent = Ids(PiecesOf(t)) /\ c.finished = 0 /\ c.prepared = Cardinality(G)
       /\ c.out = UNION {AtSite(X, i).out : i \in c.sent}
  /\ c.phase = "commit" => c.res = "SUCCESS" /\ c.finished = Cardinality(G)
  /\ c.phase = "abort" => c.res = "REJECT" /\ c.finished = Cardinality(G)

Counted(t, c, X, Q, R, U) ==
  /\ c.sent \subseteq Ids(PiecesOf(t)) /\ c.proxies = {PieceOf(i).site : i \in c.sent}
  /\ c.phase = "new" => c = [NewChopper(1) EXCEPT !.phase = "new"]
  /\ c.phase \in {"start", "crashed"} => CountStart(c, X, Handled(c, X, R, U))
  /\ c.phase \notin {"new", "start", "crashed"} => CountEnd(t, c, X, QuietSites(c, Q, R))

StartRequest == [op : {"start"}, call : Seq(Nat)]
OtherRequest == [op : {"prepare", "commit", "abort"}]
Requests == Seq(StartRequest \cup OtherRequest)

\* All that holds of a transaction.
TxnInv(t, c, X, Q, R, U) ==
  /\ c \in Chopper /\ Q \in [Site -> Requests] /\ U \in [Site -> BOOLEAN]
  /\ DOMAIN R = Site
  /\ \A s \in Site : Conn(t, c, s, X[s], Q[s], R[s], U[s])
  /\ Counted(t, c, X, Q, R, U)

-----------------------------------------------------------------------------
\* Y is X at every site but s.
ButAt(s, X, Y) == \A q \in Site \ {s} : Y[q] = X[q]

TxAt(t) == [s \in Site |-> site[s].tx[t]]

\* A transaction at a site has pieces there, and one that commits has sent all
\* of its pieces.
Whole(t, c, X) ==
  /\ \A s \in Site : X[s].in => DOMAIN X[s].ps # {}
  /\ c.phase \in {"commit", "SUCCESS"} => c.sent = Ids(PiecesOf(t))

\* What holds of the transaction t.
InvAt(t) == TxnInv(t, co[t], TxAt(t), req[t], rep[t], up[t]) /\ Whole(t, co[t], TxAt(t))

\* The conjunction that every step of coordinators, sites and connections
\* preserves.
IInv ==
  /\ mode \in Modes /\ DOMAIN site = Site
  /\ DOMAIN co = Txn /\ DOMAIN req = Txn /\ DOMAIN rep = Txn /\ DOMAIN up = Txn
  /\ VerifiesHold
  /\ \A s \in Site : SiteInv(site[s], mode.lock)
  /\ \A t \in Txn : InvAt(t)
=============================================================================
