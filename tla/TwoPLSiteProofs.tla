--------------------------- MODULE TwoPLSiteProofs ---------------------------
(***************************************************************************)
(* The steps of the sites and connections preserve the invariant of module *)
(* TwoPLInv: a site handles a request, a lock is waited for too long, or a *)
(* connection breaks.                                                      *)
(***************************************************************************)
EXTENDS TwoPLInv, Integers, TLAPS

-----------------------------------------------------------------------------
(* Pieces, transactions and answers *)

\* A piece is known by its id, and its fields have their types.
LEMMA PieceIs ==
  ASSUME NEW i \in Ids(Piece)
  PROVE  /\ PieceOf(i) \in Piece /\ PieceOf(i).id = i /\ i \in Nat
         /\ PieceOf(i).txn \in Txn /\ PieceOf(i).reads \subseteq Cell /\ PieceOf(i).writes \subseteq Cell
         /\ PieceOf(i).locks \subseteq Cell \X {"R", "W"}
<1>1. PieceOf(i) \in Piece /\ PieceOf(i).id = i
  BY DEF PieceOf, Ids
<1>2. QED
  BY <1>1, PiecesAssumption

\* The piece with the id of p is p.
LEMMA PieceIsOf ==
  ASSUME NEW p \in Piece
  PROVE  p.id \in Ids(Piece) /\ PieceOf(p.id) = p
<1>1. p.id \in Ids(Piece)
  BY DEF Ids
<1>2. PieceOf(p.id) \in Piece /\ PieceOf(p.id).id = p.id
  BY <1>1, PieceIs
<1>3. QED
  BY <1>1, <1>2, PiecesAssumption

\* The fields of a transaction that is not in txn_map_s.
LEMMA NoneHas ==
  /\ ~NoTx.in /\ ~NoTx.wound /\ ~NoTx.prepared /\ NoTx.updates = {} /\ DOMAIN NoTx.ps = {}
  /\ TxnTyped(NoTx)
<1>1. /\ NoTx.in = FALSE /\ NoTx.wound = FALSE /\ NoTx.prepared = FALSE
      /\ NoTx.updates = {} /\ NoTx.ps = <<>>
  BY DEF NoTx
<1>2. DOMAIN <<>> = {}
  OBVIOUS
<1>3. <<>> \in [{} -> PieceAt]
  OBVIOUS
<1>4. NoTx = [in |-> NoTx.in, wound |-> NoTx.wound, prepared |-> NoTx.prepared,
              updates |-> NoTx.updates, ps |-> NoTx.ps]
  BY DEF NoTx
<1>5. QED
  BY <1>1, <1>2, <1>3, <1>4, Zenon DEF TxnTyped

\* Starts are answered when the last of their pieces has ended.
LEMMA AnswersIs ==
  ASSUME NEW S, NEW N, NEW t, NEW a
  PROVE  a \in Answers(S, N, t) <=>
           \E i \in DOMAIN N.tx[t].ps :
              LET call == N.tx[t].ps[i].call
              IN  Ended(N.tx[t], call) /\ ~Ended(S.tx[t], call) /\ a = AnswerTo(N.tx[t], call)
<1> DEFINE D == {d \in {N.tx[t].ps[i].call : i \in DOMAIN N.tx[t].ps} :
                   Ended(N.tx[t], d) /\ ~Ended(S.tx[t], d)}
<1>1. Answers(S, N, t) = {AnswerTo(N.tx[t], c) : c \in D}
  BY DEF Answers, AnswerTo, Ended
<1>2. QED
  BY <1>1

\* The fields of the answer to a start request.
LEMMA AnswerIs ==
  ASSUME NEW x, NEW call
  PROVE  AnswerTo(x, call).op = "started" /\ AnswerTo(x, call).call = call
BY DEF AnswerTo

-----------------------------------------------------------------------------
(* Calls and their answers *)

\* The pieces of x are kept and those that have ended do not change; the
\* answers w are r and those to the calls that end.
Keeps(x, y) ==
  /\ DOMAIN x.ps \subseteq DOMAIN y.ps
  /\ \A i \in DOMAIN x.ps : /\ y.ps[i].call = x.ps[i].call
                            /\ x.ps[i].lock # "wait" => y.ps[i] = x.ps[i]

Ending(x, y, a) ==
  \E i \in DOMAIN y.ps : /\ Ended(y, y.ps[i].call) /\ ~Ended(x, y.ps[i].call)
                         /\ a = AnswerTo(y, y.ps[i].call)

NewAnswers(x, y, r, w) == \A a : a \in w <=> a \in r \/ Ending(x, y, a)

\* The answer to a call that has ended stays the same.
LEMMA EndedKept ==
  ASSUME NEW x, NEW y, NEW call, Keeps(x, y), Ended(x, call)
  PROVE  /\ Ended(y, call)
         /\ \A n \in DOMAIN call : y.ps[call[n]] = x.ps[call[n]]
         /\ AnswerTo(y, call) = AnswerTo(x, call)
<1>1. \A n \in DOMAIN call : y.ps[call[n]] = x.ps[call[n]] /\ call[n] \in DOMAIN y.ps
      BY DEF Keeps, Ended
<1>2. Ended(y, call)
      BY <1>1 DEF Ended
<1>3. [n \in DOMAIN call |-> y.ps[call[n]].res] = [n \in DOMAIN call |-> x.ps[call[n]].res]
      BY <1>1
<1>4. {y.ps[call[n]].out : n \in DOMAIN call} = {x.ps[call[n]].out : n \in DOMAIN call}
      BY <1>1
<1> QED BY <1>1, <1>2, <1>3, <1>4, Zenon DEF AnswerTo

\* Answers stay true, and the pieces whose answers were taken are the same.
LEMMA AnswersKept ==
  ASSUME NEW x, NEW y, NEW r, NEW w, Keeps(x, y), CallsKept(x), CallsKept(y),
         NewAnswers(x, y, r, w), \A a \in r : Answer(x, a)
  PROVE  /\ \A a \in w : Answer(y, a)
         /\ \A i : HandledAt(y, w, i) <=> HandledAt(x, r, i)
         /\ \A i : HandledAt(x, r, i) => y.ps[i] = x.ps[i]
<1>1. ASSUME NEW a \in r PROVE Answer(y, a)
  <2>1. PICK i \in DOMAIN x.ps : Ended(x, x.ps[i].call) /\ a = AnswerTo(x, x.ps[i].call)
        BY <1>1 DEF Answer
  <2>2. i \in DOMAIN y.ps /\ y.ps[i].call = x.ps[i].call
        BY <2>1 DEF Keeps
  <2>3. Ended(y, y.ps[i].call) /\ a = AnswerTo(y, y.ps[i].call)
        BY <2>1, <2>2, EndedKept
  <2> QED BY <2>2, <2>3 DEF Answer
<1>2. \A a \in w : Answer(y, a)
      BY <1>1 DEF NewAnswers, Ending, Answer
<1>3. ASSUME NEW i, HandledAt(x, r, i) PROVE HandledAt(y, w, i) /\ y.ps[i] = x.ps[i]
  <2>1. i \in DOMAIN x.ps /\ Ended(x, x.ps[i].call) /\ \A a \in r : i \notin CallIds(a.call)
        BY <1>3 DEF HandledAt
  <2>2. i \in DOMAIN y.ps /\ y.ps[i].call = x.ps[i].call
        BY <2>1 DEF Keeps
  <2>3. Ended(y, y.ps[i].call)
        BY <2>1, <2>2, EndedKept
  <2>4. PICK n \in DOMAIN x.ps[i].call : x.ps[i].call[n] = i
        BY <2>1 DEF CallsKept, CallIds
  <2>5. y.ps[i] = x.ps[i]
        BY <2>1, <2>4 DEF Keeps, Ended
  <2>6. ASSUME NEW a \in w, i \in CallIds(a.call) PROVE FALSE
    <3>1. Ending(x, y, a)
          BY <2>1, <2>6 DEF NewAnswers
    <3>2. PICK j \in DOMAIN y.ps : ~Ended(x, y.ps[j].call) /\ a = AnswerTo(y, y.ps[j].call)
          BY <3>1 DEF Ending
    <3>3. a.call = y.ps[j].call
          BY <3>2, AnswerIs
    <3>4. y.ps[i].call = y.ps[j].call
          BY <2>6, <3>3 DEF CallsKept
    <3> QED BY <2>1, <2>2, <3>2, <3>4
  <2> QED BY <2>2, <2>3, <2>5, <2>6 DEF HandledAt
<1>4. ASSUME NEW i, HandledAt(y, w, i) PROVE HandledAt(x, r, i)
  <2>1. i \in DOMAIN y.ps /\ Ended(y, y.ps[i].call) /\ \A a \in w : i \notin CallIds(a.call)
        BY <1>4 DEF HandledAt
  <2>2. i \in CallIds(y.ps[i].call)
        BY <2>1 DEF CallsKept
  <2>3. Ended(x, y.ps[i].call)
    <3> SUFFICES ASSUME ~Ended(x, y.ps[i].call) PROVE FALSE
          OBVIOUS
    <3>1. Ending(x, y, AnswerTo(y, y.ps[i].call))
          BY <2>1 DEF Ending
    <3>2. AnswerTo(y, y.ps[i].call) \in w
          BY <3>1 DEF NewAnswers
    <3> QED BY <3>2, <2>1, <2>2, AnswerIs
  <2>4. i \in DOMAIN x.ps
        BY <2>2, <2>3 DEF CallIds, Ended
  <2>5. x.ps[i].call = y.ps[i].call
        BY <2>4 DEF Keeps
  <2>6. \A a \in r : i \notin CallIds(a.call)
        BY <2>1 DEF NewAnswers
  <2> QED BY <2>3, <2>4, <2>5, <2>6 DEF HandledAt
<1> QED BY <1>2, <1>3, <1>4

-----------------------------------------------------------------------------
(* A transaction at a site that changes because of another one, or because a *)
(* lock it waits for times out                                               *)

\* The answers that come with a step at the site.
Answered1(x, y, r, w, u) == (u => NewAnswers(x, y, r, w)) /\ (~u => w = r)

\* What a transaction keeps while the site works for others.
LEMMA EvolvesKeeps ==
  ASSUME NEW x, NEW y, Evolves(x, y)
  PROVE  /\ Keeps(x, y)
         /\ CallsKept(x) => CallsKept(y)
         /\ Idle(x) => Idle(y) /\ (AllSucceeded(x) => AllSucceeded(y)) /\ (Holds(x) => Holds(y))
         /\ Idle(x) => \A i \in DOMAIN x.ps : y.ps[i] = x.ps[i]
<1>1. Keeps(x, y)
      BY DEF Keeps, Evolves
<1>2. CallsKept(x) => CallsKept(y)
      BY DEF Evolves, CallsKept
<1>3. Idle(x) => \A i \in DOMAIN x.ps : y.ps[i] = x.ps[i]
      BY DEF Evolves, Idle
<1>4. Idle(x) => Idle(y) /\ (AllSucceeded(x) => AllSucceeded(y))
      BY <1>3 DEF Evolves, Idle, AllSucceeded
<1>5. Idle(x) => (Holds(x) => Holds(y))
      BY <1>4 DEF Holds, Evolves
<1> QED BY <1>1, <1>2, <1>3, <1>4, <1>5

\* A transaction in which no piece waits gets no new answer.
LEMMA IdleAnswers ==
  ASSUME NEW x, NEW y, NEW r, NEW w, NEW u \in BOOLEAN, Idle(x), DOMAIN y.ps = DOMAIN x.ps,
         Answered1(x, y, r, w, u)
  PROVE  w = r
<1>1. ASSUME NEW a, Ending(x, y, a) PROVE FALSE
      BY <1>1, Zenon DEF Ending, Ended, Idle
<1>2. u => \A a : a \in w <=> a \in r
      BY <1>1 DEF NewAnswers, Answered1
<1>3. u => w = r
      BY <1>2
<1> QED BY <1>3 DEF Answered1

\* A transaction that is not at the site stays away while others go on.
LEMMA NoTxEvolves ==
  ASSUME NEW y, Evolves(NoTx, y), ~y.in => y = NoTx
  PROVE  y = NoTx
BY NoneHas DEF Evolves

\* The connection of a transaction while the site works for others.
LEMMA ConnEvolves ==
  ASSUME NEW t \in Txn, NEW c, NEW s, NEW x, NEW y, NEW q, NEW r, NEW w, NEW u \in BOOLEAN,
         Evolves(x, y), ~y.in => y = NoTx, Conn(t, c, s, x, q, r, u), Answered1(x, y, r, w, u)
  PROVE  Conn(t, c, s, y, q, w, u)
<1>1. Idle(x) => w = r
      BY IdleAnswers DEF Evolves
<1>2. ~u => Idle(y)
      BY EvolvesKeeps DEF Conn
<1>3. DOMAIN y.ps = DOMAIN x.ps
      BY DEF Evolves
<1>4. x = NoTx => y = NoTx
      BY NoTxEvolves
<1>5. Idle(NoTx)
      BY NoneHas DEF Idle
<1>6. ASSUME s \notin c.proxies PROVE ConnUnused(y, q, w, u)
  <2>1. Quiet(q, r) /\ (u => x = NoTx) /\ (~u => Idle(x))
        BY <1>6 DEF Conn, ConnUnused
  <2>2. w = r
        BY <2>1, <1>1, <1>5
  <2> QED BY <2>1, <2>2, <1>4 DEF ConnUnused
<1>7. ASSUME ConnStart(c, s, x, q, r, u) PROVE ConnStart(c, s, y, q, w, u)
  <2>1. CASE u
    <3>1. /\ Carries(q, SentTo(c, s) \ DOMAIN x.ps)
          /\ DOMAIN x.ps \subseteq SentTo(c, s) /\ CallsKept(x) /\ ~x.prepared
          /\ \A a \in r : Answer(x, a)
          BY <1>7, <2>1 DEF ConnStart
    <3>2. Keeps(x, y) /\ CallsKept(y)
          BY <3>1, EvolvesKeeps
    <3>3. NewAnswers(x, y, r, w)
          BY <2>1 DEF Answered1
    <3>4. \A a \in w : Answer(y, a)
          BY <3>1, <3>2, <3>3, AnswersKept
    <3>5. ~y.prepared
          BY <3>1 DEF Evolves
    <3> QED BY <2>1, <3>1, <3>2, <3>4, <3>5, <1>3 DEF ConnStart
  <2>2. CASE ~u
        BY <1>7, <2>2 DEF ConnStart, Answered1
  <2> QED BY <2>1, <2>2
<1>8. ASSUME ConnPrepare(c, s, x, q, r, u) PROVE ConnPrepare(c, s, y, q, w, u)
  <2>1. x.in /\ Idle(x) /\ DOMAIN x.ps = SentTo(c, s) /\ (c.commit => AllSucceeded(x))
        BY <1>8 DEF ConnPrepare
  <2>2. w = r /\ Idle(y) /\ (c.commit => AllSucceeded(y))
        BY <2>1, <1>1, EvolvesKeeps
  <2>3. /\ y.in /\ DOMAIN y.ps = SentTo(c, s) /\ y.prepared = x.prepared
        /\ x.prepared => y.wound = x.wound /\ PreparedReply(y) = PreparedReply(x)
        BY <2>1 DEF Evolves, PreparedReply
  <2> QED BY <1>8, <2>2, <2>3 DEF ConnPrepare
<1>9. ASSUME NEW op, ConnFinish(op, x, q, r, u) PROVE ConnFinish(op, y, q, w, u)
  <2>1. Idle(x) /\ (op = "commit" /\ x.in => Holds(x))
        BY <1>9 DEF ConnFinish
  <2>2. w = r /\ Idle(y) /\ (op = "commit" /\ x.in => Holds(y)) /\ y.in = x.in
        BY <2>1, <1>1, EvolvesKeeps DEF Evolves
  <2> QED BY <1>9, <2>2, <1>4 DEF ConnFinish
<1>10. ASSUME ConnOver(c, x, q, r, u) PROVE ConnOver(c, y, q, w, u)
  <2>1. Idle(x) /\ Quiet(q, r)
        BY <1>10 DEF ConnOver
  <2>2. w = r /\ Idle(y) /\ (Holds(x) => Holds(y)) /\ y.in = x.in
        BY <2>1, <1>1, EvolvesKeeps DEF Evolves
  <2> QED BY <1>10, <2>2, <1>4 DEF ConnOver
<1> QED BY <1>2, <1>3, <1>6, <1>7, <1>8, <1>9, <1>10 DEF Conn

\* The site of a piece of t.
LEMMA SiteOfPiece ==
  ASSUME NEW t, NEW i \in Ids(PiecesOf(t))
  PROVE  /\ i \in Ids(Piece) /\ i \in Nat /\ PieceOf(i) \in PiecesOf(t) /\ PieceOf(i).txn = t
         /\ PieceOf(i).site \in Site /\ PieceOf(i).id = i
<1>1. i \in Ids(Piece)
      BY DEF Ids, PiecesOf
<1>2. PICK p \in PiecesOf(t) : p.id = i
      BY DEF Ids
<1>3. PieceOf(i) \in Piece /\ PieceOf(i).id = i /\ i \in Nat
      BY <1>1, PieceIs
<1>4. p \in Piece /\ p.txn = t
      BY DEF PiecesOf
<1>5. PieceOf(i) = p
      BY <1>2, <1>3, <1>4, PiecesAssumption
<1> QED BY <1>1, <1>2, <1>3, <1>4, <1>5, SitesAssumption

\* The counters of a chopper stay right when what they count stays the same.
LEMMA CountedKept ==
  ASSUME NEW t, NEW c, NEW X, NEW Q, NEW R, NEW U, NEW Y, NEW P, NEW W, NEW V,
         Counted(t, c, X, Q, R, U),
         c.phase \in {"start", "crashed"} =>
           /\ Handled(c, Y, W, V) = Handled(c, X, R, U)
           /\ \A i \in Handled(c, X, R, U) : AtSite(Y, i) = AtSite(X, i),
         c.phase \notin {"new", "start", "crashed"} => QuietSites(c, P, W) = QuietSites(c, Q, R),
         c.phase = "prepare" => \A i \in c.sent : AtSite(Y, i) = AtSite(X, i)
  PROVE  Counted(t, c, Y, P, W, V)
<1> DEFINE H == Handled(c, X, R, U)
<1>1. ASSUME NEW I, \A i \in I : AtSite(Y, i) = AtSite(X, i)
      PROVE  UNION {AtSite(Y, i).out : i \in I} = UNION {AtSite(X, i).out : i \in I}
      BY <1>1
<1>2. ASSUME c.phase \in {"start", "crashed"} PROVE CountStart(c, Y, Handled(c, Y, W, V))
  <2>1. CountStart(c, X, H) /\ Handled(c, Y, W, V) = H /\ \A i \in H : AtSite(Y, i) = AtSite(X, i)
        BY <1>2 DEF Counted
  <2> HIDE DEF H
  <2>2. UNION {AtSite(Y, i).out : i \in H} = UNION {AtSite(X, i).out : i \in H}
        BY <1>1, <2>1
  <2> QED BY <2>1, <2>2 DEF CountStart
<1>3. ASSUME c.phase \notin {"new", "start", "crashed"} PROVE CountEnd(t, c, Y, QuietSites(c, P, W))
  <2>1. CountEnd(t, c, X, QuietSites(c, Q, R)) /\ QuietSites(c, P, W) = QuietSites(c, Q, R)
        BY <1>3 DEF Counted
  <2>2. c.phase = "prepare" =>
          UNION {AtSite(Y, i).out : i \in c.sent} = UNION {AtSite(X, i).out : i \in c.sent}
        BY <1>1
  <2> QED BY <2>1, <2>2 DEF CountEnd
<1> QED BY <1>2, <1>3 DEF Counted

\* Of the pieces I the same were answered before and after.
SameHandled(I, x, r, y, w) ==
  \A i \in I : /\ HandledAt(y, w, i) <=> HandledAt(x, r, i)
               /\ HandledAt(x, r, i) => y.ps[i] = x.ps[i]

\* The answers a chopper has taken stay the same when one site changes.
LEMMA HandledKept ==
  ASSUME NEW t, NEW c, c.sent \subseteq Ids(PiecesOf(t)), NEW s \in Site,
         NEW X, NEW R, NEW Y, NEW W, NEW U, ButAt(s, X, Y), ButAt(s, R, W),
         U[s] => SameHandled(SentTo(c, s), X[s], R[s], Y[s], W[s])
  PROVE  /\ Handled(c, Y, W, U) = Handled(c, X, R, U)
         /\ \A i \in Handled(c, X, R, U) : AtSite(Y, i) = AtSite(X, i)
<1>1. ASSUME NEW i \in c.sent
      PROVE  /\ i \in Handled(c, Y, W, U) <=> i \in Handled(c, X, R, U)
             /\ i \in Handled(c, X, R, U) => AtSite(Y, i) = AtSite(X, i)
  <2>1. PieceOf(i).site \in Site
        BY SiteOfPiece
  <2>2. CASE PieceOf(i).site = s
    <3>1. i \in SentTo(c, s)
          BY <2>2 DEF SentTo
    <3>2. U[s] => /\ HandledAt(Y[s], W[s], i) <=> HandledAt(X[s], R[s], i)
                  /\ HandledAt(X[s], R[s], i) => Y[s].ps[i] = X[s].ps[i]
          BY <3>1 DEF SameHandled
    <3>3. i \in Handled(c, Y, W, U) <=> U[s] /\ HandledAt(Y[s], W[s], i)
          BY <2>2 DEF Handled
    <3>4. i \in Handled(c, X, R, U) <=> U[s] /\ HandledAt(X[s], R[s], i)
          BY <2>2 DEF Handled
    <3>5. AtSite(Y, i) = Y[s].ps[i] /\ AtSite(X, i) = X[s].ps[i]
          BY <2>2 DEF AtSite
    <3> QED BY <3>2, <3>3, <3>4, <3>5
  <2>3. CASE PieceOf(i).site # s
    <3>1. Y[PieceOf(i).site] = X[PieceOf(i).site] /\ W[PieceOf(i).site] = R[PieceOf(i).site]
          BY <2>1, <2>3 DEF ButAt
    <3> QED BY <3>1 DEF Handled, AtSite
  <2> QED BY <2>2, <2>3
<1>2. Handled(c, Y, W, U) \subseteq c.sent /\ Handled(c, X, R, U) \subseteq c.sent
      BY DEF Handled
<1> QED BY <1>1, <1>2

\* All that holds of a transaction stays so while a site works for others.
LEMMA TxnEvolves ==
  ASSUME NEW t \in Txn, NEW c, NEW X, NEW Q, NEW R, NEW U, NEW Y, NEW W, NEW s \in Site,
         TxnInv(t, c, X, Q, R, U), ButAt(s, X, Y), ButAt(s, R, W), DOMAIN W = Site,
         Evolves(X[s], Y[s]), ~Y[s].in => Y[s] = NoTx, Answered1(X[s], Y[s], R[s], W[s], U[s])
  PROVE  TxnInv(t, c, Y, Q, W, U)
<1>1. /\ c \in Chopper /\ Q \in [Site -> Requests] /\ U \in [Site -> BOOLEAN] /\ DOMAIN R = Site
      /\ Counted(t, c, X, Q, R, U)
      /\ \A q \in Site : Conn(t, c, q, X[q], Q[q], R[q], U[q])
      BY DEF TxnInv
<1>2. U[s] \in BOOLEAN /\ Conn(t, c, s, X[s], Q[s], R[s], U[s])
      BY <1>1
<1>3. \A q \in Site : Conn(t, c, q, Y[q], Q[q], W[q], U[q])
  <2> TAKE q \in Site
  <2>1. CASE q = s
        BY <2>1, <1>2, ConnEvolves
  <2>2. CASE q # s
        BY <2>2, <1>1 DEF ButAt
  <2> QED BY <2>1, <2>2
<1>4. c.sent \subseteq Ids(PiecesOf(t)) /\ c.proxies = {PieceOf(i).site : i \in c.sent}
      BY <1>1 DEF Counted
<1>5. ASSUME c.phase \in {"start", "crashed"}
      PROVE  /\ Handled(c, Y, W, U) = Handled(c, X, R, U)
             /\ \A i \in Handled(c, X, R, U) : AtSite(Y, i) = AtSite(X, i)
  <2>1. ASSUME U[s], NEW i \in SentTo(c, s)
        PROVE  /\ HandledAt(Y[s], W[s], i) <=> HandledAt(X[s], R[s], i)
               /\ HandledAt(X[s], R[s], i) => Y[s].ps[i] = X[s].ps[i]
    <3>1. s \in c.proxies
          BY <1>4, ZenonT(40) DEF SentTo
    <3>2. ConnStart(c, s, X[s], Q[s], R[s], U[s])
          BY <3>1, <1>2, <1>5 DEF Conn
    <3>3. CallsKept(X[s]) /\ \A a \in R[s] : Answer(X[s], a)
          BY <3>2, <2>1 DEF ConnStart
    <3>4. Keeps(X[s], Y[s]) /\ CallsKept(Y[s])
          BY <3>3, EvolvesKeeps
    <3>5. NewAnswers(X[s], Y[s], R[s], W[s])
          BY <2>1 DEF Answered1
    <3> QED BY <3>3, <3>4, <3>5, AnswersKept
  <2>2. U[s] => SameHandled(SentTo(c, s), X[s], R[s], Y[s], W[s])
        BY <2>1, ZenonT(40) DEF SameHandled
  <2> QED BY <2>2, <1>4, HandledKept
<1>6. ASSUME c.phase \notin {"new", "start", "crashed"}, s \in c.proxies PROVE Idle(X[s])
  <2>1. c.phase \in Phase
        BY <1>1, ZenonT(40) DEF Chopper
  <2>2. c.phase = "prepare" => ConnPrepare(c, s, X[s], Q[s], R[s], U[s])
        BY <1>6, <1>2, ZenonT(40) DEF Conn
  <2>3. c.phase \in {"commit", "abort"} => ConnFinish(c.phase, X[s], Q[s], R[s], U[s])
        BY <1>6, <1>2, ZenonT(40) DEF Conn
  <2>4. c.phase \in {"SUCCESS", "REJECT"} => ConnOver(c, X[s], Q[s], R[s], U[s])
        BY <1>6, <1>2 DEF Conn
  <2>5. c.phase \in {"prepare", "commit", "abort", "SUCCESS", "REJECT"}
        BY <2>1, <1>6 DEF Phase
  <2> QED BY <2>2, <2>3, <2>4, <2>5 DEF ConnPrepare, ConnFinish, ConnOver
<1>7. ASSUME c.phase \notin {"new", "start", "crashed"} PROVE QuietSites(c, Q, W) = QuietSites(c, Q, R)
  <2>1. ASSUME NEW q \in c.proxies PROVE W[q] = R[q]
    <3>1. q \in Site
          BY <1>1, ZenonT(40) DEF Chopper
    <3>2. CASE q = s
          BY <3>2, <1>6, <1>7, <1>2, IdleAnswers, ZenonT(40) DEF Evolves
    <3> QED BY <3>1, <3>2 DEF ButAt
  <2> QED BY <2>1 DEF QuietSites
<1>8. ASSUME c.phase = "prepare", NEW i \in c.sent PROVE AtSite(Y, i) = AtSite(X, i)
  <2>1. PieceOf(i).site \in Site /\ PieceOf(i).site \in c.proxies
        BY <1>4, SiteOfPiece, ZenonT(40)
  <2>2. CASE PieceOf(i).site = s
    <3>1. ConnPrepare(c, s, X[s], Q[s], R[s], U[s])
          BY <1>8, <2>1, <2>2, <1>2, ZenonT(40) DEF Conn
    <3>2. Idle(X[s]) /\ i \in DOMAIN X[s].ps
          BY <3>1, <2>2 DEF ConnPrepare, SentTo
    <3> QED BY <3>2, <2>2, EvolvesKeeps, ZenonT(40) DEF AtSite
  <2>3. CASE PieceOf(i).site # s
        BY <2>1, <2>3, ZenonT(40) DEF ButAt, AtSite
  <2> QED BY <2>2, <2>3
<1>9. Counted(t, c, Y, Q, W, U)
      BY <1>1, <1>5, <1>7, <1>8, CountedKept
<1> QED BY <1>1, <1>3, <1>9 DEF TxnInv

-----------------------------------------------------------------------------
(* A site handles a request of the transaction                               *)

\* A connection with one request.
LEMMA OnlyOp ==
  ASSUME NEW q, NEW v, q = <<[op |-> v]>>
  PROVE  q[1].op = v /\ Tail(q) = <<>> /\ Head(q) = q[1]
<1>1. ASSUME NEW a PROVE <<a>>[1] = a /\ Tail(<<a>>) = <<>> /\ Head(<<a>>) = <<a>>[1]
      OBVIOUS
<1> QED BY <1>1

\* What a request under way tells: it is a start, a prepare_txn, or a
\* commit_txn or abort_txn.
StartRun(c, s, x, q, r, u) ==
  c.phase \in {"start", "crashed"} /\ ConnStart(c, s, x, q, r, u) /\ q[1].op = "start"

PrepareRun(c, s, x, q, r, u) ==
  /\ c.phase = "prepare" /\ ConnPrepare(c, s, x, q, r, u) /\ Asks(q, r, u, "prepare")
  /\ q[1].op = "prepare"

FinishRun(c, x, q, r, u) ==
  /\ c.phase \in {"commit", "abort"} /\ ConnFinish(c.phase, x, q, r, u) /\ Asks(q, r, u, c.phase)
  /\ x.in /\ q[1].op = c.phase

\* What holds when a request is under way, in each phase of the chopper.
LEMMA UnderWay ==
  ASSUME NEW t \in Txn, NEW c, NEW X, NEW Q, NEW R, NEW U, NEW s \in Site,
         TxnInv(t, c, X, Q, R, U), Q[s] # <<>>
  PROVE  /\ s \in c.proxies /\ U[s]
         /\ \/ StartRun(c, s, X[s], Q[s], R[s], U[s])
            \/ PrepareRun(c, s, X[s], Q[s], R[s], U[s])
            \/ FinishRun(c, X[s], Q[s], R[s], U[s])
<1> DEFINE x == X[s]
           q == Q[s]
           r == R[s]
           u == U[s]
<1>1. /\ c.phase \in Phase /\ q \in Requests /\ u \in BOOLEAN /\ Conn(t, c, s, x, q, r, u)
      /\ c.proxies = {PieceOf(i).site : i \in c.sent}
      /\ c.phase = "new" => c = [NewChopper(1) EXCEPT !.phase = "new"]
      BY DEF TxnInv, Chopper, Counted
<1> HIDE DEF x, q, r, u
<1>2. q # <<>>
      BY DEF q
<1>3. s \in c.proxies
      BY <1>1, <1>2 DEF Conn, ConnUnused, Quiet
<1>4. c.phase # "new"
  <2>1. c.phase = "new" => c.sent = {}
        BY <1>1 DEF NewChopper
  <2> QED BY <2>1, <1>1, <1>3
<1>5. CASE c.phase \in {"start", "crashed"}
  <2>1. ConnStart(c, s, x, q, r, u)
        BY <1>1, <1>3, <1>5 DEF Conn
  <2>2. u /\ Carries(q, SentTo(c, s) \ DOMAIN x.ps)
        BY <1>1, <1>2, <2>1 DEF ConnStart
  <2>3. 1 \in DOMAIN q
        BY <1>1, <1>2 DEF Requests
  <2>4. q[1].op = "start"
        BY <2>2, <2>3 DEF Carries
  <2>5. StartRun(c, s, x, q, r, u)
        BY <1>5, <2>1, <2>4 DEF StartRun
  <2> QED BY <1>3, <2>2, <2>5, Zenon DEF x, q, r, u
<1>6. CASE c.phase = "prepare"
  <2>1. ConnPrepare(c, s, x, q, r, u)
        BY <1>1, <1>3, <1>6 DEF Conn
  <2>2. Asks(q, r, u, "prepare")
        BY <1>2, <2>1 DEF ConnPrepare, Failed, Quiet
  <2>3. u /\ q = <<[op |-> "prepare"]>> /\ r = {}
        BY <2>2 DEF Asks
  <2>4. q[1].op = "prepare"
        BY <2>3, OnlyOp
  <2>5. PrepareRun(c, s, x, q, r, u)
        BY <1>6, <2>1, <2>2, <2>4 DEF PrepareRun
  <2> QED BY <1>3, <2>3, <2>5, Zenon DEF x, q, r, u
<1>7. CASE c.phase \in {"commit", "abort"}
  <2>1. ConnFinish(c.phase, x, q, r, u)
        BY <1>1, <1>3, <1>7 DEF Conn
  <2>2. Asks(q, r, u, c.phase) /\ x.in
        BY <1>2, <2>1 DEF ConnFinish, Failed, Quiet
  <2>3. u /\ q = <<[op |-> c.phase]>> /\ r = {}
        BY <2>2 DEF Asks
  <2>4. q[1].op = c.phase
        BY <2>3, OnlyOp
  <2>5. FinishRun(c, x, q, r, u)
        BY <1>7, <2>1, <2>2, <2>4 DEF FinishRun
  <2> QED BY <1>3, <2>3, <2>5, Zenon DEF x, q, r, u
<1>8. CASE c.phase \in {"SUCCESS", "REJECT"}
      BY <1>1, <1>2, <1>3, <1>8, ZenonT(40) DEF Conn, ConnOver, Quiet
<1> QED BY <1>1, <1>4, <1>5, <1>6, <1>7, <1>8 DEF Phase

\* What holds when a start request is under way.
LEMMA StartUnderWay ==
  ASSUME NEW t \in Txn, NEW c, NEW X, NEW Q, NEW R, NEW U, NEW s \in Site,
         TxnInv(t, c, X, Q, R, U), Q[s] # <<>>, Q[s][1].op = "start"
  PROVE  StartRun(c, s, X[s], Q[s], R[s], U[s])
<1>1. ~PrepareRun(c, s, X[s], Q[s], R[s], U[s])
      BY DEF PrepareRun
<1>2. ~FinishRun(c, X[s], Q[s], R[s], U[s])
      BY DEF FinishRun
<1> QED BY <1>1, <1>2, UnderWay

\* What holds when prepare_txn is under way.
LEMMA PrepareUnderWay ==
  ASSUME NEW t \in Txn, NEW c, NEW X, NEW Q, NEW R, NEW U, NEW s \in Site,
         TxnInv(t, c, X, Q, R, U), Q[s] # <<>>, Q[s][1].op = "prepare"
  PROVE  PrepareRun(c, s, X[s], Q[s], R[s], U[s])
<1>1. ~StartRun(c, s, X[s], Q[s], R[s], U[s])
      BY DEF StartRun
<1>2. ~FinishRun(c, X[s], Q[s], R[s], U[s])
      BY DEF FinishRun
<1> QED BY <1>1, <1>2, UnderWay

\* What holds when commit_txn or abort_txn is under way.
LEMMA FinishUnderWay ==
  ASSUME NEW t \in Txn, NEW c, NEW X, NEW Q, NEW R, NEW U, NEW s \in Site,
         TxnInv(t, c, X, Q, R, U), Q[s] # <<>>, Q[s][1].op \in {"commit", "abort"}
  PROVE  FinishRun(c, X[s], Q[s], R[s], U[s])
<1>1. ~StartRun(c, s, X[s], Q[s], R[s], U[s])
      BY DEF StartRun
<1>2. ~PrepareRun(c, s, X[s], Q[s], R[s], U[s])
      BY DEF PrepareRun
<1> QED BY <1>1, <1>2, UnderWay

\* The queue of start calls without the first.
LEMMA CarriesTail ==
  ASSUME NEW q \in Requests, NEW I, q # <<>>, Carries(q, I)
  PROVE  /\ Head(q) = q[1] /\ Tail(q) \in Requests
         /\ Carries(Tail(q), I \ CallIds(q[1].call))
         /\ q[1].op = "start" /\ q[1].call # <<>> /\ q[1].call \in Seq(Nat) /\ OneByOne(q[1].call)
         /\ CallIds(q[1].call) \subseteq I
<1> DEFINE p == Tail(q)
<1>1. 1 \in DOMAIN q /\ Head(q) = q[1] /\ p \in Requests
      BY DEF Requests
<1>2. \A n \in DOMAIN p : p[n] = q[n + 1] /\ n + 1 \in DOMAIN q /\ n + 1 # 1
      BY DEF Requests
<1>3. \A m, n \in DOMAIN p : m # n => m + 1 # n + 1
      BY DEF Requests
<1> HIDE DEF p
<1>4. q[1].op = "start" /\ q[1].call # <<>> /\ OneByOne(q[1].call) /\ CallIds(q[1].call) \subseteq I
      BY <1>1 DEF Carries
<1>5. q[1] \in StartRequest \cup OtherRequest
      BY <1>1 DEF Requests
<1>6. q[1].call \in Seq(Nat)
      BY <1>4, <1>5 DEF StartRequest, OtherRequest
<1>7. ASSUME NEW n \in DOMAIN p
      PROVE  /\ p[n].op = "start" /\ p[n].call # <<>> /\ OneByOne(p[n].call)
             /\ CallIds(p[n].call) \subseteq I \ CallIds(q[1].call)
      BY <1>1, <1>2 DEF Carries
<1>8. ASSUME NEW m \in DOMAIN p, NEW n \in DOMAIN p, m # n
      PROVE  CallIds(p[m].call) \cap CallIds(p[n].call) = {}
  <2>1. p[m] = q[m + 1] /\ p[n] = q[n + 1] /\ m + 1 \in DOMAIN q /\ n + 1 \in DOMAIN q /\ m + 1 # n + 1
        BY <1>2, <1>3, <1>8
  <2> QED BY <2>1 DEF Carries
<1>9. Carries(p, I \ CallIds(q[1].call))
      BY <1>7, <1>8, ZenonT(40) DEF Carries
<1> QED BY <1>1, <1>4, <1>6, <1>9 DEF p

\* Pieces that arrive leave the earlier calls as they are.
LEMMA GrowsKeeps ==
  ASSUME NEW x, NEW y, NEW call, Grows(x, y, CallIds(call), call), OneByOne(call),
         CallIds(call) \cap DOMAIN x.ps = {}, CallsKept(x)
  PROVE  Keeps(x, y) /\ CallsKept(y)
<1>1. Keeps(x, y)
      BY DEF Keeps, Grows
<1>2. ASSUME NEW i \in DOMAIN x.ps
      PROVE  LET d == y.ps[i].call
             IN  i \in CallIds(d) /\ OneByOne(d) /\ \A j \in CallIds(d) : j \in DOMAIN y.ps /\ y.ps[j].call = d
      BY DEF Grows, CallsKept
<1>3. ASSUME NEW i \in CallIds(call)
      PROVE  LET d == y.ps[i].call
             IN  i \in CallIds(d) /\ OneByOne(d) /\ \A j \in CallIds(d) : j \in DOMAIN y.ps /\ y.ps[j].call = d
      BY DEF Grows
<1>4. DOMAIN y.ps = DOMAIN x.ps \cup CallIds(call)
      BY DEF Grows
<1> QED BY <1>1, <1>2, <1>3, <1>4 DEF CallsKept

\* start_pie, seen from its transaction.
LEMMA TxnStarted ==
  ASSUME NEW t \in Txn, NEW c, NEW X, NEW Q, NEW R, NEW U, NEW Y, NEW P, NEW W, NEW s \in Site,
         TxnInv(t, c, X, Q, R, U), Q[s] # <<>>, Q[s][1].op = "start",
         ButAt(s, X, Y), ButAt(s, R, W), ButAt(s, Q, P), DOMAIN W = Site, DOMAIN P = Site,
         P = [q \in Site |-> P[q]], P[s] = Tail(Q[s]),
         Grows(X[s], Y[s], CallIds(Q[s][1].call), Q[s][1].call),
         Answered1(X[s], Y[s], R[s], W[s], U[s])
  PROVE  TxnInv(t, c, Y, P, W, U)
<1> DEFINE x == X[s]
           y == Y[s]
           q == Q[s]
           r == R[s]
           w == W[s]
           call == Q[s][1].call
<1>1. /\ c \in Chopper /\ Q \in [Site -> Requests] /\ U \in [Site -> BOOLEAN] /\ DOMAIN R = Site
      /\ Counted(t, c, X, Q, R, U)
      /\ \A k \in Site : Conn(t, c, k, X[k], Q[k], R[k], U[k])
      BY DEF TxnInv
<1>2. s \in c.proxies /\ U[s] /\ c.phase \in {"start", "crashed"} /\ ConnStart(c, s, x, q, r, U[s])
  <2>1. s \in c.proxies /\ U[s]
        BY UnderWay
  <2>2. StartRun(c, s, X[s], Q[s], R[s], U[s])
        BY StartUnderWay
  <2> QED BY <2>1, <2>2, Zenon DEF StartRun
<1>3. q \in Requests /\ q # <<>>
      BY <1>1
<1>4. /\ Carries(q, SentTo(c, s) \ DOMAIN x.ps) /\ DOMAIN x.ps \subseteq SentTo(c, s) /\ CallsKept(x)
      /\ ~x.prepared /\ \A a \in r : Answer(x, a)
      BY <1>2 DEF ConnStart
<1>5. /\ Tail(q) \in Requests /\ Carries(Tail(q), (SentTo(c, s) \ DOMAIN x.ps) \ CallIds(call))
      /\ OneByOne(call) /\ CallIds(call) \subseteq SentTo(c, s) \ DOMAIN x.ps
      BY <1>3, <1>4, CarriesTail, Zenon
<1> HIDE DEF x, y, q, r, w, call
<1>6. Grows(x, y, CallIds(call), call) /\ NewAnswers(x, y, r, w)
      BY <1>2 DEF Answered1, x, y, r, w, call
<1>7. Keeps(x, y) /\ CallsKept(y)
      BY <1>4, <1>5, <1>6, GrowsKeeps
<1>8. \A a \in w : Answer(y, a)
      BY <1>4, <1>6, <1>7, AnswersKept
<1>9. \A i : /\ HandledAt(y, w, i) <=> HandledAt(x, r, i)
             /\ HandledAt(x, r, i) => y.ps[i] = x.ps[i]
      BY <1>4, <1>6, <1>7, AnswersKept
<1>10. DOMAIN y.ps = DOMAIN x.ps \cup CallIds(call) /\ ~y.prepared
      BY <1>4, <1>6 DEF Grows
<1>11. (SentTo(c, s) \ DOMAIN x.ps) \ CallIds(call) = SentTo(c, s) \ DOMAIN y.ps
      BY <1>10
<1>12. DOMAIN y.ps \subseteq SentTo(c, s)
      BY <1>4, <1>5, <1>10
<1>13. ConnStart(c, s, y, Tail(q), w, U[s])
      BY <1>2, <1>5, <1>7, <1>8, <1>10, <1>11, <1>12, Zenon DEF ConnStart
<1>14. c.sent \subseteq Ids(PiecesOf(t))
      BY <1>1 DEF Counted
<1>15. DOMAIN y.ps \subseteq {p.id : p \in {p \in PiecesOf(t) : p.site = s}}
  <2> SUFFICES ASSUME NEW i \in SentTo(c, s) PROVE i \in {p.id : p \in {p \in PiecesOf(t) : p.site = s}}
        BY <1>12
  <2>1. PieceOf(i) \in PiecesOf(t) /\ PieceOf(i).id = i /\ PieceOf(i).site = s
        BY <1>14, SiteOfPiece DEF SentTo
  <2> QED BY <2>1
<1>16. Conn(t, c, s, y, Tail(q), w, U[s])
      BY <1>2, <1>13, <1>15, Zenon DEF Conn
<1>17. \A k \in Site : Conn(t, c, k, Y[k], P[k], W[k], U[k])
  <2> TAKE k \in Site
  <2>1. CASE k = s
        BY <2>1, <1>16, Zenon DEF y, w, q
  <2>2. CASE k # s
        BY <2>2, <1>1 DEF ButAt
  <2> QED BY <2>1, <2>2
<1>18. SameHandled(SentTo(c, s), x, r, y, w)
      BY <1>9 DEF SameHandled
<1>19. /\ Handled(c, Y, W, U) = Handled(c, X, R, U)
       /\ \A i \in Handled(c, X, R, U) : AtSite(Y, i) = AtSite(X, i)
      BY <1>14, <1>18, HandledKept DEF x, y, r, w
<1>20. Counted(t, c, Y, P, W, U)
      BY <1>1, <1>2, <1>19, CountedKept
<1>21. P \in [Site -> Requests]
  <2>1. ASSUME NEW k \in Site PROVE P[k] \in Requests
        BY <1>1, <1>5, Zenon DEF ButAt, q
  <2> QED BY <2>1
<1> QED BY <1>1, <1>17, <1>20, <1>21 DEF TxnInv

\* A step of a connection to s in which the transaction does not start pieces.
LEMMA OtherStep ==
  ASSUME NEW t \in Txn, NEW c, NEW X, NEW Q, NEW R, NEW U, NEW Y, NEW P, NEW W, NEW V, NEW s \in Site,
         TxnInv(t, c, X, Q, R, U), c.phase \in {"prepare", "commit", "abort"}, s \in c.proxies,
         ButAt(s, X, Y), ButAt(s, R, W), ButAt(s, Q, P), ButAt(s, U, V), DOMAIN W = Site,
         P = [q \in Site |-> P[q]], P[s] = <<>>, V = [q \in Site |-> V[q]], V[s] \in BOOLEAN,
         Conn(t, c, s, Y[s], <<>>, W[s], V[s]), W[s] = {} <=> Quiet(Q[s], R[s]),
         c.phase = "prepare" => Y[s].ps = X[s].ps
  PROVE  TxnInv(t, c, Y, P, W, V)
<1>1. /\ c \in Chopper /\ Q \in [Site -> Requests] /\ U \in [Site -> BOOLEAN] /\ DOMAIN R = Site
      /\ Counted(t, c, X, Q, R, U)
      /\ \A k \in Site : Conn(t, c, k, X[k], Q[k], R[k], U[k])
      BY DEF TxnInv
<1>2. \A k \in Site : Conn(t, c, k, Y[k], P[k], W[k], V[k])
  <2> TAKE k \in Site
  <2>1. CASE k = s
        BY <2>1
  <2>2. CASE k # s
        BY <2>2, <1>1 DEF ButAt
  <2> QED BY <2>1, <2>2
<1>3. QuietSites(c, P, W) = QuietSites(c, Q, R)
  <2>1. ASSUME NEW k \in c.proxies PROVE Quiet(P[k], W[k]) <=> Quiet(Q[k], R[k])
    <3>1. k \in Site
          BY <1>1 DEF Chopper
    <3>2. CASE k = s
          BY <3>2 DEF Quiet
    <3>3. CASE k # s
          BY <3>1, <3>3 DEF ButAt
    <3> QED BY <3>2, <3>3
  <2> QED BY <2>1 DEF QuietSites
<1>4. ASSUME c.phase = "prepare", NEW i \in c.sent PROVE AtSite(Y, i) = AtSite(X, i)
  <2>1. PieceOf(i).site \in Site
        BY <1>1, SiteOfPiece DEF Counted
  <2> QED BY <2>1, <1>4 DEF ButAt, AtSite
<1>5. Counted(t, c, Y, P, W, V)
      BY <1>1, <1>3, <1>4, CountedKept
<1>6. P \in [Site -> Requests] /\ V \in [Site -> BOOLEAN]
  <2>1. <<>> \in Requests
        BY DEF Requests
  <2>2. ASSUME NEW k \in Site PROVE P[k] \in Requests /\ V[k] \in BOOLEAN
        BY <1>1, <2>1 DEF ButAt
  <2> QED BY <2>2
<1> QED BY <1>1, <1>2, <1>5, <1>6 DEF TxnInv

\* prepare_txn, seen from its transaction.
LEMMA TxnPrepared ==
  ASSUME NEW t \in Txn, NEW c, NEW X, NEW Q, NEW R, NEW U, NEW Y, NEW P, NEW W, NEW s \in Site,
         TxnInv(t, c, X, Q, R, U), Q[s] # <<>>, Q[s][1].op = "prepare",
         ButAt(s, X, Y), ButAt(s, R, W), ButAt(s, Q, P), DOMAIN W = Site,
         P = [q \in Site |-> P[q]], P[s] = Tail(Q[s]),
         Y[s].in, Y[s].prepared, Y[s].wound = X[s].wound, Y[s].ps = X[s].ps,
         W[s] = {PreparedReply(X[s])}
  PROVE  TxnInv(t, c, Y, P, W, U)
<1> DEFINE x == X[s]
           y == Y[s]
           w == W[s]
<1>1. U \in [Site -> BOOLEAN] /\ Conn(t, c, s, x, Q[s], R[s], U[s])
      BY DEF TxnInv
<1>2. s \in c.proxies /\ U[s]
      BY UnderWay, Zenon
<1>3. c.phase = "prepare" /\ ConnPrepare(c, s, X[s], Q[s], R[s], U[s]) /\ Asks(Q[s], R[s], U[s], "prepare")
  <2>1. PrepareRun(c, s, X[s], Q[s], R[s], U[s])
        BY PrepareUnderWay
  <2> QED BY <2>1 DEF PrepareRun
<1>6. P[s] = <<>>
      BY <1>3, OnlyOp DEF Asks
<1>7. w # {} /\ w = {PreparedReply(y)}
      BY DEF PreparedReply
<1>8. ~Quiet(Q[s], R[s])
      BY DEF Quiet
<1>9. x.in /\ Idle(x) /\ DOMAIN x.ps = SentTo(c, s) /\ (c.commit => AllSucceeded(x))
      BY <1>3 DEF ConnPrepare
<1>10. y.in /\ Idle(y) /\ DOMAIN y.ps = SentTo(c, s) /\ (c.commit => AllSucceeded(y))
      BY <1>9 DEF Idle, AllSucceeded
<1>11. ConnPrepare(c, s, y, <<>>, w, U[s])
      BY <1>2, <1>7, <1>10, Zenon DEF ConnPrepare
<1>12. DOMAIN y.ps \subseteq {p.id : p \in {p \in PiecesOf(t) : p.site = s}}
      BY <1>1 DEF Conn
<1>13. Conn(t, c, s, y, <<>>, w, U[s])
      BY <1>2, <1>3, <1>11, <1>12, Zenon DEF Conn
<1>14. U = [q \in Site |-> U[q]] /\ U[s] \in BOOLEAN /\ ButAt(s, U, U)
      BY <1>1 DEF ButAt
<1> HIDE DEF x, y, w
<1>15. W[s] = {} <=> Quiet(Q[s], R[s])
      BY <1>7, <1>8 DEF w
<1>16. Conn(t, c, s, Y[s], <<>>, W[s], U[s])
      BY <1>13 DEF w, y
<1>17. c.phase \in {"prepare", "commit", "abort"}
      BY <1>3
<1> QED BY <1>2, <1>17, <1>6, <1>14, <1>15, <1>16, OtherStep, Zenon

\* commit_txn and abort_txn, seen from their transaction.
LEMMA TxnFinished ==
  ASSUME NEW t \in Txn, NEW c, NEW X, NEW Q, NEW R, NEW U, NEW Y, NEW P, NEW W, NEW s \in Site,
         TxnInv(t, c, X, Q, R, U), Q[s] # <<>>, Q[s][1].op \in {"commit", "abort"},
         ButAt(s, X, Y), ButAt(s, R, W), ButAt(s, Q, P), DOMAIN W = Site,
         P = [q \in Site |-> P[q]], P[s] = Tail(Q[s]), Y[s] = NoTx, W[s] = {FinishedReply}
  PROVE  TxnInv(t, c, Y, P, W, U)
<1>1. U \in [Site -> BOOLEAN]
      BY DEF TxnInv
<1>2. s \in c.proxies /\ U[s]
      BY UnderWay, Zenon
<1>3. c.phase \in {"commit", "abort"} /\ Asks(Q[s], R[s], U[s], c.phase)
  <2>1. FinishRun(c, X[s], Q[s], R[s], U[s])
        BY FinishUnderWay, Zenon
  <2> QED BY <2>1 DEF FinishRun
<1>4. P[s] = <<>>
      BY <1>3, OnlyOp DEF Asks
<1>5. ~Quiet(Q[s], R[s])
      BY DEF Quiet
<1>6. Idle(NoTx) /\ ~NoTx.in /\ DOMAIN NoTx.ps = {}
      BY NoneHas DEF Idle
<1>7. ConnFinish(c.phase, NoTx, <<>>, {FinishedReply}, U[s])
      BY <1>2, <1>6 DEF ConnFinish
<1>8. Conn(t, c, s, NoTx, <<>>, {FinishedReply}, U[s])
      BY <1>2, <1>3, <1>6, <1>7, Zenon DEF Conn
<1>9. U = [q \in Site |-> U[q]] /\ U[s] \in BOOLEAN /\ ButAt(s, U, U)
      BY <1>1 DEF ButAt
<1>10. W[s] = {} <=> Quiet(Q[s], R[s])
      BY <1>5
<1>11. Conn(t, c, s, Y[s], <<>>, W[s], U[s])
      BY <1>8
<1>12. c.phase \in {"prepare", "commit", "abort"} /\ (c.phase = "prepare" => Y[s].ps = X[s].ps)
      BY <1>3
<1> QED BY <1>2, <1>4, <1>9, <1>10, <1>11, <1>12, OtherStep, Zenon

-----------------------------------------------------------------------------
(* A connection breaks                                                       *)

\* A connection that breaks, seen from its transaction.
LEMMA TxnBroken ==
  ASSUME NEW t \in Txn, NEW c, NEW X, NEW Q, NEW R, NEW U, NEW P, NEW W, NEW V, NEW s \in Site,
         TxnInv(t, c, X, Q, R, U), c.phase \in {"prepare", "commit", "abort"}, s \in c.proxies, U[s],
         ButAt(s, R, W), ButAt(s, Q, P), ButAt(s, U, V), DOMAIN W = Site,
         P = [q \in Site |-> P[q]], P[s] = <<>>, V = [q \in Site |-> V[q]], V[s] = FALSE,
         W[s] = IF R[s] # {} \/ Q[s] # <<>> THEN {ErrorReply} ELSE {}
  PROVE  TxnInv(t, c, X, P, W, V)
<1> DEFINE x == X[s]
           q == Q[s]
           r == R[s]
           w == W[s]
<1>1. Conn(t, c, s, x, q, r, U[s])
      BY Zenon DEF TxnInv
<1>2. w = {} <=> Quiet(q, r)
      BY DEF Quiet
<1>3. ~Quiet(q, r) => w = {ErrorReply}
      BY DEF Quiet
<1> HIDE DEF x, q, r, w
<1>4. Quiet(q, r) => Quiet(<<>>, w)
      BY <1>2 DEF Quiet
<1>5. ~Quiet(q, r) => Failed(<<>>, w, FALSE)
      BY <1>3 DEF Failed
<1>6. Idle(x) /\ (c.phase = "prepare" => ConnPrepare(c, s, x, <<>>, w, FALSE))
              /\ (c.phase \in {"commit", "abort"} => ConnFinish(c.phase, x, <<>>, w, FALSE))
  <2>1. CASE c.phase = "prepare"
    <3>1. ConnPrepare(c, s, x, q, r, U[s])
          BY <1>1, <2>1, Zenon DEF Conn
    <3>2. Quiet(q, r) => (c.commit => x.prepared /\ ~x.wound)
          BY <3>1 DEF ConnPrepare, Quiet, Asks, Failed
    <3>3. ConnPrepare(c, s, x, <<>>, w, FALSE) /\ Idle(x)
          BY <3>1, <3>2, <1>4, <1>5, Zenon DEF ConnPrepare
    <3> QED BY <3>3, <2>1, Zenon
  <2>2. CASE c.phase \in {"commit", "abort"}
    <3>1. ConnFinish(c.phase, x, q, r, U[s])
          BY <1>1, <2>2, Zenon DEF Conn
    <3>2. ConnFinish(c.phase, x, <<>>, w, FALSE) /\ Idle(x)
          BY <3>1, <1>4, <1>5, Zenon DEF ConnFinish
    <3> QED BY <3>2, <2>2, Zenon
  <2> QED BY <2>1, <2>2, Zenon
<1>7. DOMAIN x.ps \subseteq {p.id : p \in {p \in PiecesOf(t) : p.site = s}}
      BY <1>1 DEF Conn
<1>8. Conn(t, c, s, x, <<>>, w, FALSE)
      BY <1>6, <1>7, Zenon DEF Conn
<1>9. Conn(t, c, s, X[s], <<>>, W[s], V[s]) /\ V[s] \in BOOLEAN
      BY <1>8, Zenon DEF x, w
<1>10. W[s] = {} <=> Quiet(Q[s], R[s])
      BY <1>2 DEF w, q, r
<1>11. ButAt(s, X, X)
      BY DEF ButAt
<1> QED BY <1>9, <1>10, <1>11, OtherStep, Zenon

-----------------------------------------------------------------------------
(* What clients see of a site *)

\* A transaction that commits may do so at each site that it is still at.
LEMMA DecidedHolds ==
  ASSUME IInv, NEW t \in Txn, NEW s \in Site, Decided(t), site[s].tx[t].in
  PROVE  s \in co[t].proxies /\ Idle(site[s].tx[t]) /\ Holds(site[s].tx[t])
<1> DEFINE c == co[t]
           X == TxAt(t)
           Q == req[t]
           R == rep[t]
           U == up[t]
<1>1. TxnInv(t, c, X, Q, R, U) /\ Whole(t, c, X)
      BY DEF IInv, InvAt
<1>2. X[s] = site[s].tx[t] /\ X[s].in /\ c.phase \in {"commit", "SUCCESS"}
      BY DEF TxAt, Decided
<1> HIDE DEF c, X, Q, R, U
<1>3. /\ Conn(t, c, s, X[s], Q[s], R[s], U[s])
      /\ c.proxies = {PieceOf(i).site : i \in c.sent}
      BY <1>1 DEF TxnInv, Counted
<1>4. s \in c.proxies
  <2>1. PICK i \in DOMAIN X[s].ps : TRUE
        BY <1>1, <1>2, ZenonT(40) DEF Whole
  <2>2. PICK p \in PiecesOf(t) : p.site = s /\ p.id = i
        BY <1>3, <2>1, ZenonT(40) DEF Conn
  <2>3. i \in c.sent
        BY <1>1, <1>2, <2>2, ZenonT(40) DEF Whole, Ids
  <2>4. PieceOf(i) = p
        BY <2>2, PieceIsOf DEF PiecesOf
  <2> QED BY <1>3, <2>2, <2>3, <2>4
<1>5. CASE c.phase = "commit"
  <2>1. ConnFinish(c.phase, X[s], Q[s], R[s], U[s])
        BY <1>3, <1>4, <1>5, ZenonT(40) DEF Conn
  <2> QED BY <1>2, <1>4, <1>5, <2>1, ZenonT(40) DEF ConnFinish, c
<1>6. CASE c.phase = "SUCCESS"
  <2>1. ConnOver(c, X[s], Q[s], R[s], U[s])
        BY <1>3, <1>4, <1>6 DEF Conn
  <2> QED BY <1>2, <1>4, <1>6, <2>1, ZenonT(40) DEF ConnOver, c
<1> QED BY <1>2, <1>5, <1>6

\* A cell a piece uses is at the site of the piece.
LEMMA UsedAt ==
  ASSUME NEW p \in Piece, NEW c \in p.reads \cup p.writes
  PROVE  c \in Used /\ SiteOf(c) = p.site /\ SiteOf(c) \in Site /\ c \in Cell
<1>1. c \in Used
      BY DEF Used
<1> DEFINE q == CHOOSE q \in Piece : c \in q.reads \cup q.writes
<1>2. q \in Piece /\ c \in q.reads \cup q.writes
      OBVIOUS
<1>3. SiteOf(c) = q.site
      BY DEF SiteOf
<1> HIDE DEF q
<1>4. q.site = p.site /\ p.site \in Site
      BY <1>2, SitesAssumption
<1>5. c \in Cell
      BY PiecesAssumption
<1> QED BY <1>1, <1>3, <1>4, <1>5

\* A cell that some piece uses is at a site.
LEMMA UsedSite ==
  ASSUME NEW c \in Used
  PROVE  SiteOf(c) \in Site /\ c \in Cell
<1>1. PICK p \in Piece : c \in p.reads \cup p.writes
      BY DEF Used
<1> QED BY <1>1, UsedAt

\* A transaction that commits keeps what it has staged while others go on.
LEMMA StagedKept ==
  ASSUME IInv, NEW t \in Txn, NEW s \in Site, Decided(t), NEW y, Evolves(site[s].tx[t], y), ~y.in => y = NoTx
  PROVE  y.updates = site[s].tx[t].updates
<1>1. CASE site[s].tx[t].in
  <2>1. Idle(site[s].tx[t])
        BY <1>1, DecidedHolds
  <2> QED BY <2>1 DEF Evolves
<1>2. CASE ~site[s].tx[t].in
  <2>1. site[s].tx[t] = NoTx
        BY <1>2, Zenon DEF IInv, InvAt, SiteInv, SiteInvBut, Ran, RanTxn
  <2>2. y = NoTx
        BY <1>2 DEF Evolves
  <2> QED BY <2>1, <2>2
<1> QED BY <1>1, <1>2, ZenonT(40)

-----------------------------------------------------------------------------
(* A step of a site *)

\* What a step at site s, which becomes N, does to the transaction u: the answers
\* b are its own.
TxnMoves(u, s, N, b) ==
  /\ DOMAIN rep'[u] = Site /\ ButAt(s, rep[u], rep'[u]) /\ ButAt(s, TxAt(u), TxAt(u)')
  /\ TxAt(u)[s] = site[s].tx[u] /\ TxAt(u)'[s] = N.tx[u]
  /\ rep'[u][s] = IF up[u][s] THEN rep[u][s] \cup Answers(site[s], N, u) \cup b ELSE rep[u][s]

Moves(t, s, N, a) ==
  /\ mode' = mode /\ co' = co /\ up' = up
  /\ DOMAIN site' = Site /\ site'[s] = N /\ \A k \in Site \ {s} : site'[k] = site[k]
  /\ DOMAIN rep' = Txn
  /\ TxnMoves(t, s, N, a) /\ \A u \in Txn \ {t} : TxnMoves(u, s, N, {})

\* What a handler at site s changes.
LEMMA AtIs ==
  ASSUME IInv, NEW t \in Txn, NEW s \in Site, NEW N, NEW a, At(t, s, N, a)
  PROVE  Moves(t, s, N, a)
<1>1. DOMAIN site = Site /\ \A u \in Txn : DOMAIN rep[u] = Site
      BY DEF IInv, InvAt, TxnInv
<1>2. /\ mode' = mode /\ co' = co /\ up' = up
      /\ site' = [site EXCEPT ![s] = N]
      BY DEF At
<1>3. rep' = [u \in Txn |-> [rep[u] EXCEPT ![s] =
                IF up[u][s] THEN @ \cup Answers(site[s], N, u) \cup (IF u = t THEN a ELSE {}) ELSE @]]
      BY DEF At
<1>4. DOMAIN site' = Site /\ site'[s] = N /\ \A k \in Site \ {s} : site'[k] = site[k]
      BY <1>1, <1>2
<1>5. DOMAIN rep' = Txn
      BY <1>3
<1>6. ASSUME NEW u \in Txn PROVE TxnMoves(u, s, N, IF u = t THEN a ELSE {})
  <2> DEFINE b == IF u = t THEN a ELSE {}
             new == IF up[u][s] THEN rep[u][s] \cup Answers(site[s], N, u) \cup b ELSE rep[u][s]
  <2>1. rep'[u] = [rep[u] EXCEPT ![s] = new]
        BY <1>3
  <2> HIDE DEF new
  <2>2. DOMAIN rep'[u] = Site /\ rep'[u][s] = new /\ \A k \in Site \ {s} : rep'[u][k] = rep[u][k]
        BY <1>1, <2>1
  <2>3. /\ TxAt(u)[s] = site[s].tx[u] /\ TxAt(u)'[s] = N.tx[u]
        /\ \A k \in Site \ {s} : TxAt(u)'[k] = TxAt(u)[k]
        BY <1>4 DEF TxAt
  <2> QED BY <2>2, <2>3 DEF TxnMoves, ButAt, new
<1>7. TxnMoves(t, s, N, a) /\ \A u \in Txn \ {t} : TxnMoves(u, s, N, {})
  <2>1. TxnMoves(t, s, N, IF t = t THEN a ELSE {})
        BY <1>6
  <2>2. ASSUME NEW u \in Txn \ {t} PROVE TxnMoves(u, s, N, {})
    <3>1. TxnMoves(u, s, N, IF u = t THEN a ELSE {}) /\ u # t
          BY <1>6
    <3> QED BY <3>1
  <2> QED BY <2>1, <2>2
<1> QED BY <1>2, <1>4, <1>5, <1>7, ZenonT(40) DEF Moves

\* The answers to the calls that end at the site.
LEMMA MovesAnswer ==
  ASSUME NEW u, NEW s, NEW N, TxnMoves(u, s, N, {})
  PROVE  Answered1(TxAt(u)[s], TxAt(u)'[s], rep[u][s], rep'[u][s], up[u][s])
<1> DEFINE x == TxAt(u)[s]
           y == TxAt(u)'[s]
<1>1. x = site[s].tx[u] /\ y = N.tx[u]
      BY ZenonT(40) DEF TxnMoves
<1>2. ASSUME NEW a PROVE a \in Answers(site[s], N, u) <=> Ending(x, y, a)
      BY <1>1, AnswersIs DEF Ending
<1> HIDE DEF x, y
<1>3. up[u][s] => rep'[u][s] = rep[u][s] \cup Answers(site[s], N, u)
      BY ZenonT(40) DEF TxnMoves
<1>4. ~up[u][s] => rep'[u][s] = rep[u][s]
      BY ZenonT(40) DEF TxnMoves
<1>5. Answered1(x, y, rep[u][s], rep'[u][s], up[u][s])
      BY <1>2, <1>3, <1>4 DEF Answered1, NewAnswers
<1> QED BY <1>5 DEF x, y

\* A handler that keeps the invariant of its site, and of the transaction it is
\* for, keeps the invariant.
LEMMA SiteStep ==
  ASSUME IInv, NEW t \in Txn, NEW s \in Site, NEW N, NEW a, Moves(t, s, N, a),
         SiteInv(N, mode.lock), N.ok, \A u \in Txn \ {t} : Evolves(site[s].tx[u], N.tx[u]),
         DOMAIN req' = Txn, \A u \in Txn \ {t} : req'[u] = req[u],
         TxnInv(t, co[t], TxAt(t)', req'[t], rep'[t], up[t]), N.tx[t].in => DOMAIN N.tx[t].ps # {}
  PROVE  IInv'
<1>1. /\ mode \in Modes /\ DOMAIN site = Site
      /\ DOMAIN co = Txn /\ DOMAIN rep = Txn /\ DOMAIN up = Txn
      /\ VerifiesHold /\ \A k \in Site : SiteInv(site[k], mode.lock)
      /\ \A u \in Txn : InvAt(u)
      BY Zenon DEF IInv, InvAt
<1>2. /\ mode' = mode /\ co' = co /\ up' = up
      /\ DOMAIN site' = Site /\ site'[s] = N /\ \A k \in Site \ {s} : site'[k] = site[k]
      /\ DOMAIN rep' = Txn /\ \A u \in Txn \ {t} : TxnMoves(u, s, N, {})
      BY ZenonT(40) DEF Moves
<1>3. ASSUME NEW u \in Txn \ {t} PROVE TxnInv(u, co[u], TxAt(u)', req'[u], rep'[u], up[u])
  <2> DEFINE X == TxAt(u)
             Y == TxAt(u)'
             W == rep'[u]
  <2>1. TxnInv(u, co[u], X, req[u], rep[u], up[u])
        BY <1>1 DEF InvAt
  <2>2. DOMAIN W = Site /\ ButAt(s, rep[u], W) /\ ButAt(s, X, Y) /\ X[s] = site[s].tx[u] /\ Y[s] = N.tx[u]
        BY <1>2, Zenon DEF TxnMoves
  <2>3. Answered1(X[s], Y[s], rep[u][s], W[s], up[u][s])
        BY <1>2, MovesAnswer, ZenonT(40)
  <2> HIDE DEF X, Y, W
  <2>4. Evolves(X[s], Y[s])
        BY <2>2, Zenon
  <2>5. ~Y[s].in => Y[s] = NoTx
    <3>1. RanTxn(N, u)
          BY DEF SiteInv, SiteInvBut, Ran
    <3> QED BY <2>2, <3>1, ZenonT(40) DEF RanTxn
  <2>6. TxnInv(u, co[u], Y, req[u], W, up[u])
        BY <2>1, <2>2, <2>3, <2>4, <2>5, TxnEvolves, ZenonT(40)
  <2> QED BY <2>6, ZenonT(40) DEF Y, W
<1>4. ASSUME NEW u \in Txn PROVE Whole(u, co[u], TxAt(u)')
  <2>1. Whole(u, co[u], TxAt(u))
        BY <1>1, ZenonT(40) DEF InvAt
  <2>2. ASSUME NEW k \in Site, TxAt(u)'[k].in PROVE DOMAIN TxAt(u)'[k].ps # {}
    <3>1. CASE k # s
      <4>1. TxAt(u)'[k] = TxAt(u)[k]
            BY <1>2, <3>1, ZenonT(40) DEF TxAt
      <4> QED BY <2>1, <2>2, <4>1, ZenonT(40) DEF Whole
    <3>2. CASE k = s
      <4>1. TxAt(u)'[k] = N.tx[u] /\ TxAt(u)[k] = site[s].tx[u]
            BY <1>2, <3>2, ZenonT(40) DEF TxAt
      <4>2. CASE u = t
            BY <2>2, <4>1, <4>2
      <4>3. CASE u # t
        <5>1. Evolves(site[s].tx[u], N.tx[u])
              BY <4>3, Zenon
        <5> QED BY <2>1, <2>2, <4>1, <5>1, ZenonT(40) DEF Whole, Evolves
      <4> QED BY <4>2, <4>3, ZenonT(40)
    <3> QED BY <3>1, <3>2, ZenonT(40)
  <2> QED BY <2>1, <2>2, ZenonT(40) DEF Whole
<1>5. ASSUME NEW u \in Txn PROVE TxnInv(u, co'[u], TxAt(u)', req'[u], rep'[u], up'[u])
  <2>1. CASE u = t
        BY <1>2, <2>1, Zenon
  <2>2. CASE u # t
        BY <1>2, <1>3, <2>2, Zenon
  <2> QED BY <2>1, <2>2
<1>6. \A k \in Site : SiteInv(site'[k], mode'.lock)
      BY <1>1, <1>2, ZenonT(40)
<1>7. VerifiesHold'
      BY <1>1, <1>2, ZenonT(40) DEF VerifiesHold
<1> QED BY <1>1, <1>2, <1>5, <1>6, <1>7, <1>4, Zenon DEF IInv, InvAt

Shown == <<DB, Result, Seen>>

\* A site has a step that changes nothing for the clients.
LEMMA SiteShows ==
  ASSUME IInv, NEW t \in Txn, NEW s \in Site, NEW N, NEW a, Moves(t, s, N, a),
         SiteInv(N, mode.lock), N.val = site[s].val, \A u \in Txn \ {t} : Evolves(site[s].tx[u], N.tx[u]),
         Decided(t) => Evolves(site[s].tx[t], N.tx[t])
  PROVE  UNCHANGED Shown
<1>1. co' = co /\ site'[s] = N /\ \A k \in Site \ {s} : site'[k] = site[k]
      BY DEF Moves
<1>2. Result' = Result /\ Seen' = Seen /\ \A u \in Txn : Decided(u)' <=> Decided(u)
      BY <1>1, ZenonT(40) DEF Result, Seen, Decided
<1>3. ASSUME NEW u \in Txn, Decided(u) PROVE N.tx[u].updates = site[s].tx[u].updates
  <2>1. Evolves(site[s].tx[u], N.tx[u])
        BY <1>3, ZenonT(40)
  <2>2. ~N.tx[u].in => N.tx[u] = NoTx
        BY ZenonT(40) DEF SiteInv, SiteInvBut, Ran, RanTxn
  <2> QED BY <1>3, <2>1, <2>2, StagedKept
<1>4. ASSUME NEW c \in Used PROVE Pending(c)' = Pending(c) /\ site'[SiteOf(c)].val[c] = site[SiteOf(c)].val[c]
  <2>1. SiteOf(c) \in Site
        BY UsedSite, ZenonT(40)
  <2>2. \A u \in Txn : Decided(u) => site'[SiteOf(c)].tx[u].updates = site[SiteOf(c)].tx[u].updates
        BY <1>1, <1>3, <2>1, ZenonT(40)
  <2>3. site'[SiteOf(c)].val = site[SiteOf(c)].val
        BY <1>1, <2>1
  <2> QED BY <1>2, <2>2, <2>3, ZenonT(40) DEF Pending
<1> DEFINE one(T) == CHOOSE u \in T : TRUE
           v(c)   == IF Pending(c) = {} THEN site[SiteOf(c)].val[c] ELSE one(Pending(c))
<1>5. DB = [c \in Used |-> v(c)] /\ DB' = [c \in Used |-> v(c)']
      BY Zenon DEF DB
<1> HIDE DEF one
<1>6. ASSUME NEW c \in Used PROVE v(c)' = v(c)
      BY <1>4, Zenon
<1> HIDE DEF v
<1>7. DB' = DB
      BY <1>5, <1>6, ZenonT(40)
<1> QED BY <1>2, <1>7, ZenonT(40) DEF Shown

\* The first request of t at s is taken.
Takes(t, s, op) ==
  /\ DOMAIN req' = Txn /\ \A u \in Txn \ {t} : req'[u] = req[u]
  /\ req'[t] = [q \in Site |-> req'[t][q]] /\ DOMAIN req'[t] = Site
  /\ ButAt(s, req[t], req'[t]) /\ req'[t][s] = Tail(req[t][s])
  /\ req[t][s] # <<>> /\ req[t][s][1].op = op /\ Head(req[t][s]) = req[t][s][1]

\* What a handler does to the requests under way.
LEMMA TakeIs ==
  ASSUME IInv, NEW t \in Txn, NEW s \in Site, NEW op, Take(t, s, op)
  PROVE  Takes(t, s, op)
<1>1. DOMAIN req = Txn /\ req[t] \in [Site -> Requests]
      BY Zenon DEF IInv, InvAt, TxnInv
<1>2. req[t][s] # <<>> /\ Head(req[t][s]).op = op /\ req' = [req EXCEPT ![t][s] = Tail(@)]
      BY DEF Take
<1>3. req[t][s] \in Requests /\ Head(req[t][s]) = req[t][s][1]
      BY <1>1, <1>2 DEF Requests
<1>4. /\ DOMAIN req' = Txn /\ \A u \in Txn \ {t} : req'[u] = req[u]
      /\ req'[t] = [req[t] EXCEPT ![s] = Tail(req[t][s])]
      BY <1>1, <1>2
<1>5. /\ req'[t] = [q \in Site |-> req'[t][q]] /\ DOMAIN req'[t] = Site
      /\ \A k \in Site \ {s} : req'[t][k] = req[t][k]
      /\ req'[t][s] = Tail(req[t][s])
      BY <1>1, <1>4, Zenon
<1> QED BY <1>2, <1>3, <1>4, <1>5 DEF Takes, ButAt

\* start_pie keeps the invariant, and nobody sees it.
LEMMA HandleStartStep ==
  ASSUME SiteKeeps, IInv, NEW t \in Txn, NEW s \in Site, HandleStart(t, s)
  PROVE  IInv' /\ UNCHANGED Shown
<1> DEFINE c == co[t]
           X == TxAt(t)
           Y == TxAt(t)'
           Q == req[t]
           P == req'[t]
           R == rep[t]
           W == rep'[t]
           U == up[t]
           S == site[s]
           call == Head(Q[s]).call
           N == StartPie(S, mode.lock, call)
<1>1. TxnInv(t, c, X, Q, R, U)
      BY Zenon DEF IInv, InvAt
<1>2. SiteInv(S, mode.lock) /\ S.ok
      BY ZenonT(40) DEF IInv, InvAt, VerifiesHold
<1>3. Takes(t, s, "start") /\ Moves(t, s, N, {})
      BY TakeIs, AtIs, ZenonT(40) DEF HandleStart
<1>4. /\ P = [q \in Site |-> P[q]] /\ DOMAIN P = Site /\ ButAt(s, Q, P) /\ P[s] = Tail(Q[s])
      /\ Q[s] # <<>> /\ Q[s][1].op = "start" /\ call = Q[s][1].call
      BY <1>3 DEF Takes
<1>5. TxnMoves(t, s, N, {})
      BY <1>3, ZenonT(40) DEF Moves
<1>6. DOMAIN W = Site /\ ButAt(s, R, W) /\ ButAt(s, X, Y) /\ X[s] = S.tx[t] /\ Y[s] = N.tx[t]
      BY <1>5, Zenon DEF TxnMoves
<1>7. Answered1(X[s], Y[s], R[s], W[s], U[s])
      BY <1>5, MovesAnswer, ZenonT(40)
<1> HIDE DEF c, X, Y, Q, P, R, W, U, S, call, N
<1>8. U[s] /\ StartRun(c, s, X[s], Q[s], R[s], U[s])
      BY <1>1, <1>4, UnderWay, StartUnderWay, ZenonT(40)
<1>9. Carries(Q[s], SentTo(c, s) \ DOMAIN X[s].ps)
      BY <1>8 DEF StartRun, ConnStart
<1>10. Q[s] \in Requests /\ c.sent \subseteq Ids(PiecesOf(t))
      BY <1>1 DEF TxnInv, Counted
<1>11. /\ call # <<>> /\ call \in Seq(Nat) /\ OneByOne(call)
       /\ CallIds(call) \subseteq SentTo(c, s) \ DOMAIN X[s].ps
      BY <1>4, <1>9, <1>10, CarriesTail, Zenon
<1>12. Brings(S, t, call)
  <2>1. ASSUME NEW n \in DOMAIN call
        PROVE  call[n] \in Ids(Piece) /\ PieceOf(call[n]).txn = t /\ call[n] \notin DOMAIN S.tx[t].ps
    <3>1. call[n] \in c.sent /\ call[n] \notin DOMAIN S.tx[t].ps
          BY <1>6, <1>11 DEF CallIds, SentTo
    <3>2. call[n] \in Ids(PiecesOf(t))
          BY <1>10, <3>1
    <3> QED BY <3>1, <3>2, SiteOfPiece, ZenonT(40)
  <2> QED BY <2>1 DEF Brings
<1>13. Steps(S, N, mode.lock, t) /\ Grows(S.tx[t], N.tx[t], CallIds(call), call)
      BY <1>2, <1>11, <1>12, Zenon DEF N, SiteKeeps, StartKeeps
<1>14. TxnInv(t, c, Y, P, W, U)
  <2>1. Grows(X[s], Y[s], CallIds(Q[s][1].call), Q[s][1].call)
        BY <1>4, <1>6, <1>13
  <2> QED BY <1>1, <1>4, <1>6, <1>7, <2>1, TxnStarted, Zenon
<1>15. /\ SiteInv(N, mode.lock) /\ N.ok /\ N.val = S.val
       /\ \A u \in Txn \ {t} : Evolves(S.tx[u], N.tx[u])
      BY <1>2, <1>13, ZenonT(40) DEF Steps
<1>16. DOMAIN N.tx[t].ps # {}
  <2>1. call[1] \in CallIds(call)
        BY <1>11 DEF CallIds
  <2> QED BY <1>13, <2>1 DEF Grows
<1>17. IInv'
      BY <1>3, <1>14, <1>15, <1>16, SiteStep, Zenon DEF Takes, S, c, Y, P, W, U
<1>18. ~Decided(t)
      BY <1>8, ZenonT(40) DEF StartRun, Decided, c
<1>19. UNCHANGED Shown
      BY <1>3, <1>15, <1>18, SiteShows DEF S
<1> QED BY <1>17, <1>19

\* No call ends when the pieces stay as they are, or leave.
LEMMA NoneAnswered ==
  ASSUME NEW S, NEW N, NEW t, N.tx[t].ps = S.tx[t].ps \/ N.tx[t] = NoTx
  PROVE  Answers(S, N, t) = {}
<1>1. ASSUME NEW i \in DOMAIN N.tx[t].ps PROVE N.tx[t].ps = S.tx[t].ps
      BY NoneHas
<1>2. ASSUME NEW a, a \in Answers(S, N, t) PROVE FALSE
  <2>1. PICK i \in DOMAIN N.tx[t].ps :
              Ended(N.tx[t], N.tx[t].ps[i].call) /\ ~Ended(S.tx[t], N.tx[t].ps[i].call)
        BY <1>2, AnswersIs, ZenonT(40)
  <2> QED BY <1>1, <2>1, Zenon DEF Ended
<1> QED BY <1>2

\* prepare_txn keeps the invariant, and nobody sees it.
LEMMA HandlePrepareStep ==
  ASSUME SiteKeeps, IInv, NEW t \in Txn, NEW s \in Site, HandlePrepare(t, s)
  PROVE  IInv' /\ UNCHANGED Shown
<1> DEFINE c == co[t]
           X == TxAt(t)
           Y == TxAt(t)'
           Q == req[t]
           P == req'[t]
           R == rep[t]
           W == rep'[t]
           U == up[t]
           S == site[s]
           N == PrepareTxn(S, t)
           a == {[op |-> "prepared", res |-> PrepareResult(S, t)]}
<1>1. TxnInv(t, c, X, Q, R, U) /\ Whole(t, c, X)
      BY DEF IInv, InvAt
<1>2. SiteInv(S, mode.lock) /\ S.ok
      BY DEF IInv, InvAt, VerifiesHold
<1>3. Takes(t, s, "prepare") /\ Moves(t, s, N, a)
      BY TakeIs, AtIs DEF HandlePrepare
<1>4. /\ P = [q \in Site |-> P[q]] /\ DOMAIN P = Site /\ ButAt(s, Q, P) /\ P[s] = Tail(Q[s])
      /\ Q[s] # <<>> /\ Q[s][1].op = "prepare"
      BY <1>3, Zenon DEF Takes
<1>5. TxnMoves(t, s, N, a)
      BY <1>3, ZenonT(40) DEF Moves
<1>6. /\ DOMAIN W = Site /\ ButAt(s, R, W) /\ ButAt(s, X, Y) /\ X[s] = S.tx[t] /\ Y[s] = N.tx[t]
      /\ U[s] => W[s] = R[s] \cup Answers(S, N, t) \cup a
      BY <1>5, ZenonT(40) DEF TxnMoves
<1>7. a = {PreparedReply(X[s])}
      BY <1>6, ZenonT(40) DEF PreparedReply, PrepareResult
<1> HIDE DEF c, X, Y, Q, P, R, W, U, S, N, a
<1>8. U[s] /\ PrepareRun(c, s, X[s], Q[s], R[s], U[s])
      BY <1>1, <1>4, UnderWay, PrepareUnderWay, ZenonT(40)
<1>9. R[s] = {} /\ X[s].in
      BY <1>8, Zenon DEF PrepareRun, ConnPrepare, Asks
<1>10. /\ Steps(S, N, mode.lock, t)
       /\ N.tx[t].in /\ N.tx[t].prepared
       /\ N.tx[t].wound = S.tx[t].wound /\ N.tx[t].ps = S.tx[t].ps
  <2>1. Steps(S, N, mode.lock, t) /\ Prepares(S.tx[t], N.tx[t])
        BY <1>2, <1>6, <1>9, Zenon DEF N, SiteKeeps, PrepareKeeps
  <2> QED BY <2>1, Zenon DEF Prepares
<1>11. Answers(S, N, t) = {}
      BY <1>10, NoneAnswered
<1>12. W[s] = {PreparedReply(X[s])}
      BY <1>6, <1>7, <1>8, <1>9, <1>11, ZenonT(40)
<1>13. Y[s].in /\ Y[s].prepared /\ Y[s].wound = X[s].wound /\ Y[s].ps = X[s].ps
      BY <1>6, <1>10
<1>14. TxnInv(t, c, Y, P, W, U)
      BY <1>1, <1>4, <1>6, <1>12, <1>13, TxnPrepared, Zenon
<1>15. /\ SiteInv(N, mode.lock) /\ N.ok /\ N.val = S.val
       /\ \A u \in Txn \ {t} : Evolves(S.tx[u], N.tx[u])
      BY <1>2, <1>10 DEF Steps
<1>16. DOMAIN N.tx[t].ps # {}
      BY <1>1, <1>6, <1>9, <1>10, Zenon DEF Whole
<1>17. IInv'
      BY <1>3, <1>14, <1>15, <1>16, SiteStep, Zenon DEF Takes, S, c, Y, P, W, U
<1>18. ~Decided(t)
      BY <1>8 DEF PrepareRun, Decided, c
<1>19. UNCHANGED Shown
      BY <1>3, <1>15, <1>18, SiteShows, Zenon DEF S
<1> QED BY <1>17, <1>19

\* The commit or the abort of t is taken, and makes N of the site s, on which t
\* has ended if it was there and ready to end.
FinishTaken(t, s, op, N, V) ==
  /\ op \in {"commit", "abort"} /\ Take(t, s, op) /\ At(t, s, N, {FinishedReply})
  /\ TxAt(t)[s].in /\ Idle(TxAt(t)[s]) /\ (op = "commit" => Holds(TxAt(t)[s])) =>
       Ends(site[s], N, mode.lock, t, V)

FinishDone(t, s, op, N, V) ==
  Moves(t, s, N, {FinishedReply}) /\ co[t].phase = op /\ Ends(site[s], N, mode.lock, t, V)

\* The transaction ends at the site: commit_txn and abort_txn.
LEMMA FinishStep ==
  ASSUME IInv, NEW t \in Txn, NEW s \in Site, NEW op, NEW N, NEW V, FinishTaken(t, s, op, N, V)
  PROVE  IInv' /\ FinishDone(t, s, op, N, V)
<1> DEFINE c == co[t]
           X == TxAt(t)
           Y == TxAt(t)'
           Q == req[t]
           P == req'[t]
           R == rep[t]
           W == rep'[t]
           U == up[t]
           S == site[s]
<1>1. TxnInv(t, c, X, Q, R, U)
      BY ZenonT(40) DEF IInv, InvAt
<1>2. SiteInv(S, mode.lock) /\ S.ok
      BY DEF IInv, InvAt, VerifiesHold
<1> op \in {"commit", "abort"} /\ Take(t, s, op) /\ At(t, s, N, {FinishedReply})
  BY Zenon DEF FinishTaken
<1>3. Takes(t, s, op) /\ Moves(t, s, N, {FinishedReply})
      BY TakeIs, AtIs
<1>4. /\ P = [q \in Site |-> P[q]] /\ DOMAIN P = Site /\ ButAt(s, Q, P) /\ P[s] = Tail(Q[s])
      /\ Q[s] # <<>> /\ Q[s][1].op = op /\ Q[s][1].op \in {"commit", "abort"}
      BY <1>3, Zenon DEF Takes
<1>5. TxnMoves(t, s, N, {FinishedReply})
      BY <1>3 DEF Moves
<1>6. /\ DOMAIN W = Site /\ ButAt(s, R, W) /\ ButAt(s, X, Y) /\ X[s] = S.tx[t] /\ Y[s] = N.tx[t]
      /\ U[s] => W[s] = R[s] \cup Answers(S, N, t) \cup {FinishedReply}
      BY <1>5, Zenon DEF TxnMoves
<1>7. X[s].in /\ Idle(X[s]) /\ (op = "commit" => Holds(X[s])) => Ends(S, N, mode.lock, t, V)
      BY Zenon DEF FinishTaken
<1> HIDE DEF c, X, Y, Q, P, R, W, U, S
<1>8. U[s] /\ FinishRun(c, X[s], Q[s], R[s], U[s])
      BY <1>1, <1>4, UnderWay, FinishUnderWay, ZenonT(40)
<1>9. R[s] = {} /\ X[s].in /\ Idle(X[s]) /\ (op = "commit" => Holds(X[s]))
      BY <1>4, <1>8 DEF FinishRun, ConnFinish, Asks
<1>10. Ends(S, N, mode.lock, t, V)
      BY <1>7, <1>9, Zenon
<1>11. N.tx[t] = NoTx /\ SiteInv(N, mode.lock) /\ N.ok /\ \A u \in Txn \ {t} : Evolves(S.tx[u], N.tx[u])
      BY <1>2, <1>10, ZenonT(40) DEF Ends
<1>12. Answers(S, N, t) = {}
      BY <1>11, NoneAnswered, Zenon
<1>13. W[s] = {FinishedReply} /\ Y[s] = NoTx
      BY <1>6, <1>8, <1>9, <1>11, <1>12, Zenon
<1>14. TxnInv(t, c, Y, P, W, U)
      BY <1>1, <1>4, <1>6, <1>13, TxnFinished, ZenonT(40)
<1>15. ~N.tx[t].in
      BY <1>11, NoneHas
<1>16. IInv'
      BY <1>3, <1>11, <1>14, <1>15, SiteStep, Zenon DEF Takes, S, c, Y, P, W, U
<1>17. c.phase = op
      BY <1>4, <1>8 DEF FinishRun
<1> QED BY <1>3, <1>10, <1>16, <1>17, ZenonT(40) DEF FinishDone, S, c

\* commit_txn keeps the invariant, and writes what the transaction has staged.
LEMMA HandleCommitStep ==
  ASSUME SiteKeeps, IInv, NEW t \in Txn, NEW s \in Site, HandleCommit(t, s)
  PROVE  /\ IInv' /\ Moves(t, s, CommitTxn(site[s], t), {FinishedReply}) /\ co[t].phase = "commit"
         /\ Ends(site[s], CommitTxn(site[s], t), mode.lock, t, Written(site[s], t))
<1> DEFINE S == site[s]
           N == CommitTxn(S, t)
           op == "commit"
<1>1. SiteInv(S, mode.lock) /\ TxAt(t)[s] = S.tx[t]
      BY DEF IInv, InvAt, TxAt
<1>2. Take(t, s, op) /\ At(t, s, N, {FinishedReply}) /\ op \in {"commit", "abort"}
      BY DEF HandleCommit, FinishedReply
<1>3. ASSUME TxAt(t)[s].in, Idle(TxAt(t)[s]), Holds(TxAt(t)[s])
      PROVE  Ends(S, N, mode.lock, t, Written(S, t))
      BY <1>1, <1>3, Zenon DEF Holds, SiteKeeps, CommitKeeps
<1> DEFINE V == Written(S, t)
<1>4. FinishTaken(t, s, op, N, V)
      BY <1>2, <1>3, Zenon DEF FinishTaken
<1> HIDE DEF S, N, op, V
<1>5. IInv' /\ Moves(t, s, N, {FinishedReply}) /\ co[t].phase = op /\ Ends(site[s], N, mode.lock, t, V)
  <2>1. IInv' /\ FinishDone(t, s, op, N, V)
        BY <1>4, FinishStep, Zenon
  <2> QED BY <2>1, Zenon DEF FinishDone
<1> QED BY <1>5, ZenonT(40) DEF S, N, op, V

\* abort_txn keeps the invariant, and nobody sees it.
LEMMA HandleAbortStep ==
  ASSUME SiteKeeps, IInv, NEW t \in Txn, NEW s \in Site, HandleAbort(t, s)
  PROVE  IInv' /\ UNCHANGED Shown
<1> DEFINE S == site[s]
           N == AbortTxn(S, t)
           op == "abort"
           V == S.val
<1>1. SiteInv(S, mode.lock) /\ TxAt(t)[s] = S.tx[t]
      BY DEF IInv, InvAt, TxAt
<1>2. Take(t, s, op) /\ At(t, s, N, {FinishedReply}) /\ op \in {"commit", "abort"}
      BY DEF HandleAbort, FinishedReply
<1>3. TxAt(t)[s].in /\ Idle(TxAt(t)[s]) => Ends(S, N, mode.lock, t, V)
      BY <1>1, Zenon DEF SiteKeeps, AbortKeeps
<1>4. FinishTaken(t, s, op, N, V)
      BY <1>2, <1>3, ZenonT(40) DEF FinishTaken
<1> HIDE DEF S, N, op, V
<1>5. IInv' /\ Moves(t, s, N, {FinishedReply}) /\ co[t].phase = op /\ Ends(site[s], N, mode.lock, t, V)
  <2>1. IInv' /\ FinishDone(t, s, op, N, V)
        BY <1>4, FinishStep, Zenon
  <2> QED BY <2>1, Zenon DEF FinishDone
<1>6. SiteInv(N, mode.lock) /\ N.val = site[s].val /\ \A u \in Txn \ {t} : Evolves(site[s].tx[u], N.tx[u])
      BY <1>5, ZenonT(40) DEF Ends, V, S
<1>7. ~Decided(t)
      BY <1>5 DEF Decided, op
<1>8. UNCHANGED Shown
      BY <1>5, <1>6, <1>7, SiteShows, Zenon
<1> QED BY <1>5, <1>8

\* The timeout of a lock keeps the invariant, and nobody sees it.
LEMMA LockTimeoutStep ==
  ASSUME SiteKeeps, IInv, NEW t \in Txn, NEW s \in Site, LockTimeout(t, s)
  PROVE  IInv' /\ UNCHANGED Shown
<1> DEFINE S == site[s]
<1>1. PICK i \in DOMAIN S.tx[t].ps : S.tx[t].ps[i].lock = "wait" /\ At(t, s, Timeout(S, i), {})
      BY Zenon DEF LockTimeout
<1>2. req' = req
      BY Zenon DEF LockTimeout
<1> DEFINE N == Timeout(S, i)
           c == co[t]
           X == TxAt(t)
           Y == TxAt(t)'
           R == rep[t]
           W == rep'[t]
           U == up[t]
<1>3. TxnInv(t, c, X, req[t], R, U) /\ Whole(t, c, X)
      BY ZenonT(40) DEF IInv, InvAt
<1>4. SiteInv(S, mode.lock) /\ S.ok /\ DOMAIN req = Txn
      BY DEF IInv, InvAt, VerifiesHold
<1>5. Moves(t, s, N, {}) /\ TxnMoves(t, s, N, {})
      BY <1>1, AtIs, ZenonT(40) DEF Moves
<1>6. DOMAIN W = Site /\ ButAt(s, R, W) /\ ButAt(s, X, Y) /\ X[s] = S.tx[t] /\ Y[s] = N.tx[t]
      BY <1>5, ZenonT(40) DEF TxnMoves
<1>7. Answered1(X[s], Y[s], R[s], W[s], U[s])
      BY <1>5, MovesAnswer
<1> HIDE DEF c, X, Y, R, W, U, S, N
<1>8. Steps(S, N, mode.lock, t) /\ Evolves(S.tx[t], N.tx[t])
      BY <1>1, <1>4, Zenon DEF N, SiteKeeps, TimeoutKeeps
<1>9. /\ SiteInv(N, mode.lock) /\ N.ok /\ N.val = S.val
      /\ \A u \in Txn \ {t} : Evolves(S.tx[u], N.tx[u])
      BY <1>4, <1>8 DEF Steps
<1>10. ~Y[s].in => Y[s] = NoTx
  <2>1. RanTxn(N, t)
        BY <1>9 DEF SiteInv, SiteInvBut, Ran
  <2> QED BY <1>6, <2>1, Zenon DEF RanTxn
<1>11. TxnInv(t, c, Y, req[t], W, U)
  <2>1. Evolves(X[s], Y[s])
        BY <1>6, <1>8, Zenon
  <2> QED BY <1>3, <1>6, <1>7, <1>10, <2>1, TxnEvolves, Zenon
<1>12. DOMAIN req' = Txn /\ (\A u \in Txn \ {t} : req'[u] = req[u]) /\ TxnInv(t, c, Y, req'[t], W, U)
      BY <1>2, <1>4, <1>11
<1>13. N.tx[t].in => DOMAIN N.tx[t].ps # {}
      BY <1>3, <1>6, <1>8, Zenon DEF Whole, Evolves
<1>14. IInv'
      BY <1>5, <1>9, <1>12, <1>13, SiteStep, Zenon DEF S, c, Y, W, U
<1>15. UNCHANGED Shown
      BY <1>5, <1>8, <1>9, SiteShows, Zenon DEF S
<1> QED BY <1>14, <1>15

\* A connection that breaks keeps the invariant, and nobody sees it.
LEMMA BreakStep ==
  ASSUME IInv, NEW t \in Txn, NEW s \in Site, Break(t, s)
  PROVE  IInv' /\ UNCHANGED Shown
<1> DEFINE c == co[t]
           X == TxAt(t)
           Q == req[t]
           P == req'[t]
           R == rep[t]
           W == rep'[t]
           U == up[t]
           V == up'[t]
<1>1. /\ mode \in Modes /\ DOMAIN site = Site
      /\ DOMAIN co = Txn /\ DOMAIN req = Txn /\ DOMAIN rep = Txn /\ DOMAIN up = Txn
      /\ VerifiesHold /\ \A k \in Site : SiteInv(site[k], mode.lock)
      /\ \A u \in Txn : InvAt(u)
      BY ZenonT(40) DEF IInv, InvAt
<1>2. TxnInv(t, c, X, Q, R, U)
      BY <1>1, ZenonT(40) DEF InvAt
<1>3. /\ mode' = mode /\ site' = site /\ co' = co
      /\ U[s] /\ s \in c.proxies /\ c.phase \in {"prepare", "commit", "abort"}
      /\ up' = [up EXCEPT ![t][s] = FALSE] /\ req' = [req EXCEPT ![t][s] = <<>>]
      BY DEF Break
<1>4. rep' = [rep EXCEPT ![t][s] = IF R[s] # {} \/ Q[s] # <<>> THEN {ErrorReply} ELSE {}]
      BY ZenonT(40) DEF Break, ErrorReply
<1>5. Q \in [Site -> Requests] /\ U \in [Site -> BOOLEAN] /\ DOMAIN R = Site
      BY <1>2 DEF TxnInv
<1> DEFINE b == IF R[s] # {} \/ Q[s] # <<>> THEN {ErrorReply} ELSE {}
<1>6. /\ DOMAIN up' = Txn /\ V = [U EXCEPT ![s] = FALSE] /\ \A u \in Txn \ {t} : up'[u] = up[u]
      BY <1>1, <1>3
<1>7. /\ DOMAIN req' = Txn /\ P = [Q EXCEPT ![s] = <<>>] /\ \A u \in Txn \ {t} : req'[u] = req[u]
      BY <1>1, <1>3
<1> HIDE DEF b
<1>8. /\ DOMAIN rep' = Txn /\ W = [R EXCEPT ![s] = b] /\ \A u \in Txn \ {t} : rep'[u] = rep[u]
      BY <1>1, <1>4 DEF b
<1> HIDE DEF c, X, Q, P, R, W, U, V
<1>9. /\ V = [q \in Site |-> V[q]] /\ V[s] = FALSE /\ ButAt(s, U, V)
      BY <1>5, <1>6, Zenon DEF ButAt
<1>10. /\ P = [q \in Site |-> P[q]] /\ P[s] = <<>> /\ ButAt(s, Q, P)
      BY <1>5, <1>7, Zenon DEF ButAt
<1>11. DOMAIN W = Site /\ W[s] = b /\ ButAt(s, R, W)
      BY <1>5, <1>8 DEF ButAt
<1>12. TxnInv(t, c, X, P, W, V)
      BY <1>2, <1>3, <1>9, <1>10, <1>11, TxnBroken, Zenon DEF b
<1>13. \A u \in Txn : TxAt(u)' = TxAt(u)
      BY <1>3 DEF TxAt
<1>14. ASSUME NEW u \in Txn
       PROVE  TxnInv(u, co'[u], TxAt(u)', req'[u], rep'[u], up'[u]) /\ Whole(u, co'[u], TxAt(u)')
  <2>1. CASE u = t
    <3>1. Whole(t, c, X)
          BY <1>1, ZenonT(40) DEF InvAt, c, X
    <3> QED BY <1>3, <1>12, <1>13, <2>1, <3>1 DEF c, X, P, W, V
  <2>2. CASE u # t
    <3>1. InvAt(u) /\ TxAt(u)' = TxAt(u) /\ up'[u] = up[u] /\ co'[u] = co[u] /\ req'[u] = req[u] /\ rep'[u] = rep[u]
          BY <1>1, <1>3, <1>6, <1>7, <1>8, <1>13, <2>2
    <3> QED BY <3>1 DEF InvAt
  <2> QED BY <2>1, <2>2, Zenon
<1>15. VerifiesHold' /\ \A k \in Site : SiteInv(site'[k], mode'.lock)
      BY <1>1, <1>3 DEF VerifiesHold
<1>16. IInv'
      BY <1>1, <1>3, <1>6, <1>7, <1>8, <1>14, <1>15, Zenon DEF IInv, InvAt
<1>17. UNCHANGED Shown
      BY <1>3 DEF Shown, DB, Result, Seen, Pending, Decided
<1> QED BY <1>16, <1>17

\* A site that nothing was sent to.
LEMMA NewSiteInv ==
  ASSUME NEW kind
  PROVE  SiteInv(NewSite, kind) /\ NewSite.ok /\ \A t \in Txn : NewSite.tx[t] = NoTx
<1> DEFINE b == TRUE
           S == NewSite
           v == NoTx
           L == [c \in Cell |-> <<>>]
<1>1. S = [locks |-> L, tx |-> [t \in Txn |-> v], val |-> [c \in Cell |-> NoTxn], ok |-> b]
      BY Zenon DEF NewSite
<1>2. b \in BOOLEAN /\ b
      OBVIOUS
<1>3. v = NoTx
      OBVIOUS
<1>4. L \in [Cell -> Seq(Request)] /\ \A c \in Cell : L[c] = <<>>
      OBVIOUS
<1> HIDE DEF b, S, v, L
<1>5. S.locks = L /\ S.ok = b /\ S.tx = [t \in Txn |-> v] /\ S.val = [c \in Cell |-> NoTxn]
      BY <1>1
<1>6. \A t \in Txn : S.tx[t] = NoTx
      BY <1>3, <1>5, ZenonT(40)
<1>7. Typed(S)
  <2>1. S = [locks |-> S.locks, tx |-> S.tx, val |-> S.val, ok |-> S.ok]
        BY <1>1
  <2>2. S.val \in [Cell -> Values]
        BY <1>5 DEF Values
  <2>3. \A t \in Txn : TxnTyped(S.tx[t])
        BY <1>6, NoneHas
  <2>4. S.tx = [t \in Txn |-> S.tx[t]]
        BY <1>5
  <2> QED BY <1>2, <1>4, <1>5, <2>1, <2>2, <2>3, <2>4, ZenonT(40) DEF Typed
<1>8. \A c \in Cell : DOMAIN S.locks[c] = {}
      BY <1>4, <1>5
<1>9. Queued(S) /\ OneRequest(S) /\ Ordered(S, kind)
      BY <1>8 DEF Queued, OneRequest, Ordered
<1>10. Asked(S, {})
      BY <1>6, NoneHas DEF Asked
<1>11. Ran(S)
      BY <1>6, NoneHas DEF Ran, RanTxn
<1>12. SiteInv(S, kind)
      BY <1>7, <1>9, <1>10, <1>11 DEF SiteInv, SiteInvBut
<1> QED BY <1>2, <1>5, <1>6, <1>12 DEF S
=============================================================================
