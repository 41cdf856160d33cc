------------------------ MODULE TwoPLSerialProofs ----------------------
(***************************************************************************)
(* The lemmas behind the theorems of module TwoPLProofs: every step of     *)
(* module TwoPL preserves the invariant of module TwoPLInv, and what       *)
(* follows from it of locks, of waiting and of the serial database.        *)
(***************************************************************************)
EXTENDS TwoPLChopperProofs, TwoPLSiteProofs

-----------------------------------------------------------------------------
(* The invariant *)

\* The invariant holds when no transaction has begun.
LEMMA InitInv ==
  ASSUME Init
  PROVE  IInv
<1>1. /\ mode \in Modes /\ site = [s \in Site |-> NewSite]
      /\ req = [t \in Txn |-> [s \in Site |-> <<>>]] /\ rep = [t \in Txn |-> [s \in Site |-> {}]]
      /\ co = [t \in Txn |-> [NewChopper(1) EXCEPT !.phase = "new"]]
      /\ up = [t \in Txn |-> [s \in Site |-> TRUE]]
      BY DEF Init
<1>2. /\ DOMAIN site = Site /\ DOMAIN co = Txn /\ DOMAIN req = Txn /\ DOMAIN rep = Txn /\ DOMAIN up = Txn
      BY <1>1
<1>3. \A s \in Site : site[s] = NewSite
      BY <1>1
<1>4. \A s \in Site : SiteInv(site[s], mode.lock) /\ site[s].ok
      BY <1>3, NewSiteInv
<1>5. ASSUME NEW t \in Txn
      PROVE  TxnInv(t, co[t], TxAt(t), req[t], rep[t], up[t]) /\ Whole(t, co[t], TxAt(t))
  <2> DEFINE c == [NewChopper(1) EXCEPT !.phase = "new"]
  <2>1. \A s \in Site : TxAt(t)[s] = NoTx
        BY <1>3, NewSiteInv DEF TxAt
  <2>2. req[t] = [s \in Site |-> <<>>] /\ rep[t] = [s \in Site |-> {}]
        BY <1>1
  <2>3. up[t] = [s \in Site |-> TRUE]
        BY <1>1
  <2>4. TxnInv(t, c, TxAt(t), req[t], rep[t], up[t])
        BY <2>1, <2>2, <2>3, NewTxnInv
  <2>5. c.phase = "new"
        BY DEF NewChopper
  <2> HIDE DEF c
  <2>6. co[t] = c
        BY <1>1 DEF c
  <2>7. Whole(t, c, TxAt(t))
        BY <2>1, <2>5, NoneHas DEF Whole
  <2> QED BY <2>4, <2>6, <2>7
<1> QED BY <1>1, <1>2, <1>4, <1>5, Zenon DEF IInv, InvAt, VerifiesHold

\* Every step of clients, coordinators, sites and connections keeps the invariant.
LEMMA NextInv ==
  ASSUME FiniteFacts, SiteKeeps, IInv, [Next]_vars
  PROVE  IInv'
<1>1. ASSUME NEW t \in Txn, DoOne(t) PROVE IInv'
      BY <1>1, DoOneStep
<1>2. ASSUME NEW t \in Txn, NEW s \in Site, Callback(t, s) PROVE IInv'
  <2>1. PICK a \in rep[t][s] : \/ StartReply(t, s, a) \/ PrepareReply(t, s, a)
                               \/ FinishReply(t, s, a) \/ StartError(t, s, a)
        BY <1>2 DEF Callback
  <2>2. co[t].phase # "crashed"
        BY <1>2 DEF Callback
  <2> QED BY <2>1, <2>2, StartReplyStep, PrepareReplyStep, FinishReplyStep, StartErrorStep, ZenonT(40)
<1>3. ASSUME NEW t \in Txn, NEW s \in Site, Handle(t, s) PROVE IInv'
      BY <1>3, HandleStartStep, HandlePrepareStep, HandleCommitStep, HandleAbortStep DEF Handle
<1>4. ASSUME NEW t \in Txn, NEW s \in Site, LockTimeout(t, s) \/ Break(t, s) PROVE IInv'
      BY <1>4, LockTimeoutStep, BreakStep
<1>5. ASSUME UNCHANGED vars PROVE IInv'
      BY <1>5 DEF vars, IInv, InvAt, VerifiesHold, TxAt
<1> QED BY <1>1, <1>2, <1>3, <1>4, <1>5 DEF Next, Finished

-----------------------------------------------------------------------------
(* Locks *)

\* The counters of the choppers stay in their ranges, and so do the pieces.
LEMMA TypeFollows ==
  ASSUME FiniteFacts, IInv
  PROVE  TypeOK
<1>1. ASSUME NEW t \in Txn
      PROVE  /\ co[t].phase \in {"new", "start", "prepare", "commit", "abort", "SUCCESS", "REJECT", "crashed"}
             /\ co[t].start_sent \in 0 .. Cardinality(PiecesOf(t))
             /\ co[t].started \in 0 .. Cardinality(PiecesOf(t))
             /\ co[t].prepared \in 0 .. Cardinality(co[t].proxies)
             /\ co[t].finished \in 0 .. Cardinality(co[t].proxies)
  <2> DEFINE c == co[t]
             X == TxAt(t)
             Q == req[t]
             R == rep[t]
             U == up[t]
             n == Cardinality(PiecesOf(t))
             k == Cardinality(c.proxies)
  <2>1. TxnInv(t, c, X, Q, R, U)
        BY DEF IInv, InvAt
  <2> HIDE DEF c, X, Q, R, U
  <2>2. c \in Chopper /\ Counted(t, c, X, Q, R, U)
        BY <2>1 DEF TxnInv
  <2>3. c.phase \in Phase /\ c.sent \subseteq Ids(PiecesOf(t))
        BY <2>2 DEF Chopper, Counted
  <2>4. k \in Nat /\ IsFiniteSet(c.sent)
        BY <2>1, ProxiesFinite
  <2>5. IsFiniteSet(Ids(PiecesOf(t))) /\ Cardinality(Ids(PiecesOf(t))) = n /\ n \in Nat
        BY PiecesFinite
  <2> HIDE DEF n, k
  <2>6. CASE c.phase = "new"
    <3>1. c = [NewChopper(1) EXCEPT !.phase = "new"]
          BY <2>2, <2>6 DEF Counted
    <3>2. c.start_sent = 0 /\ c.started = 0 /\ c.prepared = 0 /\ c.finished = 0
          BY <3>1 DEF NewChopper
    <3> QED BY <2>3, <2>4, <2>5, <3>2 DEF c, n, k, Phase
  <2>7. CASE c.phase \in {"start", "crashed"}
    <3> DEFINE H == Handled(c, X, R, U)
    <3>1. H \subseteq c.sent
          BY DEF Handled
    <3>2. CountStart(c, X, H)
          BY <2>2, <2>7 DEF Counted
    <3> HIDE DEF H
    <3>3. /\ c.started = Cardinality(H) /\ c.start_sent = Cardinality(c.sent \ H)
          /\ c.prepared = 0 /\ c.finished = 0
          BY <3>2 DEF CountStart
    <3>4. H \subseteq Ids(PiecesOf(t)) /\ c.sent \ H \subseteq Ids(PiecesOf(t))
          BY <2>3, <3>1
    <3>5. Cardinality(H) \in Nat /\ Cardinality(H) <= n
          BY <2>5, <3>4, FiniteSubset, FiniteCardinality
    <3>6. Cardinality(c.sent \ H) \in Nat /\ Cardinality(c.sent \ H) <= n
          BY <2>5, <3>4, FiniteSubset, FiniteCardinality
    <3>7. c.start_sent \in 0 .. n /\ c.started \in 0 .. n /\ c.prepared \in 0 .. k /\ c.finished \in 0 .. k
          BY <2>4, <2>5, <3>3, <3>5, <3>6
    <3> QED BY <2>3, <3>7 DEF c, n, k, Phase
  <2>8. CASE c.phase \notin {"new", "start", "crashed"}
    <3>1. CountEnd(t, c, X, QuietSites(c, Q, R))
          BY <2>2, <2>8 DEF Counted
    <3>2. c.start_sent \in 0 .. n /\ c.started \in 0 .. n /\ c.prepared \in 0 .. k /\ c.finished \in 0 .. k
          BY <3>1 DEF CountEnd, n, k
    <3> QED BY <2>3, <3>2 DEF c, n, k, Phase
  <2> QED BY <2>6, <2>7, <2>8
<1>2. ASSUME NEW s \in Site, NEW t \in Txn PROVE DOMAIN site[s].tx[t].ps \subseteq Ids(PiecesOf(t))
  <2>1. Conn(t, co[t], s, TxAt(t)[s], req[t][s], rep[t][s], up[t][s]) /\ TxAt(t)[s] = site[s].tx[t]
        BY ZenonT(40) DEF IInv, InvAt, TxnInv, TxAt
  <2>2. DOMAIN site[s].tx[t].ps \subseteq {p.id : p \in {p \in PiecesOf(t) : p.site = s}}
        BY <2>1 DEF Conn
  <2> QED BY <2>2 DEF Ids
<1> QED BY <1>1, <1>2 DEF TypeOK

\* When all transactions are over and connections are up, no lock is left.
LEMMA NoneLeft ==
  ASSUME IInv
  PROVE  NoLockLeft
<1> SUFFICES ASSUME NEW s \in Site, NEW c \in Cell, NEW k \in DOMAIN site[s].locks[c]
             PROVE  LET a == site[s].locks[c][k]
                    IN  /\ site[s].tx[a.txn].in /\ a.pid \in DOMAIN site[s].tx[a.txn].ps
                        /\ site[s].tx[a.txn].ps[a.pid].lock \in {"wait", "yes"}
                        /\ \A j \in DOMAIN site[s].locks[c] : site[s].locks[c][j].pid = a.pid => j = k
    BY Zenon DEF NoLockLeft
<1>1. QueuedAt(site[s], c, k) /\ OneRequest(site[s])
      BY DEF IInv, InvAt, SiteInv, SiteInvBut, Queued
<1> QED BY <1>1, Zenon DEF QueuedAt, OneRequest

\* A piece that ran has its locks.
LEMMA LocksHeld ==
  ASSUME NEW S, NEW kind, SiteInv(S, kind), NEW t \in Txn, NEW i \in DOMAIN S.tx[t].ps,
         ~S.tx[t].wound, S.tx[t].ps[i].lock = "yes", NEW l \in PieceOf(i).locks
  PROVE  \E k \in DOMAIN S.locks[l[1]] : S.locks[l[1]][k].pid = i /\ Held(S.locks[l[1]], k)
<1>1. PICK k \in DOMAIN S.locks[l[1]] : S.locks[l[1]][k].pid = i
      BY ZenonT(40) DEF SiteInv, SiteInvBut, Asked
<1>2. PieceOf(i).txn = t /\ i \in Ids(Piece)
      BY ZenonT(40) DEF SiteInv, SiteInvBut, Ran, RanTxn, RanPiece, Typed, TxnTyped
<1>3. l[1] \in Cell
      BY <1>2, PieceIs
<1>4. QueuedAt(S, l[1], k)
      BY <1>1, <1>3 DEF SiteInv, SiteInvBut, Queued
<1>5. Held(S.locks[l[1]], k)
      BY <1>1, <1>2, <1>4, ZenonT(40) DEF QueuedAt
<1> QED BY <1>1, <1>5, ZenonT(40)

\* A piece that succeeded in a transaction with no waiting piece has its locks.
LEMMA RanLocked ==
  ASSUME NEW S, NEW kind, SiteInv(S, kind), NEW t \in Txn, Idle(S.tx[t]), NEW i \in DOMAIN S.tx[t].ps,
         S.tx[t].ps[i].res = "SUCCESS"
  PROVE  S.tx[t].ps[i].lock = "yes"
<1>1. S.tx[t].ps[i].lock \in {"none", "wait", "yes", "no"}
      BY ZenonT(40) DEF SiteInv, SiteInvBut, Typed, TxnTyped, PieceAt
<1>2. S.tx[t].ps[i].lock \in {"none", "no"} => S.tx[t].ps[i].res = "REJECT"
      BY DEF SiteInv, SiteInvBut, Ran, RanTxn, RanPiece
<1>3. S.tx[t].ps[i].lock # "wait"
      BY DEF Idle
<1> QED BY <1>1, <1>2, <1>3, ZenonT(40)

\* A transaction that commits has all its locks at each site.
LEMMA CommitsHold ==
  ASSUME IInv
  PROVE  CommitHoldsLocks
<1> SUFFICES ASSUME NEW t \in Txn, NEW s \in Site, Decided(t), site[s].tx[t].in
             PROVE  LET S == site[s]
                    IN  /\ S.tx[t].prepared /\ ~S.tx[t].wound
                        /\ \A i \in DOMAIN S.tx[t].ps : /\ S.tx[t].ps[i].res = "SUCCESS"
                             /\ \A l \in PieceOf(i).locks : \E k \in DOMAIN S.locks[l[1]] :
                                  S.locks[l[1]][k].pid = i /\ Held(S.locks[l[1]], k)
    BY DEF CommitHoldsLocks
<1> DEFINE S == site[s]
<1>1. Idle(S.tx[t]) /\ Holds(S.tx[t])
      BY DecidedHolds
<1>2. SiteInv(S, mode.lock)
      BY DEF IInv, InvAt
<1> HIDE DEF S
<1>3. S.tx[t].prepared /\ ~S.tx[t].wound /\ \A i \in DOMAIN S.tx[t].ps : S.tx[t].ps[i].res = "SUCCESS"
      BY <1>1 DEF Holds, AllSucceeded
<1>4. ASSUME NEW i \in DOMAIN S.tx[t].ps PROVE S.tx[t].ps[i].lock = "yes"
      BY <1>1, <1>2, <1>3, RanLocked, ZenonT(40)
<1>5. ASSUME NEW i \in DOMAIN S.tx[t].ps, NEW l \in PieceOf(i).locks
      PROVE  \E k \in DOMAIN S.locks[l[1]] : S.locks[l[1]][k].pid = i /\ Held(S.locks[l[1]], k)
  <2>1. S.tx[t].ps[i].lock = "yes" /\ ~S.tx[t].wound
        BY <1>3, <1>4, ZenonT(40)
  <2> QED BY <1>2, <2>1, LocksHeld, ZenonT(40)
<1> QED BY <1>3, <1>5, ZenonT(40) DEF S

-----------------------------------------------------------------------------
(* Waiting *)

\* A finite set of numbers has a least and a greatest one.
LEMMA Extremes ==
  ASSUME FiniteFacts, NEW T \in SUBSET Nat, IsFiniteSet(T), T # {}
  PROVE  \E l, m \in T : \A k \in T : l <= k /\ k <= m
<1> DEFINE n == Cardinality(T)
           q == InOrder(T)
<1>1. /\ n \in Nat /\ q \in [1 .. n -> T]
      /\ \A i, j \in 1 .. n : i < j => q[i] < q[j]
      /\ \A i \in T : \E j \in 1 .. n : q[j] = i
      BY InOrderIs, Zenon
<1> HIDE DEF n, q
<1>2. PICK e \in 1 .. n : TRUE
      BY <1>1, Zenon
<1>3. 1 \in 1 .. n /\ n \in 1 .. n
      BY <1>1, <1>2
<1>4. \A j \in 1 .. n : q[j] \in Nat /\ q[1] <= q[j] /\ q[j] <= q[n]
  <2> SUFFICES ASSUME NEW j \in 1 .. n PROVE q[j] \in Nat /\ q[1] <= q[j] /\ q[j] <= q[n]
      OBVIOUS
  <2>1. q[j] \in Nat /\ q[1] \in Nat /\ q[n] \in Nat
        BY <1>1, <1>3, ZenonT(40)
  <2>2. (1 < j => q[1] < q[j]) /\ (j < n => q[j] < q[n])
        BY <1>1, <1>3
  <2>3. (j = 1 \/ 1 < j) /\ (j = n \/ j < n)
        BY <1>1
  <2> QED BY <2>1, <2>2, <2>3
<1>5. \A k \in T : q[1] <= k /\ k <= q[n]
      BY <1>1, <1>4
<1> QED BY <1>1, <1>3, <1>5, ZenonT(40)

\* Who waits for whom, at a site.
LEMMA WaitsAt ==
  ASSUME IInv, NEW t \in Txn, NEW u \in Txn, WaitsFor(t, u)
  PROVE  \E s \in Site : /\ ~Idle(site[s].tx[t])
                         /\ mode.lock = "wait_die" => u > t
                         /\ mode.lock = "wound_die" => u < t \/ site[s].tx[u].prepared
<1>1. PICK s \in Site, c \in Cell : \E j, k \in DOMAIN site[s].locks[c] :
             LET q == site[s].locks[c]
             IN  j < k /\ q[j].txn = u /\ q[k].txn = t /\ Against(q[j], q[k].type)
                 /\ site[s].tx[t].ps[q[k].pid].lock = "wait"
      BY ZenonT(40) DEF WaitsFor
<1> DEFINE S == site[s]
           q == S.locks[c]
<1>2. PICK j, k \in DOMAIN q : j < k /\ q[j].txn = u /\ q[k].txn = t /\ Against(q[j], q[k].type)
                                /\ S.tx[t].ps[q[k].pid].lock = "wait"
      BY <1>1, Zenon
<1>3. Ordered(S, mode.lock) /\ QueuedAt(S, c, k)
      BY ZenonT(40) DEF IInv, InvAt, SiteInv, SiteInvBut, Queued
<1>4. MayPrecede(S, mode.lock, q[j], q[k])
      BY <1>2, <1>3, ZenonT(40) DEF Ordered
<1>5. q[k].pid \in DOMAIN S.tx[t].ps
      BY <1>2, <1>3, ZenonT(40) DEF QueuedAt
<1>6. ~Idle(S.tx[t])
      BY <1>2, <1>5, Zenon DEF Idle
<1> QED BY <1>2, <1>4, <1>6, ZenonT(40) DEF MayPrecede

\* A transaction that is prepared at a site waits at none, when no connection
\* is broken.
LEMMA PreparedIdle ==
  ASSUME IInv, AllUp, NEW t \in Txn, NEW s \in Site, site[s].tx[t].prepared, NEW k \in Site
  PROVE  Idle(site[k].tx[t])
<1> DEFINE c == co[t]
           X == TxAt(t)
           Q == req[t]
           R == rep[t]
           U == up[t]
<1>1. /\ c \in Chopper /\ \A m \in Site : Conn(t, c, m, X[m], Q[m], R[m], U[m])
      /\ c.phase = "new" => c = [NewChopper(1) EXCEPT !.phase = "new"]
      BY DEF IInv, InvAt, TxnInv, Counted
<1>2. X[s] = site[s].tx[t] /\ X[k] = site[k].tx[t] /\ U[s] /\ U[k]
      BY DEF TxAt, AllUp
<1> HIDE DEF c, X, Q, R, U
<1>3. s \in c.proxies /\ c.phase \notin {"start", "crashed"}
  <2>1. s \in c.proxies
    <3>1. s \notin c.proxies => X[s] = NoTx
          BY <1>1, <1>2 DEF Conn, ConnUnused
    <3> QED BY <1>2, <3>1, NoneHas, ZenonT(40)
  <2>2. c.phase \in {"start", "crashed"} => ConnStart(c, s, X[s], Q[s], R[s], U[s])
        BY <1>1, <2>1 DEF Conn
  <2> QED BY <1>2, <2>1, <2>2 DEF ConnStart
<1>4. c.phase # "new"
  <2>1. c.phase = "new" => c.proxies = {}
        BY <1>1 DEF NewChopper
  <2> QED BY <1>3, <2>1
<1>5. c.phase \in {"prepare", "commit", "abort", "SUCCESS", "REJECT"}
      BY <1>1, <1>3, <1>4, ZenonT(40) DEF Chopper, Phase
<1>6. CASE k \notin c.proxies
  <2>1. X[k] = NoTx
        BY <1>1, <1>2, <1>6, ZenonT(40) DEF Conn, ConnUnused
  <2> QED BY <1>2, <2>1, NoneHas, ZenonT(40) DEF Idle
<1>7. CASE k \in c.proxies
  <2>1. Conn(t, c, k, X[k], Q[k], R[k], U[k])
        BY <1>1, ZenonT(40)
  <2>2. Idle(X[k])
        BY <1>5, <1>7, <2>1, ZenonT(40) DEF Conn, ConnPrepare, ConnFinish, ConnOver
  <2> QED BY <1>2, <2>2
<1> QED BY <1>6, <1>7, ZenonT(40)

\* wait-die orders the waiting by age; with wound-die a transaction waits for
\* older or for prepared ones, which do not wait.
LEMMA NoneInCircle ==
  ASSUME FiniteFacts, IInv
  PROVE  NoCircle
<1> SUFFICES ASSUME mode.lock # "timeout", AllUp, NEW T \in (SUBSET Txn) \ {{}}
             PROVE  \E t \in T : \A u \in T : ~WaitsFor(t, u)
    BY DEF NoCircle
<1>1. T \in SUBSET Txn /\ T # {} /\ T \in SUBSET Nat /\ IsFiniteSet(T)
      BY PiecesAssumption, FiniteSubset, ZenonT(40)
<1>2. mode.lock \in {"wait_die", "wound_die"}
      BY ModesAssumption DEF IInv, InvAt
<1>3. CASE mode.lock = "wait_die"
  <2>1. PICK t \in T : \A u \in T : u <= t
        BY <1>1, Extremes
  <2>2. ASSUME NEW u \in T, WaitsFor(t, u) PROVE FALSE
    <3>1. u > t
          BY <1>1, <1>3, <2>2, WaitsAt, ZenonT(40)
    <3>2. u <= t /\ u \in Nat /\ t \in Nat
          BY <1>1, <2>1
    <3> QED BY <3>1, <3>2
  <2> QED BY <2>2
<1>4. CASE mode.lock = "wound_die" /\ \E t \in T : \A s \in Site : Idle(site[s].tx[t])
  <2>1. PICK t \in T : \A s \in Site : Idle(site[s].tx[t])
        BY <1>4
  <2>2. \A u \in T : ~WaitsFor(t, u)
        BY <1>1, <2>1, WaitsAt, ZenonT(40)
  <2> QED BY <2>2
<1>5. CASE mode.lock = "wound_die" /\ \A t \in T : \E s \in Site : ~Idle(site[s].tx[t])
  <2>1. \A t \in T, s \in Site : ~site[s].tx[t].prepared
        BY <1>1, <1>5, PreparedIdle, ZenonT(40)
  <2>2. PICK t \in T : \A u \in T : t <= u
        BY <1>1, Extremes
  <2>3. ASSUME NEW u \in T, WaitsFor(t, u) PROVE FALSE
    <3>1. u < t
          BY <1>1, <1>5, <2>1, <2>3, WaitsAt, ZenonT(40)
    <3>2. t <= u /\ u \in Nat /\ t \in Nat
          BY <1>1, <2>2
    <3> QED BY <3>1, <3>2
  <2> QED BY <2>3
<1> QED BY <1>2, <1>3, <1>4, <1>5, ZenonT(40)

-----------------------------------------------------------------------------
(* The database that the clients see *)

\* A piece that is at a site is one of its transaction's, for that site.
LEMMA PieceIsAt ==
  ASSUME IInv, NEW t \in Txn, NEW s \in Site, NEW i \in DOMAIN site[s].tx[t].ps
  PROVE  PieceOf(i) \in PiecesOf(t) /\ PieceOf(i) \in Piece /\ PieceOf(i).site = s /\ i \in Ids(PiecesOf(t))
<1>1. Conn(t, co[t], s, TxAt(t)[s], req[t][s], rep[t][s], up[t][s]) /\ TxAt(t)[s] = site[s].tx[t]
      BY ZenonT(40) DEF IInv, InvAt, TxnInv, TxAt
<1>2. PICK p \in PiecesOf(t) : p.site = s /\ p.id = i
      BY <1>1 DEF Conn
<1>3. PieceOf(i) = p /\ p \in Piece
      BY <1>2, PieceIsOf, ZenonT(40) DEF PiecesOf
<1> QED BY <1>2, <1>3, ZenonT(40) DEF Ids

\* What is staged at a site was staged by a piece that has its locks.
LEMMA StagedBy ==
  ASSUME IInv, NEW t \in Txn, NEW s \in Site, NEW c \in site[s].tx[t].updates
  PROVE  /\ site[s].tx[t].in /\ c \in Writes[t] /\ c \in Used /\ SiteOf(c) = s
         /\ \E i \in DOMAIN site[s].tx[t].ps : c \in PieceOf(i).writes /\ site[s].tx[t].ps[i].lock = "yes"
<1>1. RanTxn(site[s], t)
      BY DEF IInv, InvAt, SiteInv, SiteInvBut, Ran
<1>2. PICK i \in DOMAIN site[s].tx[t].ps : c \in PieceOf(i).writes /\ site[s].tx[t].ps[i].lock = "yes"
      BY <1>1, ZenonT(40) DEF RanTxn
<1>3. site[s].tx[t].in
      BY <1>1, <1>2, NoneHas, ZenonT(40) DEF RanTxn
<1>4. PieceOf(i) \in PiecesOf(t) /\ PieceOf(i) \in Piece /\ PieceOf(i).site = s
      BY PieceIsAt
<1>5. c \in Used /\ SiteOf(c) = s
      BY <1>2, <1>4, UsedAt, ZenonT(40)
<1>6. c \in Writes[t]
      BY <1>2, <1>4 DEF Writes
<1> QED BY <1>2, <1>3, <1>5, <1>6, ZenonT(40)

\* Two transactions at a site do not share what one of them writes.
LEMMA NoneShared ==
  ASSUME SiteKeeps, NEW S, NEW kind, SiteInv(S, kind), NEW t \in Txn, NEW u \in Txn, t # u,
         ~S.tx[t].wound, ~S.tx[u].wound,
         NEW i \in DOMAIN S.tx[t].ps, NEW j \in DOMAIN S.tx[u].ps,
         S.tx[t].ps[i].lock = "yes", S.tx[u].ps[j].lock = "yes"
  PROVE  PieceOf(j).writes \cap (PieceOf(i).reads \cup PieceOf(i).writes) = {}
BY Zenon DEF SiteKeeps, Excludes

\* Only one transaction has updates pending for a cell.
LEMMA PendingOne ==
  ASSUME SiteKeeps, IInv, NEW c \in Used, NEW t \in Pending(c)
  PROVE  Pending(c) = {t} /\ DB[c] = t
<1>1. PICK p \in Piece : c \in p.reads \cup p.writes
      BY DEF Used
<1> DEFINE s == SiteOf(c)
           S == site[s]
<1>2. s \in Site /\ SiteInv(S, mode.lock)
      BY <1>1, UsedAt, ZenonT(40) DEF IInv, InvAt
<1>3. ASSUME NEW u \in Pending(c)
      PROVE  /\ u \in Txn /\ ~S.tx[u].wound
             /\ \E i \in DOMAIN S.tx[u].ps : c \in PieceOf(i).writes /\ S.tx[u].ps[i].lock = "yes"
  <2>1. u \in Txn /\ Decided(u) /\ c \in S.tx[u].updates
        BY ZenonT(40) DEF Pending
  <2>2. S.tx[u].in /\ \E i \in DOMAIN S.tx[u].ps : c \in PieceOf(i).writes /\ S.tx[u].ps[i].lock = "yes"
        BY <1>2, <2>1, StagedBy, ZenonT(40)
  <2>3. Holds(S.tx[u])
        BY <1>2, <2>1, <2>2, DecidedHolds, ZenonT(40)
  <2> QED BY <2>1, <2>2, <2>3, ZenonT(40) DEF Holds
<1> HIDE DEF s, S
<1>4. ASSUME NEW u \in Pending(c), u # t PROVE FALSE
  <2>1. PICK i \in DOMAIN S.tx[t].ps : c \in PieceOf(i).writes /\ S.tx[t].ps[i].lock = "yes"
        BY <1>3
  <2>2. PICK j \in DOMAIN S.tx[u].ps : c \in PieceOf(j).writes /\ S.tx[u].ps[j].lock = "yes"
        BY <1>3, <1>4
  <2>3. t \in Txn /\ u \in Txn /\ ~S.tx[t].wound /\ ~S.tx[u].wound
        BY <1>3, <1>4, ZenonT(40)
  <2>4. PieceOf(j).writes \cap (PieceOf(i).reads \cup PieceOf(i).writes) = {}
        BY <1>2, <1>4, <2>1, <2>2, <2>3, NoneShared, ZenonT(40)
  <2> QED BY <2>1, <2>2, <2>4, ZenonT(40)
<1>5. Pending(c) = {t}
      BY <1>4
<1>6. DB[c] = CHOOSE u \in Pending(c) : TRUE
      BY <1>5 DEF DB
<1> QED BY <1>5, <1>6, ZenonT(40)

\* When nothing is pending for a cell, the database has what the row has.
LEMMA NonePending ==
  ASSUME NEW c \in Used, Pending(c) = {}
  PROVE  DB[c] = site[SiteOf(c)].val[c]
BY ZenonT(40) DEF DB

\* All pieces of t have their locks and have run, and what they have read.
RanWith(x, i) == ~x.wound /\ i \in DOMAIN x.ps /\ x.ps[i].lock = "yes" /\ x.ps[i].res = "SUCCESS"
AllRan(t) == \A p \in PiecesOf(t) : RanWith(site[p.site].tx[t], p.id)
ReadBy(t) == UNION {site[p.site].tx[t].ps[p.id].out : p \in PiecesOf(t)}

\* A piece of a transaction all of whose pieces ran has run at its site.
LEMMA RanPieceAt ==
  ASSUME IInv, NEW t \in Txn, NEW p \in PiecesOf(t), AllRan(t)
  PROVE  /\ p \in Piece /\ p.site \in Site /\ PieceOf(p.id) = p
         /\ RanWith(site[p.site].tx[t], p.id) /\ RanPiece(site[p.site], t, p.id)
<1>1. p \in Piece /\ PieceOf(p.id) = p /\ p.site \in Site
      BY PieceIsOf, SitesAssumption, ZenonT(40) DEF PiecesOf
<1>2. RanWith(site[p.site].tx[t], p.id)
      BY ZenonT(40) DEF AllRan
<1>3. RanTxn(site[p.site], t)
      BY <1>1 DEF IInv, InvAt, SiteInv, SiteInvBut, Ran
<1> QED BY <1>1, <1>2, <1>3, ZenonT(40) DEF RanTxn, RanWith

\* No other transaction has updates pending for what t accesses.
LEMMA NonePendingFor ==
  ASSUME SiteKeeps, IInv, NEW t \in Txn, ~Decided(t), AllRan(t), NEW p \in PiecesOf(t), NEW c \in p.reads \cup p.writes
  PROVE  Pending(c) = {}
<1> SUFFICES ASSUME NEW u \in Pending(c) PROVE FALSE
    OBVIOUS
<1> DEFINE s == p.site
           S == site[s]
           i == p.id
<1>1. p \in Piece /\ s \in Site /\ PieceOf(i) = p /\ RanWith(S.tx[t], i)
      BY RanPieceAt, ZenonT(40)
<1>2. SiteOf(c) = s /\ SiteInv(S, mode.lock)
      BY <1>1, UsedAt, ZenonT(40) DEF IInv, InvAt
<1>3. u \in Txn /\ Decided(u) /\ c \in S.tx[u].updates /\ u # t
      BY <1>2, ZenonT(40) DEF Pending
<1>4. S.tx[u].in /\ \E j \in DOMAIN S.tx[u].ps : c \in PieceOf(j).writes /\ S.tx[u].ps[j].lock = "yes"
      BY <1>1, <1>3, StagedBy, ZenonT(40)
<1>5. ~S.tx[u].wound
      BY <1>1, <1>3, <1>4, DecidedHolds, ZenonT(40) DEF Holds
<1> HIDE DEF s, S, i
<1>6. PICK j \in DOMAIN S.tx[u].ps : c \in PieceOf(j).writes /\ S.tx[u].ps[j].lock = "yes"
      BY <1>4, ZenonT(40)
<1>7. PieceOf(j).writes \cap (PieceOf(i).reads \cup PieceOf(i).writes) = {}
      BY <1>1, <1>2, <1>3, <1>5, <1>6, NoneShared, ZenonT(40) DEF RanWith
<1> QED BY <1>1, <1>6, <1>7, ZenonT(40)

\* What is staged when all have run.
LEMMA AllStaged ==
  ASSUME IInv, NEW t \in Txn, AllRan(t), NEW c \in Used
  PROVE  c \in site[SiteOf(c)].tx[t].updates <=> c \in Writes[t]
<1>1. SiteOf(c) \in Site
      BY UsedSite, ZenonT(40)
<1>2. ASSUME c \in Writes[t] PROVE c \in site[SiteOf(c)].tx[t].updates
  <2>1. PICK p \in PiecesOf(t) : c \in p.writes
        BY <1>2 DEF Writes
  <2>2. /\ p \in Piece /\ PieceOf(p.id) = p
        /\ RanWith(site[p.site].tx[t], p.id) /\ RanPiece(site[p.site], t, p.id)
        BY RanPieceAt
  <2>3. SiteOf(c) = p.site
        BY <2>1, <2>2, UsedAt, ZenonT(40)
  <2> QED BY <2>1, <2>2, <2>3, ZenonT(40) DEF RanWith, RanPiece
<1> QED BY <1>1, <1>2, StagedBy

\* What the pieces have read is the database.
LEMMA SeesDatabase ==
  ASSUME SiteKeeps, IInv, NEW t \in Txn, ~Decided(t), AllRan(t)
  PROVE  ReadBy(t) \subseteq Used \X (Txn \cup {NoTxn}) /\ SD!MaySee(t, ReadBy(t))
<1>1. ASSUME NEW c \in Reads[t] PROVE \E v \in Txn \cup {NoTxn} : <<c, v>> \in ReadBy(t)
  <2>1. PICK p \in PiecesOf(t) : c \in p.reads
        BY <1>1 DEF Reads
  <2>2. PieceOf(p.id) = p /\ RanWith(site[p.site].tx[t], p.id) /\ RanPiece(site[p.site], t, p.id)
        BY RanPieceAt, ZenonT(40)
  <2>3. \E v \in Values : <<c, v>> \in site[p.site].tx[t].ps[p.id].out
        BY <2>1, <2>2, ZenonT(40) DEF RanWith, RanPiece
  <2> QED BY <2>3, ZenonT(40) DEF Values, ReadBy
<1>2. ASSUME NEW e \in ReadBy(t)
      PROVE  /\ e \in Used \X (Txn \cup {NoTxn}) /\ e[1] \in Reads[t]
             /\ e[2] = DB[e[1]] \/ (e[2] = t /\ e[1] \in Writes[t])
  <2>1. PICK p \in PiecesOf(t) : e \in site[p.site].tx[t].ps[p.id].out
        BY DEF ReadBy
  <2> DEFINE S == site[p.site]
             i == p.id
  <2>2. p \in Piece /\ p.site \in Site /\ PieceOf(i) = p /\ RanWith(S.tx[t], i) /\ RanPiece(S, t, i)
        BY RanPieceAt, ZenonT(40)
  <2>3. e \in Cell \X Values
    <3>1. TxnTyped(S.tx[t])
          BY <2>2, ZenonT(40) DEF IInv, InvAt, SiteInv, SiteInvBut, Typed
    <3>2. S.tx[t].ps[i] \in PieceAt
          BY <2>2, <3>1, ZenonT(40) DEF TxnTyped, RanWith
    <3> QED BY <2>1, <3>2, ZenonT(40) DEF PieceAt
  <2>4. e[1] \in p.reads /\ Current(S, t, e)
        BY <2>1, <2>2, ZenonT(40) DEF RanWith, RanPiece
  <2>5. e[1] \in Used /\ SiteOf(e[1]) = p.site /\ e[1] \in Reads[t]
        BY <2>2, <2>4, UsedAt, ZenonT(40) DEF Reads
  <2>6. Pending(e[1]) = {}
        BY <2>4, NonePendingFor, ZenonT(40)
  <2>7. DB[e[1]] = S.val[e[1]]
        BY <2>5, <2>6, NonePending
  <2>8. e[1] \in S.tx[t].updates => e[1] \in Writes[t]
        BY <2>2, StagedBy, ZenonT(40)
  <2> QED BY <2>3, <2>4, <2>5, <2>7, <2>8, ZenonT(40) DEF Current, Values
<1>3. SD!MaySee(t, ReadBy(t))
      BY <1>1, <1>2, ZenonT(40) DEF SD!MaySee
<1> QED BY <1>2, <1>3, ZenonT(40)


-----------------------------------------------------------------------------
(* The serial database *)

\* A cell whose row and pending updates stay the same stays the same.
LEMMA CellKept ==
  ASSUME NEW b \in Used, Pending(b)' = Pending(b), site'[SiteOf(b)].val[b] = site[SiteOf(b)].val[b]
  PROVE  DB'[b] = DB[b]
<1> DEFINE one(T) == CHOOSE u \in T : TRUE
           v(c)   == IF Pending(c) = {} THEN site[SiteOf(c)].val[c] ELSE one(Pending(c))
<1>1. DB = [c \in Used |-> v(c)] /\ DB' = [c \in Used |-> v(c)']
      BY Zenon DEF DB
<1> HIDE DEF one
<1>2. v(b)' = v(b)
      BY Zenon
<1> HIDE DEF v
<1> QED BY <1>1, <1>2

\* A coordinator has a step that changes nothing for its client.
LEMMA CoordinatorShows ==
  ASSUME IInv, NEW t \in Txn, NEW s, NEW a, NEW c, NEW m, Coordinate(t, s, a, c, m),
         c.phase \in {"commit", "SUCCESS"} <=> Decided(t), c.phase = "REJECT" <=> co[t].phase = "REJECT",
         Decided(t) => c.out = co[t].out
  PROVE  UNCHANGED Shown
<1>1. DOMAIN co = Txn
      BY DEF IInv, InvAt
<1>2. site' = site /\ co' = [co EXCEPT ![t] = c]
      BY DEF Coordinate
<1>3. co'[t] = c /\ \A u \in Txn \ {t} : co'[u] = co[u]
      BY <1>1, <1>2, ZenonT(40)
<1>4. ASSUME NEW u \in Txn
      PROVE  /\ Decided(u)' <=> Decided(u)
             /\ co'[u].phase = "REJECT" <=> co[u].phase = "REJECT"
             /\ Decided(u) => co'[u].out = co[u].out
  <2>1. CASE u = t
        BY <1>3, <2>1, ZenonT(40) DEF Decided
  <2>2. CASE u # t
        BY <1>3, <2>2 DEF Decided
  <2> QED BY <2>1, <2>2, ZenonT(40)
<1>5. Result' = Result /\ Seen' = Seen
      BY <1>4 DEF Result, Seen
<1>6. \A b \in Used : Pending(b)' = Pending(b)
      BY <1>2, <1>4, ZenonT(40) DEF Pending
<1>7. DB' = DB
  <2>1. \A b \in Used : DB'[b] = DB[b]
        BY <1>2, <1>6, CellKept, ZenonT(40)
  <2> QED BY <2>1, ZenonT(40) DEF DB
<1> QED BY <1>5, <1>7, ZenonT(40) DEF Shown

\* A transaction that is neither committing nor answered.
Open(c) == c.phase \in {"new", "start", "prepare", "abort", "crashed"}

\* A step of a coordinator that decides nothing is not seen.
LEMMA OpenShows ==
  ASSUME IInv, NEW t \in Txn, NEW s, NEW a, NEW c, NEW m, Coordinate(t, s, a, c, m), Open(co[t]), Open(c)
  PROVE  UNCHANGED Shown
<1>1. ~Decided(t) /\ c.phase \notin {"commit", "SUCCESS", "REJECT"} /\ co[t].phase # "REJECT"
      BY DEF Open, Decided
<1> QED BY <1>1, CoordinatorShows, ZenonT(40)

\* The answer to a transaction that was aborted is SerialDB's Reject.
LEMMA CoordinatorRejects ==
  ASSUME IInv, NEW t \in Txn, NEW s, NEW a, NEW c, NEW m, Coordinate(t, s, a, c, m),
         co[t].phase = "abort", c.phase = "REJECT"
  PROVE  SD!Reject(t)
<1>1. DOMAIN co = Txn
      BY DEF IInv, InvAt
<1>2. site' = site /\ co' = [co EXCEPT ![t] = c]
      BY DEF Coordinate
<1>3. co'[t] = c /\ \A u \in Txn \ {t} : co'[u] = co[u]
      BY <1>1, <1>2
<1>4. ~Decided(t) /\ ~Decided(t)' /\ \A u \in Txn : Decided(u)' <=> Decided(u)
      BY <1>3 DEF Decided
<1>5. Seen' = Seen
  <2>1. \A u \in Txn : Decided(u) => co'[u].out = co[u].out
        BY <1>3, <1>4, ZenonT(40)
  <2> QED BY <1>4, <2>1, ZenonT(40) DEF Seen
<1>6. \A b \in Used : Pending(b)' = Pending(b)
      BY <1>2, <1>4, ZenonT(40) DEF Pending
<1>7. DB' = DB
  <2>1. \A b \in Used : DB'[b] = DB[b]
        BY <1>2, <1>6, CellKept, ZenonT(40)
  <2> QED BY <2>1 DEF DB
<1>8. Result[t] = "none"
      BY <1>4 DEF Result
<1>9. Result' = [Result EXCEPT ![t] = "REJECT"]
  <2>1. Result' = [u \in Txn |-> CASE Decided(u)' -> "SUCCESS" [] co'[u].phase = "REJECT" -> "REJECT"
                                   [] OTHER -> "none"]
        BY DEF Result
  <2>2. ASSUME NEW u \in Txn PROVE Result'[u] = IF u = t THEN "REJECT" ELSE Result[u]
    <3>1. CASE u = t
          BY <1>3, <1>4, <2>1, <3>1, ZenonT(40)
    <3>2. CASE u # t
          BY <1>3, <1>4, <2>1, <3>2 DEF Result
    <3> QED BY <3>1, <3>2
  <2>3. DOMAIN Result = Txn /\ Result' = [u \in Txn |-> Result'[u]]
        BY DEF Result
  <2> QED BY <2>2, <2>3, ZenonT(40)
<1> QED BY <1>5, <1>7, <1>8, <1>9, ZenonT(40) DEF SD!Reject

\* The decision of finish to commit is SerialDB's Commit: all sites are prepared,
\* and the transaction holds its locks.
LEMMA CoordinatorCommits ==
  ASSUME SiteKeeps, IInv, NEW t \in Txn, NEW s, NEW a, NEW c, NEW m, Coordinate(t, s, a, c, m),
         co[t].phase = "prepare", c.phase = "commit", AllRan(t), c.out = ReadBy(t)
  PROVE  SD!Commit(t)
<1>1. DOMAIN co = Txn
      BY DEF IInv, InvAt
<1>2. site' = site /\ co' = [co EXCEPT ![t] = c]
      BY DEF Coordinate
<1>3. co'[t] = c /\ \A u \in Txn \ {t} : co'[u] = co[u]
      BY <1>1, <1>2, ZenonT(40)
<1>4. ~Decided(t) /\ Decided(t)' /\ \A u \in Txn \ {t} : Decided(u)' <=> Decided(u)
      BY <1>3 DEF Decided
<1>5. Result[t] = "none"
      BY <1>4 DEF Result, Decided
<1>6. Result' = [Result EXCEPT ![t] = "SUCCESS"]
  <2>1. Result' = [u \in Txn |-> CASE Decided(u)' -> "SUCCESS" [] co'[u].phase = "REJECT" -> "REJECT"
                                   [] OTHER -> "none"]
        BY DEF Result
  <2>2. ASSUME NEW u \in Txn PROVE Result'[u] = IF u = t THEN "SUCCESS" ELSE Result[u]
    <3>1. CASE u = t
          BY <1>3, <1>4, <2>1, <3>1, ZenonT(40)
    <3>2. CASE u # t
          BY <1>3, <1>4, <2>1, <3>2 DEF Result
    <3> QED BY <3>1, <3>2
  <2>3. DOMAIN Result = Txn /\ Result' = [u \in Txn |-> Result'[u]]
        BY DEF Result
  <2> QED BY <2>2, <2>3
<1>7. Seen' = [Seen EXCEPT ![t] = ReadBy(t)]
  <2>1. Seen' = [u \in Txn |-> IF Decided(u)' THEN co'[u].out ELSE {}]
        BY DEF Seen
  <2>2. ASSUME NEW u \in Txn PROVE Seen'[u] = IF u = t THEN ReadBy(t) ELSE Seen[u]
    <3>1. CASE u = t
          BY <1>3, <1>4, <2>1, <3>1, ZenonT(40)
    <3>2. CASE u # t
          BY <1>3, <1>4, <2>1, <3>2, ZenonT(40) DEF Seen
    <3> QED BY <3>1, <3>2
  <2> QED BY <2>1, <2>2, ZenonT(40) DEF Seen
<1>8. ASSUME NEW b \in Used PROVE DB'[b] = IF b \in Writes[t] THEN t ELSE DB[b]
  <2>1. DB'[b] = IF Pending(b)' = {} THEN site'[SiteOf(b)].val[b] ELSE CHOOSE u \in Pending(b)' : TRUE
        BY ZenonT(40) DEF DB
  <2>2. b \in site[SiteOf(b)].tx[t].updates <=> b \in Writes[t]
        BY AllStaged, ZenonT(40)
  <2>3. t \notin Pending(b)
        BY <1>4, ZenonT(40) DEF Pending
  <2>4. CASE b \in Writes[t]
    <3>1. PICK p \in PiecesOf(t) : b \in p.writes
          BY <2>4, ZenonT(40) DEF Writes
    <3>2. Pending(b) = {}
          BY <1>4, <3>1, NonePendingFor, ZenonT(40)
    <3>3. Pending(b)' = {t}
          BY <1>2, <1>4, <2>2, <2>4, <3>2, ZenonT(40) DEF Pending
    <3> QED BY <2>1, <2>4, <3>3, ZenonT(40)
  <2>5. CASE b \notin Writes[t]
    <3>1. Pending(b)' = Pending(b)
          BY <1>2, <1>4, <2>2, <2>3, <2>5, ZenonT(40) DEF Pending
    <3> QED BY <1>2, <2>1, <2>5, <3>1 DEF DB
  <2> QED BY <2>4, <2>5, ZenonT(40)
<1>9. DB' = [b \in Used |-> IF b \in Writes[t] THEN t ELSE DB[b]]
      BY <1>8, ZenonT(40) DEF DB
<1>10. ReadBy(t) \subseteq Used \X (Txn \cup {NoTxn}) /\ SD!MaySee(t, ReadBy(t))
      BY <1>4, SeesDatabase, ZenonT(40)
<1> QED BY <1>5, <1>6, <1>7, <1>9, <1>10, ZenonT(40) DEF SD!Commit

\* commit_txn at a site: what was pending there is in its rows.
LEMMA CommitShows ==
  ASSUME SiteKeeps, IInv, NEW t \in Txn, NEW s \in Site, HandleCommit(t, s)
  PROVE  UNCHANGED Shown
<1> DEFINE S == site[s]
           N == CommitTxn(S, t)
<1>1. Moves(t, s, N, {FinishedReply}) /\ co[t].phase = "commit" /\ Ends(S, N, mode.lock, t, Written(S, t))
      BY HandleCommitStep, ZenonT(40)
<1>3. Decided(t)
      BY <1>1, ZenonT(40) DEF Decided
<1>5. Ends(S, N, mode.lock, t, Written(S, t))
      BY <1>1, ZenonT(40)
<1> HIDE DEF N
<1>6. N.val = Written(S, t) /\ N.tx[t].updates = {}
      BY <1>5, NoneHas, ZenonT(40) DEF Ends
<1>7. ASSUME NEW u \in Txn \ {t}, Decided(u) PROVE N.tx[u].updates = S.tx[u].updates
  <2>1. Evolves(S.tx[u], N.tx[u]) /\ RanTxn(N, u)
        BY <1>5, ZenonT(40) DEF Ends, SiteInv, SiteInvBut, Ran
  <2>2. ~N.tx[u].in => N.tx[u] = NoTx
        BY <2>1, ZenonT(40) DEF RanTxn
  <2> QED BY <1>7, <2>1, <2>2, StagedKept, ZenonT(40)
<1>8. co' = co /\ site'[s] = N /\ \A k \in Site \ {s} : site'[k] = site[k]
      BY <1>1 DEF Moves
<1>9. Result' = Result /\ Seen' = Seen /\ \A u \in Txn : Decided(u)' <=> Decided(u)
      BY <1>8 DEF Result, Seen, Decided
<1>10. ASSUME NEW b \in Used PROVE DB'[b] = DB[b]
  <2>1. SiteOf(b) \in Site /\ b \in Cell
        BY UsedSite, ZenonT(40)
  <2>2. CASE SiteOf(b) = s /\ b \in S.tx[t].updates
    <3>1. t \in Pending(b)
          BY <1>3, <2>2 DEF Pending
    <3>2. Pending(b) = {t} /\ DB[b] = t
          BY <3>1, PendingOne, ZenonT(40)
    <3>3. Pending(b)' = {}
          BY <1>6, <1>7, <1>8, <1>9, <2>2, <3>2 DEF Pending
    <3>4. DB'[b] = site'[s].val[b]
          BY <2>2, <3>3, ZenonT(40) DEF DB
    <3> QED BY <1>6, <1>8, <2>1, <2>2, <3>2, <3>4, ZenonT(40) DEF Written
  <2>3. CASE SiteOf(b) = s /\ b \notin S.tx[t].updates
    <3>1. Pending(b)' = Pending(b)
          BY <1>6, <1>7, <1>8, <1>9, <2>3, ZenonT(40) DEF Pending
    <3>2. site'[s].val[b] = S.val[b]
          BY <1>6, <1>8, <2>1, <2>3, ZenonT(40) DEF Written
    <3> QED BY <2>3, <3>1, <3>2 DEF DB
  <2>4. CASE SiteOf(b) # s
    <3>1. site'[SiteOf(b)] = site[SiteOf(b)]
          BY <1>8, <2>1, <2>4, ZenonT(40)
    <3>2. Pending(b)' = Pending(b)
          BY <1>9, <3>1, ZenonT(40) DEF Pending
    <3> QED BY <3>1, <3>2, CellKept, ZenonT(40)
  <2> QED BY <2>2, <2>3, <2>4, ZenonT(40)
<1>11. DB' = DB
      BY <1>10 DEF DB
<1> QED BY <1>9, <1>11, ZenonT(40) DEF Shown

-----------------------------------------------------------------------------
(* The steps of the serial database *)

\* When every site has agreed to commit, all pieces have run.
LEMMA AllHaveRan ==
  ASSUME FiniteFacts, IInv, NEW t \in Txn, NEW s, NEW a, NEW d, TakenNow(t, s, a, d), d.phase = "prepare", d.commit,
         d.prepared = Cardinality(d.proxies)
  PROVE  AllRan(t) /\ d.out = ReadBy(t)
<1> DEFINE X == TxAt(t)
           Q == req[t]
           T == Taken(rep[t], s, a)
           U == up[t]
<1>1. TxnInv(t, d, X, Q, T, U)
      BY DEF TakenNow
<1>2. \A k \in Site : X[k] = site[k].tx[t]
      BY ZenonT(40) DEF TxAt
<1> HIDE DEF X, Q, T, U
<1>3. /\ \A k \in d.proxies : Settled(d, X[k], Q[k], T[k])
      /\ d.sent = Ids(PiecesOf(t)) /\ d.out = UNION {AtSite(X, i).out : i \in d.sent}
      BY <1>1, TxnVoted
<1>4. /\ d.proxies = {PieceOf(i).site : i \in d.sent}
      /\ \A k \in Site : Conn(t, d, k, X[k], Q[k], T[k], U[k])
      BY <1>1, ZenonT(40) DEF TxnInv, Counted
<1>5. ASSUME NEW p \in PiecesOf(t)
      PROVE  /\ RanWith(site[p.site].tx[t], p.id) /\ PieceOf(p.id) = p
             /\ AtSite(X, p.id) = site[p.site].tx[t].ps[p.id]
  <2>1. p \in Piece /\ PieceOf(p.id) = p /\ p.site \in Site
        BY PieceIsOf, SitesAssumption, ZenonT(40) DEF PiecesOf
  <2>2. p.id \in d.sent
        BY <1>3, ZenonT(40) DEF Ids
  <2>3. p.site \in d.proxies
        BY <1>4, <2>1, <2>2, ZenonT(40)
  <2> DEFINE x == site[p.site].tx[t]
  <2>4. X[p.site] = x
        BY <1>2, <2>1, ZenonT(40)
  <2> HIDE DEF x
  <2>5. ConnPrepare(d, p.site, x, Q[p.site], T[p.site], U[p.site])
        BY <1>4, <2>1, <2>3, <2>4, ZenonT(40) DEF Conn
  <2>6. Idle(x) /\ Holds(x)
        BY <1>3, <2>3, <2>4, ZenonT(40) DEF Settled
  <2>7. p.id \in DOMAIN x.ps
        BY <2>1, <2>2, <2>5, ZenonT(40) DEF ConnPrepare, SentTo
  <2>8. ~x.wound /\ x.ps[p.id].res = "SUCCESS"
        BY <2>6, <2>7, ZenonT(40) DEF Holds, AllSucceeded
  <2>9. x.ps[p.id].lock = "yes"
        BY <2>1, <2>6, <2>7, <2>8, RanLocked, ZenonT(40) DEF x, IInv, InvAt
  <2>10. RanWith(x, p.id)
        BY <2>7, <2>8, <2>9, ZenonT(40) DEF RanWith
  <2>11. AtSite(X, p.id) = x.ps[p.id]
        BY <2>1, <2>4, ZenonT(40) DEF AtSite
  <2> QED BY <2>1, <2>10, <2>11, ZenonT(40) DEF x
<1>6. AllRan(t)
      BY <1>5, ZenonT(40) DEF AllRan
<1>7. d.out = UNION {AtSite(X, p.id).out : p \in PiecesOf(t)}
      BY <1>3 DEF Ids
<1>8. d.out = ReadBy(t)
      BY <1>5, <1>7, ZenonT(40) DEF ReadBy
<1> QED BY <1>6, <1>8, ZenonT(40)

\* do_one is not seen.
LEMMA DoOneShows ==
  ASSUME IInv, NEW t \in Txn, DoOne(t)
  PROVE  UNCHANGED Shown
<1> DEFINE P == Ready(t, {}, {})
           c == [co[t] EXCEPT !.phase = "start"]
           e == [c EXCEPT !.loop = "next"]
           f == Starting(c, P)
<1>1. co[t] \in Chopper
      BY DEF IInv, InvAt, TxnInv
<1>2. /\ co[t].phase = "new"
      /\ \/ Coordinate(t, NoTxn, 0, e, NoCall)
         \/ Coordinate(t, NoTxn, 0, f, [q \in Site |-> Calls(P, q)])
      BY DEF DoOne
<1>3. c.phase = "start"
      BY <1>1 DEF Chopper
<1> HIDE DEF c
<1>4. e.phase = "start" /\ f.phase = "start"
  <2>1. c \in Chopper
        BY <1>1, ZenonT(40) DEF Chopper, Phase, c
  <2> QED BY <1>3, <2>1, ZenonT(40) DEF Chopper, Starting
<1> HIDE DEF e, f
<1>5. Open(co[t]) /\ Open(e) /\ Open(f)
      BY <1>2, <1>4, ZenonT(40) DEF Open
<1> QED BY <1>2, <1>5, OpenShows, ZenonT(40)

\* The callback of start is not seen.
LEMMA StartReplyShows ==
  ASSUME FiniteFacts, IInv, NEW t \in Txn, NEW s \in Site, NEW a, StartReply(t, s, a), co[t].phase # "crashed"
  PROVE  UNCHANGED Shown
<1> DEFINE d == Now(co[t], a)
           P == Ready(t, d.sent, d.answered)
           m == [q \in Site |-> Calls(P, q)]
           end == \E k \in DOMAIN a.call : k \notin Good(co[t], a) /\ k = co[t].start_sent
<1>1. /\ co[t].phase = "start" /\ d.phase = "start" /\ TakenNow(t, s, a, d)
      /\ StartGoesOn(t, s, a, co[t], d, P) /\ (end => ~d.commit)
      BY StartReplyTaken, ZenonT(40)
<1> HIDE DEF d, P, m, end
<1>2. d \in Chopper /\ Open(co[t])
      BY <1>1, ZenonT(40) DEF TakenNow, TxnInv, Open
<1>3. ASSUME Coordinate(t, s, a, Finishing(d), ToProxies(d, Finishing(d).phase)), end
      PROVE  UNCHANGED Shown
  <2>1. Open(Finishing(d))
    <3>1. FinishedAs(d, Finishing(d))
          BY <1>2, FinishingIs, ZenonT(40)
    <3> QED BY <1>1, <1>3, <3>1, ZenonT(40) DEF FinishedAs, Open
  <2> QED BY <1>2, <1>3, <2>1, OpenShows, ZenonT(40)
<1>4. ASSUME Coordinate(t, s, a, Starting(d, P), m) PROVE UNCHANGED Shown
  <2>1. Open(Starting(d, P))
        BY <1>1, <1>2 DEF Starting, Chopper, Open
  <2> QED BY <1>2, <1>4, <2>1, OpenShows, ZenonT(40)
<1>5. ASSUME Coordinate(t, s, a, [d EXCEPT !.phase = "prepare"], ToProxies(d, "prepare"))
      PROVE  UNCHANGED Shown
  <2>1. Open([d EXCEPT !.phase = "prepare"])
        BY <1>2, ZenonT(40) DEF Chopper, Open
  <2> QED BY <1>2, <1>5, <2>1, OpenShows, ZenonT(40)
<1>6. ASSUME Coordinate(t, s, a, d, NoCall) PROVE UNCHANGED Shown
  <2>1. Open(d)
        BY <1>1 DEF Open
  <2> QED BY <1>2, <1>6, <2>1, OpenShows, ZenonT(40)
<1> QED BY <1>1, <1>3, <1>4, <1>5, <1>6, ZenonT(40) DEF StartGoesOn, m, end

\* A step of the serial database, or none.
SerialStep == SD!Next \/ UNCHANGED Shown

\* The callback of prepare is not seen, or it commits.
LEMMA PrepareReplySerial ==
  ASSUME FiniteFacts, SiteKeeps, IInv, NEW t \in Txn, NEW s \in Site, NEW a, PrepareReply(t, s, a)
  PROVE  SerialStep
<1> DEFINE d == Prepared(co[t], a)
<1>1. /\ co[t].phase = "prepare" /\ d.phase = "prepare" /\ TakenNow(t, s, a, d)
      /\ IF d.prepared = Cardinality(d.proxies)
         THEN Coordinate(t, s, a, Finishing(d), ToProxies(d, Finishing(d).phase))
         ELSE Coordinate(t, s, a, d, NoCall)
      BY PrepareReplyTaken, ZenonT(40)
<1> HIDE DEF d
<1>2. Open(co[t]) /\ Open(d) /\ d \in Chopper
      BY <1>1 DEF Open, TakenNow, TxnInv
<1>3. CASE d.prepared # Cardinality(d.proxies)
  <2>1. UNCHANGED Shown
        BY <1>1, <1>2, <1>3, OpenShows, ZenonT(40)
  <2> QED BY <2>1, ZenonT(40) DEF SerialStep
<1>4. CASE d.prepared = Cardinality(d.proxies)
  <2> DEFINE e == Finishing(d)
             w == ToProxies(d, Finishing(d).phase)
  <2>1. Coordinate(t, s, a, e, w)
        BY <1>1, <1>4, ZenonT(40)
  <2>2. FinishedAs(d, e)
        BY <1>2, FinishingIs, ZenonT(40)
  <2> HIDE DEF e, w
  <2>3. e.phase \in {"commit", "abort"} /\ e.out = d.out /\ (e.phase = "commit" => d.commit)
        BY <2>2 DEF FinishedAs
  <2>4. CASE e.phase = "commit"
    <3>1. AllRan(t) /\ e.out = ReadBy(t)
          BY <1>1, <1>4, <2>3, <2>4, AllHaveRan, ZenonT(40)
    <3>2. SD!Commit(t)
          BY <1>1, <2>1, <2>4, <3>1, CoordinatorCommits, ZenonT(40)
    <3> QED BY <3>2, ZenonT(40) DEF SerialStep, SD!Next
  <2>5. CASE e.phase = "abort"
    <3>1. UNCHANGED Shown
          BY <1>2, <2>1, <2>5, OpenShows, ZenonT(40) DEF Open
    <3> QED BY <3>1 DEF SerialStep
  <2> QED BY <2>3, <2>4, <2>5, ZenonT(40)
<1> QED BY <1>3, <1>4, ZenonT(40)

\* The callback of finish is not seen, or it rejects.
LEMMA FinishReplySerial ==
  ASSUME FiniteFacts, IInv, NEW t \in Txn, NEW s \in Site, NEW a, FinishReply(t, s, a)
  PROVE  SerialStep
<1> DEFINE d == Counting(co[t])
           P == Ready(t, {}, {})
           m == [q \in Site |-> Calls(P, q)]
<1>1. /\ co[t].phase \in {"commit", "abort"} /\ CountingAs(co[t], d) /\ FinishGoesOn(t, s, a, d)
      /\ d.phase = "commit" => d.res = "SUCCESS"
      /\ d.phase = "abort" => d.res = "REJECT"
      BY FinishReplyTaken, ZenonT(40)
<1> HIDE DEF d, P, m
<1>2. d \in Chopper /\ d.phase = co[t].phase /\ d.out = co[t].out
      BY <1>1 DEF CountingAs
<1>3. ASSUME d.res = "REJECT", Coordinate(t, s, a, Starting(Restarting(d), P), m) PROVE UNCHANGED Shown
  <2>1. Open(co[t])
        BY <1>1, <1>2, <1>3, ZenonT(40) DEF Open
  <2>2. Open(Starting(Restarting(d), P))
        BY DEF Starting, Restarting, NewChopper, Open
  <2> QED BY <1>3, <2>1, <2>2, OpenShows, ZenonT(40)
<1>4. ASSUME Coordinate(t, s, a, [d EXCEPT !.phase = d.res], NoCall) PROVE SerialStep
  <2> DEFINE e == [d EXCEPT !.phase = d.res]
  <2>1. Coordinate(t, s, a, e, NoCall)
        BY <1>4
  <2>2. e.phase = d.res /\ e.out = d.out
        BY <1>2 DEF Chopper
  <2> HIDE DEF e
  <2>3. CASE co[t].phase = "commit"
    <3>1. Decided(t) /\ e.phase = "SUCCESS" /\ e.out = co[t].out
          BY <1>1, <1>2, <2>2, <2>3, ZenonT(40) DEF Decided
    <3>2. UNCHANGED Shown
          BY <2>1, <2>3, <3>1, CoordinatorShows, ZenonT(40)
    <3> QED BY <3>2, ZenonT(40) DEF SerialStep
  <2>4. CASE co[t].phase = "abort"
    <3>1. SD!Reject(t)
          BY <1>1, <1>2, <2>1, <2>2, <2>4, CoordinatorRejects, ZenonT(40)
    <3> QED BY <3>1, ZenonT(40) DEF SerialStep, SD!Next
  <2> QED BY <1>1, <2>3, <2>4, ZenonT(40)
<1>5. ASSUME Coordinate(t, s, a, d, NoCall) PROVE UNCHANGED Shown
      BY <1>1, <1>2, <1>5, CoordinatorShows, ZenonT(40) DEF Decided
<1> QED BY <1>1, <1>3, <1>4, <1>5, ZenonT(40) DEF FinishGoesOn, m, P, SerialStep

\* An error that ends a start is not seen.
LEMMA StartErrorShows ==
  ASSUME IInv, NEW t \in Txn, NEW s \in Site, NEW a, StartError(t, s, a)
  PROVE  UNCHANGED Shown
<1> DEFINE e == [co[t] EXCEPT !.phase = "crashed"]
<1>1. co[t].phase = "start" /\ Coordinate(t, s, a, e, NoCall) /\ co[t] \in Chopper
      BY DEF StartError, IInv, InvAt, TxnInv
<1>2. e.phase = "crashed"
      BY <1>1 DEF Chopper
<1> HIDE DEF e
<1> QED BY <1>1, <1>2, OpenShows, ZenonT(40) DEF Open

\* Every step is one of SerialDB or is not seen.
LEMMA NextSerial ==
  ASSUME FiniteFacts, SiteKeeps, IInv, [Next]_vars
  PROVE  SerialStep
<1>1. ASSUME NEW t \in Txn, DoOne(t) PROVE UNCHANGED Shown
      BY <1>1, DoOneShows, ZenonT(40)
<1>2. ASSUME NEW t \in Txn, NEW s \in Site, Callback(t, s) PROVE SerialStep
  <2>1. PICK a \in rep[t][s] : \/ StartReply(t, s, a) \/ PrepareReply(t, s, a)
                               \/ FinishReply(t, s, a) \/ StartError(t, s, a)
        BY <1>2 DEF Callback
  <2>2. co[t].phase # "crashed"
        BY <1>2 DEF Callback
  <2>3. CASE StartReply(t, s, a) \/ StartError(t, s, a)
        BY <2>2, <2>3, StartReplyShows, StartErrorShows, ZenonT(40) DEF SerialStep
  <2>4. CASE PrepareReply(t, s, a) \/ FinishReply(t, s, a)
        BY <2>4, PrepareReplySerial, FinishReplySerial, ZenonT(40)
  <2> QED BY <2>1, <2>3, <2>4, ZenonT(40)
<1>3. ASSUME NEW t \in Txn, NEW s \in Site, Handle(t, s) PROVE UNCHANGED Shown
      BY <1>3, HandleStartStep, HandlePrepareStep, CommitShows, HandleAbortStep, ZenonT(40) DEF Handle
<1>4. ASSUME NEW t \in Txn, NEW s \in Site, LockTimeout(t, s) \/ Break(t, s) PROVE UNCHANGED Shown
      BY <1>4, LockTimeoutStep, BreakStep, ZenonT(40)
<1>5. ASSUME UNCHANGED vars PROVE UNCHANGED Shown
      BY <1>5 DEF vars, Shown, DB, Result, Seen, Pending, Decided
<1> QED BY <1>1, <1>2, <1>3, <1>4, <1>5, ZenonT(40) DEF Next, Finished, SerialStep

\* The initial states are SerialDB's.
LEMMA InitSerial ==
  ASSUME Init
  PROVE  SD!Init
<1>1. /\ \A t \in Txn : co[t].phase = "new"
      /\ \A s \in Site : site[s] = NewSite
      BY DEF Init, NewChopper
<1>2. \A t \in Txn : ~Decided(t) /\ co[t].phase # "REJECT"
      BY <1>1, ZenonT(40) DEF Decided
<1>3. \A c \in Used : Pending(c) = {}
      BY <1>2, ZenonT(40) DEF Pending
<1>4. ASSUME NEW c \in Used PROVE DB[c] = NoTxn
  <2>1. SiteOf(c) \in Site /\ c \in Cell
        BY UsedSite
  <2>2. site[SiteOf(c)].val = NewSite.val
        BY <1>1, <2>1, ZenonT(40)
  <2>3. NewSite.val = [b \in Cell |-> NoTxn]
        BY Zenon DEF NewSite
  <2> QED BY <1>3, <2>1, <2>2, <2>3, ZenonT(40) DEF DB
<1>5. DB = [c \in Used |-> NoTxn]
      BY <1>4 DEF DB
<1>6. Result = [t \in Txn |-> "none"] /\ Seen = [t \in Txn |-> {}]
      BY <1>2 DEF Result, Seen
<1> QED BY <1>5, <1>6 DEF SD!Init
=============================================================================
