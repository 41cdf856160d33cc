------------------------------- MODULE Txn2PL -------------------------------
(***************************************************************************)
(* A site of MODE_2PL: TxnRunner's map of transactions and its lock        *)
(* callbacks (deptran/dtxn.cc) over Txn2PL (memdb/txn.cc, txn.h), whose    *)
(* pieces lock columns of FineLockedRow (memdb/row.h).                     *)
(*                                                                         *)
(* rrr::ALock and rrr::ALockGroup are not in the repository; they are      *)
(* modelled from how Txn2PL uses them and from test/test_alock.cc.  A lock *)
(* is a queue of requests in the order of arrival.  A group asks for all   *)
(* its locks at once; it succeeds when it holds them all and fails, giving *)
(* up the others, when one is refused.                                     *)
(*                                                                         *)
(* The value of a cell is the transaction that wrote it last.  Rows are    *)
(* neither inserted nor removed here (module Tpcc has them).               *)
(***************************************************************************)
EXTENDS Naturals, Sequences, FiniteSets

CONSTANTS Txn,      \* in the order of swap_bits(tid), the priority of locks
          NoTxn, Cell,
          Piece     \* [id, txn, site, locks, reads, writes, after]

ASSUME PiecesAssumption ==
  /\ Txn \subseteq Nat /\ IsFiniteSet(Txn) /\ NoTxn \notin Txn
  /\ \A p, q \in Piece : p.id = q.id => p = q
  /\ \A p \in Piece : /\ p.id \in Nat /\ p.txn \in Txn /\ p.reads \subseteq Cell /\ p.writes \subseteq Cell
                      /\ p.locks \subseteq Cell \X {"R", "W"}

\* The pieces of a workload lock what they access: when one writes a cell that
\* a piece of another transaction reads or writes, they ask for the same lock,
\* one of them exclusively.
ASSUME LockingAssumption ==
  \A p, q \in Piece : p.txn # q.txn /\ q.writes \cap (p.reads \cup p.writes) # {} =>
     \E d \in Cell, x, y \in {"R", "W"} :
        <<d, x>> \in p.locks /\ <<d, y>> \in q.locks /\ "W" \in {x, y}

PieceOf(i) == CHOOSE p \in Piece : p.id = i
Ids(P) == {p.id : p \in P}

\* The pieces of TPC-A's payment: each adds 1 to column 1 of a row and locks
\* the row's column 0.
Update(tb, key) ==
  [locks |-> {<<<<tb, key, 0>>, "W">>}, reads |-> {<<tb, key, 1>>}, writes |-> {<<tb, key, 1>>}]

TPCA_PAYMENT_1(cus) == Update("customer", cus)
TPCA_PAYMENT_2(tel) == Update("teller", tel)
TPCA_PAYMENT_3(bra) == Update("branch", bra)

-----------------------------------------------------------------------------
(* The state S of a site: locks, the queue of requests of each column; tx,   *)
(* the Txn2PL of each transaction; val, the rows; ok, no verify has failed.  *)
(* in: the transaction is in txn_map_s; ps: its pieces, with what became of  *)
(* the lock group ("none": the piece was not started because the transaction *)
(* was wounded), the result and the output of the piece, and the call that   *)
(* brought it.                                                               *)

NoTx == [in |-> FALSE, wound |-> FALSE, prepared |-> FALSE, updates |-> {}, ps |-> <<>>]

NewSite == [locks |-> [c \in Cell |-> <<>>], tx |-> [t \in Txn |-> NoTx],
            val |-> [c \in Cell |-> NoTxn], ok |-> TRUE]

Against(a, type) == a.type = "W" \/ type = "W"

\* A request is granted when no request ahead of it is against it.
Held(q, i) == \A j \in 1 .. i - 1 : ~Against(q[j], q[i].type)

\* No request of the piece waits (one that lost its lock counts as granted).
HasLocks(S, i) ==
  \A l \in PieceOf(i).locks : \A k \in DOMAIN S.locks[l[1]] :
     S.locks[l[1]][k].pid = i => Held(S.locks[l[1]], k)

\* The requests that p's requests meet: [cell, place in the queue, request].
Met(S, p) ==
  UNION {{[c |-> l[1], k |-> k, a |-> S.locks[l[1]][k]] :
            k \in {j \in DOMAIN S.locks[l[1]] : Against(S.locks[l[1]][j], l[2])}} : l \in p.locks}

\* The numbers of I in increasing order, and what is at the places K of a queue.
InOrder(I) == CHOOSE q \in [1 .. Cardinality(I) -> I] : \A m, n \in DOMAIN q : m < n => q[m] < q[n]

Kept(q, K) == LET place == InOrder(K) IN [n \in DOMAIN place |-> q[place[n]]]

WithoutPieces(L, I) == [c \in Cell |-> Kept(L[c], {k \in DOMAIN L[c] : L[c][k].pid \notin I})]

Asking(L, p) ==
  [c \in Cell |-> L[c] \o (IF <<c, "W">> \in p.locks THEN <<[txn |-> p.txn, pid |-> p.id, type |-> "W"]>>
                           ELSE IF <<c, "R">> \in p.locks
                                THEN <<[txn |-> p.txn, pid |-> p.id, type |-> "R"]>> ELSE <<>>)]

\* The group of each piece of I fails: get_2pl_fail_callback.
Failing(ps, I) ==
  [i \in DOMAIN ps |-> IF i \in I THEN [ps[i] EXCEPT !.lock = "no", !.res = "REJECT"] ELSE ps[i]]

Refuse(S, I) ==
  [S EXCEPT !.locks = WithoutPieces(S.locks, I),
            !.tx = [t \in Txn |-> [S.tx[t] EXCEPT !.ps = Failing(S.tx[t].ps, I)]]]

\* PieceStatus::is_rejected of a piece that got its locks.
Rejected(x) == x.wound

\* read_column: from the updates of the transaction or from the row.
Output(S, x, p) == {<<c, IF c \in x.updates THEN p.txn ELSE S.val[c]>> : c \in p.reads}

\* The pieces of x that wait for a group that now has its locks go on:
\* get_2pl_succ_callback runs the handler, which reads and stages its writes.
Going(S, x) == {i \in DOMAIN x.ps : x.ps[i].lock = "wait" /\ HasLocks(S, i)}

GoOn(S, x) ==
  LET rej == Rejected(x)
      ran(i) == [x.ps[i] EXCEPT !.lock = "yes", !.res = IF rej THEN "REJECT" ELSE "SUCCESS",
                                !.out = IF rej THEN {} ELSE Output(S, x, PieceOf(i))]
  IN  [x EXCEPT !.updates = IF rej THEN @ ELSE @ \cup UNION {PieceOf(i).writes : i \in Going(S, x)},
                !.ps = [i \in DOMAIN x.ps |-> IF i \in Going(S, x) THEN ran(i) ELSE x.ps[i]]]

Proceed(S) == [S EXCEPT !.tx = [t \in Txn |-> GoOn(S, S.tx[t])]]

-----------------------------------------------------------------------------
(* The three kinds of locks *)

\* WaitDieALock: a request waits for younger ones only.
Dies(t, met) == \E m \in met : m.a.txn <= t

\* Mutant: the callback of init_piece lets every transaction keep its locks.
WoundingNever(S, t, met) ==
  Refuse(S, {m.a.pid : m \in {n \in met : n.a.txn >= t /\ ~Held(S.locks[n.c], n.k)}})

\* WoundDieALock: a request wounds the younger ones it meets.  One that waits
\* is refused; one that is granted loses the lock unless its transaction is
\* prepared (the callback of init_piece).
Wounding(S, t, met) ==
  LET younger == {m \in met : m.a.txn >= t}
      waiting == {m.a.pid : m \in {n \in younger : ~Held(S.locks[n.c], n.k)}}
      taken   == {m \in younger : Held(S.locks[m.c], m.k) /\ ~S.tx[m.a.txn].prepared}
      R       == Refuse(S, waiting)
  IN  [R EXCEPT !.tx = [u \in Txn |->
                   [R.tx[u] EXCEPT !.wound = R.tx[u].wound \/ \E m \in taken : m.a.txn = u]],
                !.locks = [c \in Cell |-> Kept(R.locks[c], {k \in DOMAIN R.locks[c] :
                              ~\E m \in taken : m.c = c /\ m.a.pid = R.locks[c][k].pid})]]

LockAll(S, kind, p) ==
  LET met == Met(S, p)
      W == IF kind = "wound_die" THEN Wounding(S, p.txn, met) ELSE S
  IN  IF kind = "wait_die" /\ Dies(p.txn, met) THEN Refuse(S, {p.id})
      ELSE [W EXCEPT !.locks = Asking(@, p)]

\* pre_execute_2pl, with init_piece and reg_rw_lock.
PreExecute(S, kind, p, call) ==
  LET t == p.txn
      new(l, r) == [i \in DOMAIN S.tx[t].ps \cup {p.id} |->
                      IF i = p.id THEN [lock |-> l, res |-> r, out |-> {}, call |-> call]
                      ELSE S.tx[t].ps[i]]
  IN  IF S.tx[t].wound
      THEN [S EXCEPT !.tx[t].ps = new("none", "REJECT")]
      ELSE Proceed(LockAll([S EXCEPT !.tx[t].in = TRUE, !.tx[t].ps = new("wait", "SUCCESS")],
                           kind, p))

-----------------------------------------------------------------------------
(* The requests.  A start brings one piece, or those of a batch in order.    *)

StartPie(S, kind, call) ==
  LET after[n \in 0 .. Len(call)] ==
        IF n = 0 THEN S
        ELSE LET before == after[n - 1] IN PreExecute(before, kind, PieceOf(call[n]), call)
  IN  after[Len(call)]

\* do_prepare finds the transaction; commit_prepare.
PrepareTxn(S, t) == [S EXCEPT !.ok = @ /\ S.tx[t].in, !.tx[t].prepared = TRUE]

\* Mutant: commit_prepare does not look at wound_.
PrepareResultAlways(S, t) == "SUCCESS"

PrepareResult(S, t) == IF S.tx[t].wound THEN "REJECT" ELSE "SUCCESS"

\* release_piece_map: every piece has finished; its locks are released.
Unlock(S, t) ==
  LET ps == S.tx[t].ps
  IN  Proceed([S EXCEPT !.ok = @ /\ S.tx[t].in /\ \A i \in DOMAIN ps : ps[i].lock # "wait",
                        !.locks = WithoutPieces(@, DOMAIN ps), !.tx[t] = NoTx])

\* Mutant: the locks of a piece that was rejected are kept.
AbortTxnRejected(S, t) ==
  LET kept == {i \in DOMAIN S.tx[t].ps : S.tx[t].ps[i].res = "REJECT"}
  IN  [Unlock(S, t) EXCEPT !.locks = [c \in Cell |-> Kept(S.locks[c], {k \in DOMAIN S.locks[c] :
                              S.locks[c][k].txn # t \/ S.locks[c][k].pid \in kept})]]

AbortTxn(S, t) == Unlock(S, t)

CommitTxn(S, t) ==
  Unlock([S EXCEPT !.val = [c \in Cell |-> IF c \in S.tx[t].updates THEN t ELSE @[c]]], t)

\* TimeoutALock: a request that waits is refused some time later.
Timeout(S, i) == Proceed(Refuse(S, {i}))

\* The start calls of t that are answered when S becomes N.
Answers(S, N, t) ==
  LET ps == N.tx[t].ps
      done(x, call) == \A n \in DOMAIN call : call[n] \in DOMAIN x.ps /\ x.ps[call[n]].lock # "wait"
  IN  {[op |-> "started", call |-> c, res |-> [n \in DOMAIN c |-> ps[c[n]].res],
        out |-> UNION {ps[c[n]].out : n \in DOMAIN c}] :
          c \in {d \in {ps[i].call : i \in DOMAIN ps} : done(N.tx[t], d) /\ ~done(S.tx[t], d)}}
=============================================================================
