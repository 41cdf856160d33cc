----------------------------- MODULE Txn2PLInv ------------------------------
(***************************************************************************)
(* What holds of a site of module Txn2PL between two requests, the calls   *)
(* that brought the pieces of a transaction, and what a request changes.   *)
(***************************************************************************)
EXTENDS Txn2PL

-----------------------------------------------------------------------------
(* A site *)

Values == Txn \cup {NoTxn}

Request == [txn : Txn, pid : Nat, type : {"R", "W"}]

PieceAt == [lock : {"none", "wait", "yes", "no"}, res : {"SUCCESS", "REJECT"},
            out : SUBSET (Cell \X Values), call : Seq(Nat)]

TxnTyped(x) ==
  /\ x = [in |-> x.in, wound |-> x.wound, prepared |-> x.prepared, updates |-> x.updates, ps |-> x.ps]
  /\ x.in \in BOOLEAN /\ x.wound \in BOOLEAN /\ x.prepared \in BOOLEAN /\ x.updates \subseteq Cell
  /\ x.ps \in [DOMAIN x.ps -> PieceAt] /\ DOMAIN x.ps \subseteq Ids(Piece)

Typed(S) ==
  /\ S = [locks |-> S.locks, tx |-> S.tx, val |-> S.val, ok |-> S.ok]
  /\ S.locks \in [Cell -> Seq(Request)] /\ S.val \in [Cell -> Values] /\ S.ok \in BOOLEAN
  /\ S.tx = [t \in Txn |-> S.tx[t]] /\ \A t \in Txn : TxnTyped(S.tx[t])

\* A request in a queue is one of a piece that waits for its locks or has them;
\* a piece that has its locks has them all.
QueuedAt(S, c, k) ==
  LET a == S.locks[c][k]
      p == PieceOf(a.pid)
      x == S.tx[a.txn]
  IN  /\ a.pid \in Ids(Piece) /\ p.txn = a.txn
      /\ <<c, a.type>> \in p.locks /\ (<<c, "W">> \in p.locks => a.type = "W")
      /\ x.in /\ a.pid \in DOMAIN x.ps
      /\ x.ps[a.pid].lock \in {"wait", "yes"}
      /\ x.ps[a.pid].lock = "yes" => Held(S.locks[c], k)

Queued(S) == \A c \in Cell : \A k \in DOMAIN S.locks[c] : QueuedAt(S, c, k)

\* A piece has one request in a queue.
OneRequest(S) ==
  \A c \in Cell : \A j, k \in DOMAIN S.locks[c] :
     S.locks[c][j].pid = S.locks[c][k].pid => j = k

\* Who may be ahead of whom in a queue.
MayPrecede(S, kind, a, b) ==
  /\ kind = "wait_die" => a.txn > b.txn
  /\ kind = "wound_die" => a.txn < b.txn \/ S.tx[a.txn].prepared

Ordered(S, kind) ==
  \A c \in Cell : \A j, k \in DOMAIN S.locks[c] :
     LET q == S.locks[c]
     IN  j < k /\ Against(q[j], q[k].type) => MayPrecede(S, kind, q[j], q[k])

\* A piece of a transaction that was not wounded has a request for each of its
\* locks, unless it is one of X, which have not asked yet.
Asked(S, X) ==
  \A t \in Txn : \A i \in DOMAIN S.tx[t].ps \ X :
     ~S.tx[t].wound /\ S.tx[t].ps[i].lock \in {"wait", "yes"} =>
        \A l \in PieceOf(i).locks : \E k \in DOMAIN S.locks[l[1]] : S.locks[l[1]][k].pid = i

\* What a piece that had its locks has read is what the row still holds, or was
\* staged by its own transaction.
Current(S, t, e) == e[2] = S.val[e[1]] \/ (e[2] = t /\ e[1] \in S.tx[t].updates)

\* What became of a piece, and what it has read and staged.
RanPiece(S, t, i) ==
  LET x == S.tx[t]
      p == PieceOf(i)
      r == x.ps[i]
  IN  /\ p.txn = t
      /\ r.lock \in {"none", "no"} => r.res = "REJECT"
      /\ r.lock # "yes" => r.out = {}
      /\ r.lock = "yes" /\ ~x.wound => r.res = "SUCCESS" /\ \A e \in r.out : Current(S, t, e)
      /\ \A e \in r.out : e[1] \in p.reads
      /\ r.lock = "yes" /\ r.res = "SUCCESS" =>
           p.writes \subseteq x.updates /\ \A c \in p.reads : \E v \in Values : <<c, v>> \in r.out

RanTxn(S, t) ==
  LET x == S.tx[t] IN
  /\ ~x.in => x = NoTx
  /\ \A c \in x.updates : \E i \in DOMAIN x.ps : c \in PieceOf(i).writes /\ x.ps[i].lock = "yes"
  /\ \A i \in DOMAIN x.ps : RanPiece(S, t, i)

Ran(S) == \A t \in Txn : RanTxn(S, t)

SiteInvBut(S, kind, X) ==
  Typed(S) /\ Queued(S) /\ OneRequest(S) /\ Ordered(S, kind) /\ Asked(S, X) /\ Ran(S)

SiteInv(S, kind) == SiteInvBut(S, kind, {})

-----------------------------------------------------------------------------
(* Calls *)

CallIds(call) == {call[n] : n \in DOMAIN call}
OneByOne(call) == \A m, n \in DOMAIN call : call[m] = call[n] => m = n

Idle(x) == \A i \in DOMAIN x.ps : x.ps[i].lock # "wait"

Ended(x, call) == \A n \in DOMAIN call : call[n] \in DOMAIN x.ps /\ x.ps[call[n]].lock # "wait"

AnswerTo(x, call) ==
  [op |-> "started", call |-> call, res |-> [n \in DOMAIN call |-> x.ps[call[n]].res],
   out |-> UNION {x.ps[call[n]].out : n \in DOMAIN call}]

\* The calls that brought the pieces of x.
CallsKept(x) ==
  \A i \in DOMAIN x.ps :
     LET call == x.ps[i].call
     IN  /\ i \in CallIds(call) /\ OneByOne(call)
         /\ \A j \in CallIds(call) : j \in DOMAIN x.ps /\ x.ps[j].call = call

\* The answer a is one to a call that brought a piece of x and has ended.
Answer(x, a) ==
  \E i \in DOMAIN x.ps : Ended(x, x.ps[i].call) /\ a = AnswerTo(x, x.ps[i].call)
-----------------------------------------------------------------------------
(* What a request does to a site *)

\* What a transaction keeps while others go on: the pieces that do not wait, the
\* calls of all pieces and, when it is prepared, its locks.
Evolves(x, y) ==
  /\ y.in = x.in /\ y.prepared = x.prepared
  /\ x.wound => y.wound
  /\ x.prepared => y.wound = x.wound
  /\ DOMAIN y.ps = DOMAIN x.ps
  /\ \A i \in DOMAIN x.ps : y.ps[i].call = x.ps[i].call /\ (x.ps[i].lock # "wait" => y.ps[i] = x.ps[i])
  /\ Idle(x) => y.updates = x.updates

\* What a step of the site does to it, apart from one transaction t.
Steps(S, N, kind, t) ==
  /\ SiteInv(N, kind) /\ N.val = S.val /\ N.ok = S.ok
  /\ \A u \in Txn \ {t} : Evolves(S.tx[u], N.tx[u])

\* What becomes of a transaction when pieces I of it arrive with call.
Grows(x, y, I, call) ==
  /\ y.in /\ y.prepared = x.prepared /\ (x.wound => y.wound)
  /\ DOMAIN y.ps = DOMAIN x.ps \cup I
  /\ \A i \in DOMAIN x.ps : y.ps[i].call = x.ps[i].call /\ (x.ps[i].lock # "wait" => y.ps[i] = x.ps[i])
  /\ \A i \in I : y.ps[i].call = call

\* The call brings pieces of t that are not at the site.
Brings(S, t, call) ==
  \A n \in DOMAIN call :
     call[n] \in Ids(Piece) /\ PieceOf(call[n]).txn = t /\ call[n] \notin DOMAIN S.tx[t].ps

\* What the end of t leaves.
Ends(S, N, kind, t, V) ==
  /\ SiteInv(N, kind) /\ N.val = V /\ N.ok = S.ok /\ N.tx[t] = NoTx
  /\ \A u \in Txn \ {t} : Evolves(S.tx[u], N.tx[u])

\* The rows when t commits.
Written(S, t) == [c \in Cell |-> IF c \in S.tx[t].updates THEN t ELSE S.val[c]]

-----------------------------------------------------------------------------
(* What a site promises: each operation, called as the protocol calls it,  *)
(* keeps the invariant. Module Txn2PLProofs proves it; the lemmas about    *)
(* the whole system take it as a hypothesis.                               *)

StartKeeps ==
  \A S, kind : \A t \in Txn : \A call \in Seq(Nat) :
     SiteInv(S, kind) /\ OneByOne(call) /\ Brings(S, t, call) /\ call # <<>> =>
       LET N == StartPie(S, kind, call)
       IN  Steps(S, N, kind, t) /\ Grows(S.tx[t], N.tx[t], CallIds(call), call)

\* What becomes of a transaction that is prepared.
Prepares(x, y) ==
  /\ y.in /\ y.prepared
  /\ y.wound = x.wound /\ y.updates = x.updates /\ y.ps = x.ps

PrepareKeeps ==
  \A S, kind : \A t \in Txn :
     SiteInv(S, kind) /\ S.tx[t].in =>
       LET N == PrepareTxn(S, t) IN Steps(S, N, kind, t) /\ Prepares(S.tx[t], N.tx[t])

AbortKeeps ==
  \A S, kind : \A t \in Txn :
     SiteInv(S, kind) /\ S.tx[t].in /\ Idle(S.tx[t]) => Ends(S, AbortTxn(S, t), kind, t, S.val)

CommitKeeps ==
  \A S, kind : \A t \in Txn :
     SiteInv(S, kind) /\ S.tx[t].in /\ Idle(S.tx[t]) /\ ~S.tx[t].wound =>
       Ends(S, CommitTxn(S, t), kind, t, Written(S, t))

TimeoutKeeps ==
  \A S, kind : \A t \in Txn : \A i \in DOMAIN S.tx[t].ps :
     SiteInv(S, kind) /\ S.tx[t].ps[i].lock = "wait" =>
       Steps(S, Timeout(S, i), kind, t) /\ Evolves(S.tx[t], Timeout(S, i).tx[t])

\* The locks are enough: of two transactions at a site, one writes nothing that a
\* piece of the other with its locks reads or writes, unless one is wounded.
Excludes ==
  \A S, kind : SiteInv(S, kind) =>
     \A t, u \in Txn : t # u /\ ~S.tx[t].wound /\ ~S.tx[u].wound =>
        \A i \in DOMAIN S.tx[t].ps, j \in DOMAIN S.tx[u].ps :
           S.tx[t].ps[i].lock = "yes" /\ S.tx[u].ps[j].lock = "yes" =>
             PieceOf(j).writes \cap (PieceOf(i).reads \cup PieceOf(i).writes) = {}

SiteKeeps == StartKeeps /\ PrepareKeeps /\ AbortKeeps /\ CommitKeeps /\ TimeoutKeeps /\ Excludes

-----------------------------------------------------------------------------
(* Finite sets. Module Txn2PLProofs proves FiniteFacts from the library;   *)
(* the lemmas about the coordinators take it as a hypothesis.              *)

Increasing(q) == \A m, n \in DOMAIN q : m < n => q[m] < q[n]

Covers(f, S, T) == \A y \in T : \E x \in S : f[x] = y
OneToOne(f, S)  == \A x, y \in S : f[x] = f[y] => x = y

\* What the proofs use of finite sets.
FiniteFacts ==
  /\ \A S : IsFiniteSet(S) => Cardinality(S) \in Nat /\ (Cardinality(S) = 0 <=> S = {})
  /\ \A S : \A T \in SUBSET S :
        IsFiniteSet(S) => /\ IsFiniteSet(T) /\ Cardinality(T) <= Cardinality(S)
                          /\ Cardinality(S) = Cardinality(T) => S = T
  /\ Cardinality({}) = 0 /\ \A x : IsFiniteSet({x}) /\ Cardinality({x}) = 1
  /\ \A n \in Nat : IsFiniteSet(1 .. n) /\ Cardinality(1 .. n) = n
  /\ \A A, B : IsFiniteSet(A) /\ IsFiniteSet(B) /\ A \cap B = {} =>
        IsFiniteSet(A \cup B) /\ Cardinality(A \cup B) = Cardinality(A) + Cardinality(B)
  /\ \A S, T : \A f \in [S -> T] :
        IsFiniteSet(S) /\ Covers(f, S, T) =>
          IsFiniteSet(T) /\ (OneToOne(f, S) => Cardinality(T) = Cardinality(S))
  /\ \A I \in SUBSET Nat : IsFiniteSet(I) =>
        /\ InOrder(I) \in [1 .. Cardinality(I) -> I] /\ Increasing(InOrder(I))
        /\ \A i \in I : \E n \in 1 .. Cardinality(I) : InOrder(I)[n] = i
=============================================================================
