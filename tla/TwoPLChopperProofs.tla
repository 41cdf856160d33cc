------------------------ MODULE TwoPLChopperProofs ------------------------
(***************************************************************************)
(* The steps of the coordinators preserve the invariant of module          *)
(* TwoPLInv: pieces are sent, and the answers of the sites are taken.      *)
(***************************************************************************)
EXTENDS TwoPLInv, Integers, TLAPS

\* A call of no piece leaves a queue as it is.
LEMMA AppendNothing ==
  ASSUME NEW S, NEW x \in Seq(S)
  PROVE  x \o <<>> = x
OBVIOUS

-----------------------------------------------------------------------------
(* Finite sets *)

\* The cardinality of a finite set is a number, 0 for the empty set only.
LEMMA FiniteCardinality ==
  ASSUME FiniteFacts, NEW S, IsFiniteSet(S)
  PROVE  Cardinality(S) \in Nat /\ (Cardinality(S) = 0 <=> S = {})
BY Zenon DEF FiniteFacts

\* A subset of a finite set is finite and no larger, or the same set.
LEMMA FiniteSubset ==
  ASSUME FiniteFacts, NEW S, IsFiniteSet(S), NEW T \in SUBSET S
  PROVE  /\ IsFiniteSet(T)
         /\ Cardinality(T) <= Cardinality(S)
         /\ Cardinality(S) = Cardinality(T) => S = T
BY Zenon DEF FiniteFacts

\* The empty set is the only one with cardinality 0.
LEMMA FiniteEmpty ==
  ASSUME FiniteFacts
  PROVE  Cardinality({}) = 0 /\ \A S : IsFiniteSet(S) => (Cardinality(S) = 0 <=> S = {})
BY Zenon DEF FiniteFacts

\* A set of one element.
LEMMA FiniteOne ==
  ASSUME FiniteFacts
  PROVE  \A x : IsFiniteSet({x}) /\ Cardinality({x}) = 1
BY Zenon DEF FiniteFacts

\* The numbers from 1 to n.
LEMMA FiniteNumbers ==
  ASSUME FiniteFacts, NEW n \in Nat
  PROVE  IsFiniteSet(1 .. n) /\ Cardinality(1 .. n) = n
BY Zenon DEF FiniteFacts

\* The image of a finite set is finite.
LEMMA FiniteImage ==
  ASSUME FiniteFacts, NEW S, IsFiniteSet(S), NEW T, NEW f \in [S -> T], Covers(f, S, T)
  PROVE  IsFiniteSet(T)
BY Zenon DEF FiniteFacts

\* Sets that match one to one have the same cardinality.
LEMMA FiniteMatch ==
  ASSUME FiniteFacts, NEW S, IsFiniteSet(S), NEW T, NEW f \in [S -> T],
         Covers(f, S, T), OneToOne(f, S)
  PROVE  IsFiniteSet(T) /\ Cardinality(T) = Cardinality(S)
BY Zenon DEF FiniteFacts

\* The size of two sets with nothing in common.
LEMMA DisjointUnion ==
  ASSUME FiniteFacts, NEW A, NEW B, IsFiniteSet(A), IsFiniteSet(B), A \cap B = {}
  PROVE  IsFiniteSet(A \cup B) /\ Cardinality(A \cup B) = Cardinality(A) + Cardinality(B)
BY ZenonT(40) DEF FiniteFacts

\* InOrder gives the numbers of a set in order, each once.
LEMMA InOrderIs ==
  ASSUME FiniteFacts, NEW I \in SUBSET Nat, IsFiniteSet(I)
  PROVE  /\ Cardinality(I) \in Nat
         /\ InOrder(I) \in [1 .. Cardinality(I) -> I]
         /\ \A m, n \in 1 .. Cardinality(I) : m < n => InOrder(I)[m] < InOrder(I)[n]
         /\ \A m, n \in 1 .. Cardinality(I) : InOrder(I)[m] = InOrder(I)[n] => m = n
         /\ \A i \in I : \E n \in 1 .. Cardinality(I) : InOrder(I)[n] = i
<1> DEFINE N == Cardinality(I)
           q == InOrder(I)
<1>1. /\ N \in Nat /\ q \in [1 .. N -> I] /\ Increasing(q)
      /\ \A i \in I : \E n \in 1 .. N : q[n] = i
  BY Zenon DEF FiniteFacts
<1> HIDE DEF q, N
<1>2. \A m, n \in 1 .. N : m < n => q[m] < q[n]
  BY <1>1 DEF Increasing
<1>3. \A m \in 1 .. N : q[m] \in Nat
  BY <1>1, Zenon
<1>4. ASSUME NEW m \in 1 .. N, NEW n \in 1 .. N, q[m] = q[n]
      PROVE  m = n
  BY <1>1, <1>2, <1>3, <1>4
<1>5. QED
  BY <1>1, <1>2, <1>4 DEF q, N

-----------------------------------------------------------------------------
(* Pieces, transactions and answers *)

\* The piece with the id of p is p.
LEMMA PieceNamed ==
  ASSUME NEW p \in Piece
  PROVE  p.id \in Ids(Piece) /\ PieceOf(p.id) = p
<1>1. p.id \in Ids(Piece)
  BY DEF Ids
<1>2. PieceOf(p.id) \in Piece /\ PieceOf(p.id).id = p.id
  BY DEF PieceOf
<1>3. QED
  BY <1>1, <1>2, PiecesAssumption

\* The fields of a transaction that is not in txn_map_s.
LEMMA AbsentHas ==
  /\ ~NoTx.in /\ ~NoTx.wound /\ ~NoTx.prepared /\ NoTx.updates = {} /\ DOMAIN NoTx.ps = {}
  /\ TxnTyped(NoTx)
<1>1. /\ NoTx.in = FALSE /\ NoTx.wound = FALSE /\ NoTx.prepared = FALSE
      /\ NoTx.updates = {} /\ NoTx.ps = <<>>
  BY DEF NoTx
<1>2. DOMAIN <<>> = {}
  OBVIOUS
<1>3. <<>> \in [{} -> PieceAt]
  OBVIOUS
<1>4. NoTx = [in |-> NoTx.in, wound |-> NoTx.wound, prepared |-> NoTx.prepared,
              updates |-> NoTx.updates, ps |-> NoTx.ps]
  BY DEF NoTx
<1>5. QED
  BY <1>1, <1>2, <1>3, <1>4, Zenon DEF TxnTyped

\* The fields of the answer to a start request.
LEMMA AnswerNames ==
  ASSUME NEW x, NEW call
  PROVE  AnswerTo(x, call).op = "started" /\ AnswerTo(x, call).call = call
BY DEF AnswerTo

-----------------------------------------------------------------------------
(* Pieces are sent                                                           *)

\* The site of a piece of t.
LEMMA PieceSite ==
  ASSUME NEW t, NEW i \in Ids(PiecesOf(t))
  PROVE  /\ i \in Ids(Piece) /\ PieceOf(i) \in PiecesOf(t)
         /\ PieceOf(i).site \in Site /\ PieceOf(i).id = i
<1>1. PICK p \in PiecesOf(t) : p.id = i
      BY DEF Ids
<1>2. p \in Piece /\ PieceOf(i) = p
      BY <1>1, PieceNamed DEF PiecesOf
<1> QED BY <1>1, <1>2, SitesAssumption DEF Ids

\* A transaction has finitely many pieces, as many as ids.
LEMMA PiecesFinite ==
  ASSUME FiniteFacts, NEW t \in Txn, NEW P \in SUBSET PiecesOf(t)
  PROVE  /\ IsFiniteSet(P) /\ IsFiniteSet(Ids(P)) /\ Cardinality(Ids(P)) = Cardinality(P)
         /\ Cardinality(P) \in Nat /\ Ids(P) \subseteq Nat /\ Ids(P) \subseteq Ids(Piece)
<1>1. P \subseteq Piece
      BY DEF PiecesOf
<1>2. IsFiniteSet(P)
      BY SitesAssumption, FiniteSubset, Zenon DEF PiecesOf
<1> DEFINE f == [p \in P |-> p.id]
<1>3. /\ f \in [P -> Ids(P)]
      /\ \A i \in Ids(P) : \E p \in P : f[p] = i
      BY DEF Ids
<1>4. \A p, q \in P : f[p] = f[q] => p = q
      BY <1>1, PiecesAssumption
<1> HIDE DEF f
<1>5. IsFiniteSet(Ids(P)) /\ Cardinality(Ids(P)) = Cardinality(P)
      BY <1>2, <1>3, <1>4, FiniteMatch, Zenon DEF Covers, OneToOne
<1>6. Cardinality(P) \in Nat
      BY <1>2, FiniteCardinality
<1>7. Ids(P) \subseteq Nat /\ Ids(P) \subseteq Ids(Piece)
      BY <1>1, PiecesAssumption DEF Ids
<1> QED BY <1>2, <1>5, <1>6, <1>7

\* The pieces of P at a site, by their numbers.
IdsAt(P, s) == Ids({p \in P : p.site = s})

\* start and naive_batch_start send each piece of P once, to its site.
LEMMA CallsCarry ==
  ASSUME FiniteFacts, NEW t \in Txn, NEW P \in SUBSET PiecesOf(t), NEW s \in Site
  PROVE  /\ Calls(P, s) \in Requests /\ Carries(Calls(P, s), IdsAt(P, s))
         /\ IdsAt(P, s) = {} => Calls(P, s) = <<>>
<1> DEFINE K == IdsAt(P, s)
           N == Cardinality(K)
           ids == InOrder(K)
<1>1. K \in SUBSET Nat /\ IsFiniteSet(K)
      BY PiecesFinite DEF IdsAt
<1>2. /\ N \in Nat /\ ids \in [1 .. N -> K] /\ DOMAIN ids = 1 .. N
      /\ \A m, n \in 1 .. N : ids[m] = ids[n] => m = n
      BY <1>1, InOrderIs
<1>3. Calls(P, s) = IF mode.batch THEN (IF ids = <<>> THEN <<>> ELSE <<[op |-> "start", call |-> ids]>>)
                    ELSE [n \in DOMAIN ids |-> [op |-> "start", call |-> <<ids[n]>>]]
      BY DEF Calls, IdsAt
<1>4. K = {} => N = 0
      BY FiniteEmpty
<1> HIDE DEF K, N, ids
<1>5. ids \in Seq(Nat) /\ OneByOne(ids) /\ CallIds(ids) \subseteq K
  <2>1. ids \in [1 .. N -> Nat]
        BY <1>1, <1>2, Zenon
  <2>2. ids \in Seq(Nat)
        BY <1>2, <2>1
  <2>3. OneByOne(ids)
        BY <1>2 DEF OneByOne
  <2>4. CallIds(ids) \subseteq K
        BY <1>2 DEF CallIds
  <2> QED BY <2>2, <2>3, <2>4
<1>6. CASE mode.batch /\ ids = <<>>
  <2>1. Calls(P, s) = <<>>
        BY <1>3, <1>6
  <2>2. Carries(<<>>, K) /\ <<>> \in Requests
        BY DEF Carries, Requests
  <2> QED BY <2>1, <2>2 DEF K
<1>7. CASE mode.batch /\ ids # <<>>
  <2> DEFINE a == [op |-> "start", call |-> ids]
  <2>1. Calls(P, s) = <<a>>
        BY <1>3, <1>7
  <2>2. a.op = "start" /\ a.call = ids /\ a \in StartRequest
        BY <1>5 DEF StartRequest
  <2> HIDE DEF a
  <2>3. <<a>> \in Requests
        BY <2>2 DEF Requests
  <2>4. \A n \in DOMAIN <<a>> : <<a>>[n] = a /\ n = 1
        OBVIOUS
  <2>5. Carries(<<a>>, K)
        BY <1>5, <1>7, <2>2, <2>4 DEF Carries
  <2>6. K # {}
        BY <1>2, <1>4, <1>7
  <2> QED BY <2>1, <2>3, <2>5, <2>6 DEF K
<1>8. CASE ~mode.batch
  <2> DEFINE a(n) == [op |-> "start", call |-> <<ids[n]>>]
             q == Calls(P, s)
  <2>1. q = [n \in 1 .. N |-> a(n)]
        BY <1>2, <1>3, <1>8
  <2>2. ASSUME NEW n \in 1 .. N
        PROVE  /\ a(n) \in StartRequest /\ a(n).op = "start" /\ a(n).call = <<ids[n]>>
               /\ <<ids[n]>> # <<>> /\ OneByOne(<<ids[n]>>) /\ CallIds(<<ids[n]>>) = {ids[n]} /\ ids[n] \in K
    <3>1. ids[n] \in Nat /\ ids[n] \in K
          BY <1>1, <1>2, Zenon
    <3>2. <<ids[n]>> \in Seq(Nat) /\ <<ids[n]>> # <<>>
          BY <3>1
    <3>3. OneByOne(<<ids[n]>>) /\ CallIds(<<ids[n]>>) = {ids[n]}
          BY DEF OneByOne, CallIds
    <3> QED BY <3>1, <3>2, <3>3 DEF StartRequest
  <2> HIDE DEF a, q
  <2>3. q \in Requests /\ DOMAIN q = 1 .. N /\ \A n \in 1 .. N : q[n] = a(n)
    <3>1. DOMAIN q = 1 .. N /\ \A n \in 1 .. N : q[n] = a(n)
          BY <2>1
    <3>2. q \in [1 .. N -> StartRequest \cup OtherRequest]
          BY <2>1, <2>2, Zenon
    <3>3. q \in Seq(StartRequest \cup OtherRequest)
          BY <1>2, <3>2
    <3> QED BY <3>1, <3>3 DEF Requests
  <2>4. ASSUME NEW n \in DOMAIN q
        PROVE  /\ q[n].op = "start" /\ q[n].call # <<>> /\ OneByOne(q[n].call)
               /\ CallIds(q[n].call) \subseteq K /\ CallIds(q[n].call) = {ids[n]}
        BY <2>2, <2>3, ZenonT(40)
  <2>5. ASSUME NEW m \in DOMAIN q, NEW n \in DOMAIN q, m # n
        PROVE  CallIds(q[m].call) \cap CallIds(q[n].call) = {}
    <3>1. ids[m] # ids[n]
          BY <1>2, <2>3, <2>5
    <3> QED BY <2>4, <3>1
  <2>6. Carries(q, K)
        BY <2>4, <2>5, Zenon DEF Carries
  <2>7. K = {} => q = <<>>
        BY <1>4, <2>1
  <2> QED BY <2>3, <2>6, <2>7 DEF K, q
<1> QED BY <1>6, <1>7, <1>8

\* Calls that follow others on a connection bring other pieces.
LEMMA CarriesConcat ==
  ASSUME NEW q \in Requests, NEW m \in Requests, NEW I, NEW J, Carries(q, I), Carries(m, J), I \cap J = {}
  PROVE  q \o m \in Requests /\ Carries(q \o m, I \cup J)
<1> DEFINE r == q \o m
           l == Len(q)
<1>1. r \in Requests /\ l \in Nat
      BY DEF Requests
<1>2. ASSUME NEW n \in DOMAIN r
      PROVE  \/ n \in DOMAIN q /\ r[n] = q[n]
             \/ n \notin DOMAIN q /\ n - l \in DOMAIN m /\ r[n] = m[n - l] /\ n \in Int
      BY DEF Requests
<1> HIDE DEF r, l
<1>3. ASSUME NEW n \in DOMAIN r
      PROVE  /\ r[n].op = "start" /\ r[n].call # <<>> /\ OneByOne(r[n].call)
             /\ CallIds(r[n].call) \subseteq I \cup J
             /\ n \in DOMAIN q => CallIds(r[n].call) \subseteq I
             /\ n \notin DOMAIN q => CallIds(r[n].call) \subseteq J
      BY <1>2 DEF Carries
<1>4. ASSUME NEW j \in DOMAIN r, NEW k \in DOMAIN r, j # k
      PROVE  CallIds(r[j].call) \cap CallIds(r[k].call) = {}
  <2>1. CASE j \in DOMAIN q /\ k \in DOMAIN q
    <3>1. r[j] = q[j] /\ r[k] = q[k]
          BY <1>2, <2>1
    <3> QED BY <1>4, <2>1, <3>1 DEF Carries
  <2>2. CASE j \notin DOMAIN q /\ k \notin DOMAIN q
    <3>1. r[j] = m[j - l] /\ r[k] = m[k - l] /\ j - l \in DOMAIN m /\ k - l \in DOMAIN m /\ j - l # k - l
          BY <1>1, <1>2, <1>4, <2>2
    <3> QED BY <3>1 DEF Carries
  <2>3. CASE j \in DOMAIN q /\ k \notin DOMAIN q
        BY <1>3, <2>3
  <2>4. CASE j \notin DOMAIN q /\ k \in DOMAIN q
        BY <1>3, <2>4
  <2> QED BY <2>1, <2>2, <2>3, <2>4
<1>5. Carries(r, I \cup J)
      BY <1>3, <1>4, ZenonT(40) DEF Carries
<1> QED BY <1>1, <1>5 DEF r

\* The chopper d is c but for the fields that Starting changes.
Sending(c, d, P) ==
  /\ d \in Chopper
  /\ d.sent = c.sent \cup Ids(P) /\ d.proxies = c.proxies \cup {p.site : p \in P}
  /\ d.start_sent = c.start_sent + Cardinality(P)
  /\ d.phase = c.phase /\ d.started = c.started /\ d.prepared = c.prepared /\ d.finished = c.finished
  /\ d.commit = c.commit /\ d.out = c.out

\* What sending the pieces of P does to the counters of a chopper.
LEMMA StartingIs ==
  ASSUME FiniteFacts, NEW t \in Txn, NEW P \in SUBSET PiecesOf(t), NEW c \in Chopper
  PROVE  Sending(c, Starting(c, P), P)
<1>1. Cardinality(P) \in Nat /\ Ids(P) \subseteq Ids(Piece)
      BY PiecesFinite
<1>2. {p.site : p \in P} \subseteq Site
      BY SitesAssumption DEF PiecesOf
<1> DEFINE A == c.sent \cup Ids(P)
           B == c.proxies \cup {p.site : p \in P}
           n == c.start_sent + Cardinality(P)
<1>3. A \in SUBSET Ids(Piece) /\ B \in SUBSET Site /\ n \in Nat
      BY <1>1, <1>2 DEF Chopper
<1>4. Starting(c, P) = [c EXCEPT !.sent = A, !.proxies = B, !.start_sent = n]
      BY DEF Starting
<1> HIDE DEF A, B, n
<1> DEFINE d == [c EXCEPT !.sent = A, !.proxies = B, !.start_sent = n]
<1>5. d \in Chopper
      BY <1>3, Zenon DEF Chopper
<1>6. /\ d.sent = A /\ d.proxies = B /\ d.start_sent = n
      /\ d.phase = c.phase /\ d.started = c.started /\ d.prepared = c.prepared /\ d.finished = c.finished
      /\ d.commit = c.commit /\ d.out = c.out
      BY DEF Chopper
<1> QED BY <1>4, <1>5, <1>6 DEF Sending, A, B, n

\* A site to which nothing was sent is like one from which all was answered.
LEMMA UnusedStart ==
  ASSUME NEW c, NEW s, NEW x, NEW q, NEW r, NEW u \in BOOLEAN, ConnUnused(x, q, r, u)
  PROVE  ConnStart(c, s, x, q, r, u)
<1>1. q = <<>> /\ r = {} /\ (u => x = NoTx)
      BY DEF ConnUnused, Quiet
<1>2. DOMAIN NoTx.ps = {} /\ ~NoTx.prepared /\ CallsKept(NoTx)
      BY AbsentHas DEF CallsKept
<1>3. Carries(<<>>, SentTo(c, s) \ DOMAIN x.ps)
      BY DEF Carries
<1> QED BY <1>1, <1>2, <1>3 DEF ConnStart

\* The requests m bring the pieces P to the sites.
Brought(P, m) ==
  \A s \in Site : /\ m[s] \in Requests /\ Carries(m[s], IdsAt(P, s))
                  /\ IdsAt(P, s) = {} => m[s] = <<>>

\* The requests and the answers under way when the requests m were sent.
SendQ(q, u, m) == IF u THEN q \o m ELSE q
SendR(r, u, m) == r \cup (IF u \/ m = <<>> THEN {} ELSE {ErrorReply})
SentQ(Q, U, m) == [s \in Site |-> SendQ(Q[s], U[s], m[s])]
SentR(R, U, m) == [s \in Site |-> SendR(R[s], U[s], m[s])]

\* Pieces P of t that were not sent before are sent in the phase of start.
SendingNew(t, c, d, P) ==
  P \in SUBSET PiecesOf(t) /\ c.phase = "start" /\ Sending(c, d, P) /\ Ids(P) \cap c.sent = {}

\* The calls m of the server s, after the calls q, carry the pieces of P that are at s.
Bears(P, s, q, u, m) ==
  /\ q \in Requests /\ u \in BOOLEAN
  /\ m \in Requests /\ Carries(m, IdsAt(P, s)) /\ (IdsAt(P, s) = {} => m = <<>>)

\* A connection on which start requests for new pieces are sent.
LEMMA ConnSends ==
  ASSUME NEW t \in Txn, NEW c, NEW d, NEW P, NEW s \in Site, NEW x, NEW q, NEW r, NEW u, NEW m,
         Conn(t, c, s, x, q, r, u), SendingNew(t, c, d, P), Bears(P, s, q, u, m)
  PROVE  Conn(t, d, s, x, SendQ(q, u, m), SendR(r, u, m), u)
<1> DEFINE v == IF u THEN q \o m ELSE q
           w == r \cup (IF u \/ m = <<>> THEN {} ELSE {ErrorReply})
           K == IdsAt(P, s)
<1> q \in Requests /\ u \in BOOLEAN /\ m \in Requests /\ Carries(m, IdsAt(P, s)) /\ (IdsAt(P, s) = {} => m = <<>>)
  BY Zenon DEF Bears
<1> P \in SUBSET PiecesOf(t) /\ c.phase = "start" /\ Sending(c, d, P) /\ Ids(P) \cap c.sent = {}
  BY Zenon DEF SendingNew
<1>1. /\ d.sent = c.sent \cup Ids(P) /\ d.proxies = c.proxies \cup {p.site : p \in P} /\ d.phase = "start"
      BY DEF Sending
<1>2. K = {i \in Ids(P) : PieceOf(i).site = s}
  <2>1. \A p \in P : PieceOf(p.id) = p
        BY PieceNamed DEF PiecesOf
  <2> QED BY <2>1 DEF IdsAt, Ids
<1>3. SentTo(d, s) = SentTo(c, s) \cup K
      BY <1>1, <1>2 DEF SentTo
<1>4. K \cap c.sent = {}
      BY <1>2
<1>5. ASSUME s \notin d.proxies PROVE ConnUnused(x, v, w, u)
  <2>1. s \notin c.proxies /\ K = {}
        BY <1>1, <1>5 DEF IdsAt, Ids
  <2>2. m = <<>> /\ ConnUnused(x, q, r, u)
        BY <2>1 DEF Conn
  <2>3. v = <<>> /\ w = {}
        BY <2>2 DEF ConnUnused, Quiet
  <2> QED BY <2>2, <2>3 DEF ConnUnused, Quiet
<1>6. ConnStart(c, s, x, q, r, u)
  <2>1. CASE s \in c.proxies
        BY <2>1 DEF Conn
  <2>2. CASE s \notin c.proxies
        BY <2>2, UnusedStart DEF Conn
  <2> QED BY <2>1, <2>2
<1> HIDE DEF K
<1>7. ConnStart(d, s, x, v, w, u)
  <2>1. CASE u
    <3>1. /\ Carries(q, SentTo(c, s) \ DOMAIN x.ps) /\ DOMAIN x.ps \subseteq SentTo(c, s)
          /\ CallsKept(x) /\ ~x.prepared /\ \A a \in r : Answer(x, a)
          BY <1>6, <2>1 DEF ConnStart
    <3>2. (SentTo(c, s) \ DOMAIN x.ps) \cap K = {}
          BY <1>4 DEF SentTo
    <3>3. (SentTo(c, s) \ DOMAIN x.ps) \cup K = SentTo(d, s) \ DOMAIN x.ps
          BY <1>3, <1>4, <3>1 DEF SentTo
    <3>4. Carries(m, K)
          BY DEF K
    <3>5. Carries(q \o m, SentTo(d, s) \ DOMAIN x.ps)
          BY <3>1, <3>2, <3>3, <3>4, CarriesConcat
    <3>6. v = q \o m /\ w = r /\ DOMAIN x.ps \subseteq SentTo(d, s)
          BY <1>3, <2>1, <3>1
    <3> QED BY <2>1, <3>1, <3>5, <3>6 DEF ConnStart
  <2>2. CASE ~u
        BY <1>6, <2>2 DEF ConnStart
  <2> QED BY <2>1, <2>2
<1>8. (~u => Idle(x)) /\ DOMAIN x.ps \subseteq {p.id : p \in {p \in PiecesOf(t) : p.site = s}}
      BY ZenonT(40) DEF Conn
<1> HIDE DEF v, w
<1>9. Conn(t, d, s, x, v, w, u)
      BY <1>1, <1>5, <1>7, <1>8, ZenonT(40) DEF Conn
<1> QED BY <1>9 DEF v, w, SendQ, SendR

\* Sending new pieces keeps what holds of the transaction.
LEMMA TxnSends ==
  ASSUME FiniteFacts, NEW t \in Txn, NEW c, NEW P \in SUBSET PiecesOf(t), NEW X, NEW Q, NEW R, NEW U, NEW m,
         TxnInv(t, c, X, Q, R, U), c.phase = "start", Ids(P) \cap c.sent = {}, Brought(P, m)
  PROVE  TxnInv(t, Starting(c, P), X, SentQ(Q, U, m), SentR(R, U, m), U)
<1> DEFINE d == Starting(c, P)
           V == SentQ(Q, U, m)
           W == SentR(R, U, m)
           H == Handled(c, X, R, U)
<1>1. /\ c \in Chopper /\ Q \in [Site -> Requests] /\ U \in [Site -> BOOLEAN]
      /\ Counted(t, c, X, Q, R, U)
      /\ \A k \in Site : Conn(t, c, k, X[k], Q[k], R[k], U[k])
      BY DEF TxnInv
<1>2. Sending(c, d, P)
      BY <1>1, StartingIs
<1>3. ASSUME NEW s \in Site PROVE Conn(t, d, s, X[s], V[s], W[s], U[s]) /\ V[s] \in Requests
  <2>1. m[s] \in Requests /\ Carries(m[s], IdsAt(P, s)) /\ (IdsAt(P, s) = {} => m[s] = <<>>)
        BY DEF Brought
  <2>2. Q[s] \in Requests /\ U[s] \in BOOLEAN /\ Conn(t, c, s, X[s], Q[s], R[s], U[s])
        BY <1>1
  <2>3. V[s] = SendQ(Q[s], U[s], m[s])
        BY DEF SentQ
  <2>4. W[s] = SendR(R[s], U[s], m[s])
        BY DEF SentR
  <2>5. V[s] \in Requests
    <3>1. Q[s] \o m[s] \in Requests
          BY <2>1, <2>2 DEF Requests
    <3> QED BY <2>2, <2>3, <3>1 DEF SendQ
  <2> HIDE DEF d, V, W
  <2> DEFINE x == X[s]
             q == Q[s]
             r == R[s]
             u == U[s]
             n == m[s]
  <2>6. Conn(t, d, s, x, SendQ(q, u, n), SendR(r, u, n), u)
    <3>1. Conn(t, c, s, x, q, r, u) /\ Bears(P, s, q, u, n) /\ SendingNew(t, c, d, P)
          BY <1>2, <2>1, <2>2, Zenon DEF Bears, SendingNew
    <3> HIDE DEF x, q, r, u, n
    <3> QED BY <3>1, ConnSends, Zenon
  <2> QED BY <2>3, <2>4, <2>5, <2>6
<1>4. /\ c.sent \subseteq Ids(PiecesOf(t)) /\ c.proxies = {PieceOf(i).site : i \in c.sent}
      /\ CountStart(c, X, H)
      BY <1>1 DEF Counted
<1>5. Ids(P) \subseteq Ids(PiecesOf(t))
      BY DEF Ids
<1> HIDE DEF d, V, W, H
<1>6. /\ d \in Chopper /\ d.sent = c.sent \cup Ids(P) /\ d.proxies = c.proxies \cup {p.site : p \in P}
      /\ d.start_sent = c.start_sent + Cardinality(P)
      /\ d.phase = "start" /\ d.started = c.started /\ d.prepared = c.prepared /\ d.finished = c.finished
      /\ d.commit = c.commit /\ d.out = c.out
      BY <1>2 DEF Sending
<1>7. d.proxies = {PieceOf(i).site : i \in d.sent}
  <2>1. \A p \in P : PieceOf(p.id) = p
        BY PieceNamed DEF PiecesOf
  <2>2. {p.site : p \in P} = {PieceOf(i).site : i \in Ids(P)}
        BY <2>1 DEF Ids
  <2> QED BY <1>4, <1>6, <2>2, Zenon
<1>8. ASSUME NEW i \in d.sent PROVE i \in Handled(d, X, W, U) <=> i \in H
  <2> DEFINE s == PieceOf(i).site
  <2>1. s \in Site
        BY <1>4, <1>5, <1>6, PieceSite, ZenonT(40)
  <2>2. i \in Handled(d, X, W, U) <=> U[s] /\ HandledAt(X[s], W[s], i)
        BY DEF Handled
  <2>3. i \in H <=> i \in c.sent /\ U[s] /\ HandledAt(X[s], R[s], i)
        BY DEF Handled, H
  <2> HIDE DEF s
  <2>4. U[s] => W[s] = R[s]
        BY <2>1 DEF W, SentR, SendR
  <2>5. CASE i \in c.sent
        BY <2>2, <2>3, <2>4, <2>5, ZenonT(40)
  <2>6. CASE i \notin c.sent
    <3>1. ASSUME U[s] PROVE i \notin DOMAIN X[s].ps
      <4>1. Conn(t, c, s, X[s], Q[s], R[s], U[s]) /\ U[s] \in BOOLEAN
            BY <1>1, <2>1, ZenonT(40)
      <4>2. ConnStart(c, s, X[s], Q[s], R[s], U[s])
            BY <4>1, UnusedStart DEF Conn
      <4>3. DOMAIN X[s].ps \subseteq SentTo(c, s)
            BY <3>1, <4>2 DEF ConnStart
      <4> QED BY <2>6, <4>3 DEF SentTo
    <3> QED BY <2>2, <2>3, <2>6, <3>1 DEF HandledAt
  <2> QED BY <2>5, <2>6
<1>9. Handled(d, X, W, U) = H /\ H \subseteq c.sent
  <2>1. Handled(d, X, W, U) \subseteq d.sent /\ H \subseteq c.sent
        BY DEF Handled, H
  <2> QED BY <1>6, <1>8, <2>1, ZenonT(40)
<1>10. Cardinality(d.sent \ H) = Cardinality(c.sent \ H) + Cardinality(P)
  <2>1. IsFiniteSet(Ids(PiecesOf(t))) /\ IsFiniteSet(Ids(P)) /\ Cardinality(Ids(P)) = Cardinality(P)
        BY PiecesFinite
  <2>2. IsFiniteSet(c.sent \ H)
        BY <1>4, <2>1, FiniteSubset, ZenonT(40)
  <2>3. d.sent \ H = (c.sent \ H) \cup Ids(P) /\ (c.sent \ H) \cap Ids(P) = {}
        BY <1>6, <1>9, ZenonT(40)
  <2> QED BY <2>1, <2>2, <2>3, DisjointUnion
<1>11. CountStart(d, X, H)
      BY <1>4, <1>6, <1>10 DEF CountStart
<1>12. Counted(t, d, X, V, W, U)
      BY <1>4, <1>5, <1>6, <1>7, <1>9, <1>11, Zenon DEF Counted
<1>13. V \in [Site -> Requests] /\ DOMAIN W = Site
      BY <1>3 DEF V, SentQ, W, SentR
<1> QED BY <1>1, <1>3, <1>6, <1>12, <1>13, ZenonT(40) DEF TxnInv, d, V, W

-----------------------------------------------------------------------------
(* An answer is taken                                                        *)

\* What an answer under way tells.
StartBack(c, s, x, q, r, u, a) ==
  /\ c.phase \in {"start", "crashed"} /\ ConnStart(c, s, x, q, r, u)
  /\ a.op = IF u THEN "started" ELSE "error"

PrepareBack(c, s, x, q, r, u, a) ==
  /\ c.phase = "prepare" /\ ConnPrepare(c, s, x, q, r, u) /\ q = <<>> /\ r = {a}
  /\ \/ a.op = "prepared" /\ x.prepared /\ a.res = (IF x.wound THEN "REJECT" ELSE "SUCCESS")
     \/ a.op = "error"

FinishBack(c, x, q, r, u, a) ==
  /\ c.phase \in {"commit", "abort"} /\ ConnFinish(c.phase, x, q, r, u) /\ q = <<>> /\ r = {a}
  /\ (u => x = NoTx) /\ a.op \in {"finished", "error"}

\* The fields of the other answers.
LEMMA ReplyFields ==
  /\ ErrorReply.op = "error" /\ FinishedReply.op = "finished"
  /\ \A x : /\ PreparedReply(x).op = "prepared"
            /\ PreparedReply(x).res = IF x.wound THEN "REJECT" ELSE "SUCCESS"
BY DEF ErrorReply, FinishedReply, PreparedReply

\* What holds when an answer is under way, in each phase of the chopper.
LEMMA UnderWayBack ==
  ASSUME NEW t \in Txn, NEW c, NEW X, NEW Q, NEW R, NEW U, NEW s \in Site, NEW a \in R[s],
         TxnInv(t, c, X, Q, R, U)
  PROVE  /\ s \in c.proxies
         /\ \/ StartBack(c, s, X[s], Q[s], R[s], U[s], a)
            \/ PrepareBack(c, s, X[s], Q[s], R[s], U[s], a)
            \/ FinishBack(c, X[s], Q[s], R[s], U[s], a)
<1> DEFINE x == X[s]
           q == Q[s]
           r == R[s]
           u == U[s]
<1>1. /\ c.phase \in Phase /\ u \in BOOLEAN /\ Conn(t, c, s, x, q, r, u)
      /\ c.proxies = {PieceOf(i).site : i \in c.sent}
      /\ c.phase = "new" => c = [NewChopper(1) EXCEPT !.phase = "new"]
      BY DEF TxnInv, Chopper, Counted
<1> HIDE DEF x, q, r, u
<1>2. a \in r /\ r # {}
      BY DEF r
<1>3. s \in c.proxies
      BY <1>1, <1>2 DEF Conn, ConnUnused, Quiet
<1>4. c.phase # "new"
  <2>1. c.phase = "new" => c.sent = {}
        BY <1>1 DEF NewChopper
  <2> QED BY <2>1, <1>1, <1>3
<1>5. CASE c.phase \in {"start", "crashed"}
  <2>1. ConnStart(c, s, x, q, r, u)
        BY <1>1, <1>3, <1>5 DEF Conn
  <2>2. u => a.op = "started"
    <3>1. u => Answer(x, a)
          BY <1>2, <2>1 DEF ConnStart
    <3> QED BY <3>1, AnswerNames DEF Answer
  <2>3. ~u => a.op = "error"
    <3>1. ~u => a = ErrorReply
          BY <1>2, <2>1 DEF ConnStart
    <3> QED BY <3>1, ReplyFields
  <2>4. StartBack(c, s, x, q, r, u, a)
        BY <1>5, <2>1, <2>2, <2>3, <1>1 DEF StartBack
  <2> QED BY <1>3, <2>4 DEF x, q, r, u
<1>6. CASE c.phase = "prepare"
  <2>1. ConnPrepare(c, s, x, q, r, u)
        BY <1>1, <1>3, <1>6 DEF Conn
  <2>2. \/ u /\ q = <<>> /\ x.prepared /\ r = {PreparedReply(x)}
        \/ Failed(q, r, u)
        BY <1>2, <2>1 DEF ConnPrepare, Asks, Quiet
  <2>3. PrepareBack(c, s, x, q, r, u, a)
    <3>1. CASE q = <<>> /\ x.prepared /\ r = {PreparedReply(x)}
      <4>1. a = PreparedReply(x)
            BY <1>2, <3>1
      <4>2. a.op = "prepared" /\ a.res = (IF x.wound THEN "REJECT" ELSE "SUCCESS")
            BY <4>1, ReplyFields
      <4> QED BY <1>6, <2>1, <3>1, <4>1, <4>2 DEF PrepareBack
    <3>2. CASE Failed(q, r, u)
      <4>1. a = ErrorReply /\ q = <<>> /\ r = {a}
            BY <1>2, <3>2 DEF Failed
      <4>2. a.op = "error"
            BY <4>1, ReplyFields
      <4> QED BY <1>6, <2>1, <4>1, <4>2 DEF PrepareBack
    <3> QED BY <2>2, <3>1, <3>2
  <2> QED BY <1>3, <2>3 DEF x, q, r, u
<1>7. CASE c.phase \in {"commit", "abort"}
  <2>1. ConnFinish(c.phase, x, q, r, u)
        BY <1>1, <1>3, <1>7 DEF Conn
  <2>2. \/ u /\ q = <<>> /\ x = NoTx /\ r = {FinishedReply}
        \/ Failed(q, r, u)
        BY <1>2, <2>1 DEF ConnFinish, Asks, Quiet
  <2>3. FinishBack(c, x, q, r, u, a)
    <3>1. CASE u /\ q = <<>> /\ x = NoTx /\ r = {FinishedReply}
      <4>1. a = FinishedReply
            BY <1>2, <3>1
      <4>2. a.op = "finished"
            BY <4>1, ReplyFields
      <4> QED BY <1>7, <2>1, <3>1, <4>1, <4>2 DEF FinishBack
    <3>2. CASE Failed(q, r, u)
      <4>1. a = ErrorReply /\ q = <<>> /\ r = {a} /\ ~u
            BY <1>2, <3>2 DEF Failed
      <4>2. a.op = "error"
            BY <4>1, ReplyFields
      <4> QED BY <1>7, <2>1, <4>1, <4>2 DEF FinishBack
    <3> QED BY <2>2, <3>1, <3>2
  <2> QED BY <1>3, <2>3 DEF x, q, r, u
<1>8. CASE c.phase \in {"SUCCESS", "REJECT"}
      BY <1>1, <1>2, <1>3, <1>8 DEF Conn, ConnOver, Quiet
<1> QED BY <1>1, <1>4, <1>5, <1>6, <1>7, <1>8 DEF Phase

\* The answer a to a start: the pieces it is about, and what is handled once it
\* is taken.
StartAnswer(c, s, x, r, a) ==
  LET d == a.call IN
  /\ d \in Seq(Nat) /\ d # <<>> /\ CallIds(d) \subseteq DOMAIN x.ps /\ CallIds(d) \subseteq SentTo(c, s)
  /\ IsFiniteSet(CallIds(d)) /\ Cardinality(CallIds(d)) = Len(d)
  /\ \A n \in DOMAIN d : a.res[n] = x.ps[d[n]].res
  /\ a.out = UNION {x.ps[i].out : i \in CallIds(d)}
  /\ \A i : HandledAt(x, r \ {a}, i) <=> HandledAt(x, r, i) \/ i \in CallIds(d)
  /\ \A i \in CallIds(d) : ~HandledAt(x, r, i)

\* An answer to a start request is about a call that has ended.
LEMMA StartAnswerIs ==
  ASSUME FiniteFacts, NEW c, NEW s, NEW x, NEW q, NEW r, NEW u, NEW a \in r, TxnTyped(x),
         ConnStart(c, s, x, q, r, u), u
  PROVE  StartAnswer(c, s, x, r, a)
<1>1. DOMAIN x.ps \subseteq SentTo(c, s) /\ CallsKept(x) /\ \A b \in r : Answer(x, b)
      BY DEF ConnStart
<1>2. PICK j \in DOMAIN x.ps : Ended(x, x.ps[j].call) /\ a = AnswerTo(x, x.ps[j].call)
      BY <1>1 DEF Answer
<1> DEFINE d == x.ps[j].call
<1>3. a.call = d
      BY <1>2, AnswerNames
<1>4. d \in Seq(Nat)
      BY DEF TxnTyped, PieceAt
<1>5. /\ j \in CallIds(d) /\ OneByOne(d)
      /\ \A i \in CallIds(d) : i \in DOMAIN x.ps /\ x.ps[i].call = d
      BY <1>1 DEF CallsKept
<1> HIDE DEF d
<1>6. Ended(x, d) /\ a = AnswerTo(x, d)
      BY <1>2 DEF d
<1>7. d # <<>>
  <2>1. CallIds(<<>>) = {}
        BY DEF CallIds
  <2> QED BY <1>5, <2>1
<1>8. a.res = [n \in DOMAIN d |-> x.ps[d[n]].res] /\ a.out = UNION {x.ps[d[n]].out : n \in DOMAIN d}
      BY <1>6 DEF AnswerTo
<1>9. {x.ps[d[n]].out : n \in DOMAIN d} = {x.ps[i].out : i \in CallIds(d)}
      BY DEF CallIds
<1>10. IsFiniteSet(CallIds(d)) /\ Cardinality(CallIds(d)) = Len(d)
  <2> DEFINE N == Len(d)
  <2>1. N \in Nat /\ DOMAIN d = 1 .. N /\ d = [n \in 1 .. N |-> d[n]]
        BY <1>4
  <2>2. IsFiniteSet(1 .. N) /\ Cardinality(1 .. N) = N
        BY <2>1, FiniteNumbers, Zenon
  <2> HIDE DEF N
  <2>3. d \in [1 .. N -> CallIds(d)] /\ \A i \in CallIds(d) : \E n \in 1 .. N : d[n] = i
        BY <2>1 DEF CallIds
  <2>4. \A m, n \in 1 .. N : d[m] = d[n] => m = n
        BY <1>5, <2>1 DEF OneByOne
  <2>5. IsFiniteSet(CallIds(d)) /\ Cardinality(CallIds(d)) = N
        BY <2>2, <2>3, <2>4, FiniteMatch, Zenon DEF Covers, OneToOne
  <2> QED BY <2>5 DEF N
<1>11. ASSUME NEW i, HandledAt(x, r \ {a}, i), ~HandledAt(x, r, i) PROVE i \in CallIds(d)
      BY <1>3, <1>11 DEF HandledAt
<1>12. ASSUME NEW i \in CallIds(d) PROVE HandledAt(x, r \ {a}, i) /\ ~HandledAt(x, r, i)
  <2>1. i \in DOMAIN x.ps /\ x.ps[i].call = d
        BY <1>5
  <2>2. ASSUME NEW b \in r, i \in CallIds(b.call) PROVE b = a
    <3>1. PICK k \in DOMAIN x.ps : b = AnswerTo(x, x.ps[k].call)
          BY <1>1 DEF Answer
    <3>2. b.call = x.ps[k].call
          BY <3>1, AnswerNames, ZenonT(40)
    <3>3. x.ps[k].call = d
          BY <1>1, <2>1, <2>2, <3>2, ZenonT(40) DEF CallsKept
    <3> QED BY <1>6, <3>1, <3>3
  <2>3. HandledAt(x, r \ {a}, i)
        BY <1>6, <2>1, <2>2 DEF HandledAt
  <2>4. ~HandledAt(x, r, i)
        BY <1>3 DEF HandledAt
  <2> QED BY <2>3, <2>4
<1>13. \A i : HandledAt(x, r, i) => HandledAt(x, r \ {a}, i)
      BY DEF HandledAt
<1>14. /\ \A i : HandledAt(x, r \ {a}, i) <=> HandledAt(x, r, i) \/ i \in CallIds(d)
       /\ \A i \in CallIds(d) : ~HandledAt(x, r, i)
      BY <1>11, <1>12, <1>13
<1>15. CallIds(d) \subseteq DOMAIN x.ps /\ CallIds(d) \subseteq SentTo(c, s)
      BY <1>1, <1>5
<1>16. /\ \A n \in DOMAIN d : a.res[n] = x.ps[d[n]].res
       /\ a.out = UNION {x.ps[i].out : i \in CallIds(d)}
      BY <1>8, <1>9, Zenon
<1> QED BY <1>3, <1>4, <1>7, <1>10, <1>14, <1>15, <1>16, Zenon DEF StartAnswer

\* The answers without a of site s.
Taken(R, s, a) == [q \in Site |-> IF q = s THEN R[q] \ {a} ELSE R[q]]

\* The chopper that has taken the answer a to a start.
Good(c, a) == {n \in DOMAIN a.call : c.commit /\ \A k \in 1 .. n : a.res[k] = "SUCCESS"}

Now(c, a) ==
  [c EXCEPT !.started = @ + Len(a.call), !.start_sent = @ - Len(a.call),
            !.commit = (Good(c, a) = DOMAIN a.call), !.out = @ \cup a.out,
            !.answered = @ \cup {a.call[n] : n \in Good(c, a)}]

TakenAs(c, d, a) ==
  /\ d \in Chopper /\ d.phase = c.phase
  /\ d.sent = c.sent /\ d.proxies = c.proxies /\ d.prepared = c.prepared /\ d.finished = c.finished
  /\ d.started = c.started + Len(a.call) /\ d.start_sent = c.start_sent - Len(a.call)
  /\ d.commit <=> c.commit /\ \A n \in DOMAIN a.call : a.res[n] = "SUCCESS"
  /\ d.out = c.out \cup a.out

\* What the answer to a start request does to the counters of a chopper.
LEMMA NowIs ==
  ASSUME NEW c \in Chopper, NEW a, a.call \in Seq(Nat), a.call # <<>>, CallIds(a.call) \subseteq Ids(Piece),
         a.out \subseteq Cell \X Values, c.start_sent - Len(a.call) \in Nat
  PROVE  TakenAs(c, Now(c, a), a)
<1> DEFINE G == Good(c, a)
           n1 == c.started + Len(a.call)
           n2 == c.start_sent - Len(a.call)
           b == (G = DOMAIN a.call)
           O == c.out \cup a.out
           A == c.answered \cup {a.call[n] : n \in G}
<1>1. Len(a.call) \in Nat /\ DOMAIN a.call = 1 .. Len(a.call) /\ 1 \in DOMAIN a.call
      OBVIOUS
<1>2. G \subseteq DOMAIN a.call
      BY DEF Good
<1>3. n1 \in Nat /\ n2 \in Nat
      BY <1>1 DEF Chopper
<1>4. b \in BOOLEAN /\ O \in SUBSET (Cell \X Values)
      BY DEF Chopper
<1>5. A \in SUBSET Ids(Piece)
      BY <1>2 DEF Chopper, CallIds
<1>6. b <=> c.commit /\ \A n \in DOMAIN a.call : a.res[n] = "SUCCESS"
  <2>1. ASSUME b PROVE c.commit /\ \A n \in DOMAIN a.call : a.res[n] = "SUCCESS"
    <3>1. \A n \in DOMAIN a.call : c.commit /\ \A k \in 1 .. n : a.res[k] = "SUCCESS"
          BY <2>1 DEF Good
    <3>2. \A n \in DOMAIN a.call : n \in 1 .. n
          BY <1>1
    <3> QED BY <1>1, <3>1, <3>2
  <2>2. ASSUME c.commit, \A n \in DOMAIN a.call : a.res[n] = "SUCCESS" PROVE b
    <3>1. \A n \in DOMAIN a.call : \A k \in 1 .. n : k \in DOMAIN a.call
          BY <1>1
    <3> QED BY <2>2, <3>1 DEF Good
  <2> QED BY <2>1, <2>2
<1>7. Now(c, a) = [c EXCEPT !.started = n1, !.start_sent = n2, !.commit = b, !.out = O, !.answered = A]
      BY DEF Now
<1> HIDE DEF G, n1, n2, b, O, A
<1> DEFINE d == [c EXCEPT !.started = n1, !.start_sent = n2, !.commit = b, !.out = O, !.answered = A]
<1>8. d \in Chopper
      BY <1>3, <1>4, <1>5, Zenon DEF Chopper
<1>9. /\ d.phase = c.phase /\ d.sent = c.sent /\ d.proxies = c.proxies /\ d.prepared = c.prepared
      /\ d.finished = c.finished /\ d.started = n1 /\ d.start_sent = n2 /\ d.commit = b /\ d.out = O
      BY DEF Chopper
<1> HIDE DEF d
<1>10. Now(c, a) = d
      BY <1>7 DEF d
<1>11. d.commit <=> c.commit /\ \A n \in DOMAIN a.call : a.res[n] = "SUCCESS"
      BY <1>6, <1>9
<1>12. TakenAs(c, d, a)
      BY <1>8, <1>9, <1>11, ZenonT(40) DEF TakenAs, n1, n2, O
<1> QED BY <1>10, <1>12

\* Taking an answer to a start request keeps what holds of the transaction.
LEMMA TxnStartTaken ==
  ASSUME FiniteFacts, NEW t \in Txn, NEW c, NEW X, NEW Q, NEW R, NEW U, NEW s \in Site, NEW a \in R[s],
         TxnInv(t, c, X, Q, R, U), c.phase = "start", a.op = "started", TxnTyped(X[s])
  PROVE  /\ TakenAs(c, Now(c, a), a) /\ TxnInv(t, Now(c, a), X, Q, Taken(R, s, a), U)
         /\ U[s] /\ StartAnswer(c, s, X[s], R[s], a)
<1> DEFINE d == Now(c, a)
           W == Taken(R, s, a)
           H == Handled(c, X, R, U)
           K == CallIds(a.call)
           N == Len(a.call)
<1>1. /\ c \in Chopper /\ Q \in [Site -> Requests] /\ U \in [Site -> BOOLEAN]
      /\ Counted(t, c, X, Q, R, U)
      /\ \A k \in Site : Conn(t, c, k, X[k], Q[k], R[k], U[k])
      BY DEF TxnInv
<1>2. U[s] /\ ConnStart(c, s, X[s], Q[s], R[s], U[s]) /\ s \in c.proxies
  <2>1. StartBack(c, s, X[s], Q[s], R[s], U[s], a) /\ s \in c.proxies
    <3>1. ~PrepareBack(c, s, X[s], Q[s], R[s], U[s], a)
          BY DEF PrepareBack
    <3>2. ~FinishBack(c, X[s], Q[s], R[s], U[s], a)
          BY DEF FinishBack
    <3> QED BY <3>1, <3>2, UnderWayBack, Zenon
  <2> QED BY <2>1, <1>1 DEF StartBack
<1>3. StartAnswer(c, s, X[s], R[s], a)
      BY <1>2, StartAnswerIs, Zenon
<1>4. /\ c.sent \subseteq Ids(PiecesOf(t)) /\ c.proxies = {PieceOf(i).site : i \in c.sent}
      /\ CountStart(c, X, H)
      BY <1>1, ZenonT(40) DEF Counted
<1>5. /\ a.call \in Seq(Nat) /\ a.call # <<>> /\ K \subseteq DOMAIN X[s].ps /\ K \subseteq SentTo(c, s)
      /\ IsFiniteSet(K) /\ Cardinality(K) = N /\ N \in Nat
      /\ a.out = UNION {X[s].ps[i].out : i \in K}
      /\ \A n \in DOMAIN a.call : a.res[n] = X[s].ps[a.call[n]].res
      BY <1>3 DEF StartAnswer
<1>6. ASSUME NEW i \in c.sent PROVE (i \in Handled(d, X, W, U) <=> i \in d.sent /\ (i \in H \/ i \in K)) /\ (i \in K => i \notin H)
  <2> DEFINE q == PieceOf(i).site
  <2>1. q \in Site
        BY <1>4, PieceSite, ZenonT(40)
  <2>2. i \in Handled(d, X, W, U) <=> i \in d.sent /\ U[q] /\ HandledAt(X[q], W[q], i)
        BY DEF Handled
  <2>3. i \in H <=> U[q] /\ HandledAt(X[q], R[q], i)
        BY DEF Handled
  <2>4. W[q] = IF q = s THEN R[q] \ {a} ELSE R[q]
        BY <2>1, ZenonT(40) DEF Taken
  <2>5. i \in K => q = s
        BY <1>5, ZenonT(40) DEF SentTo
  <2> HIDE DEF q, d, W, H, K
  <2>6. CASE q = s
    <3>1. /\ HandledAt(X[s], R[s] \ {a}, i) <=> HandledAt(X[s], R[s], i) \/ i \in K
          /\ i \in K => ~HandledAt(X[s], R[s], i)
          BY <1>3, Zenon DEF StartAnswer, K
    <3> QED BY <1>2, <2>2, <2>3, <2>4, <2>6, <3>1
  <2>7. CASE q # s
        BY <2>2, <2>3, <2>4, <2>5, <2>7
  <2> QED BY <2>6, <2>7, ZenonT(40)
<1>7. K \subseteq c.sent /\ H \subseteq c.sent /\ Handled(d, X, W, U) \subseteq d.sent
      BY <1>5, ZenonT(40) DEF SentTo, Handled
<1> HIDE DEF H, K, W, d, N
<1>8. H \cap K = {}
      BY <1>6, <1>7, ZenonT(40)
<1>9. IsFiniteSet(c.sent) /\ IsFiniteSet(H)
  <2>1. IsFiniteSet(Ids(PiecesOf(t)))
        BY PiecesFinite
  <2> QED BY <1>4, <1>7, <2>1, FiniteSubset, ZenonT(40)
<1>10. Cardinality(H \cup K) = Cardinality(H) + N
      BY <1>5, <1>8, <1>9, DisjointUnion, Zenon
<1>11. Cardinality(c.sent \ H) = Cardinality(c.sent \ (H \cup K)) + N /\ Cardinality(c.sent \ (H \cup K)) \in Nat
  <2>1. IsFiniteSet(c.sent \ (H \cup K))
        BY <1>9, FiniteSubset, ZenonT(40)
  <2>2. c.sent \ H = (c.sent \ (H \cup K)) \cup K /\ (c.sent \ (H \cup K)) \cap K = {}
        BY <1>7, <1>8, ZenonT(40)
  <2>3. Cardinality(c.sent \ (H \cup K)) \in Nat
        BY <2>1, FiniteCardinality
  <2>4. Cardinality((c.sent \ (H \cup K)) \cup K) = Cardinality(c.sent \ (H \cup K)) + Cardinality(K)
        BY <2>1, <2>2, <1>5, DisjointUnion, Zenon
  <2> QED BY <2>2, <2>3, <2>4, <1>5, Zenon
<1>12. /\ c.started = Cardinality(H) /\ c.start_sent = Cardinality(c.sent \ H)
       /\ c.prepared = 0 /\ c.finished = 0
       /\ c.commit => \A i \in H : AtSite(X, i).res = "SUCCESS"
       /\ c.out = UNION {AtSite(X, i).out : i \in H}
      BY <1>4, ZenonT(40) DEF CountStart
<1>13. a.out \subseteq Cell \X Values
  <2>1. \A i \in K : X[s].ps[i].out \subseteq Cell \X Values
        BY <1>5, ZenonT(40) DEF TxnTyped, PieceAt
  <2> QED BY <1>5, <2>1, ZenonT(40)
<1>14. TakenAs(c, d, a)
  <2>1. K \subseteq Ids(Piece)
        BY <1>5, ZenonT(40) DEF TxnTyped
  <2>2. c.start_sent - N \in Nat
    <3> DEFINE k == Cardinality(c.sent \ (H \cup K))
    <3>1. k \in Nat /\ N \in Nat /\ c.start_sent = k + N
          BY <1>5, <1>11, <1>12, ZenonT(40)
    <3> HIDE DEF k
    <3>2. (k + N) - N = k
          BY <3>1
    <3> QED BY <3>1, <3>2, Zenon
  <2> QED BY <1>1, <1>5, <1>13, <2>1, <2>2, NowIs, Zenon DEF d, K, N
<1>15. /\ d \in Chopper /\ d.phase = "start" /\ d.sent = c.sent /\ d.proxies = c.proxies
       /\ d.prepared = c.prepared /\ d.finished = c.finished
       /\ d.started = c.started + N /\ d.start_sent = c.start_sent - N
       /\ d.commit <=> c.commit /\ \A n \in DOMAIN a.call : a.res[n] = "SUCCESS"
       /\ d.out = c.out \cup a.out
      BY <1>14, ZenonT(40) DEF TakenAs, N
<1>16. Handled(d, X, W, U) = H \cup K
      BY <1>6, <1>7, <1>15, ZenonT(40)
<1>17. \A i \in K : AtSite(X, i) = X[s].ps[i]
      BY <1>5, ZenonT(40) DEF SentTo, AtSite
<1>18. d.commit => \A i \in H \cup K : AtSite(X, i).res = "SUCCESS"
  <2>1. \A i \in K : \E n \in DOMAIN a.call : i = a.call[n]
        BY DEF K, CallIds
  <2>2. ASSUME d.commit, NEW i \in K PROVE AtSite(X, i).res = "SUCCESS"
    <3>1. PICK n \in DOMAIN a.call : i = a.call[n]
          BY <2>1, Zenon
    <3>2. a.res[n] = "SUCCESS"
          BY <1>15, <2>2, Zenon
    <3>3. a.res[n] = X[s].ps[i].res
          BY <1>5, <3>1, Zenon
    <3> QED BY <1>17, <3>2, <3>3, Zenon
  <2>3. d.commit => \A i \in H : AtSite(X, i).res = "SUCCESS"
        BY <1>12, <1>15, ZenonT(40)
  <2> QED BY <2>2, <2>3, Zenon
<1>19. d.out = UNION {AtSite(X, i).out : i \in H \cup K}
  <2>1. {X[s].ps[i].out : i \in K} = {AtSite(X, i).out : i \in K}
        BY <1>17
  <2>2. {AtSite(X, i).out : i \in H \cup K} = {AtSite(X, i).out : i \in H} \cup {AtSite(X, i).out : i \in K}
        OBVIOUS
  <2> QED BY <1>5, <1>12, <1>15, <2>1, <2>2, Zenon
<1>20. CountStart(d, X, H \cup K)
  <2>1. d.start_sent = Cardinality(d.sent \ (H \cup K)) /\ d.started = Cardinality(H \cup K)
    <3> DEFINE h == Cardinality(H)
               k == Cardinality(c.sent \ (H \cup K))
    <3>1. h \in Nat /\ k \in Nat /\ N \in Nat
          BY <1>5, <1>9, <1>11, FiniteCardinality, Zenon
    <3>2. Cardinality(H \cup K) = h + N /\ d.started = h + N
          BY <1>10, <1>12, <1>15, Zenon
    <3>3. d.start_sent = (k + N) - N /\ d.sent = c.sent
          BY <1>11, <1>12, <1>15, Zenon
    <3> HIDE DEF h, k
    <3>4. (k + N) - N = k
          BY <3>1
    <3> QED BY <3>2, <3>3, <3>4, Zenon DEF k
  <2> QED BY <2>1, <1>12, <1>15, <1>18, <1>19, ZenonT(40) DEF CountStart
<1>21. Counted(t, d, X, Q, W, U)
      BY <1>4, <1>15, <1>16, <1>20 DEF Counted
<1>22. ASSUME NEW k \in Site PROVE Conn(t, d, k, X[k], Q[k], W[k], U[k])
  <2>1. Conn(t, c, k, X[k], Q[k], R[k], U[k]) /\ SentTo(d, k) = SentTo(c, k)
        BY <1>1, <1>15, ZenonT(40) DEF SentTo
  <2>2. W[k] \subseteq R[k]
        BY DEF W, Taken
  <2>3. k \in c.proxies => ConnStart(d, k, X[k], Q[k], W[k], U[k])
    <3>1. k \in c.proxies => ConnStart(c, k, X[k], Q[k], R[k], U[k])
          BY <2>1, ZenonT(40) DEF Conn
    <3> QED BY <3>1, <2>1, <2>2, Zenon DEF ConnStart
  <2>4. k \notin c.proxies => ConnUnused(X[k], Q[k], W[k], U[k])
        BY <2>1, <2>2, ZenonT(40) DEF Conn, ConnUnused, Quiet
  <2> QED BY <2>1, <2>3, <2>4, <1>15, Zenon DEF Conn
<1>23. DOMAIN W = Site
      BY ZenonT(40) DEF W, Taken
<1>24. TxnInv(t, d, X, Q, W, U)
      BY <1>1, <1>15, <1>21, <1>22, <1>23 DEF TxnInv
<1> QED BY <1>2, <1>3, <1>14, <1>24 DEF d, W

-----------------------------------------------------------------------------
(* Every start was answered                                                  *)

\* A transaction has finitely many sites.
LEMMA ProxiesFinite ==
  ASSUME FiniteFacts, NEW t \in Txn, NEW c, NEW X, NEW Q, NEW R, NEW U, TxnInv(t, c, X, Q, R, U)
  PROVE  /\ IsFiniteSet(c.proxies) /\ Cardinality(c.proxies) \in Nat
         /\ IsFiniteSet(c.sent) /\ c.sent \subseteq Ids(PiecesOf(t))
         /\ c.proxies = {PieceOf(i).site : i \in c.sent} /\ c.proxies \subseteq Site
<1>1. /\ c.sent \subseteq Ids(PiecesOf(t)) /\ c.proxies = {PieceOf(i).site : i \in c.sent}
      /\ c.proxies \subseteq Site
      BY DEF TxnInv, Counted, Chopper
<1>2. IsFiniteSet(c.sent)
  <2>1. IsFiniteSet(Ids(PiecesOf(t)))
        BY PiecesFinite
  <2> QED BY <1>1, <2>1, FiniteSubset, Zenon
<1> DEFINE f == [i \in c.sent |-> PieceOf(i).site]
<1>3. f \in [c.sent -> c.proxies] /\ Covers(f, c.sent, c.proxies)
      BY <1>1 DEF Covers
<1> HIDE DEF f
<1>4. IsFiniteSet(c.proxies)
      BY <1>2, <1>3, FiniteImage, Zenon
<1> QED BY <1>1, <1>2, <1>4, FiniteCardinality, Zenon

\* The site has answered all and has the transaction.
Back(c, s, x, q, r, u) ==
  u /\ Quiet(q, r) /\ Idle(x) /\ DOMAIN x.ps = SentTo(c, s) /\ x.in /\ (c.commit => AllSucceeded(x))

\* A connection to a site whose starts are all answered has nothing under way.
LEMMA ConnBack ==
  ASSUME NEW c, NEW s, NEW x, NEW q \in Requests, NEW r, NEW u,
         ConnStart(c, s, x, q, r, u), u, ~x.in => x = NoTx, SentTo(c, s) # {},
         \A i \in SentTo(c, s) : HandledAt(x, r, i) /\ (c.commit => x.ps[i].res = "SUCCESS")
  PROVE  Back(c, s, x, q, r, u)
<1>1. /\ Carries(q, SentTo(c, s) \ DOMAIN x.ps)
      /\ DOMAIN x.ps \subseteq SentTo(c, s) /\ CallsKept(x) /\ \A a \in r : Answer(x, a)
      BY DEF ConnStart
<1>2. DOMAIN x.ps = SentTo(c, s)
      BY <1>1, Zenon DEF HandledAt
<1>3. q = <<>>
  <2> SUFFICES ASSUME q # <<>> PROVE FALSE
        OBVIOUS
  <2> DEFINE I == SentTo(c, s) \ DOMAIN x.ps
  <2>0. Carries(q, I) /\ I = {}
        BY <1>1, <1>2
  <2> HIDE DEF I
  <2>1. CallIds(q[1].call) \subseteq I /\ q[1].call # <<>> /\ q[1].call \in Seq(Nat)
    <3>1. 1 \in DOMAIN q /\ q[1] \in StartRequest \cup OtherRequest
          BY DEF Requests
    <3> QED BY <2>0, <3>1, Zenon DEF Carries, StartRequest, OtherRequest
  <2>2. 1 \in DOMAIN q[1].call
        BY <2>1
  <2> QED BY <2>0, <2>1, <2>2, Zenon DEF CallIds
<1>4. r = {}
  <2> SUFFICES ASSUME NEW a \in r PROVE FALSE
        OBVIOUS
  <2>1. PICK i \in DOMAIN x.ps : a = AnswerTo(x, x.ps[i].call)
        BY <1>1, ZenonT(40) DEF Answer
  <2>2. i \in CallIds(a.call)
        BY <1>1, <2>1, AnswerNames DEF CallsKept
  <2> QED BY <1>2, <2>1, <2>2 DEF HandledAt
<1>5. Idle(x)
  <2> SUFFICES ASSUME NEW i \in DOMAIN x.ps PROVE x.ps[i].lock # "wait"
        BY ZenonT(40) DEF Idle
  <2>1. Ended(x, x.ps[i].call) /\ i \in CallIds(x.ps[i].call)
        BY <1>1, <1>2, ZenonT(40) DEF HandledAt, CallsKept
  <2> QED BY <2>1 DEF Ended, CallIds
<1>6. x.in
  <2>1. DOMAIN NoTx.ps = {}
        BY AbsentHas
  <2> QED BY <1>2, <2>1
<1>7. c.commit => AllSucceeded(x)
      BY <1>2 DEF AllSucceeded
<1> QED BY <1>2, <1>3, <1>4, <1>5, <1>6, <1>7, ZenonT(40) DEF Back, Quiet

\* What is at the sites: a transaction that is not in txn_map_s has no state.
AtSites(X) == \A s \in Site : TxnTyped(X[s]) /\ (~X[s].in => X[s] = NoTx)

\* When start_sent is 0, all starts are answered, and all sites are idle.
LEMMA AllBack ==
  ASSUME FiniteFacts, NEW t \in Txn, NEW c, NEW X, NEW Q, NEW R, NEW U,
         TxnInv(t, c, X, Q, R, U), c.phase = "start", c.start_sent = 0, AtSites(X)
  PROVE  /\ \A s \in c.proxies : Back(c, s, X[s], Q[s], R[s], U[s])
         /\ c.out = UNION {AtSite(X, i).out : i \in c.sent}
<1> DEFINE H == Handled(c, X, R, U)
<1>1. /\ c \in Chopper /\ Q \in [Site -> Requests] /\ U \in [Site -> BOOLEAN]
      /\ Counted(t, c, X, Q, R, U)
      /\ \A k \in Site : Conn(t, c, k, X[k], Q[k], R[k], U[k])
      BY DEF TxnInv
<1>2. CountStart(c, X, H)
      BY <1>1 DEF Counted
<1>3. /\ IsFiniteSet(c.sent) /\ c.sent \subseteq Ids(PiecesOf(t)) /\ c.proxies \subseteq Site
      /\ c.proxies = {PieceOf(i).site : i \in c.sent}
      BY ProxiesFinite
<1>4. H = c.sent
  <2>1. H \subseteq c.sent
        BY ZenonT(40) DEF Handled
  <2> HIDE DEF H
  <2>2. Cardinality(c.sent \ H) = 0 /\ IsFiniteSet(c.sent \ H)
        BY <1>2, <1>3, FiniteSubset DEF CountStart
  <2>3. c.sent \ H = {}
        BY <2>2, FiniteEmpty
  <2> QED BY <2>1, <2>3, Zenon
<1>5. ASSUME NEW i \in c.sent
      PROVE  /\ U[PieceOf(i).site] /\ HandledAt(X[PieceOf(i).site], R[PieceOf(i).site], i)
             /\ c.commit => X[PieceOf(i).site].ps[i].res = "SUCCESS"
      BY <1>2, <1>4, Zenon DEF Handled, CountStart, AtSite
<1>6. ASSUME NEW s \in c.proxies PROVE Back(c, s, X[s], Q[s], R[s], U[s])
  <2>1. PICK i \in c.sent : PieceOf(i).site = s
        BY <1>3, ZenonT(40)
  <2>2. s \in Site /\ U[s] /\ SentTo(c, s) # {} /\ (~X[s].in => X[s] = NoTx)
        BY <1>3, <1>5, <2>1, ZenonT(40) DEF SentTo, AtSites
  <2>3. \A k \in SentTo(c, s) : HandledAt(X[s], R[s], k) /\ (c.commit => X[s].ps[k].res = "SUCCESS")
        BY <1>5 DEF SentTo
  <2>4. ConnStart(c, s, X[s], Q[s], R[s], U[s]) /\ Q[s] \in Requests
        BY <1>1, <2>2, Zenon DEF Conn
  <2> QED BY <2>2, <2>3, <2>4, ConnBack, Zenon
<1>7. c.out = UNION {AtSite(X, i).out : i \in c.sent}
      BY <1>2, <1>4 DEF CountStart
<1> QED BY <1>6, <1>7, ZenonT(40)

\* prepare_txn, commit_txn or abort_txn is sent to every site that was used.
AskedAt(q, r, u, op) == (Asks(q, r, u, op) \/ Failed(q, r, u)) /\ (u => Asks(q, r, u, op)) /\ ~Quiet(q, r)

\* A request on an idle connection is under way, or its error is.
LEMMA AskedAtSite ==
  ASSUME NEW q, NEW r, NEW u \in BOOLEAN, NEW op, Quiet(q, r)
  PROVE  AskedAt(SendQ(q, u, <<[op |-> op]>>), SendR(r, u, <<[op |-> op]>>), u, op)
<1> DEFINE m == <<[op |-> op]>>
<1>1. q = <<>> /\ r = {} /\ m # <<>>
      BY DEF Quiet
<1>2. <<>> \o m = m
      OBVIOUS
<1>3. CASE u
  <2>1. SendQ(q, u, m) = m /\ SendR(r, u, m) = {}
        BY <1>1, <1>2, <1>3 DEF SendQ, SendR
  <2> QED BY <1>1, <1>3, <2>1, Zenon DEF AskedAt, Asks, Quiet
<1>4. CASE ~u
  <2>1. SendQ(q, u, m) = <<>> /\ SendR(r, u, m) = {ErrorReply}
    <3> HIDE DEF m
    <3> QED BY <1>1, <1>4 DEF SendQ, SendR
  <2> HIDE DEF m
  <2>2. AskedAt(SendQ(q, u, m), SendR(r, u, m), u, op)
        BY <1>4, <2>1 DEF AskedAt, Failed, Quiet
  <2> QED BY <2>2 DEF m
<1> QED BY <1>3, <1>4

SendsOp(c, op, Q, R, U, V, W) ==
  /\ V \in [Site -> Requests] /\ DOMAIN W = Site
  /\ \A s \in Site \ c.proxies : V[s] = Q[s] /\ W[s] = R[s]
  /\ \A s \in c.proxies : AskedAt(V[s], W[s], U[s], op)
  /\ \A d : d.proxies = c.proxies => Cardinality(QuietSites(d, V, W)) = 0

\* prepare and finish send one request to each site of the transaction.
LEMMA OpSent ==
  ASSUME FiniteFacts, NEW c, NEW Q \in [Site -> Requests], NEW R, NEW U \in [Site -> BOOLEAN], NEW op, c.proxies \subseteq Site,
         op \in {"prepare", "commit", "abort"}, \A s \in c.proxies : Quiet(Q[s], R[s])
  PROVE  SendsOp(c, op, Q, R, U, SentQ(Q, U, ToProxies(c, op)), SentR(R, U, ToProxies(c, op)))
<1> DEFINE m == ToProxies(c, op)
           V == SentQ(Q, U, m)
           W == SentR(R, U, m)
<1>1. V \in [Site -> Requests] /\ DOMAIN W = Site
  <2>1. ASSUME NEW s \in Site PROVE m[s] \in Requests
    <3>1. m[s] = <<[op |-> op]>> \/ m[s] = <<>>
          BY DEF ToProxies
    <3>2. <<>> \in Requests
          BY DEF Requests
    <3>3. [op |-> op] \in OtherRequest
          BY DEF OtherRequest
    <3>4. <<[op |-> op]>> \in Requests
          BY <3>3 DEF Requests
    <3> QED BY <3>1, <3>2, <3>4
  <2> HIDE DEF m
  <2>2. ASSUME NEW s \in Site PROVE SendQ(Q[s], U[s], m[s]) \in Requests
    <3>1. Q[s] \in Requests /\ m[s] \in Requests
          BY <2>1
    <3>2. Q[s] \o m[s] \in Requests
          BY <3>1 DEF Requests
    <3> QED BY <3>1, <3>2 DEF SendQ
  <2> QED BY <2>2 DEF SentQ, SentR
<1>2. ASSUME NEW s \in Site
      PROVE  /\ V[s] = SendQ(Q[s], U[s], m[s]) /\ W[s] = SendR(R[s], U[s], m[s]) /\ U[s] \in BOOLEAN
             /\ m[s] = IF s \in c.proxies THEN <<[op |-> op]>> ELSE <<>>
      BY DEF SentQ, SentR, ToProxies
<1> HIDE DEF V, W, m
<1>3. ASSUME NEW s \in Site \ c.proxies PROVE V[s] = Q[s] /\ W[s] = R[s]
  <2>1. m[s] = <<>> /\ Q[s] \o <<>> = Q[s]
        BY <1>2 DEF Requests
  <2> QED BY <1>2, <2>1, Zenon DEF SendQ, SendR
<1>4. ASSUME NEW s \in c.proxies PROVE AskedAt(V[s], W[s], U[s], op)
  <2>1. Quiet(Q[s], R[s]) /\ U[s] \in BOOLEAN
        BY <1>2
  <2>2. AskedAt(SendQ(Q[s], U[s], <<[op |-> op]>>), SendR(R[s], U[s], <<[op |-> op]>>), U[s], op)
        BY <2>1, AskedAtSite
  <2> QED BY <1>2, <2>2
<1>5. ASSUME NEW d, d.proxies = c.proxies PROVE Cardinality(QuietSites(d, V, W)) = 0
  <2>1. QuietSites(d, V, W) = {}
        BY <1>4, <1>5, ZenonT(40) DEF QuietSites, AskedAt
  <2> QED BY <2>1, FiniteEmpty
<1>6. SendsOp(c, op, Q, R, U, V, W)
      BY <1>1, <1>3, <1>4, <1>5 DEF SendsOp
<1> QED BY <1>6 DEF V, W, m

\* The last start was answered: prepare_txn is sent.
LEMMA TxnToPrepare ==
  ASSUME FiniteFacts, NEW t \in Txn, NEW c, NEW X, NEW Q, NEW R, NEW U,
         TxnInv(t, c, X, Q, R, U), c.phase = "start", c.started = Cardinality(PiecesOf(t)), AtSites(X)
  PROVE  TxnInv(t, [c EXCEPT !.phase = "prepare"], X, SentQ(Q, U, ToProxies(c, "prepare")),
                SentR(R, U, ToProxies(c, "prepare")), U)
<1> DEFINE d == [c EXCEPT !.phase = "prepare"]
           V == SentQ(Q, U, ToProxies(c, "prepare"))
           W == SentR(R, U, ToProxies(c, "prepare"))
           H == Handled(c, X, R, U)
<1>1. /\ c \in Chopper /\ Q \in [Site -> Requests] /\ U \in [Site -> BOOLEAN]
      /\ Counted(t, c, X, Q, R, U)
      /\ \A k \in Site : Conn(t, c, k, X[k], Q[k], R[k], U[k])
      BY DEF TxnInv
<1>2. CountStart(c, X, H)
      BY <1>1, ZenonT(40) DEF Counted
<1>3. /\ IsFiniteSet(c.sent) /\ c.sent \subseteq Ids(PiecesOf(t)) /\ c.proxies \subseteq Site
      /\ c.proxies = {PieceOf(i).site : i \in c.sent} /\ Cardinality(c.proxies) \in Nat
      BY ProxiesFinite
<1>4. /\ IsFiniteSet(Ids(PiecesOf(t))) /\ Cardinality(Ids(PiecesOf(t))) = Cardinality(PiecesOf(t))
      /\ Cardinality(PiecesOf(t)) \in Nat
      BY PiecesFinite
<1>5. c.sent = Ids(PiecesOf(t)) /\ c.start_sent = 0
  <2>1. H \subseteq c.sent
        BY DEF Handled
  <2> HIDE DEF H
  <2>2. Cardinality(H) = Cardinality(Ids(PiecesOf(t))) /\ H \in SUBSET Ids(PiecesOf(t))
        BY <1>2, <1>3, <1>4, <2>1, Zenon DEF CountStart
  <2>3. H = Ids(PiecesOf(t))
        BY <1>4, <2>2, FiniteSubset, ZenonT(40)
  <2>4. c.sent \ H = {}
        BY <1>3, <2>3, ZenonT(40)
  <2>5. c.start_sent = 0
        BY <1>2, <2>4, FiniteEmpty, ZenonT(40) DEF CountStart
  <2> QED BY <1>3, <2>1, <2>3, <2>5, Zenon
<1>6. /\ \A s \in c.proxies : Back(c, s, X[s], Q[s], R[s], U[s])
      /\ c.out = UNION {AtSite(X, i).out : i \in c.sent}
      BY <1>5, AllBack
<1>7. /\ d \in Chopper /\ d.phase = "prepare" /\ d.sent = c.sent /\ d.proxies = c.proxies /\ d.commit = c.commit
      /\ d.started = c.started /\ d.start_sent = c.start_sent /\ d.prepared = c.prepared
      /\ d.finished = c.finished /\ d.out = c.out
      BY <1>1 DEF Chopper, Phase
<1>8. SendsOp(c, "prepare", Q, R, U, V, W)
  <2>1. \A s \in c.proxies : Quiet(Q[s], R[s])
        BY <1>6, ZenonT(40) DEF Back
  <2> QED BY <1>1, <1>3, <2>1, OpSent, ZenonT(40)
<1> HIDE DEF V, W, d, H
<1>9. /\ V \in [Site -> Requests] /\ DOMAIN W = Site
      /\ \A s \in Site \ c.proxies : V[s] = Q[s] /\ W[s] = R[s]
      /\ \A s \in c.proxies : AskedAt(V[s], W[s], U[s], "prepare")
      BY <1>8, ZenonT(40) DEF SendsOp
<1>10. Cardinality(QuietSites(d, V, W)) = 0
      BY <1>7, <1>8, ZenonT(40) DEF SendsOp
<1>11. ASSUME NEW s \in Site PROVE Conn(t, d, s, X[s], V[s], W[s], U[s])
  <2>1. Conn(t, c, s, X[s], Q[s], R[s], U[s])
        BY <1>1
  <2>2. CASE s \in c.proxies
    <3>1. U[s] /\ X[s].in /\ Idle(X[s]) /\ DOMAIN X[s].ps = SentTo(c, s) /\ (c.commit => AllSucceeded(X[s]))
          BY <1>6, <2>2, Zenon DEF Back
    <3>2. Asks(V[s], W[s], U[s], "prepare")
          BY <1>9, <2>2, <3>1, Zenon DEF AskedAt
    <3>3. SentTo(d, s) = SentTo(c, s)
          BY <1>7 DEF SentTo
    <3>4. ConnPrepare(d, s, X[s], V[s], W[s], U[s])
          BY <3>1, <3>2, <3>3, <1>7, Zenon DEF ConnPrepare
    <3> QED BY <2>1, <2>2, <3>1, <3>4, <1>7, ZenonT(40) DEF Conn
  <2>3. CASE s \notin c.proxies
        BY <2>1, <2>3, <1>7, <1>9, Zenon DEF Conn
  <2> QED BY <2>2, <2>3, ZenonT(40)
<1>12. CountEnd(t, d, X, QuietSites(d, V, W))
  <2>1. c.prepared = 0 /\ c.finished = 0
        BY <1>2 DEF CountStart
  <2> DEFINE G == QuietSites(d, V, W)
             n == Cardinality(PiecesOf(t))
             k == Cardinality(c.proxies)
  <2>2. Cardinality(G) = 0
        BY <1>10, ZenonT(40)
  <2>0. n \in Nat /\ k \in Nat /\ c.started = n
        BY <1>3, <1>4
  <2> HIDE DEF G, n, k
  <2>7. n \in 0 .. n /\ 0 \in 0 .. n /\ 0 \in 0 .. k
        BY <2>0
  <2>8. d.started = n /\ d.start_sent = 0 /\ d.prepared = 0 /\ d.finished = 0 /\ Cardinality(d.proxies) = k
        BY <1>5, <1>7, <2>0, <2>1 DEF k
  <2>3. /\ d.started \in 0 .. Cardinality(PiecesOf(t)) /\ d.start_sent \in 0 .. Cardinality(PiecesOf(t))
        /\ d.prepared \in 0 .. Cardinality(d.proxies) /\ d.finished \in 0 .. Cardinality(d.proxies)
        BY <2>7, <2>8, ZenonT(40) DEF n
  <2>4. d.out = UNION {AtSite(X, i).out : i \in d.sent}
        BY <1>6, <1>7, ZenonT(40)
  <2>5. /\ d.sent = Ids(PiecesOf(t)) /\ d.finished = 0 /\ d.prepared = Cardinality(G)
        BY <1>5, <1>7, <2>1, <2>2
  <2>6. CountEnd(t, d, X, G)
        BY <1>7, <2>3, <2>4, <2>5, Zenon DEF CountEnd
  <2> QED BY <2>6, ZenonT(40) DEF G
<1>13. Counted(t, d, X, V, W, U)
      BY <1>3, <1>7, <1>12 DEF Counted
<1>14. TxnInv(t, d, X, V, W, U)
      BY <1>1, <1>7, <1>9, <1>11, <1>13, Zenon DEF TxnInv
<1> QED BY <1>14, ZenonT(40) DEF d, V, W

-----------------------------------------------------------------------------
(* commit_txn or abort_txn is sent                                           *)

\* The site has answered and has the transaction, which may commit there if it
\* is to commit.
Settled(c, x, q, r) == Quiet(q, r) /\ Idle(x) /\ x.in /\ (c.commit => Holds(x))

\* finish changes the phase and the result only.
FinishedAs(c, d) ==
  /\ d \in Chopper /\ d.phase \in {"commit", "abort"}
  /\ d.phase = "commit" => c.commit /\ d.res = "SUCCESS"
  /\ d.phase = "abort" => d.res = "REJECT"
  /\ d.sent = c.sent /\ d.proxies = c.proxies /\ d.started = c.started /\ d.start_sent = c.start_sent
  /\ d.prepared = c.prepared /\ d.finished = c.finished /\ d.out = c.out

\* What finish does to the counters of a chopper.
LEMMA FinishingIs ==
  ASSUME NEW c \in Chopper
  PROVE  FinishedAs(c, Finishing(c))
BY Zenon DEF FinishedAs, Finishing, Chopper, Phase

\* finish keeps what holds of the transaction once all sites have answered.
LEMMA TxnFinishing ==
  ASSUME FiniteFacts, NEW t \in Txn, NEW c, NEW X, NEW Q, NEW R, NEW U,
         TxnInv(t, c, X, Q, R, U), \A s \in c.proxies : Settled(c, X[s], Q[s], R[s]),
         c.started \in 0 .. Cardinality(PiecesOf(t)), c.start_sent \in 0 .. Cardinality(PiecesOf(t)),
         c.prepared \in 0 .. Cardinality(c.proxies), c.finished = 0
  PROVE  LET op == Finishing(c).phase
         IN  TxnInv(t, Finishing(c), X, SentQ(Q, U, ToProxies(c, op)), SentR(R, U, ToProxies(c, op)), U)
<1> DEFINE d == Finishing(c)
           op == d.phase
           V == SentQ(Q, U, ToProxies(c, op))
           W == SentR(R, U, ToProxies(c, op))
<1>1. /\ c \in Chopper /\ Q \in [Site -> Requests] /\ U \in [Site -> BOOLEAN]
      /\ \A k \in Site : Conn(t, c, k, X[k], Q[k], R[k], U[k])
      BY DEF TxnInv
<1>2. /\ c.sent \subseteq Ids(PiecesOf(t)) /\ c.proxies \subseteq Site
      /\ c.proxies = {PieceOf(i).site : i \in c.sent} /\ Cardinality(c.proxies) \in Nat
      BY ProxiesFinite, Zenon
<1>3. FinishedAs(c, d)
      BY <1>1, FinishingIs, ZenonT(40)
<1> HIDE DEF d
<1>4. /\ d \in Chopper /\ op \in {"commit", "abort"}
      /\ op = "commit" => c.commit /\ d.res = "SUCCESS"
      /\ op = "abort" => d.res = "REJECT"
      /\ d.sent = c.sent /\ d.proxies = c.proxies /\ d.started = c.started /\ d.start_sent = c.start_sent
      /\ d.prepared = c.prepared /\ d.finished = c.finished
      BY <1>3 DEF FinishedAs
<1> HIDE DEF op
<1>5. SendsOp(c, op, Q, R, U, V, W)
  <2>1. \A s \in c.proxies : Quiet(Q[s], R[s])
        BY Zenon DEF Settled
  <2>2. op \in {"prepare", "commit", "abort"}
        BY <1>4
  <2> QED BY <1>1, <1>2, <2>1, <2>2, OpSent, Zenon
<1> HIDE DEF V, W
<1>6. /\ V \in [Site -> Requests] /\ DOMAIN W = Site
      /\ \A s \in Site \ c.proxies : V[s] = Q[s] /\ W[s] = R[s]
      /\ \A s \in c.proxies : AskedAt(V[s], W[s], U[s], op)
      BY <1>5, ZenonT(40) DEF SendsOp
<1>7. Cardinality(QuietSites(d, V, W)) = 0
      BY <1>4, <1>5, ZenonT(40) DEF SendsOp
<1>8. ASSUME NEW s \in Site PROVE Conn(t, d, s, X[s], V[s], W[s], U[s])
  <2>1. Conn(t, c, s, X[s], Q[s], R[s], U[s])
        BY <1>1
  <2>2. CASE s \in c.proxies
    <3>1. Idle(X[s]) /\ X[s].in /\ (op = "commit" => Holds(X[s]))
          BY <1>4, <2>2 DEF Settled
    <3>2. Asks(V[s], W[s], U[s], op) \/ Failed(V[s], W[s], U[s])
          BY <1>6, <2>2, Zenon DEF AskedAt
    <3>3. ConnFinish(op, X[s], V[s], W[s], U[s])
          BY <3>1, <3>2, Zenon DEF ConnFinish
    <3> QED BY <2>1, <2>2, <3>1, <3>3, <1>4, ZenonT(40) DEF Conn, op
  <2>3. CASE s \notin c.proxies
        BY <2>1, <2>3, <1>4, <1>6, Zenon DEF Conn
  <2> QED BY <2>2, <2>3, ZenonT(40)
<1>9. CountEnd(t, d, X, QuietSites(d, V, W))
  <2> DEFINE G == QuietSites(d, V, W)
  <2>1. d.finished = Cardinality(G)
        BY <1>4, <1>7, ZenonT(40)
  <2>2. d.finished \in 0 .. Cardinality(d.proxies)
        BY <1>2, <1>4
  <2>3. d.phase \in {"commit", "abort"} /\ (d.phase = "commit" => d.res = "SUCCESS") /\ (d.phase = "abort" => d.res = "REJECT")
        BY <1>4, ZenonT(40) DEF op
  <2>4. /\ d.started \in 0 .. Cardinality(PiecesOf(t)) /\ d.start_sent \in 0 .. Cardinality(PiecesOf(t))
        /\ d.prepared \in 0 .. Cardinality(d.proxies)
        BY <1>4
  <2> HIDE DEF G
  <2>5. CountEnd(t, d, X, G)
        BY <2>1, <2>2, <2>3, <2>4, Zenon DEF CountEnd
  <2> QED BY <2>5, ZenonT(40) DEF G
<1>10. Counted(t, d, X, V, W, U)
  <2>1. d.phase \in {"commit", "abort"} /\ d.proxies = {PieceOf(i).site : i \in d.sent}
        BY <1>2, <1>4, ZenonT(40) DEF op
  <2> QED BY <1>2, <1>4, <1>9, <2>1, ZenonT(40) DEF Counted
<1>11. TxnInv(t, d, X, V, W, U)
      BY <1>1, <1>4, <1>6, <1>8, <1>10, Zenon DEF TxnInv
<1> QED BY <1>11, ZenonT(40) DEF d, V, W, op

\* The start that was answered last ends the attempt.
LEMMA TxnRejected ==
  ASSUME FiniteFacts, NEW t \in Txn, NEW c, NEW X, NEW Q, NEW R, NEW U,
         TxnInv(t, c, X, Q, R, U), c.phase = "start", c.start_sent = 0, ~c.commit, AtSites(X)
  PROVE  LET op == Finishing(c).phase
         IN  TxnInv(t, Finishing(c), X, SentQ(Q, U, ToProxies(c, op)), SentR(R, U, ToProxies(c, op)), U)
<1>1. \A s \in c.proxies : Back(c, s, X[s], Q[s], R[s], U[s])
      BY AllBack, Zenon
<1>2. \A s \in c.proxies : Settled(c, X[s], Q[s], R[s])
      BY <1>1, Zenon DEF Back, Settled
<1>3. CountStart(c, X, Handled(c, X, R, U))
      BY DEF TxnInv, Counted
<1> DEFINE n == Cardinality(PiecesOf(t))
           H == Handled(c, X, R, U)
<1>4. n \in Nat /\ Cardinality(Ids(PiecesOf(t))) = n /\ IsFiniteSet(Ids(PiecesOf(t)))
      BY PiecesFinite, ZenonT(40)
<1>5. Cardinality(c.proxies) \in Nat /\ c.sent \subseteq Ids(PiecesOf(t))
      BY ProxiesFinite, ZenonT(40)
<1>6. H \in SUBSET Ids(PiecesOf(t))
      BY <1>5 DEF Handled
<1> HIDE DEF H, n
<1>7. Cardinality(H) \in Nat /\ Cardinality(H) <= n
  <2>1. IsFiniteSet(H) /\ Cardinality(H) <= Cardinality(Ids(PiecesOf(t)))
        BY <1>4, <1>6, FiniteSubset
  <2> QED BY <1>4, <2>1, FiniteCardinality
<1>8. c.started = Cardinality(H) /\ c.prepared = 0 /\ c.finished = 0
      BY <1>3, Zenon DEF CountStart, H
<1>9. c.started \in 0 .. n /\ c.start_sent \in 0 .. n /\ c.prepared \in 0 .. Cardinality(c.proxies)
      BY <1>4, <1>5, <1>7, <1>8
<1> QED BY <1>2, <1>8, <1>9, TxnFinishing, Zenon DEF n

-----------------------------------------------------------------------------
(* An answer to prepare_txn, commit_txn or abort_txn                         *)

QuietMore(c, d, s, Q, R, W) ==
  /\ QuietSites(d, Q, W) = QuietSites(c, Q, R) \cup {s}
  /\ Cardinality(QuietSites(c, Q, R)) \in Nat
  /\ Cardinality(QuietSites(d, Q, W)) = Cardinality(QuietSites(c, Q, R)) + 1
  /\ Cardinality(QuietSites(d, Q, W)) <= Cardinality(c.proxies)
  /\ Quiet(Q[s], W[s]) /\ ButAt(s, R, W) /\ DOMAIN W = Site

\* Taking the answer of a site makes one more connection idle.
LEMMA QuietTaken ==
  ASSUME FiniteFacts, NEW t \in Txn, NEW c, NEW X, NEW Q, NEW R, NEW U, NEW s \in Site, NEW a, NEW d,
         TxnInv(t, c, X, Q, R, U), s \in c.proxies, R[s] = {a}, Q[s] = <<>>, d.proxies = c.proxies
  PROVE  QuietMore(c, d, s, Q, R, Taken(R, s, a))
<1> DEFINE W == Taken(R, s, a)
           G == QuietSites(c, Q, R)
<1>1. \A k \in Site : W[k] = IF k = s THEN {} ELSE R[k]
      BY ZenonT(40) DEF Taken
<1>2. DOMAIN W = Site
      BY ZenonT(40) DEF Taken
<1> HIDE DEF W
<1>3. c.proxies \subseteq Site /\ IsFiniteSet(c.proxies) /\ Cardinality(c.proxies) \in Nat
      BY ProxiesFinite
<1>4. Quiet(Q[s], W[s]) /\ ButAt(s, R, W)
      BY <1>1, ZenonT(40) DEF Quiet, ButAt
<1>5. QuietSites(d, Q, W) = G \cup {s} /\ G \cap {s} = {}
  <2>1. ASSUME NEW k \in c.proxies PROVE Quiet(Q[k], W[k]) <=> k \in G \/ k = s
        BY <1>1, <1>3, <1>4, ZenonT(40) DEF QuietSites, Quiet
  <2>2. s \notin G
        BY DEF QuietSites, Quiet
  <2>3. QuietSites(d, Q, W) \subseteq c.proxies /\ G \subseteq c.proxies
        BY DEF QuietSites
  <2> HIDE DEF G
  <2>4. \A k \in c.proxies : k \in QuietSites(d, Q, W) <=> Quiet(Q[k], W[k])
        BY DEF QuietSites
  <2> QED BY <2>1, <2>2, <2>3, <2>4, ZenonT(40)
<1>6. G \in SUBSET c.proxies /\ G \cup {s} \in SUBSET c.proxies
      BY ZenonT(40) DEF QuietSites
<1> HIDE DEF G
<1>7. IsFiniteSet(G) /\ Cardinality(G) \in Nat /\ Cardinality(G \cup {s}) <= Cardinality(c.proxies)
      BY <1>3, <1>6, FiniteSubset, FiniteCardinality
<1>8. IsFiniteSet({s}) /\ Cardinality({s}) = 1
      BY FiniteOne, Zenon
<1>9. Cardinality(G \cup {s}) = Cardinality(G) + 1
      BY <1>5, <1>7, <1>8, DisjointUnion, Zenon
<1>10. QuietMore(c, d, s, Q, R, W)
      BY <1>2, <1>4, <1>5, <1>7, <1>9, Zenon DEF QuietMore, G
<1> QED BY <1>10, ZenonT(40) DEF W

\* The chopper that has taken the answer a to prepare_txn.
Prepared(c, a) == [c EXCEPT !.prepared = @ + 1, !.commit = @ /\ PreparedOk(a)]

PreparedAs(c, d, a) ==
  /\ d \in Chopper /\ d.phase = c.phase /\ d.prepared = c.prepared + 1
  /\ d.commit <=> c.commit /\ PreparedOk(a)
  /\ d.sent = c.sent /\ d.proxies = c.proxies /\ d.started = c.started /\ d.start_sent = c.start_sent
  /\ d.finished = c.finished /\ d.out = c.out /\ d.res = c.res

\* What the answer to prepare_txn does to the counters of a chopper.
LEMMA PreparedIs ==
  ASSUME NEW c \in Chopper, NEW a
  PROVE  PreparedAs(c, Prepared(c, a), a)
<1> DEFINE n == c.prepared + 1
           b == c.commit /\ PreparedOk(a)
<1>1. n \in Nat /\ b \in BOOLEAN
      BY DEF Chopper
<1>2. Prepared(c, a) = [c EXCEPT !.prepared = n, !.commit = b]
      BY DEF Prepared
<1> HIDE DEF n, b
<1> DEFINE d == [c EXCEPT !.prepared = n, !.commit = b]
<1>3. d \in Chopper
      BY <1>1, Zenon DEF Chopper
<1>4. /\ d.phase = c.phase /\ d.prepared = n /\ d.commit = b
      /\ d.sent = c.sent /\ d.proxies = c.proxies /\ d.started = c.started /\ d.start_sent = c.start_sent
      /\ d.finished = c.finished /\ d.out = c.out /\ d.res = c.res
      BY DEF Chopper
<1>5. d.commit <=> c.commit /\ PreparedOk(a)
      BY <1>4, Zenon DEF b
<1> HIDE DEF d
<1>6. Prepared(c, a) = d
      BY <1>2 DEF d
<1>7. PreparedAs(c, d, a)
      BY <1>3, <1>4, <1>5, ZenonT(40) DEF PreparedAs, n
<1> QED BY <1>6, <1>7

\* Taking an answer to prepare_txn keeps what holds of the transaction.
LEMMA TxnPrepareTaken ==
  ASSUME FiniteFacts, NEW t \in Txn, NEW c, NEW X, NEW Q, NEW R, NEW U, NEW s \in Site, NEW a \in R[s],
         TxnInv(t, c, X, Q, R, U), a.op = "prepared" \/ (a.op = "error" /\ c.phase = "prepare")
  PROVE  /\ PreparedAs(c, Prepared(c, a), a) /\ c.phase = "prepare"
         /\ TxnInv(t, Prepared(c, a), X, Q, Taken(R, s, a), U)
<1> DEFINE d == Prepared(c, a)
           W == Taken(R, s, a)
<1>1. /\ c \in Chopper /\ Q \in [Site -> Requests] /\ U \in [Site -> BOOLEAN]
      /\ Counted(t, c, X, Q, R, U)
      /\ \A k \in Site : Conn(t, c, k, X[k], Q[k], R[k], U[k])
      BY DEF TxnInv
<1>2. PrepareBack(c, s, X[s], Q[s], R[s], U[s], a) /\ s \in c.proxies
  <2>1. ~StartBack(c, s, X[s], Q[s], R[s], U[s], a)
        BY ZenonT(40) DEF StartBack
  <2>2. ~FinishBack(c, X[s], Q[s], R[s], U[s], a)
        BY ZenonT(40) DEF FinishBack
  <2> QED BY <2>1, <2>2, UnderWayBack, Zenon
<1>3. c.phase = "prepare" /\ ConnPrepare(c, s, X[s], Q[s], R[s], U[s]) /\ Q[s] = <<>> /\ R[s] = {a}
      BY <1>2, ZenonT(40) DEF PrepareBack
<1>4. PreparedAs(c, d, a)
      BY <1>1, PreparedIs, ZenonT(40)
<1> HIDE DEF d, W
<1>5. /\ d \in Chopper /\ d.phase = "prepare" /\ d.prepared = c.prepared + 1
      /\ d.commit <=> c.commit /\ PreparedOk(a)
      /\ d.sent = c.sent /\ d.proxies = c.proxies /\ d.started = c.started /\ d.start_sent = c.start_sent
      /\ d.finished = c.finished /\ d.out = c.out
      BY <1>3, <1>4 DEF PreparedAs
<1>6. QuietMore(c, d, s, Q, R, W)
      BY <1>2, <1>3, <1>5, QuietTaken, Zenon DEF W
<1>7. /\ c.sent \subseteq Ids(PiecesOf(t)) /\ c.proxies = {PieceOf(i).site : i \in c.sent}
      /\ CountEnd(t, c, X, QuietSites(c, Q, R))
      BY <1>1, <1>3, ZenonT(40) DEF Counted
<1>8. ASSUME NEW k \in Site PROVE Conn(t, d, k, X[k], Q[k], W[k], U[k])
  <2>1. Conn(t, c, k, X[k], Q[k], R[k], U[k]) /\ SentTo(d, k) = SentTo(c, k)
        BY <1>1, <1>5 DEF SentTo
  <2>2. CASE k = s
    <3>1. X[s].in /\ Idle(X[s]) /\ DOMAIN X[s].ps = SentTo(c, s) /\ (c.commit => AllSucceeded(X[s]))
          BY <1>3, Zenon DEF ConnPrepare
    <3>2. PreparedOk(a) => X[s].prepared /\ ~X[s].wound
          BY <1>2, ZenonT(40) DEF PreparedOk, PrepareBack
    <3>3. Quiet(Q[s], W[s])
          BY <1>6 DEF QuietMore
    <3>4. ConnPrepare(d, s, X[s], Q[s], W[s], U[s])
          BY <3>1, <3>2, <3>3, <1>5, <2>1, <2>2, Zenon DEF ConnPrepare
    <3> QED BY <1>2, <1>5, <2>1, <2>2, <3>4, Zenon DEF Conn
  <2>3. CASE k # s
    <3>1. W[k] = R[k]
          BY <1>6, <2>3 DEF QuietMore, ButAt
    <3>2. k \in c.proxies => ConnPrepare(d, k, X[k], Q[k], R[k], U[k])
      <4>1. k \in c.proxies => ConnPrepare(c, k, X[k], Q[k], R[k], U[k])
            BY <1>3, <2>1, Zenon DEF Conn
      <4> QED BY <4>1, <2>1, <1>5, Zenon DEF ConnPrepare
    <3> QED BY <1>5, <2>1, <3>1, <3>2, ZenonT(40) DEF Conn
  <2> QED BY <2>2, <2>3, ZenonT(40)
<1>9. CountEnd(t, d, X, QuietSites(d, Q, W))
  <2> DEFINE G == QuietSites(d, Q, W)
             F == QuietSites(c, Q, R)
  <2>1. CountEnd(t, c, X, F) /\ Cardinality(F) \in Nat /\ Cardinality(G) = Cardinality(F) + 1 /\ Cardinality(G) <= Cardinality(c.proxies)
        BY <1>6, <1>7, ZenonT(40) DEF QuietMore
  <2>2. Cardinality(c.proxies) \in Nat
        BY ProxiesFinite
  <2> HIDE DEF G, F
  <2>3. /\ c.started \in 0 .. Cardinality(PiecesOf(t)) /\ c.start_sent \in 0 .. Cardinality(PiecesOf(t))
        /\ c.finished \in 0 .. Cardinality(c.proxies) /\ c.sent = Ids(PiecesOf(t)) /\ c.finished = 0
        /\ c.prepared = Cardinality(F) /\ c.out = UNION {AtSite(X, i).out : i \in c.sent}
        BY <1>3, <2>1, Zenon DEF CountEnd
  <2>4. d.prepared = Cardinality(G) /\ d.prepared \in 0 .. Cardinality(d.proxies)
    <3> DEFINE g == Cardinality(G)
               n == Cardinality(c.proxies)
    <3>1. n \in Nat /\ g \in Nat /\ g <= n
      <4> DEFINE f == Cardinality(F)
      <4>1. n \in Nat /\ f \in Nat /\ g = f + 1 /\ g <= n
            BY <2>1, <2>2, Zenon
      <4> HIDE DEF f, g, n
      <4> QED BY <4>1
    <3>2. d.prepared = g /\ Cardinality(d.proxies) = n
          BY <1>5, <2>1, <2>3, Zenon
    <3> HIDE DEF g, n
    <3>3. g \in 0 .. n
          BY <3>1
    <3> QED BY <3>2, <3>3, Zenon DEF g
  <2>5. d.out = UNION {AtSite(X, i).out : i \in d.sent}
        BY <1>5, <2>3, Zenon
  <2>6. CountEnd(t, d, X, G)
        BY <1>5, <2>3, <2>4, <2>5, Zenon DEF CountEnd
  <2> QED BY <2>6 DEF G
<1>10. Counted(t, d, X, Q, W, U)
      BY <1>5, <1>7, <1>9, ZenonT(40) DEF Counted
<1>11. DOMAIN W = Site
      BY <1>6 DEF QuietMore
<1>12. TxnInv(t, d, X, Q, W, U)
      BY <1>1, <1>5, <1>8, <1>10, <1>11, Zenon DEF TxnInv
<1> QED BY <1>3, <1>4, <1>12, ZenonT(40) DEF d, W

\* Every site has answered prepare_txn: commit_txn or abort_txn is sent.
LEMMA TxnVoted ==
  ASSUME FiniteFacts, NEW t \in Txn, NEW c, NEW X, NEW Q, NEW R, NEW U,
         TxnInv(t, c, X, Q, R, U), c.phase = "prepare", c.prepared = Cardinality(c.proxies)
  PROVE  /\ \A s \in c.proxies : Settled(c, X[s], Q[s], R[s])
         /\ c.sent = Ids(PiecesOf(t)) /\ c.out = UNION {AtSite(X, i).out : i \in c.sent}
         /\ LET op == Finishing(c).phase
            IN  TxnInv(t, Finishing(c), X, SentQ(Q, U, ToProxies(c, op)), SentR(R, U, ToProxies(c, op)), U)
<1> DEFINE G == QuietSites(c, Q, R)
<1>1. /\ CountEnd(t, c, X, G) /\ \A k \in Site : Conn(t, c, k, X[k], Q[k], R[k], U[k])
      BY DEF TxnInv, Counted
<1>2. c.proxies \subseteq Site /\ IsFiniteSet(c.proxies)
      BY ProxiesFinite, Zenon
<1>3. G \in SUBSET c.proxies
      BY DEF QuietSites
<1>4. Cardinality(G) = Cardinality(c.proxies)
      BY <1>1, ZenonT(40) DEF CountEnd
<1>5. G = c.proxies
      BY <1>2, <1>3, <1>4, FiniteSubset
<1>6. ASSUME NEW s \in c.proxies PROVE Settled(c, X[s], Q[s], R[s])
  <2>1. Quiet(Q[s], R[s])
        BY <1>5 DEF QuietSites
  <2>2. ConnPrepare(c, s, X[s], Q[s], R[s], U[s])
        BY <1>1, <1>2, ZenonT(40) DEF Conn
  <2> DEFINE x == X[s]
             q == Q[s]
             r == R[s]
             u == U[s]
  <2>3. c.commit => x.prepared /\ ~x.wound
    <3> HIDE DEF x, q, r, u
    <3>1. Quiet(q, r) /\ ConnPrepare(c, s, x, q, r, u)
          BY <2>1, <2>2, Zenon DEF x, q, r, u
    <3> QED BY <3>1, Zenon DEF ConnPrepare, Asks, Failed, Quiet
  <2> QED BY <2>1, <2>2, <2>3, ZenonT(40) DEF ConnPrepare, Settled, Holds
<1>7. /\ c.started \in 0 .. Cardinality(PiecesOf(t)) /\ c.start_sent \in 0 .. Cardinality(PiecesOf(t))
      /\ c.prepared \in 0 .. Cardinality(c.proxies) /\ c.finished = 0
      /\ c.sent = Ids(PiecesOf(t)) /\ c.out = UNION {AtSite(X, i).out : i \in c.sent}
      BY <1>1, Zenon DEF CountEnd
<1> HIDE DEF G
<1>8. LET op == Finishing(c).phase
      IN  TxnInv(t, Finishing(c), X, SentQ(Q, U, ToProxies(c, op)), SentR(R, U, ToProxies(c, op)), U)
      BY <1>6, <1>7, TxnFinishing, Zenon
<1> QED BY <1>6, <1>7, <1>8, Zenon

\* A chopper before anything was sent.
FreshAs(d) ==
  /\ d \in Chopper /\ d.phase = "start" /\ d.sent = {} /\ d.proxies = {} /\ d.started = 0 /\ d.start_sent = 0
  /\ d.prepared = 0 /\ d.finished = 0 /\ d.out = {}

\* A chopper at the beginning of an attempt.
LEMMA FreshIs ==
  ASSUME NEW n \in Nat, NEW l \in {"no", "next", "sent"}
  PROVE  FreshAs([NewChopper(n) EXCEPT !.loop = l])
<1> DEFINE b == TRUE
           e == NewChopper(n)
<1>1. e = [phase |-> "start", sent |-> {}, answered |-> {}, started |-> 0, start_sent |-> 0,
           prepared |-> 0, finished |-> 0, proxies |-> {}, commit |-> b, out |-> {},
           res |-> "none", n_try |-> n, loop |-> "no"]
      BY Zenon DEF NewChopper
<1>2. b \in BOOLEAN
      OBVIOUS
<1> HIDE DEF b, e
<1>3. [e EXCEPT !.loop = l] \in Chopper
      BY <1>1, <1>2 DEF Chopper, Phase
<1>4. /\ [e EXCEPT !.loop = l].phase = "start" /\ [e EXCEPT !.loop = l].sent = {} /\ [e EXCEPT !.loop = l].proxies = {}
      /\ [e EXCEPT !.loop = l].started = 0 /\ [e EXCEPT !.loop = l].start_sent = 0 /\ [e EXCEPT !.loop = l].prepared = 0
      /\ [e EXCEPT !.loop = l].finished = 0 /\ [e EXCEPT !.loop = l].out = {}
      BY <1>1
<1> QED BY <1>3, <1>4 DEF FreshAs, e

\* The chopper that has taken an answer to commit_txn or abort_txn.
Counting(c) == [c EXCEPT !.finished = @ + 1]

CountingAs(c, d) ==
  /\ d \in Chopper /\ d.phase = c.phase /\ d.finished = c.finished + 1
  /\ d.sent = c.sent /\ d.proxies = c.proxies /\ d.started = c.started /\ d.start_sent = c.start_sent
  /\ d.prepared = c.prepared /\ d.out = c.out /\ d.res = c.res /\ d.n_try = c.n_try /\ d.loop = c.loop

\* What the answer to commit_txn or abort_txn does to the counters of a chopper.
LEMMA CountingIs ==
  ASSUME NEW c \in Chopper
  PROVE  CountingAs(c, Counting(c))
<1> DEFINE n == c.finished + 1
<1>1. n \in Nat
      BY DEF Chopper
<1>2. Counting(c) = [c EXCEPT !.finished = n]
      BY DEF Counting
<1> HIDE DEF n
<1>3. [c EXCEPT !.finished = n] \in Chopper
      BY <1>1 DEF Chopper
<1> DEFINE d == [c EXCEPT !.finished = n]
<1>4. /\ d.phase = c.phase /\ d.finished = n
      /\ d.sent = c.sent /\ d.proxies = c.proxies /\ d.started = c.started /\ d.start_sent = c.start_sent
      /\ d.prepared = c.prepared /\ d.out = c.out /\ d.res = c.res /\ d.n_try = c.n_try /\ d.loop = c.loop
      BY ZenonT(40) DEF Chopper
<1> QED BY <1>2, <1>3, <1>4 DEF CountingAs, n

\* Taking an answer to commit_txn or abort_txn keeps what holds of the transaction.
LEMMA TxnFinishTaken ==
  ASSUME FiniteFacts, NEW t \in Txn, NEW c, NEW X, NEW Q, NEW R, NEW U, NEW s \in Site, NEW a \in R[s],
         TxnInv(t, c, X, Q, R, U), a.op = "finished" \/ (a.op = "error" /\ c.phase \in {"commit", "abort"})
  PROVE  /\ CountingAs(c, Counting(c)) /\ c.phase \in {"commit", "abort"}
         /\ TxnInv(t, Counting(c), X, Q, Taken(R, s, a), U)
<1> DEFINE d == Counting(c)
           W == Taken(R, s, a)
<1>1. /\ c \in Chopper /\ Q \in [Site -> Requests] /\ U \in [Site -> BOOLEAN]
      /\ Counted(t, c, X, Q, R, U)
      /\ \A k \in Site : Conn(t, c, k, X[k], Q[k], R[k], U[k])
      BY DEF TxnInv
<1>2. FinishBack(c, X[s], Q[s], R[s], U[s], a) /\ s \in c.proxies
  <2>1. ~StartBack(c, s, X[s], Q[s], R[s], U[s], a)
        BY DEF StartBack
  <2>2. ~PrepareBack(c, s, X[s], Q[s], R[s], U[s], a)
        BY ZenonT(40) DEF PrepareBack
  <2> QED BY <2>1, <2>2, UnderWayBack, Zenon
<1>3. /\ c.phase \in {"commit", "abort"} /\ ConnFinish(c.phase, X[s], Q[s], R[s], U[s])
      /\ Q[s] = <<>> /\ R[s] = {a} /\ (U[s] => X[s] = NoTx)
      BY <1>2 DEF FinishBack
<1>4. CountingAs(c, d)
      BY <1>1, CountingIs, ZenonT(40)
<1> HIDE DEF d, W
<1>5. /\ d \in Chopper /\ d.phase = c.phase /\ d.finished = c.finished + 1 /\ d.res = c.res
      /\ d.sent = c.sent /\ d.proxies = c.proxies /\ d.started = c.started /\ d.start_sent = c.start_sent
      /\ d.prepared = c.prepared
      BY <1>4 DEF CountingAs
<1>6. QuietMore(c, d, s, Q, R, W)
      BY <1>2, <1>3, <1>5, QuietTaken, Zenon DEF W
<1>7. /\ c.sent \subseteq Ids(PiecesOf(t)) /\ c.proxies = {PieceOf(i).site : i \in c.sent}
      /\ CountEnd(t, c, X, QuietSites(c, Q, R))
      BY <1>1, <1>3 DEF Counted
<1>8. ASSUME NEW k \in Site PROVE Conn(t, d, k, X[k], Q[k], W[k], U[k])
  <2>1. Conn(t, c, k, X[k], Q[k], R[k], U[k])
        BY <1>1
  <2>2. CASE k = s
    <3>1. Idle(X[s]) /\ (c.phase = "commit" /\ X[s].in => Holds(X[s]))
          BY <1>3, ZenonT(40) DEF ConnFinish
    <3>2. Quiet(Q[s], W[s])
          BY <1>6 DEF QuietMore
    <3>3. ConnFinish(c.phase, X[s], Q[s], W[s], U[s])
          BY <3>1, <3>2, <1>3, Zenon DEF ConnFinish
    <3> QED BY <1>2, <1>3, <1>5, <2>1, <2>2, <3>3, Zenon DEF Conn
  <2>3. CASE k # s
    <3>1. W[k] = R[k]
          BY <1>6, <2>3, Zenon DEF QuietMore, ButAt
    <3>2. k \in c.proxies => ConnFinish(c.phase, X[k], Q[k], R[k], U[k])
          BY <1>3, <2>1, ZenonT(40) DEF Conn
    <3> QED BY <1>3, <1>5, <2>1, <3>1, <3>2, Zenon DEF Conn
  <2> QED BY <2>2, <2>3, ZenonT(40)
<1>9. CountEnd(t, d, X, QuietSites(d, Q, W))
  <2> DEFINE G == QuietSites(d, Q, W)
             F == QuietSites(c, Q, R)
  <2>1. CountEnd(t, c, X, F) /\ Cardinality(F) \in Nat /\ Cardinality(G) = Cardinality(F) + 1 /\ Cardinality(G) <= Cardinality(c.proxies)
        BY <1>6, <1>7, Zenon DEF QuietMore
  <2>2. Cardinality(c.proxies) \in Nat
        BY ProxiesFinite, Zenon
  <2> HIDE DEF G, F
  <2>3. /\ c.started \in 0 .. Cardinality(PiecesOf(t)) /\ c.start_sent \in 0 .. Cardinality(PiecesOf(t))
        /\ c.prepared \in 0 .. Cardinality(c.proxies) /\ c.finished = Cardinality(F)
        /\ c.phase = "commit" => c.res = "SUCCESS"
        /\ c.phase = "abort" => c.res = "REJECT"
        BY <1>3, <2>1, Zenon DEF CountEnd
  <2>4. d.finished = Cardinality(G) /\ d.finished \in 0 .. Cardinality(d.proxies)
    <3> DEFINE g == Cardinality(G)
               n == Cardinality(c.proxies)
    <3>1. n \in Nat /\ g \in Nat /\ g <= n
      <4> DEFINE f == Cardinality(F)
      <4>1. n \in Nat /\ f \in Nat /\ g = f + 1 /\ g <= n
            BY <2>1, <2>2, Zenon
      <4> HIDE DEF f, g, n
      <4> QED BY <4>1
    <3>2. d.finished = g /\ Cardinality(d.proxies) = n
          BY <1>5, <2>1, <2>3, Zenon
    <3> HIDE DEF g, n
    <3>3. g \in 0 .. n
          BY <3>1
    <3> QED BY <3>2, <3>3, Zenon DEF g
  <2>5. CountEnd(t, d, X, G)
        BY <1>3, <1>5, <2>3, <2>4, Zenon DEF CountEnd
  <2> QED BY <2>5 DEF G
<1>10. Counted(t, d, X, Q, W, U)
      BY <1>3, <1>5, <1>7, <1>9 DEF Counted
<1>11. DOMAIN W = Site
      BY <1>6, ZenonT(40) DEF QuietMore
<1>12. TxnInv(t, d, X, Q, W, U)
      BY <1>1, <1>5, <1>8, <1>10, <1>11 DEF TxnInv
<1> QED BY <1>3, <1>4, <1>12, ZenonT(40) DEF d, W

\* Every site has answered commit_txn or abort_txn.
LEMMA AllFinished ==
  ASSUME FiniteFacts, NEW t \in Txn, NEW c, NEW X, NEW Q, NEW R, NEW U,
         TxnInv(t, c, X, Q, R, U), c.phase \in {"commit", "abort"}, c.finished = Cardinality(c.proxies)
  PROVE  /\ \A s \in Site : Quiet(Q[s], R[s]) /\ (U[s] => X[s] = NoTx)
         /\ \A s \in c.proxies : Idle(X[s]) /\ (c.phase = "commit" /\ X[s].in => Holds(X[s]))
         /\ c.phase = "commit" => c.res = "SUCCESS"
         /\ c.phase = "abort" => c.res = "REJECT"
<1> DEFINE G == QuietSites(c, Q, R)
<1>1. CountEnd(t, c, X, G) /\ \A k \in Site : Conn(t, c, k, X[k], Q[k], R[k], U[k])
      BY DEF TxnInv, Counted
<1>2. c.proxies \subseteq Site /\ IsFiniteSet(c.proxies)
      BY ProxiesFinite, ZenonT(40)
<1>3. G \in SUBSET c.proxies
      BY DEF QuietSites
<1>4. /\ Cardinality(G) = Cardinality(c.proxies)
      /\ c.phase = "commit" => c.res = "SUCCESS"
      /\ c.phase = "abort" => c.res = "REJECT"
      BY <1>1, Zenon DEF CountEnd
<1>5. G = c.proxies
      BY <1>2, <1>3, <1>4, FiniteSubset, Zenon
<1>6. ASSUME NEW s \in c.proxies
      PROVE  /\ Quiet(Q[s], R[s]) /\ (U[s] => X[s] = NoTx)
             /\ Idle(X[s]) /\ (c.phase = "commit" /\ X[s].in => Holds(X[s]))
  <2>1. Quiet(Q[s], R[s])
        BY <1>5, Zenon DEF QuietSites
  <2>2. ConnFinish(c.phase, X[s], Q[s], R[s], U[s])
        BY <1>1, <1>2, Zenon DEF Conn
  <2> DEFINE x == X[s]
             q == Q[s]
             r == R[s]
             u == U[s]
  <2>3. u => x = NoTx
    <3> HIDE DEF x, q, r, u
    <3>1. Quiet(q, r) /\ ConnFinish(c.phase, x, q, r, u)
          BY <2>1, <2>2, Zenon DEF x, q, r, u
    <3> QED BY <3>1 DEF ConnFinish, Asks, Failed, Quiet
  <2> QED BY <2>1, <2>2, <2>3, Zenon DEF ConnFinish
<1>7. ASSUME NEW s \in Site, s \notin c.proxies PROVE Quiet(Q[s], R[s]) /\ (U[s] => X[s] = NoTx)
      BY <1>1, <1>7, Zenon DEF Conn, ConnUnused
<1> QED BY <1>4, <1>6, <1>7, Zenon

\* end: the transaction is answered.
LEMMA TxnOver ==
  ASSUME FiniteFacts, NEW t \in Txn, NEW c, NEW X, NEW Q, NEW R, NEW U,
         TxnInv(t, c, X, Q, R, U), c.phase \in {"commit", "abort"}, c.finished = Cardinality(c.proxies)
  PROVE  TxnInv(t, [c EXCEPT !.phase = c.res], X, Q, R, U)
<1> DEFINE d == [c EXCEPT !.phase = c.res]
<1>1. /\ c \in Chopper /\ Q \in [Site -> Requests] /\ U \in [Site -> BOOLEAN] /\ DOMAIN R = Site
      /\ Counted(t, c, X, Q, R, U)
      /\ \A k \in Site : Conn(t, c, k, X[k], Q[k], R[k], U[k])
      BY DEF TxnInv
<1>2. /\ \A s \in Site : Quiet(Q[s], R[s]) /\ (U[s] => X[s] = NoTx)
      /\ \A s \in c.proxies : Idle(X[s]) /\ (c.phase = "commit" /\ X[s].in => Holds(X[s]))
      /\ c.phase = "commit" => c.res = "SUCCESS"
      /\ c.phase = "abort" => c.res = "REJECT"
      BY AllFinished, Zenon
<1>3. /\ c.sent \subseteq Ids(PiecesOf(t)) /\ c.proxies = {PieceOf(i).site : i \in c.sent}
      /\ CountEnd(t, c, X, QuietSites(c, Q, R))
      BY <1>1 DEF Counted
<1>4. /\ d \in Chopper /\ d.phase = c.res /\ d.sent = c.sent /\ d.proxies = c.proxies
      /\ d.started = c.started /\ d.start_sent = c.start_sent /\ d.prepared = c.prepared
      /\ d.finished = c.finished
      BY <1>1, <1>2, ZenonT(40) DEF Chopper, Phase
<1> HIDE DEF d
<1>5. d.phase \in {"SUCCESS", "REJECT"} /\ (d.phase = "SUCCESS" => c.phase = "commit")
      BY <1>2, <1>4
<1>6. ASSUME NEW k \in Site PROVE Conn(t, d, k, X[k], Q[k], R[k], U[k])
  <2>1. Conn(t, c, k, X[k], Q[k], R[k], U[k])
        BY <1>1, Zenon
  <2>2. k \in c.proxies => ConnOver(d, X[k], Q[k], R[k], U[k])
        BY <1>2, <1>5, Zenon DEF ConnOver
  <2> QED BY <1>4, <1>5, <2>1, <2>2, Zenon DEF Conn
<1>7. CountEnd(t, d, X, QuietSites(d, Q, R))
  <2>1. /\ c.started \in 0 .. Cardinality(PiecesOf(t)) /\ c.start_sent \in 0 .. Cardinality(PiecesOf(t))
        /\ c.prepared \in 0 .. Cardinality(c.proxies) /\ c.finished \in 0 .. Cardinality(c.proxies)
        BY <1>3, Zenon DEF CountEnd
  <2> QED BY <1>4, <1>5, <2>1, Zenon DEF CountEnd
<1>8. Counted(t, d, X, Q, R, U)
      BY <1>3, <1>4, <1>5, <1>7 DEF Counted
<1>9. TxnInv(t, d, X, Q, R, U)
      BY <1>1, <1>4, <1>6, <1>8, Zenon DEF TxnInv
<1> QED BY <1>9, ZenonT(40) DEF d

\* A new attempt: no site has anything under way, and each that can be reached
\* has forgotten the transaction.
LEMMA TxnFresh ==
  ASSUME FiniteFacts, NEW t \in Txn, NEW c, NEW X, NEW Q, NEW R, NEW U, NEW d, NEW W,
         TxnInv(t, c, X, Q, R, U), \A s \in Site : Quiet(Q[s], R[s]) /\ (U[s] => X[s] = NoTx), FreshAs(d),
         DOMAIN W = Site, \A s \in Site : W[s] = {}
  PROVE  TxnInv(t, d, X, Q, W, U)
<1>1. /\ Q \in [Site -> Requests] /\ U \in [Site -> BOOLEAN] 
      /\ \A k \in Site : Conn(t, c, k, X[k], Q[k], R[k], U[k])
      BY DEF TxnInv
<1>2. /\ d \in Chopper /\ d.phase = "start" /\ d.sent = {} /\ d.proxies = {} /\ d.started = 0
      /\ d.start_sent = 0 /\ d.prepared = 0 /\ d.finished = 0 /\ d.out = {}
      BY DEF FreshAs
<1>3. ASSUME NEW k \in Site PROVE Conn(t, d, k, X[k], Q[k], W[k], U[k])
  <2>1. Conn(t, c, k, X[k], Q[k], R[k], U[k])
        BY <1>1, Zenon
  <2>2. ConnUnused(X[k], Q[k], W[k], U[k])
        BY ZenonT(40) DEF ConnUnused, Quiet
  <2> QED BY <1>2, <2>1, <2>2, Zenon DEF Conn
<1>4. Handled(d, X, W, U) = {}
      BY <1>2, ZenonT(40) DEF Handled
<1>5. Cardinality({}) = 0
      BY FiniteEmpty, ZenonT(40)
<1>6. CountStart(d, X, {})
  <2>1. d.sent \ {} = {} /\ UNION {AtSite(X, i).out : i \in {}} = {}
        BY <1>2
  <2> QED BY <1>2, <1>5, <2>1, ZenonT(40) DEF CountStart
<1>7. Counted(t, d, X, Q, W, U)
  <2>1. {PieceOf(i).site : i \in d.sent} = {}
        BY <1>2
  <2> QED BY <1>2, <1>4, <1>6, <2>1, ZenonT(40) DEF Counted
<1> QED BY <1>1, <1>2, <1>3, <1>7, ZenonT(40) DEF TxnInv

\* do_one has made a chopper.
LEMMA TxnBegins ==
  ASSUME NEW t \in Txn, NEW c, NEW X, NEW Q, NEW R, NEW U, TxnInv(t, c, X, Q, R, U), c.phase = "new"
  PROVE  /\ \A s \in Site : Quiet(Q[s], R[s]) /\ (U[s] => X[s] = NoTx)
         /\ FreshAs([c EXCEPT !.phase = "start"])
         /\ FreshAs([[c EXCEPT !.phase = "start"] EXCEPT !.loop = "next"])
<1>1. /\ c \in Chopper /\ c = [NewChopper(1) EXCEPT !.phase = "new"]
      /\ \A k \in Site : Conn(t, c, k, X[k], Q[k], R[k], U[k])
      BY DEF TxnInv, Counted
<1>2. /\ c.sent = {} /\ c.proxies = {} /\ c.started = 0 /\ c.start_sent = 0 /\ c.prepared = 0
      /\ c.finished = 0 /\ c.out = {}
      BY <1>1 DEF NewChopper
<1>3. \A s \in Site : Quiet(Q[s], R[s]) /\ (U[s] => X[s] = NoTx)
      BY <1>1, <1>2 DEF Conn, ConnUnused
<1> DEFINE d == [c EXCEPT !.phase = "start"]
<1>4. FreshAs(d)
      BY <1>1, <1>2, ZenonT(40) DEF FreshAs, Chopper, Phase
<1> HIDE DEF d
<1>5. FreshAs([d EXCEPT !.loop = "next"])
      BY <1>4 DEF FreshAs, Chopper
<1> QED BY <1>3, <1>4, <1>5 DEF d

\* A start ends with an error.
LEMMA TxnCrashed ==
  ASSUME NEW t \in Txn, NEW c, NEW X, NEW Q, NEW R, NEW U, NEW s \in Site, NEW a \in R[s],
         TxnInv(t, c, X, Q, R, U), a.op = "error", c.phase = "start"
  PROVE  TxnInv(t, [c EXCEPT !.phase = "crashed"], X, Q, Taken(R, s, a), U)
<1> DEFINE d == [c EXCEPT !.phase = "crashed"]
           W == Taken(R, s, a)
<1>1. /\ c \in Chopper /\ Q \in [Site -> Requests] /\ U \in [Site -> BOOLEAN]
      /\ Counted(t, c, X, Q, R, U)
      /\ \A k \in Site : Conn(t, c, k, X[k], Q[k], R[k], U[k])
      BY DEF TxnInv
<1>2. StartBack(c, s, X[s], Q[s], R[s], U[s], a)
  <2>1. ~PrepareBack(c, s, X[s], Q[s], R[s], U[s], a)
        BY Zenon DEF PrepareBack
  <2>2. ~FinishBack(c, X[s], Q[s], R[s], U[s], a)
        BY Zenon DEF FinishBack
  <2> QED BY <2>1, <2>2, UnderWayBack, Zenon
<1>3. ~U[s]
      BY <1>1, <1>2, Zenon DEF StartBack
<1>4. /\ d \in Chopper /\ d.phase = "crashed" /\ d.sent = c.sent /\ d.proxies = c.proxies
      /\ d.started = c.started /\ d.start_sent = c.start_sent /\ d.prepared = c.prepared
      /\ d.finished = c.finished /\ d.commit = c.commit /\ d.out = c.out
      BY <1>1, ZenonT(40) DEF Chopper, Phase
<1>5. \A k \in Site : W[k] \subseteq R[k] /\ (U[k] => W[k] = R[k])
      BY <1>3 DEF Taken
<1>6. DOMAIN W = Site
      BY DEF Taken
<1> HIDE DEF d, W
<1>7. ASSUME NEW k \in Site PROVE Conn(t, d, k, X[k], Q[k], W[k], U[k])
  <2>1. Conn(t, c, k, X[k], Q[k], R[k], U[k]) /\ SentTo(d, k) = SentTo(c, k)
        BY <1>1, <1>4, Zenon DEF SentTo
  <2>2. W[k] \subseteq R[k]
        BY <1>5, Zenon
  <2>3. k \in c.proxies => ConnStart(d, k, X[k], Q[k], W[k], U[k])
    <3>1. k \in c.proxies => ConnStart(c, k, X[k], Q[k], R[k], U[k])
          BY <2>1, Zenon DEF Conn
    <3> QED BY <3>1, <2>1, <2>2, Zenon DEF ConnStart
  <2>4. k \notin c.proxies => ConnUnused(X[k], Q[k], W[k], U[k])
        BY <2>1, <2>2, Zenon DEF Conn, ConnUnused, Quiet
  <2> QED BY <2>1, <2>3, <2>4, <1>4, Zenon DEF Conn
<1>8. c.sent \subseteq Ids(PiecesOf(t)) /\ c.proxies = {PieceOf(i).site : i \in c.sent}
      BY <1>1, ZenonT(40) DEF Counted
<1>9. Handled(d, X, W, U) = Handled(c, X, R, U)
  <2>1. ASSUME NEW i \in c.sent PROVE i \in Handled(d, X, W, U) <=> i \in Handled(c, X, R, U)
    <3>1. PieceOf(i).site \in Site
          BY <1>8, PieceSite
    <3> QED BY <1>4, <1>5, <3>1, ZenonT(40) DEF Handled
  <2>2. Handled(d, X, W, U) \subseteq c.sent /\ Handled(c, X, R, U) \subseteq c.sent
        BY <1>4, Zenon DEF Handled
  <2> QED BY <2>1, <2>2
<1>10. CountStart(d, X, Handled(d, X, W, U))
  <2> DEFINE H == Handled(c, X, R, U)
  <2>1. CountStart(c, X, H)
        BY <1>1 DEF Counted
  <2> HIDE DEF H
  <2>2. CountStart(d, X, H)
        BY <1>4, <2>1, Zenon DEF CountStart
  <2> QED BY <1>9, <2>2, Zenon DEF H
<1>11. Counted(t, d, X, Q, W, U)
      BY <1>4, <1>8, <1>10 DEF Counted
<1>12. TxnInv(t, d, X, Q, W, U)
      BY <1>1, <1>4, <1>6, <1>7, <1>11, Zenon DEF TxnInv
<1> QED BY <1>12 DEF d, W
-----------------------------------------------------------------------------
(* A step of a coordinator *)

\* The chopper has sent all when it commits.
SentAll(t, c) == c.phase \in {"commit", "SUCCESS"} => c.sent = Ids(PiecesOf(t))

\* A step of a coordinator that keeps what holds of its transaction keeps the
\* invariant.
LEMMA CoordinateStep ==
  ASSUME IInv, NEW t \in Txn, NEW s, NEW a, NEW c, NEW m, Coordinate(t, s, a, c, m), SentAll(t, c),
         TxnInv(t, c, TxAt(t), SentQ(req[t], up[t], m), SentR(Taken(rep[t], s, a), up[t], m), up[t])
  PROVE  IInv'
<1>1. /\ mode \in Modes /\ DOMAIN site = Site
      /\ DOMAIN co = Txn /\ DOMAIN req = Txn /\ DOMAIN rep = Txn /\ DOMAIN up = Txn
      /\ VerifiesHold /\ \A k \in Site : SiteInv(site[k], mode.lock)
      /\ \A u \in Txn : InvAt(u)
      BY Zenon DEF IInv, InvAt
<1>2. mode' = mode /\ site' = site /\ up' = up
      BY Zenon DEF Coordinate
<1>3. co' = [co EXCEPT ![t] = c]
      BY Zenon DEF Coordinate
<1>4. req' = [req EXCEPT ![t] = SentQ(req[t], up[t], m)]
      BY Zenon DEF Coordinate, SentQ, SendQ
<1>5. rep' = [rep EXCEPT ![t] = SentR(Taken(rep[t], s, a), up[t], m)]
  <2>1. SentR(Taken(rep[t], s, a), up[t], m) =
          [q \in Site |-> (IF q = s THEN rep[t][q] \ {a} ELSE rep[t][q])
                            \cup (IF up[t][q] \/ m[q] = <<>> THEN {} ELSE {ErrorReply})]
        BY Zenon DEF SentR, SendR, Taken
  <2> QED BY <2>1, Zenon DEF Coordinate, ErrorReply
<1>6. /\ DOMAIN co' = Txn /\ DOMAIN req' = Txn /\ DOMAIN rep' = Txn
      /\ co'[t] = c /\ req'[t] = SentQ(req[t], up[t], m) /\ rep'[t] = SentR(Taken(rep[t], s, a), up[t], m)
      /\ \A u \in Txn \ {t} : co'[u] = co[u] /\ req'[u] = req[u] /\ rep'[u] = rep[u]
      BY <1>1, <1>3, <1>4, <1>5
<1>7. \A u \in Txn : TxAt(u)' = TxAt(u)
      BY <1>2, Zenon DEF TxAt
<1>8. ASSUME NEW u \in Txn
      PROVE  TxnInv(u, co'[u], TxAt(u)', req'[u], rep'[u], up'[u]) /\ Whole(u, co'[u], TxAt(u)')
  <2>1. CASE u = t
    <3>1. Whole(t, c, TxAt(t))
          BY <1>1, Zenon DEF InvAt, Whole, SentAll
    <3> QED BY <1>2, <1>6, <1>7, <2>1, <3>1, Zenon
  <2>2. CASE u # t
    <3>1. InvAt(u) /\ TxAt(u)' = TxAt(u) /\ up' = up /\ co'[u] = co[u] /\ req'[u] = req[u] /\ rep'[u] = rep[u]
          BY <1>1, <1>2, <1>6, <1>7, <2>2, Zenon
    <3> QED BY <3>1, Zenon DEF InvAt
  <2> QED BY <2>1, <2>2, Zenon
<1>9. VerifiesHold' /\ \A k \in Site : SiteInv(site'[k], mode'.lock)
      BY <1>1, <1>2, Zenon DEF VerifiesHold
<1> QED BY <1>1, <1>2, <1>6, <1>8, <1>9, Zenon DEF IInv, InvAt

\* No request is sent.
LEMMA NoCallStep ==
  ASSUME IInv, NEW t \in Txn, NEW s, NEW a, NEW c, Coordinate(t, s, a, c, NoCall), SentAll(t, c),
         TxnInv(t, c, TxAt(t), req[t], Taken(rep[t], s, a), up[t])
  PROVE  IInv'
<1> DEFINE Q == req[t]
           R == Taken(rep[t], s, a)
           U == up[t]
<1>1. Q \in [Site -> Requests]
      BY Zenon DEF TxnInv
<1>2. ASSUME NEW q \in Site PROVE NoCall[q] = <<>> /\ Q[q] \o <<>> = Q[q]
  <2> DEFINE x == Q[q]
  <2>1. x \in Requests
        BY <1>1, ZenonT(40)
  <2> HIDE DEF x
  <2>2. x \o <<>> = x
        BY <2>1, AppendNothing, Zenon DEF Requests
  <2>3. NoCall[q] = <<>>
        BY Zenon DEF NoCall
  <2> QED BY <2>2, <2>3, Zenon DEF x
<1>3. R = [q \in Site |-> R[q]]
      BY ZenonT(40) DEF Taken
<1> HIDE DEF Q, R, U
<1>4. SentQ(Q, U, NoCall) = Q
      BY <1>1, <1>2, Zenon DEF SentQ, SendQ
<1>5. SentR(R, U, NoCall) = R
  <2>1. \A q \in Site : SendR(R[q], U[q], NoCall[q]) = R[q]
        BY <1>2 DEF SendR
  <2> QED BY <1>3, <2>1, ZenonT(40) DEF SentR
<1>6. TxnInv(t, c, TxAt(t), SentQ(Q, U, NoCall), SentR(R, U, NoCall), U)
      BY <1>4, <1>5, Zenon DEF Q, R, U
<1> QED BY <1>6, CoordinateStep, Zenon DEF Q, R, U

\* What IInv says of the transaction at the sites.
LEMMA SitesHave ==
  ASSUME IInv, NEW t \in Txn
  PROVE  AtSites(TxAt(t)) /\ InvAt(t)
<1>1. ASSUME NEW s \in Site PROVE TxnTyped(site[s].tx[t]) /\ (~site[s].tx[t].in => site[s].tx[t] = NoTx)
  <2>1. SiteInv(site[s], mode.lock)
        BY Zenon DEF IInv, InvAt
  <2>2. Typed(site[s]) /\ RanTxn(site[s], t)
        BY <2>1 DEF SiteInv, SiteInvBut, Ran
  <2> QED BY <2>2, Zenon DEF Typed, RanTxn
<1>2. \A s \in Site : TxAt(t)[s] = site[s].tx[t]
      BY ZenonT(40) DEF TxAt
<1>3. InvAt(t)
      BY DEF IInv, InvAt
<1> QED BY <1>1, <1>2, <1>3 DEF AtSites

\* The start calls for pieces of a transaction.
LEMMA CallsBring ==
  ASSUME FiniteFacts, NEW t \in Txn, NEW P \in SUBSET PiecesOf(t)
  PROVE  Brought(P, [q \in Site |-> Calls(P, q)])
<1>1. ASSUME NEW q \in Site
      PROVE  /\ Calls(P, q) \in Requests /\ Carries(Calls(P, q), IdsAt(P, q))
             /\ IdsAt(P, q) = {} => Calls(P, q) = <<>>
      BY CallsCarry
<1> DEFINE m == [q \in Site |-> Calls(P, q)]
<1>2. \A q \in Site : m[q] = Calls(P, q)
      OBVIOUS
<1> HIDE DEF m
<1>3. Brought(P, m)
      BY <1>1, <1>2, ZenonT(40) DEF Brought
<1> QED BY <1>3 DEF m

\* What a start sends is new.
LEMMA ReadyNew ==
  ASSUME NEW t, NEW sent, NEW answered
  PROVE  /\ Ready(t, sent, answered) \subseteq PiecesOf(t)
         /\ Ids(Ready(t, sent, answered)) \cap sent = {}
BY DEF Ready, Ids

\* What the callback of a start does.
StartGoesOn(t, s, a, c, d, P) ==
  \/ /\ \E k \in DOMAIN a.call : k \notin Good(c, a) /\ k = c.start_sent
     /\ Coordinate(t, s, a, Finishing(d), ToProxies(d, Finishing(d).phase))
  \/ Coordinate(t, s, a, Starting(d, P), [q \in Site |-> Calls(P, q)])
  \/ /\ d.started = Cardinality(PiecesOf(t))
     /\ Coordinate(t, s, a, [d EXCEPT !.phase = "prepare"], ToProxies(d, "prepare"))
  \/ Coordinate(t, s, a, d, NoCall)

\* The ways the callback of start goes on.
LEMMA StartReplyIs ==
  ASSUME NEW t, NEW s, NEW a, StartReply(t, s, a)
  PROVE  LET d == Now(co[t], a)
         IN  /\ a \in rep[t][s] /\ a.op = "started"
             /\ StartGoesOn(t, s, a, co[t], d, Ready(t, d.sent, d.answered))
<1> DEFINE c == co[t]
           d == Now(c, a)
           P == Ready(t, d.sent, d.answered)
           A == Coordinate(t, s, a, Finishing(d), ToProxies(d, Finishing(d).phase))
           B == Coordinate(t, s, a, Starting(d, P), [q \in Site |-> Calls(P, q)])
           C == Coordinate(t, s, a, [d EXCEPT !.phase = "prepare"], ToProxies(d, "prepare"))
           D == Coordinate(t, s, a, d, NoCall)
           end == \E n \in DOMAIN a.call : n \notin Good(c, a) /\ CallFinish(n, c.start_sent)
           new == \E q \in PiecesOf(t) : /\ q.after \subseteq d.answered
                                         /\ \E n \in Good(c, a) : a.call[n] \in q.after
           all == d.started = Cardinality(PiecesOf(t)) /\ (d.commit \/ mode.batch)
<1>1. /\ a \in rep[t][s] /\ a.op = "started"
      /\ CASE end -> A [] ~end /\ new -> B [] ~end /\ ~new /\ all -> C [] OTHER -> D
      BY Zenon DEF StartReply, Now, Good
<1>2. end => \E k \in DOMAIN a.call : k \notin Good(c, a) /\ k = c.start_sent
      BY DEF CallFinish
<1>3. all => d.started = Cardinality(PiecesOf(t))
      OBVIOUS
<1> HIDE DEF A, B, C, D, end, new, all
<1>4. (end /\ A) \/ B \/ (all /\ C) \/ D
      BY <1>1
<1> QED BY <1>1, <1>2, <1>3, <1>4, Zenon DEF StartGoesOn, A, B, C, D

\* What is known when a coordinator has taken the answer of s, and its chopper
\* has become d.
TakenNow(t, s, a, d) == TxnInv(t, d, TxAt(t), req[t], Taken(rep[t], s, a), up[t])

\* What holds when the callback of start has taken the answer.
LEMMA StartReplyTaken ==
  ASSUME FiniteFacts, IInv, NEW t \in Txn, NEW s \in Site, NEW a, StartReply(t, s, a), co[t].phase # "crashed",
         NEW d, d = Now(co[t], a)
  PROVE  /\ co[t].phase = "start" /\ d.phase = "start" /\ TakenNow(t, s, a, d)
         /\ StartGoesOn(t, s, a, co[t], d, Ready(t, d.sent, d.answered))
         /\ (\E k \in DOMAIN a.call : k \notin Good(co[t], a) /\ k = co[t].start_sent) =>
              d.start_sent = 0 /\ ~d.commit
<1> DEFINE c == co[t]
           X == TxAt(t)
           Q == req[t]
           R == rep[t]
           U == up[t]
<1>1. TxnInv(t, c, X, Q, R, U) /\ AtSites(X)
      BY SitesHave, ZenonT(40) DEF InvAt
<1>2. /\ a \in R[s] /\ a.op = "started" /\ c.phase # "crashed"
      /\ StartGoesOn(t, s, a, c, d, Ready(t, d.sent, d.answered))
      BY StartReplyIs
<1> HIDE DEF c, X, Q, R, U
<1>3. c.phase = "start"
  <2>1. \/ StartBack(c, s, X[s], Q[s], R[s], U[s], a)
        \/ PrepareBack(c, s, X[s], Q[s], R[s], U[s], a)
        \/ FinishBack(c, X[s], Q[s], R[s], U[s], a)
        BY <1>1, <1>2, UnderWayBack, Zenon
  <2> QED BY <1>2, <2>1, Zenon DEF StartBack, PrepareBack, FinishBack
<1>4. TxnTyped(X[s])
      BY <1>1 DEF AtSites
<1>5. TakenAs(c, d, a) /\ TxnInv(t, d, X, Q, Taken(R, s, a), U) /\ StartAnswer(c, s, X[s], R[s], a)
      BY <1>1, <1>2, <1>3, <1>4, TxnStartTaken, Zenon DEF c
<1>6. d.phase = "start"
      BY <1>3, <1>5, Zenon DEF TakenAs
<1>7. ASSUME NEW k \in DOMAIN a.call, k \notin Good(c, a), k = c.start_sent
      PROVE  d.start_sent = 0 /\ ~d.commit
  <2>1. a.call \in Seq(Nat) /\ k \in 1 .. Len(a.call) /\ Len(a.call) \in Nat
    <3>1. a.call \in Seq(Nat)
          BY <1>5, Zenon DEF StartAnswer
    <3> QED BY <1>7, <3>1
  <2>2. d.start_sent \in Nat /\ d.start_sent = c.start_sent - Len(a.call)
        BY <1>5, Zenon DEF TakenAs, Chopper
  <2>3. d.start_sent = 0
        BY <1>7, <2>1, <2>2
  <2>4. ~d.commit
    <3>1. SUFFICES ASSUME c.commit, \A n \in DOMAIN a.call : a.res[n] = "SUCCESS" PROVE FALSE
          BY <1>5, Zenon DEF TakenAs
    <3>2. \A n \in 1 .. k : n \in DOMAIN a.call
          BY <2>1
    <3> QED BY <1>7, <3>1, <3>2 DEF Good
  <2> QED BY <2>3, <2>4, ZenonT(40)
<1> QED BY <1>2, <1>3, <1>5, <1>6, <1>7, ZenonT(40) DEF c, X, Q, R, U, TakenNow

\* The callback of start keeps the invariant.
LEMMA StartReplyStep ==
  ASSUME FiniteFacts, IInv, NEW t \in Txn, NEW s \in Site, NEW a, StartReply(t, s, a), co[t].phase # "crashed"
  PROVE  IInv'
<1> DEFINE X == TxAt(t)
           Q == req[t]
           U == up[t]
           T == Taken(rep[t], s, a)
           d == Now(co[t], a)
           P == Ready(t, d.sent, d.answered)
           m == [q \in Site |-> Calls(P, q)]
           end == \E k \in DOMAIN a.call : k \notin Good(co[t], a) /\ k = co[t].start_sent
<1>1. AtSites(X)
      BY SitesHave
<1>2. d.phase = "start" /\ TxnInv(t, d, X, Q, T, U) /\ StartGoesOn(t, s, a, co[t], d, P)
      BY StartReplyTaken, ZenonT(40) DEF TakenNow
<1>3. end => d.start_sent = 0 /\ ~d.commit
      BY StartReplyTaken, ZenonT(40)
<1>4. P \subseteq PiecesOf(t) /\ Ids(P) \cap d.sent = {}
      BY ReadyNew
<1>5. Brought(P, m)
      BY <1>4, CallsBring, Zenon
<1> HIDE DEF X, Q, U, T, d, P, m, end
<1>6. ASSUME Coordinate(t, s, a, Finishing(d), ToProxies(d, Finishing(d).phase)), end
      PROVE  IInv'
  <2>1. LET op == Finishing(d).phase
        IN  TxnInv(t, Finishing(d), X, SentQ(Q, U, ToProxies(d, op)), SentR(T, U, ToProxies(d, op)), U)
        BY <1>1, <1>2, <1>3, <1>6, TxnRejected, Zenon
  <2> DEFINE e == Finishing(d)
             w == ToProxies(d, Finishing(d).phase)
  <2>2. Coordinate(t, s, a, e, w) /\ TxnInv(t, e, X, SentQ(Q, U, w), SentR(T, U, w), U)
        BY <1>6, <2>1, ZenonT(40)
  <2>3. SentAll(t, e)
    <3>1. FinishedAs(d, e)
          BY <1>2, FinishingIs, Zenon DEF TxnInv
    <3> QED BY <1>3, <1>6, <3>1, Zenon DEF SentAll, FinishedAs
  <2> HIDE DEF e, w
  <2> QED BY <2>2, <2>3, CoordinateStep, Zenon DEF X, Q, U, T
<1>7. ASSUME Coordinate(t, s, a, Starting(d, P), m) PROVE IInv'
  <2> DEFINE e == Starting(d, P)
  <2>1. TxnInv(t, e, X, SentQ(Q, U, m), SentR(T, U, m), U)
        BY <1>2, <1>4, <1>5, TxnSends, Zenon
  <2>2. SentAll(t, e)
    <3>1. Sending(d, e, P)
          BY <1>2, <1>4, StartingIs, Zenon DEF TxnInv
    <3> QED BY <1>2, <3>1, Zenon DEF Sending, SentAll
  <2> HIDE DEF e
  <2> QED BY <1>7, <2>1, <2>2, CoordinateStep, Zenon DEF X, Q, U, T, e
<1>8. ASSUME d.started = Cardinality(PiecesOf(t)),
             Coordinate(t, s, a, [d EXCEPT !.phase = "prepare"], ToProxies(d, "prepare"))
      PROVE  IInv'
  <2> DEFINE e == [d EXCEPT !.phase = "prepare"]
             w == ToProxies(d, "prepare")
  <2>1. TxnInv(t, e, X, SentQ(Q, U, w), SentR(T, U, w), U)
        BY <1>1, <1>2, <1>8, TxnToPrepare
  <2>2. Coordinate(t, s, a, e, w)
        BY <1>8
  <2>3. SentAll(t, e)
        BY <1>2 DEF SentAll, TxnInv, Chopper
  <2> HIDE DEF e, w
  <2> QED BY <2>1, <2>2, <2>3, CoordinateStep, Zenon DEF X, Q, U, T
<1>9. ASSUME Coordinate(t, s, a, d, NoCall) PROVE IInv'
  <2>1. SentAll(t, d)
        BY <1>2 DEF SentAll
  <2> QED BY <1>2, <1>9, <2>1, NoCallStep, ZenonT(40) DEF X, Q, U, T
<1> QED BY <1>2, <1>6, <1>7, <1>8, <1>9, ZenonT(40) DEF StartGoesOn, m, end

\* What holds when the callback of prepare has taken the answer.
LEMMA PrepareReplyTaken ==
  ASSUME FiniteFacts, IInv, NEW t \in Txn, NEW s \in Site, NEW a, PrepareReply(t, s, a), NEW d, d = Prepared(co[t], a)
  PROVE  /\ co[t].phase = "prepare" /\ d.phase = "prepare" /\ d.out = co[t].out
         /\ TakenNow(t, s, a, d)
         /\ IF d.prepared = Cardinality(d.proxies)
            THEN Coordinate(t, s, a, Finishing(d), ToProxies(d, Finishing(d).phase))
            ELSE Coordinate(t, s, a, d, NoCall)
<1> DEFINE c == co[t]
           X == TxAt(t)
           Q == req[t]
           R == rep[t]
           U == up[t]
<1>1. TxnInv(t, c, X, Q, R, U)
      BY SitesHave, Zenon DEF InvAt
<1>2. /\ a \in R[s]
      /\ a.op = "prepared" \/ (a.op = "error" /\ c.phase = "prepare")
      /\ IF d.prepared = Cardinality(d.proxies)
         THEN Coordinate(t, s, a, Finishing(d), ToProxies(d, Finishing(d).phase))
         ELSE Coordinate(t, s, a, d, NoCall)
      BY DEF PrepareReply, Prepared
<1> HIDE DEF c, X, Q, R, U
<1>3. PreparedAs(c, d, a) /\ c.phase = "prepare" /\ TxnInv(t, d, X, Q, Taken(R, s, a), U)
      BY <1>1, <1>2, TxnPrepareTaken, Zenon DEF c
<1> QED BY <1>2, <1>3, Zenon DEF PreparedAs, TakenNow, c, X, Q, R, U

\* The callback of prepare keeps the invariant.
LEMMA PrepareReplyStep ==
  ASSUME FiniteFacts, IInv, NEW t \in Txn, NEW s \in Site, NEW a, PrepareReply(t, s, a)
  PROVE  IInv'
<1> DEFINE X == TxAt(t)
           Q == req[t]
           U == up[t]
           T == Taken(rep[t], s, a)
           d == Prepared(co[t], a)
<1>1. /\ d.phase = "prepare" /\ TxnInv(t, d, X, Q, T, U)
      /\ IF d.prepared = Cardinality(d.proxies)
         THEN Coordinate(t, s, a, Finishing(d), ToProxies(d, Finishing(d).phase))
         ELSE Coordinate(t, s, a, d, NoCall)
      BY PrepareReplyTaken, Zenon DEF TakenNow
<1> HIDE DEF X, Q, U, T, d
<1>2. CASE d.prepared = Cardinality(d.proxies)
  <2> DEFINE e == Finishing(d)
             w == ToProxies(d, Finishing(d).phase)
  <2>1. TxnInv(t, e, X, SentQ(Q, U, w), SentR(T, U, w), U) /\ d.sent = Ids(PiecesOf(t))
        BY <1>1, <1>2, TxnVoted, Zenon
  <2>2. Coordinate(t, s, a, e, w)
        BY <1>1, <1>2
  <2>3. SentAll(t, e)
    <3>1. FinishedAs(d, e)
          BY <1>1, FinishingIs, Zenon DEF TxnInv
    <3> QED BY <2>1, <3>1, Zenon DEF SentAll, FinishedAs
  <2> HIDE DEF e, w
  <2> QED BY <2>1, <2>2, <2>3, CoordinateStep, Zenon DEF X, Q, U, T
<1>3. CASE d.prepared # Cardinality(d.proxies)
  <2>1. SentAll(t, d)
        BY <1>1 DEF SentAll
  <2> QED BY <1>1, <1>3, <2>1, NoCallStep, Zenon DEF X, Q, U, T
<1> QED BY <1>2, <1>3

\* The chopper d is made, and start is called for it or the client's thread is
\* to call it.
Begins(t, s, a, d) ==
  \/ Coordinate(t, s, a, d, NoCall)
  \/ LET P == Ready(t, {}, {}) IN Coordinate(t, s, a, Starting(d, P), [q \in Site |-> Calls(P, q)])

\* No call of t is open, with the answers R still to come, and no site has t.
Rests(t, R) == \A k \in Site : Quiet(req[t][k], R[k]) /\ (up[t][k] => TxAt(t)[k] = NoTx)

\* A new attempt, or the first, begins with the chopper d.
LEMMA BeginStep ==
  ASSUME FiniteFacts, IInv, NEW t \in Txn, NEW s, NEW a, NEW c, NEW d, NEW R, DOMAIN R = Site,
         TxnInv(t, c, TxAt(t), req[t], R, up[t]),
         Rests(t, R), \A k \in Site : Taken(rep[t], s, a)[k] = {}, FreshAs(d), Begins(t, s, a, d)
  PROVE  IInv'
<1> DEFINE X == TxAt(t)
           Q == req[t]
           U == up[t]
           T == Taken(rep[t], s, a)
           P == Ready(t, {}, {})
           m == [q \in Site |-> Calls(P, q)]
<1>1. P \subseteq PiecesOf(t)
      BY ReadyNew, Zenon
<1>2. Brought(P, m)
      BY <1>1, CallsBring, Zenon
<1>3. DOMAIN T = Site /\ \A k \in Site : T[k] = {}
      BY Zenon DEF Taken
<1>4. Coordinate(t, s, a, d, NoCall) \/ Coordinate(t, s, a, Starting(d, P), m)
      BY Zenon DEF Begins
<1>5. TxnInv(t, c, X, Q, R, U) /\ \A k \in Site : Quiet(Q[k], R[k]) /\ (U[k] => X[k] = NoTx)
      BY Zenon DEF Rests
<1> HIDE DEF X, Q, U, T, P, m
<1>6. TxnInv(t, d, X, Q, T, U)
      BY <1>3, <1>5, TxnFresh, Zenon
<1>7. CASE Coordinate(t, s, a, d, NoCall)
  <2>1. SentAll(t, d)
        BY Zenon DEF FreshAs, SentAll
  <2> QED BY <1>6, <1>7, <2>1, NoCallStep, Zenon DEF X, Q, U, T
<1>8. CASE Coordinate(t, s, a, Starting(d, P), m)
  <2>1. d.phase = "start" /\ d.sent = {}
        BY Zenon DEF FreshAs
  <2>2. Ids(P) \cap d.sent = {}
        BY <2>1, Zenon
  <2>3. TxnInv(t, Starting(d, P), X, SentQ(Q, U, m), SentR(T, U, m), U)
        BY <1>1, <1>2, <1>6, <2>1, <2>2, TxnSends, Zenon
  <2>4. SentAll(t, Starting(d, P))
    <3>1. Sending(d, Starting(d, P), P)
          BY <1>1, StartingIs, Zenon DEF FreshAs
    <3> QED BY <2>1, <3>1, Zenon DEF Sending, SentAll
  <2> QED BY <1>8, <2>3, <2>4, CoordinateStep, Zenon DEF X, Q, U, T
<1> QED BY <1>4, <1>7, <1>8, Zenon

\* do_one keeps the invariant.
LEMMA DoOneStep ==
  ASSUME FiniteFacts, IInv, NEW t \in Txn, DoOne(t)
  PROVE  IInv'
<1> DEFINE c == co[t]
           X == TxAt(t)
           Q == req[t]
           R == rep[t]
           U == up[t]
           d == [c EXCEPT !.phase = "start"]
           e == [d EXCEPT !.loop = "next"]
           P == Ready(t, {}, {})
<1>1. TxnInv(t, c, X, Q, R, U)
      BY SitesHave, Zenon DEF InvAt
<1>2. /\ c.phase = "new"
      /\ \/ Coordinate(t, NoTxn, 0, e, NoCall)
         \/ Coordinate(t, NoTxn, 0, Starting(d, P), [q \in Site |-> Calls(P, q)])
      BY DEF DoOne
<1> HIDE DEF c, X, Q, R, U, d, e
<1>3. /\ \A s \in Site : Quiet(Q[s], R[s]) /\ (U[s] => X[s] = NoTx)
      /\ FreshAs(d) /\ FreshAs(e)
      BY <1>1, <1>2, TxnBegins, ZenonT(40) DEF d, e
<1>4. DOMAIN R = Site
      BY <1>1 DEF TxnInv
<1>5. \A k \in Site : Taken(R, NoTxn, 0)[k] = {}
      BY <1>3 DEF Taken, Quiet
<1>6. Begins(t, NoTxn, 0, e) \/ Begins(t, NoTxn, 0, d)
      BY <1>2, Zenon DEF Begins, P
<1>7. Rests(t, R)
      BY <1>3, Zenon DEF Rests, X, Q, U
<1> QED BY <1>1, <1>3, <1>4, <1>5, <1>6, <1>7, BeginStep, ZenonT(40) DEF X, Q, R, U

\* What the callback of a commit or an abort does.
FinishGoesOn(t, s, a, d) ==
  \/ /\ d.finished = Cardinality(d.proxies) /\ d.res = "REJECT"
     /\ LET P == Ready(t, {}, {})
        IN  Coordinate(t, s, a, Starting(Restarting(d), P), [q \in Site |-> Calls(P, q)])
  \/ d.finished = Cardinality(d.proxies) /\ Coordinate(t, s, a, [d EXCEPT !.phase = d.res], NoCall)
  \/ Coordinate(t, s, a, d, NoCall)

\* The ways the callback of finish goes on.
LEMMA FinishReplyIs ==
  ASSUME NEW t, NEW s, NEW a, FinishReply(t, s, a)
  PROVE  /\ a \in rep[t][s]
         /\ a.op = "finished" \/ (a.op = "error" /\ co[t].phase \in {"commit", "abort"})
         /\ FinishGoesOn(t, s, a, Counting(co[t]))
<1> DEFINE d == Counting(co[t])
           P == Ready(t, {}, {})
           last == d.finished = Cardinality(d.proxies)
           A == Coordinate(t, s, a, Starting(Restarting(d), P), [q \in Site |-> Calls(P, q)])
           B == Coordinate(t, s, a, [d EXCEPT !.phase = d.res], NoCall)
           C == Coordinate(t, s, a, d, NoCall)
<1>1. /\ a \in rep[t][s]
      /\ a.op = "finished" \/ (a.op = "error" /\ co[t].phase \in {"commit", "abort"})
      /\ CASE last /\ d.res = "REJECT" /\ CanRetry(d) -> A [] last /\ ~(d.res = "REJECT" /\ CanRetry(d)) -> B
           [] OTHER -> C
      BY Zenon DEF FinishReply, Counting
<1> HIDE DEF A, B, C, d, last
<1>2. (last /\ d.res = "REJECT" /\ A) \/ (last /\ B) \/ C
      BY <1>1
<1> QED BY <1>1, <1>2, Zenon DEF FinishGoesOn, A, B, C, d, last

\* What holds when the callback of finish has taken the answer.
LEMMA FinishReplyTaken ==
  ASSUME FiniteFacts, IInv, NEW t \in Txn, NEW s \in Site, NEW a, FinishReply(t, s, a), NEW d, d = Counting(co[t])
  PROVE  /\ co[t].phase \in {"commit", "abort"} /\ CountingAs(co[t], d) /\ TakenNow(t, s, a, d)
         /\ FinishGoesOn(t, s, a, d)
         /\ d.phase = "commit" => d.res = "SUCCESS"
         /\ d.phase = "abort" => d.res = "REJECT"
<1> DEFINE c == co[t]
           X == TxAt(t)
           Q == req[t]
           R == rep[t]
           U == up[t]
<1>1. TxnInv(t, c, X, Q, R, U)
      BY SitesHave, Zenon DEF InvAt
<1>2. /\ a \in R[s]
      /\ a.op = "finished" \/ (a.op = "error" /\ c.phase \in {"commit", "abort"})
      /\ FinishGoesOn(t, s, a, d)
      BY FinishReplyIs
<1> HIDE DEF c, X, Q, R, U
<1>3. CountingAs(c, d) /\ c.phase \in {"commit", "abort"} /\ TxnInv(t, d, X, Q, Taken(R, s, a), U)
      BY <1>1, <1>2, TxnFinishTaken, Zenon DEF c
<1>4. CountEnd(t, d, X, QuietSites(d, Q, Taken(R, s, a)))
      BY <1>3 DEF TxnInv, Counted, CountingAs
<1>5. /\ d.phase = "commit" => d.res = "SUCCESS"
      /\ d.phase = "abort" => d.res = "REJECT"
      BY <1>4, Zenon DEF CountEnd
<1> QED BY <1>2, <1>3, <1>5, Zenon DEF TakenNow, c, X, Q, R, U

\* The callback of finish, with restart, keeps the invariant.
LEMMA FinishReplyStep ==
  ASSUME FiniteFacts, IInv, NEW t \in Txn, NEW s \in Site, NEW a, FinishReply(t, s, a)
  PROVE  IInv'
<1> DEFINE c == co[t]
           X == TxAt(t)
           Q == req[t]
           U == up[t]
           T == Taken(rep[t], s, a)
           d == Counting(c)
           P == Ready(t, {}, {})
           A == Coordinate(t, s, a, Starting(Restarting(d), P), [q \in Site |-> Calls(P, q)])
           B == Coordinate(t, s, a, [d EXCEPT !.phase = d.res], NoCall)
           C == Coordinate(t, s, a, d, NoCall)
           last == d.finished = Cardinality(d.proxies)
<1>1. /\ c.phase \in {"commit", "abort"} /\ CountingAs(c, d) /\ TxnInv(t, d, X, Q, T, U)
      /\ d.phase = "commit" => d.res = "SUCCESS"
      /\ d.phase = "abort" => d.res = "REJECT"
      BY FinishReplyTaken, ZenonT(40) DEF TakenNow
<1>2. FinishGoesOn(t, s, a, d)
      BY FinishReplyTaken
<1>3. (last /\ A) \/ (last /\ B) \/ C
      BY <1>2, Zenon DEF FinishGoesOn
<1>4. SentAll(t, c) /\ mode \in Modes
      BY SitesHave, Zenon DEF InvAt, Whole, SentAll, IInv
<1> HIDE DEF c, X, Q, U, T, d, A, B, C
<1>5. d \in Chopper /\ d.phase \in {"commit", "abort"} /\ SentAll(t, d)
      BY <1>1, <1>4, Zenon DEF CountingAs, SentAll
<1>6. CASE last /\ A
  <2>1. \A k \in Site : Quiet(Q[k], T[k]) /\ (U[k] => X[k] = NoTx)
        BY <1>1, <1>5, <1>6, AllFinished, Zenon
  <2>2. DOMAIN T = Site
        BY <1>1, ZenonT(40) DEF TxnInv
  <2>3. \A k \in Site : T[k] = {}
        BY <2>1 DEF Quiet
  <2>4. FreshAs(Restarting(d))
    <3> DEFINE n == IF mode.tries = 0 THEN 1 ELSE d.n_try + 1
               l == d.loop
    <3>1. n \in Nat /\ l \in {"no", "next", "sent"}
          BY <1>5 DEF Chopper
    <3>2. Restarting(d) = [NewChopper(n) EXCEPT !.loop = l]
          BY DEF Restarting
    <3> HIDE DEF n, l
    <3> QED BY <3>1, <3>2, FreshIs, Zenon
  <2> DEFINE e == Restarting(d)
  <2>5. Coordinate(t, s, a, Starting(e, P), [q \in Site |-> Calls(P, q)])
        BY <1>6 DEF A
  <2> HIDE DEF e
  <2>6. FreshAs(e)
        BY <2>4 DEF e
  <2>7. Begins(t, s, a, e)
        BY <2>5, Zenon DEF Begins, P
  <2>8. Rests(t, T)
        BY <2>1, ZenonT(40) DEF Rests, X, Q, U
  <2> QED BY <1>1, <2>2, <2>3, <2>6, <2>7, <2>8, BeginStep, Zenon DEF X, Q, U, T
<1>7. CASE last /\ B
  <2> DEFINE e == [d EXCEPT !.phase = d.res]
  <2>1. TxnInv(t, e, X, Q, T, U)
        BY <1>1, <1>5, <1>7, TxnOver
  <2>2. Coordinate(t, s, a, e, NoCall)
        BY <1>7 DEF B
  <2>3. SentAll(t, e)
    <3>1. e.phase = d.res /\ e.sent = d.sent
          BY <1>5 DEF Chopper
    <3> QED BY <1>1, <1>5, <3>1 DEF SentAll
  <2> HIDE DEF e
  <2> QED BY <2>1, <2>2, <2>3, NoCallStep, ZenonT(40) DEF X, Q, U, T
<1>8. CASE C
      BY <1>1, <1>5, <1>8, NoCallStep, Zenon DEF X, Q, U, T, C
<1> QED BY <1>3, <1>6, <1>7, <1>8

\* An error that ends a start keeps the invariant.
LEMMA StartErrorStep ==
  ASSUME IInv, NEW t \in Txn, NEW s \in Site, NEW a, StartError(t, s, a)
  PROVE  IInv'
<1> DEFINE c == co[t]
           X == TxAt(t)
           Q == req[t]
           R == rep[t]
           U == up[t]
           e == [c EXCEPT !.phase = "crashed"]
<1>1. TxnInv(t, c, X, Q, R, U)
      BY SitesHave, Zenon DEF InvAt
<1>2. a \in R[s] /\ a.op = "error" /\ c.phase = "start" /\ Coordinate(t, s, a, e, NoCall)
      BY DEF StartError
<1> HIDE DEF c, X, Q, R, U, e
<1>3. TxnInv(t, e, X, Q, Taken(R, s, a), U)
      BY <1>1, <1>2, TxnCrashed DEF e
<1>4. SentAll(t, e)
  <2>1. e.phase = "crashed"
        BY <1>1 DEF TxnInv, Chopper, e
  <2> QED BY <2>1 DEF SentAll
<1> QED BY <1>2, <1>3, <1>4, NoCallStep, Zenon DEF X, Q, R, U

\* A chopper that do_one has not been called for.
LEMMA NewTxnInv ==
  ASSUME NEW t \in Txn, NEW X, NEW Q, NEW R, NEW U, \A s \in Site : X[s] = NoTx,
         Q = [s \in Site |-> <<>>], R = [s \in Site |-> {}], U = [s \in Site |-> TRUE]
  PROVE  TxnInv(t, [NewChopper(1) EXCEPT !.phase = "new"], X, Q, R, U)
<1> DEFINE e == NewChopper(1)
           c == [e EXCEPT !.phase = "new"]
<1>1. FreshAs([e EXCEPT !.loop = "no"])
      BY FreshIs, Zenon
<1>2. [e EXCEPT !.loop = "no"] = e
      BY DEF NewChopper
<1>3. FreshAs(e)
      BY <1>1, <1>2
<1> HIDE DEF e
<1>4. c \in Chopper /\ c.phase = "new" /\ c.sent = {} /\ c.proxies = {}
      BY <1>3 DEF FreshAs, Chopper, Phase
<1>5. c = [NewChopper(1) EXCEPT !.phase = "new"]
      BY DEF e
<1> HIDE DEF c
<1>6. Q \in [Site -> Requests] /\ U \in [Site -> BOOLEAN] /\ DOMAIN R = Site
      BY DEF Requests
<1>7. ASSUME NEW s \in Site PROVE Conn(t, c, s, X[s], Q[s], R[s], U[s])
  <2>1. ConnUnused(X[s], Q[s], R[s], U[s]) /\ U[s]
        BY DEF ConnUnused, Quiet
  <2>2. DOMAIN X[s].ps = {}
        BY AbsentHas
  <2> QED BY <1>4, <2>1, <2>2, Zenon DEF Conn
<1>8. Counted(t, c, X, Q, R, U)
  <2>1. {PieceOf(i).site : i \in c.sent} = {}
        BY <1>4
  <2> QED BY <1>4, <1>5, <2>1 DEF Counted
<1> QED BY <1>4, <1>5, <1>6, <1>7, <1>8, Zenon DEF TxnInv
=============================================================================
