---------------------------- MODULE Txn2PLProofs ----------------------------
(***************************************************************************)
(* What the requests to a site of MODE_2PL (module Txn2PL) do to its lock  *)
(* queues and its transactions: the invariant of a site (module Txn2PLInv) *)
(* is preserved by each of them.                                           *)
(***************************************************************************)
EXTENDS Txn2PLInv, Integers, FiniteSetTheorems, TLAPS

-----------------------------------------------------------------------------
(* Numbers *)

\* A set of natural numbers has a least one.
LEMMA Least ==
  ASSUME NEW T \in SUBSET Nat, T # {}
  PROVE  \E m \in T : \A k \in T : m <= k
<1> DEFINE R == {ss \in Nat \X Nat : ss[1] < ss[2]}
<1>1. IsWellFoundedOn(R, Nat)
  BY NatLessThanWellFounded DEF OpToRel
<1> HIDE DEF R
<1>2. PICK m \in T : \A y \in T : <<y, m>> \notin R
  <2>1. \E x \in T : \A y \in T : ~(<<y, x>> \in R)
    BY <1>1, WFMin, Zenon
  <2>2. QED
    BY <2>1
<1>3. ASSUME NEW k \in T
      PROVE  m <= k
  <2>1. <<k, m>> \in Nat \X Nat /\ <<k, m>>[1] = k /\ <<k, m>>[2] = m
    OBVIOUS
  <2>2. ~(k < m)
    BY <1>2, <2>1 DEF R
  <2>3. QED
    BY <2>2
<1>4. QED
  BY <1>3

\* Induction, for a set of natural numbers.
LEMMA Induction ==
  ASSUME NEW T \in SUBSET Nat, 0 \in T, \A n \in T : n + 1 \in T
  PROVE  T = Nat
<1> SUFFICES ASSUME Nat \ T # {} PROVE FALSE
  BY Zenon
<1>1. PICK m \in Nat \ T : \A k \in Nat \ T : m <= k
  BY Least, Zenon
<1>2. m # 0 /\ m - 1 \in Nat /\ m - 1 \notin Nat \ T
  BY <1>1
<1>3. QED
  BY <1>1, <1>2

\* The numbers of a finite set can be put in order.
LEMMA OrderExists ==
  ASSUME NEW I \in SUBSET Nat, IsFiniteSet(I)
  PROVE  \E q \in [1 .. Cardinality(I) -> I] : Increasing(q)
<1> DEFINE T == {n \in Nat : \A J \in SUBSET Nat : IsFiniteSet(J) /\ Cardinality(J) = n =>
                               \E q \in [1 .. n -> J] : Increasing(q)}
<1>1. 0 \in T
  <2> SUFFICES ASSUME NEW J \in SUBSET Nat
               PROVE  \E q \in [1 .. 0 -> J] : Increasing(q)
    OBVIOUS
  <2>1. [n \in 1 .. 0 |-> n] \in [1 .. 0 -> J]
    OBVIOUS
  <2>2. QED
    BY <2>1, Zenon DEF Increasing
<1>2. ASSUME NEW n \in T
      PROVE  n + 1 \in T
  <2> SUFFICES ASSUME NEW J \in SUBSET Nat, IsFiniteSet(J), Cardinality(J) = n + 1
               PROVE  \E q \in [1 .. n + 1 -> J] : Increasing(q)
    OBVIOUS
  <2>0. /\ n \in Nat
        /\ \A K \in SUBSET Nat : IsFiniteSet(K) /\ Cardinality(K) = n =>
              \E q \in [1 .. n -> K] : Increasing(q)
    OBVIOUS
  <2> HIDE DEF T
  <2>1. J # {}
    BY <2>0, FS_EmptySet
  <2>2. PICK m \in J : \A k \in J : m <= k
    BY <2>1, Least
  <2>3. IsFiniteSet(J \ {m}) /\ Cardinality(J \ {m}) = n
    <3>1. IsFiniteSet(J \ {m}) /\ Cardinality(J \ {m}) = Cardinality(J) - 1
      BY FS_RemoveElement
    <3>2. QED
      BY <2>0, <3>1
  <2>4. PICK q \in [1 .. n -> J \ {m}] : Increasing(q)
    BY <2>0, <2>3
  <2> DEFINE r == [k \in 1 .. n + 1 |-> IF k = 1 THEN m ELSE q[k - 1]]
  <2>5. \A k \in 1 .. n + 1 : k # 1 => k - 1 \in 1 .. n
    BY <2>0
  <2>6. r \in [1 .. n + 1 -> J]
    BY <2>5
  <2>7. ASSUME NEW i \in 1 .. n + 1, NEW j \in 1 .. n + 1, i < j
        PROVE  r[i] < r[j]
    <3>1. j - 1 \in 1 .. n /\ q[j - 1] \in J \ {m}
      BY <2>0, <2>5, <2>7
    <3>2. CASE i = 1
      <4>1. m < q[j - 1]
        BY <2>2, <3>1, m \in Nat, q[j - 1] \in Nat
      <4>2. r[i] = m /\ r[j] = q[j - 1]
        BY <2>0, <2>5, <2>7, <3>2
      <4>3. QED
        BY <4>1, <4>2
    <3>3. CASE i # 1
      BY <2>0, <2>4, <2>5, <2>7, <3>1, <3>3 DEF Increasing
    <3>4. QED
      BY <3>2, <3>3
  <2>8. QED
    BY <2>6, <2>7, Zenon DEF Increasing
<1>3. T = Nat
  BY <1>1, <1>2, Induction, Zenon
<1>4. Cardinality(I) \in T
  BY <1>3, FS_CardinalityType
<1>5. QED
  BY <1>4

\* What the proofs use of finite sets, from the library.
LEMMA FiniteFactsHold == FiniteFacts
<1>1. ASSUME NEW S, IsFiniteSet(S)
      PROVE  Cardinality(S) \in Nat /\ (Cardinality(S) = 0 <=> S = {})
  BY <1>1, FS_CardinalityType, FS_EmptySet, Zenon
<1>2. ASSUME NEW S, NEW T \in SUBSET S, IsFiniteSet(S)
      PROVE  /\ IsFiniteSet(T) /\ Cardinality(T) <= Cardinality(S)
             /\ Cardinality(S) = Cardinality(T) => S = T
  BY <1>2, FS_Subset, Zenon
<1>3. Cardinality({}) = 0 /\ \A x : IsFiniteSet({x}) /\ Cardinality({x}) = 1
  BY FS_EmptySet, FS_Singleton, Zenon
<1>4. ASSUME NEW n \in Nat
      PROVE  IsFiniteSet(1 .. n) /\ Cardinality(1 .. n) = n
  <2>1. IsFiniteSet(1 .. n) /\ Cardinality(1 .. n) = IF 1 > n THEN 0 ELSE n - 1 + 1
    BY FS_Interval
  <2>2. QED
    BY <2>1
<1>5. ASSUME NEW A, NEW B, IsFiniteSet(A), IsFiniteSet(B), A \cap B = {}
      PROVE  IsFiniteSet(A \cup B) /\ Cardinality(A \cup B) = Cardinality(A) + Cardinality(B)
  <2>1. Cardinality(A \cap B) = 0
    BY <1>3, <1>5
  <2>2. Cardinality(A) \in Nat /\ Cardinality(B) \in Nat
    BY <1>1, <1>5
  <2>3. /\ IsFiniteSet(A \cup B)
        /\ Cardinality(A \cup B) = Cardinality(A) + Cardinality(B) - Cardinality(A \cap B)
    BY <1>5, FS_Union, Zenon
  <2>4. QED
    BY <2>1, <2>2, <2>3
<1>6. ASSUME NEW S, NEW T, NEW f \in [S -> T], IsFiniteSet(S), Covers(f, S, T)
      PROVE  IsFiniteSet(T) /\ (OneToOne(f, S) => Cardinality(T) = Cardinality(S))
  <2>1. f \in Surjection(S, T)
    BY <1>6 DEF Surjection, Covers
  <2>2. OneToOne(f, S) => f \in Injection(S, T)
    BY DEF Injection, IsInjective, OneToOne
  <2>3. QED
    BY <1>6, <2>1, <2>2, FS_Surjection, Zenon
<1>7. ASSUME NEW I \in SUBSET Nat, IsFiniteSet(I)
      PROVE  /\ InOrder(I) \in [1 .. Cardinality(I) -> I] /\ Increasing(InOrder(I))
             /\ \A i \in I : \E n \in 1 .. Cardinality(I) : InOrder(I)[n] = i
  <2> DEFINE N == Cardinality(I)
             q == InOrder(I)
  <2>1. N \in Nat /\ IsFiniteSet(1 .. N) /\ Cardinality(1 .. N) = N
    BY <1>1, <1>4, <1>7
  <2>2. q \in [1 .. N -> I] /\ Increasing(q)
    BY <1>7, OrderExists, Zenon DEF InOrder, Increasing
  <2> HIDE DEF q, N
  <2>3. ASSUME NEW m \in 1 .. N, NEW n \in 1 .. N, q[m] = q[n]
        PROVE  m = n
    <3>1. q[m] \in Nat /\ (m < n => q[m] < q[n]) /\ (n < m => q[n] < q[m])
      BY <2>2, Zenon DEF Increasing
    <3>2. QED
      BY <2>1, <2>3, <3>1
  <2>4. q \in Injection(1 .. N, I)
    BY <2>2, <2>3 DEF Injection, IsInjective
  <2>5. q \in Surjection(1 .. N, I)
    BY <1>7, <2>1, <2>4, FS_Injection DEF N
  <2>6. \A i \in I : \E n \in 1 .. N : q[n] = i
    BY <2>5 DEF Surjection
  <2>7. QED
    BY <2>2, <2>6 DEF q, N
<1>8. /\ \A S : IsFiniteSet(S) => Cardinality(S) \in Nat /\ (Cardinality(S) = 0 <=> S = {})
      /\ \A S : \A T \in SUBSET S :
            IsFiniteSet(S) => /\ IsFiniteSet(T) /\ Cardinality(T) <= Cardinality(S)
                              /\ Cardinality(S) = Cardinality(T) => S = T
  BY <1>1, <1>2, Zenon
<1>9. /\ \A n \in Nat : IsFiniteSet(1 .. n) /\ Cardinality(1 .. n) = n
      /\ \A A, B : IsFiniteSet(A) /\ IsFiniteSet(B) /\ A \cap B = {} =>
            IsFiniteSet(A \cup B) /\ Cardinality(A \cup B) = Cardinality(A) + Cardinality(B)
  BY <1>4, <1>5, Zenon
<1>10. \A S, T : \A f \in [S -> T] :
          IsFiniteSet(S) /\ Covers(f, S, T) =>
            IsFiniteSet(T) /\ (OneToOne(f, S) => Cardinality(T) = Cardinality(S))
  BY <1>6, Zenon
<1>11. \A I \in SUBSET Nat : IsFiniteSet(I) =>
          /\ InOrder(I) \in [1 .. Cardinality(I) -> I] /\ Increasing(InOrder(I))
          /\ \A i \in I : \E n \in 1 .. Cardinality(I) : InOrder(I)[n] = i
  BY <1>7, Zenon
<1>12. QED
  BY <1>3, <1>8, <1>9, <1>10, <1>11, Zenon DEF FiniteFacts

-----------------------------------------------------------------------------
(* Pieces and transactions *)

\* A piece is known by its id, and its fields have their types.
LEMMA PieceFields ==
  ASSUME NEW i \in Ids(Piece)
  PROVE  /\ PieceOf(i) \in Piece /\ PieceOf(i).id = i /\ i \in Nat
         /\ PieceOf(i).txn \in Txn /\ PieceOf(i).reads \subseteq Cell /\ PieceOf(i).writes \subseteq Cell
         /\ PieceOf(i).locks \subseteq Cell \X {"R", "W"}
<1>1. PieceOf(i) \in Piece /\ PieceOf(i).id = i
  BY DEF PieceOf, Ids
<1>2. QED
  BY <1>1, PiecesAssumption

\* The piece with the id of p is p.
LEMMA PieceOfId ==
  ASSUME NEW p \in Piece
  PROVE  p.id \in Ids(Piece) /\ PieceOf(p.id) = p
<1>1. p.id \in Ids(Piece)
  BY DEF Ids
<1>2. PieceOf(p.id) \in Piece /\ PieceOf(p.id).id = p.id
  BY <1>1, PieceFields
<1>3. QED
  BY <1>1, <1>2, PiecesAssumption

\* A transaction that evolves twice evolves.
LEMMA EvolvesTrans ==
  ASSUME NEW x, NEW y, NEW z, Evolves(x, y), Evolves(y, z)
  PROVE  Evolves(x, z)
<1>1. Idle(x) => Idle(y)
  BY DEF Evolves, Idle
<1>2. QED
  BY <1>1 DEF Evolves

\* A transaction that is left alone evolves.
LEMMA EvolvesRefl ==
  ASSUME NEW x
  PROVE  Evolves(x, x)
BY DEF Evolves

\* The fields of a transaction that is not in txn_map_s.
LEMMA NoTxFields ==
  /\ ~NoTx.in /\ ~NoTx.wound /\ ~NoTx.prepared /\ NoTx.updates = {} /\ DOMAIN NoTx.ps = {}
  /\ TxnTyped(NoTx)
<1>1. /\ NoTx.in = FALSE /\ NoTx.wound = FALSE /\ NoTx.prepared = FALSE
      /\ NoTx.updates = {} /\ NoTx.ps = <<>>
  BY DEF NoTx
<1>2. DOMAIN <<>> = {}
  OBVIOUS
<1>3. <<>> \in [{} -> PieceAt]
  OBVIOUS
<1>4. NoTx = [in |-> NoTx.in, wound |-> NoTx.wound, prepared |-> NoTx.prepared,
              updates |-> NoTx.updates, ps |-> NoTx.ps]
  BY DEF NoTx
<1>5. QED
  BY <1>1, <1>2, <1>3, <1>4, Zenon DEF TxnTyped

\* A transaction with those fields is the one that is not there.
LEMMA NoTxIs ==
  ASSUME NEW x, TxnTyped(x), ~x.in, ~x.wound, ~x.prepared, x.updates = {}, DOMAIN x.ps = {}
  PROVE  x = NoTx
<1>1. x.ps = <<>>
  BY DEF TxnTyped
<1>2. x = [in |-> FALSE, wound |-> FALSE, prepared |-> FALSE, updates |-> {}, ps |-> x.ps]
  BY DEF TxnTyped
<1>3. QED
  BY <1>1, <1>2 DEF NoTx

-----------------------------------------------------------------------------
(* Queues *)

\* The requests that are kept stay in their order, and one that was granted
\* stays granted.
KeptOf(R, q, K, F) ==
  /\ F \in Seq(R)
  /\ \A n \in DOMAIN F : \E k \in K : F[n] = q[k] /\ (Held(q, k) => Held(F, n))
  /\ \A k \in K : \E n \in DOMAIN F : F[n] = q[k] /\ (Held(q, k) => Held(F, n))
  /\ \A m, n \in DOMAIN F : m < n => \E j, k \in K : j < k /\ F[m] = q[j] /\ F[n] = q[k]

\* Kept gives the places K of a queue in their order.
LEMMA KeptIs ==
  ASSUME NEW R, NEW q \in Seq(R), NEW K \in SUBSET DOMAIN q
  PROVE  KeptOf(R, q, K, Kept(q, K))
<1> DEFINE N == Cardinality(K)
           at == InOrder(K)
           F == Kept(q, K)
<1>1. K \in SUBSET Nat /\ IsFiniteSet(K)
  <2>1. DOMAIN q = 1 .. Len(q) /\ Len(q) \in Nat
    OBVIOUS
  <2>2. IsFiniteSet(1 .. Len(q))
    BY <2>1, FiniteFactsHold, Zenon DEF FiniteFacts
  <2>3. QED
    BY <2>1, <2>2, FS_Subset
<1>2. /\ N \in Nat /\ at \in [1 .. N -> K]
      /\ \A m, n \in 1 .. N : m < n => at[m] < at[n]
      /\ \A k \in K : \E n \in 1 .. N : at[n] = k
  <2>1. N \in Nat /\ at \in [1 .. N -> K] /\ Increasing(at) /\ \A k \in K : \E n \in 1 .. N : at[n] = k
    BY <1>1, FiniteFactsHold, Zenon DEF FiniteFacts
  <2> HIDE DEF N, at
  <2>2. QED
    BY <2>1 DEF Increasing
<1>3. F = [n \in 1 .. N |-> q[at[n]]]
  BY <1>2 DEF Kept
<1> HIDE DEF N, at, F
<1>4. DOMAIN F = 1 .. N /\ \A n \in 1 .. N : at[n] \in K /\ F[n] = q[at[n]]
  BY <1>2, <1>3
<1>5. F \in Seq(R)
  <2>1. \A n \in 1 .. N : q[at[n]] \in R
    BY <1>4
  <2>2. QED
    BY <1>2, <1>3, <2>1
<1>6. ASSUME NEW n \in 1 .. N, Held(q, at[n])
      PROVE  Held(F, n)
  <2> SUFFICES ASSUME NEW m \in 1 .. n - 1
               PROVE  ~Against(F[m], F[n].type)
    BY DEF Held
  <2>1. m \in 1 .. N /\ m < n
    BY <1>2
  <2>2. at[m] \in 1 .. at[n] - 1
    <3>1. at[m] \in Nat /\ at[n] \in Nat /\ at[m] < at[n] /\ at[m] # 0
      <4>1. at[m] \in K /\ at[n] \in K
        BY <1>4, <2>1
      <4>2. \A k \in K : k \in Nat /\ k # 0
        OBVIOUS
      <4>3. QED
        BY <1>2, <2>1, <4>1, <4>2
    <3>2. QED
      BY <3>1
  <2>3. QED
    BY <1>4, <1>6, <2>1, <2>2 DEF Held
<1>7. \A m, n \in 1 .. N : m < n => at[m] < at[n] /\ at[m] \in K /\ at[n] \in K
  BY <1>2, <1>4
<1>8. \A n \in DOMAIN F : \E k \in K : F[n] = q[k] /\ (Held(q, k) => Held(F, n))
  BY <1>4, <1>6
<1>9. \A k \in K : \E n \in DOMAIN F : F[n] = q[k] /\ (Held(q, k) => Held(F, n))
  BY <1>2, <1>4, <1>6
<1>10. \A m, n \in DOMAIN F : m < n => \E j, k \in K : j < k /\ F[m] = q[j] /\ F[n] = q[k]
  BY <1>4, <1>7
<1>11. QED
  BY <1>5, <1>8, <1>9, <1>10, Zenon DEF F, KeptOf

\* The queues M are what is left of the queues L.
LeftOf(L, M) ==
  /\ M \in [Cell -> Seq(Request)]
  /\ \A c \in Cell : \A n \in DOMAIN M[c] : \E k \in DOMAIN L[c] :
        M[c][n] = L[c][k] /\ (Held(L[c], k) => Held(M[c], n))
  /\ \A c \in Cell : \A m, n \in DOMAIN M[c] : m < n =>
        \E j, k \in DOMAIN L[c] : j < k /\ M[c][m] = L[c][j] /\ M[c][n] = L[c][k]

\* Keeping the places K[c] of the queue of c.
KeptAt(L, K, M) ==
  M = [c \in Cell |-> Kept(L[c], K[c])] /\ \A c \in Cell : K[c] \in SUBSET DOMAIN L[c]

JustThose(L, K, M) ==
  /\ \A c \in Cell : \A n \in DOMAIN M[c] : \E k \in K[c] : M[c][n] = L[c][k]
  /\ \A c \in Cell : \A k \in K[c] : \E n \in DOMAIN M[c] : M[c][n] = L[c][k]

\* What is left of the queues when each keeps some of its places.
LEMMA KeptLeft ==
  ASSUME NEW L \in [Cell -> Seq(Request)], NEW K, NEW M, KeptAt(L, K, M)
  PROVE  LeftOf(L, M) /\ JustThose(L, K, M)
<1>1. ASSUME NEW c \in Cell
      PROVE  KeptOf(Request, L[c], K[c], Kept(L[c], K[c]))
  <2>1. L[c] \in Seq(Request) /\ K[c] \in SUBSET DOMAIN L[c]
    BY DEF KeptAt
  <2>2. QED
    BY <2>1, KeptIs
<1>2. ASSUME NEW c \in Cell
      PROVE  /\ M[c] \in Seq(Request)
             /\ \A n \in DOMAIN M[c] : \E k \in K[c] : k \in DOMAIN L[c]
                   /\ M[c][n] = L[c][k] /\ (Held(L[c], k) => Held(M[c], n))
             /\ \A k \in K[c] : \E n \in DOMAIN M[c] : M[c][n] = L[c][k]
             /\ \A m, n \in DOMAIN M[c] : m < n =>
                   \E j, k \in DOMAIN L[c] : j < k /\ M[c][m] = L[c][j] /\ M[c][n] = L[c][k]
  <2> DEFINE F == Kept(L[c], K[c])
  <2>1. M[c] = F /\ \A k \in K[c] : k \in DOMAIN L[c]
    BY DEF KeptAt
  <2>2. /\ F \in Seq(Request)
        /\ \A n \in DOMAIN F : \E k \in K[c] : F[n] = L[c][k] /\ (Held(L[c], k) => Held(F, n))
        /\ \A k \in K[c] : \E n \in DOMAIN F : F[n] = L[c][k] /\ (Held(L[c], k) => Held(F, n))
        /\ \A m, n \in DOMAIN F : m < n =>
              \E j, k \in K[c] : j < k /\ F[m] = L[c][j] /\ F[n] = L[c][k]
    BY <1>1, Zenon DEF KeptOf
  <2> HIDE DEF F
  <2>3. QED
    BY <2>1, <2>2
<1>3. M \in [Cell -> Seq(Request)]
  BY <1>2 DEF KeptAt
<1>4. LeftOf(L, M)
  BY <1>2, <1>3, Zenon DEF LeftOf
<1>5. QED
  BY <1>2, <1>4, Zenon DEF JustThose

\* Removing pieces from the queues.
LEMMA WithoutIs ==
  ASSUME NEW L \in [Cell -> Seq(Request)], NEW I
  PROVE  LET M == WithoutPieces(L, I)
         IN  /\ LeftOf(L, M)
             /\ \A c \in Cell : \A n \in DOMAIN M[c] : M[c][n].pid \notin I
             /\ \A c \in Cell : \A k \in DOMAIN L[c] : L[c][k].pid \notin I =>
                   \E n \in DOMAIN M[c] : M[c][n] = L[c][k]
<1> DEFINE M == WithoutPieces(L, I)
           K == [c \in Cell |-> {k \in DOMAIN L[c] : L[c][k].pid \notin I}]
<1>1. M = [c \in Cell |-> Kept(L[c], K[c])]
  BY DEF WithoutPieces
<1>2. /\ \A c \in Cell : K[c] \in SUBSET DOMAIN L[c]
      /\ \A c \in Cell : \A k \in DOMAIN L[c] : k \in K[c] <=> L[c][k].pid \notin I
  OBVIOUS
<1> HIDE DEF M, K
<1>3. KeptAt(L, K, M)
  BY <1>1, <1>2, SMT DEF KeptAt
<1>4. LeftOf(L, M) /\ JustThose(L, K, M)
  BY <1>3, KeptLeft
<1>5. ASSUME NEW c \in Cell, NEW n \in DOMAIN M[c] PROVE M[c][n].pid \notin I
  <2>1. PICK k \in K[c] : M[c][n] = L[c][k]
    BY <1>4 DEF JustThose
  <2>2. QED
    BY <1>2, <2>1
<1>6. ASSUME NEW c \in Cell, NEW k \in DOMAIN L[c], L[c][k].pid \notin I
      PROVE  \E n \in DOMAIN M[c] : M[c][n] = L[c][k]
  <2>1. k \in K[c]
    BY <1>2, <1>6
  <2>2. QED
    BY <1>4, <2>1, Zenon DEF JustThose
<1>7. QED
  BY <1>4, <1>5, <1>6, Zenon DEF M

-----------------------------------------------------------------------------
(* What is left of the queues is in order *)

\* The request at a place of a queue.
LEMMA RequestFields ==
  ASSUME NEW L \in [Cell -> Seq(Request)], NEW c \in Cell, NEW k \in DOMAIN L[c]
  PROVE  /\ L[c] \in Seq(Request) /\ k \in 1 .. Len(L[c]) /\ k \in Nat /\ L[c][k] \in Request
         /\ L[c][k].txn \in Txn /\ L[c][k].txn \in Nat /\ L[c][k].pid \in Nat /\ L[c][k].type \in {"R", "W"}
<1>1. L[c] \in Seq(Request) /\ k \in 1 .. Len(L[c]) /\ k \in Nat /\ L[c][k] \in Request
  OBVIOUS
<1>2. ASSUME NEW a \in Request
      PROVE  a.txn \in Txn /\ a.pid \in Nat /\ a.type \in {"R", "W"}
  BY DEF Request
<1>3. Txn \subseteq Nat
  BY PiecesAssumption
<1>4. QED
  BY <1>1, <1>2, <1>3, Zenon

\* The pieces that still have a request in the queues of N.
Undisturbed(S, N) ==
  \A c \in Cell : \A n \in DOMAIN N.locks[c] :
     LET a == N.locks[c][n]
     IN  /\ N.tx[a.txn].in = S.tx[a.txn].in /\ N.tx[a.txn].prepared = S.tx[a.txn].prepared
         /\ DOMAIN N.tx[a.txn].ps = DOMAIN S.tx[a.txn].ps
         /\ N.tx[a.txn].ps[a.pid].lock = S.tx[a.txn].ps[a.pid].lock

\* Whatever is removed from the queues, the rest is in order.
LEMMA Thinned ==
  ASSUME NEW S, NEW N, NEW kind,
         Typed(S), Queued(S), OneRequest(S), Ordered(S, kind), LeftOf(S.locks, N.locks), Undisturbed(S, N)
  PROVE  Queued(N) /\ OneRequest(N) /\ Ordered(N, kind)
<1>1. Queued(N)
  <2> SUFFICES ASSUME NEW c \in Cell, NEW n \in DOMAIN N.locks[c]
               PROVE  QueuedAt(N, c, n)
    BY DEF Queued
  <2>1. PICK k \in DOMAIN S.locks[c] :
               N.locks[c][n] = S.locks[c][k] /\ (Held(S.locks[c], k) => Held(N.locks[c], n))
    BY DEF LeftOf
  <2> DEFINE a == S.locks[c][k]
  <2>2. QueuedAt(S, c, k)
    BY DEF Queued
  <2>3. /\ N.tx[a.txn].in = S.tx[a.txn].in
        /\ DOMAIN N.tx[a.txn].ps = DOMAIN S.tx[a.txn].ps
        /\ N.tx[a.txn].ps[a.pid].lock = S.tx[a.txn].ps[a.pid].lock
    BY <2>1, Zenon DEF Undisturbed
  <2>4. QED
    BY <2>1, <2>2, <2>3, Zenon DEF QueuedAt
<1>2. OneRequest(N)
  <2> SUFFICES ASSUME NEW c \in Cell, NEW m \in DOMAIN N.locks[c], NEW n \in DOMAIN N.locks[c], m < n
               PROVE  N.locks[c][m].pid # N.locks[c][n].pid
    <3>1. ASSUME NEW c \in Cell, NEW m \in DOMAIN N.locks[c]
          PROVE  m \in Nat
      BY RequestFields DEF LeftOf
    <3>2. SUFFICES ASSUME NEW c \in Cell, NEW m \in DOMAIN N.locks[c], NEW n \in DOMAIN N.locks[c],
                          N.locks[c][m].pid = N.locks[c][n].pid, m # n
                   PROVE  FALSE
      BY Zenon DEF OneRequest
    <3>3. m < n \/ n < m
      <4>1. m \in Nat /\ n \in Nat
        BY <3>1, Zenon
      <4>2. QED
        BY <3>2, <4>1
    <3>4. QED
      BY <3>2, <3>3
  <2>1. PICK j, k \in DOMAIN S.locks[c] :
               j < k /\ N.locks[c][m] = S.locks[c][j] /\ N.locks[c][n] = S.locks[c][k]
    BY DEF LeftOf
  <2>2. S.locks \in [Cell -> Seq(Request)]
    BY DEF Typed
  <2>3. j \in Nat /\ k \in Nat
    BY <2>2, RequestFields
  <2>4. j # k
    BY <2>1, <2>3
  <2>5. QED
    BY <2>1, <2>4, Zenon DEF OneRequest
<1>3. Ordered(N, kind)
  <2> SUFFICES ASSUME NEW c \in Cell, NEW m \in DOMAIN N.locks[c], NEW n \in DOMAIN N.locks[c], m < n,
                      Against(N.locks[c][m], N.locks[c][n].type)
               PROVE  MayPrecede(N, kind, N.locks[c][m], N.locks[c][n])
    BY DEF Ordered
  <2>1. PICK j, k \in DOMAIN S.locks[c] :
               j < k /\ N.locks[c][m] = S.locks[c][j] /\ N.locks[c][n] = S.locks[c][k]
    BY DEF LeftOf
  <2>2. MayPrecede(S, kind, S.locks[c][j], S.locks[c][k])
    BY <2>1 DEF Ordered
  <2>3. N.tx[N.locks[c][m].txn].prepared = S.tx[N.locks[c][m].txn].prepared
    BY Zenon DEF Undisturbed
  <2>4. QED
    BY <2>1, <2>2, <2>3, Zenon DEF MayPrecede
<1>4. QED
  BY <1>1, <1>2, <1>3

-----------------------------------------------------------------------------
(* Records *)

\* A site with some of its fields replaced, field by field.
LEMMA SiteUpdate ==
  ASSUME NEW S, Typed(S), NEW A, NEW B
  PROVE  /\ [S EXCEPT !.locks = A, !.tx = B] = [locks |-> A, tx |-> B, val |-> S.val, ok |-> S.ok]
         /\ [S EXCEPT !.tx = B] = [locks |-> S.locks, tx |-> B, val |-> S.val, ok |-> S.ok]
         /\ [S EXCEPT !.locks = A] = [locks |-> A, tx |-> S.tx, val |-> S.val, ok |-> S.ok]
<1> DEFINE T == [S EXCEPT !.locks = A]
<1>1. S = [locks |-> S.locks, tx |-> S.tx, val |-> S.val, ok |-> S.ok]
  BY DEF Typed
<1>2. T = [locks |-> A, tx |-> S.tx, val |-> S.val, ok |-> S.ok]
  BY <1>1
<1>3. [S EXCEPT !.tx = B] = [locks |-> S.locks, tx |-> B, val |-> S.val, ok |-> S.ok]
  BY <1>1
<1>4. [S EXCEPT !.locks = A, !.tx = B] = [T EXCEPT !.tx = B]
  OBVIOUS
<1> HIDE DEF T
<1>5. [T EXCEPT !.tx = B] = [locks |-> A, tx |-> B, val |-> S.val, ok |-> S.ok]
  BY <1>2
<1>6. QED
  BY <1>2, <1>3, <1>4, <1>5, Zenon DEF T

\* A transaction with some of its fields replaced, field by field.
LEMMA TxnUpdate ==
  ASSUME NEW x, TxnTyped(x), NEW A, NEW B
  PROVE  /\ [x EXCEPT !.ps = A] =
               [in |-> x.in, wound |-> x.wound, prepared |-> x.prepared, updates |-> x.updates, ps |-> A]
         /\ [x EXCEPT !.wound = A] =
               [in |-> x.in, wound |-> A, prepared |-> x.prepared, updates |-> x.updates, ps |-> x.ps]
         /\ [x EXCEPT !.updates = B, !.ps = A] =
               [in |-> x.in, wound |-> x.wound, prepared |-> x.prepared, updates |-> B, ps |-> A]
<1> DEFINE T == [x EXCEPT !.updates = B]
<1>1. x = [in |-> x.in, wound |-> x.wound, prepared |-> x.prepared, updates |-> x.updates, ps |-> x.ps]
  BY DEF TxnTyped
<1>2. [x EXCEPT !.ps = A] =
        [in |-> x.in, wound |-> x.wound, prepared |-> x.prepared, updates |-> x.updates, ps |-> A]
  BY <1>1
<1>3. [x EXCEPT !.wound = A] =
        [in |-> x.in, wound |-> A, prepared |-> x.prepared, updates |-> x.updates, ps |-> x.ps]
  BY <1>1
<1>4. T = [in |-> x.in, wound |-> x.wound, prepared |-> x.prepared, updates |-> B, ps |-> x.ps]
  BY <1>1
<1>5. [x EXCEPT !.updates = B, !.ps = A] = [T EXCEPT !.ps = A]
  OBVIOUS
<1> HIDE DEF T
<1>6. [T EXCEPT !.ps = A] =
        [in |-> x.in, wound |-> x.wound, prepared |-> x.prepared, updates |-> B, ps |-> A]
  BY <1>4
<1>7. QED
  BY <1>2, <1>3, <1>5, <1>6, Zenon

-----------------------------------------------------------------------------
(* Refuse *)

\* get_2pl_fail_callback marks the pieces of I and leaves the others.
LEMMA FailingIs ==
  ASSUME NEW ps, ps \in [DOMAIN ps -> PieceAt], NEW I
  PROVE  LET y == Failing(ps, I)
         IN  /\ y \in [DOMAIN ps -> PieceAt] /\ DOMAIN y = DOMAIN ps
             /\ \A i \in DOMAIN ps :
                  /\ i \notin I => y[i] = ps[i]
                  /\ i \in I => y[i].lock = "no" /\ y[i].res = "REJECT" /\ y[i].out = ps[i].out
                                /\ y[i].call = ps[i].call
<1>1. ASSUME NEW i \in DOMAIN ps
      PROVE  /\ Failing(ps, I)[i] \in PieceAt
             /\ i \notin I => Failing(ps, I)[i] = ps[i]
             /\ i \in I => /\ Failing(ps, I)[i].lock = "no" /\ Failing(ps, I)[i].res = "REJECT"
                           /\ Failing(ps, I)[i].out = ps[i].out /\ Failing(ps, I)[i].call = ps[i].call
  <2> DEFINE r == ps[i]
  <2>1. r \in PieceAt
    OBVIOUS
  <2>2. Failing(ps, I)[i] = IF i \in I THEN [r EXCEPT !.lock = "no", !.res = "REJECT"] ELSE r
    BY DEF Failing
  <2> HIDE DEF r
  <2>3. QED
    BY <2>1, <2>2, Zenon DEF PieceAt, r
<1>2. Failing(ps, I) = [i \in DOMAIN ps |-> Failing(ps, I)[i]] /\ DOMAIN Failing(ps, I) = DOMAIN ps
  BY DEF Failing
<1>3. Failing(ps, I) \in [DOMAIN ps -> PieceAt]
  BY <1>1, <1>2
<1>4. QED
  BY <1>1, <1>2, <1>3

\* Refusing lock groups changes their pieces and removes their requests.
LEMMA RefuseIs ==
  ASSUME NEW S, NEW I, Typed(S)
  PROVE  LET N == Refuse(S, I)
         IN  /\ Typed(N)
             /\ N.locks = WithoutPieces(S.locks, I) /\ N.val = S.val /\ N.ok = S.ok
             /\ \A u \in Txn :
                  /\ N.tx[u].in = S.tx[u].in /\ N.tx[u].wound = S.tx[u].wound
                  /\ N.tx[u].prepared = S.tx[u].prepared /\ N.tx[u].updates = S.tx[u].updates
                  /\ N.tx[u].ps = Failing(S.tx[u].ps, I)
<1> DEFINE N == Refuse(S, I)
           A == WithoutPieces(S.locks, I)
           y(u) == Failing(S.tx[u].ps, I)
           B == [u \in Txn |-> [S.tx[u] EXCEPT !.ps = y(u)]]
<1>1. N = [locks |-> A, tx |-> B, val |-> S.val, ok |-> S.ok]
  BY SiteUpdate, Zenon DEF Refuse
<1>2. ASSUME NEW u \in Txn
      PROVE  /\ TxnTyped(B[u])
             /\ B[u].in = S.tx[u].in /\ B[u].wound = S.tx[u].wound
             /\ B[u].prepared = S.tx[u].prepared /\ B[u].updates = S.tx[u].updates
             /\ B[u].ps = y(u)
  <2>1. TxnTyped(S.tx[u])
    BY DEF Typed
  <2>2. B[u] = [S.tx[u] EXCEPT !.ps = y(u)]
    OBVIOUS
  <2> HIDE DEF y, B
  <2>3. B[u] = [in |-> S.tx[u].in, wound |-> S.tx[u].wound, prepared |-> S.tx[u].prepared,
                updates |-> S.tx[u].updates, ps |-> y(u)]
    BY <2>1, <2>2, TxnUpdate, Zenon
  <2>4. y(u) \in [DOMAIN y(u) -> PieceAt] /\ DOMAIN y(u) = DOMAIN S.tx[u].ps
    BY <2>1, FailingIs DEF TxnTyped, y
  <2>5. QED
    BY <2>1, <2>3, <2>4 DEF TxnTyped
<1>3. B = [u \in Txn |-> B[u]]
  OBVIOUS
<1>4. A \in [Cell -> Seq(Request)]
  BY WithoutIs DEF Typed, LeftOf
<1> HIDE DEF A, B, N, y
<1>5. N.locks = A /\ N.tx = B /\ N.val = S.val /\ N.ok = S.ok
  BY <1>1
<1>6. Typed(N)
  BY <1>1, <1>2, <1>3, <1>4, <1>5 DEF Typed
<1>7. QED
  BY <1>2, <1>5, <1>6 DEF N, A, y

\* The pieces of I wait, wherever they are.
Waiting(S, I) == \A u \in Txn : \A i \in DOMAIN S.tx[u].ps : i \in I => S.tx[u].ps[i].lock = "wait"

\* Refusing the groups of waiting pieces keeps the invariant of the site.
LEMMA RefuseInv ==
  ASSUME NEW S, NEW kind, NEW X, NEW I, SiteInvBut(S, kind, X), Waiting(S, I)
  PROVE  /\ SiteInvBut(Refuse(S, I), kind, X \ I)
         /\ \A u \in Txn : Evolves(S.tx[u], Refuse(S, I).tx[u])
<1> DEFINE N == Refuse(S, I)
<1>1. /\ Typed(S) /\ Queued(S) /\ OneRequest(S) /\ Ordered(S, kind) /\ Asked(S, X)
      /\ \A u \in Txn : RanTxn(S, u)
  BY DEF SiteInvBut, Ran
<1>2. /\ Typed(N) /\ N.locks = WithoutPieces(S.locks, I) /\ N.val = S.val
      /\ \A u \in Txn : /\ N.tx[u].in = S.tx[u].in /\ N.tx[u].wound = S.tx[u].wound
                         /\ N.tx[u].prepared = S.tx[u].prepared /\ N.tx[u].updates = S.tx[u].updates
                         /\ N.tx[u].ps = Failing(S.tx[u].ps, I)
  BY <1>1, RefuseIs
<1> HIDE DEF N
<1>3. ASSUME NEW u \in Txn
      PROVE  /\ DOMAIN N.tx[u].ps = DOMAIN S.tx[u].ps
             /\ \A i \in DOMAIN S.tx[u].ps :
                  /\ i \notin I => N.tx[u].ps[i] = S.tx[u].ps[i]
                  /\ i \in I => /\ N.tx[u].ps[i].lock = "no" /\ N.tx[u].ps[i].res = "REJECT"
                                /\ N.tx[u].ps[i].out = S.tx[u].ps[i].out
                                /\ N.tx[u].ps[i].call = S.tx[u].ps[i].call
  <2>1. S.tx[u].ps \in [DOMAIN S.tx[u].ps -> PieceAt]
    BY <1>1, Zenon DEF Typed, TxnTyped
  <2>2. N.tx[u].ps = Failing(S.tx[u].ps, I)
    BY <1>2
  <2>3. QED
    BY <2>1, <2>2, FailingIs
<1>4. /\ LeftOf(S.locks, N.locks)
      /\ \A c \in Cell : \A n \in DOMAIN N.locks[c] : N.locks[c][n].pid \notin I
      /\ \A c \in Cell : \A k \in DOMAIN S.locks[c] : S.locks[c][k].pid \notin I =>
            \E n \in DOMAIN N.locks[c] : N.locks[c][n] = S.locks[c][k]
  <2>1. S.locks \in [Cell -> Seq(Request)]
    BY <1>1 DEF Typed
  <2>2. N.locks = WithoutPieces(S.locks, I)
    BY <1>2
  <2>3. QED
    BY <2>1, <2>2, WithoutIs
<1>5. Undisturbed(S, N)
  <2> SUFFICES ASSUME NEW c \in Cell, NEW n \in DOMAIN N.locks[c]
               PROVE  LET a == N.locks[c][n]
                      IN  /\ N.tx[a.txn].in = S.tx[a.txn].in /\ N.tx[a.txn].prepared = S.tx[a.txn].prepared
                          /\ DOMAIN N.tx[a.txn].ps = DOMAIN S.tx[a.txn].ps
                          /\ N.tx[a.txn].ps[a.pid].lock = S.tx[a.txn].ps[a.pid].lock
    BY Zenon DEF Undisturbed
  <2> DEFINE a == N.locks[c][n]
  <2>1. a.txn \in Txn
    BY <1>2, RequestFields DEF Typed
  <2>2. a.pid \notin I /\ a.pid \in DOMAIN S.tx[a.txn].ps
    <3>1. PICK k \in DOMAIN S.locks[c] : a = S.locks[c][k]
      BY <1>4 DEF LeftOf
    <3>2. QED
      BY <1>1, <1>4, <3>1, ZenonT(40) DEF Queued, QueuedAt
  <2> HIDE DEF a
  <2>3. QED
    BY <1>2, <1>3, <2>1, <2>2, Zenon DEF a
<1>6. Queued(N) /\ OneRequest(N) /\ Ordered(N, kind)
  BY <1>1, <1>4, <1>5, Thinned
<1>7. Asked(N, X \ I)
  <2> SUFFICES ASSUME NEW t \in Txn, NEW i \in DOMAIN N.tx[t].ps \ (X \ I),
                      ~N.tx[t].wound, N.tx[t].ps[i].lock \in {"wait", "yes"},
                      NEW l \in PieceOf(i).locks
               PROVE  \E k \in DOMAIN N.locks[l[1]] : N.locks[l[1]][k].pid = i
    BY DEF Asked
  <2>1. i \in DOMAIN S.tx[t].ps /\ i \notin I /\ i \notin X /\ ~S.tx[t].wound
        /\ S.tx[t].ps[i].lock \in {"wait", "yes"}
    BY <1>2, <1>3
  <2>2. PICK k \in DOMAIN S.locks[l[1]] : S.locks[l[1]][k].pid = i
    BY <1>1, <2>1 DEF Asked
  <2>3. l[1] \in Cell
    <3>1. i \in Ids(Piece)
      BY <1>1, <2>1, Zenon DEF Typed, TxnTyped
    <3>2. QED
      BY <3>1, PieceFields
  <2>4. QED
    BY <1>4, <2>1, <2>2, <2>3
<1>8. ASSUME NEW t \in Txn
      PROVE  RanTxn(N, t)
  <2>1. RanTxn(S, t)
    BY <1>1
  <2>2. ~N.tx[t].in => N.tx[t] = NoTx
    <3> SUFFICES ASSUME ~N.tx[t].in PROVE N.tx[t] = NoTx
      OBVIOUS
    <3>1. S.tx[t] = NoTx
      BY <1>2, <2>1 DEF RanTxn
    <3>2. TxnTyped(N.tx[t])
      BY <1>2 DEF Typed
    <3>3. QED
      BY <1>2, <1>3, <3>1, <3>2, NoTxFields, NoTxIs
  <2>3. \A i \in DOMAIN S.tx[t].ps : S.tx[t].ps[i].lock = "yes" => i \notin I
    BY DEF Waiting
  <2>4. ASSUME NEW i \in DOMAIN N.tx[t].ps
        PROVE  RanPiece(N, t, i)
    <3>1. i \in DOMAIN S.tx[t].ps /\ RanPiece(S, t, i)
      BY <1>3, <2>1 DEF RanTxn
    <3>2. \A e : Current(N, t, e) <=> Current(S, t, e)
      BY <1>2 DEF Current
    <3>3. CASE i \in I
      BY <1>2, <1>3, <3>1, <3>3, Zenon DEF RanPiece, Waiting
    <3>4. CASE i \notin I
      BY <1>2, <1>3, <3>1, <3>2, <3>4, ZenonT(40) DEF RanPiece
    <3>5. QED
      BY <3>3, <3>4
  <2>5. \A c \in N.tx[t].updates :
           \E i \in DOMAIN N.tx[t].ps : c \in PieceOf(i).writes /\ N.tx[t].ps[i].lock = "yes"
    BY <1>2, <1>3, <2>1, <2>3 DEF RanTxn
  <2>6. QED
    BY <2>2, <2>4, <2>5 DEF RanTxn
<1>9. ASSUME NEW u \in Txn
      PROVE  Evolves(S.tx[u], N.tx[u])
  BY <1>2, <1>3 DEF Evolves, Waiting
<1>10. QED
  BY <1>2, <1>6, <1>7, <1>8, <1>9 DEF SiteInvBut, Ran, N

-----------------------------------------------------------------------------
(* Proceed *)

\* read_column gives each cell of p the value of the row or the staged one.
LEMMA OutputIs ==
  ASSUME NEW S, Typed(S), NEW x, NEW p \in Piece
  PROVE  /\ Output(S, x, p) \in SUBSET (Cell \X Values)
         /\ \A e \in Output(S, x, p) :
               e[1] \in p.reads /\ (e[2] = S.val[e[1]] \/ (e[2] = p.txn /\ e[1] \in x.updates))
         /\ \A c \in p.reads : \E v \in Values : <<c, v>> \in Output(S, x, p)
<1>1. /\ p.reads \subseteq Cell /\ p.txn \in Values
      /\ \A c \in p.reads : S.val[c] \in Values
  BY PiecesAssumption DEF Typed, Values
<1> DEFINE v(c) == IF c \in x.updates THEN p.txn ELSE S.val[c]
<1>2. \A c \in p.reads : v(c) \in Values
  BY <1>1
<1>3. Output(S, x, p) = {<<c, v(c)>> : c \in p.reads}
  BY DEF Output
<1>4. \A c \in p.reads : v(c) = S.val[c] \/ (v(c) = p.txn /\ c \in x.updates)
  OBVIOUS
<1> HIDE DEF v
<1>5. QED
  BY <1>1, <1>2, <1>3, <1>4

\* get_2pl_succ_callback, for each piece of a transaction.
LEMMA GoOnIs ==
  ASSUME NEW S, Typed(S), NEW x, TxnTyped(x)
  PROVE  LET y == GoOn(S, x)
         IN  /\ TxnTyped(y)
             /\ y.in = x.in /\ y.wound = x.wound /\ y.prepared = x.prepared
             /\ x.wound => y.updates = x.updates
             /\ ~x.wound => y.updates = x.updates \cup UNION {PieceOf(i).writes : i \in Going(S, x)}
             /\ DOMAIN y.ps = DOMAIN x.ps
             /\ \A i \in DOMAIN x.ps :
                  /\ i \notin Going(S, x) => y.ps[i] = x.ps[i]
                  /\ i \in Going(S, x) =>
                       /\ y.ps[i].lock = "yes" /\ y.ps[i].call = x.ps[i].call
                       /\ y.ps[i].res = IF x.wound THEN "REJECT" ELSE "SUCCESS"
                       /\ y.ps[i].out = IF x.wound THEN {} ELSE Output(S, x, PieceOf(i))
<1> DEFINE y == GoOn(S, x)
           G == Going(S, x)
           U == IF x.wound THEN x.updates ELSE x.updates \cup UNION {PieceOf(i).writes : i \in G}
           ran(i) == [x.ps[i] EXCEPT !.lock = "yes", !.res = IF x.wound THEN "REJECT" ELSE "SUCCESS",
                                     !.out = IF x.wound THEN {} ELSE Output(S, x, PieceOf(i))]
           P == [i \in DOMAIN x.ps |-> IF i \in G THEN ran(i) ELSE x.ps[i]]
<1>1. y = [x EXCEPT !.updates = U, !.ps = P]
  BY DEF GoOn, Rejected
<1>2. ASSUME NEW i \in DOMAIN x.ps
      PROVE  /\ P[i] \in PieceAt
             /\ i \notin G => P[i] = x.ps[i]
             /\ i \in G => /\ P[i].lock = "yes" /\ P[i].call = x.ps[i].call
                           /\ P[i].res = IF x.wound THEN "REJECT" ELSE "SUCCESS"
                           /\ P[i].out = IF x.wound THEN {} ELSE Output(S, x, PieceOf(i))
  <2> DEFINE r == x.ps[i]
             o == IF x.wound THEN {} ELSE Output(S, x, PieceOf(i))
             e == IF x.wound THEN "REJECT" ELSE "SUCCESS"
  <2>1. r \in PieceAt
    BY DEF TxnTyped
  <2>2. PieceOf(i) \in Piece
    BY PieceFields DEF TxnTyped
  <2>3. o \in SUBSET (Cell \X Values) /\ e \in {"SUCCESS", "REJECT"}
    BY <2>2, OutputIs
  <2>4. P[i] = IF i \in G THEN [r EXCEPT !.lock = "yes", !.res = e, !.out = o] ELSE r
    BY Zenon
  <2> HIDE DEF r, o, e, P, G
  <2>5. i \in G => /\ P[i] \in PieceAt /\ P[i].lock = "yes" /\ P[i].call = r.call
                  /\ P[i].res = e /\ P[i].out = o
    BY <2>1, <2>3, <2>4, Zenon DEF PieceAt
  <2>6. i \notin G => P[i] = r
    BY <2>4
  <2>7. QED
    BY <2>1, <2>5, <2>6 DEF r, o, e
<1>3. P = [i \in DOMAIN P |-> P[i]] /\ DOMAIN P = DOMAIN x.ps
  BY Zenon
<1>4. /\ x.wound => U = x.updates
      /\ ~x.wound => U = x.updates \cup UNION {PieceOf(i).writes : i \in G}
  OBVIOUS
<1>5. U \subseteq Cell
  <2>1. x.updates \subseteq Cell
    BY DEF TxnTyped
  <2>2. \A i \in G : PieceOf(i).writes \subseteq Cell
    BY PieceFields DEF Going, TxnTyped
  <2> HIDE DEF G
  <2>3. QED
    BY <2>1, <2>2
<1> HIDE DEF y, U, P
<1>6. y = [in |-> x.in, wound |-> x.wound, prepared |-> x.prepared, updates |-> U, ps |-> P]
  BY <1>1, TxnUpdate, ZenonT(40)
<1> HIDE DEF ran, G
<1>7. /\ y.in = x.in /\ y.wound = x.wound /\ y.prepared = x.prepared /\ y.updates = U /\ y.ps = P
      /\ y = [in |-> y.in, wound |-> y.wound, prepared |-> y.prepared, updates |-> y.updates, ps |-> y.ps]
  BY <1>6
<1>8. P \in [DOMAIN P -> PieceAt]
  BY <1>2, <1>3
<1>9. TxnTyped(y)
  BY <1>3, <1>5, <1>7, <1>8 DEF TxnTyped
<1>10. QED
  BY <1>2, <1>3, <1>4, <1>7, <1>9 DEF y, G

\* get_2pl_succ_callback, for all transactions of a site.
LEMMA ProceedIs ==
  ASSUME NEW S, Typed(S)
  PROVE  LET N == Proceed(S)
         IN  /\ Typed(N) /\ N.locks = S.locks /\ N.val = S.val /\ N.ok = S.ok
             /\ \A u \in Txn : N.tx[u] = GoOn(S, S.tx[u])
<1> DEFINE N == Proceed(S)
           B == [t \in Txn |-> GoOn(S, S.tx[t])]
<1>1. N = [locks |-> S.locks, tx |-> B, val |-> S.val, ok |-> S.ok]
  BY SiteUpdate, Zenon DEF Proceed
<1>2. \A u \in Txn : B[u] = GoOn(S, S.tx[u]) /\ TxnTyped(B[u])
  BY GoOnIs DEF Typed
<1>3. B = [u \in Txn |-> B[u]]
  OBVIOUS
<1> HIDE DEF B, N
<1>4. N.locks = S.locks /\ N.tx = B /\ N.val = S.val /\ N.ok = S.ok
  BY <1>1
<1>5. Typed(N)
  BY <1>1, <1>2, <1>3, <1>4 DEF Typed
<1>6. QED
  BY <1>2, <1>4, <1>5 DEF N

\* Running every piece that has got its locks keeps the invariant of the site.
LEMMA ProceedInv ==
  ASSUME NEW S, NEW kind, SiteInv(S, kind)
  PROVE  /\ SiteInv(Proceed(S), kind)
         /\ \A u \in Txn : Evolves(S.tx[u], Proceed(S).tx[u])
<1> DEFINE N == Proceed(S)
           G(u) == Going(S, S.tx[u])
<1>1. /\ Typed(S) /\ Queued(S) /\ OneRequest(S) /\ Ordered(S, kind) /\ Asked(S, {})
      /\ \A u \in Txn : RanTxn(S, u)
  BY DEF SiteInv, SiteInvBut, Ran
<1>2. /\ Typed(N) /\ N.locks = S.locks /\ N.val = S.val
      /\ \A u \in Txn : N.tx[u] = GoOn(S, S.tx[u])
  BY <1>1, ProceedIs, ZenonT(40)
<1> HIDE DEF N
<1>3. ASSUME NEW u \in Txn
      PROVE  /\ N.tx[u].in = S.tx[u].in /\ N.tx[u].wound = S.tx[u].wound
             /\ N.tx[u].prepared = S.tx[u].prepared
             /\ S.tx[u].wound => N.tx[u].updates = S.tx[u].updates
             /\ ~S.tx[u].wound =>
                  N.tx[u].updates = S.tx[u].updates \cup UNION {PieceOf(i).writes : i \in G(u)}
             /\ DOMAIN N.tx[u].ps = DOMAIN S.tx[u].ps
             /\ \A i \in DOMAIN S.tx[u].ps :
                  /\ i \notin G(u) => N.tx[u].ps[i] = S.tx[u].ps[i]
                  /\ i \in G(u) =>
                       /\ N.tx[u].ps[i].lock = "yes" /\ N.tx[u].ps[i].call = S.tx[u].ps[i].call
                       /\ N.tx[u].ps[i].res = IF S.tx[u].wound THEN "REJECT" ELSE "SUCCESS"
                       /\ N.tx[u].ps[i].out = IF S.tx[u].wound THEN {}
                                              ELSE Output(S, S.tx[u], PieceOf(i))
  <2>1. TxnTyped(S.tx[u])
    BY <1>1 DEF Typed
  <2>2. N.tx[u] = GoOn(S, S.tx[u])
    BY <1>2
  <2>3. QED
    BY <1>1, <2>1, <2>2, GoOnIs
<1>4. \A u \in Txn : \A i \in G(u) : i \in DOMAIN S.tx[u].ps /\ S.tx[u].ps[i].lock = "wait" /\ HasLocks(S, i)
  BY DEF Going
<1> HIDE DEF G
<1>5. ASSUME NEW u \in Txn, NEW i \in DOMAIN S.tx[u].ps
      PROVE  /\ N.tx[u].ps[i].lock = "yes" <=> S.tx[u].ps[i].lock = "yes" \/ i \in G(u)
             /\ N.tx[u].ps[i].lock \in {"wait", "yes"} <=> S.tx[u].ps[i].lock \in {"wait", "yes"}
  <2>1. CASE i \in G(u)
    BY <1>3, <1>4, <2>1, ZenonT(40)
  <2>2. CASE i \notin G(u)
    BY <1>3, <2>2
  <2>3. QED
    BY <2>1, <2>2, ZenonT(40)
<1>6. Queued(N)
  <2> SUFFICES ASSUME NEW c \in Cell, NEW k \in DOMAIN S.locks[c]
               PROVE  QueuedAt(N, c, k)
    BY <1>2 DEF Queued
  <2> DEFINE a == S.locks[c][k]
  <2>1. a.txn \in Txn
    BY <1>1, RequestFields DEF Typed
  <2>2. QueuedAt(S, c, k)
    BY <1>1 DEF Queued
  <2>3. a.pid \in G(a.txn) => Held(S.locks[c], k)
    <3> SUFFICES ASSUME a.pid \in G(a.txn) PROVE Held(S.locks[c], k)
      OBVIOUS
    <3>1. HasLocks(S, a.pid)
      BY <1>4, <2>1
    <3>2. <<c, a.type>>[1] = c
      OBVIOUS
    <3>3. QED
      BY <2>2, <3>1, <3>2, Zenon DEF HasLocks, QueuedAt
  <2>4. N.locks[c][k] = a
    BY <1>2
  <2>5. /\ N.tx[a.txn].in = S.tx[a.txn].in /\ DOMAIN N.tx[a.txn].ps = DOMAIN S.tx[a.txn].ps
        /\ a.pid \in DOMAIN S.tx[a.txn].ps
    BY <1>3, <2>1, <2>2, Zenon DEF QueuedAt
  <2>6. /\ N.tx[a.txn].ps[a.pid].lock = "yes" <=> S.tx[a.txn].ps[a.pid].lock = "yes" \/ a.pid \in G(a.txn)
        /\ N.tx[a.txn].ps[a.pid].lock \in {"wait", "yes"} <=> S.tx[a.txn].ps[a.pid].lock \in {"wait", "yes"}
    BY <1>5, <2>1, <2>5, Zenon
  <2>7. QED
    BY <1>2, <2>2, <2>3, <2>4, <2>5, <2>6, Zenon DEF QueuedAt
<1>7. OneRequest(N) /\ Ordered(N, kind)
  <2>1. OneRequest(N)
    BY <1>1, <1>2 DEF OneRequest
  <2>2. ASSUME NEW c \in Cell, NEW j \in DOMAIN S.locks[c], NEW k \in DOMAIN S.locks[c], j < k,
               Against(S.locks[c][j], S.locks[c][k].type)
        PROVE  MayPrecede(N, kind, S.locks[c][j], S.locks[c][k])
    <3>1. MayPrecede(S, kind, S.locks[c][j], S.locks[c][k])
      BY <1>1, <2>2 DEF Ordered
    <3>2. S.locks[c][j].txn \in Txn
      BY <1>1, RequestFields DEF Typed
    <3>3. QED
      BY <1>3, <3>1, <3>2, Zenon DEF MayPrecede
  <2>3. QED
    BY <1>2, <2>1, <2>2 DEF Ordered
<1>8. Asked(N, {})
  <2> SUFFICES ASSUME NEW t \in Txn, NEW i \in DOMAIN N.tx[t].ps \ {},
                      ~N.tx[t].wound, N.tx[t].ps[i].lock \in {"wait", "yes"},
                      NEW l \in PieceOf(i).locks
               PROVE  \E k \in DOMAIN N.locks[l[1]] : N.locks[l[1]][k].pid = i
    BY DEF Asked
  <2>1. /\ i \in DOMAIN S.tx[t].ps \ {} /\ ~S.tx[t].wound
        /\ S.tx[t].ps[i].lock \in {"wait", "yes"}
    BY <1>3, <1>5
  <2>2. QED
    BY <1>1, <1>2, <2>1 DEF Asked
<1>9. ASSUME NEW t \in Txn
      PROVE  RanTxn(N, t)
  <2>1. RanTxn(S, t)
    BY <1>1
  <2>2. ~N.tx[t].in => N.tx[t] = NoTx
    <3> SUFFICES ASSUME ~N.tx[t].in PROVE N.tx[t] = NoTx
      OBVIOUS
    <3>1. S.tx[t] = NoTx
      BY <1>3, <2>1 DEF RanTxn
    <3>2. TxnTyped(N.tx[t])
      BY <1>2 DEF Typed
    <3>3. G(t) = {}
      BY <1>4, <3>1, NoTxFields, ZenonT(40)
    <3>4. QED
      BY <1>3, <3>1, <3>2, <3>3, NoTxFields, NoTxIs, ZenonT(40)
  <2>3. S.tx[t].updates \subseteq N.tx[t].updates
    BY <1>3
  <2>4. ASSUME NEW i \in DOMAIN N.tx[t].ps
        PROVE  RanPiece(N, t, i)
    <3>1. i \in DOMAIN S.tx[t].ps /\ RanPiece(S, t, i)
      BY <1>3, <2>1 DEF RanTxn
    <3>2. \A e : Current(S, t, e) => Current(N, t, e)
      BY <1>2, <2>3 DEF Current
    <3>3. CASE i \notin G(t)
      BY <1>2, <1>3, <2>3, <3>1, <3>2, <3>3, ZenonT(40) DEF RanPiece
    <3>4. CASE i \in G(t)
      <4> DEFINE p == PieceOf(i)
                 o == Output(S, S.tx[t], p)
      <4>1. p \in Piece /\ p.txn = t
        <5>1. i \in Ids(Piece)
          BY <1>1, <3>1, Zenon DEF Typed, TxnTyped
        <5>2. QED
          BY <3>1, <5>1, PieceFields DEF RanPiece
      <4>2. /\ \A e \in o : e[1] \in p.reads
            /\ \A e \in o : e[2] = S.val[e[1]] \/ (e[2] = t /\ e[1] \in S.tx[t].updates)
            /\ \A c \in p.reads : \E v \in Values : <<c, v>> \in o
        BY <1>1, <4>1, OutputIs, ZenonT(40)
      <4>3. /\ N.tx[t].ps[i].lock = "yes"
            /\ N.tx[t].ps[i].res = IF S.tx[t].wound THEN "REJECT" ELSE "SUCCESS"
            /\ N.tx[t].ps[i].out = IF S.tx[t].wound THEN {} ELSE o
        BY <1>3, <3>1, <3>4
      <4>4. ~S.tx[t].wound => p.writes \subseteq N.tx[t].updates
        BY <1>3, <3>4
      <4>5. \A e \in o : Current(N, t, e)
        BY <1>2, <2>3, <4>2 DEF Current
      <4>6. N.tx[t].wound = S.tx[t].wound
        BY <1>3
      <4> HIDE DEF p, o
      <4>7. PieceOf(i) = p
        BY DEF p
      <4>8. CASE S.tx[t].wound
        BY <4>1, <4>3, <4>6, <4>7, <4>8, ZenonT(40) DEF RanPiece
      <4>9. CASE ~S.tx[t].wound
        BY <4>1, <4>2, <4>3, <4>4, <4>5, <4>6, <4>7, <4>9, ZenonT(40) DEF RanPiece
      <4>10. QED
        BY <4>8, <4>9
    <3>5. QED
      BY <3>3, <3>4, ZenonT(40)
  <2>5. ASSUME NEW c \in N.tx[t].updates
        PROVE  \E i \in DOMAIN N.tx[t].ps : c \in PieceOf(i).writes /\ N.tx[t].ps[i].lock = "yes"
    <3>1. CASE c \in S.tx[t].updates
      BY <1>3, <1>5, <2>1, <3>1, ZenonT(40) DEF RanTxn
    <3>2. CASE c \notin S.tx[t].updates
      <4>1. PICK i \in G(t) : c \in PieceOf(i).writes
        BY <1>3, <2>5, <3>2
      <4>2. QED
        BY <1>3, <1>4, <4>1
    <3>3. QED
      BY <3>1, <3>2, ZenonT(40)
  <2>6. QED
    BY <2>2, <2>4, <2>5 DEF RanTxn
<1>10. ASSUME NEW u \in Txn
       PROVE  Evolves(S.tx[u], N.tx[u])
  <2>1. Idle(S.tx[u]) => G(u) = {}
    BY <1>4 DEF Idle
  <2>2. G(u) = {} => N.tx[u].updates = S.tx[u].updates
    <3> SUFFICES ASSUME G(u) = {} PROVE N.tx[u].updates = S.tx[u].updates
      OBVIOUS
    <3>1. UNION {PieceOf(i).writes : i \in G(u)} = {}
      OBVIOUS
    <3>2. CASE S.tx[u].wound
      BY <1>3, <3>2
    <3>3. CASE ~S.tx[u].wound
      <4>1. N.tx[u].updates = S.tx[u].updates \cup UNION {PieceOf(i).writes : i \in G(u)}
        BY <1>3, <3>3, Zenon
      <4>2. QED
        BY <3>1, <4>1
    <3>4. QED
      BY <3>2, <3>3
  <2>3. ASSUME NEW i \in DOMAIN S.tx[u].ps
        PROVE  /\ N.tx[u].ps[i].call = S.tx[u].ps[i].call
               /\ S.tx[u].ps[i].lock # "wait" => N.tx[u].ps[i] = S.tx[u].ps[i]
    BY <1>3, <1>4, ZenonT(40)
  <2>4. QED
    BY <1>3, <2>1, <2>2, <2>3, Zenon DEF Evolves
<1>11. QED
  BY <1>2, <1>6, <1>7, <1>8, <1>9, <1>10 DEF SiteInv, SiteInvBut, Ran, N

-----------------------------------------------------------------------------
(* Asking for locks *)

\* What the queue of c becomes.
AskedFor(L, M, p, c) ==
  \/ M[c] = L[c] /\ \A ty \in {"R", "W"} : <<c, ty>> \notin p.locks
  \/ \E r \in Request : /\ M[c] = Append(L[c], r) /\ r.txn = p.txn /\ r.pid = p.id
                        /\ <<c, r.type>> \in p.locks /\ (<<c, "W">> \in p.locks => r.type = "W")

\* reg_rw_lock adds one request for each column that the piece locks.
LEMMA AskingIs ==
  ASSUME NEW L \in [Cell -> Seq(Request)], NEW p \in Piece
  PROVE  /\ Asking(L, p) \in [Cell -> Seq(Request)]
         /\ \A c \in Cell : AskedFor(L, Asking(L, p), p, c)
<1> DEFINE r(ty) == [txn |-> p.txn, pid |-> p.id, type |-> ty]
           M == Asking(L, p)
<1>1. \A ty \in {"R", "W"} : /\ r(ty) \in Request /\ r(ty).txn = p.txn /\ r(ty).pid = p.id
                             /\ r(ty).type = ty
  <2>1. p.txn \in Txn /\ p.id \in Nat
    BY PiecesAssumption
  <2>2. QED
    BY <2>1 DEF Request
<1>2. /\ DOMAIN M = Cell /\ M = [c \in Cell |-> M[c]]
      /\ \A c \in Cell : M[c] = L[c] \o (IF <<c, "W">> \in p.locks THEN <<r("W")>>
                                         ELSE IF <<c, "R">> \in p.locks THEN <<r("R")>> ELSE <<>>)
  BY DEF Asking
<1> HIDE DEF r, M
<1>3. ASSUME NEW c \in Cell
      PROVE  M[c] \in Seq(Request) /\ AskedFor(L, M, p, c)
  <2>1. L[c] \in Seq(Request)
    OBVIOUS
  <2>2. \A ty \in {"R", "W"} : L[c] \o <<r(ty)>> = Append(L[c], r(ty)) /\ Append(L[c], r(ty)) \in Seq(Request)
    BY <1>1, <2>1
  <2>3. CASE <<c, "W">> \in p.locks
    <3>1. M[c] = Append(L[c], r("W"))
      BY <1>2, <2>2, <2>3, Zenon
    <3>2. QED
      BY <1>1, <2>2, <2>3, <3>1, Zenon DEF AskedFor
  <2>4. CASE <<c, "W">> \notin p.locks /\ <<c, "R">> \in p.locks
    <3>1. M[c] = Append(L[c], r("R"))
      BY <1>2, <2>2, <2>4, Zenon
    <3>2. QED
      BY <1>1, <2>2, <2>4, <3>1, Zenon DEF AskedFor
  <2>5. CASE <<c, "W">> \notin p.locks /\ <<c, "R">> \notin p.locks
    <3>1. M[c] = L[c] \o <<>>
      BY <1>2, <2>5, Zenon
    <3>2. M[c] = L[c]
      BY <2>1, <3>1
    <3>3. QED
      BY <2>1, <2>5, <3>2 DEF AskedFor
  <2>6. QED
    BY <2>3, <2>4, <2>5
<1>4. QED
  BY <1>2, <1>3, Zenon DEF M

\* A place of a queue of M that L has too, and the place of a request of p.
OldPlace(L, M, c, n) ==
  n \in DOMAIN L[c] /\ M[c][n] = L[c][n] /\ (Held(L[c], n) => Held(M[c], n))

NewPlace(L, M, p, c, n) ==
  /\ n = Len(L[c]) + 1 /\ M[c][n].txn = p.txn /\ M[c][n].pid = p.id /\ M[c][n].type \in {"R", "W"}
  /\ <<c, M[c][n].type>> \in p.locks /\ (<<c, "W">> \in p.locks => M[c][n].type = "W")

\* The places of a queue after the requests of p: the old ones and p's at the end.
LEMMA AskingPlaces ==
  ASSUME NEW L \in [Cell -> Seq(Request)], NEW p \in Piece, NEW M, M = Asking(L, p), NEW c \in Cell
  PROVE  /\ Len(L[c]) \in Nat /\ DOMAIN L[c] = 1 .. Len(L[c])
         /\ \A n \in DOMAIN M[c] : OldPlace(L, M, c, n) \/ NewPlace(L, M, p, c, n)
         /\ \A n \in DOMAIN L[c] : n \in DOMAIN M[c] /\ M[c][n] = L[c][n]
         /\ \A ty \in {"R", "W"} : <<c, ty>> \in p.locks =>
               Len(L[c]) + 1 \in DOMAIN M[c] /\ NewPlace(L, M, p, c, Len(L[c]) + 1)
<1> DEFINE q == L[c]
<1>1. q \in Seq(Request) /\ Len(q) \in Nat /\ DOMAIN q = 1 .. Len(q)
  OBVIOUS
<1>2. AskedFor(L, M, p, c)
  BY AskingIs
<1>3. CASE M[c] = L[c] /\ \A ty \in {"R", "W"} : <<c, ty>> \notin p.locks
  BY <1>1, <1>3 DEF OldPlace
<1>4. ASSUME NEW r \in Request, M[c] = Append(L[c], r), r.txn = p.txn, r.pid = p.id,
             <<c, r.type>> \in p.locks, <<c, "W">> \in p.locks => r.type = "W"
      PROVE  /\ \A n \in DOMAIN M[c] : OldPlace(L, M, c, n) \/ NewPlace(L, M, p, c, n)
             /\ \A n \in DOMAIN L[c] : n \in DOMAIN M[c] /\ M[c][n] = L[c][n]
             /\ Len(L[c]) + 1 \in DOMAIN M[c] /\ NewPlace(L, M, p, c, Len(L[c]) + 1)
  <2>1. r.type \in {"R", "W"}
    BY DEF Request
  <2> DEFINE F == Append(q, r)
  <2>2. /\ DOMAIN F = 1 .. Len(q) + 1
        /\ \A k \in 1 .. Len(q) : F[k] = q[k]
        /\ F[Len(q) + 1] = r
    BY <1>1
  <2>3. M[c] = F
    BY <1>4
  <2> HIDE DEF q, F
  <2>4. ASSUME NEW n \in 1 .. Len(q), Held(q, n)
        PROVE  Held(F, n)
    <3>1. \A k \in 1 .. n - 1 : k \in 1 .. Len(q)
      BY <1>1
    <3>2. QED
      BY <2>2, <2>4, <3>1 DEF Held
  <2>5. NewPlace(L, M, p, c, Len(L[c]) + 1)
    BY <1>4, <2>1, <2>2, <2>3, Zenon DEF NewPlace, q
  <2>6. \A n \in 1 .. Len(q) : OldPlace(L, M, c, n) /\ n \in 1 .. Len(q) + 1
    BY <1>1, <2>2, <2>3, <2>4 DEF OldPlace, q
  <2>7. \A n \in 1 .. Len(q) + 1 : n \in 1 .. Len(q) \/ n = Len(q) + 1
    BY <1>1
  <2>8. Len(q) + 1 \in 1 .. Len(q) + 1
    BY <1>1
  <2>9. QED
    BY <1>1, <2>2, <2>3, <2>5, <2>6, <2>7, <2>8 DEF q
<1>5. QED
  BY <1>1, <1>2, <1>3, <1>4, Zenon DEF AskedFor

\* What is ahead of the requests of p may be.
Behind(S, kind, p) ==
  \A c \in Cell, ty \in {"R", "W"} : \A k \in DOMAIN S.locks[c] :
     <<c, ty>> \in p.locks /\ Against(S.locks[c][k], ty) => MayPrecede(S, kind, S.locks[c][k], p)

Unqueued(S, i) == \A c \in Cell : \A k \in DOMAIN S.locks[c] : S.locks[c][k].pid # i

\* The piece waits, and has not asked for its locks.
Entered(S, p) ==
  /\ S.tx[p.txn].in /\ p.id \in DOMAIN S.tx[p.txn].ps /\ S.tx[p.txn].ps[p.id].lock = "wait"
  /\ Unqueued(S, p.id)

\* Adding the requests of p keeps the invariant when p may be behind what it meets.
LEMMA AskInv ==
  ASSUME NEW W, NEW kind, NEW p \in Piece, SiteInvBut(W, kind, {p.id}), Entered(W, p), Behind(W, kind, p)
  PROVE  LET N == [W EXCEPT !.locks = Asking(@, p)]
         IN  SiteInv(N, kind) /\ N.tx = W.tx /\ N.val = W.val /\ N.ok = W.ok
<1> DEFINE N == [W EXCEPT !.locks = Asking(@, p)]
<1>1. /\ Typed(W) /\ Queued(W) /\ OneRequest(W) /\ Ordered(W, kind) /\ Asked(W, {p.id}) /\ Ran(W)
  BY DEF SiteInvBut
<1>2. W.locks \in [Cell -> Seq(Request)]
  BY <1>1 DEF Typed
<1>3. N = [locks |-> Asking(W.locks, p), tx |-> W.tx, val |-> W.val, ok |-> W.ok]
  BY <1>1, SiteUpdate, Zenon
<1>4. N.locks = Asking(W.locks, p) /\ N.tx = W.tx /\ N.val = W.val /\ N.ok = W.ok
  BY <1>3
<1> HIDE DEF N
<1>5. N.locks \in [Cell -> Seq(Request)]
  BY <1>2, <1>4, AskingIs
<1>6. Typed(N)
  BY <1>1, <1>3, <1>4, <1>5, ZenonT(40) DEF Typed
<1>7. ASSUME NEW c \in Cell
      PROVE  /\ Len(W.locks[c]) \in Nat /\ DOMAIN W.locks[c] = 1 .. Len(W.locks[c])
             /\ \A n \in DOMAIN N.locks[c] :
                   OldPlace(W.locks, N.locks, c, n) \/ NewPlace(W.locks, N.locks, p, c, n)
             /\ \A n \in DOMAIN W.locks[c] : n \in DOMAIN N.locks[c] /\ N.locks[c][n] = W.locks[c][n]
             /\ \A ty \in {"R", "W"} : <<c, ty>> \in p.locks =>
                   /\ Len(W.locks[c]) + 1 \in DOMAIN N.locks[c]
                   /\ NewPlace(W.locks, N.locks, p, c, Len(W.locks[c]) + 1)
  BY <1>2, <1>4, AskingPlaces
<1>8. p.id \in Ids(Piece) /\ PieceOf(p.id) = p
  BY PieceOfId
<1>9. Queued(N)
  <2> SUFFICES ASSUME NEW c \in Cell, NEW n \in DOMAIN N.locks[c]
               PROVE  QueuedAt(N, c, n)
    BY DEF Queued
  <2>1. CASE OldPlace(W.locks, N.locks, c, n)
    <3>1. QueuedAt(W, c, n)
      BY <1>1, <2>1, Zenon DEF Queued, OldPlace
    <3>2. QED
      BY <1>4, <2>1, <3>1, Zenon DEF QueuedAt, OldPlace
  <2>2. CASE NewPlace(W.locks, N.locks, p, c, n)
    BY <1>4, <1>8, <2>2, Zenon DEF QueuedAt, NewPlace, Entered
  <2>3. QED
    BY <1>7, <2>1, <2>2, Zenon
<1>10. OneRequest(N)
  <2> SUFFICES ASSUME NEW c \in Cell, NEW j \in DOMAIN N.locks[c], NEW k \in DOMAIN N.locks[c],
                      N.locks[c][j].pid = N.locks[c][k].pid
               PROVE  j = k
    BY DEF OneRequest
  <2>1. \A n \in DOMAIN N.locks[c] : OldPlace(W.locks, N.locks, c, n) \/ NewPlace(W.locks, N.locks, p, c, n)
    BY <1>7, ZenonT(40)
  <2>2. CASE OldPlace(W.locks, N.locks, c, j) /\ OldPlace(W.locks, N.locks, c, k)
    BY <1>1, <2>2 DEF OldPlace, OneRequest
  <2>3. CASE NewPlace(W.locks, N.locks, p, c, j) /\ NewPlace(W.locks, N.locks, p, c, k)
    BY <2>3, Zenon DEF NewPlace
  <2>4. ASSUME NEW m \in DOMAIN N.locks[c], NEW n \in DOMAIN N.locks[c],
               OldPlace(W.locks, N.locks, c, m), NewPlace(W.locks, N.locks, p, c, n)
        PROVE  N.locks[c][m].pid # N.locks[c][n].pid
    BY <2>4, ZenonT(40) DEF OldPlace, NewPlace, Entered, Unqueued
  <2>5. QED
    BY <2>1, <2>2, <2>3, <2>4
<1>11. Ordered(N, kind)
  <2> SUFFICES ASSUME NEW c \in Cell, NEW j \in DOMAIN N.locks[c], NEW k \in DOMAIN N.locks[c], j < k,
                      Against(N.locks[c][j], N.locks[c][k].type)
               PROVE  MayPrecede(N, kind, N.locks[c][j], N.locks[c][k])
    BY DEF Ordered
  <2>1. \A n \in DOMAIN N.locks[c] : OldPlace(W.locks, N.locks, c, n) \/ NewPlace(W.locks, N.locks, p, c, n)
    BY <1>7, ZenonT(40)
  <2>2. OldPlace(W.locks, N.locks, c, j)
    <3>1. j \in 1 .. Len(N.locks[c]) /\ k \in 1 .. Len(N.locks[c])
      BY <1>5, RequestFields, ZenonT(40)
    <3>2. SUFFICES ASSUME NewPlace(W.locks, N.locks, p, c, j) PROVE FALSE
      BY <2>1
    <3>3. j = Len(W.locks[c]) + 1
      BY <3>2, Zenon DEF NewPlace
    <3>4. k \in 1 .. Len(W.locks[c]) \/ k = Len(W.locks[c]) + 1
      BY <1>7, <2>1, ZenonT(40) DEF OldPlace, NewPlace
    <3>5. QED
      BY <1>7, <3>3, <3>4
  <2>3. CASE OldPlace(W.locks, N.locks, c, k)
    BY <1>1, <1>4, <2>2, <2>3, Zenon DEF Ordered, OldPlace, MayPrecede
  <2>4. CASE NewPlace(W.locks, N.locks, p, c, k)
    <3>1. MayPrecede(W, kind, N.locks[c][j], p)
      BY <2>2, <2>4, Zenon DEF Behind, OldPlace, NewPlace
    <3>2. QED
      BY <1>4, <2>4, <3>1, Zenon DEF MayPrecede, NewPlace
  <2>5. QED
    BY <2>1, <2>3, <2>4
<1>12. Asked(N, {})
  <2> SUFFICES ASSUME NEW t \in Txn, NEW i \in DOMAIN N.tx[t].ps,
                      ~N.tx[t].wound, N.tx[t].ps[i].lock \in {"wait", "yes"}, NEW l \in PieceOf(i).locks
               PROVE  \E k \in DOMAIN N.locks[l[1]] : N.locks[l[1]][k].pid = i
    BY DEF Asked
  <2>1. i \in Ids(Piece)
    BY <1>6, Zenon DEF Typed, TxnTyped
  <2>2. l[1] \in Cell /\ l[2] \in {"R", "W"} /\ l = <<l[1], l[2]>>
    BY <2>1, PieceFields
  <2>3. CASE i = p.id
    <3>1. <<l[1], l[2]>> \in p.locks
      BY <1>8, <2>2, <2>3
    <3>2. QED
      BY <1>7, <2>2, <2>3, <3>1, Zenon DEF NewPlace
  <2>4. CASE i # p.id
    <3>1. PICK k \in DOMAIN W.locks[l[1]] : W.locks[l[1]][k].pid = i
      BY <1>1, <1>4, <2>4, Zenon DEF Asked
    <3>2. QED
      BY <1>7, <2>2, <3>1, Zenon
  <2>5. QED
    BY <2>3, <2>4
<1>13. Ran(N)
  <2>1. \A t : \A i : RanPiece(N, t, i) <=> RanPiece(W, t, i)
    BY <1>4 DEF RanPiece, Current
  <2>2. ASSUME NEW t \in Txn PROVE RanTxn(N, t)
    <3>1. RanTxn(W, t)
      BY <1>1, Zenon DEF Ran
    <3>2. N.tx[t] = W.tx[t]
      BY <1>4, Zenon
    <3> HIDE DEF N
    <3>3. QED
      BY <2>1, <3>1, <3>2, ZenonT(40) DEF RanTxn
  <2>3. QED
    BY <2>2, ZenonT(40) DEF Ran
<1>14. QED
  BY <1>4, <1>6, <1>9, <1>10, <1>11, <1>12, <1>13 DEF SiteInv, SiteInvBut, N

-----------------------------------------------------------------------------
(* Taking locks away *)

\* Granted requests m of T lose their locks and wound their transactions, none
\* of which is prepared.
Taking(R, T) ==
  [R EXCEPT !.tx = [u \in Txn |-> [R.tx[u] EXCEPT !.wound = R.tx[u].wound \/ \E m \in T : m.a.txn = u]],
            !.locks = [c \in Cell |-> Kept(R.locks[c], {k \in DOMAIN R.locks[c] :
                          ~\E m \in T : m.c = c /\ m.a.pid = R.locks[c][k].pid})]]

Takable(R, m) ==
  m.a.txn \in Txn /\ R.tx[m.a.txn].in /\ ~R.tx[m.a.txn].prepared /\ PieceOf(m.a.pid).txn = m.a.txn

\* Taking locks from transactions that are not prepared and wounding them keeps
\* the invariant.
LEMMA TakeInv ==
  ASSUME NEW R, NEW kind, NEW X, NEW T, SiteInvBut(R, kind, X), \A m \in T : Takable(R, m)
  PROVE  LET W == Taking(R, T)
         IN  /\ SiteInvBut(W, kind, X) /\ LeftOf(R.locks, W.locks)
             /\ \A c \in Cell : \A n \in DOMAIN W.locks[c] :
                   ~\E m \in T : m.c = c /\ m.a.pid = W.locks[c][n].pid
             /\ W.val = R.val /\ W.ok = R.ok
             /\ \A u \in Txn : W.tx[u].ps = R.tx[u].ps /\ Evolves(R.tx[u], W.tx[u])
<1> DEFINE W == Taking(R, T)
           wounded(u) == R.tx[u].wound \/ \E m \in T : m.a.txn = u
           B == [u \in Txn |-> [R.tx[u] EXCEPT !.wound = wounded(u)]]
           K == [c \in Cell |-> {k \in DOMAIN R.locks[c] :
                                   ~\E m \in T : m.c = c /\ m.a.pid = R.locks[c][k].pid}]
           A == [c \in Cell |-> Kept(R.locks[c], K[c])]
<1>1. /\ Typed(R) /\ Queued(R) /\ OneRequest(R) /\ Ordered(R, kind) /\ Asked(R, X)
      /\ \A u \in Txn : RanTxn(R, u)
  BY DEF SiteInvBut, Ran
<1>2. W = [R EXCEPT !.tx = B, !.locks = A]
  BY Zenon DEF Taking
<1>3. W = [locks |-> A, tx |-> B, val |-> R.val, ok |-> R.ok]
  <2>1. [R EXCEPT !.tx = B, !.locks = A] = [R EXCEPT !.locks = A, !.tx = B]
    BY <1>1, Zenon DEF Typed
  <2> HIDE DEF W, A, B
  <2>2. QED
    BY <1>1, <1>2, <2>1, SiteUpdate, Zenon
<1>4. B = [u \in Txn |-> B[u]] /\ \A u \in Txn : B[u] = [R.tx[u] EXCEPT !.wound = wounded(u)]
  OBVIOUS
<1>5. /\ \A c \in Cell : K[c] \in SUBSET DOMAIN R.locks[c]
      /\ \A c \in Cell : \A k \in DOMAIN R.locks[c] :
            k \in K[c] <=> ~\E m \in T : m.c = c /\ m.a.pid = R.locks[c][k].pid
  OBVIOUS
<1>6. \A u \in Txn : /\ wounded(u) \in BOOLEAN
                     /\ R.tx[u].wound => wounded(u)
                     /\ \A m \in T : wounded(m.a.txn)
                     /\ wounded(u) => R.tx[u].wound \/ \E m \in T : m.a.txn = u
  BY <1>1 DEF Typed, TxnTyped
<1>7. A = [c \in Cell |-> Kept(R.locks[c], K[c])]
  OBVIOUS
<1> HIDE DEF W, A, B, K, wounded
<1>8. W.locks = A /\ W.tx = B /\ W.val = R.val /\ W.ok = R.ok
  BY <1>3, ZenonT(40)
<1>9. ASSUME NEW u \in Txn
      PROVE  /\ TxnTyped(W.tx[u]) /\ W.tx[u].wound = wounded(u) /\ W.tx[u].in = R.tx[u].in
             /\ W.tx[u].prepared = R.tx[u].prepared /\ W.tx[u].updates = R.tx[u].updates
             /\ W.tx[u].ps = R.tx[u].ps
  <2> DEFINE x == R.tx[u]
  <2>1. TxnTyped(x)
    BY <1>1 DEF Typed
  <2>2. W.tx[u] = [x EXCEPT !.wound = wounded(u)]
    BY <1>4, <1>8
  <2> HIDE DEF x
  <2>3. W.tx[u] = [in |-> x.in, wound |-> wounded(u), prepared |-> x.prepared, updates |-> x.updates,
                   ps |-> x.ps]
    BY <2>1, <2>2, TxnUpdate, Zenon
  <2>4. wounded(u) \in BOOLEAN
    BY <1>6
  <2>5. QED
    BY <2>1, <2>3, <2>4 DEF TxnTyped, x
<1>10. R.locks \in [Cell -> Seq(Request)]
  BY <1>1 DEF Typed
<1>11. LeftOf(R.locks, W.locks) /\ JustThose(R.locks, K, W.locks)
  <2>1. KeptAt(R.locks, K, W.locks)
    BY <1>5, <1>7, <1>8, Zenon DEF KeptAt
  <2>2. QED
    BY <1>10, <2>1, KeptLeft
<1>12. Typed(W)
  <2>1. W.locks \in [Cell -> Seq(Request)]
    BY <1>11 DEF LeftOf
  <2>2. QED
    BY <1>1, <1>3, <1>4, <1>8, <1>9, <2>1, ZenonT(40) DEF Typed
<1>13. Undisturbed(R, W)
  <2>1. \A c \in Cell : \A n \in DOMAIN W.locks[c] : W.locks[c][n].txn \in Txn
    BY <1>12, RequestFields DEF Typed
  <2>2. QED
    BY <1>9, <2>1, Zenon DEF Undisturbed
<1>14. Queued(W) /\ OneRequest(W) /\ Ordered(W, kind)
  BY <1>1, <1>11, <1>13, Thinned
<1>15. ASSUME NEW u \in Txn
       PROVE  Evolves(R.tx[u], W.tx[u])
  <2>1. R.tx[u].prepared => wounded(u) = R.tx[u].wound
    BY <1>1, <1>6, Zenon DEF Takable, Typed, TxnTyped
  <2>2. QED
    BY <1>6, <1>9, <2>1, Zenon DEF Evolves
<1>16. Asked(W, X)
  <2> SUFFICES ASSUME NEW t \in Txn, NEW i \in DOMAIN W.tx[t].ps \ X,
                      ~W.tx[t].wound, W.tx[t].ps[i].lock \in {"wait", "yes"}, NEW l \in PieceOf(i).locks
               PROVE  \E k \in DOMAIN W.locks[l[1]] : W.locks[l[1]][k].pid = i
    BY DEF Asked
  <2>1. /\ i \in DOMAIN R.tx[t].ps \ X /\ ~R.tx[t].wound /\ ~wounded(t)
        /\ R.tx[t].ps[i].lock \in {"wait", "yes"}
    BY <1>6, <1>9
  <2>2. PICK k \in DOMAIN R.locks[l[1]] : R.locks[l[1]][k].pid = i
    BY <1>1, <2>1, Zenon DEF Asked
  <2>3. l[1] \in Cell /\ PieceOf(i).txn = t
    <3>1. i \in Ids(Piece)
      BY <1>1, <2>1, ZenonT(40) DEF Typed, TxnTyped
    <3>2. PieceOf(i).txn = t
      BY <1>1, <2>1, ZenonT(40) DEF RanTxn, RanPiece
    <3>3. PieceOf(i).locks \subseteq Cell \X {"R", "W"}
      BY <3>1, PieceFields, ZenonT(40)
    <3>4. QED
      BY <3>2, <3>3
  <2>4. ~\E m \in T : m.a.pid = i
    BY <1>6, <2>1, <2>3, ZenonT(40) DEF Takable
  <2>5. k \in K[l[1]]
    BY <1>5, <2>2, <2>3, <2>4
  <2>6. QED
    BY <1>11, <2>2, <2>3, <2>5, ZenonT(40) DEF JustThose
<1>17. ASSUME NEW t \in Txn
       PROVE  RanTxn(W, t)
  <2>1. RanTxn(R, t)
    BY <1>1
  <2>2. ~W.tx[t].in => W.tx[t] = NoTx
    <3> SUFFICES ASSUME ~W.tx[t].in PROVE W.tx[t] = NoTx
      OBVIOUS
    <3>1. R.tx[t] = NoTx /\ ~R.tx[t].in
      BY <1>9, <2>1 DEF RanTxn
    <3>2. ~wounded(t)
      BY <1>6, <3>1, NoTxFields DEF Takable
    <3>3. QED
      BY <1>9, <3>1, <3>2, NoTxFields, NoTxIs
  <2>3. ASSUME NEW i \in DOMAIN W.tx[t].ps
        PROVE  RanPiece(W, t, i)
    <3>1. i \in DOMAIN R.tx[t].ps /\ RanPiece(R, t, i) /\ (R.tx[t].wound => W.tx[t].wound)
      BY <1>6, <1>9, <2>1, ZenonT(40) DEF RanTxn
    <3>2. \A e : Current(W, t, e) <=> Current(R, t, e)
      BY <1>8, <1>9 DEF Current
    <3>3. QED
      BY <1>9, <3>1, <3>2, Zenon DEF RanPiece
  <2>4. QED
    BY <1>9, <2>1, <2>2, <2>3, Zenon DEF RanTxn
<1>18. SiteInvBut(W, kind, X)
  BY <1>12, <1>14, <1>16, <1>17, ZenonT(40) DEF SiteInvBut, Ran
<1>19. \A c \in Cell : \A n \in DOMAIN W.locks[c] : ~\E m \in T : m.c = c /\ m.a.pid = W.locks[c][n].pid
  <2> SUFFICES ASSUME NEW c \in Cell, NEW n \in DOMAIN W.locks[c]
               PROVE  ~\E m \in T : m.c = c /\ m.a.pid = W.locks[c][n].pid
    BY Zenon
  <2>1. PICK k \in K[c] : W.locks[c][n] = R.locks[c][k]
    BY <1>11 DEF JustThose
  <2>2. k \in DOMAIN R.locks[c]
    BY <1>5, Zenon
  <2>3. QED
    BY <1>5, <2>1, <2>2
<1>20. QED
  BY <1>8, <1>9, <1>11, <1>15, <1>18, <1>19, Zenon DEF W

\* What p's requests meet.
MetPlaces(S, p, met) ==
  /\ \A m \in met : m.c \in Cell /\ m.k \in DOMAIN S.locks[m.c] /\ m.a = S.locks[m.c][m.k]
  /\ \A c \in Cell, ty \in {"R", "W"} : \A k \in DOMAIN S.locks[c] :
        <<c, ty>> \in p.locks /\ Against(S.locks[c][k], ty) =>
           \E m \in met : m.c = c /\ m.k = k /\ m.a = S.locks[c][k]

\* Met gives the requests that are against one of p's.
LEMMA MetIs ==
  ASSUME NEW S, NEW p \in Piece, NEW met, met = Met(S, p)
  PROVE  MetPlaces(S, p, met)
<1> DEFINE E(l) == {[c |-> l[1], k |-> k, a |-> S.locks[l[1]][k]] :
                      k \in {j \in DOMAIN S.locks[l[1]] : Against(S.locks[l[1]][j], l[2])}}
<1>1. met = UNION {E(l) : l \in p.locks}
  BY DEF Met
<1>2. \A l \in p.locks : l[1] \in Cell /\ l[2] \in {"R", "W"} /\ l = <<l[1], l[2]>>
  BY PiecesAssumption
<1>3. ASSUME NEW l, NEW m \in E(l)
      PROVE  m.c = l[1] /\ m.k \in DOMAIN S.locks[l[1]] /\ m.a = S.locks[m.c][m.k] /\ Against(m.a, l[2])
  OBVIOUS
<1>4. ASSUME NEW l, NEW k \in DOMAIN S.locks[l[1]], Against(S.locks[l[1]][k], l[2])
      PROVE  \E m \in E(l) : m.c = l[1] /\ m.k = k /\ m.a = S.locks[l[1]][k]
  <2> DEFINE m == [c |-> l[1], k |-> k, a |-> S.locks[l[1]][k]]
  <2>1. m \in E(l) /\ m.c = l[1] /\ m.k = k /\ m.a = S.locks[l[1]][k]
    BY <1>4
  <2>2. QED
    BY <2>1, Zenon
<1> HIDE DEF E
<1>5. ASSUME NEW m \in met
      PROVE  m.c \in Cell /\ m.k \in DOMAIN S.locks[m.c] /\ m.a = S.locks[m.c][m.k]
  <2>1. PICK l \in p.locks : m \in E(l)
    BY <1>1
  <2>2. QED
    BY <1>2, <1>3, <2>1
<1>6. ASSUME NEW c \in Cell, NEW ty \in {"R", "W"}, NEW k \in DOMAIN S.locks[c],
             <<c, ty>> \in p.locks /\ Against(S.locks[c][k], ty)
      PROVE  \E m \in met : m.c = c /\ m.k = k /\ m.a = S.locks[c][k]
  <2> DEFINE l == <<c, ty>>
  <2>1. l[1] = c /\ l[2] = ty
    OBVIOUS
  <2>2. \E m \in E(l) : m.c = c /\ m.k = k /\ m.a = S.locks[c][k]
    BY <1>4, <1>6, <2>1, Zenon
  <2>3. QED
    BY <1>1, <1>6, <2>2
<1>7. QED
  BY <1>5, <1>6, Zenon DEF MetPlaces

Meets(S, p, c, ty, k) ==
  /\ c \in Cell /\ ty \in {"R", "W"} /\ k \in DOMAIN S.locks[c]
  /\ <<c, ty>> \in p.locks /\ Against(S.locks[c][k], ty)

\* Each request against one of p's is among those p meets.
LEMMA MetAt ==
  ASSUME NEW S, NEW p, NEW met, MetPlaces(S, p, met), NEW c, NEW ty, NEW k, Meets(S, p, c, ty, k)
  PROVE  \E m \in met : m.c = c /\ m.k = k /\ m.a = S.locks[c][k]
<1> DEFINE P(d, e, j) == \E m \in met : m.c = d /\ m.k = j /\ m.a = S.locks[d][j]
           A(d, e, j) == <<d, e>> \in p.locks /\ Against(S.locks[d][j], e)
<1>1. \A d \in Cell, e \in {"R", "W"} : \A j \in DOMAIN S.locks[d] : A(d, e, j) => P(d, e, j)
  BY Zenon DEF MetPlaces
<1>2. A(c, ty, k) /\ c \in Cell /\ ty \in {"R", "W"} /\ k \in DOMAIN S.locks[c]
  BY DEF Meets
<1> HIDE DEF P, A
<1>3. P(c, ty, k)
  BY <1>1, <1>2
<1>4. QED
  BY <1>3 DEF P

\* The callback of init_piece (wound-die) keeps the invariant and leaves p behind
\* older and prepared transactions only.
LEMMA WoundInv ==
  ASSUME NEW S, NEW p \in Piece, SiteInvBut(S, "wound_die", {p.id}), Entered(S, p)
  PROVE  LET W == Wounding(S, p.txn, Met(S, p))
         IN  /\ SiteInvBut(W, "wound_die", {p.id}) /\ Entered(W, p) /\ Behind(W, "wound_die", p)
             /\ W.val = S.val /\ W.ok = S.ok
             /\ \A u \in Txn : Evolves(S.tx[u], W.tx[u])
<1> DEFINE met     == Met(S, p)
           t       == p.txn
           younger == {m \in met : m.a.txn >= t}
           waiting == {m.a.pid : m \in {n \in younger : ~Held(S.locks[n.c], n.k)}}
           taken   == {m \in younger : Held(S.locks[m.c], m.k) /\ ~S.tx[m.a.txn].prepared}
           R       == Refuse(S, waiting)
           W       == Wounding(S, t, met)
<1>1. W = Taking(R, taken)
  BY DEF Wounding, Taking
<1>2. MetPlaces(S, p, met)
  BY MetIs
<1>3. \A m \in met : /\ m.a.txn >= t /\ ~Held(S.locks[m.c], m.k) => m.a.pid \in waiting
                     /\ m.a.txn >= t /\ Held(S.locks[m.c], m.k) => m \in taken \/ S.tx[m.a.txn].prepared
  OBVIOUS
<1>4. /\ \A i \in waiting : \E m \in met : m.a.pid = i /\ ~Held(S.locks[m.c], m.k)
      /\ \A m \in taken : m \in met /\ ~S.tx[m.a.txn].prepared
  OBVIOUS
<1> HIDE DEF met, younger, waiting, taken, R, W
<1>5. /\ Typed(S) /\ Queued(S) /\ \A u \in Txn : RanTxn(S, u)
  BY DEF SiteInvBut, Ran
<1>6. S.locks \in [Cell -> Seq(Request)]
  BY <1>5 DEF Typed
<1>7. ASSUME NEW m \in met
      PROVE  /\ QueuedAt(S, m.c, m.k) /\ m.a = S.locks[m.c][m.k]
             /\ m.a.txn \in Txn /\ m.a.txn \in Nat /\ m.a.pid # p.id
  <2>1. m.c \in Cell /\ m.k \in DOMAIN S.locks[m.c] /\ m.a = S.locks[m.c][m.k]
    BY <1>2, ZenonT(40) DEF MetPlaces
  <2>2. m.a.txn \in Txn /\ m.a.txn \in Nat
    BY <1>6, <2>1, RequestFields, ZenonT(40)
  <2>3. QED
    BY <1>5, <2>1, <2>2, ZenonT(40) DEF Queued, Entered, Unqueued
<1>8. p.id \notin waiting
  BY <1>4, <1>7
<1>9. Waiting(S, waiting)
  <2> SUFFICES ASSUME NEW u \in Txn, NEW i \in DOMAIN S.tx[u].ps, i \in waiting
               PROVE  S.tx[u].ps[i].lock = "wait"
    BY DEF Waiting
  <2>1. PICK m \in met : m.a.pid = i /\ ~Held(S.locks[m.c], m.k)
    BY <1>4
  <2>2. QueuedAt(S, m.c, m.k) /\ m.a = S.locks[m.c][m.k]
    BY <1>7
  <2>3. m.a.txn = u
    <3>1. RanPiece(S, u, i)
      BY <1>5, Zenon DEF RanTxn
    <3>2. PieceOf(i).txn = u
      BY <3>1, Zenon DEF RanPiece
    <3>3. QED
      BY <2>1, <2>2, <3>2, Zenon DEF QueuedAt
  <2>4. QED
    BY <2>1, <2>2, <2>3, Zenon DEF QueuedAt
<1>10. SiteInvBut(R, "wound_die", {p.id}) /\ \A u \in Txn : Evolves(S.tx[u], R.tx[u])
  <2>1. {p.id} \ waiting = {p.id}
    BY <1>8
  <2>2. /\ SiteInvBut(R, "wound_die", {p.id} \ waiting)
        /\ \A u \in Txn : Evolves(S.tx[u], R.tx[u])
    BY <1>9, RefuseInv, ZenonT(40) DEF R
  <2>3. QED
    BY <2>1, <2>2
<1>11. /\ R.locks = WithoutPieces(S.locks, waiting) /\ R.val = S.val /\ R.ok = S.ok
       /\ \A u \in Txn : /\ R.tx[u].in = S.tx[u].in /\ R.tx[u].prepared = S.tx[u].prepared
                          /\ R.tx[u].ps = Failing(S.tx[u].ps, waiting)
  BY <1>5, RefuseIs DEF R
<1>12. ASSUME NEW m \in taken
       PROVE  Takable(R, m)
  <2>1. m \in met /\ ~S.tx[m.a.txn].prepared
    BY <1>4, ZenonT(40)
  <2>2. QED
    BY <1>7, <1>11, <2>1, Zenon DEF QueuedAt, Takable
<1>13. /\ SiteInvBut(W, "wound_die", {p.id}) /\ LeftOf(R.locks, W.locks)
       /\ \A c \in Cell : \A n \in DOMAIN W.locks[c] :
             ~\E m \in taken : m.c = c /\ m.a.pid = W.locks[c][n].pid
       /\ W.val = R.val /\ W.ok = R.ok
       /\ \A u \in Txn : W.tx[u].ps = R.tx[u].ps /\ Evolves(R.tx[u], W.tx[u])
  BY <1>1, <1>10, <1>12, TakeInv
<1>14. \A u \in Txn : Evolves(S.tx[u], W.tx[u])
  BY <1>10, <1>13, EvolvesTrans, ZenonT(40)
<1>15. /\ LeftOf(S.locks, R.locks)
       /\ \A c \in Cell : \A n \in DOMAIN R.locks[c] : R.locks[c][n].pid \notin waiting
  BY <1>6, <1>11, WithoutIs
<1>16. ASSUME NEW c \in Cell, NEW n \in DOMAIN W.locks[c]
       PROVE  /\ \E j \in DOMAIN S.locks[c] : W.locks[c][n] = S.locks[c][j]
              /\ W.locks[c][n].pid \notin waiting
  <2>1. PICK k \in DOMAIN R.locks[c] : W.locks[c][n] = R.locks[c][k]
    BY <1>13 DEF LeftOf
  <2>2. PICK j \in DOMAIN S.locks[c] : R.locks[c][k] = S.locks[c][j]
    BY <1>15, ZenonT(40) DEF LeftOf
  <2>3. QED
    BY <1>15, <2>1, <2>2, ZenonT(40)
<1>17. Entered(W, p)
  <2>1. Unqueued(W, p.id)
    BY <1>16 DEF Entered, Unqueued
  <2>2. t \in Txn
    BY PiecesAssumption
  <2>3. S.tx[t].ps \in [DOMAIN S.tx[t].ps -> PieceAt]
    BY <1>5, <2>2, ZenonT(40) DEF Typed, TxnTyped
  <2>4. p.id \in DOMAIN W.tx[t].ps /\ W.tx[t].ps[p.id] = S.tx[t].ps[p.id]
    BY <1>8, <1>11, <1>13, <2>2, <2>3, FailingIs DEF Entered
  <2>5. W.tx[t].in
    BY <1>14, <2>2, Zenon DEF Evolves, Entered
  <2>6. QED
    BY <2>1, <2>4, <2>5, Zenon DEF Entered
<1>18. Behind(W, "wound_die", p)
  <2> SUFFICES ASSUME NEW c \in Cell, NEW ty \in {"R", "W"}, NEW n \in DOMAIN W.locks[c],
                      <<c, ty>> \in p.locks, Against(W.locks[c][n], ty),
                      ~(W.locks[c][n].txn < p.txn)
               PROVE  W.tx[W.locks[c][n].txn].prepared
    BY ZenonT(40) DEF Behind, MayPrecede
  <2>1. PICK j \in DOMAIN S.locks[c] : W.locks[c][n] = S.locks[c][j]
    BY <1>16
  <2>2. PICK m \in met : m.c = c /\ m.k = j /\ m.a = S.locks[c][j]
    BY <1>2, <2>1, ZenonT(40) DEF MetPlaces
  <2>3. m.a.txn \in Txn /\ m.a.txn >= t
    <3>1. m.a.txn \in Txn /\ m.a.txn \in Nat /\ ~(m.a.txn < t)
      BY <1>7, <2>1, <2>2
    <3>2. t \in Nat
      BY PiecesAssumption, ZenonT(40)
    <3>3. QED
      BY <3>1, <3>2
  <2>4. Held(S.locks[m.c], m.k)
    BY <1>3, <1>16, <2>1, <2>2, <2>3
  <2>5. m \notin taken
    BY <1>13, <2>1, <2>2, ZenonT(40)
  <2>6. S.tx[m.a.txn].prepared
    BY <1>3, <2>3, <2>4, <2>5, ZenonT(40)
  <2>7. QED
    BY <1>14, <2>1, <2>2, <2>3, <2>6, Zenon DEF Evolves
<1>19. QED
  BY <1>11, <1>13, <1>14, <1>17, <1>18, ZenonT(40) DEF W, met

-----------------------------------------------------------------------------
(* A piece arrives *)

\* N is S with the piece p, which is as r says.
Added(S, N, p, r) ==
  /\ N = [locks |-> S.locks, tx |-> N.tx, val |-> S.val, ok |-> S.ok]
  /\ N.tx = [u \in Txn |-> N.tx[u]] /\ \A u \in Txn \ {p.txn} : N.tx[u] = S.tx[u]
  /\ LET x == S.tx[p.txn]
         y == N.tx[p.txn]
     IN  /\ y = [in |-> y.in, wound |-> y.wound, prepared |-> y.prepared, updates |-> y.updates,
                 ps |-> y.ps]
         /\ y.in = TRUE /\ y.wound = x.wound /\ y.prepared = x.prepared /\ y.updates = x.updates
         /\ y.ps = [i \in DOMAIN x.ps \cup {p.id} |-> IF i = p.id THEN r ELSE x.ps[i]]

\* r is how a piece starts.
Fresh(r) == r \in PieceAt /\ r.out = {} /\ r.lock \in {"none", "wait"} /\ (r.lock = "none" => r.res = "REJECT")

\* A new piece that has not asked for its locks keeps the rest of the invariant.
LEMMA AddedInv ==
  ASSUME NEW S, NEW kind, NEW p \in Piece, SiteInv(S, kind), p.id \notin DOMAIN S.tx[p.txn].ps,
         NEW N, NEW r, Added(S, N, p, r), Fresh(r), NEW X, r.lock = "wait" => p.id \in X
  PROVE  SiteInvBut(N, kind, X) /\ Unqueued(N, p.id)
<1> DEFINE t == p.txn
<1>1. /\ Typed(S) /\ Queued(S) /\ OneRequest(S) /\ Ordered(S, kind) /\ Asked(S, {})
      /\ \A u \in Txn : RanTxn(S, u)
  BY DEF SiteInv, SiteInvBut, Ran
<1>2. t \in Txn /\ p.id \in Ids(Piece) /\ PieceOf(p.id) = p
  BY PieceOfId, PiecesAssumption
<1>3. /\ N = [locks |-> S.locks, tx |-> N.tx, val |-> S.val, ok |-> S.ok]
      /\ N.tx = [u \in Txn |-> N.tx[u]] /\ \A u \in Txn \ {t} : N.tx[u] = S.tx[u]
  BY Zenon DEF Added
<1>4. N.locks = S.locks /\ N.val = S.val /\ N.ok = S.ok
  BY <1>3
<1>5. /\ N.tx[t] = [in |-> N.tx[t].in, wound |-> N.tx[t].wound, prepared |-> N.tx[t].prepared,
                    updates |-> N.tx[t].updates, ps |-> N.tx[t].ps]
      /\ N.tx[t].ps = [i \in DOMAIN S.tx[t].ps \cup {p.id} |-> IF i = p.id THEN r ELSE S.tx[t].ps[i]]
  BY Zenon DEF Added
<1>6. /\ N.tx[t].in /\ N.tx[t].in \in BOOLEAN
      /\ N.tx[t].wound = S.tx[t].wound /\ N.tx[t].prepared = S.tx[t].prepared
      /\ N.tx[t].updates = S.tx[t].updates
  <2>1. /\ N.tx[t].in = TRUE /\ N.tx[t].wound = S.tx[t].wound /\ N.tx[t].prepared = S.tx[t].prepared
        /\ N.tx[t].updates = S.tx[t].updates
    BY Zenon DEF Added
  <2>2. QED
    BY <2>1, Zenon
<1>7. /\ DOMAIN N.tx[t].ps = DOMAIN S.tx[t].ps \cup {p.id}
      /\ N.tx[t].ps[p.id] = r
      /\ \A i \in DOMAIN S.tx[t].ps : N.tx[t].ps[i] = S.tx[t].ps[i]
  BY <1>5, Zenon
<1>8. Typed(N)
  <2>1. TxnTyped(S.tx[t])
    BY <1>1, <1>2, ZenonT(40) DEF Typed
  <2>2. N.tx[t].ps \in [DOMAIN N.tx[t].ps -> PieceAt]
    <3>1. \A i \in DOMAIN S.tx[t].ps : S.tx[t].ps[i] \in PieceAt
      BY <2>1, Zenon DEF TxnTyped
    <3>2. r \in PieceAt
      BY DEF Fresh
    <3>3. \A i \in DOMAIN N.tx[t].ps : N.tx[t].ps[i] \in PieceAt
      BY <1>7, <3>1, <3>2, Zenon
    <3>4. N.tx[t].ps = [i \in DOMAIN N.tx[t].ps |-> N.tx[t].ps[i]]
      BY <1>5, Zenon
    <3>5. QED
      BY <3>3, <3>4
  <2>3. TxnTyped(N.tx[t])
    BY <1>2, <1>5, <1>6, <1>7, <2>1, <2>2, ZenonT(40) DEF TxnTyped
  <2>4. \A u \in Txn : TxnTyped(N.tx[u])
    BY <1>1, <1>3, <2>3 DEF Typed
  <2>5. QED
    BY <1>1, <1>3, <1>4, <2>4, ZenonT(40) DEF Typed
<1>9. ASSUME NEW c \in Cell, NEW k \in DOMAIN S.locks[c]
      PROVE  /\ QueuedAt(S, c, k) /\ S.locks[c][k].txn \in Txn /\ S.locks[c][k].pid # p.id
  <2>1. QueuedAt(S, c, k) /\ S.locks[c][k].txn \in Txn
    BY <1>1, RequestFields DEF Queued, Typed
  <2>2. QED
    BY <1>2, <2>1, Zenon DEF QueuedAt
<1>10. ASSUME NEW u \in Txn
       PROVE  /\ S.tx[u].in => N.tx[u].in
              /\ N.tx[u].wound = S.tx[u].wound /\ N.tx[u].prepared = S.tx[u].prepared
              /\ N.tx[u].updates = S.tx[u].updates
              /\ DOMAIN S.tx[u].ps \subseteq DOMAIN N.tx[u].ps
              /\ \A i \in DOMAIN S.tx[u].ps : N.tx[u].ps[i] = S.tx[u].ps[i]
              /\ \A i \in DOMAIN N.tx[u].ps : i \in DOMAIN S.tx[u].ps \/ (u = t /\ i = p.id)
  <2>1. CASE u = t
    BY <1>6, <1>7, <2>1, ZenonT(40)
  <2>2. CASE u # t
    BY <1>3, <2>2
  <2>3. QED
    BY <2>1, <2>2, Zenon
<1>11. Queued(N)
  <2> SUFFICES ASSUME NEW c \in Cell, NEW k \in DOMAIN S.locks[c]
               PROVE  QueuedAt(N, c, k)
    BY <1>4, ZenonT(40) DEF Queued
  <2>1. QueuedAt(S, c, k) /\ S.locks[c][k].txn \in Txn
    BY <1>9
  <2> DEFINE a == S.locks[c][k]
  <2>2. a.pid \in DOMAIN S.tx[a.txn].ps /\ S.tx[a.txn].in
    BY <2>1, Zenon DEF QueuedAt
  <2>3. /\ N.tx[a.txn].in /\ a.pid \in DOMAIN N.tx[a.txn].ps
        /\ N.tx[a.txn].ps[a.pid] = S.tx[a.txn].ps[a.pid]
    BY <1>10, <2>1, <2>2, ZenonT(40)
  <2>4. QED
    BY <1>4, <2>1, <2>3, Zenon DEF QueuedAt
<1>12. OneRequest(N)
  BY <1>1, <1>4, Zenon DEF OneRequest
<1>13. Ordered(N, kind)
  <2> SUFFICES ASSUME NEW c \in Cell, NEW j \in DOMAIN S.locks[c], NEW k \in DOMAIN S.locks[c], j < k,
                      Against(S.locks[c][j], S.locks[c][k].type)
               PROVE  MayPrecede(N, kind, S.locks[c][j], S.locks[c][k])
    BY <1>4 DEF Ordered
  <2>1. MayPrecede(S, kind, S.locks[c][j], S.locks[c][k]) /\ S.locks[c][j].txn \in Txn
    BY <1>1, <1>9, Zenon DEF Ordered
  <2>2. QED
    BY <1>10, <2>1, Zenon DEF MayPrecede
<1>14. Asked(N, X)
  <2> SUFFICES ASSUME NEW u \in Txn, NEW i \in DOMAIN N.tx[u].ps \ X,
                      ~N.tx[u].wound, N.tx[u].ps[i].lock \in {"wait", "yes"}, NEW l \in PieceOf(i).locks
               PROVE  \E k \in DOMAIN S.locks[l[1]] : S.locks[l[1]][k].pid = i
    BY <1>4 DEF Asked
  <2>1. i \in DOMAIN S.tx[u].ps
    BY <1>7, <1>10, ZenonT(40) DEF Fresh
  <2>2. ~S.tx[u].wound /\ S.tx[u].ps[i].lock \in {"wait", "yes"}
    BY <1>10, <2>1
  <2>3. QED
    BY <1>1, <2>1, <2>2, ZenonT(40) DEF Asked
<1>15. ASSUME NEW u \in Txn
       PROVE  RanTxn(N, u)
  <2>1. RanTxn(S, u)
    BY <1>1, ZenonT(40)
  <2>2. ~N.tx[u].in => N.tx[u] = NoTx
    BY <1>3, <1>6, <2>1, ZenonT(40) DEF RanTxn
  <2>3. \A e : Current(N, u, e) <=> Current(S, u, e)
    BY <1>4, <1>10, ZenonT(40) DEF Current
  <2>4. ASSUME NEW i \in DOMAIN N.tx[u].ps
        PROVE  RanPiece(N, u, i)
    <3>1. CASE i \in DOMAIN S.tx[u].ps
      <4>1. RanPiece(S, u, i) /\ N.tx[u].ps[i] = S.tx[u].ps[i]
        BY <1>10, <2>1, <3>1, ZenonT(40) DEF RanTxn
      <4>2. QED
        BY <1>10, <2>3, <4>1, Zenon DEF RanPiece
    <3>2. CASE u = t /\ i = p.id
      BY <1>2, <1>7, <3>2, Zenon DEF RanPiece, Fresh
    <3>3. QED
      BY <1>10, <3>1, <3>2
  <2>5. \A c \in N.tx[u].updates :
           \E i \in DOMAIN N.tx[u].ps : c \in PieceOf(i).writes /\ N.tx[u].ps[i].lock = "yes"
    BY <1>10, <2>1 DEF RanTxn
  <2>6. QED
    BY <2>2, <2>4, <2>5, ZenonT(40) DEF RanTxn
<1>16. Unqueued(N, p.id)
  BY <1>4, <1>9, Zenon DEF Unqueued
<1>17. QED
  BY <1>8, <1>11, <1>12, <1>13, <1>14, <1>15, <1>16, ZenonT(40) DEF SiteInvBut, Ran

\* Setting in and the pieces of a transaction.
LEMMA InUpdate ==
  ASSUME NEW x, TxnTyped(x), NEW v, NEW A
  PROVE  [[x EXCEPT !.in = v] EXCEPT !.ps = A] =
            [in |-> v, wound |-> x.wound, prepared |-> x.prepared, updates |-> x.updates, ps |-> A]
<1> DEFINE T == [x EXCEPT !.in = v]
<1>1. x = [in |-> x.in, wound |-> x.wound, prepared |-> x.prepared, updates |-> x.updates, ps |-> x.ps]
  BY DEF TxnTyped
<1>2. T = [in |-> v, wound |-> x.wound, prepared |-> x.prepared, updates |-> x.updates, ps |-> x.ps]
  BY <1>1
<1> HIDE DEF T
<1>3. [T EXCEPT !.ps = A] =
        [in |-> v, wound |-> x.wound, prepared |-> x.prepared, updates |-> x.updates, ps |-> A]
  BY <1>2
<1>4. QED
  BY <1>3 DEF T

\* The record of one transaction becomes y.
WithTxn(S, t, y) == [S EXCEPT !.tx = [S.tx EXCEPT ![t] = y]]

OnlyTxn(S, N, t, y) ==
  /\ N = [locks |-> S.locks, tx |-> N.tx, val |-> S.val, ok |-> S.ok]
  /\ N.tx = [u \in Txn |-> N.tx[u]] /\ \A u \in Txn \ {t} : N.tx[u] = S.tx[u]
  /\ N.tx[t] = y

\* A site in which one transaction is replaced.
LEMMA OneTxn ==
  ASSUME NEW S, Typed(S), NEW t \in Txn, NEW y
  PROVE  OnlyTxn(S, WithTxn(S, t, y), t, y)
<1> DEFINE B == [S.tx EXCEPT ![t] = y]
           N == WithTxn(S, t, y)
<1>1. S.tx = [u \in Txn |-> S.tx[u]]
  BY DEF Typed
<1>2. B[t] = y /\ B = [u \in Txn |-> B[u]] /\ \A u \in Txn \ {t} : B[u] = S.tx[u]
  BY <1>1
<1>3. N = [locks |-> S.locks, tx |-> B, val |-> S.val, ok |-> S.ok]
  BY SiteUpdate, Zenon DEF WithTxn
<1> HIDE DEF B, N
<1>4. N.tx = B
  BY <1>3
<1>5. QED
  BY <1>2, <1>3, <1>4 DEF OnlyTxn, N

\* init_piece adds a piece to its transaction and changes nothing else.
LEMMA AddedIs ==
  ASSUME NEW S, Typed(S), NEW t \in Txn, NEW p, p.txn = t, NEW r, NEW ps,
         ps = [i \in DOMAIN S.tx[t].ps \cup {p.id} |-> IF i = p.id THEN r ELSE S.tx[t].ps[i]]
  PROVE  /\ Added(S, [S EXCEPT !.tx[t].in = TRUE, !.tx[t].ps = ps], p, r)
         /\ S.tx[t].in => Added(S, [S EXCEPT !.tx[t].ps = ps], p, r)
<1> DEFINE x == S.tx[t]
           y == [[x EXCEPT !.in = TRUE] EXCEPT !.ps = ps]
           z == [x EXCEPT !.ps = ps]
           A == [S EXCEPT !.tx[t].in = TRUE, !.tx[t].ps = ps]
           B == [S EXCEPT !.tx[t].ps = ps]
<1>1. S = [locks |-> S.locks, tx |-> S.tx, val |-> S.val, ok |-> S.ok] /\ S.tx = [u \in Txn |-> S.tx[u]]
  BY DEF Typed
<1>2. TxnTyped(x)
  BY DEF Typed
<1>3. A = WithTxn(S, t, y)
  BY <1>1, ZenonT(40) DEF WithTxn
<1>4. B = WithTxn(S, t, z)
  BY <1>1 DEF WithTxn
<1> HIDE DEF A, B, x
<1>5. ASSUME NEW v, NEW w, w = [[x EXCEPT !.in = v] EXCEPT !.ps = ps]
      PROVE  /\ w = [in |-> w.in, wound |-> w.wound, prepared |-> w.prepared, updates |-> w.updates,
                     ps |-> w.ps]
             /\ w.in = v /\ w.wound = x.wound /\ w.prepared = x.prepared /\ w.updates = x.updates
             /\ w.ps = ps
  <2>1. w = [in |-> v, wound |-> x.wound, prepared |-> x.prepared, updates |-> x.updates, ps |-> ps]
    BY <1>2, <1>5, InUpdate, Zenon
  <2>2. QED
    BY <2>1
<1>6. z = [in |-> x.in, wound |-> x.wound, prepared |-> x.prepared, updates |-> x.updates, ps |-> ps]
  BY <1>2, TxnUpdate, ZenonT(40)
<1> HIDE DEF z
<1>7. /\ z = [in |-> z.in, wound |-> z.wound, prepared |-> z.prepared, updates |-> z.updates, ps |-> z.ps]
      /\ z.in = x.in /\ z.wound = x.wound /\ z.prepared = x.prepared /\ z.updates = x.updates
      /\ z.ps = ps
  BY <1>6
<1>8. /\ y = [in |-> y.in, wound |-> y.wound, prepared |-> y.prepared, updates |-> y.updates, ps |-> y.ps]
      /\ y.in = TRUE /\ y.wound = x.wound /\ y.prepared = x.prepared /\ y.updates = x.updates
      /\ y.ps = ps
  BY <1>5, Zenon
<1> HIDE DEF y
<1>9. Added(S, A, p, r)
  <2>1. OnlyTxn(S, A, t, y)
    BY <1>3, OneTxn
  <2>2. QED
    BY <1>8, <2>1, ZenonT(40) DEF Added, OnlyTxn, x
<1>10. x.in => Added(S, B, p, r)
  <2>1. OnlyTxn(S, B, t, z)
    BY <1>4, OneTxn
  <2>2. x.in => x.in = TRUE
    BY <1>2 DEF TxnTyped
  <2>3. QED
    BY <1>7, <2>1, <2>2, ZenonT(40) DEF Added, OnlyTxn, x
<1>11. QED
  BY <1>9, <1>10 DEF A, B, x

\* Asking for all locks of a piece keeps the invariant, with each kind of lock.
LEMMA LockAllInv ==
  ASSUME NEW S, NEW kind, NEW p \in Piece, SiteInvBut(S, kind, {p.id}), Entered(S, p)
  PROVE  LET N == LockAll(S, kind, p)
         IN  /\ SiteInv(N, kind) /\ N.val = S.val /\ N.ok = S.ok
             /\ \A u \in Txn : Evolves(S.tx[u], N.tx[u])
<1> DEFINE N == LockAll(S, kind, p)
           t == p.txn
           met == Met(S, p)
<1>1. /\ Typed(S) /\ \A u \in Txn : RanTxn(S, u)
  BY DEF SiteInvBut, Ran
<1>2. t \in Txn /\ t \in Nat
  BY PiecesAssumption, Zenon
<1>3. MetPlaces(S, p, met)
  BY MetIs
<1>4. CASE kind = "wait_die" /\ Dies(t, met)
  <2>1. N = Refuse(S, {p.id})
    BY <1>4, ZenonT(40) DEF LockAll
  <2>2. Waiting(S, {p.id})
    <3> SUFFICES ASSUME NEW u \in Txn, NEW i \in DOMAIN S.tx[u].ps, i = p.id
                 PROVE  S.tx[u].ps[i].lock = "wait"
      BY DEF Waiting
    <3>1. RanPiece(S, u, i)
      BY <1>1 DEF RanTxn
    <3>2. u = t
      BY <3>1, PieceOfId, Zenon DEF RanPiece
    <3>3. QED
      BY <3>2 DEF Entered
  <2> DEFINE I == {p.id}
  <2> HIDE DEF I, N
  <2>3. SiteInvBut(N, kind, I \ I) /\ \A u \in Txn : Evolves(S.tx[u], N.tx[u])
    <3>1. N = Refuse(S, I) /\ SiteInvBut(S, kind, I) /\ Waiting(S, I)
      BY <2>1, <2>2 DEF I
    <3>2. QED
      BY <3>1, RefuseInv
  <2>4. N.val = S.val /\ N.ok = S.ok
    BY <1>1, <2>1, RefuseIs
  <2>5. I \ I = {}
    OBVIOUS
  <2>6. QED
    BY <2>3, <2>4, <2>5 DEF SiteInv, N
<1>5. CASE kind = "wound_die"
  <2> DEFINE W == Wounding(S, t, met)
  <2>1. N = [W EXCEPT !.locks = Asking(@, p)]
    BY <1>5, ZenonT(40) DEF LockAll
  <2>2. /\ SiteInvBut(W, kind, {p.id}) /\ Entered(W, p) /\ Behind(W, kind, p)
        /\ W.val = S.val /\ W.ok = S.ok
        /\ \A u \in Txn : Evolves(S.tx[u], W.tx[u])
    BY <1>5, WoundInv
  <2> HIDE DEF W, N
  <2>3. SiteInv(N, kind) /\ N.tx = W.tx /\ N.val = W.val /\ N.ok = W.ok
    BY <2>1, <2>2, AskInv
  <2>4. QED
    BY <2>2, <2>3 DEF N
<1>6. CASE kind # "wound_die" /\ ~(kind = "wait_die" /\ Dies(t, met))
  <2>1. N = [S EXCEPT !.locks = Asking(@, p)]
    BY <1>6, ZenonT(40) DEF LockAll
  <2>2. Behind(S, kind, p)
    <3> SUFFICES ASSUME NEW c \in Cell, NEW ty \in {"R", "W"}, NEW k \in DOMAIN S.locks[c],
                        <<c, ty>> \in p.locks, Against(S.locks[c][k], ty), kind = "wait_die"
                 PROVE  S.locks[c][k].txn > t
      BY <1>6, Zenon DEF Behind, MayPrecede
    <3> HIDE DEF met
    <3>1. PICK m \in met : m.c = c /\ m.k = k /\ m.a = S.locks[c][k]
      <4>1. Meets(S, p, c, ty, k)
        BY DEF Meets
      <4>2. QED
        BY <1>3, <4>1, MetAt
    <3>2. ~(S.locks[c][k].txn <= t)
      BY <1>6, <3>1 DEF Dies
    <3>3. S.locks[c][k].txn \in Nat
      BY <1>1, RequestFields, Zenon DEF Typed
    <3>4. QED
      BY <1>2, <3>2, <3>3
  <2> HIDE DEF N
  <2>3. SiteInv(N, kind) /\ N.tx = S.tx /\ N.val = S.val /\ N.ok = S.ok
    BY <2>1, <2>2, AskInv
  <2>4. QED
    BY <2>3, EvolvesRefl, Zenon DEF N
<1>7. QED
  BY <1>4, <1>5, <1>6, Zenon

\* A transaction that grows and then evolves has grown.
LEMMA GrowsEvolves ==
  ASSUME NEW x, NEW y, NEW z, NEW I, NEW call, Grows(x, y, I, call), Evolves(y, z)
  PROVE  Grows(x, z, I, call)
BY ZenonT(40) DEF Grows, Evolves

\* A transaction that grows twice by pieces of a call has grown by both.
LEMMA GrowsTwice ==
  ASSUME NEW x, NEW y, NEW z, NEW I, NEW J, NEW call, Grows(x, y, I, call), Grows(y, z, J, call)
  PROVE  Grows(x, z, I \cup J, call)
BY ZenonT(40) DEF Grows

\* pre_execute_2pl keeps the invariant of the site.
LEMMA PreExecuteInv ==
  ASSUME NEW S, NEW kind, NEW p \in Piece, NEW call \in Seq(Nat), SiteInv(S, kind),
         p.id \notin DOMAIN S.tx[p.txn].ps
  PROVE  LET N == PreExecute(S, kind, p, call)
         IN  Steps(S, N, kind, p.txn) /\ Grows(S.tx[p.txn], N.tx[p.txn], {p.id}, call)
<1> DEFINE t == p.txn
           N == PreExecute(S, kind, p, call)
           r(l, e) == [lock |-> l, res |-> e, out |-> {}, call |-> call]
           ps(q) == [i \in DOMAIN S.tx[t].ps \cup {p.id} |-> IF i = p.id THEN q ELSE S.tx[t].ps[i]]
<1>1. Typed(S) /\ RanTxn(S, t) /\ t \in Txn
  BY PiecesAssumption, Zenon DEF SiteInv, SiteInvBut, Ran
<1>2. /\ Fresh(r("none", "REJECT")) /\ r("none", "REJECT").lock = "none" /\ r("none", "REJECT").call = call
      /\ Fresh(r("wait", "SUCCESS")) /\ r("wait", "SUCCESS").lock = "wait" /\ r("wait", "SUCCESS").call = call
  BY Zenon DEF Fresh, PieceAt
<1>3. ASSUME NEW M, NEW q, Added(S, M, p, q), q.call = call
      PROVE  /\ M.val = S.val /\ M.ok = S.ok /\ \A u \in Txn \ {t} : M.tx[u] = S.tx[u]
             /\ Grows(S.tx[t], M.tx[t], {p.id}, call)
             /\ M.tx[t].ps[p.id] = q
  <2>1. M.val = S.val /\ M.ok = S.ok /\ \A u \in Txn \ {t} : M.tx[u] = S.tx[u]
    <3>1. M = [locks |-> S.locks, tx |-> M.tx, val |-> S.val, ok |-> S.ok]
      BY <1>3, Zenon DEF Added
    <3>2. M.val = S.val /\ M.ok = S.ok
      BY <3>1
    <3>3. QED
      BY <1>3, <3>2, Zenon DEF Added
  <2>2. /\ M.tx[t].in = TRUE /\ M.tx[t].wound = S.tx[t].wound /\ M.tx[t].prepared = S.tx[t].prepared
        /\ M.tx[t].ps = ps(q)
    BY <1>3, ZenonT(40) DEF Added
  <2>3. /\ DOMAIN M.tx[t].ps = DOMAIN S.tx[t].ps \cup {p.id} /\ M.tx[t].ps[p.id] = q
        /\ \A i \in DOMAIN S.tx[t].ps : M.tx[t].ps[i] = S.tx[t].ps[i]
    BY <2>2, ZenonT(40)
  <2>4. QED
    BY <1>3, <2>1, <2>2, <2>3, Zenon DEF Grows
<1>4. CASE S.tx[t].wound
  <2> DEFINE q == r("none", "REJECT")
  <2>1. N = [S EXCEPT !.tx[t].ps = ps(q)]
    BY <1>4 DEF PreExecute
  <2>2. S.tx[t].in
    BY <1>1, <1>4, NoTxFields, Zenon DEF RanTxn
  <2>3. ps(q) = [i \in DOMAIN S.tx[t].ps \cup {p.id} |-> IF i = p.id THEN q ELSE S.tx[t].ps[i]]
    OBVIOUS
  <2> HIDE DEF N, q, ps
  <2>4. Added(S, N, p, q)
    BY <1>1, <2>1, <2>2, <2>3, AddedIs, Zenon
  <2>5. SiteInvBut(N, kind, {})
    BY <1>2, <2>4, AddedInv, Zenon DEF q
  <2>6. q.call = call
    BY <1>2, Zenon DEF q
  <2>7. QED
    BY <1>3, <2>4, <2>5, <2>6, EvolvesRefl, Zenon DEF Steps, SiteInv, N
<1>5. CASE ~S.tx[t].wound
  <2> DEFINE q == r("wait", "SUCCESS")
             E == [S EXCEPT !.tx[t].in = TRUE, !.tx[t].ps = ps(q)]
             L == LockAll(E, kind, p)
  <2>1. N = Proceed(L)
    BY <1>5 DEF PreExecute
  <2>2. ps(q) = [i \in DOMAIN S.tx[t].ps \cup {p.id} |-> IF i = p.id THEN q ELSE S.tx[t].ps[i]]
    BY Zenon
  <2>3. E = [S EXCEPT !.tx[t].in = TRUE, !.tx[t].ps = ps(q)]
    OBVIOUS
  <2> HIDE DEF N, q, ps, E, L
  <2>4. Added(S, E, p, q)
    BY <1>1, <2>2, <2>3, AddedIs, ZenonT(40)
  <2>5. q.call = call /\ q.lock = "wait" /\ Fresh(q)
    BY <1>2 DEF q
  <2>6. SiteInvBut(E, kind, {p.id}) /\ Unqueued(E, p.id)
    BY <2>4, <2>5, AddedInv, Zenon
  <2>7. /\ E.val = S.val /\ E.ok = S.ok /\ \A u \in Txn \ {t} : E.tx[u] = S.tx[u]
        /\ Grows(S.tx[t], E.tx[t], {p.id}, call) /\ E.tx[t].ps[p.id] = q
    BY <1>3, <2>4, <2>5, Zenon
  <2>8. Entered(E, p)
    BY <2>5, <2>6, <2>7, ZenonT(40) DEF Entered, Grows
  <2>9. /\ SiteInv(L, kind) /\ L.val = E.val /\ L.ok = E.ok
        /\ \A u \in Txn : Evolves(E.tx[u], L.tx[u])
    BY <2>6, <2>8, LockAllInv, ZenonT(40) DEF L
  <2>10. /\ SiteInv(N, kind) /\ \A u \in Txn : Evolves(L.tx[u], N.tx[u])
    BY <2>1, <2>9, ProceedInv
  <2>11. N.val = L.val /\ N.ok = L.ok
    BY <2>1, <2>9, ProceedIs, Zenon DEF SiteInv, SiteInvBut
  <2>12. \A u \in Txn : Evolves(E.tx[u], N.tx[u])
    BY <2>9, <2>10, EvolvesTrans
  <2>13. Grows(S.tx[t], N.tx[t], {p.id}, call)
    <3>1. Evolves(E.tx[t], N.tx[t])
      BY <1>1, <2>12
    <3>2. QED
      BY <2>7, <3>1, GrowsEvolves, Zenon
  <2>14. QED
    BY <2>7, <2>9, <2>10, <2>11, <2>12, <2>13, ZenonT(40) DEF Steps, N
<1>6. QED
  BY <1>4, <1>5

-----------------------------------------------------------------------------
(* The requests *)

\* A start request runs pre_execute_2pl for its pieces one after the other.
LEMMA StartPieRun ==
  ASSUME NEW S, NEW kind, NEW call \in Seq(Nat)
  PROVE  \E g : /\ g[0] = S /\ StartPie(S, kind, call) = g[Len(call)]
                /\ \A n \in 1 .. Len(call) : g[n] = PreExecute(g[n - 1], kind, PieceOf(call[n]), call)
<1> DEFINE St(b, n) == PreExecute(b, kind, PieceOf(call[n]), call)
           Run(g, m) == g = [n \in 0 .. m |-> IF n = 0 THEN S ELSE St(g[n - 1], n)]
           T == {m \in Nat : \E g : Run(g, m)}
           L == Len(call)
           F == CHOOSE g : Run(g, L)
<1>1. L \in Nat
  OBVIOUS
<1>2. StartPie(S, kind, call) = F[L]
  BY DEF StartPie
<1> HIDE DEF St, L
<1>3. 0 \in T
  <2> DEFINE g == [n \in 0 .. 0 |-> S]
  <2>1. Run(g, 0)
    <3>1. \A n \in 0 .. 0 : n = 0
      OBVIOUS
    <3>2. QED
      BY <3>1
  <2>2. QED
    BY <2>1, Zenon
<1>4. ASSUME NEW m \in T
      PROVE  m + 1 \in T
  <2>1. m \in Nat
    OBVIOUS
  <2>2. PICK g : Run(g, m)
    OBVIOUS
  <2> DEFINE h == [n \in 0 .. m + 1 |-> IF n = m + 1 THEN St(g[m], n) ELSE g[n]]
  <2>3. \A n \in 0 .. m : g[n] = IF n = 0 THEN S ELSE St(g[n - 1], n)
    BY <2>2
  <2>4. ASSUME NEW n \in 0 .. m + 1
        PROVE  h[n] = IF n = 0 THEN S ELSE St(h[n - 1], n)
    <3>1. CASE n = m + 1
      <4>1. n # 0 /\ n - 1 = m /\ m \in 0 .. m + 1 /\ m # m + 1
        BY <2>1, <3>1
      <4>2. h[m] = g[m] /\ h[n] = St(g[m], n)
        BY <3>1, <4>1
      <4> HIDE DEF h
      <4>3. QED
        BY <4>1, <4>2
    <3>2. CASE n # m + 1
      <4>1. n \in 0 .. m /\ (n # 0 => n - 1 \in 0 .. m + 1 /\ n - 1 # m + 1)
        BY <2>1, <3>2
      <4>2. h[n] = g[n] /\ (n # 0 => h[n - 1] = g[n - 1])
        BY <3>2, <4>1
      <4> HIDE DEF h
      <4>3. QED
        BY <2>3, <4>1, <4>2
    <3>3. QED
      BY <3>1, <3>2
  <2>5. DOMAIN h = 0 .. m + 1 /\ h = [n \in 0 .. m + 1 |-> h[n]]
    OBVIOUS
  <2> HIDE DEF h
  <2>6. Run(h, m + 1)
    BY <2>4, <2>5, Zenon
  <2>7. m + 1 \in Nat
    BY <2>1
  <2>8. QED
    BY <2>6, <2>7, ZenonT(40)
<1>5. T = Nat
  <2> HIDE DEF T
  <2>1. T \in SUBSET Nat
    BY DEF T
  <2>2. QED
    BY <1>3, <1>4, <2>1, Induction, Zenon
<1>6. \E g : Run(g, L)
  <2>1. L \in T
    BY <1>1, <1>5, Zenon
  <2>2. QED
    BY <2>1
<1>7. Run(F, L)
  <2> HIDE DEF Run
  <2>1. QED
    BY <1>6
<1> HIDE DEF F
<1>8. F[0] = S /\ \A n \in 1 .. L : F[n] = St(F[n - 1], n)
  <2>1. \A n \in 0 .. L : F[n] = IF n = 0 THEN S ELSE St(F[n - 1], n)
    BY <1>7, Zenon
  <2>2. 0 \in 0 .. L /\ \A n \in 1 .. L : n \in 0 .. L /\ n # 0
    BY <1>1
  <2>3. QED
    BY <2>1, <2>2
<1>9. QED
  BY <1>2, <1>8 DEF St, L

\* start_pie, with one piece or a batch, keeps the invariant of the site.
LEMMA StartPieInv ==
  ASSUME NEW S, NEW kind, NEW t \in Txn, NEW call \in Seq(Nat), SiteInv(S, kind), OneByOne(call),
         Brings(S, t, call), call # <<>>
  PROVE  LET N == StartPie(S, kind, call)
         IN  Steps(S, N, kind, t) /\ Grows(S.tx[t], N.tx[t], CallIds(call), call)
<1> DEFINE L == Len(call)
           I(m) == {call[n] : n \in 1 .. m}
<1>1. L \in Nat /\ L # 0 /\ DOMAIN call = 1 .. L /\ CallIds(call) = I(L)
  BY DEF CallIds
<1>2. PICK g : /\ g[0] = S /\ StartPie(S, kind, call) = g[L]
               /\ \A n \in 1 .. L : g[n] = PreExecute(g[n - 1], kind, PieceOf(call[n]), call)
  BY StartPieRun
<1> HIDE DEF L
<1> DEFINE Good(m) == Steps(S, g[m], kind, t) /\ (m # 0 => Grows(S.tx[t], g[m].tx[t], I(m), call))
           T == {m \in Nat : m <= L => Good(m)}
<1>3. Good(0)
  BY <1>2, EvolvesRefl, ZenonT(40) DEF Steps
<1>4. ASSUME NEW m \in Nat, m + 1 <= L, Good(m)
      PROVE  Good(m + 1)
  <2> DEFINE n == m + 1
             p == PieceOf(call[n])
             b == g[m]
             d == g[n]
  <2>1. n \in 1 .. L /\ n \in DOMAIN call /\ n - 1 = m /\ n # 0
    BY <1>1, <1>4
  <2>2. call[n] \in Ids(Piece) /\ p.txn = t /\ call[n] \notin DOMAIN S.tx[t].ps
    BY <2>1, ZenonT(40) DEF Brings
  <2>3. p \in Piece /\ p.id = call[n]
    BY <2>2, PieceFields
  <2>4. d = PreExecute(b, kind, p, call)
    BY <1>2, <2>1
  <2>5. \A j \in 1 .. m : j \in DOMAIN call /\ j # n
    BY <1>1, <2>1
  <2>6. call[n] \notin I(m)
    BY <2>1, <2>5 DEF OneByOne
  <2>7. I(n) = I(m) \cup {call[n]} /\ (m = 0 => I(m) = {})
    <3>1. 1 .. n = (1 .. m) \cup {n} /\ (m = 0 => 1 .. m = {})
      OBVIOUS
    <3>2. QED
      BY <3>1
  <2>8. Steps(S, b, kind, t) /\ (m # 0 => Grows(S.tx[t], b.tx[t], I(m), call))
    BY <1>4
  <2> HIDE DEF n, p, b, d, I
  <2>9. call[n] \notin DOMAIN b.tx[t].ps
    <3>1. CASE m = 0
      BY <1>2, <2>2, <3>1 DEF b
    <3>2. CASE m # 0
      BY <2>2, <2>6, <2>8, <3>2, Zenon DEF Grows
    <3>3. QED
      BY <3>1, <3>2, ZenonT(40)
  <2>10. Steps(b, d, kind, t) /\ Grows(b.tx[t], d.tx[t], {call[n]}, call)
    <3>1. SiteInv(b, kind) /\ p.id \notin DOMAIN b.tx[p.txn].ps
      BY <2>2, <2>3, <2>8, <2>9, ZenonT(40) DEF Steps
    <3>2. QED
      BY <2>2, <2>3, <2>4, <3>1, PreExecuteInv, ZenonT(40)
  <2>11. Steps(S, d, kind, t)
    BY <2>8, <2>10, EvolvesTrans DEF Steps
  <2>12. Grows(S.tx[t], d.tx[t], I(n), call)
    <3>1. CASE m = 0
      <4>1. I(n) = {call[n]} /\ b = S
        BY <1>2, <2>7, <3>1, ZenonT(40) DEF b
      <4>2. QED
        BY <2>10, <4>1
    <3>2. CASE m # 0
      BY <2>7, <2>8, <2>10, <3>2, GrowsTwice
    <3>3. QED
      BY <3>1, <3>2, ZenonT(40)
  <2>13. QED
    BY <2>11, <2>12, ZenonT(40) DEF d, n
<1>5. 0 \in T
  BY <1>3
<1> HIDE DEF Good
<1>6. ASSUME NEW m \in T
      PROVE  m + 1 \in T
  <2>1. m \in Nat /\ (m <= L => Good(m))
    OBVIOUS
  <2>2. m + 1 <= L => m <= L
    BY <1>1, <2>1
  <2>3. QED
    BY <1>4, <2>1, <2>2
<1>7. T = Nat
  <2> HIDE DEF T
  <2>1. T \in SUBSET Nat
    BY DEF T
  <2>2. QED
    BY <1>5, <1>6, <2>1, Induction, ZenonT(40)
<1>8. Good(L)
  BY <1>1, <1>7
<1>9. QED
  BY <1>1, <1>2, <1>8 DEF Good

\* commit_prepare keeps the invariant of the site.
LEMMA PrepareInv ==
  ASSUME NEW S, NEW kind, NEW t \in Txn, SiteInv(S, kind), S.tx[t].in
  PROVE  LET N == PrepareTxn(S, t)
         IN  /\ Steps(S, N, kind, t)
             /\ N.tx[t].in /\ N.tx[t].prepared
             /\ N.tx[t].wound = S.tx[t].wound /\ N.tx[t].updates = S.tx[t].updates
             /\ N.tx[t].ps = S.tx[t].ps
<1> DEFINE x == S.tx[t]
           y == [x EXCEPT !.prepared = TRUE]
           M == [S EXCEPT !.ok = @ /\ S.tx[t].in]
           N == PrepareTxn(S, t)
<1>1. /\ Typed(S) /\ Queued(S) /\ OneRequest(S) /\ Ordered(S, kind) /\ Asked(S, {})
      /\ \A u \in Txn : RanTxn(S, u)
  BY DEF SiteInv, SiteInvBut, Ran
<1>2. /\ S = [locks |-> S.locks, tx |-> S.tx, val |-> S.val, ok |-> S.ok]
      /\ S.tx = [u \in Txn |-> S.tx[u]] /\ S.ok \in BOOLEAN
  BY <1>1 DEF Typed
<1>3. M = S
  <2>1. (S.ok /\ S.tx[t].in) = S.ok
    BY <1>2
  <2>2. M = [S EXCEPT !.ok = S.ok]
    BY <2>1
  <2>3. QED
    BY <1>2, <2>2
<1>4. N = [M EXCEPT !.tx[t].prepared = TRUE]
  BY <1>2 DEF PrepareTxn
<1> HIDE DEF M
<1>5. N = WithTxn(S, t, y)
  BY <1>2, <1>3, <1>4 DEF WithTxn
<1>6. ASSUME NEW v, NEW w, w = [x EXCEPT !.prepared = v]
      PROVE  /\ w = [in |-> w.in, wound |-> w.wound, prepared |-> w.prepared, updates |-> w.updates,
                     ps |-> w.ps]
             /\ w.in = x.in /\ w.wound = x.wound /\ w.prepared = v /\ w.updates = x.updates
             /\ w.ps = x.ps
  <2>1. x = [in |-> x.in, wound |-> x.wound, prepared |-> x.prepared, updates |-> x.updates, ps |-> x.ps]
    BY <1>1, Zenon DEF Typed, TxnTyped
  <2> HIDE DEF x
  <2>2. w = [in |-> x.in, wound |-> x.wound, prepared |-> v, updates |-> x.updates, ps |-> x.ps]
    BY <1>6, <2>1
  <2>3. QED
    BY <2>2
<1>7. /\ y = [in |-> y.in, wound |-> y.wound, prepared |-> y.prepared, updates |-> y.updates, ps |-> y.ps]
      /\ y.in = x.in /\ y.wound = x.wound /\ y.prepared = TRUE /\ y.updates = x.updates
      /\ y.ps = x.ps
  BY <1>6, Zenon
<1>8. OnlyTxn(S, N, t, y)
  BY <1>1, <1>5, OneTxn
<1> HIDE DEF N, y
<1>9. /\ N = [locks |-> S.locks, tx |-> N.tx, val |-> S.val, ok |-> S.ok]
      /\ N.tx = [u \in Txn |-> N.tx[u]] /\ \A u \in Txn \ {t} : N.tx[u] = S.tx[u]
      /\ N.tx[t] = y
  BY <1>8 DEF OnlyTxn
<1>10. N.locks = S.locks /\ N.val = S.val /\ N.ok = S.ok
  BY <1>9
<1>11. ASSUME NEW u \in Txn
       PROVE  /\ TxnTyped(N.tx[u]) /\ N.tx[u].in = S.tx[u].in /\ N.tx[u].wound = S.tx[u].wound
              /\ N.tx[u].updates = S.tx[u].updates /\ N.tx[u].ps = S.tx[u].ps
              /\ S.tx[u].prepared => N.tx[u].prepared
  <2>1. TxnTyped(S.tx[u])
    BY <1>1 DEF Typed
  <2>2. CASE u = t
    <3>1. TxnTyped(x)
      BY <2>1, <2>2
    <3> HIDE DEF x
    <3>2. TxnTyped(y)
      BY <1>7, <3>1, Zenon DEF TxnTyped
    <3>3. QED
      BY <1>7, <1>9, <2>2, <3>2, ZenonT(40) DEF x
  <2>3. CASE u # t
    BY <1>9, <2>1, <2>3, ZenonT(40)
  <2>4. QED
    BY <2>2, <2>3, ZenonT(40)
<1>12. Typed(N)
  BY <1>1, <1>9, <1>10, <1>11, ZenonT(40) DEF Typed
<1>13. \A c \in Cell : \A k \in DOMAIN S.locks[c] : S.locks[c][k].txn \in Txn
  BY <1>1, RequestFields DEF Typed
<1>14. Queued(N)
  <2> SUFFICES ASSUME NEW c \in Cell, NEW k \in DOMAIN S.locks[c]
               PROVE  QueuedAt(N, c, k)
    BY <1>10 DEF Queued
  <2>1. QueuedAt(S, c, k)
    BY <1>1 DEF Queued
  <2> DEFINE a == S.locks[c][k]
  <2>2. N.tx[a.txn].in = S.tx[a.txn].in /\ N.tx[a.txn].ps = S.tx[a.txn].ps
    BY <1>11, <1>13, Zenon
  <2>3. QED
    BY <1>10, <2>1, <2>2, ZenonT(40) DEF QueuedAt
<1>15. OneRequest(N)
  BY <1>1, <1>10, ZenonT(40) DEF OneRequest
<1>16. Ordered(N, kind)
  <2> SUFFICES ASSUME NEW c \in Cell, NEW j \in DOMAIN S.locks[c], NEW k \in DOMAIN S.locks[c], j < k,
                      Against(S.locks[c][j], S.locks[c][k].type)
               PROVE  MayPrecede(N, kind, S.locks[c][j], S.locks[c][k])
    BY <1>10, Zenon DEF Ordered
  <2>1. MayPrecede(S, kind, S.locks[c][j], S.locks[c][k])
    BY <1>1, Zenon DEF Ordered
  <2>2. QED
    BY <1>11, <1>13, <2>1, Zenon DEF MayPrecede
<1>17. Asked(N, {})
  <2> SUFFICES ASSUME NEW u \in Txn, NEW i \in DOMAIN N.tx[u].ps \ {}, ~N.tx[u].wound,
                      N.tx[u].ps[i].lock \in {"wait", "yes"}, NEW l \in PieceOf(i).locks
               PROVE  \E k \in DOMAIN N.locks[l[1]] : N.locks[l[1]][k].pid = i
    BY DEF Asked
  <2>1. i \in DOMAIN S.tx[u].ps \ {} /\ ~S.tx[u].wound /\ S.tx[u].ps[i].lock \in {"wait", "yes"}
    BY <1>11
  <2>2. \E k \in DOMAIN S.locks[l[1]] : S.locks[l[1]][k].pid = i
    BY <1>1, <2>1, Zenon DEF Asked
  <2>3. QED
    BY <1>10, <2>2, ZenonT(40)
<1>18. ASSUME NEW u \in Txn
       PROVE  RanTxn(N, u)
  <2>1. RanTxn(S, u)
    BY <1>1
  <2>2. \A e : Current(N, u, e) <=> Current(S, u, e)
    BY <1>10, <1>11 DEF Current
  <2>3. ASSUME NEW i \in DOMAIN N.tx[u].ps
        PROVE  RanPiece(N, u, i)
    <3>1. RanPiece(S, u, i)
      BY <1>11, <2>1, ZenonT(40) DEF RanTxn
    <3>2. QED
      BY <1>11, <2>2, <3>1, ZenonT(40) DEF RanPiece
  <2>4. ~N.tx[u].in => N.tx[u] = NoTx
    BY <1>9, <1>11, <2>1 DEF RanTxn
  <2>5. QED
    BY <1>11, <2>1, <2>3, <2>4, ZenonT(40) DEF RanTxn
<1>19. SiteInv(N, kind)
  BY <1>12, <1>14, <1>15, <1>16, <1>17, <1>18, ZenonT(40) DEF SiteInv, SiteInvBut, Ran
<1>20. QED
  BY <1>7, <1>9, <1>10, <1>19, EvolvesRefl, ZenonT(40) DEF Steps, N

\* Two transactions that were not wounded have not both run pieces of which one
\* writes what the other accesses.
LEMMA Exclusive ==
  ASSUME NEW S, NEW kind, SiteInv(S, kind), NEW t \in Txn, NEW u \in Txn, t # u,
         ~S.tx[t].wound, ~S.tx[u].wound,
         NEW i \in DOMAIN S.tx[t].ps, NEW j \in DOMAIN S.tx[u].ps,
         S.tx[t].ps[i].lock = "yes", S.tx[u].ps[j].lock = "yes"
  PROVE  PieceOf(j).writes \cap (PieceOf(i).reads \cup PieceOf(i).writes) = {}
<1> SUFFICES ASSUME PieceOf(j).writes \cap (PieceOf(i).reads \cup PieceOf(i).writes) # {}
             PROVE  FALSE
  OBVIOUS
<1>1. /\ Typed(S) /\ Queued(S) /\ Asked(S, {}) /\ RanTxn(S, t) /\ RanTxn(S, u)
  BY Zenon DEF SiteInv, SiteInvBut, Ran
<1> DEFINE p == PieceOf(i)
           q == PieceOf(j)
<1>2. p \in Piece /\ q \in Piece /\ p.txn = t /\ q.txn = u
  <2>1. i \in Ids(Piece) /\ j \in Ids(Piece)
    BY <1>1, Zenon DEF Typed, TxnTyped
  <2>2. RanPiece(S, t, i) /\ RanPiece(S, u, j)
    BY <1>1, ZenonT(40) DEF RanTxn
  <2>3. QED
    BY <2>1, <2>2, PieceFields, Zenon DEF RanPiece
<1> HIDE DEF p, q
<1>3. PICK d \in Cell, x, y \in {"R", "W"} : <<d, x>> \in p.locks /\ <<d, y>> \in q.locks /\ "W" \in {x, y}
  BY <1>2, LockingAssumption DEF p, q
<1> DEFINE Q == S.locks[d]
<1>4. PICK k \in DOMAIN Q : Q[k].pid = i
  <2>1. <<d, x>>[1] = d
    BY Zenon
  <2>2. QED
    BY <1>1, <1>3, <2>1, Zenon DEF Asked, p
<1>5. PICK l \in DOMAIN Q : Q[l].pid = j
  <2>1. <<d, y>>[1] = d
    OBVIOUS
  <2>2. QED
    BY <1>1, <1>3, <2>1, ZenonT(40) DEF Asked, q
<1>6. QueuedAt(S, d, k) /\ QueuedAt(S, d, l)
  BY <1>1, Zenon DEF Queued
<1>7. Q[k].txn = t /\ Q[l].txn = u
  BY <1>2, <1>4, <1>5, <1>6, Zenon DEF QueuedAt, p, q
<1>8. Held(Q, k) /\ Held(Q, l)
  BY <1>4, <1>5, <1>6, <1>7, Zenon DEF QueuedAt
<1>9. Q[k].type = "W" \/ Q[l].type = "W"
  <2>1. CASE x = "W"
    BY <1>3, <1>4, <1>6, <2>1, ZenonT(40) DEF QueuedAt, p
  <2>2. CASE y = "W"
    BY <1>3, <1>5, <1>6, <2>2, ZenonT(40) DEF QueuedAt, q
  <2>3. QED
    BY <1>3, <2>1, <2>2, Zenon
<1>10. k \in Nat /\ l \in Nat /\ k # 0 /\ l # 0
  <2>1. S.locks \in [Cell -> Seq(Request)]
    BY <1>1 DEF Typed
  <2>2. k \in 1 .. Len(Q) /\ l \in 1 .. Len(Q) /\ k \in Nat /\ l \in Nat
    BY <2>1, RequestFields, ZenonT(40)
  <2>3. QED
    BY <2>2
<1>11. k # l
  BY <1>7
<1>12. k \in 1 .. l - 1 \/ l \in 1 .. k - 1
  BY <1>10, <1>11
<1> HIDE DEF Q
<1>13. QED
  BY <1>8, <1>9, <1>12, ZenonT(40) DEF Held, Against

\* The site without t, with the rows V.
Left(S, t, V) ==
  [locks |-> WithoutPieces(S.locks, DOMAIN S.tx[t].ps), tx |-> [S.tx EXCEPT ![t] = NoTx],
   val |-> V, ok |-> S.ok]

\* What the others have read is still in the rows V.
Unread(S, t, V) ==
  \A u \in Txn \ {t} : \A i \in DOMAIN S.tx[u].ps :
     ~S.tx[u].wound /\ S.tx[u].ps[i].lock = "yes" => \A e \in S.tx[u].ps[i].out : V[e[1]] = S.val[e[1]]

\* Removing a transaction and its requests keeps the invariant when nobody has
\* read what is written.
LEMMA LeftInv ==
  ASSUME NEW S, NEW kind, NEW t \in Txn, SiteInv(S, kind), NEW V \in [Cell -> Values], Unread(S, t, V)
  PROVE  SiteInv(Left(S, t, V), kind)
<1> DEFINE N == Left(S, t, V)
           I == DOMAIN S.tx[t].ps
<1>1. /\ Typed(S) /\ Queued(S) /\ OneRequest(S) /\ Ordered(S, kind) /\ Asked(S, {})
      /\ \A u \in Txn : RanTxn(S, u)
  BY ZenonT(40) DEF SiteInv, SiteInvBut, Ran
<1>2. N = [locks |-> WithoutPieces(S.locks, I), tx |-> [S.tx EXCEPT ![t] = NoTx], val |-> V, ok |-> S.ok]
  BY DEF Left
<1> HIDE DEF N
<1>3. N.locks = WithoutPieces(S.locks, I) /\ N.tx = [S.tx EXCEPT ![t] = NoTx] /\ N.val = V /\ N.ok = S.ok
  BY <1>2
<1>4. S.tx = [u \in Txn |-> S.tx[u]] /\ S.locks \in [Cell -> Seq(Request)] /\ S.ok \in BOOLEAN
  BY <1>1 DEF Typed
<1>5. N.tx = [u \in Txn |-> N.tx[u]] /\ N.tx[t] = NoTx /\ \A u \in Txn \ {t} : N.tx[u] = S.tx[u]
  BY <1>3, <1>4, ZenonT(40)
<1>6. /\ LeftOf(S.locks, N.locks)
      /\ \A c \in Cell : \A n \in DOMAIN N.locks[c] : N.locks[c][n].pid \notin I
      /\ \A c \in Cell : \A k \in DOMAIN S.locks[c] : S.locks[c][k].pid \notin I =>
            \E n \in DOMAIN N.locks[c] : N.locks[c][n] = S.locks[c][k]
  <2>1. N.locks = WithoutPieces(S.locks, I)
    BY <1>3
  <2>2. S.locks \in [Cell -> Seq(Request)]
    BY <1>4, Zenon
  <2> HIDE DEF I
  <2>3. QED
    BY <2>1, <2>2, WithoutIs
<1>7. Typed(N)
  <2>1. N = [locks |-> N.locks, tx |-> N.tx, val |-> N.val, ok |-> N.ok]
    <3> DEFINE A == WithoutPieces(S.locks, I)
               B == [S.tx EXCEPT ![t] = NoTx]
    <3>1. N = [locks |-> A, tx |-> B, val |-> V, ok |-> S.ok]
      BY <1>2, Zenon
    <3> HIDE DEF A, B
    <3>2. QED
      BY <3>1
  <2>2. N.locks \in [Cell -> Seq(Request)]
    BY <1>6, Zenon DEF LeftOf
  <2>3. \A u \in Txn : TxnTyped(N.tx[u])
    BY <1>1, <1>5, NoTxFields DEF Typed
  <2>4. QED
    BY <1>3, <1>4, <1>5, <2>1, <2>2, <2>3, ZenonT(40) DEF Typed
<1>8. Undisturbed(S, N)
  <2> SUFFICES ASSUME NEW c \in Cell, NEW n \in DOMAIN N.locks[c]
               PROVE  N.tx[N.locks[c][n].txn] = S.tx[N.locks[c][n].txn]
    BY Zenon DEF Undisturbed
  <2>1. PICK k \in DOMAIN S.locks[c] : N.locks[c][n] = S.locks[c][k]
    BY <1>6, ZenonT(40) DEF LeftOf
  <2>2. QueuedAt(S, c, k) /\ S.locks[c][k].txn \in Txn
    BY <1>1, <1>4, RequestFields, Zenon DEF Queued
  <2>3. N.locks[c][n].txn # t
    BY <1>6, <2>1, <2>2, Zenon DEF QueuedAt
  <2>4. QED
    BY <1>5, <2>1, <2>2, <2>3, Zenon
<1>9. Queued(N) /\ OneRequest(N) /\ Ordered(N, kind)
  BY <1>1, <1>6, <1>8, Thinned, Zenon
<1>10. Asked(N, {})
  <2> SUFFICES ASSUME NEW u \in Txn, NEW i \in DOMAIN N.tx[u].ps,
                      ~N.tx[u].wound, N.tx[u].ps[i].lock \in {"wait", "yes"}, NEW l \in PieceOf(i).locks
               PROVE  \E k \in DOMAIN N.locks[l[1]] : N.locks[l[1]][k].pid = i
    BY Zenon DEF Asked
  <2>1. u # t /\ N.tx[u] = S.tx[u]
    BY <1>5, NoTxFields
  <2>2. PICK k \in DOMAIN S.locks[l[1]] : S.locks[l[1]][k].pid = i
    BY <1>1, <2>1, ZenonT(40) DEF Asked
  <2>3. l[1] \in Cell
    <3>1. i \in Ids(Piece)
      BY <1>1, <2>1, Zenon DEF Typed, TxnTyped
    <3>2. QED
      BY <3>1, PieceFields
  <2>4. i \notin I
    <3>1. PieceOf(i).txn = u
      BY <1>1, <2>1, Zenon DEF RanTxn, RanPiece
    <3>2. i \in I => PieceOf(i).txn = t
      BY <1>1, ZenonT(40) DEF RanTxn, RanPiece
    <3>3. QED
      BY <2>1, <3>1, <3>2, Zenon
  <2>5. QED
    BY <1>6, <2>2, <2>3, <2>4, ZenonT(40)
<1>11. ASSUME NEW u \in Txn
       PROVE  RanTxn(N, u)
  <2>1. CASE u = t
    <3>1. N.tx[u] = NoTx /\ NoTx.updates = {} /\ DOMAIN NoTx.ps = {}
      BY <1>5, <2>1, NoTxFields
    <3>2. QED
      BY <3>1, ZenonT(40) DEF RanTxn
  <2>2. CASE u # t
    <3>1. RanTxn(S, u) /\ N.tx[u] = S.tx[u]
      BY <1>1, <1>5, <2>2, Zenon
    <3>2. ASSUME NEW i \in DOMAIN N.tx[u].ps
          PROVE  RanPiece(N, u, i)
      <4>1. RanPiece(S, u, i)
        BY <3>1, ZenonT(40) DEF RanTxn
      <4>2. ASSUME ~S.tx[u].wound, S.tx[u].ps[i].lock = "yes", NEW e \in S.tx[u].ps[i].out
            PROVE  Current(N, u, e)
        <5>1. Current(S, u, e)
          BY <4>1, <4>2, ZenonT(40) DEF RanPiece
        <5>2. V[e[1]] = S.val[e[1]]
          BY <2>2, <3>1, <4>2 DEF Unread
        <5>3. QED
          BY <1>3, <3>1, <5>1, <5>2 DEF Current
      <4>3. QED
        BY <3>1, <4>1, <4>2, ZenonT(40) DEF RanPiece
    <3>3. QED
      BY <3>1, <3>2, Zenon DEF RanTxn
  <2>3. QED
    BY <2>1, <2>2
<1>12. QED
  BY <1>7, <1>9, <1>10, <1>11 DEF SiteInv, SiteInvBut, Ran, N

\* So does running the pieces that get the locks it leaves.
LEMMA EndsInv ==
  ASSUME NEW S, NEW kind, NEW t \in Txn, SiteInv(S, kind), NEW V \in [Cell -> Values], Unread(S, t, V)
  PROVE  Ends(S, Proceed(Left(S, t, V)), kind, t, V)
<1> DEFINE M == Left(S, t, V)
           N == Proceed(M)
<1>1. M = [locks |-> WithoutPieces(S.locks, DOMAIN S.tx[t].ps), tx |-> [S.tx EXCEPT ![t] = NoTx],
           val |-> V, ok |-> S.ok]
  BY Zenon DEF Left
<1>2. SiteInv(M, kind)
  BY LeftInv
<1> HIDE DEF M
<1>3. M.tx = [S.tx EXCEPT ![t] = NoTx] /\ M.val = V /\ M.ok = S.ok
  BY <1>1
<1>4. S.tx = [u \in Txn |-> S.tx[u]]
  BY DEF SiteInv, SiteInvBut, Typed
<1>5. M.tx[t] = NoTx /\ \A u \in Txn \ {t} : M.tx[u] = S.tx[u]
  BY <1>3, <1>4
<1>6. SiteInv(N, kind) /\ \A u \in Txn : Evolves(M.tx[u], N.tx[u])
  BY <1>2, ProceedInv
<1>7. N.val = M.val /\ N.ok = M.ok
  BY <1>2, ProceedIs DEF SiteInv, SiteInvBut
<1> HIDE DEF N
<1>8. N.tx[t] = NoTx
  <2>1. ~N.tx[t].in
    BY <1>5, <1>6, NoTxFields, Zenon DEF Evolves
  <2>2. QED
    BY <1>6, <2>1, Zenon DEF SiteInv, SiteInvBut, Ran, RanTxn
<1>9. QED
  BY <1>3, <1>5, <1>6, <1>7, <1>8, Zenon DEF Ends, M, N

\* release_piece_map, when no verify fails.
LEMMA UnlockIs ==
  ASSUME NEW S, Typed(S), NEW t \in Txn, NEW V, S.tx[t].in, Idle(S.tx[t])
  PROVE  Unlock([S EXCEPT !.val = V], t) = Proceed(Left(S, t, V))
<1> DEFINE I == DOMAIN S.tx[t].ps
           A == WithoutPieces(S.locks, I)
           B == [S.tx EXCEPT ![t] = NoTx]
           T == [S EXCEPT !.val = V]
           o == S.ok /\ S.tx[t].in /\ \A i \in I : S.tx[t].ps[i].lock # "wait"
           T1 == [T EXCEPT !.ok = o]
           T2 == [T1 EXCEPT !.locks = A]
           T3 == [T2 EXCEPT !.tx = B]
<1>1. S = [locks |-> S.locks, tx |-> S.tx, val |-> S.val, ok |-> S.ok] /\ S.ok \in BOOLEAN
  BY DEF Typed
<1>2. T = [locks |-> S.locks, tx |-> S.tx, val |-> V, ok |-> S.ok]
  BY <1>1
<1>3. o = S.ok
  BY <1>1 DEF Idle
<1> HIDE DEF T, o, A, B
<1>4. T.locks = S.locks /\ T.tx = S.tx /\ T.ok = S.ok /\ T.val = V
  BY <1>2
<1>5. T1 = [locks |-> S.locks, tx |-> S.tx, val |-> V, ok |-> S.ok]
  BY <1>2, <1>3
<1> HIDE DEF T1
<1>6. T2 = [locks |-> A, tx |-> S.tx, val |-> V, ok |-> S.ok]
  BY <1>5
<1> HIDE DEF T2
<1>7. T3 = [locks |-> A, tx |-> B, val |-> V, ok |-> S.ok]
  BY <1>6
<1>8. [T EXCEPT !.ok = @ /\ T.tx[t].in /\ \A i \in DOMAIN T.tx[t].ps : T.tx[t].ps[i].lock # "wait",
                !.locks = WithoutPieces(@, DOMAIN T.tx[t].ps), !.tx[t] = NoTx]
        = [T EXCEPT !.ok = o, !.locks = A, !.tx = B]
  BY <1>4, Zenon DEF o, A, B
<1>9. [T EXCEPT !.ok = o, !.locks = A, !.tx = B] = T3
  BY <1>2 DEF T1, T2
<1>10. Unlock(T, t) = Proceed(T3)
  BY <1>8, <1>9 DEF Unlock
<1> HIDE DEF T3
<1>11. QED
  BY <1>7, <1>10, ZenonT(40) DEF Left, T, A, B

\* Txn2PL::abort of a transaction with no waiting piece keeps the invariant.
LEMMA AbortInv ==
  ASSUME NEW S, NEW kind, NEW t \in Txn, SiteInv(S, kind), S.tx[t].in, Idle(S.tx[t])
  PROVE  Ends(S, AbortTxn(S, t), kind, t, S.val)
<1>1. Typed(S)
  BY DEF SiteInv, SiteInvBut
<1>2. S = [S EXCEPT !.val = S.val] /\ S.val \in [Cell -> Values]
  BY <1>1 DEF Typed
<1>3. Unlock([S EXCEPT !.val = S.val], t) = Proceed(Left(S, t, S.val))
  BY <1>1, UnlockIs
<1>4. AbortTxn(S, t) = Proceed(Left(S, t, S.val))
  BY <1>2, <1>3, ZenonT(40) DEF AbortTxn
<1>5. Unread(S, t, S.val)
  BY DEF Unread
<1>6. QED
  BY <1>2, <1>4, <1>5, EndsInv

\* Txn2PL::commit of a transaction that still has its locks keeps the invariant:
\* nobody has read what it writes.
LEMMA CommitInv ==
  ASSUME NEW S, NEW kind, NEW t \in Txn, SiteInv(S, kind), S.tx[t].in, Idle(S.tx[t]), ~S.tx[t].wound
  PROVE  Ends(S, CommitTxn(S, t), kind, t, Written(S, t))
<1> DEFINE V == Written(S, t)
<1>1. Typed(S) /\ \A u \in Txn : RanTxn(S, u)
  BY DEF SiteInv, SiteInvBut, Ran
<1>2. V \in [Cell -> Values]
  BY <1>1 DEF Typed, Written, Values
<1>3. CommitTxn(S, t) = Unlock([S EXCEPT !.val = V], t)
  BY <1>1, ZenonT(40) DEF CommitTxn, Written, Typed
<1>4. \A c \in Cell : c \notin S.tx[t].updates => V[c] = S.val[c]
  BY DEF Written
<1> HIDE DEF V
<1>5. CommitTxn(S, t) = Proceed(Left(S, t, V))
  BY <1>1, <1>3, UnlockIs, ZenonT(40)
<1>6. Unread(S, t, V)
  <2> SUFFICES ASSUME NEW u \in Txn \ {t}, NEW i \in DOMAIN S.tx[u].ps,
                      ~S.tx[u].wound, S.tx[u].ps[i].lock = "yes", NEW e \in S.tx[u].ps[i].out
               PROVE  V[e[1]] = S.val[e[1]]
    BY DEF Unread
  <2>1. e[1] \in PieceOf(i).reads
    BY <1>1, Zenon DEF RanTxn, RanPiece
  <2>2. e[1] \in Cell
    <3>1. i \in Ids(Piece)
      BY <1>1, ZenonT(40) DEF Typed, TxnTyped
    <3>2. QED
      BY <2>1, <3>1, PieceFields, Zenon
  <2>3. SUFFICES ASSUME e[1] \in S.tx[t].updates PROVE FALSE
    BY <1>4, <2>2, ZenonT(40)
  <2>4. PICK j \in DOMAIN S.tx[t].ps : e[1] \in PieceOf(j).writes /\ S.tx[t].ps[j].lock = "yes"
    BY <1>1, <2>3, ZenonT(40) DEF RanTxn
  <2>5. PieceOf(j).writes \cap (PieceOf(i).reads \cup PieceOf(i).writes) = {}
    BY <2>4, Exclusive, ZenonT(40)
  <2>6. QED
    BY <2>1, <2>4, <2>5, ZenonT(40)
<1>7. QED
  BY <1>2, <1>5, <1>6, EndsInv, ZenonT(40) DEF V

\* The timeout of a lock request keeps the invariant.
LEMMA TimeoutInv ==
  ASSUME NEW S, NEW kind, NEW t \in Txn, SiteInv(S, kind),
         NEW i \in DOMAIN S.tx[t].ps, S.tx[t].ps[i].lock = "wait"
  PROVE  Steps(S, Timeout(S, i), kind, t) /\ Evolves(S.tx[t], Timeout(S, i).tx[t])
<1> DEFINE I == {i}
           M == Refuse(S, I)
           N == Proceed(M)
<1>1. Typed(S) /\ \A u \in Txn : RanTxn(S, u)
  BY DEF SiteInv, SiteInvBut, Ran
<1>2. Waiting(S, I)
  <2> SUFFICES ASSUME NEW u \in Txn, i \in DOMAIN S.tx[u].ps
               PROVE  u = t
    BY DEF Waiting
  <2>1. RanPiece(S, t, i) /\ RanPiece(S, u, i)
    BY <1>1, Zenon DEF RanTxn
  <2>2. QED
    BY <2>1, Zenon DEF RanPiece
<1>3. Timeout(S, i) = N
  BY DEF Timeout
<1> HIDE DEF I
<1>4. SiteInvBut(M, kind, {} \ I) /\ \A u \in Txn : Evolves(S.tx[u], M.tx[u])
  BY <1>2, RefuseInv, Zenon DEF SiteInv
<1>5. M.val = S.val /\ M.ok = S.ok
  BY <1>1, RefuseIs, ZenonT(40)
<1>6. SiteInv(M, kind)
  <2>1. {} \ I = {}
    OBVIOUS
  <2>2. QED
    BY <1>4, <2>1 DEF SiteInv
<1> HIDE DEF M
<1>7. SiteInv(N, kind) /\ \A u \in Txn : Evolves(M.tx[u], N.tx[u])
  BY <1>6, ProceedInv, ZenonT(40)
<1>8. N.val = M.val /\ N.ok = M.ok
  BY <1>6, ProceedIs, ZenonT(40) DEF SiteInv, SiteInvBut
<1> HIDE DEF N
<1>9. \A u \in Txn : Evolves(S.tx[u], N.tx[u])
  BY <1>4, <1>7, EvolvesTrans
<1>10. QED
  BY <1>3, <1>5, <1>7, <1>8, <1>9, ZenonT(40) DEF Steps


\* Every operation of a site, called as the protocol calls it, keeps the
\* invariant of the site.
THEOREM SiteKeepsItsInvariant == SiteKeeps
<1>1. StartKeeps
  BY StartPieInv, Zenon DEF StartKeeps
<1>2. PrepareKeeps
  BY PrepareInv, Zenon DEF PrepareKeeps, Prepares
<1>3. AbortKeeps /\ CommitKeeps
  BY AbortInv, CommitInv, Zenon DEF AbortKeeps, CommitKeeps
<1>4. TimeoutKeeps
  BY TimeoutInv, Zenon DEF TimeoutKeeps
<1>5. Excludes
  BY Exclusive, ZenonT(40) DEF Excludes
<1>6. QED
  BY <1>1, <1>2, <1>3, <1>4, <1>5, ZenonT(40) DEF SiteKeeps
=============================================================================
