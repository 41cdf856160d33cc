--------------------------- MODULE SnapshotProofs ---------------------------
(***************************************************************************)
(* The members of a snapshot group stay in order, and what a snapshot shows*)
(* never changes: for any number of tables, groups, rows and versions.     *)
(***************************************************************************)
EXTENDS SnapshotTable, SequenceTheorems, TLAPS

-----------------------------------------------------------------------------
(* The list of a group *)

\* An interval determines its upper end.
LEMMA SameEnd ==
  ASSUME NEW a \in Nat, NEW b \in Nat, 1..a = 1..b
  PROVE  a = b
<1>2. a # 0 => a \in 1..b
  BY SMTT(30)
<1>3. b # 0 => b \in 1..a
  BY SMTT(30)
<1> QED
  BY <1>2, <1>3, SMTT(30)

\* Link returns the list with one member more, before the position p.
LEMMA LinkShape ==
  ASSUME NEW S, NEW s \in Seq(S), NEW p \in 1..Len(s), NEW n \in S
  PROVE  /\ Link(s, p, n) \in Seq(S)
         /\ DOMAIN Link(s, p, n) = 1..(Len(s) + 1)
         /\ Len(Link(s, p, n)) = Len(s) + 1
         /\ \A i \in 1..(Len(s) + 1) :
              Link(s, p, n)[i] = IF i < p THEN s[i] ELSE IF i = p THEN n ELSE s[i - 1]
<1> DEFINE q == Link(s, p, n)
<1>1. Len(s) \in Nat /\ s \in [1..Len(s) -> S]
  BY LenProperties
<1>2. q \in [1..(Len(s) + 1) -> S]
  BY <1>1 DEF Link
<1>3. q \in Seq(S)
  BY <1>1, <1>2, SeqDef
<1>4. DOMAIN q = 1..(Len(s) + 1)
  BY DEF Link
<1>5. Len(q) = Len(s) + 1
  BY <1>1, <1>3, <1>4, LenProperties
<1> QED
  BY <1>3, <1>4, <1>5 DEF Link

\* Unlink returns the list without the member at the position p.
LEMMA UnlinkShape ==
  ASSUME NEW S, NEW s \in Seq(S), NEW p \in 1..Len(s)
  PROVE  /\ Unlink(s, p) \in Seq(S)
         /\ DOMAIN Unlink(s, p) = 1..(Len(s) - 1)
         /\ Len(Unlink(s, p)) = Len(s) - 1
         /\ \A i \in 1..(Len(s) - 1) :
              Unlink(s, p)[i] = IF i < p THEN s[i] ELSE s[i + 1]
<1> DEFINE q == Unlink(s, p)
<1>1. Len(s) \in Nat /\ s \in [1..Len(s) -> S] /\ Len(s) - 1 \in Nat
  BY LenProperties
<1>2. q \in [1..(Len(s) - 1) -> S]
  BY <1>1 DEF Unlink
<1>3. q \in Seq(S)
  BY <1>1, <1>2, SeqDef
<1>4. DOMAIN q = 1..(Len(s) - 1)
  BY DEF Unlink
<1>5. Len(q) \in Nat /\ 1..Len(q) = 1..(Len(s) - 1)
  BY <1>3, <1>4, LenProperties
<1>6. Len(q) = Len(s) - 1
  BY <1>1, <1>5, SameEnd
<1> QED
  BY <1>3, <1>4, <1>6 DEF Unlink

Ordered(s, v) == \A i, j \in DOMAIN s : i <= j => v[s[i]] <= v[s[j]]
InOnce(s) == \A i, j \in DOMAIN s : s[i] = s[j] => i = j
Occurs(s, t) == \E i \in DOMAIN s : s[i] = t

\* A new member makes the list one with the old members and the new one, each
\* of them once.
LEMMA LinkMembers ==
  ASSUME NEW S, NEW s \in Seq(S), NEW p \in 1..Len(s), NEW n \in S,
         InOnce(s), ~Occurs(s, n)
  PROVE  /\ InOnce(Link(s, p, n))
         /\ \A t : Occurs(Link(s, p, n), t) <=> t = n \/ Occurs(s, t)
<1> DEFINE q == Link(s, p, n)
<1>1. Len(s) \in Nat /\ DOMAIN s = 1..Len(s)
  BY LenProperties
<1>2. /\ DOMAIN q = 1..(Len(s) + 1)
      /\ \A i \in 1..(Len(s) + 1) : q[i] = IF i < p THEN s[i] ELSE IF i = p THEN n ELSE s[i - 1]
  BY LinkShape
<1> HIDE DEF q
<1>3. ASSUME NEW i \in DOMAIN q, NEW j \in DOMAIN q, q[i] = q[j] PROVE i = j
  <2> DEFINE o(k) == IF k < p THEN k ELSE k - 1
  <2>1. \A k \in DOMAIN q : k # p => o(k) \in DOMAIN s /\ q[k] = s[o(k)] /\ q[k] # n
    BY <1>1, <1>2, SMTT(30) DEF Occurs
  <2>2. q[p] = n
    BY <1>1, <1>2, SMTT(30)
  <2>3. CASE i = p \/ j = p
    BY <1>3, <2>1, <2>2, <2>3
  <2>4. CASE i # p /\ j # p
    <3>1. o(i) = o(j)
      BY <1>3, <2>1, <2>4 DEF InOnce
    <3> QED
      BY <1>1, <1>2, <2>4, <3>1, SMTT(30)
  <2> QED
    BY <2>3, <2>4
<1>4. ASSUME NEW t, Occurs(q, t) PROVE t = n \/ Occurs(s, t)
  BY <1>1, <1>2, <1>4, SMTT(30) DEF Occurs
<1>5. Occurs(q, n)
  BY <1>1, <1>2, SMTT(30) DEF Occurs
<1>6. ASSUME NEW t, Occurs(s, t) PROVE Occurs(q, t)
  <2>1. PICK i \in 1..Len(s) : s[i] = t
    BY <1>1, <1>6 DEF Occurs
  <2>2. CASE i < p
    BY <1>1, <1>2, <2>1, <2>2, SMTT(30) DEF Occurs
  <2>3. CASE i >= p
    <3>1. i + 1 \in DOMAIN q /\ q[i + 1] = t
      BY <1>1, <1>2, <2>1, <2>3, SMTT(30)
    <3> QED
      BY <3>1 DEF Occurs
  <2> QED
    BY <1>1, <2>2, <2>3, SMTT(30)
<1> QED
  BY <1>3, <1>4, <1>5, <1>6 DEF q, InOnce

\* Without the member at p the list has the others, each of them once.
LEMMA UnlinkMembers ==
  ASSUME NEW S, NEW s \in Seq(S), NEW p \in 1..Len(s), InOnce(s)
  PROVE  /\ InOnce(Unlink(s, p))
         /\ \A t : Occurs(Unlink(s, p), t) <=> t # s[p] /\ Occurs(s, t)
<1> DEFINE q == Unlink(s, p)
<1>1. Len(s) \in Nat /\ DOMAIN s = 1..Len(s)
  BY LenProperties
<1>2. /\ DOMAIN q = 1..(Len(s) - 1)
      /\ \A i \in 1..(Len(s) - 1) : q[i] = IF i < p THEN s[i] ELSE s[i + 1]
  BY UnlinkShape
<1> HIDE DEF q
<1>3. ASSUME NEW i \in DOMAIN q, NEW j \in DOMAIN q, q[i] = q[j] PROVE i = j
  <2> DEFINE o(k) == IF k < p THEN k ELSE k + 1
  <2>1. ASSUME NEW k \in DOMAIN q PROVE o(k) \in DOMAIN s /\ q[k] = s[o(k)]
    <3>1. k \in 1..(Len(s) - 1) /\ q[k] = IF k < p THEN s[k] ELSE s[k + 1]
      BY <1>2
    <3>2. o(k) \in 1..Len(s)
      BY <1>1, <3>1, SMTT(30)
    <3> QED
      BY <1>1, <3>1, <3>2
  <2>2. o(i) = o(j)
    BY <1>3, <2>1 DEF InOnce
  <2>3. i \in Int /\ j \in Int /\ p \in Int
    BY <1>1, <1>2
  <2> QED
    BY <2>2, <2>3, SMTT(30)
<1>4. ASSUME NEW t, Occurs(q, t) PROVE t # s[p] /\ Occurs(s, t)
  <2>1. PICK i \in 1..(Len(s) - 1) : q[i] = t
    BY <1>2, <1>4 DEF Occurs
  <2>2. CASE i < p
    BY <1>1, <1>2, <2>1, <2>2, SMTT(30) DEF Occurs, InOnce
  <2>3. CASE i >= p
    <3>1. i + 1 \in DOMAIN s /\ s[i + 1] = t /\ i + 1 # p
      BY <1>1, <1>2, <2>1, <2>3, SMTT(30)
    <3> QED
      BY <1>1, <3>1, SMTT(30) DEF Occurs, InOnce
  <2> QED
    BY <1>1, <2>1, <2>2, <2>3, SMTT(30)
<1>5. ASSUME NEW t, t # s[p], Occurs(s, t) PROVE Occurs(q, t)
  <2>1. PICK i \in 1..Len(s) : s[i] = t
    BY <1>1, <1>5 DEF Occurs
  <2>2. CASE i < p
    BY <1>1, <1>2, <2>1, <2>2, SMTT(30) DEF Occurs
  <2>3. CASE i > p
    <3>1. i - 1 \in DOMAIN q /\ q[i - 1] = t
      BY <1>1, <1>2, <2>1, <2>3, SMTT(30)
    <3> QED
      BY <3>1 DEF Occurs
  <2> QED
    BY <1>1, <1>5, <2>1, <2>2, <2>3, SMTT(30)
<1> QED
  BY <1>3, <1>4, <1>5 DEF q, InOnce

-----------------------------------------------------------------------------
(* What a member shows *)

\* The marks of values that were not removed are invisible at the versions up
\* to w, as the mark is w + 1.
LEMMA MarkedShown ==
  ASSUME NEW D \in SUBSET Entry, NEW E \in SUBSET D, NEW v \in Nat, NEW w \in Nat, v <= w,
         \A e \in E : e.removed_at = Never
  PROVE  Shown(Marked(D, E, w + 1), v) = Shown(D, v)
<1>1. ASSUME NEW d \in Marked(D, E, w + 1), valid_at(d, v)
      PROVE  \E e \in D : valid_at(e, v) /\ e.row = d.row
  <2>1. CASE d \in D
    BY <1>1, <2>1
  <2>2. CASE d \notin D
    <3>1. PICK e \in E : d = [e EXCEPT !.removed_at = w + 1]
      BY <2>2 DEF Marked
    <3>2. e \in Entry /\ e.removed_at = Never
      OBVIOUS
    <3>3. d.row = e.row /\ d.created_at = e.created_at
      BY <3>1, <3>2 DEF Entry
    <3> QED
      BY <1>1, <3>2, <3>3 DEF valid_at
  <2> QED
    BY <2>1, <2>2
<1>2. ASSUME NEW e \in D, valid_at(e, v)
      PROVE  \E d \in Marked(D, E, w + 1) : valid_at(d, v) /\ d.row = e.row
  <2>1. CASE e \notin E
    BY <1>2, <2>1 DEF Marked
  <2>2. CASE e \in E
    <3> DEFINE d == [e EXCEPT !.removed_at = w + 1]
    <3>1. d \in Marked(D, E, w + 1)
      BY <2>2 DEF Marked
    <3>2. e \in Entry
      OBVIOUS
    <3>3. d.row = e.row /\ d.created_at = e.created_at /\ d.removed_at = w + 1
      BY <3>2 DEF Entry
    <3>4. valid_at(d, v)
      BY <1>2, <3>3, SMTT(30) DEF valid_at
    <3> QED
      BY <3>1, <3>3, <3>4
  <2> QED
    BY <2>1, <2>2
<1> QED
  BY <1>1, <1>2 DEF Shown, Visible

\* A value that is younger than v is invisible at v.
LEMMA InsertedShown ==
  ASSUME NEW D, NEW x, NEW v \in Nat, x.created_at \in Nat, x.created_at > v
  PROVE  Shown(D \cup {x}, v) = Shown(D, v)
<1>1. ~valid_at(x, v)
  BY SMTT(30) DEF valid_at
<1> QED
  BY <1>1 DEF Shown, Visible

\* A collection keeps what a remaining member shows.
LEMMA KeptShown ==
  ASSUME NEW D \in SUBSET Entry, NEW M \in SUBSET Table, NEW u \in M, ver \in [Table -> Nat]
  PROVE  Shown(Kept(D, M), ver[u]) = Shown(D, ver[u])
<1>1. ASSUME NEW e \in D, valid_at(e, ver[u]) PROVE e \in Kept(D, M)
  <2>1. e.created_at \in Nat /\ e.removed_at \in Nat \cup {Never} /\ ver[u] \in Nat
    BY DEF Entry
  <2>2. e.created_at <= ver[u] /\ (e.removed_at = Never \/ e.removed_at >= ver[u])
    BY <1>1, <2>1, SMTT(30) DEF valid_at, Never
  <2> QED
    BY <2>2 DEF Kept
<1>2. Kept(D, M) \subseteq D
  BY DEF Kept
<1> QED
  BY <1>1, <1>2 DEF Shown, Visible

\* The list with one member.
LEMMA OneMember ==
  ASSUME NEW t \in Table
  PROVE  /\ <<t>> \in Seq(Table) /\ <<t>> # <<>> /\ <<t>>[Len(<<t>>)] = t /\ InOnce(<<t>>)
         /\ \A u : Occurs(<<t>>, u) <=> u = t
         /\ \A v : v[t] \in Nat => Ordered(<<t>>, v)
<1>1. /\ <<t>> \in Seq(Table) /\ Len(<<t>>) = 1 /\ DOMAIN <<t>> = 1..1
      /\ <<t>>[1] = t /\ <<t>> # <<>>
  BY SMTT(30)
<1>2. 1 \in DOMAIN <<t>> /\ \A i \in DOMAIN <<t>> : i = 1
  BY <1>1, SMTT(30)
<1>3. ASSUME NEW v, v[t] \in Nat PROVE Ordered(<<t>>, v)
  <2>1. v[t] <= v[t]
    BY <1>3, SMTT(30)
  <2> QED
    BY <1>1, <1>2, <2>1 DEF Ordered
<1> QED
  BY <1>1, <1>2, <1>3 DEF InOnce, Occurs

USE SnapshotAssumption

-----------------------------------------------------------------------------
(* The invariant, group by group *)

Types ==
  /\ grp \in [Table -> Group \cup {NoGroup}]
  /\ ver \in [Table -> Nat]
  /\ list \in [Group -> Seq(Table)]
  /\ writer \in [Group -> Table \cup {NoTable}]
  /\ data \in [Group -> SUBSET Entry]

OfGroup(g) ==
  /\ \A t \in Table : grp[t] = g <=> Occurs(list[g], t)
  /\ InOnce(list[g])
  /\ list[g] = <<>> => data[g] = {}
  /\ Ordered(list[g], ver)
  /\ writer[g] # NoTable => list[g] # <<>> /\ list[g][Len(list[g])] = writer[g]
  /\ writer[g] # NoTable =>
       \A e \in data[g] : e.created_at <= ver[writer[g]] /\ e.removed_at <= ver[writer[g]]

\* The invariant says the same of every group.
LEMMA SInvByGroup == SInv <=> Types /\ \A g \in Group : OfGroup(g)
<1>1. ASSUME NEW g, NEW t PROVE t \in Members(g) <=> Occurs(list[g], t)
  BY DEF Members, Occurs
<1> QED
  BY <1>1 DEF SInv, Linked, GroupSane, DataOld, Types, OfGroup, InOnce, Ordered

\* The same after a step.
LEMMA SInvByGroupNext ==
  ASSUME Types', \A g \in Group : OfGroup(g)'
  PROVE  SInv'
<1>1. ASSUME NEW g, NEW t PROVE t \in Members(g)' <=> Occurs(list'[g], t)
  BY DEF Members, Occurs
<1> QED
  BY <1>1 DEF SInv, Linked, GroupSane, DataOld, Types, OfGroup, InOnce, Ordered

\* The writer is the last member and has the largest version.
LEMMA WriterLast ==
  ASSUME Types, NEW g \in Group, OfGroup(g), writer[g] # NoTable
  PROVE  /\ Len(list[g]) \in DOMAIN list[g]
         /\ list[g][Len(list[g])] = writer[g]
         /\ writer[g] \in Table /\ grp[writer[g]] = g
         /\ \A u \in Table : grp[u] = g => ver[u] <= ver[writer[g]]
<1> DEFINE s == list[g]
<1>1. s \in Seq(Table) /\ s # <<>> /\ s[Len(s)] = writer[g] /\ writer[g] \in Table
  BY DEF Types, OfGroup
<1>2. Len(s) \in Nat \ {0} /\ DOMAIN s = 1..Len(s)
  BY <1>1, EmptySeq, LenProperties
<1>3. Len(s) \in DOMAIN s
  BY <1>2
<1>4. grp[writer[g]] = g
  BY <1>1, <1>3 DEF OfGroup, Occurs
<1>5. ASSUME NEW u \in Table, grp[u] = g PROVE ver[u] <= ver[writer[g]]
  <2>1. PICK i \in DOMAIN s : s[i] = u
    BY <1>5 DEF OfGroup, Occurs
  <2>2. i <= Len(s)
    BY <1>2
  <2> QED
    BY <1>1, <1>3, <2>1, <2>2 DEF OfGroup, Ordered
<1> QED
  BY <1>1, <1>3, <1>4, <1>5

\* A group that a step does not touch stays as it is.
LEMMA Elsewhere ==
  ASSUME Types, NEW h \in Group, OfGroup(h),
         list'[h] = list[h], writer'[h] = writer[h], data'[h] = data[h],
         \A u \in Table : grp'[u] = h <=> grp[u] = h,
         \A u \in Table : grp[u] = h => ver'[u] = ver[u]
  PROVE  OfGroup(h)'
<1>1. \A i \in DOMAIN list[h] : list[h][i] \in Table
  BY ElementOfSeq, LenProperties DEF Types
<1>2. \A i \in DOMAIN list[h] : ver'[list[h][i]] = ver[list[h][i]]
  BY <1>1 DEF OfGroup, Occurs
<1>3. Ordered(list[h], ver')
  BY <1>2 DEF OfGroup, Ordered
<1>4. writer[h] # NoTable => ver'[writer[h]] = ver[writer[h]]
  BY WriterLast
<1> QED
  BY <1>3, <1>4 DEF OfGroup

\* The place of a member in the list of its group.
LEMMA PositionOf ==
  ASSUME Types, NEW t \in Table, grp[t] \in Group, OfGroup(grp[t])
  PROVE  /\ Position(grp[t], t) \in 1..Len(list[grp[t]])
         /\ list[grp[t]][Position(grp[t], t)] = t
<1>1. \E i \in DOMAIN list[grp[t]] : list[grp[t]][i] = t
  BY DEF OfGroup, Occurs
<1>2. DOMAIN list[grp[t]] = 1..Len(list[grp[t]])
  BY LenProperties DEF Types
<1> QED
  BY <1>1, <1>2 DEF Position

\* A table that exists is in a group.
LEMMA AliveGroup ==
  ASSUME Types, NEW t \in Table, grp[t] # NoGroup
  PROVE  grp[t] \in Group
  BY DEF Types

\* A new snapshot shows what its source shows.
LEMMA SnapshotShows ==
  ASSUME Types, NEW t \in Table, NEW n \in Table, snapshot(t, n)
  PROVE  Content(n)' = Content(t)
<1>1. grp'[n] = grp[t] /\ ver'[n] = ver[t] /\ data' = data
  BY DEF snapshot, Types
<1> QED
  BY <1>1 DEF Content

-----------------------------------------------------------------------------
(* Writing *)

\* What a writer may make of its map: no version beyond its next one, and, if
\* there is a snapshot, no change of what is shown at the versions so far.
Grown(t, w) ==
  /\ w.ver = ver[t] + 1
  /\ w.data \in SUBSET Entry
  /\ \A e \in w.data : e.created_at <= w.ver /\ e.removed_at <= w.ver
  /\ has_readonly_snapshot(t) =>
       \A v \in Nat : v <= ver[t] => Shown(w.data, v) = Shown(data[grp[t]], v)

Writes(t) == t \in Table /\ grp[t] # NoGroup /\ writer[grp[t]] = t

\* The map of a writer holds no version beyond the writer's.
LEMMA WriterOld ==
  ASSUME SInv, NEW t, Writes(t)
  PROVE  /\ Types /\ grp[t] \in Group /\ OfGroup(grp[t]) /\ ver[t] \in Nat
         /\ data[grp[t]] \in SUBSET Entry
         /\ \A e \in data[grp[t]] : e.created_at <= ver[t] /\ e.removed_at <= ver[t]
<1>1. Types /\ \A g \in Group : OfGroup(g)
  BY SInvByGroup
<1>2. grp[t] \in Group /\ t \in Table /\ t # NoTable
  BY <1>1, AliveGroup DEF Writes
<1> QED
  BY <1>1, <1>2 DEF OfGroup, Writes, Types

\* An insertion is at the next version.
LEMMA InsertedGrown ==
  ASSUME SInv, NEW t, Writes(t), NEW r \in Row
  PROVE  Grown(t, Inserted(View(t), r))
<1> DEFINE D == data[grp[t]]
           x == [row |-> r, created_at |-> ver[t] + 1, removed_at |-> Never]
           w == Inserted(View(t), r)
<1>1. /\ ver[t] \in Nat /\ D \in SUBSET Entry
      /\ \A e \in D : e.created_at <= ver[t] /\ e.removed_at <= ver[t]
  BY WriterOld
<1>2. w.ver = ver[t] + 1 /\ w.data = D \cup {x}
  BY DEF Inserted, View
<1>3. x \in Entry /\ x.created_at = ver[t] + 1 /\ x.removed_at = -1
  BY <1>1, SMTT(30) DEF Entry, Never
<1>4. ASSUME NEW e \in D PROVE e.created_at <= ver[t] + 1 /\ e.removed_at <= ver[t] + 1
  <2>1. e.created_at \in Int /\ e.removed_at \in Int
    BY <1>1, SMTT(30) DEF Entry, Never
  <2> QED
    BY <1>1, <2>1, SMTT(30)
<1>5. ASSUME NEW v \in Nat, v <= ver[t] PROVE Shown(D \cup {x}, v) = Shown(D, v)
  <2>1. x.created_at \in Nat /\ x.created_at > v
    BY <1>1, <1>3, <1>5, SMTT(30)
  <2> QED
    BY <2>1, InsertedShown
<1>6. x.created_at <= ver[t] + 1 /\ x.removed_at <= ver[t] + 1
  BY <1>1, <1>3, SMTT(30)
<1> HIDE DEF x, w, D
<1> QED
  BY <1>1, <1>2, <1>3, <1>4, <1>5, <1>6 DEF Grown, D, w

\* Marks are made at the next version, on visible values; these are not marked
\* yet, since the map holds no version beyond the writer's.
LEMMA MarkedGrown ==
  ASSUME SInv, NEW t, Writes(t), NEW E \in SUBSET Visible(data[grp[t]], ver[t])
  PROVE  LET D == Marked(data[grp[t]], E, ver[t] + 1)
         IN  /\ D \in SUBSET Entry
             /\ \A e \in D : e.created_at <= ver[t] + 1 /\ e.removed_at <= ver[t] + 1
             /\ \A v \in Nat : v <= ver[t] => Shown(D, v) = Shown(data[grp[t]], v)
<1> DEFINE C == data[grp[t]]
           D == Marked(C, E, ver[t] + 1)
<1>1. /\ ver[t] \in Nat /\ C \in SUBSET Entry
      /\ \A e \in C : e.created_at <= ver[t] /\ e.removed_at <= ver[t]
  BY WriterOld
<1>2. ASSUME NEW e \in C
      PROVE  e \in Entry /\ e.created_at \in Nat /\ e.removed_at \in Int
  BY <1>1, SMTT(30) DEF Entry, Never
<1>3. E \in SUBSET C
  BY DEF Visible
<1>4. ASSUME NEW e \in E PROVE e.removed_at = Never
  <2>1. e \in C /\ valid_at(e, ver[t])
    BY DEF Visible
  <2> QED
    BY <1>1, <1>2, <2>1, SMTT(30) DEF valid_at
<1>5. ASSUME NEW d \in D
      PROVE  d \in Entry /\ d.created_at <= ver[t] + 1 /\ d.removed_at <= ver[t] + 1
  <2>1. CASE d \in C
    BY <1>1, <1>2, <2>1, SMTT(30)
  <2>2. CASE d \notin C
    <3>1. PICK e \in E : d = [e EXCEPT !.removed_at = ver[t] + 1]
      BY <2>2 DEF Marked
    <3>2. e \in Entry /\ e \in C
      BY <1>2, <1>3
    <3>3. d \in Entry /\ d.created_at = e.created_at /\ d.removed_at = ver[t] + 1
      BY <1>1, <3>1, <3>2, SMTT(30) DEF Entry
    <3> QED
      BY <1>1, <1>2, <3>2, <3>3, SMTT(30)
  <2> QED
    BY <2>1, <2>2
<1>6. ASSUME NEW v \in Nat, v <= ver[t] PROVE Shown(D, v) = Shown(C, v)
  BY <1>1, <1>3, <1>4, <1>6, MarkedShown
<1> QED
  BY <1>5, <1>6

\* erase marks the values E that are visible, or, without a snapshot, takes
\* values out of the map.
LEMMA ErasedGrown ==
  ASSUME SInv, NEW t, Writes(t), NEW E \in SUBSET Visible(data[grp[t]], ver[t]), NEW D
  PROVE  Grown(t, Erased(View(t), E, D, has_readonly_snapshot(t)))
<1> DEFINE C == data[grp[t]]
           w == Erased(View(t), E, D, has_readonly_snapshot(t))
<1>1. w.ver = ver[t] + 1
  BY DEF Erased, View
<1>2. CASE has_readonly_snapshot(t)
  <2>1. w.data = Marked(C, E, ver[t] + 1)
    BY <1>2 DEF Erased, View
  <2> HIDE DEF w
  <2> QED
    BY <1>1, <1>2, <2>1, MarkedGrown DEF Grown, w
<1>3. CASE ~has_readonly_snapshot(t)
  <2>1. w.data = C \ D
    BY <1>3 DEF Erased, View
  <2>2. /\ ver[t] \in Nat /\ C \in SUBSET Entry
        /\ \A e \in C : e.created_at <= ver[t] /\ e.removed_at <= ver[t]
    BY WriterOld
  <2>3. ASSUME NEW e \in C PROVE e.created_at <= ver[t] + 1 /\ e.removed_at <= ver[t] + 1
    <3>1. e.created_at \in Int /\ e.removed_at \in Int
      BY <2>2, SMTT(30) DEF Entry, Never
    <3> QED
      BY <2>2, <3>1, SMTT(30)
  <2> HIDE DEF w
  <2> QED
    BY <1>1, <1>3, <2>1, <2>2, <2>3 DEF Grown, w
<1> QED
  BY <1>2, <1>3

\* The erasure of a range marks its visible values.
LEMMA RangeGrown ==
  ASSUME SInv, NEW t, Writes(t), NEW K
  PROVE  Grown(t, ErasedRange(View(t), K))
<1> DEFINE C == data[grp[t]]
           E == Visible({e \in C : KeyOf[e.row] \in K}, ver[t])
           w == ErasedRange(View(t), K)
<1>1. E \in SUBSET Visible(C, ver[t])
  BY DEF Visible
<1>2. w.ver = ver[t] + 1 /\ w.data = Marked(C, E, ver[t] + 1)
  BY DEF ErasedRange, View
<1> HIDE DEF w, E
<1> QED
  BY <1>1, <1>2, MarkedGrown DEF Grown, w

\* A write keeps the invariant and shows in no other table.
LEMMA PutKeeps ==
  ASSUME SInv, NEW t, Writes(t), NEW w, Grown(t, w), Put(t, w)
  PROVE  SInv' /\ Frozen
<1>1. Types /\ \A h \in Group : OfGroup(h)
  BY SInvByGroup
<1> PICK g \in Group : g = grp[t]
  BY WriterOld
<1>2. t \in Table /\ grp[t] = g /\ writer[g] = t /\ t # NoTable /\ ver[t] \in Nat
  BY <1>1, WriterOld DEF Writes
<1>3. /\ grp' = grp /\ list' = list /\ writer' = writer
      /\ ver' = [ver EXCEPT ![t] = ver[t] + 1]
      /\ data' = [data EXCEPT ![g] = w.data]
  BY DEF Put, Grown
<1>4. Types'
  BY <1>1, <1>2, <1>3 DEF Types, Grown
<1>5. ver'[t] = ver[t] + 1 /\ \A u \in Table : u # t => ver'[u] = ver[u]
  BY <1>1, <1>2, <1>3 DEF Types
<1>6. data'[g] = w.data /\ \A h \in Group : h # g => data'[h] = data[h]
  BY <1>1, <1>2, <1>3 DEF Types
<1>7. ASSUME NEW h \in Group, h # g PROVE OfGroup(h)'
  BY <1>1, <1>2, <1>3, <1>5, <1>6, <1>7, Elsewhere
<1>8. OfGroup(g)'
  <2> DEFINE s == list[g]
  <2>1. /\ s \in Seq(Table) /\ Len(s) \in DOMAIN s /\ s[Len(s)] = t
        /\ DOMAIN s = 1..Len(s) /\ \A i \in DOMAIN s : s[i] \in Table
    BY <1>1, <1>2, WriterLast, LenProperties, ElementOfSeq DEF Types
  <2>2. ASSUME NEW i \in DOMAIN s, NEW j \in DOMAIN s, i <= j PROVE ver'[s[i]] <= ver'[s[j]]
    <3>1. ver[s[i]] <= ver[s[j]]
      BY <1>1, <2>2 DEF OfGroup, Ordered
    <3>4. ver[s[i]] \in Nat /\ ver[s[j]] \in Nat
      BY <1>1, <2>1 DEF Types
    <3>2. CASE s[i] = t
      <4>1. i = Len(s)
        BY <1>1, <1>2, <2>1, <3>2 DEF OfGroup, InOnce
      <4>2. j = i
        BY <2>1, <2>2, <4>1, SMTT(30)
      <4> QED
        BY <1>2, <1>5, <3>2, <4>2, SMTT(30)
    <3>3. CASE s[i] # t
      BY <1>2, <1>5, <2>1, <3>1, <3>3, <3>4, SMTT(30)
    <3> QED
      BY <3>2, <3>3
  <2>3. Ordered(s, ver')
    BY <2>2 DEF Ordered
  <2>4. s # <<>>
    BY <1>1, <1>2 DEF OfGroup
  <2>5. \A e \in data'[g] : e.created_at <= ver'[t] /\ e.removed_at <= ver'[t]
    BY <1>5, <1>6 DEF Grown
  <2> QED
    BY <1>1, <1>2, <1>3, <2>3, <2>4, <2>5 DEF OfGroup
<1>9. SInv'
  BY <1>4, <1>7, <1>8, SInvByGroupNext
<1>10. ASSUME NEW u \in Table, grp[u] # NoGroup, ver'[u] = ver[u]
       PROVE  Content(u)' = Content(u)
  <2>1. grp[u] \in Group /\ u # t /\ grp'[u] = grp[u]
    BY <1>1, <1>2, <1>3, <1>5, <1>10, AliveGroup, SMTT(30)
  <2>2. CASE grp[u] # g
    BY <1>6, <1>10, <2>1, <2>2 DEF Content
  <2>3. CASE grp[u] = g
    <3>1. ver[u] <= ver[t] /\ ver[u] \in Nat
      BY <1>1, <1>2, <2>3, WriterLast DEF Types
    <3>2. has_readonly_snapshot(t)
      <4>1. u \in Members(g)
        BY <1>1, <2>3 DEF Members, OfGroup, Occurs
      <4> QED
        BY <1>2, <2>1, <4>1 DEF has_readonly_snapshot
    <3>3. Shown(w.data, ver[u]) = Shown(data[g], ver[u])
      BY <3>1, <3>2 DEF Grown
    <3> QED
      BY <1>6, <1>10, <2>1, <2>3, <3>3 DEF Content
  <2> QED
    BY <2>2, <2>3
<1>11. ASSUME NEW u \in Table, ver'[u] # ver[u] PROVE writable(u)
  BY <1>2, <1>5, <1>11 DEF writable
<1>12. Frozen
  BY <1>1, <1>10, <1>11, SnapshotShows DEF Frozen
<1> QED
  BY <1>9, <1>12

-----------------------------------------------------------------------------
(* Snapshots *)

\* A member put to the left of its source, with the same version, leaves the
\* list ordered and its last member the last.
LEMMA LinkOrdered ==
  ASSUME NEW s \in Seq(Table), NEW p \in 1..Len(s), NEW n \in Table, ~Occurs(s, n),
         ver \in [Table -> Nat], NEW v, v = [ver EXCEPT ![n] = ver[s[p]]], Ordered(s, ver)
  PROVE  /\ Ordered(Link(s, p, n), v)
         /\ Link(s, p, n)[Len(Link(s, p, n))] = s[Len(s)]
         /\ Link(s, p, n) # <<>>
<1> DEFINE q == Link(s, p, n)
           m(i) == IF i <= p THEN i ELSE i - 1
<1>1. Len(s) \in Nat /\ DOMAIN s = 1..Len(s) /\ \A i \in DOMAIN s : s[i] \in Table /\ s[i] # n
  BY LenProperties, ElementOfSeq DEF Occurs
<1>2. /\ q \in Seq(Table) /\ DOMAIN q = 1..(Len(s) + 1) /\ Len(q) = Len(s) + 1
      /\ \A i \in 1..(Len(s) + 1) : q[i] = IF i < p THEN s[i] ELSE IF i = p THEN n ELSE s[i - 1]
  BY LinkShape
<1> HIDE DEF q
<1>3. v[n] = ver[s[p]] /\ \A u \in Table : u # n => v[u] = ver[u]
  OBVIOUS
<1>4. ASSUME NEW i \in DOMAIN q PROVE m(i) \in DOMAIN s /\ v[q[i]] = ver[s[m(i)]]
  <2>1. CASE i = p
    BY <1>1, <1>2, <1>3, <2>1, SMTT(30)
  <2>2. CASE i < p
    BY <1>1, <1>2, <1>3, <2>2, SMTT(30)
  <2>3. CASE i > p
    <3>1. q[i] = s[i - 1] /\ i - 1 \in DOMAIN s /\ m(i) = i - 1
      BY <1>1, <1>2, <2>3, SMTT(30)
    <3> QED
      BY <1>1, <1>3, <3>1
  <2> QED
    BY <1>1, <1>2, <2>1, <2>2, <2>3, SMTT(30)
<1>5. ASSUME NEW i \in DOMAIN q, NEW j \in DOMAIN q, i <= j PROVE v[q[i]] <= v[q[j]]
  <2>1. m(i) <= m(j)
    BY <1>1, <1>2, <1>5, SMTT(30)
  <2> HIDE DEF m
  <2> QED
    BY <1>4, <2>1 DEF Ordered
<1>6. q[Len(q)] = s[Len(s)]
  BY <1>1, <1>2, SMTT(30)
<1>7. q # <<>>
  BY <1>1, <1>2, EmptySeq, SMTT(30)
<1> QED
  BY <1>5, <1>6, <1>7 DEF Ordered, q

\* A new snapshot keeps the invariant and changes what no table shows.
LEMMA SnapshotKeeps ==
  ASSUME SInv, NEW t \in Table, NEW n \in Table, snapshot(t, n)
  PROVE  SInv' /\ Frozen
<1>1. Types /\ \A h \in Group : OfGroup(h)
  BY SInvByGroup
<1>2. grp[t] # NoGroup /\ grp[n] = NoGroup
  BY DEF snapshot, Alive
<1> PICK g \in Group : g = grp[t]
  BY <1>1, <1>2, AliveGroup
<1> DEFINE s == list[g]
           p == Position(g, t)
<1>3. /\ grp' = [grp EXCEPT ![n] = g] /\ ver' = [ver EXCEPT ![n] = ver[t]]
      /\ list' = [list EXCEPT ![g] = Link(s, p, n)]
      /\ writer' = writer /\ data' = data
  BY DEF snapshot
<1>4. s \in Seq(Table) /\ p \in 1..Len(s) /\ s[p] = t
  BY <1>1, PositionOf DEF Types
<1>5. n # t /\ g # NoGroup /\ ~Occurs(s, n)
  BY <1>1, <1>2 DEF OfGroup
<1>6. Link(s, p, n) \in Seq(Table)
  BY <1>4, LinkShape
<1>7. Types'
  BY <1>1, <1>3, <1>6 DEF Types
<1>8. /\ grp'[n] = g /\ \A u \in Table : u # n => grp'[u] = grp[u] /\ ver'[u] = ver[u]
      /\ list'[g] = Link(s, p, n) /\ \A h \in Group : h # g => list'[h] = list[h]
  BY <1>1, <1>3 DEF Types
<1>9. ASSUME NEW h \in Group, h # g PROVE OfGroup(h)'
  <2>1. \A u \in Table : (grp'[u] = h <=> grp[u] = h) /\ (grp[u] = h => ver'[u] = ver[u])
    <3>1. h # NoGroup
      BY DEF NoGroup
    <3> QED
      BY <1>2, <1>8, <1>9, <3>1
  <2> QED
    BY <1>1, <1>3, <1>8, <1>9, <2>1, Elsewhere
<1>10. OfGroup(g)'
  <2> HIDE DEF p, s
  <2>1. InOnce(s) /\ Ordered(s, ver) /\ \A u \in Table : grp[u] = g <=> Occurs(s, u)
    BY <1>1 DEF OfGroup, s
  <2>2. InOnce(Link(s, p, n)) /\ \A u : Occurs(Link(s, p, n), u) <=> u = n \/ Occurs(s, u)
    BY <1>4, <1>5, <2>1, LinkMembers
  <2>3. /\ Ordered(Link(s, p, n), ver') /\ Link(s, p, n) # <<>>
        /\ Link(s, p, n)[Len(Link(s, p, n))] = s[Len(s)]
    <3>1. ver' = [ver EXCEPT ![n] = ver[s[p]]] /\ ver \in [Table -> Nat]
      BY <1>1, <1>3, <1>4 DEF Types
    <3> QED
      BY <1>4, <1>5, <2>1, <3>1, LinkOrdered
  <2>4. \A u \in Table : grp'[u] = g <=> Occurs(Link(s, p, n), u)
    BY <1>8, <2>1, <2>2
  <2>5. writer[g] # NoTable =>
          /\ s[Len(s)] = writer[g] /\ ver'[writer[g]] = ver[writer[g]]
          /\ \A e \in data[g] : e.created_at <= ver[writer[g]] /\ e.removed_at <= ver[writer[g]]
    <3>1. ASSUME writer[g] # NoTable PROVE ver'[writer[g]] = ver[writer[g]]
      BY <1>1, <1>2, <1>5, <1>8, <3>1, WriterLast
    <3> QED
      BY <1>1, <3>1 DEF OfGroup, s
  <2> QED
    BY <1>3, <1>8, <2>2, <2>3, <2>4, <2>5 DEF OfGroup
<1>11. SInv'
  BY <1>7, <1>9, <1>10, SInvByGroupNext
<1>12. ASSUME NEW u \in Table, grp[u] # NoGroup
       PROVE  Content(u)' = Content(u) /\ ver'[u] = ver[u]
  <2>1. grp'[u] = grp[u] /\ ver'[u] = ver[u]
    BY <1>2, <1>8, <1>12
  <2> QED
    BY <1>3, <2>1 DEF Content
<1>13. Frozen
  BY <1>1, <1>12, SnapshotShows DEF Frozen
<1> QED
  BY <1>11, <1>13

-----------------------------------------------------------------------------
(* The end of a member *)

\* Without one member the list is still ordered, and its last member is the
\* last unless it was the one that left.
LEMMA UnlinkOrdered ==
  ASSUME NEW s \in Seq(Table), NEW p \in 1..Len(s), InOnce(s),
         NEW v, NEW u, \A i \in DOMAIN s : i # p => u[s[i]] = v[s[i]], Ordered(s, v)
  PROVE  /\ Ordered(Unlink(s, p), u)
         /\ p # Len(s) => /\ Unlink(s, p)[Len(Unlink(s, p))] = s[Len(s)]
                           /\ Unlink(s, p) # <<>>
<1> DEFINE q == Unlink(s, p)
           m(i) == IF i < p THEN i ELSE i + 1
<1>1. Len(s) \in Nat /\ DOMAIN s = 1..Len(s)
  BY LenProperties
<1>2. /\ q \in Seq(Table) /\ DOMAIN q = 1..(Len(s) - 1) /\ Len(q) = Len(s) - 1
      /\ \A i \in 1..(Len(s) - 1) : q[i] = IF i < p THEN s[i] ELSE s[i + 1]
  BY UnlinkShape
<1> HIDE DEF q
<1>3. ASSUME NEW i \in DOMAIN q PROVE m(i) \in DOMAIN s /\ u[q[i]] = v[s[m(i)]]
  <2>1. m(i) \in DOMAIN s /\ m(i) # p /\ q[i] = s[m(i)]
    <3>1. i \in 1..(Len(s) - 1) /\ q[i] = IF i < p THEN s[i] ELSE s[i + 1]
      BY <1>2
    <3>2. m(i) \in 1..Len(s) /\ m(i) # p
      BY <1>1, <3>1, SMTT(30)
    <3> QED
      BY <1>1, <3>1, <3>2
  <2> QED
    BY <2>1
<1>4. ASSUME NEW i \in DOMAIN q, NEW j \in DOMAIN q, i <= j PROVE u[q[i]] <= u[q[j]]
  <2>1. m(i) <= m(j)
    BY <1>1, <1>2, <1>4, SMTT(30)
  <2> HIDE DEF m
  <2> QED
    BY <1>3, <2>1 DEF Ordered
<1>5. ASSUME p # Len(s) PROVE q[Len(q)] = s[Len(s)] /\ q # <<>>
  <2>1. Len(q) \in 1..(Len(s) - 1) /\ ~(Len(q) < p) /\ Len(q) + 1 = Len(s)
    <3>1. Len(q) = Len(s) - 1
      BY <1>2
    <3>2. p <= Len(s) /\ p >= 1 /\ p \in Int /\ Len(s) \in Int
      BY <1>1
    <3> QED
      BY <1>5, <3>1, <3>2, SMTT(30)
  <2>2. q[Len(q)] = s[Len(s)]
    BY <1>2, <2>1
  <2>3. Len(q) # 0
    BY <1>1, <2>1, SMTT(30)
  <2> QED
    BY <2>2, <2>3, EmptySeq
<1> QED
  BY <1>4, <1>5 DEF Ordered, q

\* The group that a member leaves keeps its part of the invariant, and what
\* its other members show: what the step does to other groups is left open.
LEMMA LeaveKeeps ==
  ASSUME SInv, NEW t \in Table, NEW g \in Group, grp[t] = g, Types',
         list'[g] = Unlink(list[g], Position(g, t)),
         writer'[g] = LeaveWriter(t), data'[g] = LeaveData(t), grp'[t] # g,
         \A u \in Table : u # t => grp'[u] = grp[u] /\ ver'[u] = ver[u]
  PROVE  /\ OfGroup(g)'
         /\ \A u \in Table : grp[u] = g /\ u # t =>
              Shown(data'[g], ver[u]) = Shown(data[g], ver[u])
<1> DEFINE s == list[g]
           p == Position(g, t)
           q == Unlink(s, p)
           M == Members(g) \ {t}
<1>1. Types /\ OfGroup(g) /\ data[g] \in SUBSET Entry /\ ver \in [Table -> Nat]
  BY SInvByGroup DEF Types
<1>2. s \in Seq(Table) /\ p \in 1..Len(s) /\ s[p] = t /\ DOMAIN s = 1..Len(s)
  BY <1>1, PositionOf, LenProperties DEF Types
<1>3. InOnce(s) /\ Ordered(s, ver) /\ \A u \in Table : grp[u] = g <=> Occurs(s, u)
  BY <1>1 DEF OfGroup
<1>4. InOnce(q) /\ \A u : Occurs(q, u) <=> u # t /\ Occurs(s, u)
  BY <1>2, <1>3, UnlinkMembers
<1>5. \A u \in Table : grp'[u] = g <=> Occurs(q, u)
  BY <1>3, <1>4
<1>6. \A i \in DOMAIN s : i # p => s[i] \in Table /\ s[i] # t /\ ver'[s[i]] = ver[s[i]]
  <2>1. ASSUME NEW i \in DOMAIN s, i # p PROVE s[i] \in Table /\ s[i] # t
    BY <1>2, <1>3, <2>1, ElementOfSeq DEF InOnce
  <2> QED
    BY <2>1
<1>7. /\ Ordered(q, ver')
      /\ p # Len(s) => q[Len(q)] = s[Len(s)] /\ q # <<>>
  BY <1>2, <1>3, <1>6, UnlinkOrdered
<1>8. \A u : u \in M <=> u # t /\ Occurs(s, u)
  BY DEF Members, Occurs
<1>9. data'[g] \in SUBSET data[g]
  BY DEF LeaveData, Kept
<1>10. ASSUME q = <<>> PROVE data'[g] = {}
  <2>1. \A u : ~Occurs(q, u)
    BY <1>10 DEF Occurs
  <2>2. M = {}
    BY <1>4, <1>8, <2>1
  <2> QED
    BY <2>2 DEF LeaveData
<1>11. ASSUME writer'[g] # NoTable
       PROVE  /\ q # <<>> /\ q[Len(q)] = writer'[g]
              /\ \A e \in data'[g] : /\ e.created_at <= ver'[writer'[g]]
                                     /\ e.removed_at <= ver'[writer'[g]]
  <2>1. writer'[g] = writer[g] /\ writer[g] # t
    BY <1>11 DEF LeaveWriter, writable
  <2>2. s[Len(s)] = writer[g] /\ writer[g] \in Table
    BY <1>1, <1>11, <2>1, WriterLast
  <2>3. p # Len(s)
    BY <1>2, <2>1, <2>2
  <2>4. ver'[writer[g]] = ver[writer[g]]
    BY <2>1, <2>2
  <2>5. \A e \in data[g] : e.created_at <= ver[writer[g]] /\ e.removed_at <= ver[writer[g]]
    BY <1>1, <1>11, <2>1 DEF OfGroup
  <2> QED
    BY <1>7, <1>9, <2>1, <2>2, <2>3, <2>4, <2>5
<1>12. OfGroup(g)'
  <2> HIDE DEF q, s, p
  <2>1. list'[g] = q
    BY DEF q, s, p
  <2> QED
    BY <1>4, <1>5, <1>7, <1>10, <1>11, <2>1 DEF OfGroup
<1>13. ASSUME NEW u \in Table, grp[u] = g, u # t
       PROVE  Shown(data'[g], ver[u]) = Shown(data[g], ver[u])
  <2>1. u \in M /\ M # {}
    BY <1>3, <1>8, <1>13
  <2>2. M \in SUBSET Table
    BY <1>2, LenProperties, ElementOfSeq DEF Members
  <2>3. data'[g] = data[g] \/ data'[g] = Kept(data[g], M)
    BY <2>1 DEF LeaveData
  <2> QED
    BY <1>1, <2>1, <2>2, <2>3, KeptShown
<1> QED
  BY <1>12, <1>13

\* The end of a table keeps the invariant and changes what no other one shows.
LEMMA DestroyKeeps ==
  ASSUME SInv, NEW t \in Table, destroy(t)
  PROVE  SInv' /\ Frozen
<1>1. Types /\ \A h \in Group : OfGroup(h)
  BY SInvByGroup
<1>2. grp[t] # NoGroup
  BY DEF destroy, Alive
<1> PICK g \in Group : g = grp[t]
  BY <1>1, <1>2, AliveGroup
<1> DEFINE p == Position(g, t)
<1>3. /\ grp' = [grp EXCEPT ![t] = NoGroup] /\ ver' = [ver EXCEPT ![t] = 0]
      /\ list' = [list EXCEPT ![g] = Unlink(list[g], p)]
      /\ writer' = [writer EXCEPT ![g] = LeaveWriter(t)]
      /\ data' = [data EXCEPT ![g] = LeaveData(t)]
  BY DEF destroy
<1>4. Unlink(list[g], p) \in Seq(Table)
  BY <1>1, PositionOf, UnlinkShape DEF Types
<1>5. LeaveWriter(t) \in Table \cup {NoTable} /\ LeaveData(t) \in SUBSET Entry
  BY <1>1 DEF LeaveWriter, LeaveData, Kept, Types
<1>6. Types'
  BY <1>1, <1>3, <1>4, <1>5 DEF Types
<1>7. /\ grp'[t] = NoGroup
      /\ \A u \in Table : u # t => grp'[u] = grp[u] /\ ver'[u] = ver[u]
      /\ list'[g] = Unlink(list[g], p) /\ writer'[g] = LeaveWriter(t) /\ data'[g] = LeaveData(t)
  BY <1>1, <1>3 DEF Types
<1>8. \A h \in Group : h # g =>
        list'[h] = list[h] /\ writer'[h] = writer[h] /\ data'[h] = data[h]
  BY <1>1, <1>3 DEF Types
<1>9. \A h \in Group : h # NoGroup
  BY DEF NoGroup
<1>10. /\ OfGroup(g)'
       /\ \A u \in Table : grp[u] = g /\ u # t =>
            Shown(data'[g], ver[u]) = Shown(data[g], ver[u])
  <2>1. grp'[t] # g
    BY <1>7, <1>9
  <2> QED
    BY <1>6, <1>7, <2>1, LeaveKeeps
<1>11. ASSUME NEW h \in Group, h # g PROVE OfGroup(h)'
  <2>1. \A u \in Table : (grp'[u] = h <=> grp[u] = h) /\ (grp[u] = h => ver'[u] = ver[u])
    BY <1>7, <1>9, <1>11
  <2> QED
    BY <1>1, <1>8, <1>11, <2>1, Elsewhere
<1>12. SInv'
  BY <1>6, <1>10, <1>11, SInvByGroupNext
<1>13. ASSUME NEW u \in Table, grp[u] # NoGroup, grp'[u] = grp[u]
       PROVE  Content(u)' = Content(u) /\ ver'[u] = ver[u]
  <2>1. u # t /\ ver'[u] = ver[u]
    BY <1>2, <1>7, <1>13
  <2>2. grp[u] \in Group
    BY <1>1, <1>13, AliveGroup
  <2>3. Shown(data'[grp[u]], ver[u]) = Shown(data[grp[u]], ver[u])
    BY <1>8, <1>10, <2>1, <2>2
  <2> QED
    BY <1>13, <2>1, <2>3 DEF Content
<1>14. Frozen
  BY <1>1, <1>13, SnapshotShows DEF Frozen
<1> QED
  BY <1>12, <1>14

\* A cleared table leaves its group for one of its own; the members that stay
\* show what they showed.
LEMMA ClearKeeps ==
  ASSUME SInv, NEW t \in Table, clear(t)
  PROVE  SInv' /\ Frozen
<1>1. Types /\ \A h \in Group : OfGroup(h)
  BY SInvByGroup
<1>2. grp[t] # NoGroup
  BY DEF clear, Alive
<1> PICK g \in Group : g = grp[t]
  BY <1>1, <1>2, AliveGroup
<1> DEFINE p == Position(g, t)
<1>3. PICK f \in Group :
        /\ f # g /\ list[f] = <<>>
        /\ grp' = [grp EXCEPT ![t] = f] /\ ver' = [ver EXCEPT ![t] = 1]
        /\ list' = [list EXCEPT ![g] = Unlink(list[g], p), ![f] = <<t>>]
        /\ writer' = [writer EXCEPT ![g] = LeaveWriter(t), ![f] = t]
        /\ data' = [data EXCEPT ![g] = LeaveData(t)]
  BY DEF clear
<1>4. Unlink(list[g], p) \in Seq(Table)
  BY <1>1, PositionOf, UnlinkShape DEF Types
<1>5. LeaveWriter(t) \in Table \cup {NoTable} /\ LeaveData(t) \in SUBSET Entry
  BY <1>1 DEF LeaveWriter, LeaveData, Kept, Types
<1>6. /\ <<t>> \in Seq(Table) /\ <<t>> # <<>> /\ <<t>>[Len(<<t>>)] = t /\ InOnce(<<t>>)
      /\ \A u : Occurs(<<t>>, u) <=> u = t
  BY OneMember
<1>7. Types'
  BY <1>1, <1>3, <1>4, <1>5, <1>6 DEF Types
<1>8. /\ grp'[t] = f /\ ver'[t] = 1
      /\ \A u \in Table : u # t => grp'[u] = grp[u] /\ ver'[u] = ver[u]
      /\ list'[g] = Unlink(list[g], p) /\ writer'[g] = LeaveWriter(t) /\ data'[g] = LeaveData(t)
      /\ list'[f] = <<t>> /\ writer'[f] = t /\ data'[f] = data[f]
  BY <1>1, <1>3 DEF Types
<1>9. \A h \in Group : h # g /\ h # f =>
        list'[h] = list[h] /\ writer'[h] = writer[h] /\ data'[h] = data[h]
  BY <1>1, <1>3 DEF Types
<1>10. data[f] = {} /\ \A u \in Table : grp[u] # f
  BY <1>1, <1>3 DEF OfGroup, Occurs
<1>11. /\ OfGroup(g)'
       /\ \A u \in Table : grp[u] = g /\ u # t =>
            Shown(data'[g], ver[u]) = Shown(data[g], ver[u])
  BY <1>3, <1>7, <1>8, LeaveKeeps
<1>12. OfGroup(f)'
  <2>1. \A u \in Table : grp'[u] = f <=> Occurs(<<t>>, u)
    BY <1>6, <1>8, <1>10
  <2>2. Ordered(<<t>>, ver')
    BY <1>8, OneMember
  <2> QED
    BY <1>6, <1>8, <1>10, <2>1, <2>2 DEF OfGroup
<1>13. ASSUME NEW h \in Group, h # g, h # f PROVE OfGroup(h)'
  <2>1. \A u \in Table : (grp'[u] = h <=> grp[u] = h) /\ (grp[u] = h => ver'[u] = ver[u])
    BY <1>8, <1>13
  <2> QED
    BY <1>1, <1>9, <1>13, <2>1, Elsewhere
<1>14. SInv'
  BY <1>7, <1>11, <1>12, <1>13, SInvByGroupNext
<1>15. ASSUME NEW u \in Table, grp[u] # NoGroup, grp'[u] = grp[u]
       PROVE  Content(u)' = Content(u) /\ ver'[u] = ver[u]
  <2>1. u # t /\ ver'[u] = ver[u] /\ grp[u] # f
    BY <1>3, <1>8, <1>10, <1>15
  <2>2. grp[u] \in Group
    BY <1>1, <1>15, AliveGroup
  <2>3. Shown(data'[grp[u]], ver[u]) = Shown(data[grp[u]], ver[u])
    BY <1>9, <1>11, <2>1, <2>2
  <2> QED
    BY <1>15, <2>1, <2>3 DEF Content
<1>16. Frozen
  BY <1>1, <1>15, SnapshotShows DEF Frozen
<1> QED
  BY <1>14, <1>16

-----------------------------------------------------------------------------
(* The theorems *)

\* A program starts with one empty table.
LEMMA SInvInit ==
  ASSUME SInit
  PROVE  SInv
<1>1. PICK g \in Group :
        /\ grp = [t \in Table |-> IF t = Base THEN g ELSE NoGroup]
        /\ ver = [t \in Table |-> 0]
        /\ list = [f \in Group |-> IF f = g THEN <<Base>> ELSE <<>>]
        /\ writer = [f \in Group |-> IF f = g THEN Base ELSE NoTable]
        /\ data = [f \in Group |-> {}]
  BY DEF SInit
<1>2. /\ <<Base>> \in Seq(Table) /\ <<Base>> # <<>> /\ <<Base>>[Len(<<Base>>)] = Base
      /\ InOnce(<<Base>>) /\ \A u : Occurs(<<Base>>, u) <=> u = Base
  BY OneMember
<1>3. <<>> \in Seq(Table) /\ DOMAIN <<>> = {}
  BY EmptySeq
<1>4. Base \in Table /\ \A f \in Group : f # NoGroup
  BY DEF NoGroup
<1>5. Types
  BY <1>1, <1>2, <1>3, <1>4 DEF Types
<1>6. ASSUME NEW f \in Group PROVE OfGroup(f)
  <2>1. CASE f = g
    <3>1. list[f] = <<Base>> /\ writer[f] = Base /\ data[f] = {}
      BY <1>1, <2>1
    <3>2. \A t \in Table : grp[t] = f <=> Occurs(<<Base>>, t)
      BY <1>1, <1>2, <1>4, <2>1
    <3>3. Ordered(<<Base>>, ver)
      BY <1>1, <1>4, OneMember
    <3> QED
      BY <1>2, <3>1, <3>2, <3>3 DEF OfGroup
  <2>2. CASE f # g
    <3>1. list[f] = <<>> /\ writer[f] = NoTable /\ data[f] = {}
      BY <1>1, <2>2
    <3>2. \A t \in Table : grp[t] # f
      BY <1>1, <1>4, <2>2
    <3> QED
      BY <1>3, <3>1, <3>2 DEF OfGroup, Occurs, InOnce, Ordered
  <2> QED
    BY <2>1, <2>2
<1> QED
  BY <1>5, <1>6, SInvByGroup

\* Every operation of a SnapshotTable keeps the invariant and the tables frozen.
LEMMA SInvNext ==
  ASSUME SInv, SNext
  PROVE  SInv' /\ Frozen
<1>1. ASSUME NEW t, CanWrite(t) PROVE Writes(t)
  BY <1>1 DEF CanWrite, Writes, Alive, writable
<1>2. CASE Insert
  BY <1>1, <1>2, InsertedGrown, PutKeeps DEF Insert, insert
<1>3. CASE RemoveKey
  <2>1. PICK t \in Table, r \in Row : remove_key(t, KeyOf[r])
    BY <1>3 DEF RemoveKey
  <2> DEFINE E == Visible(OfKey(data[grp[t]], KeyOf[r]), ver[t])
             D == OfKey(data[grp[t]], KeyOf[r])
  <2>2. Writes(t) /\ Put(t, Erased(View(t), E, D, has_readonly_snapshot(t)))
    BY <1>1, <2>1 DEF remove_key, ErasedKey, View
  <2>3. E \in SUBSET Visible(data[grp[t]], ver[t])
    BY DEF Visible, OfKey
  <2> QED
    BY <2>2, <2>3, ErasedGrown, PutKeeps
<1>4. CASE RemoveRow
  <2>1. PICK t \in Table, r \in Row : remove_row(t, r)
    BY <1>4 DEF RemoveRow
  <2> DEFINE C == OfKey(data[grp[t]], KeyOf[r])
             E == First(Visible(C, ver[t]))
  <2>2. Writes(t) /\ Put(t, Erased(View(t), E, First(C), has_readonly_snapshot(t)))
    BY <1>1, <2>1 DEF remove_row, ErasedRow, View
  <2>3. E \in SUBSET Visible(data[grp[t]], ver[t])
    BY DEF Visible, OfKey, First
  <2> QED
    BY <2>2, <2>3, ErasedGrown, PutKeeps
<1>5. CASE RemoveRange
  BY <1>1, <1>5, RangeGrown, PutKeeps DEF RemoveRange, remove_range
<1>6. CASE Query
  <2>1. UNCHANGED <<grp, ver, list, writer, data>>
    BY <1>6 DEF Query, query
  <2>2. SInv'
    BY <2>1 DEF SInv, Linked, GroupSane, DataOld, Members
  <2>3. \A t \in Table : Content(t)' = Content(t)
    BY <2>1 DEF Content
  <2> QED
    BY <2>1, <2>2, <2>3, SInvByGroup, SnapshotShows DEF Frozen
<1>7. CASE Snapshot
  BY <1>7, SnapshotKeeps DEF Snapshot
<1>8. CASE Destroy
  BY <1>8, DestroyKeeps DEF Destroy
<1>9. CASE Clear
  BY <1>9, ClearKeeps DEF Clear
<1> QED
  BY <1>2, <1>3, <1>4, <1>5, <1>6, <1>7, <1>8, <1>9 DEF SNext

\* The invariant of snapshot groups: what make_me_snapshot_of and destroy_me
\* do to the list, the versions and the map in whatever order they are called.
THEOREM SnapshotInvariant == SSpec => []SInv
<1>1. SInit => SInv
  BY SInvInit
<1>2. SInv /\ [SNext]_svars => SInv'
  <2>1. ASSUME SInv, UNCHANGED svars PROVE SInv'
    BY <2>1 DEF svars, SInv, Linked, GroupSane, DataOld, Members
  <2> QED
    BY <2>1, SInvNext
<1> QED
  BY <1>1, <1>2, PTL DEF SSpec

\* debug_group_sanity_check holds: the members of a group are linked in the
\* order of their versions, with the writer at the tail.
THEOREM GroupsSane == SSpec => []GroupSane
<1>1. SInv => GroupSane
  BY DEF SInv
<1> QED
  BY <1>1, SnapshotInvariant, PTL

\* What a snapshot shows never changes, and a new one shows what its source
\* does: no insertion, removal, new snapshot, end of a member, clearing or
\* garbage collection is visible to another member of the group.
THEOREM SnapshotsStayFrozen == SSpec => SnapshotsFrozen
<1>1. SInv /\ [SNext]_svars => [Frozen]_svars
  BY SInvNext
<1> QED
  BY <1>1, SnapshotInvariant, PTL DEF SSpec, SnapshotsFrozen
=============================================================================
