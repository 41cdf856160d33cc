--------------------------- MODULE SnapshotTable ---------------------------
(***************************************************************************)
(* SnapshotTable (memdb/table.h) and the snapshot_sortedmap it stores its  *)
(* rows in (memdb/snapshot.h).                                             *)
(*                                                                         *)
(* A table and the snapshots taken of it share one multimap and form a     *)
(* group; each looks at the map through its own version.  At most one      *)
(* member, the writer, changes the map.  The doubly linked list of a group *)
(* is a sequence here, from the oldest member to the writer.  An entry of  *)
(* the multimap is a record; entries of one key are in the order of their  *)
(* creation.                                                               *)
(***************************************************************************)
EXTENDS Integers, FiniteSets, Sequences

CONSTANTS
  Table,    \* the SnapshotTable objects
  Base,     \* the one the program starts with
  Group,    \* the snapshot_group objects
  Row,      \* the rows a program inserts
  KeyOf,    \* the key of each row
  GcMin,    \* the insertions and removals that start a collection: 16
  MaxVer,   \* bound: the versions of a table
  NoTable   \* no writer

ASSUME SnapshotAssumption ==
  /\ Base \in Table
  /\ NoTable \notin Table \cup Group
  /\ KeyOf \in [Row -> Nat]
  /\ GcMin \in Nat
  /\ MaxVer \in Nat
  /\ Group # {}

VARIABLES
  grp,      \* the group of each table, NoGroup if there is no such table
  ver,      \* its version
  list,     \* the members of each group
  writer,   \* the member of each group that may write
  data,     \* the multimap of each group
  count     \* gc_insert_counter + gc_erase_counter of each group

svars == <<grp, ver, list, writer, data, count>>

Never == -1       \* removed_at of a value that is not removed
NoGroup == NoTable

Entry == [row : Row, created_at : Nat, removed_at : Nat \cup {Never}]

valid_at(e, v) == e.created_at <= v /\ (e.removed_at = Never \/ v < e.removed_at)

Alive == {t \in Table : grp[t] # NoGroup}
Members(g) == {list[g][i] : i \in DOMAIN list[g]}
writable(t) == writer[grp[t]] = t

\* has_readonly_snapshot of the writer: another member precedes it.
has_readonly_snapshot(t) == Members(grp[t]) # {t}

\* The rows that an enumeration of the table returns (snapshot_range).
Visible(D, v) == {e \in D : valid_at(e, v)}
Shown(D, v) == {e.row : e \in Visible(D, v)}
Content(t) == Shown(data[grp[t]], ver[t])

SInit ==
  \E g \in Group :
    /\ grp = [t \in Table |-> IF t = Base THEN g ELSE NoGroup]
    /\ ver = [t \in Table |-> 0]
    /\ list = [f \in Group |-> IF f = g THEN <<Base>> ELSE <<>>]
    /\ writer = [f \in Group |-> IF f = g THEN Base ELSE NoTable]
    /\ data = [f \in Group |-> {}]
    /\ count = [f \in Group |-> 0]

-----------------------------------------------------------------------------
(* Writing *)

OfKey(D, k) == {e \in D : KeyOf[e.row] = k}
First(E) == {e \in E : \A d \in E : e.created_at <= d.created_at}

\* versioned_value::remove of the entries of E.
Marked(D, E, v) == (D \ E) \cup {[e EXCEPT !.removed_at = v] : e \in E}

\* The functions below take and return what the writer of a group changes.
View(t) == [ver |-> ver[t], data |-> data[grp[t]], count |-> count[grp[t]]]

Inserted(w, r) ==
  [ver   |-> w.ver + 1,
   data  |-> w.data \cup {[row |-> r, created_at |-> w.ver + 1, removed_at |-> Never]},
   count |-> w.count + 1]

\* Mutant: the removed entries are erased although a snapshot may show them.
ErasedDirectly(w, E, D, shared) ==
  [ver |-> w.ver + 1, data |-> w.data \ D, count |-> w.count]

\* What the erase functions share: with a snapshot in the group the entries
\* of E are marked, otherwise those of D are taken out of the map.
Erased(w, E, D, shared) ==
  [ver   |-> w.ver + 1,
   data  |-> IF shared THEN Marked(w.data, E, w.ver + 1) ELSE w.data \ D,
   count |-> IF shared THEN w.count + Cardinality(E) ELSE w.count]

\* rows_.erase(key) of remove(key).
ErasedKey(w, k, shared) ==
  Erased(w, Visible(OfKey(w.data, k), w.ver), OfKey(w.data, k), shared)

\* rows_.erase(key, row) of remove(row) converts the pointer to the parameter
\* first_match_only, as the value of type RefCountedRow would need a
\* conversion of the user's.  It removes the first entry of the key.
ErasedRow(w, r, shared) ==
  LET E == OfKey(w.data, KeyOf[r])
  IN  Erased(w, First(Visible(E, w.ver)), First(E), shared)

\* rows_.erase(range) of remove(cursor).  The cursor holds a snapshot, so
\* there is always one in the group; taking it has reset the counters and the
\* marks are not counted.
ErasedRange(w, K) ==
  LET E == {e \in w.data : KeyOf[e.row] \in K}
  IN  [ver |-> w.ver + 1, data |-> Marked(w.data, Visible(E, w.ver), w.ver + 1),
       count |-> 0]

CanWrite(t) == t \in Alive /\ writable(t) /\ ver[t] < MaxVer

Put(t, w) ==
  /\ ver' = [ver EXCEPT ![t] = w.ver]
  /\ data' = [data EXCEPT ![grp[t]] = w.data]
  /\ count' = [count EXCEPT ![grp[t]] = w.count]
  /\ UNCHANGED <<grp, list, writer>>

\* The row is in no table yet.
insert(t, r) ==
  /\ CanWrite(t)
  /\ \A f \in Group : \A e \in data[f] : e.row # r
  /\ Put(t, Inserted(View(t), r))

remove_key(t, k) ==
  /\ CanWrite(t)
  /\ Put(t, ErasedKey(View(t), k, has_readonly_snapshot(t)))

\* A program removes a row that it found in the table.
remove_row(t, r) ==
  /\ CanWrite(t)
  /\ r \in Content(t)
  /\ Put(t, ErasedRow(View(t), r, has_readonly_snapshot(t)))

remove_range(t, K) ==
  /\ CanWrite(t)
  /\ Put(t, ErasedRange(View(t), K))

-----------------------------------------------------------------------------
(* Snapshots *)

\* query, query_lt, query_gt, query_in, all: the range holds a snapshot until
\* the enumeration is over; taking one of the writer resets the counters.
query(t) ==
  /\ t \in Alive /\ writable(t)
  /\ count' = [count EXCEPT ![grp[t]] = 0]
  /\ UNCHANGED <<grp, ver, list, writer, data>>

Position(g, t) == CHOOSE i \in DOMAIN list[g] : list[g][i] = t

\* make_me_snapshot_of puts the snapshot to the left of its source.
Link(s, p, n) ==
  [i \in 1..(Len(s) + 1) |-> IF i < p THEN s[i] ELSE IF i = p THEN n ELSE s[i - 1]]

Unlink(s, p) == [i \in 1..(Len(s) - 1) |-> IF i < p THEN s[i] ELSE s[i + 1]]

\* snapshot: a new table n with the version of t.
snapshot(t, n) ==
  LET g == grp[t]
  IN  /\ t \in Alive /\ n \in Table \ Alive
      /\ grp' = [grp EXCEPT ![n] = g]
      /\ ver' = [ver EXCEPT ![n] = ver[t]]
      /\ list' = [list EXCEPT ![g] = Link(list[g], Position(g, t), n)]
      /\ count' = [count EXCEPT ![g] = IF writable(t) THEN 0 ELSE @]
      /\ UNCHANGED <<writer, data>>

-----------------------------------------------------------------------------
(* The end of a member and garbage collection *)

\* gc_run: what is younger than every member of M, or was removed before the
\* version of each of them, is dropped.
Kept(D, M) ==
  {e \in D : /\ \E m \in M : e.created_at <= ver[m]
             /\ e.removed_at = Never \/ \E m \in M : e.removed_at >= ver[m]}

auto_gc(t) == /\ writable(t)
              /\ count[grp[t]] >= GcMin
              /\ count[grp[t]] >= Cardinality(data[grp[t]]) \div 2

\* destroy_me, without what becomes of t: the last member takes the group
\* with it; the writer's end may start a collection by the others.
LeaveData(t) ==
  LET g == grp[t]
      M == Members(g) \ {t}
  IN  IF M = {} THEN {} ELSE IF auto_gc(t) THEN Kept(data[g], M) ELSE data[g]
LeaveCount(t) ==
  LET g == grp[t]
  IN  IF Members(g) = {t} \/ auto_gc(t) THEN 0 ELSE count[g]
LeaveWriter(t) == IF writable(t) THEN NoTable ELSE writer[grp[t]]

\* ~SnapshotTable.
destroy(t) ==
  LET g == grp[t]
  IN  /\ t \in Alive
      /\ grp' = [grp EXCEPT ![t] = NoGroup]
      /\ ver' = [ver EXCEPT ![t] = 0]
      /\ list' = [list EXCEPT ![g] = Unlink(list[g], Position(g, t))]
      /\ writer' = [writer EXCEPT ![g] = LeaveWriter(t)]
      /\ data' = [data EXCEPT ![g] = LeaveData(t)]
      /\ count' = [count EXCEPT ![g] = LeaveCount(t)]

\* clear: rows_ = table_type().  The table leaves its group and copies the
\* empty table into a new one; inserting the empty range makes version 1.
clear(t) ==
  LET g == grp[t]
  IN  \E f \in Group :
        /\ t \in Alive
        /\ f # g /\ list[f] = <<>>
        /\ grp' = [grp EXCEPT ![t] = f]
        /\ ver' = [ver EXCEPT ![t] = 1]
        /\ list' = [list EXCEPT ![g] = Unlink(list[g], Position(g, t)), ![f] = <<t>>]
        /\ writer' = [writer EXCEPT ![g] = LeaveWriter(t), ![f] = t]
        /\ data' = [data EXCEPT ![g] = LeaveData(t)]
        /\ count' = [count EXCEPT ![g] = LeaveCount(t)]

Insert == \E t \in Table, r \in Row : insert(t, r)
RemoveKey == \E t \in Table, r \in Row : remove_key(t, KeyOf[r])
RemoveRow == \E t \in Table, r \in Row : remove_row(t, r)
RemoveRange == \E t \in Table, K \in SUBSET {KeyOf[r] : r \in Row} : remove_range(t, K)
Query == \E t \in Table : query(t)
Snapshot == \E t, n \in Table : snapshot(t, n)
Destroy == \E t \in Table : destroy(t)
Clear == \E t \in Table : clear(t)

SNext == \/ Insert \/ RemoveKey \/ RemoveRow \/ RemoveRange
         \/ Query \/ Snapshot \/ Destroy \/ Clear

SSpec == SInit /\ [][SNext]_svars

-----------------------------------------------------------------------------
(* Properties *)

\* Every table that exists is in the list of its group, once, and a group
\* without members holds no values.
Linked ==
  /\ grp \in [Table -> Group \cup {NoGroup}]
  /\ ver \in [Table -> Nat]
  /\ list \in [Group -> Seq(Table)]
  /\ writer \in [Group -> Table \cup {NoTable}]
  /\ data \in [Group -> SUBSET Entry]
  /\ \A g \in Group :
       /\ \A t \in Table : grp[t] = g <=> t \in Members(g)
       /\ \A i, j \in DOMAIN list[g] : list[g][i] = list[g][j] => i = j
       /\ list[g] = <<>> => data[g] = {}

STypeOK == Linked /\ count \in [Group -> Nat]

\* The members of a group are listed by version with the writer at the tail:
\* the comment on snapshot_group says "S1 <= S2 <= S3 <= ... <= Sw (increasing
\* version, writer at tail if exists)", debug_group_sanity_check asserts it.
GroupSane ==
  \A g \in Group :
    /\ \A i, j \in DOMAIN list[g] : i <= j => ver[list[g][i]] <= ver[list[g][j]]
    /\ writer[g] # NoTable =>
         list[g] # <<>> /\ list[g][Len(list[g])] = writer[g]

\* No value is younger than its writer, and none is marked with a version that
\* the writer has not reached.
DataOld ==
  \A g \in Group : writer[g] # NoTable =>
    \A e \in data[g] : e.created_at <= ver[writer[g]] /\ e.removed_at <= ver[writer[g]]

\* The inductive invariant: what makes a collection and a mark at the version
\* of the writer invisible to every other member of the group.
SInv == Linked /\ GroupSane /\ DataOld

\* What a table shows changes only by its own writes, and a new snapshot shows
\* what its source shows.
Frozen ==
  \A t \in Table :
    /\ grp[t] # NoGroup /\ grp'[t] = grp[t] /\ ver'[t] = ver[t] => Content(t)' = Content(t)
    /\ grp[t] # NoGroup /\ grp'[t] = grp[t] /\ ver'[t] # ver[t] => writable(t)
    /\ \A n \in Table : snapshot(t, n) => Content(n)' = Content(t)

\* What a snapshot shows stays the same whatever the writer of its group
\* inserts and erases, in whatever order the members of the group end or are
\* cleared, and whatever destroy_me then collects.
SnapshotsFrozen == [][Frozen]_svars
=============================================================================
