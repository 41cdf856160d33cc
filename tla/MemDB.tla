------------------------------- MODULE MemDB -------------------------------
(***************************************************************************)
(* Transactions of memdb over one SnapshotTable: TxnOCC with the policy    *)
(* OCC_LAZY, the transactions nested in it (TxnNested), its read-only      *)
(* transactions, and the MergedCursor through which a transaction sees the *)
(* table together with its staging area (memdb/txn.cc).                    *)
(*                                                                         *)
(* A transaction is committed in one step by TxnOCC::commit; TxnOCC.tla    *)
(* models the two-phase commit.  A row has one column.  What a handler     *)
(* does with a nested transaction is not interrupted by other transactions.*)
(***************************************************************************)
EXTENDS SnapshotTable, SequencesExt

CONSTANTS
  Txn,
  Use       \* how a program uses the table: see below

\* Either directly, or by at most txns transactions at a time, with or without
\* nested ones, and at most readers read-only ones; staged bounds the rows that a
\* transaction stages.
ASSUME UseAssumption ==
  Use \subseteq [direct : BOOLEAN, txns : Nat, nests : BOOLEAN,
                 readers : Nat, staged : Nat]

VARIABLES
  stage,    \* the staging area of each transaction
  nest,     \* that of the transaction nested in it
  open,     \* the transactions that have started
  nested,   \* the one of them that has an open nested transaction
  use       \* the use that is made of the table

mvars == <<stage, nest, open, nested, use>>
vars == <<svars, mvars>>

\* inserts_, removes_, the rows of updates_ and those of ver_check_read_ and
\* ver_check_write_.  The version noted for a row, the first one, differs from
\* its version when the row was updated or removed since: the transaction is
\* stale.
Stage == [inserts : SUBSET Row, removes : SUBSET Row, updates : SUBSET Row,
          check : SUBSET Row, stale : BOOLEAN]
NewStage == [inserts |-> {}, removes |-> {}, updates |-> {}, check |-> {},
             stale |-> FALSE]

Init ==
  /\ SInit
  /\ stage = [t \in Txn |-> NewStage]
  /\ nest = [t \in Txn |-> NewStage]
  /\ open = {} /\ nested = {}
  /\ use \in Use

\* The rows that no table and no transaction refers to: what new returns.
Unused ==
  {r \in Row :
     /\ \A g \in Group : \A e \in data[g] : e.row # r
     /\ \A t \in Txn : r \notin stage[t].inserts \cup nest[t].inserts \cup stage[t].check}

-----------------------------------------------------------------------------
(* Queries *)

\* The rows of the table, or of a staging area, in the order of their keys.
ByKey == [R \in SUBSET Row |-> SetToSortSeq(R, LAMBDA a, b : KeyOf[a] < KeyOf[b])]

\* Mutant: a reverse enumeration runs forwards.
DirectedUp(s, desc) == s

Directed(s, desc) == IF desc THEN Reverse(s) ELSE s

\* Mutant: the cursor does not look into removes_.
MergedUnfiltered(cursor, ins, removes, addr) == cursor \o ins

\* MergedCursor: the rows of the cursor below it that are not removed, merged
\* with the staged insertions; prefetch_next compares the addresses of the
\* two rows.
RECURSIVE Merged(_, _, _, _)
Merged(cursor, ins, removes, addr) ==
  CASE cursor # <<>> /\ Head(cursor) \in removes ->
         Merged(Tail(cursor), ins, removes, addr)
    [] cursor = <<>> -> ins
    [] ins = <<>> -> SelectSeq(cursor, LAMBDA r : r \notin removes)
    [] OTHER ->
         IF addr[Head(cursor)] < addr[Head(ins)]
         THEN <<Head(cursor)>> \o Merged(Tail(cursor), ins, removes, addr)
         ELSE <<Head(ins)>> \o Merged(cursor, Tail(ins), removes, addr)

\* The keys a query asks for select from the table and from inserts_ alike.
Among(R, K) == {r \in R : KeyOf[r] \in K}

\* do_query, do_query_lt, do_query_gt, do_query_in, do_all.
do_query(t, K, desc, addr) ==
  Merged(Directed(ByKey[Among(Content(Base), K)], desc),
         Directed(ByKey[Among(stage[t].inserts, K)], desc), stage[t].removes, addr)

\* The queries of TxnNested, over those of its base.
nested_query(t, K, desc, addr) ==
  Merged(do_query(t, K, desc, addr),
         Directed(ByKey[Among(nest[t].inserts, K)], desc), nest[t].removes, addr)

\* What the two return, whatever the order.
Sees(t) == (Content(Base) \ stage[t].removes) \cup stage[t].inserts
NestedSees(t) == (Sees(t) \ nest[t].removes) \cup nest[t].inserts

-----------------------------------------------------------------------------
(* The staging area of TxnOCC *)

Noted(x, r) == [x EXCEPT !.check = @ \cup {r}]

StageRead(x, r) == IF r \in x.inserts \cup x.updates THEN x ELSE Noted(x, r)

StageWrite(x, r) ==
  IF r \in x.inserts \cup x.updates THEN x
  ELSE [Noted(x, r) EXCEPT !.updates = @ \cup {r}]

StageInsert(x, r) == [x EXCEPT !.inserts = @ \cup {r}, !.removes = @ \ {r}]

StageRemove(x, r) ==
  LET y == IF r \in x.inserts THEN [x EXCEPT !.inserts = @ \ {r}]
           ELSE [Noted(x, r) EXCEPT !.removes = @ \cup {r}]
  IN  [y EXCEPT !.updates = @ \ {r}]

\* TxnMgrOCC::start.
start(t) ==
  /\ t \in Txn \ open /\ nested = {} /\ Cardinality(open) < use.txns
  /\ open' = open \cup {t}
  /\ stage' = [stage EXCEPT ![t] = NewStage]
  /\ UNCHANGED <<svars, nest, nested, use>>

\* A handler of t may run: no other one has an open nested transaction.
Runs(t) == t \in open /\ nested = {}

StagedRows(x) == Cardinality(x.inserts) + Cardinality(x.removes) + Cardinality(x.updates)

Staged(t, x) ==
  /\ StagedRows(x) <= use.staged
  /\ stage' = [stage EXCEPT ![t] = x]
  /\ UNCHANGED <<svars, nest, open, nested, use>>

read_column(t, r) ==
  /\ Runs(t) /\ r \in Sees(t)
  /\ Staged(t, StageRead(stage[t], r))

write_column(t, r) ==
  /\ Runs(t) /\ r \in Sees(t)
  /\ Staged(t, StageWrite(stage[t], r))

insert_row(t, r) ==
  /\ Runs(t) /\ r \in Unused
  /\ Staged(t, StageInsert(stage[t], r))

remove_row_by(t, r) ==
  /\ Runs(t) /\ r \in Sees(t)
  /\ Staged(t, StageRemove(stage[t], r))

\* ~TxnOCC or abort: release_resource.
abort(t) ==
  /\ Runs(t)
  /\ open' = open \ {t}
  /\ stage' = [stage EXCEPT ![t] = NewStage]
  /\ UNCHANGED <<svars, nest, nested, use>>

-----------------------------------------------------------------------------
(* TxnNested *)

\* start_nested.
start_nested(t) ==
  /\ use.nests /\ Runs(t)
  /\ nested' = {t}
  /\ nest' = [nest EXCEPT ![t] = NewStage]
  /\ UNCHANGED <<svars, stage, open, use>>

NestedStaged(t, x) ==
  /\ StagedRows(x) + StagedRows(stage[t]) <= use.staged
  /\ nest' = [nest EXCEPT ![t] = x]
  /\ UNCHANGED <<svars, open, nested, use>>

\* A column that the nested transaction has not staged is read through its base.
nested_read(t, r) ==
  /\ t \in nested /\ r \in NestedSees(t)
  /\ stage' = [stage EXCEPT ![t] =
       IF r \in nest[t].inserts \cup nest[t].updates THEN @ ELSE StageRead(@, r)]
  /\ UNCHANGED <<svars, nest, open, nested, use>>

nested_write(t, r) ==
  /\ t \in nested /\ r \in NestedSees(t)
  /\ NestedStaged(t, IF r \in nest[t].inserts THEN nest[t]
                     ELSE [nest[t] EXCEPT !.updates = @ \cup {r}])
  /\ UNCHANGED stage

nested_insert(t, r) ==
  /\ t \in nested /\ r \in Unused
  /\ NestedStaged(t, StageInsert(nest[t], r))
  /\ UNCHANGED stage

NestedRemove(x, r) ==
  LET y == IF r \in x.inserts THEN [x EXCEPT !.inserts = @ \ {r}]
           ELSE [x EXCEPT !.removes = @ \cup {r}]
  IN  [y EXCEPT !.updates = @ \ {r}]

nested_remove(t, r) ==
  /\ t \in nested /\ r \in NestedSees(t)
  /\ NestedStaged(t, NestedRemove(nest[t], r))
  /\ UNCHANGED stage

\* Mutant: a row inserted by the base is put among the removals.
IntoBaseSimply(x, n) ==
  [x EXCEPT !.inserts = @ \cup n.inserts, !.removes = @ \cup n.removes,
            !.updates = @ \cup n.updates]

\* The three loops of TxnNested::commit over insert_row, write_column and
\* remove_row of the base.
IntoBase(x, n) ==
  FoldSet(LAMBDA r, y : StageRemove(y, r),
          FoldSet(LAMBDA r, y : StageWrite(y, r),
                  FoldSet(LAMBDA r, y : StageInsert(y, r), x, n.inserts), n.updates),
          n.removes)

nested_commit(t) ==
  /\ t \in nested
  /\ nested' = {}
  /\ stage' = [stage EXCEPT ![t] = IntoBase(@, nest[t])]
  /\ nest' = [nest EXCEPT ![t] = NewStage]
  /\ UNCHANGED <<svars, open, use>>

nested_abort(t) ==
  /\ t \in nested
  /\ nested' = {}
  /\ nest' = [nest EXCEPT ![t] = NewStage]
  /\ UNCHANGED <<svars, stage, open, use>>

-----------------------------------------------------------------------------
(* Commit *)

version_check(t) == ~stage[t].stale

\* Mutant: the old row of an update stays in the table.
UpdatedOnly(w, c, U, shared) == FoldSet(LAMBDA r, x : Inserted(x, c[r]), w, U)

\* An update on a snapshot table: remove(row), then insert(new_row).
Updated(w, c, U, shared) ==
  FoldSet(LAMBDA r, x : Inserted(ErasedRow(x, r, shared), c[r]), w, U)

\* commit_confirm: the insertions, the updates (c gives the copy of each
\* updated row) and the removals.
Confirmed(t, c) ==
  LET shared == has_readonly_snapshot(Base)
      x == stage[t]
      inserted == FoldSet(LAMBDA r, w : Inserted(w, r), View(Base), x.inserts)
      updated == Updated(inserted, c, x.updates, shared)
  IN  FoldSet(LAMBDA r, w : ErasedRow(w, r, shared), updated, x.removes)

Copies(U) ==
  {c \in [U -> Unused] : /\ \A r \in U : KeyOf[c[r]] = KeyOf[r]
                         /\ \A r, q \in U : c[r] = c[q] => r = q}

Touched(t) == stage[t].updates \cup stage[t].removes

\* The versions of the updated and of the removed rows are increased.
AfterCommit(t) ==
  [u \in Txn |->
     IF u = t THEN NewStage
     ELSE [stage[u] EXCEPT !.stale = @ \/ stage[u].check \cap Touched(t) # {}]]

commit(t) ==
  /\ Runs(t) /\ version_check(t)
  /\ \E c \in Copies(stage[t].updates) :
       LET w == Confirmed(t, c) IN w.ver <= MaxVer /\ Put(Base, w)
  /\ open' = open \ {t}
  /\ stage' = AfterCommit(t)
  /\ UNCHANGED <<nest, nested, use>>

\* start_readonly and the end of the read-only transaction.
start_readonly(n) ==
  /\ ~use.direct /\ nested = {} /\ Cardinality(Alive) <= use.readers
  /\ snapshot(Base, n)
  /\ UNCHANGED mvars
end_readonly(n) ==
  /\ ~use.direct /\ nested = {} /\ n # Base
  /\ destroy(n)
  /\ UNCHANGED mvars

TxnOp(t) ==
  \/ start(t) \/ abort(t) \/ commit(t)
  \/ start_nested(t) \/ nested_commit(t) \/ nested_abort(t)
  \/ \E r \in Row : \/ read_column(t, r) \/ write_column(t, r)
                    \/ insert_row(t, r) \/ remove_row_by(t, r)
                    \/ nested_read(t, r) \/ nested_write(t, r)
                    \/ nested_insert(t, r) \/ nested_remove(t, r)

\* A program uses the table directly or by transactions.
Directly(A) == use.direct /\ A /\ UNCHANGED mvars

Next ==
  \/ Directly(Insert) \/ Directly(RemoveKey) \/ Directly(RemoveRow)
  \/ Directly(RemoveRange) \/ Directly(Query) \/ Directly(Snapshot)
  \/ Directly(Destroy) \/ Directly(Clear)
  \/ \E t \in Txn : TxnOp(t)
  \/ \E n \in Table : start_readonly(n) \/ end_readonly(n)

Spec == Init /\ [][Next]_vars

-----------------------------------------------------------------------------
(* Properties *)

\* The variables hold what their declarations say.
TypeOK ==
  /\ STypeOK
  /\ stage \in [Txn -> Stage] /\ nest \in [Txn -> Stage]
  /\ open \subseteq Txn /\ nested \subseteq open
  /\ use \in Use

PointerOrders == {a \in [Row -> 1..Cardinality(Row)] :
                    \A r, q \in Row : a[r] = a[q] => r = q}
Keys == {KeyOf[r] : r \in Row}
Queried(t) == IF t \in nested THEN NestedSees(t) ELSE Sees(t)
Query_(t, K, desc, addr) ==
  IF t \in nested THEN nested_query(t, K, desc, addr) ELSE do_query(t, K, desc, addr)

\* A query returns each row of the table that the transaction has not removed
\* and each one it has inserted once, whatever the addresses by which
\* MergedCursor merges the two, through one level of nesting as well.
QueryExact == TypeOK /\
  \A t \in open, K \in {Keys} \cup {{k} : k \in Keys}, addr \in PointerOrders :
    LET q == Query_(t, K, FALSE, addr)
    IN  ToSet(q) = Among(Queried(t), K) /\ Len(q) = Cardinality(ToSet(q))

\* The result of an ordered query is in the order asked for if the addresses
\* of the rows are in that order; the comparison "next_candidate_ <
\* insert_get_next()" is one of pointers, so otherwise it may not be.
QueryOrdered ==
  \A t \in open, desc \in BOOLEAN, addr \in PointerOrders :
    LET q == Query_(t, Keys, desc, addr)
        Before(a, b) == IF desc THEN KeyOf[a] >= KeyOf[b] ELSE KeyOf[a] <= KeyOf[b]
    IN  (\A a, b \in Row : addr[a] < addr[b] => Before(a, b))
          => \A i, j \in DOMAIN q : i < j => Before(q[i], q[j])

\* The commit of a nested transaction changes nothing of what is seen: its
\* base then sees the rows the nested one saw, and has staged each row that
\* either of them updated and that is still there.
NestedTransparent ==
  [][\A t \in nested : nested_commit(t) =>
        /\ Sees(t)' = NestedSees(t)
        /\ stage'[t].updates \cup stage'[t].inserts =
             ((stage[t].updates \cup stage[t].inserts \cup nest[t].updates)
                \ nest[t].removes) \cup nest[t].inserts]_vars

\* What commit leaves of the rows of the table and puts into it.
CommitExactFor(t) ==
  LET copies == Content(Base)' \ (Content(Base) \cup stage[t].inserts)
  IN  /\ Content(Base)' \cap Content(Base) = Content(Base) \ Touched(t)
      /\ stage[t].inserts \subseteq Content(Base)'
      /\ \A k \in Keys : Cardinality(Among(copies, {k})) =
                         Cardinality(Among(stage[t].updates, {k}))

\* The commit of a transaction leaves in the table what the transaction saw:
\* the old rows without the removed ones, its insertions, and one new row for
\* each updated row, "update on snapshot table (remove then insert)"
\* (txn.cc:1268).  It does so if the map holds no other entry of the keys it
\* updates and removes: neither a row with the same key nor one that was
\* removed while there was a snapshot.  If it does hold one, remove(row) takes
\* the first entry of the key for the row.
CommitExactAlone ==
  [][\A t \in open \ open' :
       /\ commit(t)
       /\ \A r \in Touched(t) : Cardinality(OfKey(data[grp[Base]], KeyOf[r])) = 1
       => CommitExactFor(t)]_vars
=============================================================================
