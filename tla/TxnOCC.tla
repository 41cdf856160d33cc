------------------------------- MODULE TxnOCC -------------------------------
(***************************************************************************)
(* The sites of MODE_OCC: TxnRunner's map of transactions (deptran/dtxn.cc)*)
(* and TxnOCC (memdb/txn.cc) over versioned rows, with the policy OCC_LAZY *)
(* that get_txn sets.                                                      *)
(*                                                                         *)
(* A cell is a column of a row.  Versions are kept per column and locks    *)
(* per row.  The value of a cell is the transaction that wrote it last.    *)
(* Rows are neither inserted nor removed.                                  *)
(***************************************************************************)
EXTENDS RWLock, Integers

CONSTANTS Site, Row,
          Cell,     \* [row, col]
          Piece     \* the pieces of all transactions

PieceType == [id : Nat, txn : Txn, site : Site, reads : SUBSET Cell,
              writes : SUBSET Cell, after : SUBSET Nat]

ASSUME CellAssumption == Cell \subseteq [row : Row, col : Nat]

\* A row is on one site; a piece becomes ready by pieces of its transaction.
ASSUME PieceAssumption ==
  /\ Piece \subseteq PieceType
  /\ \A p, q \in Piece : p.id = q.id => p = q
  /\ \A p, q \in Piece : \A c \in p.reads \cup p.writes, d \in q.reads \cup q.writes :
        c.row = d.row => p.site = q.site
  /\ \A p, q \in Piece : q.id \in p.after => q.txn = p.txn

VARIABLES
  txn_map,  \* TxnRunner::txn_map_s of each site
  occ,      \* the TxnOCC of each site and transaction
  val, ver, \* the columns of the rows
  lock      \* the lock of each row

tvars == <<txn_map, occ, val, ver, lock>>

Absent == -1
Version == Nat \cup {Absent}

\* ver_check_read_, ver_check_write_ (its cells are those of updates_),
\* locks_ and verified_.
Occ == [rver : [Cell -> Version], wver : [Cell -> Version],
        locks : SUBSET Row, verified : BOOLEAN]
NewOcc == [rver |-> [c \in Cell |-> Absent], wver |-> [c \in Cell |-> Absent],
           locks |-> {}, verified |-> FALSE]

OccInit ==
  /\ txn_map = [s \in Site |-> {}]
  /\ occ = [s \in Site |-> [t \in Txn |-> NewOcc]]
  /\ val = [c \in Cell |-> NoTxn]
  /\ ver = [c \in Cell |-> 0]
  /\ lock = [r \in Row |-> Free]

-----------------------------------------------------------------------------
(* Running a piece *)

\* Mutant: a version read again replaces the one read first.
NoteAgain(f, C) == [c \in Cell |-> IF c \in C THEN ver[c] ELSE f[c]]

\* insert_into_map keeps the version that was noted first.
Note(f, C) == [c \in Cell |-> IF c \in C /\ f[c] = Absent THEN ver[c] ELSE f[c]]

\* read_column takes the value of the staging area if there is one.
Staged(o) == {c \in Cell : o.wver[c] # Absent}

Output(s, p) ==
  {<<c, IF c \in Staged(occ[s][p.txn]) THEN p.txn ELSE val[c]>> : c \in p.reads}

\* TxnRegistry::execute: the piece reads its columns and then writes.
Execute(s, p) ==
  LET o == occ[s][p.txn]
  IN  /\ txn_map' = [txn_map EXCEPT ![s] = @ \cup {p.txn}]
      /\ occ' = [occ EXCEPT ![s] = [@ EXCEPT ![p.txn] =
                   [o EXCEPT !.rver = Note(o.rver, p.reads \ Staged(o)),
                             !.wver = Note(o.wver, p.writes)]]]
      /\ UNCHANGED <<val, ver, lock>>

-----------------------------------------------------------------------------
(* Two-phase commit *)

VersionCheck(o) == \A c \in Cell : o.rver[c] \in {Absent, ver[c]}
                                   /\ o.wver[c] \in {Absent, ver[c]}

ReadRows(o) == {c.row : c \in {d \in Cell : o.rver[d] # Absent}}
WriteRows(o) == {c.row : c \in Staged(o)}

\* The row after commit_prepare's loop over ver_check_read_.
AfterRead(o, t, r) == IF r \in ReadRows(o) THEN RLockBy(lock[r], t) ELSE lock[r]

CanLock(o, t) ==
  /\ \A r \in ReadRows(o) : CanRLock(lock[r], t)
  /\ \A r \in WriteRows(o) : CanWLock(AfterRead(o, t, r), t)

Locked(o, t) ==
  [r \in Row |-> IF r \in WriteRows(o) THEN WLockBy(AfterRead(o, t, r), t)
                                       ELSE AfterRead(o, t, r)]

Unlocked(R, t) == [r \in Row |-> IF r \in R THEN UnlockBy(lock[r], t) ELSE lock[r]]

\* Mutant: the rows are not locked.
CanPrepareUnlocked(o, t) == VersionCheck(o)

CanPrepare(o, t) == VersionCheck(o) /\ CanLock(o, t)

\* commit_prepare: when a lock is refused the ones taken so far are released;
\* the transaction had none before, so that leaves the rows as they were.
CommitPrepare(s, t) ==
  LET o == occ[s][t]
  IN  /\ IF CanPrepare(o, t)
         THEN /\ lock' = Locked(o, t)
              /\ occ' = [occ EXCEPT ![s] = [@ EXCEPT ![t] =
                   [o EXCEPT !.verified = TRUE, !.locks = ReadRows(o) \cup WriteRows(o)]]]
         ELSE UNCHANGED <<lock, occ>>
      /\ UNCHANGED <<txn_map, val, ver>>

\* release_resource and the removal from txn_map_s.
Release(s, t) ==
  /\ lock' = Unlocked(occ[s][t].locks, t)
  /\ occ' = [occ EXCEPT ![s] = [@ EXCEPT ![t] = NewOcc]]
  /\ txn_map' = [txn_map EXCEPT ![s] = @ \ {t}]

\* do_commit, commit_confirm: the updates are applied and their versions
\* increased.
CommitConfirm(s, t) ==
  LET W == Staged(occ[s][t])
  IN  /\ val' = [c \in Cell |-> IF c \in W THEN t ELSE val[c]]
      /\ ver' = [c \in Cell |-> IF c \in W THEN ver[c] + 1 ELSE ver[c]]
      /\ Release(s, t)

\* do_abort.
Abort(s, t) ==
  /\ Release(s, t)
  /\ UNCHANGED <<val, ver>>

-----------------------------------------------------------------------------
OccTypeOK ==
  /\ txn_map \in [Site -> SUBSET Txn]
  /\ occ \in [Site -> [Txn -> Occ]]
  /\ val \in [Cell -> Txn \cup {NoTxn}]
  /\ ver \in [Cell -> Nat]
  /\ lock \in [Row -> Lock]
=============================================================================
