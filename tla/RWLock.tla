------------------------------- MODULE RWLock -------------------------------
(***************************************************************************)
(* RWLock (memdb/locking.h): the lock VersionedRow inherits, taken by      *)
(* TxnOCC between prepare and commit.  No call blocks: a lock that cannot  *)
(* be taken is refused.  w is the write owner (NoTxn: wlocked_ is false),  *)
(* r the read owners.                                                      *)
(***************************************************************************)
CONSTANTS Txn, NoTxn

ASSUME NoOwnerAssumption == NoTxn \notin Txn

Lock == [w : Txn \cup {NoTxn}, r : SUBSET Txn]
Free == [w |-> NoTxn, r |-> {}]

\* rlock_by: what it returns and what it leaves.
CanRLock(l, o) == l.w \in {NoTxn, o}
RLockBy(l, o) == IF l.w = NoTxn THEN [l EXCEPT !.r = @ \cup {o}] ELSE l

\* wlock_by: the only reader is upgraded.
CanWLock(l, o) == l.w = o \/ (l.w = NoTxn /\ l.r \subseteq {o})
WLockBy(l, o) == [w |-> o, r |-> {}]

\* Mutant: only the read owner is removed.
UnlocksReaderOnly(l, o) == [l EXCEPT !.r = @ \ {o}]

UnlockBy(l, o) == [w |-> IF l.w = o THEN NoTxn ELSE l.w, r |-> l.r \ {o}]
=============================================================================
