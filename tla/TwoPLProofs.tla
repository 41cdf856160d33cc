---------------------------- MODULE TwoPLProofs -----------------------------
(***************************************************************************)
(* What is proved of module TwoPL, for any number of transactions, pieces, *)
(* sites and cells: the invariant of module TwoPLInv, and what follows     *)
(* from it of locks, waiting and serializability.                          *)
(***************************************************************************)
EXTENDS TwoPLSerialProofs, Txn2PLProofs

\* What a chopper counts and what the sites and connections hold agree, with
\* each kind of lock, over any number of attempts, and when connections break.
THEOREM Inductive == Spec => []IInv
<1>1. Init => IInv
      BY InitInv
<1>2. IInv /\ [Next]_vars => IInv'
      BY NextInv, FiniteFactsHold, SiteKeepsItsInvariant
<1> QED BY <1>1, <1>2, PTL DEF Spec

\* The verifies of do_prepare, do_commit and do_abort (dtxn.cc:567, 627, 666)
\* and of PieceStatus::commit and abort (txn.h:451, 459) hold: the request finds
\* its transaction, and a transaction ends only when none of its pieces waits.
THEOREM SitesNeverFail == Spec => []VerifiesHold
<1>1. IInv => VerifiesHold
      BY DEF IInv, InvAt
<1> QED BY <1>1, Inductive, PTL

\* No transaction that has ended leaves a lock behind, and one that commits
\* still has every lock of its pieces: neither the callback of init_piece nor a
\* timeout takes one from a transaction that finish commits.
THEOREM CommitsWithItsLocks == Spec => []LocksOwned
<1>1. IInv => LocksOwned
      BY FiniteFactsHold, TypeFollows, NoneLeft, CommitsHold DEF LocksOwned
<1> QED BY <1>1, Inductive, PTL

\* With the wait-die and the wound-die locks no transactions wait for each
\* other in a circle, within a site or across sites, while connections are up.
THEOREM NoneWaitInCircle == Spec => []NoCircle
<1>1. IInv => NoCircle
      BY FiniteFactsHold, NoneInCircle
<1> QED BY <1>1, Inductive, PTL

\* Two-phase locking implements the serial database, for any transactions and
\* sites, with each kind of lock, with and without batches, over any number of
\* attempts, and when connections break: a transaction takes effect, all of it
\* at once, when the last answer to prepare_txn lets finish send commit_txn.
THEOREM TwoPLSerial == Spec => Serial
<1>1. Init => SD!Init
      BY InitSerial
<1>2. IInv /\ [Next]_vars => [SD!Next]_<<DB, Result, Seen>>
      BY NextSerial, FiniteFactsHold, SiteKeepsItsInvariant DEF SerialStep, Shown
<1> QED BY <1>1, <1>2, Inductive, PTL DEF Spec, Serial, SD!Spec
=============================================================================
