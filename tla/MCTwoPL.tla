------------------------------ MODULE MCTwoPL -------------------------------
(***************************************************************************)
(* Workloads for model checking module TwoPL.                              *)
(***************************************************************************)
EXTENDS TwoPLInv

Do(i, t, s, p, after) ==
  [id |-> i, txn |-> t, site |-> s, locks |-> p.locks, reads |-> p.reads,
   writes |-> p.writes, after |-> after]

Column(tb) == <<tb, 0, 1>>
LockOf(tb) == <<tb, 0, 0>>

\* Transaction 1 is a payment of TPC-A with the customer and the teller on one
\* site.  Transaction 2 has a piece with two locks, one of them shared, and
\* sends the piece of the branch when that one was answered.
PayPieces ==
  {Do(1, 1, 1, TPCA_PAYMENT_1(0), {}), Do(2, 1, 1, TPCA_PAYMENT_2(0), {}),
   Do(3, 1, 2, TPCA_PAYMENT_3(0), {}),
   Do(4, 2, 1, [locks |-> {<<LockOf("customer"), "R">>, <<LockOf("teller"), "W">>},
                reads |-> {Column("customer")}, writes |-> {Column("teller")}], {}),
   Do(5, 2, 2, TPCA_PAYMENT_3(0), {4})}

PayCells == {<<tb, 0, i>> : tb \in {"customer", "teller", "branch"}, i \in 0 .. 1}

Mode(l, b, tries, breaks) == [lock |-> l, batch |-> b, tries |-> tries, breaks |-> breaks]

AllModes == {Mode("timeout", FALSE, 2, 0), Mode("timeout", TRUE, 2, 1)}
              \cup {Mode(l, FALSE, 0, 0) : l \in {"wait_die", "wound_die"}}
              \cup {Mode(l, TRUE, 0, 1) : l \in {"wait_die", "wound_die"}}

\* One piece in a call, and no connection breaks.
PlainModes == {Mode("timeout", FALSE, 1, 0), Mode("wait_die", FALSE, 1, 0)}
=============================================================================
