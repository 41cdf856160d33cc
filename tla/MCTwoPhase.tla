----------------------------- MODULE MCTwoPhase -----------------------------
(***************************************************************************)
(* Workloads for model checking module TwoPhase.                           *)
(***************************************************************************)
EXTENDS TwoPhaseInv

Col(r, i) == [row |-> r, col |-> i]

Do(i, t, s, rd, wr) ==
  [id |-> i, txn |-> t, site |-> s, reads |-> rd, writes |-> wr, after |-> {}]

After(p, ids) == [p EXCEPT !.after = ids]

\* Two columns of a row on site 1 and a row on site 2.
a == Col("a", 1)
a2 == Col("a", 2)
b == Col("b", 1)
Cells == {a, a2, b}

\* Transaction 1 reads both cells, writes the second one and reads it again
\* when its first pieces are answered.  Transaction 2 writes without reading
\* and uses another column of the first row.
MixPieces ==
  {Do(1, 1, 1, {a}, {}), Do(2, 1, 2, {b}, {b}), After(Do(3, 1, 2, {b}, {}), {1}),
   Do(4, 2, 1, {a2}, {a, a2}), Do(5, 2, 2, {}, {b})}
=============================================================================
