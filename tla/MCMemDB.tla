------------------------------ MODULE MCMemDB ------------------------------
(***************************************************************************)
(* An instance of MemDB: a table, two snapshots, two transactions.         *)
(***************************************************************************)
EXTENDS MemDB

\* Two rows of the first key, the others of a second one.
TwoKeys == [r \in Row |-> IF r <= 2 THEN 1 ELSE 2]
Symmetric == Permutations(Group) \cup Permutations(Table \ {Base}) \cup Permutations(Txn)

Direct == [direct |-> TRUE, txns |-> 0, nests |-> FALSE, readers |-> 0, staged |-> 0]
By(txns, nests, n) == [direct |-> FALSE, txns |-> txns, nests |-> nests,
                       readers |-> 1, staged |-> n]
Nested == By(1, TRUE, 2)
Pairs == By(2, FALSE, 1)
AllUses == {Direct, Nested, Pairs}
=============================================================================
