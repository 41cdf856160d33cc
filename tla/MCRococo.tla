------------------------------ MODULE MCRococo ------------------------------
(***************************************************************************)
(* Workloads for model checking module Rococo.                             *)
(***************************************************************************)
EXTENDS RococoInv

Deferred(i, t, s, cs) ==
  [id |-> i, txn |-> t, site |-> s, cells |-> cs, kind |-> "D",
   defer |-> "REAL", after |-> {}, out |-> FALSE]

Immediate(i, t, s, cs) ==
  [id |-> i, txn |-> t, site |-> s, cells |-> cs, kind |-> "I",
   defer |-> "NO", after |-> {}, out |-> TRUE]

\* TPCC_DELIVERY_0: runs at once and has a second half at the finish.
Fake(i, t, s, cs) == [Immediate(i, t, s, cs) EXCEPT !.defer = "FAKE"]

After(p, ids) == [p EXCEPT !.after = ids]

\* Two transactions that meet on server 2, in two cells and so perhaps in a
\* cycle; the second one has a piece on a server that the first one does not
\* use and that has to ask for it.
ChainPieces ==
  {Deferred(1, 1, 2, {"b"}), Deferred(2, 1, 2, {"c"}),
   Deferred(3, 2, 2, {"b"}), Deferred(4, 2, 2, {"c"}), Deferred(5, 2, 1, {"a"})}

\* Two transactions on the same two servers, as TPC-A payments to one customer
\* of one branch.
PairPieces ==
  {Deferred(1, 1, 1, {"a"}), Deferred(2, 1, 2, {"b"}),
   Deferred(3, 2, 1, {"a"}), Deferred(4, 2, 2, {"b"})}

\* Three transactions, each two of them on one server.
TrianglePieces ==
  {Deferred(1, 1, 1, {"a"}), Deferred(2, 1, 2, {"b"}),
   Deferred(3, 2, 2, {"b"}), Deferred(4, 2, 3, {"c"}),
   Deferred(5, 3, 3, {"c"}), Deferred(6, 3, 1, {"a"})}

\* Transactions 2 and 3 as in PairPieces, after transaction 1 used both cells.
AgainPieces ==
  {Deferred(1, 1, 1, {"a"}), Deferred(2, 1, 2, {"b"}),
   Deferred(3, 2, 1, {"a"}), Deferred(4, 2, 2, {"b"}),
   Deferred(5, 3, 1, {"a"}), Deferred(6, 3, 2, {"b"})}

\* Immediate pieces on server 1 whose answers release a deferred one on server
\* 2; transaction 1 used cell "x" before.
ImmediatePieces ==
  {Immediate(1, 1, 1, {"x"}),
   Immediate(2, 2, 1, {"x", "y"}), Deferred(3, 2, 2, {"z"}),
   Fake(4, 3, 1, {"y"}), After(Deferred(5, 3, 2, {"z"}), {4})}

\* The behaviours in which transaction 1 runs alone first: the others begin
\* when its chopper is deleted.
WarmNext ==
  \/ \E t \in Txn : (t = 1 \/ phase[1] = "gone") /\ DoOne(t)
  \/ Handlers
  \/ AllGone

WarmSpec == Init /\ [][WarmNext]_vars
=============================================================================
