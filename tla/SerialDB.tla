------------------------------ MODULE SerialDB ------------------------------
(***************************************************************************)
(* What the concurrency control promises the client: a transaction that is *)
(* answered with SUCCESS has run alone, at one moment, on the database; one*)
(* answered with REJECT has not run at all.                                *)
(*                                                                         *)
(* The value of a cell is the transaction that wrote it last, so what a    *)
(* transaction has seen says which transactions came before it.            *)
(***************************************************************************)
CONSTANTS Txn, NoTxn, Cell,
          Reads,    \* the cells a transaction reads
          Writes    \* the cells it writes

VARIABLES db,       \* the value of each cell
          result,   \* "none", then the answer
          seen      \* pairs <<cell, value>> a committed transaction has read

Init == /\ db = [c \in Cell |-> NoTxn]
        /\ result = [t \in Txn |-> "none"]
        /\ seen = [t \in Txn |-> {}]

\* Each read saw the database, or a value the transaction wrote itself.
MaySee(t, S) ==
  /\ \A c \in Reads[t] : \E v \in Txn \cup {NoTxn} : <<c, v>> \in S
  /\ \A e \in S : /\ e[1] \in Reads[t]
                  /\ e[2] = db[e[1]] \/ (e[2] = t /\ e[1] \in Writes[t])

Commit(t) ==
  /\ result[t] = "none"
  /\ db' = [c \in Cell |-> IF c \in Writes[t] THEN t ELSE db[c]]
  /\ result' = [result EXCEPT ![t] = "SUCCESS"]
  /\ \E S \in SUBSET (Cell \X (Txn \cup {NoTxn})) :
        MaySee(t, S) /\ seen' = [seen EXCEPT ![t] = S]

Reject(t) ==
  /\ result[t] = "none"
  /\ result' = [result EXCEPT ![t] = "REJECT"]
  /\ UNCHANGED <<db, seen>>

Next == \E t \in Txn : Commit(t) \/ Reject(t)

Spec == Init /\ [][Next]_<<db, result, seen>>
=============================================================================
