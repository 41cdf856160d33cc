----------------------------- MODULE MCSharding -----------------------------
(***************************************************************************)
(* Configurations for model checking modules Sharding and TxnRequests.     *)
(***************************************************************************)
EXTENDS TxnRequests

\* w warehouses, d districts, c customers of each district (each with one
\* order, as in the configurations of the repository), i items, half of the
\* orders new, two lines for an order.  In "tpcc" and "dist" these are the
\* numbers of one site.
Records(w, d, c, i, stock) ==
    [warehouse |-> w, district |-> d, customer |-> c * d, history |-> c * d,
     order |-> c * d, new_order |-> IF c * d = 1 THEN 1 ELSE (c * d) \div 2,
     item |-> i, stock |-> stock, order_line |-> 2 * c * d]

Config(b, n, w, d, c, i) == [bench |-> b, n |-> n, rec |-> Records(w, d, c, i, i * w)]

MCConfigs ==
    {Config(b, n, w, w * d, c, i) :
        b \in {"tpcc", "dist", "real"}, n \in 1 .. 2, w \in 1 .. 2, d \in 1 .. 2,
        c \in {2}, i \in {3}}
    \cup {Config("real", 3, 1, 2, 2, 4)}
    \cup {[bench |-> b, n |-> n, rec |-> [t \in Tables(b) |-> 3]] :
            b \in {"tpca", "micro", "rw"}, n \in 1 .. 2}
=============================================================================
