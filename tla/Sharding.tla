------------------------------ MODULE Sharding ------------------------------
(***************************************************************************)
(* Sharding (src/deptran/sharding.cc): which site a key belongs to, and    *)
(* how every site fills its share of the TPC-C tables before it serves     *)
(* anything.  No site asks another one: each of them works out from the    *)
(* configuration alone which rows are its own, and a client works out from *)
(* the same configuration where to send a piece.  The three TPC-C          *)
(* benchmarks place their rows differently: "tpcc" by warehouse, "dist"    *)
(* (TPCC_DIST_PART) and "real" (TPCC_REAL_DIST_PART) by district.  The     *)
(* tables of the other benchmarks have one key and stand alone.            *)
(*                                                                         *)
(* A row is its primary key; the other columns are left out, but for the   *)
(* o_id in the index of orders by customer, for d_next_o_id and            *)
(* for o_c_id, which equals o_id.                                          *)
(***************************************************************************)
EXTENDS Naturals, Sequences, FiniteSets, FiniteSetsExt, SequencesExt, TLC

CONSTANTS Configs,   \* the configurations: [bench, n, rec], see below
          Null       \* a values pointer that is NULL

-----------------------------------------------------------------------------
\* The tables of a benchmark in the order of std::map<std::string, tb_info_t>.
\* TPC-A's customer table is "a_customer" here.
TableOrder(b) ==
    CASE b \in {"tpcc", "dist", "real"} ->
           <<"customer", "district", "history", "item", "new_order", "order",
             "order_line", "stock", "warehouse">>
      [] b = "tpca" -> <<"branch", "a_customer", "teller">>
      [] b = "micro" -> <<"table_a", "table_b", "table_c", "table_d">>
      [] b = "rw" -> <<"rw_table">>

Tables(b) == Range(TableOrder(b))

TpccBenchmarks == {"tpcc", "dist", "real"}
Benchmarks == TpccBenchmarks \cup {"tpca", "micro", "rw"}

\* A configuration: the benchmark, the number of sites (each table is on all
\* of them) and, for each table, num_records.
IsConfig(g) == /\ g.bench \in Benchmarks /\ g.n \in Nat \ {0}
               /\ g.rec \in [Tables(g.bench) -> Nat \ {0}]

ASSUME ConfigsAssumption == Configs # {} /\ \A g \in Configs : IsConfig(g)

-----------------------------------------------------------------------------
\* The TPC-C schema (src/template/tpcc_mix_1.xml, the same columns in every
\* TPC-C configuration) as Config reads it.

Self(c) == [col |-> c, ft |-> "", fc |-> ""]
Ref(c, t, f) == [col |-> c, ft |-> t, fc |-> f]

\* The primary columns; ft and fc are foreign_tb and foreign.
TpccColumns ==
    [customer   |-> <<Self("c_id"), Ref("c_d_id", "district", "d_id"),
                      Ref("c_w_id", "district", "d_w_id")>>,
     district   |-> <<Self("d_id"), Ref("d_w_id", "warehouse", "w_id")>>,
     history    |-> <<Self("h_key")>>,
     item       |-> <<Self("i_id")>>,
     new_order  |-> <<Ref("no_d_id", "order", "o_d_id"),
                      Ref("no_w_id", "order", "o_w_id"), Ref("no_o_id", "order", "o_id")>>,
     order      |-> <<Ref("o_d_id", "district", "d_id"),
                      Ref("o_w_id", "district", "d_w_id"), Self("o_id")>>,
     order_line |-> <<Ref("ol_d_id", "order", "o_d_id"), Ref("ol_w_id", "order", "o_w_id"),
                      Ref("ol_o_id", "order", "o_id"), Self("ol_number")>>,
     stock      |-> <<Ref("s_i_id", "item", "i_id"), Ref("s_w_id", "warehouse", "w_id")>>,
     warehouse  |-> <<Self("w_id")>>]

Columns(t) == IF t \in Tables("tpcc") THEN TpccColumns[t] ELSE <<Self("id")>>

\* The columns that the columns outside the primary key refer to.
OtherForeign(t) ==
    CASE t = "history" -> {"c_id", "c_d_id", "c_w_id", "d_id", "d_w_id"}
      [] t = "order" -> {"c_id"}
      [] t = "order_line" -> {"s_i_id", "s_w_id"}
      [] OTHER -> {}

Cols(t) == DOMAIN Columns(t)
Foreign(t) == {i \in Cols(t) : Columns(t)[i].ft # ""}

\* The columns that some column refers to: Config gives them a values vector.
Referred == UNION {{TpccColumns[t][i].fc : i \in Foreign(t)} \cup OtherForeign(t) :
                     t \in Tables("tpcc")}

-----------------------------------------------------------------------------
\* Where a key belongs.

\* insert_dist_mapping and insert_stock_mapping number the (d_id, w_id) and
\* the (i_id, w_id) pairs in the order in which Config inserts them; a key that
\* was not inserted reads as an empty MultiValue.
dist_mapping(g, key) ==
    LET n_w == g.rec["warehouse"]
        n_d == (g.n * g.rec["district"]) \div n_w
    IN  IF Len(key) = 2 /\ key[1] < n_d /\ key[2] < n_w THEN <<key[1] * n_w + key[2]>>
        ELSE <<>>

stock_mapping(g, key) ==
    LET n_w == g.rec["warehouse"]
    IN  IF Len(key) = 2 /\ key[1] < g.rec["item"] /\ key[2] < n_w
        THEN <<key[1] * n_w + key[2]>> ELSE <<>>

\* Both sharding methods on integers.
int_modulus(key, n) == FoldSeq(LAMBDA v, index : (index + (v % n)) % n, 0, key)

site_from_key(g, t, key) ==
    int_modulus(IF g.bench # "real" \/ t = "history" THEN key
                ELSE IF t \in {"stock", "item"} THEN stock_mapping(g, key)
                ELSE dist_mapping(g, key), g.n)

-----------------------------------------------------------------------------
\* One site.  at is the place of the loop over tb_info_, pre and left are
\* pre_num2populate and number2populate, done the tables with populated set;
\* rows are the keys of each table, many the number of rows inserted in it; sec
\* is the index of orders by customer, next_o_id the d_next_o_id of every
\* district; ready: populate_table has returned; ok: no verify has failed.

NewSite(g) ==
    [at |-> 1, pre |-> Len(TableOrder(g.bench)), left |-> Len(TableOrder(g.bench)),
     done |-> {}, ready |-> FALSE,
     values |-> [c \in Referred |-> <<>>], rows |-> [t \in Tables(g.bench) |-> {}],
     many |-> [t \in Tables(g.bench) |-> 0],
     sec |-> <<>>, next_o_id |-> 0, ok |-> TRUE]

ready2populate(S, t) ==
    \A c \in {Columns(t)[i].fc : i \in Foreign(t)} \cup OtherForeign(t) :
        S.values[c] = Null \/ S.values[c] # <<>>

\* The foreign values are counted and not taken from the foreign column.
Counted(g, c) == c.fc = "i_id" \/ (g.bench # "tpcc" /\ c.fc = "w_id")

\* The columns that move together through the pairs of local districts.
Bound(g, t) == {i \in Foreign(t) : g.bench # "tpcc"
                    /\ Columns(t)[i].fc \in {"d_id", "d_w_id", "o_d_id", "o_w_id"}}

\* The size of the foreign column i's index.
IndexBase(g, S, t, i) ==
    LET c == Columns(t)[i]
    IN  IF Counted(g, c) THEN g.rec[c.ft] * (IF g.bench = "dist" /\ c.fc = "w_id" THEN g.n ELSE 1)
        ELSE Len(S.values[c.fc])

Product(f, D) == FoldSet(LAMBDA i, acc : f[i] * acc, 1, D)

num_foreign_row(g, S, t) ==
    LET taken == {i \in Foreign(t) : ~Counted(g, Columns(t)[i])}
    IN  IF g.bench = "tpcc" THEN Product([i \in Cols(t) |-> IndexBase(g, S, t, i)], Foreign(t))
        ELSE IF taken # {} THEN g.rec[Columns(t)[Min(taken)].ft]
        ELSE Product([i \in Cols(t) |-> g.rec[Columns(t)[i].ft]], Foreign(t))

loc_num_records(g, t) ==
    IF g.bench = "real" /\ t = "district" THEN g.n * g.rec[t] ELSE g.rec[t]

\* index_increase, m times after init_index: column i's index.  The first
\* column runs fastest; of the bound columns only the first one is stepped and
\* the others follow it.
index_increase(g, S, t, m, i) ==
    LET lead(j) == IF j \in Bound(g, t) THEN Min(Bound(g, t)) ELSE j
        below == {j \in Foreign(t) : j < lead(i) /\ lead(j) = j}
        base == [j \in Foreign(t) |-> IndexBase(g, S, t, j)]
    IN  (m \div Product(base, below)) % base[i]

\* The number of increases before the index returns -1.
IndexTurns(g, S, t) ==
    Product([i \in Foreign(t) |-> IndexBase(g, S, t, i)],
            Foreign(t) \ (Bound(g, t) \ {Min(Bound(g, t) \cup {9})}))

\* The key of the row for key_value k when the index was increased m times.
RowKey(g, S, t, k, m) ==
    [i \in Cols(t) |->
       LET c == Columns(t)[i]
       IN  IF i \notin Foreign(t) THEN k
           ELSE IF Counted(g, c) THEN index_increase(g, S, t, m, i)
           ELSE S.values[c.fc][index_increase(g, S, t, m, i) + 1]]

\* Mutant: every site keeps the rows of every table.
HereAll(g, s, t, key) == TRUE

\* Whether the site keeps the row.
Here(g, s, t, key) ==
    \/ Foreign(t) # {} /\ (g.bench = "tpcc" \/ t \notin {"stock", "district"})
    \/ g.bench = "real" /\ t \in {"warehouse", "item"}
    \/ s = site_from_key(g, t, key)

-----------------------------------------------------------------------------
\* The keys that table t gets at site s, in the order of insertion.  With fewer
\* records than foreign rows the loop ends after num_records rows.
NewRows(g, s, S, t) ==
    LET self  == loc_num_records(g, t) \div num_foreign_row(g, S, t)
        keys  == IF t = "warehouse" /\ g.bench # "real" THEN self * g.n ELSE self
        turns == IndexTurns(g, S, t)
        all   == [x \in 1 .. Max({keys, 1}) * turns |->
                     RowKey(g, S, t, (x - 1) \div turns, (x - 1) % turns)]
        mine  == SelectSeq(all, LAMBDA key : Here(g, s, t, key))
    IN  IF self > 0 THEN mine ELSE SubSeq(mine, 1, Min({g.rec[t], Len(mine)}))

\* verify: the numbers of records fit, the bound columns have as many values
\* as each other, and the index is not exhausted before num_records rows are
\* there.
Fits(g, S, t, new) ==
    LET per == num_foreign_row(g, S, t)
    IN  /\ \A i, j \in Bound(g, t) : IndexBase(g, S, t, i) = IndexBase(g, S, t, j)
        /\ loc_num_records(g, t) % per = 0 \/ g.rec[t] < per
        /\ g.rec[t] >= per \/ Len(new) = g.rec[t]

\* What a column's values become.
NewValues(g, S, t, i, new) ==
    LET c == Columns(t)[i]
        pushed == [x \in DOMAIN new |-> new[x][i]]
        once == IF Foreign(t) = {} THEN pushed
                ELSE [x \in 1 .. Cardinality(Range(pushed)) |-> x - 1]
    IN  CASE g.bench # "tpcc" /\ (c.col \in {"i_id", "w_id"} \/ (t = "stock" /\ Counted(g, c))) -> Null
          [] g.bench # "tpcc" /\ t = "district" -> pushed
          [] i \in Foreign(t) /\ Counted(g, c) -> [x \in 1 .. g.rec["item"] |-> x - 1]
          [] i \in Foreign(t) -> S.values[c.fc]
          [] OTHER -> once

\* The index (o_d_id, o_w_id, o_c_id) -> the largest o_id, with o_c_id = o_id;
\* do_tpcc_dist_partition_populate_table does not fill it.
NewIndex(g, S, t, new) ==
    IF t # "order" \/ g.bench = "dist" THEN S.sec
    ELSE [k \in Range(new) |-> k[3]]

\* Mutant: the orders of all districts are counted.
d_next_o_idTotal(g) == g.rec["order"]

d_next_o_id(g) == g.rec["order"] \div g.rec["district"]

\* The iteration of the loop for a table that is ready.
Populate(g, s, S, t) ==
    IF \E i \in Foreign(t) : IndexBase(g, S, t, i) = 0 THEN [S EXCEPT !.ok = FALSE]
    ELSE LET new == NewRows(g, s, S, t)
         IN  [S EXCEPT !.rows[t] = Range(new), !.many[t] = Len(new),
                       !.values = [c \in Referred |->
                           LET is == {i \in Cols(t) : Columns(t)[i].col = c}
                           IN  IF is = {} THEN @[c] ELSE NewValues(g, S, t, Min(is), new)],
                       !.sec = NewIndex(g, S, t, new),
                       !.next_o_id = IF t = "district" THEN d_next_o_id(g) ELSE @,
                       !.done = @ \cup {t}, !.left = @ - 1,
                       !.ok = Fits(g, S, t, new)]

-----------------------------------------------------------------------------
VARIABLES cfg, site

Sites == 0 .. cfg.n - 1

\* One iteration of the loop over tb_info_ at site s.
Visit(s) ==
    LET S == site[s]
        t == TableOrder(cfg.bench)[S.at]
    IN  /\ S.ok /\ ~S.ready /\ S.at <= Len(TableOrder(cfg.bench))
        /\ site' = [site EXCEPT ![s] =
                      [(IF t \in S.done \/ ~ready2populate(S, t) THEN S
                        ELSE Populate(cfg, s, S, t)) EXCEPT !.at = @ + 1]]
        /\ UNCHANGED cfg

\* The end of a pass: it must have filled a table.  When all of them are filled
\* release_foreign_values frees the values and the site goes on to serve.
EndPass(s) ==
    LET S == site[s]
    IN  /\ S.ok /\ ~S.ready /\ S.at > Len(TableOrder(cfg.bench))
        /\ site' = [site EXCEPT ![s] =
                      [S EXCEPT !.ok = S.pre > S.left, !.at = 1, !.pre = S.left,
                                !.values = IF S.left = 0 THEN [c \in Referred |-> Null] ELSE @,
                                !.ready = (S.left = 0)]]
        /\ UNCHANGED cfg
=============================================================================
