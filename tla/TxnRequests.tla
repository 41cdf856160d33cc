---------------------------- MODULE TxnRequests -----------------------------
(***************************************************************************)
(* TxnRequestFactory (src/deptran/txn_req_factory.cc) and the functions    *)
(* with which the choppers shard a request's pieces, composed with the     *)
(* sites that Sharding fills: the requests a client can make, the site     *)
(* each of their pieces goes to, and whether the row is there.             *)
(***************************************************************************)
EXTENDS Sharding

CONSTANTS MaxLines   \* the largest number of lines drawn (15 in the code)

\* i_id_buf of the new order that the client makes up.
VARIABLE items

vars == <<cfg, site, items>>

-----------------------------------------------------------------------------
\* The constructor: how many warehouses, districts of each, customers of each.

n_w_id(g) == IF g.bench = "real" THEN g.rec["warehouse"] ELSE g.rec["warehouse"] * g.n
n_d_id(g) == (g.rec["district"] * (IF g.bench = "real" THEN g.n ELSE 1)) \div g.rec["warehouse"]
n_c_id(g) == g.rec["customer"] \div g.rec["district"]
n_i_id(g) == g.rec["item"]

\* The home warehouse and district of coordinator cid.
Home(g, cid) == [w |-> cid % n_w_id(g), d |-> (cid \div n_w_id(g)) % n_d_id(g)]

Homes(g) == {Home(g, cid) : cid \in 0 .. n_w_id(g) * n_d_id(g)}

\* The warehouse of a remote line or customer: any but the home one, and the
\* home one when there is no other.
Remote(g, w) ==
    IF n_w_id(g) = 1 THEN {w}
    ELSE {IF r >= w THEN r + 1 ELSE r : r \in 0 .. n_w_id(g) - 2}

\* The rows that requests ask for.  A new order, an order status, a delivery or
\* a stock level: a customer of the home district and an item with the warehouse
\* that supplies it.  A payment's customer may be any of another warehouse.
NewOrders(g) ==
    UNION {[w : {h.w}, d : {h.d}, c : 0 .. n_c_id(g) - 1, i : 0 .. n_i_id(g) - 1,
            supply : Remote(g, h.w) \cup {h.w}] : h \in Homes(g)}

Payments(g) ==
    UNION {[w : {h.w}, d : {h.d}, c : 0 .. n_c_id(g) - 1, c_w : {h.w}, c_d : {h.d}]
           \cup (IF n_w_id(g) = 1 THEN {}
                 ELSE [w : {h.w}, d : {h.d}, c : 0 .. n_c_id(g) - 1,
                       c_w : Remote(g, h.w), c_d : 0 .. n_d_id(g) - 1]) : h \in Homes(g)}

\* TPC-A's payment, the micro benchmark's and the read-write benchmark's
\* requests draw a key of each table; TpcaPaymentChopper, MicroBenchChopper and
\* RWChopper look its site up.
PlainKeys(g, tb) == {<<k>> : k \in 0 .. g.rec[tb] - 1}

\* The draw of get_tpcc_new_order_txn_req: tmp counts the items that are not
\* yet in buf, and is moved past the ones that are.
RECURSIVE Skip(_, _, _)
Skip(buf, tmp, pre_n_less) ==
    LET n_less == Cardinality({j \in DOMAIN buf : buf[j] <= tmp})
    IN  IF n_less = pre_n_less THEN tmp ELSE Skip(buf, tmp + n_less - pre_n_less, n_less)

\* Mutant: the loop is not repeated, so that the item it lands on is not
\* compared with the ones before.
NextItemOnce(buf, tmp) == tmp + Cardinality({j \in DOMAIN buf : buf[j] <= tmp})

NextItem(buf, tmp) == Skip(buf, tmp, 0)

-----------------------------------------------------------------------------
\* The key with which a chopper looks a table's site up, and the table it names.

\* TpccChopper: by warehouse, items by i_id.
TpccKey(r, tb) ==
    CASE tb = "item" -> <<r.i>>
      [] tb = "stock" -> <<r.supply>>
      [] tb = "customer" -> IF "c_w" \in DOMAIN r THEN <<r.c_w>> ELSE <<r.w>>
      [] OTHER -> <<r.w>>

\* Mutant: a payment's customer is looked for in the home district.
TpccDistKeyHome(r, tb) ==
    CASE tb = "warehouse" -> <<r.w>>
      [] tb = "item" -> <<r.i>>
      [] tb = "stock" -> <<r.i, r.supply>>
      [] OTHER -> <<r.d, r.w>>

\* TpccDistChopper: by district, and the stock by item and warehouse.
TpccDistKey(r, tb) ==
    CASE tb = "warehouse" -> <<r.w>>
      [] tb = "item" -> <<r.i>>
      [] tb = "stock" -> <<r.i, r.supply>>
      [] tb = "customer" -> IF "c_w" \in DOMAIN r THEN <<r.c_d, r.c_w>> ELSE <<r.d, r.w>>
      [] OTHER -> <<r.d, r.w>>

\* TpccRealDistChopper: the warehouse is the copy on the district's site, the
\* item the copy on the stock's.
TpccRealDistKey(r, tb) ==
    CASE tb \in {"item", "stock"} -> <<r.i, r.supply>>
      [] tb = "customer" -> IF "c_w" \in DOMAIN r THEN <<r.c_d, r.c_w>> ELSE <<r.d, r.w>>
      [] OTHER -> <<r.d, r.w>>

\* Sharding::get_site_id.
SiteOf(g, r, tb) ==
    CASE g.bench = "tpcc" -> site_from_key(g, tb, TpccKey(r, tb))
      [] g.bench = "dist" -> site_from_key(g, tb, TpccDistKey(r, tb))
      [] g.bench = "real" -> site_from_key(g, IF tb = "warehouse" THEN "district" ELSE tb,
                                           TpccRealDistKey(r, tb))

-----------------------------------------------------------------------------
Init == /\ cfg \in Configs
        /\ site = [s \in 0 .. cfg.n - 1 |-> NewSite(cfg)]
        /\ items = <<>>

AllReady == \A s \in Sites : site[s].ready

Fill(s) == (Visit(s) \/ EndPass(s)) /\ UNCHANGED items

\* The client draws the next item of a new order.
DrawItem ==
    /\ AllReady /\ cfg.bench \in TpccBenchmarks /\ Len(items) < MaxLines /\ Len(items) < n_i_id(cfg)
    /\ \E tmp \in 0 .. n_i_id(cfg) - 1 - Len(items) : items' = Append(items, NextItem(items, tmp))
    /\ UNCHANGED <<cfg, site>>

\* The request is complete.
Drawn == /\ AllReady
         /\ cfg.bench \in TpccBenchmarks => Len(items) = Min({MaxLines, n_i_id(cfg)})
         /\ UNCHANGED vars

Next == (\E s \in Sites : Fill(s)) \/ DrawItem \/ Drawn

Spec == Init /\ [][Next]_vars

-----------------------------------------------------------------------------
\* While a site fills its tables the counters of do_tpcc_populate_table agree
\* with what it has filled, and only referred columns hold values.
TypeOK ==
    /\ cfg \in Configs
    /\ \A s \in Sites :
         LET S == site[s]
         IN  /\ S.done \subseteq Tables(cfg.bench)
             /\ S.left = Len(TableOrder(cfg.bench)) - Cardinality(S.done)
             /\ S.at \in 1 .. Len(TableOrder(cfg.bench)) + 1 /\ S.left <= S.pre
             /\ \A t \in Tables(cfg.bench) \ S.done : S.rows[t] = {}

\* The loop that fills the tables never gives up: every pass fills a table, the
\* foreign values a table needs are there when it is filled, and the numbers of
\* records fit (the verifys of the do_*_populate_table functions).
PopulateSucceeds == \A s \in Sites : site[s].ok

\* A row is inserted once and at one site, the sites' copies of the warehouses
\* and of the items in TPCC_REAL_DIST_PART apart: the sites, each on its own,
\* divide the tables among them.
RowsOnce == TypeOK /\
    \A s \in Sites : \A t \in Tables(cfg.bench) :
        /\ site[s].many[t] = Cardinality(site[s].rows[t])
        /\ (cfg.bench # "real" \/ t \notin {"warehouse", "item"}) =>
               \A q \in Sites \ {s} : site[s].rows[t] \cap site[q].rows[t] = {}

\* When the sites are ready each row that a piece of a request reads first is
\* at the site to which the chopper sends the piece.
FirstRowsPresent ==
    AllReady =>
      IF cfg.bench \notin TpccBenchmarks
      THEN \A tb \in Tables(cfg.bench) : \A key \in PlainKeys(cfg, tb) :
               key \in site[site_from_key(cfg, tb, key)].rows[tb]
      ELSE
      /\ \A r \in NewOrders(cfg) :
            LET At(tb) == site[SiteOf(cfg, r, tb)].rows[tb]
            IN  /\ <<r.w>> \in At("warehouse") /\ <<r.d, r.w>> \in At("district")
                /\ <<r.c, r.d, r.w>> \in At("customer")
                /\ <<r.i>> \in At("item") /\ <<r.i, r.supply>> \in At("stock")
      /\ \A r \in Payments(cfg) :
            LET At(tb) == site[SiteOf(cfg, r, tb)].rows[tb]
            IN  /\ <<r.w>> \in At("warehouse") /\ <<r.d, r.w>> \in At("district")
                /\ <<r.c, r.c_d, r.c_w>> \in At("customer")

\* TPCC_NEW_ORDER_3 and TPCC_ORDER_STATUS_2 call next() on what they find in
\* the index of orders, and Cursor::next verifies that there is a row
\* (src/memdb/table.h:151): the index has an entry for every customer a request
\* can name, at the site of the order pieces, and the order it names is there.
IndexFilled ==
    AllReady => \A r \in NewOrders(cfg) :
        LET S == site[SiteOf(cfg, r, "order")]
        IN  <<r.d, r.w, r.c>> \in DOMAIN S.sec
            /\ <<r.d, r.w, S.sec[<<r.d, r.w, r.c>>]>> \in S.rows["order"]

\* IndexFilled for the benchmarks whose populate function fills the index:
\* do_tpcc_dist_partition_populate_table leaves it empty.
IndexComplete == cfg.bench \in {"tpcc", "real"} => IndexFilled

\* Every site fills its tables without giving up, and when all are ready the
\* rows that the pieces of any request read first, and the index entries that
\* new_order and order_status read, are where the chopper sends the pieces.
RowsPresent == PopulateSucceeds /\ FirstRowsPresent /\ IndexComplete

\* A district's d_next_o_id is the first number that none of its orders has, so
\* that new orders do not meet the populated ones; what a delivery finds in
\* new_order has its order, its customer and its order lines at the same site.
OrdersConsistent ==
    \A s \in Sites : LET S == site[s] IN S.ready /\ cfg.bench \in TpccBenchmarks =>
        /\ \A k \in S.rows["district"] :
             {o[3] : o \in {x \in S.rows["order"] : x[1] = k[1] /\ x[2] = k[2]}}
                 = 0 .. S.next_o_id - 1
        /\ \A k \in S.rows["new_order"] :
             /\ k \in S.rows["order"] /\ <<k[3], k[1], k[2]>> \in S.rows["customer"]
             /\ \E l \in S.rows["order_line"] : SubSeq(l, 1, 3) = k

\* Whatever items a new order has drawn, the next draw can give any of the
\* others and none of these, each from one value of the random number.
DrawsAreFresh ==
    AllReady /\ cfg.bench \in TpccBenchmarks /\ Len(items) < n_i_id(cfg) =>
        {NextItem(items, tmp) : tmp \in 0 .. n_i_id(cfg) - 1 - Len(items)}
            = (0 .. n_i_id(cfg) - 1) \ Range(items)
=============================================================================
