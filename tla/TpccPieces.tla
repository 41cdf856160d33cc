----------------------------- MODULE TpccPieces -----------------------------
(***************************************************************************)
(* The pieces of the TPC-C transactions (src/deptran/tpcc/piece.cc), as    *)
(* functions of their input and of the rows they find.                     *)
(*                                                                         *)
(* A database is a function from cells <<table, key, column>> to values; a *)
(* row exists when its cells do.  Columns that no piece ever writes        *)
(* (taxes, names, addresses, prices) are not cells: the R locks on them    *)
(* exclude nothing and their values are constants here.  Keys follow the   *)
(* column order of the schemas.                                            *)
(*                                                                         *)
(* Every handler is called up to three times: to register its 2PL locks    *)
(* (output_size == NULL), to touch its dependency entries (pv != NULL),    *)
(* and to access its rows.  The record a piece evaluates to has one field  *)
(* for each of these:                                                      *)
(*   df        DF_NO (runs when started), DF_REAL (deferred until commit), *)
(*             DF_FAKE (runs when started, and once more at commit)        *)
(*   r, w      the cells locked with RLOCK and WLOCK in MODE_2PL           *)
(*   touch     the entries touched in MODE_DEPTRAN, immediate unless the   *)
(*             piece is DF_REAL                                            *)
(*   ro        the entries ro_touch()ed for a read-only transaction        *)
(*   ok        no verify() of the handler fails and every row it           *)
(*             dereferences exists                                         *)
(*   out       the part of its output that the choppers use                *)
(*   upd, rm   the cells it writes or inserts, and the cells it removes    *)
(***************************************************************************)
EXTENDS Integers, Sequences, FiniteSets, Functions, FiniteSetsExt, TLC

CONSTANTS
    CLast,    \* c_last2id: function c_id -> last name, as populated
    Price     \* i_price: function i_id -> price

ASSUME PriceAssumption == \A i \in DOMAIN Price : Price[i] \in Nat

DF_NO   == "DF_NO"
DF_REAL == "DF_REAL"
DF_FAKE == "DF_FAKE"

NoCells == [c \in {} |-> 0]

Piece == [df |-> DF_NO, r |-> {}, w |-> {}, touch |-> {}, ro |-> {},
          ok |-> TRUE, out |-> <<>>, upd |-> NoCells, rm |-> {}]

Cells(tb, key, cols) == {<<tb, key, col>> : col \in cols}

\* The keys of the rows of a table.
Keys(tb, D) == {c[2] : c \in {x \in DOMAIN D : x[1] = tb}}

OrderLines(d, w, o, D) ==
    {k \in Keys("order_line", D) : <<k[1], k[2], k[3]>> = <<d, w, o>>}

-----------------------------------------------------------------------------
\* NEW_ORDER

\* Mutant: d_next_o_id is not locked.
TPCC_NEW_ORDER_0NoLock(in, D) ==
    LET c == <<"district", <<in.d, in.w>>, "d_next_o_id">>
    IN  [Piece EXCEPT !.touch = {c}, !.out = <<D[c]>>, !.upd = c :> D[c] + 1]

\* Reads d_next_o_id and increments it.
TPCC_NEW_ORDER_0(in, D) ==
    LET c == <<"district", <<in.d, in.w>>, "d_next_o_id">>
    IN  [Piece EXCEPT !.w = {c}, !.touch = {c},
                      !.out = <<D[c]>>, !.upd = c :> D[c] + 1]

\* Reads w_tax, which no piece writes.
TPCC_NEW_ORDER_1(in, D) == Piece

\* Reads c_last, c_credit and c_discount, which no piece writes.
TPCC_NEW_ORDER_2(in, D) == Piece

\* The order row a new_order inserts.
OrderRow(in) ==
    LET k == <<in.d, in.w, in.o>>
    IN  (<<"order", k, "o_c_id">> :> in.c)
        @@ (<<"order", k, "o_carrier_id">> :> in.carrier)
        @@ (<<"order", k, "o_ol_cnt">> :> in.ol_cnt)

\* Mutants: the order is inserted when the piece starts; the secondary index
\* is left alone.
TPCC_NEW_ORDER_3AtOnce(in, D) == [Piece EXCEPT !.upd = OrderRow(in)]
TPCC_NEW_ORDER_3NoIndex(in, D) == [Piece EXCEPT !.df = DF_REAL, !.upd = OrderRow(in)]

\* Inserts the order, and makes it the customer's latest one in the
\* secondary index.
TPCC_NEW_ORDER_3(in, D) ==
    LET k   == <<in.d, in.w, in.o>>
        sec == <<"order_secondary", <<in.d, in.w, in.c>>, "o_id">>
    IN  [Piece EXCEPT
            !.df = DF_REAL,
            !.w = {sec},
            !.touch = {<<"order", k, "o_carrier_id">>},
            !.upd = (sec :> in.o) @@ OrderRow(in)]

\* Inserts the new_order row.
TPCC_NEW_ORDER_4(in, D) ==
    LET c == <<"new_order", <<in.d, in.w, in.o>>, "no_o_id">>
    IN  [Piece EXCEPT !.df = DF_REAL, !.touch = {c}, !.upd = c :> in.o]

\* Reads i_name, i_price and i_data.
TPCC_NEW_ORDER_5(in, D) == [Piece EXCEPT !.out = <<Price[in.i]>>]

\* Reads s_dist_xx and s_data, which no piece writes.
TPCC_NEW_ORDER_6(in, D) == Piece

\* Takes the ordered quantity out of the stock.
TPCC_NEW_ORDER_7(in, D) ==
    LET S(col) == <<"stock", <<in.i, in.w>>, col>>
        cs  == {S("s_quantity"), S("s_ytd"), S("s_order_cnt"), S("s_remote_cnt")}
        q   == D[S("s_quantity")] - in.qty
    IN  [Piece EXCEPT
            !.df = DF_REAL, !.w = cs, !.touch = cs,
            !.upd = (S("s_quantity") :> IF q < 10 THEN q + 91 ELSE q)
                    @@ (S("s_ytd") :> D[S("s_ytd")] + in.qty)
                    @@ (S("s_order_cnt") :> D[S("s_order_cnt")] + 1)
                    @@ (S("s_remote_cnt") :> D[S("s_remote_cnt")] + in.is_remote)]

\* Inserts an order line.
TPCC_NEW_ORDER_8(in, D) ==
    LET O(col) == <<"order_line", <<in.d, in.w, in.o, in.number>>, col>>
    IN  [Piece EXCEPT
            !.df = DF_REAL,
            !.touch = {O("ol_i_id"), O("ol_delivery_d"), O("ol_amount")},
            !.upd = (O("ol_i_id") :> in.i)
                    @@ (O("ol_supply_w_id") :> in.supply)
                    @@ (O("ol_delivery_d") :> "")
                    @@ (O("ol_quantity") :> in.qty)
                    @@ (O("ol_amount") :> in.amount)]

-----------------------------------------------------------------------------
\* PAYMENT

\* Reads the name and the address of the warehouse; the update of w_ytd is
\* commented out in the code.
TPCC_PAYMENT_0(in, D) == Piece

\* Reads the name and the address of the district.
TPCC_PAYMENT_1(in, D) == Piece

\* Adds the payment to d_ytd.
TPCC_PAYMENT_2(in, D) ==
    LET c == <<"district", <<in.d, in.w>>, "d_ytd">>
    IN  [Piece EXCEPT !.df = DF_REAL, !.w = {c}, !.touch = {c},
                      !.upd = c :> D[c] + in.amount]

\* The customer in the middle of those with this last name: it_mid stays on
\* the first one and moves on at every second one after it.
TPCC_PAYMENT_3(in, D) ==
    LET cs == {c \in DOMAIN CLast : CLast[c] = in.c_last}
        n  == Cardinality(cs)
    IN  IF n = 0 THEN [Piece EXCEPT !.ok = FALSE]
        ELSE [Piece EXCEPT !.out =
                 <<CHOOSE c \in cs : Cardinality({x \in cs : x < c}) = (n - 1) \div 2>>]

\* Mutant: the balance and the payments are only read-locked.
TPCC_PAYMENT_4ReadLock(in, D) ==
    LET C(col) == <<"customer", <<in.c, in.c_d, in.c_w>>, col>>
        bal    == C("c_balance")
        ytd    == C("c_ytd_payment")
    IN  [Piece EXCEPT
            !.df = DF_REAL, !.r = {bal, ytd}, !.touch = {bal, ytd, C("c_data")},
            !.out = <<CLast[in.c]>>,
            !.upd = (bal :> D[bal] - in.amount) @@ (ytd :> D[ytd] + in.amount)]

\* Takes the payment off the balance; every tenth customer has bad credit
\* and gets c_data rewritten too.
TPCC_PAYMENT_4(in, D) ==
    LET C(col) == <<"customer", <<in.c, in.c_d, in.c_w>>, col>>
        bad    == in.c % 10 = 0
        bal    == C("c_balance")
        ytd    == C("c_ytd_payment")
    IN  [Piece EXCEPT
            !.df = DF_REAL,
            !.r = IF bad THEN {} ELSE {C("c_data")},
            !.w = {bal, ytd} \cup IF bad THEN {C("c_data")} ELSE {},
            !.touch = {bal, ytd, C("c_data")},
            !.out = <<CLast[in.c]>>,
            !.upd = (bal :> D[bal] - in.amount) @@ (ytd :> D[ytd] + in.amount)
                    @@ (IF bad THEN C("c_data") :> D[C("c_data")] + 1 ELSE NoCells)]

\* Inserts the history row; it is created and inserted at commit, with no
\* entry touched.
TPCC_PAYMENT_5(in, D) ==
    LET H(col) == <<"history", <<in.h_key>>, col>>
    IN  [Piece EXCEPT
            !.df = DF_REAL,
            !.upd = (H("h_c") :> <<in.c, in.c_d, in.c_w>>)
                    @@ (H("h_d") :> <<in.d, in.w>>)
                    @@ (H("h_amount") :> in.amount)]

-----------------------------------------------------------------------------
\* ORDER_STATUS (read-only)

TPCC_ORDER_STATUS_0(in, D) == TPCC_PAYMENT_3(in, D)

\* Reads the balance.
TPCC_ORDER_STATUS_1(in, D) ==
    LET c == <<"customer", <<in.c, in.d, in.w>>, "c_balance">>
    IN  [Piece EXCEPT !.r = {c}, !.ro = {c}, !.out = <<D[c]>>]

\* Finds the customer's latest order through the secondary index, then reads
\* that order.
TPCC_ORDER_STATUS_2(in, D) ==
    LET sec == <<"order_secondary", <<in.d, in.w, in.c>>, "o_id">>
        car == <<"order", <<in.d, in.w, D[sec]>>, "o_carrier_id">>
    IN  IF car \notin DOMAIN D THEN [Piece EXCEPT !.ok = FALSE]
        ELSE [Piece EXCEPT !.r = {sec, car}, !.ro = {car},
                           !.out = <<D[sec], D[car]>>]

\* Reads the lines of that order: verify(row_list.size() != 0).
TPCC_ORDER_STATUS_3(in, D) ==
    LET ks  == OrderLines(in.d, in.w, in.o, D)
        del == {<<"order_line", k, "ol_delivery_d">> : k \in ks}
    IN  [Piece EXCEPT
            !.ok = ks # {},
            !.r = del \cup {<<"order_line", k, "ol_amount">> : k \in ks},
            !.ro = del,
            !.out = <<{<<k[4], D[<<"order_line", k, "ol_delivery_d">>],
                         D[<<"order_line", k, "ol_amount">>]>> : k \in ks}>>]

-----------------------------------------------------------------------------
\* DELIVERY

\* Takes the oldest new order of the district out of the table, when there
\* is one.  Under 2PL the whole row is locked, and removed at commit; in
\* MODE_DEPTRAN it is removed when the piece starts, and the second call, at
\* commit, only frees it.
TPCC_DELIVERY_0(in, D) ==
    LET os == {k[3] : k \in {x \in Keys("new_order", D) :
                                <<x[1], x[2]>> = <<in.d, in.w>>}}
        c  == <<"new_order", <<in.d, in.w, Min(os)>>, "no_o_id">>
    IN  IF os = {} THEN [Piece EXCEPT !.df = DF_FAKE, !.out = <<-1>>]
        ELSE [Piece EXCEPT !.df = DF_FAKE, !.w = {c}, !.touch = {c},
                           !.out = <<Min(os)>>, !.rm = {c}]

\* Writes the carrier into the order and returns its customer.
TPCC_DELIVERY_1(in, D) ==
    LET cid == <<"order", <<in.d, in.w, in.o>>, "o_c_id">>
        car == <<"order", <<in.d, in.w, in.o>>, "o_carrier_id">>
    IN  IF car \notin DOMAIN D THEN [Piece EXCEPT !.ok = FALSE]
        ELSE [Piece EXCEPT !.r = {cid}, !.w = {car}, !.touch = {car},
                           !.out = <<D[cid]>>, !.upd = car :> in.carrier]

\* Dates the order's lines and returns the sum of their amounts.
TPCC_DELIVERY_2(in, D) ==
    LET ks  == OrderLines(in.d, in.w, in.o, D)
        del == {<<"order_line", k, "ol_delivery_d">> : k \in ks}
        amt == {<<"order_line", k, "ol_amount">> : k \in ks}
    IN  [Piece EXCEPT !.r = amt, !.w = del, !.touch = del \cup amt,
                      !.out = <<MapThenSumSet(LAMBDA c : D[c], amt)>>,
                      !.upd = [c \in del |-> "now"]]

\* Adds the sum to the customer's balance.
TPCC_DELIVERY_3(in, D) ==
    LET C(col) == <<"customer", <<in.c, in.d, in.w>>, col>>
        cs     == {C("c_balance"), C("c_delivery_cnt")}
    IN  [Piece EXCEPT
            !.df = DF_REAL, !.w = cs, !.touch = cs,
            !.upd = (C("c_balance") :> D[C("c_balance")] + in.amount)
                    @@ (C("c_delivery_cnt") :> D[C("c_delivery_cnt")] + 1)]

-----------------------------------------------------------------------------
\* STOCK_LEVEL (read-only)

\* Reads d_next_o_id.
TPCC_STOCK_LEVEL_0(in, D) ==
    LET c == <<"district", <<in.d, in.w>>, "d_next_o_id">>
    IN  [Piece EXCEPT !.r = {c}, !.ro = {c}, !.out = <<D[c]>>]

\* The items of the lines of the 20 orders before d_next_o_id: the bounds
\* (o - 21, INT_MAX) and (o, INT_MIN) are exclusive.  verify(row_list.size()
\* != 0).
TPCC_STOCK_LEVEL_1(in, D) ==
    LET ks == {k \in Keys("order_line", D) :
                  /\ <<k[1], k[2]>> = <<in.d, in.w>>
                  /\ in.o - 21 < k[3] /\ k[3] < in.o}
        it == {<<"order_line", k, "ol_i_id">> : k \in ks}
    IN  [Piece EXCEPT !.ok = ks # {}, !.r = it, !.out = <<{D[c] : c \in it}>>]

\* Whether an item's stock is below the threshold.  ro_touch is called under
\* "if (pv)", and pv is NULL for a read-only transaction.
TPCC_STOCK_LEVEL_2(in, D) ==
    LET c == <<"stock", <<in.i, in.w>>, "s_quantity">>
    IN  [Piece EXCEPT !.r = {c},
                      !.out = <<IF D[c] < in.threshold THEN 1 ELSE 0>>]

-----------------------------------------------------------------------------
\* TxnRegistry::get: the handler registered for a piece type.
Handler(p_type, in, D) ==
    CASE p_type = "NEW_ORDER_0" -> TPCC_NEW_ORDER_0(in, D)
      [] p_type = "NEW_ORDER_1" -> TPCC_NEW_ORDER_1(in, D)
      [] p_type = "NEW_ORDER_2" -> TPCC_NEW_ORDER_2(in, D)
      [] p_type = "NEW_ORDER_3" -> TPCC_NEW_ORDER_3(in, D)
      [] p_type = "NEW_ORDER_4" -> TPCC_NEW_ORDER_4(in, D)
      [] p_type = "NEW_ORDER_5" -> TPCC_NEW_ORDER_5(in, D)
      [] p_type = "NEW_ORDER_6" -> TPCC_NEW_ORDER_6(in, D)
      [] p_type = "NEW_ORDER_7" -> TPCC_NEW_ORDER_7(in, D)
      [] p_type = "NEW_ORDER_8" -> TPCC_NEW_ORDER_8(in, D)
      [] p_type = "PAYMENT_0" -> TPCC_PAYMENT_0(in, D)
      [] p_type = "PAYMENT_1" -> TPCC_PAYMENT_1(in, D)
      [] p_type = "PAYMENT_2" -> TPCC_PAYMENT_2(in, D)
      [] p_type = "PAYMENT_3" -> TPCC_PAYMENT_3(in, D)
      [] p_type = "PAYMENT_4" -> TPCC_PAYMENT_4(in, D)
      [] p_type = "PAYMENT_5" -> TPCC_PAYMENT_5(in, D)
      [] p_type = "ORDER_STATUS_0" -> TPCC_ORDER_STATUS_0(in, D)
      [] p_type = "ORDER_STATUS_1" -> TPCC_ORDER_STATUS_1(in, D)
      [] p_type = "ORDER_STATUS_2" -> TPCC_ORDER_STATUS_2(in, D)
      [] p_type = "ORDER_STATUS_3" -> TPCC_ORDER_STATUS_3(in, D)
      [] p_type = "DELIVERY_0" -> TPCC_DELIVERY_0(in, D)
      [] p_type = "DELIVERY_1" -> TPCC_DELIVERY_1(in, D)
      [] p_type = "DELIVERY_2" -> TPCC_DELIVERY_2(in, D)
      [] p_type = "DELIVERY_3" -> TPCC_DELIVERY_3(in, D)
      [] p_type = "STOCK_LEVEL_0" -> TPCC_STOCK_LEVEL_0(in, D)
      [] p_type = "STOCK_LEVEL_1" -> TPCC_STOCK_LEVEL_1(in, D)
      [] p_type = "STOCK_LEVEL_2" -> TPCC_STOCK_LEVEL_2(in, D)
=============================================================================
