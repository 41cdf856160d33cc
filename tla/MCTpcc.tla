------------------------------- MODULE MCTpcc -------------------------------
(***************************************************************************)
(* Instances of module Tpcc: two warehouses on two sites, one district     *)
(* each, two customers, two items, and a populated order for each          *)
(* customer.                                                               *)
(***************************************************************************)
EXTENDS Tpcc

\* Customers 0 and 1 share a last name.
MCCLast == [c \in 0 .. 1 |-> "BAR"]
MCPrice == [i \in 0 .. 1 |-> i + 1]
W == 0 .. 1
C == DOMAIN MCCLast

Row(tb, key, vals) == [x \in Cells(tb, key, DOMAIN vals) |-> vals[x[3]]]
Rows(fs) == FoldFunction(@@, NoCells, fs)

\* Order c of a district belongs to customer c; order 0 has a new_order row.
\* Populated lines carry a random delivery date.
MCPopulated ==
    Rows([w \in W |->
        Row("district", <<0, w>>, [d_next_o_id |-> Cardinality(C), d_ytd |-> 0])
        @@ Row("new_order", <<0, w, 0>>, [no_o_id |-> 0])
        @@ Rows([c \in C |->
              Row("customer", <<c, 0, w>>, [c_balance |-> 0, c_ytd_payment |-> 0,
                                            c_delivery_cnt |-> 0, c_data |-> 0])
              @@ Row("order", <<0, w, c>>, [o_c_id |-> c, o_carrier_id |-> 0,
                                            o_ol_cnt |-> 1])
              @@ Row("order_secondary", <<0, w, c>>, [o_id |-> c])
              @@ Row("order_line", <<0, w, c, 0>>,
                     [ol_i_id |-> 0, ol_supply_w_id |-> w, ol_delivery_d |-> "random",
                      ol_quantity |-> 1, ol_amount |-> 5])])
        @@ Rows([i \in DOMAIN MCPrice |->
              Row("stock", <<i, w>>, [s_quantity |-> 11, s_ytd |-> 0,
                                      s_order_cnt |-> 0, s_remote_cnt |-> 0])])])

NewOrder(c, lines) == [type |-> "NEW_ORDER", w |-> 0, d |-> 0, c |-> c, lines |-> lines]
Item(i, supply, q) == [i |-> i, supply |-> supply, qty |-> q]
PayById(c, c_w, k) ==
    [type |-> "PAYMENT", by_name |-> FALSE, w |-> 0, d |-> 0, c |-> c, c_last |-> "",
     c_w |-> c_w, c_d |-> 0, amount |-> 3, h_key |-> k]
PayByName(c_w, k) == [PayById(0, c_w, k) EXCEPT !.by_name = TRUE, !.c_last = "BAR"]
Status(by_name, c) ==
    [type |-> "ORDER_STATUS", by_name |-> by_name, w |-> 0, d |-> 0, c |-> c,
     c_last |-> "BAR"]
Delivery == [type |-> "DELIVERY", w |-> 0, d |-> 0, carrier |-> 7]
StockLevel == [type |-> "STOCK_LEVEL", w |-> 0, d |-> 0, threshold |-> 11]

MCMix ==
    {<<NewOrder(0, <<Item(1, 1, 2)>>), Delivery, Delivery>>,
     <<NewOrder(0, <<Item(0, 0, 2)>>), NewOrder(0, <<Item(0, 0, 3)>>)>>,
     <<PayByName(0, 0), Delivery>>,
     <<PayByName(1, 1), PayById(0, 1, 0)>>,
     <<Status(FALSE, 0), Delivery, PayById(0, 0, 1)>>,
     <<Status(TRUE, 0), PayById(0, 0, 1)>>,
     <<NewOrder(0, <<Item(0, 0, 2)>>), NewOrder(0, <<Item(0, 1, 3)>>), Delivery>>,
     <<NewOrder(0, <<Item(1, 1, 2)>>), PayByName(0, 0), Delivery>>,
     <<StockLevel, NewOrder(0, <<Item(0, 1, 1), Item(1, 0, 1)>>)>>}
=============================================================================
