---------------------------- MODULE TpccChopper -----------------------------
(***************************************************************************)
(* TpccChopper (src/deptran/tpcc/chopper.cc): how a TPC-C request becomes  *)
(* pieces, which pieces wait for the output of which, and what a retry     *)
(* resets.                                                                 *)
(*                                                                         *)
(* A chopper is a record:                                                  *)
(*   type        txn_type_                                                 *)
(*   status      piece -> -1 waiting, 0 ready, 1 sent, 2 not needed        *)
(*   inputs, p_types, sharding    of each piece                            *)
(*   dep         the flags of *_dep_                                       *)
(*   n_started, n_try                                                      *)
(*   go          what the last start_callback returned                     *)
(*   ok          no verify() of a callback has failed                      *)
(* n_pieces_ is the number of pieces in status.                            *)
(***************************************************************************)
EXTENDS TpccPieces

CONSTANTS NumSite,   \* the number of sites of every table
          Unset      \* Value(): an input that a callback fills in later

ASSUME NumSiteAssumption == NumSite \in Nat \ {0}

\* Sharding::int_modulus of a key with one component.
Shard(v) == v % NumSite

Chopper(type, status, inputs, p_types, sharding, dep, n_started) ==
    [type |-> type, status |-> status, inputs |-> inputs, p_types |-> p_types,
     sharding |-> sharding, dep |-> dep, n_started |-> n_started,
     n_try |-> 1, go |-> FALSE, ok |-> TRUE]

NPieces(c) == Cardinality(DOMAIN c.status)

Flags(c, fs) == \A f \in fs : c.dep[f]

NoInput == [unused |-> TRUE]

-----------------------------------------------------------------------------
\* NEW_ORDER: request [type, w, d, c, lines], where lines is a sequence of
\* [i, supply, qty].  Pieces 0..4, then four pieces for each line.

Line(pi) == (pi - 5) \div 4
LineKind(pi) == IF pi < 5 THEN "none"
                ELSE <<"item", "im_stock", "defer_stock", "order_line">>[((pi - 5) % 4) + 1]
ITEM(i)       == 5 + 4 * i
IM_STOCK(i)   == 6 + 4 * i
DEFER_STOCK(i)== 7 + 4 * i
ORDER_LINE(i) == 8 + 4 * i

new_order_pieces(r) == 0 .. 4 + 4 * Len(r.lines)

new_order_status(pi) ==
    IF pi \in {3, 4} \/ LineKind(pi) = "order_line" THEN -1 ELSE 0

new_order_shard(r, pi) ==
    CASE LineKind(pi) = "item" -> Shard(r.lines[Line(pi) + 1].i)
      [] LineKind(pi) \in {"im_stock", "defer_stock"} -> Shard(r.lines[Line(pi) + 1].supply)
      [] OTHER -> Shard(r.w)

\* o_id, ol_amount and ol_dist_info are 0 or "" until a callback sets them.
new_order_input(r, pi) ==
    LET l == r.lines[Line(pi) + 1]
    IN  CASE pi = 0 -> [w |-> r.w, d |-> r.d]
          [] pi = 1 -> [w |-> r.w]
          [] pi = 2 -> [w |-> r.w, d |-> r.d, c |-> r.c]
          [] pi = 3 -> [o |-> 0, d |-> r.d, w |-> r.w, c |-> r.c, carrier |-> 0,
                        ol_cnt |-> Len(r.lines)]
          [] pi = 4 -> [o |-> 0, d |-> r.d, w |-> r.w]
          [] LineKind(pi) = "item" -> [i |-> l.i]
          [] LineKind(pi) = "im_stock" -> [i |-> l.i, w |-> l.supply, d |-> r.d]
          [] LineKind(pi) = "defer_stock" ->
                [i |-> l.i, w |-> l.supply, qty |-> l.qty,
                 is_remote |-> IF l.supply # r.w THEN 1 ELSE 0]
          [] LineKind(pi) = "order_line" ->
                [d |-> r.d, w |-> r.w, o |-> 0, number |-> Line(pi), i |-> l.i,
                 supply |-> l.supply, qty |-> l.qty, amount |-> 0]

new_order_p_type(pi) ==
    IF pi < 5 THEN <<"NEW_ORDER_0", "NEW_ORDER_1", "NEW_ORDER_2", "NEW_ORDER_3",
                     "NEW_ORDER_4">>[pi + 1]
    ELSE <<"NEW_ORDER_5", "NEW_ORDER_6", "NEW_ORDER_7", "NEW_ORDER_8">>[((pi - 5) % 4) + 1]

new_order_dep(n) == [piece_0_dist |-> FALSE,
                     piece_items |-> [i \in 0 .. n - 1 |-> FALSE],
                     piece_stocks |-> [i \in 0 .. n - 1 |-> FALSE]]

new_order_init(r) ==
    LET ps == new_order_pieces(r)
    IN  Chopper("NEW_ORDER",
                [pi \in ps |-> new_order_status(pi)],
                [pi \in ps |-> new_order_input(r, pi)],
                [pi \in ps |-> new_order_p_type(pi)],
                [pi \in ps |-> new_order_shard(r, pi)],
                new_order_dep(Len(r.lines)), 0)

\* The district's reply gives o_id to the order, the new_order row and the
\* lines; a line becomes ready when the district, its item and its stock
\* have all answered.
new_order_callback(c, pi, out) ==
    LET ls == DOMAIN c.dep.piece_items
        i  == Line(pi)
        ready == {ORDER_LINE(j) : j \in {k \in ls : c.dep.piece_items[k]
                                                    /\ c.dep.piece_stocks[k]}}
    IN  CASE pi = 0 ->
               [c EXCEPT !.dep.piece_0_dist = TRUE,
                         !.inputs = [p \in DOMAIN @ |->
                            IF p \in {3, 4} \/ LineKind(p) = "order_line"
                            THEN [@[p] EXCEPT !.o = out[1]] ELSE @[p]],
                         !.status = [p \in DOMAIN @ |->
                            IF p \in {3, 4} \cup ready THEN 0 ELSE @[p]],
                         !.go = TRUE]
          [] LineKind(pi) = "item" ->
               LET full == c.dep.piece_0_dist /\ c.dep.piece_stocks[i]
               IN  [c EXCEPT !.inputs[ORDER_LINE(i)].amount =
                                 out[1] * c.inputs[DEFER_STOCK(i)].qty,
                             !.dep.piece_items[i] = TRUE,
                             !.status[ORDER_LINE(i)] = IF full THEN 0 ELSE @,
                             !.go = full]
          [] LineKind(pi) = "im_stock" ->
               LET full == c.dep.piece_0_dist /\ c.dep.piece_items[i]
               IN  [c EXCEPT !.dep.piece_stocks[i] = TRUE,
                             !.status[ORDER_LINE(i)] = IF full THEN 0 ELSE @,
                             !.go = full]
          [] OTHER -> [c EXCEPT !.go = FALSE]

new_order_retry(c) ==
    [c EXCEPT !.status = [pi \in DOMAIN @ |-> new_order_status(pi)],
              !.dep = new_order_dep(Cardinality(DOMAIN c.dep.piece_items))]

-----------------------------------------------------------------------------
\* PAYMENT: request [type, by_name, w, d, c, c_last, c_w, c_d, amount, h_key].
\* By last name piece 3 looks the customer up and piece 4 waits for it; by id
\* piece 3 counts as started.

\* The status of the pieces that every (re)start sets.
payment_status(by_id) ==
    [pi \in 0 .. 5 |-> CASE pi \in 0 .. 2 -> 0
                         [] pi = 3 -> IF by_id THEN 2 ELSE 0
                         [] pi = 4 -> IF by_id THEN 0 ELSE -1
                         [] pi = 5 -> -1]

payment_shard(r) == <<Shard(r.w), Shard(r.w), Shard(r.w), Shard(r.c_w),
                      Shard(r.c_w), Shard(r.h_key)>>

payment_init(r) ==
    LET by_id == ~r.by_name
    IN  Chopper("PAYMENT", payment_status(by_id),
          [pi \in 0 .. 5 |->
             <<[w |-> r.w, amount |-> r.amount],
               [w |-> r.w, d |-> r.d],
               [w |-> r.w, d |-> r.d, amount |-> r.amount],
               IF by_id THEN NoInput
               ELSE [c_last |-> r.c_last, c_w |-> r.c_w, c_d |-> r.c_d],
               [c |-> IF by_id THEN r.c ELSE Unset, c_w |-> r.c_w, c_d |-> r.c_d,
                amount |-> r.amount, w |-> r.w, d |-> r.d],
               [h_key |-> r.h_key, w |-> r.w, d |-> r.d,
                c |-> IF by_id THEN r.c ELSE Unset, c_w |-> r.c_w, c_d |-> r.c_d,
                amount |-> r.amount]>>[pi + 1]],
          [pi \in 0 .. 5 |-> <<"PAYMENT_0", "PAYMENT_1", "PAYMENT_2", "PAYMENT_3",
                               "PAYMENT_4", "PAYMENT_5">>[pi + 1]],
          [pi \in 0 .. 5 |-> payment_shard(r)[pi + 1]],
          [piece_warehouse |-> FALSE, piece_district |-> FALSE,
           piece_last2id |-> by_id, piece_ori_last2id |-> by_id],
          IF by_id THEN 1 ELSE 0)

\* One reply sets its flag; the history row is ready with the third of the
\* warehouse, the district and the customer's id.
payment_callback(c, pi, out) ==
    LET flag == <<"piece_warehouse", "piece_district", "", "piece_last2id">>[pi + 1]
        full == Flags(c, {"piece_warehouse", "piece_district", "piece_last2id"} \ {flag})
    IN  CASE pi \in {0, 1} ->
               [c EXCEPT !.ok = @ /\ ~c.dep[flag], !.dep[flag] = TRUE,
                         !.status[5] = IF full THEN 0 ELSE @, !.go = full]
          [] pi = 3 ->
               [c EXCEPT !.ok = @ /\ ~c.dep[flag], !.dep[flag] = TRUE,
                         !.inputs[4].c = out[1], !.inputs[5].c = out[1],
                         !.status[4] = 0, !.status[5] = IF full THEN 0 ELSE @,
                         !.go = TRUE]
          [] pi = 4 ->
               [c EXCEPT !.ok = @ /\ (c.dep.piece_ori_last2id
                                        \/ out[1] = c.inputs[3].c_last),
                         !.go = FALSE]
          [] OTHER -> [c EXCEPT !.go = FALSE]

\* Mutant: the piece that is not needed is not counted again.
payment_retryUncounted(c) ==
    [c EXCEPT !.status = payment_status(c.dep.piece_ori_last2id),
              !.dep = [@ EXCEPT !.piece_warehouse = FALSE, !.piece_district = FALSE,
                                !.piece_last2id = c.dep.piece_ori_last2id]]

payment_retry(c) ==
    [c EXCEPT !.status = payment_status(c.dep.piece_ori_last2id),
              !.n_started = IF c.dep.piece_ori_last2id THEN 1 ELSE @,
              !.dep = [@ EXCEPT !.piece_warehouse = FALSE, !.piece_district = FALSE,
                                !.piece_last2id = c.dep.piece_ori_last2id]]

-----------------------------------------------------------------------------
\* ORDER_STATUS: request [type, by_name, w, d, c, c_last].

order_status_status(by_id) ==
    [pi \in 0 .. 3 |-> CASE pi = 0 -> IF by_id THEN 2 ELSE 0
                         [] pi \in {1, 2} -> IF by_id THEN 0 ELSE -1
                         [] pi = 3 -> -1]

order_status_shard(r) == Shard(r.w)

order_status_init(r) ==
    LET by_id == ~r.by_name
        cust  == [w |-> r.w, d |-> r.d, c |-> IF by_id THEN r.c ELSE Unset]
    IN  Chopper("ORDER_STATUS", order_status_status(by_id),
          [pi \in 0 .. 3 |->
             <<IF by_id THEN NoInput ELSE [c_last |-> r.c_last, w |-> r.w, d |-> r.d],
               cust, cust, [w |-> r.w, d |-> r.d, o |-> Unset]>>[pi + 1]],
          [pi \in 0 .. 3 |-> <<"ORDER_STATUS_0", "ORDER_STATUS_1", "ORDER_STATUS_2",
                               "ORDER_STATUS_3">>[pi + 1]],
          [pi \in 0 .. 3 |-> order_status_shard(r)],
          [piece_last2id |-> by_id, piece_ori_last2id |-> by_id, piece_order |-> FALSE],
          IF by_id THEN 1 ELSE 0)

order_status_callback(c, pi, out) ==
    CASE pi = 0 ->
           [c EXCEPT !.ok = @ /\ ~c.dep.piece_last2id, !.dep.piece_last2id = TRUE,
                     !.inputs[1].c = out[1], !.inputs[2].c = out[1],
                     !.status[1] = 0, !.status[2] = 0, !.go = TRUE]
      [] pi = 2 ->
           [c EXCEPT !.ok = @ /\ ~c.dep.piece_order, !.dep.piece_order = TRUE,
                     !.inputs[3].o = out[1], !.status[3] = 0, !.go = TRUE]
      [] OTHER -> [c EXCEPT !.go = FALSE]

\* Mutant: piece_order is not reset.
order_status_retryKeepsOrder(c) ==
    [c EXCEPT !.status = order_status_status(c.dep.piece_ori_last2id),
              !.n_started = IF c.dep.piece_ori_last2id THEN 1 ELSE @,
              !.dep.piece_last2id = c.dep.piece_ori_last2id]

order_status_retry(c) ==
    [c EXCEPT !.status = order_status_status(c.dep.piece_ori_last2id),
              !.n_started = IF c.dep.piece_ori_last2id THEN 1 ELSE @,
              !.dep = [@ EXCEPT !.piece_last2id = c.dep.piece_ori_last2id,
                                !.piece_order = FALSE]]

-----------------------------------------------------------------------------
\* DELIVERY: request [type, w, d, carrier].

delivery_shard(r) == Shard(r.w)

delivery_dep == [piece_new_orders |-> FALSE, piece_orders |-> FALSE,
                 piece_order_lines |-> FALSE]

delivery_init(r) ==
    Chopper("DELIVERY", [pi \in 0 .. 3 |-> IF pi = 0 THEN 0 ELSE -1],
          [pi \in 0 .. 3 |->
             <<[w |-> r.w, d |-> r.d],
               [o |-> Unset, w |-> r.w, d |-> r.d, carrier |-> r.carrier],
               [o |-> Unset, w |-> r.w, d |-> r.d],
               [c |-> Unset, w |-> r.w, d |-> r.d, amount |-> Unset]>>[pi + 1]],
          [pi \in 0 .. 3 |-> <<"DELIVERY_0", "DELIVERY_1", "DELIVERY_2",
                               "DELIVERY_3">>[pi + 1]],
          [pi \in 0 .. 3 |-> delivery_shard(r)],
          delivery_dep, 0)

\* With no new order left, the other three pieces count as started.
delivery_callback(c, pi, out) ==
    CASE pi = 0 /\ out[1] = -1 ->
           [c EXCEPT !.ok = @ /\ ~c.dep.piece_new_orders,
                     !.status = [p \in 0 .. 3 |-> IF p = 0 THEN @[p] ELSE 2],
                     !.n_started = @ + 3, !.go = FALSE]
      [] pi = 0 /\ out[1] # -1 ->
           [c EXCEPT !.ok = @ /\ ~c.dep.piece_new_orders,
                     !.dep.piece_new_orders = TRUE,
                     !.inputs[1].o = out[1], !.inputs[2].o = out[1],
                     !.status[1] = 0, !.status[2] = 0, !.go = TRUE]
      [] pi = 1 ->
           [c EXCEPT !.inputs[3].c = out[1], !.dep.piece_orders = TRUE,
                     !.status[3] = IF c.dep.piece_order_lines THEN 0 ELSE @,
                     !.go = c.dep.piece_order_lines]
      [] pi = 2 ->
           [c EXCEPT !.inputs[3].amount = out[1], !.dep.piece_order_lines = TRUE,
                     !.status[3] = IF c.dep.piece_orders THEN 0 ELSE @,
                     !.go = c.dep.piece_orders]
      [] OTHER -> [c EXCEPT !.go = FALSE]

delivery_retry(c) ==
    [c EXCEPT !.status = [pi \in 0 .. 3 |-> IF pi = 0 THEN 0 ELSE -1],
              !.dep = delivery_dep]

-----------------------------------------------------------------------------
\* STOCK_LEVEL: request [type, w, d, threshold].  Pieces 2.. exist only once
\* piece 1 has answered, one for each distinct item.

stock_level_shard(r) == Shard(r.w)

stock_level_init(r) ==
    Chopper("STOCK_LEVEL", [pi \in 0 .. 1 |-> IF pi = 0 THEN 0 ELSE -1],
          [pi \in 0 .. 1 |-> IF pi = 0 THEN [w |-> r.w, d |-> r.d]
                             ELSE [o |-> Unset, w |-> r.w, d |-> r.d]],
          [pi \in 0 .. 1 |-> IF pi = 0 THEN "STOCK_LEVEL_0" ELSE "STOCK_LEVEL_1"],
          [pi \in 0 .. 1 |-> stock_level_shard(r)],
          [w_id |-> r.w, threshold |-> r.threshold], 0)

stock_level_callback(c, pi, out) ==
    CASE pi = 0 ->
           [c EXCEPT !.inputs[1].o = out[1], !.status[1] = 0, !.go = TRUE]
      [] pi = 1 ->
           LET n    == Cardinality(out[1])
               new  == 2 .. 1 + n
               item == CHOOSE f \in [new -> out[1]] : IsInjective(f)
           IN  [c EXCEPT
                  !.status   = @ @@ [p \in new |-> 0],
                  !.inputs   = @ @@ [p \in new |-> [i |-> item[p], w |-> c.dep.w_id,
                                                    threshold |-> c.dep.threshold]],
                  !.p_types  = @ @@ [p \in new |-> "STOCK_LEVEL_2"],
                  !.sharding = @ @@ [p \in new |-> Shard(c.dep.w_id)],
                  !.go = TRUE]
      [] OTHER -> [c EXCEPT !.go = FALSE]

stock_level_retry(c) ==
    [c EXCEPT !.status = [pi \in 0 .. 1 |-> IF pi = 0 THEN 0 ELSE -1],
              !.inputs = Restrict(@, 0 .. 1), !.p_types = Restrict(@, 0 .. 1),
              !.sharding = Restrict(@, 0 .. 1)]

-----------------------------------------------------------------------------
\* TpccChopper::init, start_callback, retry and is_read_only: the switch on
\* the type of the transaction.

Chop(r) ==
    CASE r.type = "NEW_ORDER"    -> new_order_init(r)
      [] r.type = "PAYMENT"      -> payment_init(r)
      [] r.type = "ORDER_STATUS" -> order_status_init(r)
      [] r.type = "DELIVERY"     -> delivery_init(r)
      [] r.type = "STOCK_LEVEL"  -> stock_level_init(r)

start_callback(c, pi, out) ==
    CASE c.type = "NEW_ORDER"    -> new_order_callback(c, pi, out)
      [] c.type = "PAYMENT"      -> payment_callback(c, pi, out)
      [] c.type = "ORDER_STATUS" -> order_status_callback(c, pi, out)
      [] c.type = "DELIVERY"     -> delivery_callback(c, pi, out)
      [] c.type = "STOCK_LEVEL"  -> stock_level_callback(c, pi, out)

retry(ch) ==
    LET c == [ch EXCEPT !.n_started = 0, !.n_try = @ + 1]
    IN  CASE c.type = "NEW_ORDER"    -> new_order_retry(c)
          [] c.type = "PAYMENT"      -> payment_retry(c)
          [] c.type = "ORDER_STATUS" -> order_status_retry(c)
          [] c.type = "DELIVERY"     -> delivery_retry(c)
          [] c.type = "STOCK_LEVEL"  -> stock_level_retry(c)

is_read_only(c) == c.type \in {"ORDER_STATUS", "STOCK_LEVEL"}
=============================================================================
