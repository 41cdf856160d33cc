-------------------------------- MODULE Tpcc --------------------------------
(***************************************************************************)
(* TPC-C transactions run by the coordinator in MODE_2PL and MODE_DEPTRAN: *)
(* the choppers of module TpccChopper, the piece handlers of module        *)
(* TpccPieces and the database they share.                                 *)
(*                                                                         *)
(* This module is about what pieces and choppers do together, so the two   *)
(* protocols appear as what they guarantee.  In MODE_2PL a piece runs when *)
(* its locks are free, its writes stay with the transaction until the      *)
(* commit, and a transaction in a conflict may be rejected.  In            *)
(* MODE_DEPTRAN a deferred piece runs at its site when the transaction is  *)
(* finishing and every transaction it depends on has finished, and has run *)
(* there first unless it is in the same strongly connected component.      *)
(* Modules TwoPhase, TwoPL and Rococo model how the servers get there.     *)
(*                                                                         *)
(* A request, its execution and the handling of its answer are one step:   *)
(* a callback only fills in inputs and counts, so an answer that is late   *)
(* gives the same chopper as a request that was late.                      *)
(***************************************************************************)
EXTENDS TpccChopper, SequencesExt, Relation

CONSTANTS Mix,      \* the sequences of requests to run together
          Populated,\* the database after Sharding::populate_table
          MaxTry    \* max_try_

ASSUME MaxTryAssumption == MaxTry \in Nat \ {0}

VARIABLES
    mode,   \* "2pl" or "deptran"
    ch,     \* each transaction's chopper
    sent,   \* the pieces it sent that have not been answered, in order
    phase,  \* "start", "finish", "done" (SUCCESS) or "rejected" (REJECT)
    db,     \* the tables of all sites
    own,    \* MODE_2PL: locks, updates_ and removes_ of each transaction
    last,   \* MODE_DEPTRAN: entry_t::last_ of the touched cells
    edge,   \* edges <<u, t, immediate>> of the dependency graph
    drs,    \* deferred_reqs_ of each transaction: pieces not yet executed
    ran,    \* the sites where a transaction's deferred pieces were executed
    ro      \* read-only transactions in MODE_DEPTRAN

vars == <<mode, ch, sent, phase, db, own, last, edge, drs, ran, ro>>

Txn == DOMAIN ch

Proxies(c) == {c.sharding[pi] : pi \in {p \in DOMAIN c.status : c.status[p] = 1}}

\* next_piece until nothing is ready: the pieces sent, in order.
Ready(c) ==
    IF c.n_started = NPieces(c) THEN <<>>
    ELSE SelectSeq([i \in 1 .. NPieces(c) |-> i - 1], LAMBDA pi : c.status[pi] = 0)

Started(c) ==
    IF c.n_started = NPieces(c) THEN c
    ELSE [c EXCEPT !.status = [pi \in DOMAIN @ |-> IF @[pi] = 0 THEN 1 ELSE @[pi]]]

NoOwn == [r |-> {}, w |-> {}, upd |-> NoCells, rm |-> {}]
NoRo  == [round |-> 1, failed |-> FALSE, outs |-> NoCells, pend |-> NoCells]

\* do_one for every transaction of a mix: init and the first start.
Init ==
    \E m \in Mix :
        /\ mode \in {"2pl", "deptran"}
        /\ ch = [t \in DOMAIN m |-> Started(Chop(m[t]))]
        /\ sent = [t \in DOMAIN m |-> Ready(Chop(m[t]))]
        /\ phase = [t \in DOMAIN m |-> "start"]
        /\ db = Populated
        /\ own = [t \in DOMAIN m |-> NoOwn]
        /\ last = NoCells
        /\ edge = {}
        /\ drs = [t \in DOMAIN m |-> <<>>]
        /\ ran = [t \in DOMAIN m |-> {}]
        /\ ro = [t \in DOMAIN m |-> NoRo]

\* Updates and removals applied to a database.
Apply(D, upd, rm) == upd @@ Restrict(D, DOMAIN D \ rm)

\* The callback of a start request: start again, or finish.
AfterReply(t, pi, c) ==
    /\ ch' = [ch EXCEPT ![t] = [(IF c.go THEN Started(c) ELSE c) EXCEPT !.go = FALSE]]
    /\ sent' = [sent EXCEPT ![t] = Remove(@, pi) \o (IF c.go THEN Ready(c) ELSE <<>>)]
    /\ phase' = [phase EXCEPT ![t] =
                    IF ~c.go /\ c.n_started = NPieces(c) THEN "finish" ELSE @]

OneMore(c) == [c EXCEPT !.n_started = @ + 1, !.go = FALSE]

\* Requests of one transaction to one server arrive in the order sent.
Earlier(t, pi) ==
    {q \in ToSet(SubSeq(sent[t], 1, SelectInSeq(sent[t], LAMBDA p : p = pi) - 1)) :
        ch[t].sharding[q] = ch[t].sharding[pi]}

-----------------------------------------------------------------------------
\* MODE_2PL

\* The cells as the transaction sees them: its own updates over the table.
View(t) == Apply(db, own[t].upd, own[t].rm)

Run(t, pi) == Handler(ch[t].p_types[pi], ch[t].inputs[pi], View(t))

\* Another transaction holds a conflicting lock.
Conflicts(t, x) ==
    {u \in Txn \ {t} : \/ x.w \cap (own[u].r \cup own[u].w) # {}
                       \/ x.r \cap own[u].w # {}}

Blocked(t, pi) == Conflicts(t, Run(t, pi)) # {}

\* start_pie when the piece's locks are granted; pieces sent before it to
\* the same server have run or wait for locks.
Execute2PL(t, pi) ==
    /\ mode = "2pl"
    /\ \A q \in Earlier(t, pi) : Blocked(t, q)
    /\ LET x == Run(t, pi)
           c == start_callback(OneMore(ch[t]), pi, x.out)
       IN  /\ Conflicts(t, x) = {}
           /\ own' = [own EXCEPT ![t] =
                        [r |-> @.r \cup x.r, w |-> @.w \cup x.w,
                         upd |-> x.upd @@ @.upd, rm |-> @.rm \cup x.rm]]
           /\ ro' = IF is_read_only(c) THEN [ro EXCEPT ![t].outs = (pi :> x.out) @@ @] ELSE ro
           /\ AfterReply(t, pi, [c EXCEPT !.ok = @ /\ x.ok])
    /\ UNCHANGED <<mode, db, last, edge, drs, ran>>

\* A lock request is refused, or the transaction is wounded by one it blocks:
\* abort_txn at its servers, then restart or give up.
Reject2PL(t) ==
    /\ mode = "2pl" /\ phase[t] = "start"
    /\ \E u \in Txn : \E pi \in ToSet(sent[u]) :
          IF u = t THEN Blocked(u, pi) ELSE t \in Conflicts(u, Run(u, pi))
    /\ own' = [own EXCEPT ![t] = NoOwn]
    /\ IF ch[t].n_try < MaxTry
       THEN LET c == retry(ch[t])
            IN  /\ ch' = [ch EXCEPT ![t] = Started(c)]
                /\ sent' = [sent EXCEPT ![t] = Ready(c)]
                /\ UNCHANGED phase
       ELSE /\ phase' = [phase EXCEPT ![t] = "rejected"]
            /\ sent' = [sent EXCEPT ![t] = <<>>]
            /\ UNCHANGED ch
    /\ UNCHANGED <<mode, db, last, edge, drs, ran, ro>>

\* prepare and commit_txn: the updates are applied and the locks released.
Commit2PL(t) ==
    /\ mode = "2pl" /\ phase[t] = "finish"
    /\ db' = Apply(db, own[t].upd, own[t].rm)
    /\ own' = [own EXCEPT ![t] = NoOwn]
    /\ phase' = [phase EXCEPT ![t] = "done"]
    /\ UNCHANGED <<mode, ch, sent, last, edge, drs, ran, ro>>

-----------------------------------------------------------------------------
\* MODE_DEPTRAN

\* entry_t::touch: an edge from the first transaction that touched the
\* entry, which last_ keeps for ever.
Touched(t, cells) == [c \in cells \ DOMAIN last |-> t] @@ last
Edges(t, cells, imm) == {<<last[c], t, imm>> : c \in cells \cap DOMAIN last}

\* rcc_start_pie with exe_deptran_start.  An immediate piece runs now; a
\* deferred one is kept, and its answer does not reach start_callback.
StartDep(t, pi) ==
    /\ mode = "deptran" /\ ~is_read_only(ch[t])
    /\ Earlier(t, pi) = {}
    /\ LET x == Handler(ch[t].p_types[pi], ch[t].inputs[pi], db)
           real == x.df = DF_REAL
           c == IF real THEN OneMore(ch[t])
                ELSE start_callback(OneMore(ch[t]), pi, x.out)
       IN  /\ last' = Touched(t, x.touch)
           /\ edge' = edge \cup Edges(t, x.touch, ~real)
           /\ db' = IF real THEN db ELSE Apply(db, x.upd, x.rm)
           /\ drs' = IF real THEN [drs EXCEPT ![t] = Append(@, pi)] ELSE drs
           /\ AfterReply(t, pi, [c EXCEPT !.ok = @ /\ x.ok])
    /\ UNCHANGED <<mode, own, ran, ro>>

\* <<u, t>>: there is a path from u to t, over all edges or over immediate
\* ones.
Path(E) ==
    TransitiveClosure([p \in Txn \X Txn |-> \E e \in E : <<e[1], e[2]>> = p], Txn)

Before(t) == {u \in Txn \ {t} : Path(edge)[<<u, t>>]}
Component(t) == {u \in Before(t) : Path(edge)[<<t, u>>]}
MustPrecede(t) ==
    {u \in Before(t) : u \in Component(t) =>
                          Path({e \in edge : e[3]})[<<u, t>>]}

\* exe_deptran_finish: the kept pieces of one transaction at one site, in the
\* order they were started, each seeing the writes of those before it.
RunDeferred(c, pis, D) ==
    LET after[i \in 0 .. Len(pis)] ==
            IF i = 0 THEN D
            ELSE LET E == after[i - 1]
                     x == Handler(c.p_types[pis[i]], c.inputs[pis[i]], E)
                 IN  IF x.df = DF_REAL THEN Apply(E, x.upd, x.rm) ELSE E
    IN  after[Len(pis)]

\* rcc_finish_to_commit at site s.
CommitDep(t, s) ==
    /\ mode = "deptran" /\ phase[t] = "finish" /\ ~is_read_only(ch[t])
    /\ s \in Proxies(ch[t]) \ ran[t]
    /\ \A u \in Before(t) : phase[u] \in {"finish", "done"}
    /\ \A u \in MustPrecede(t) : s \in Proxies(ch[u]) => s \in ran[u]
    /\ LET here == SelectSeq(drs[t], LAMBDA pi : ch[t].sharding[pi] = s)
       IN  /\ db' = RunDeferred(ch[t], here, db)
           /\ drs' = [drs EXCEPT ![t] = SelectSeq(@, LAMBDA pi : ch[t].sharding[pi] # s)]
    /\ ran' = [ran EXCEPT ![t] = @ \cup {s}]
    /\ phase' = [phase EXCEPT ![t] =
                    IF Proxies(ch[t]) \subseteq ran[t] \cup {s} THEN "done" ELSE @]
    /\ UNCHANGED <<mode, ch, sent, own, last, edge, ro>>

\* rcc_ro_start_pie: the piece reads at once; the answer waits until the
\* transactions it conflicts with have committed at this site.
StartRO(t, pi) ==
    /\ mode = "deptran" /\ is_read_only(ch[t])
    /\ Earlier(t, pi) \subseteq DOMAIN ro[t].pend
    /\ pi \notin DOMAIN ro[t].pend
    /\ LET x == Handler(ch[t].p_types[pi], ch[t].inputs[pi], db)
       IN  /\ ro' = [ro EXCEPT ![t].pend = (pi :> [out  |-> x.out,
                          wait |-> {last[c] : c \in x.ro \cap DOMAIN last}]) @@ @]
           /\ ch' = [ch EXCEPT ![t].ok = @ /\ x.ok]
    /\ UNCHANGED <<mode, sent, phase, db, own, last, edge, drs, ran>>

\* Mutant: two rounds always agree.
DiffersNever(t, pi, out) == FALSE

\* read_only_start_callback in the second phase: the piece differs from what
\* the round before read.
Differs(t, pi, out) ==
    /\ ro[t].round = 2
    /\ pi \notin DOMAIN ro[t].outs \/ ro[t].outs[pi] # out

\* The callbacks of deptran_start_ro and deptran_finish_ro: a full round is
\* read again until two rounds in a row agree.
ReplyRO(t, pi) ==
    /\ pi \in DOMAIN ro[t].pend
    /\ \A u \in ro[t].pend[pi].wait : ch[t].sharding[pi] \in ran[u]
    /\ LET out    == ro[t].pend[pi].out
           c      == start_callback(OneMore(ch[t]), pi, out)
           full   == ~c.go /\ c.n_started = NPieces(c)
           failed == ro[t].failed \/ Differs(t, pi, out)
           again  == full /\ (ro[t].round = 1 \/ (failed /\ c.n_try < MaxTry))
           pend   == Restrict(ro[t].pend, DOMAIN ro[t].pend \ {pi})
       IN  /\ ro' = [ro EXCEPT ![t] =
                        [round |-> IF full THEN 2 ELSE @.round,
                         failed |-> failed /\ ~again,
                         outs |-> (pi :> out) @@ @.outs,
                         pend |-> pend]]
           /\ IF again
              THEN /\ ch' = [ch EXCEPT ![t] = Started(retry(c))]
                   /\ sent' = [sent EXCEPT ![t] = Ready(retry(c))]
                   /\ UNCHANGED phase
              ELSE /\ ch' = [ch EXCEPT ![t] = [(IF c.go THEN Started(c) ELSE c)
                                                 EXCEPT !.go = FALSE]]
                   /\ sent' = [sent EXCEPT ![t] =
                                  Remove(@, pi) \o (IF c.go THEN Ready(c) ELSE <<>>)]
                   /\ phase' = [phase EXCEPT ![t] =
                                  IF ~full THEN @
                                  ELSE IF failed THEN "rejected" ELSE "done"]
    /\ UNCHANGED <<mode, db, own, last, edge, drs, ran>>

\* The client has all its answers.
Finished ==
    /\ \A t \in Txn : phase[t] \in {"done", "rejected"}
    /\ UNCHANGED vars

Next ==
    \/ \E t \in Txn :
        \/ \E pi \in ToSet(sent[t]) : Execute2PL(t, pi)
        \/ Reject2PL(t)
        \/ Commit2PL(t)
        \/ \E pi \in ToSet(sent[t]) : StartDep(t, pi)
        \/ \E s \in 0 .. NumSite - 1 : CommitDep(t, s)
        \/ \E pi \in ToSet(sent[t]) : StartRO(t, pi)
        \/ \E pi \in ToSet(sent[t]) : ReplyRO(t, pi)
    \/ Finished

Spec == Init /\ [][Next]_vars

-----------------------------------------------------------------------------
\* Properties

\* The chopper of a transaction counts each piece once, over any number of
\* attempts, and what is sent or deferred is one of its pieces in that state.
TypeOK ==
    /\ mode \in {"2pl", "deptran"}
    /\ \A t \in Txn :
          /\ phase[t] \in {"start", "finish", "done", "rejected"}
          /\ ch[t].status \in [DOMAIN ch[t].inputs -> {-1, 0, 1, 2}]
          /\ ch[t].n_started \in 0 .. NPieces(ch[t])
          /\ ch[t].n_try \in 1 .. MaxTry + 1
          /\ ToSet(sent[t]) \subseteq {p \in DOMAIN ch[t].status : ch[t].status[p] = 1}
          /\ ToSet(drs[t]) \subseteq DOMAIN ch[t].status
          /\ ran[t] \subseteq 0 .. NumSite - 1
    /\ \A c \in DOMAIN db : Len(c) = 3
    /\ edge \subseteq Txn \X Txn \X BOOLEAN

\* A piece is never sent before every input that a callback has to fill in
\* was filled in.
InputsSet ==
    \A t \in Txn : \A pi \in ToSet(sent[t]) :
        LET in == ch[t].inputs[pi] IN \A f \in DOMAIN in : in[f] # Unset

\* No verify() of a chopper callback or of a piece handler fails, a piece is
\* sent with all its inputs, and every row that a handler dereferences without
\* looking (the order of a delivery, the lines of a customer's latest order)
\* exists when it runs, in whatever order the pieces of different transactions
\* are answered.
VerifiesHold == (\A t \in Txn : ch[t].ok) /\ InputsSet

\* No transaction is left hanging: while a chopper is starting, some piece of
\* it is outstanding, so it is never left with pieces that are ready but not
\* sent or with a count n_started_ that its answers do not reach, after any
\* number of rejections, restarts and read-only rounds.
NoneStuck == TypeOK /\ \A t \in Txn : phase[t] = "start" => sent[t] # <<>>

Orders(D) == Keys("order", D)
LineVal(k, col, D) == D[<<"order_line", k, col>>]

\* At every moment each order has all of its lines, each new_order row has
\* its order, and each customer's latest order exists: the rows that one
\* new_order transaction inserts on its site appear together.
OrdersWhole ==
    /\ \A k \in Orders(db) :
          Cardinality(OrderLines(k[1], k[2], k[3], db)) = db[<<"order", k, "o_ol_cnt">>]
    /\ Keys("new_order", db) \subseteq Orders(db)
    /\ \A k \in Keys("order_secondary", db) :
          <<k[1], k[2], db[<<"order_secondary", k, "o_id">>]>> \in Orders(db)

Quiet == \A t \in Txn : phase[t] \in {"done", "rejected"}

NewLines == {k \in Keys("order_line", db) :
                <<"order_line", k, "ol_delivery_d">> \notin DOMAIN Populated}
Delivered(k) == LineVal(k, "ol_delivery_d", db) = "now"

\* The consistency conditions of TPC-C on districts and orders, once all
\* transactions have been answered: the order numbers of a district are
\* exactly those below d_next_o_id, which counts the new_order transactions
\* that were committed (no number is lost or given twice, also not by a
\* transaction that was rejected), and the new_order rows are the orders that
\* were not delivered.
OrderNumbers ==
    Quiet =>
      /\ \A k \in Keys("district", db) :
            db[<<"district", k, "d_next_o_id">>]
               = Populated[<<"district", k, "d_next_o_id">>]
                 + Cardinality({t \in Txn : /\ ch[t].type = "NEW_ORDER" /\ phase[t] = "done"
                                            /\ <<ch[t].inputs[0].d, ch[t].inputs[0].w>> = k})
      /\ \A k \in Keys("district", db) :
            {o[3] : o \in {x \in Orders(db) : <<x[1], x[2]>> = k}}
               = 0 .. db[<<"district", k, "d_next_o_id">>] - 1
      /\ \A k \in Orders(db) :
            (k \in Keys("new_order", db)) =
               /\ k \in Keys("new_order", Populated) \/ k \notin Orders(Populated)
               /\ \A l \in OrderLines(k[1], k[2], k[3], db) : ~Delivered(l)

\* In MODE_2PL, once all transactions have been answered, the secondary index
\* names each customer's latest order.  (In MODE_DEPTRAN three new orders of a
\* customer can leave it on an older one: an entry remembers only the first
\* transaction that touched it, so the second and the third are not ordered.)
LatestOrder ==
    (Quiet /\ mode = "2pl") =>
      \A k \in Keys("order_secondary", db) :
         \A o \in Orders(db) :
            (<<o[1], o[2]>> = <<k[1], k[2]>> /\ db[<<"order", o, "o_c_id">>] = k[3])
               => o[3] <= db[<<"order_secondary", k, "o_id">>]

Paid(sel, key) ==
    MapThenSumSet(LAMBDA h : db[<<"history", h, "h_amount">>],
                  {h \in Keys("history", db) : db[<<"history", h, sel>>] = key})

Earned(k) ==
    MapThenSumSet(LAMBDA l : LineVal(l, "ol_amount", db),
                  {l \in Keys("order_line", db) :
                      /\ Delivered(l)
                      /\ <<db[<<"order", <<l[1], l[2], l[3]>>, "o_c_id">>], l[1], l[2]>> = k})

\* The consistency conditions on money, once all transactions have been
\* answered: a district's d_ytd and a customer's c_ytd_payment are the sums of
\* their history rows, and a balance is what was delivered to the customer
\* less what they paid, so no delivery or payment counts twice or is lost.
MoneyAdds ==
    Quiet =>
      /\ \A k \in Keys("district", db) :
            db[<<"district", k, "d_ytd">>] = Paid("h_d", k)
      /\ \A k \in Keys("customer", db) :
            /\ db[<<"customer", k, "c_ytd_payment">>] = Paid("h_c", k)
            /\ db[<<"customer", k, "c_balance">>] = Earned(k) - Paid("h_c", k)

\* The stock counters add up to the lines ordered from that stock, and the
\* quantity stays in its range, once all transactions have been answered.
StockAdds ==
    Quiet =>
      \A k \in Keys("stock", db) :
        LET ls == {l \in NewLines : <<LineVal(l, "ol_i_id", db),
                                      LineVal(l, "ol_supply_w_id", db)>> = k}
        IN  /\ db[<<"stock", k, "s_ytd">>]
                  = MapThenSumSet(LAMBDA l : LineVal(l, "ol_quantity", db), ls)
            /\ db[<<"stock", k, "s_order_cnt">>] = Cardinality(ls)
            /\ db[<<"stock", k, "s_remote_cnt">>] = Cardinality({l \in ls : l[2] # k[2]})
            /\ db[<<"stock", k, "s_quantity">>] >= 10

\* Nothing that is paid, delivered or ordered is lost or counted twice: the
\* sums of the history rows and of the order lines are the running totals that
\* the pieces keep in the district, customer and stock rows.
TotalsAdd == MoneyAdds /\ StockAdds

\* A read-only order_status that was answered with success, for a customer
\* with a single order, saw one moment: every line and the carrier tell the
\* same about the delivery, and the balance includes the order's amount
\* exactly when it is delivered, less the payments of some of the payment
\* transactions, each counted in full.
StatusIsSnapshot ==
    \A t \in Txn :
        (phase[t] = "done" /\ ch[t].type = "ORDER_STATUS") =>
            LET o     == ro[t].outs
                lines == o[3][1]
                del   == {l \in lines : l[2] = "now"}
            IN  /\ del \in {{}, lines}
                /\ (o[2][2] # 0) = (del # {})
                /\ \E P \in SUBSET {u \in Txn : ch[u].type = "PAYMENT"} :
                      o[1][1] = MapThenSumSet(LAMBDA l : l[3], del)
                                - MapThenSumSet(LAMBDA u : ch[u].inputs[4].amount, P)
=============================================================================
