------------------------------- MODULE TwoPL --------------------------------
(***************************************************************************)
(* Two-phase locking with two-phase commit: the coordinator's start or     *)
(* naive_batch_start, prepare, finish and restart (deptran/coordinator.cc) *)
(* in MODE_2PL, with the requests to the sites of module Txn2PL.           *)
(*                                                                         *)
(* A coordinator's connection to a site delivers the requests in order;    *)
(* answers come back in any order.  A connection may break once pieces     *)
(* have been started: every call on it then ends with an error.            *)
(***************************************************************************)
EXTENDS Txn2PL

CONSTANTS Site,
          Modes,     \* [lock, batch, tries, breaks]: the kind of lock,
                     \* batch_optimal_, max_try_ (0: no limit) and the number
                     \* of connections that break
          LoopRaces  \* answers may come while do_one's loop still sends

ASSUME ModesAssumption ==
  /\ \A m \in Modes : /\ m.lock \in {"timeout", "wait_die", "wound_die"}
                      /\ m.batch \in BOOLEAN /\ m.tries \in Nat /\ m.breaks \in Nat
  /\ LoopRaces \in BOOLEAN

\* A transaction has finitely many pieces, and a cell is at one site.
ASSUME SitesAssumption ==
  /\ \A p \in Piece : p.site \in Site
  /\ \A t \in Txn : IsFiniteSet({p \in Piece : p.txn = t})
  /\ \A p, q \in Piece : (p.reads \cup p.writes) \cap (q.reads \cup q.writes) # {} => p.site = q.site

VARIABLES mode, site, req, rep, co, up

vars == <<mode, site, req, rep, co, up>>

\* The chopper: sent, the pieces with status_ 1; answered, those whose start
\* was answered; the counters n_started_, n_start_sent_, n_prepared_ and
\* n_finished_; res, reply_.res_.  loop is where the client's thread is in the
\* loop of start.
NewChopper(n_try) ==
  [phase |-> "start", sent |-> {}, answered |-> {}, started |-> 0, start_sent |-> 0,
   prepared |-> 0, finished |-> 0, proxies |-> {}, commit |-> TRUE, out |-> {},
   res |-> "none", n_try |-> n_try, loop |-> "no"]

PiecesOf(t) == {p \in Piece : p.txn = t}
Ready(t, sent, answered) == {p \in PiecesOf(t) : p.id \notin sent /\ p.after \subseteq answered}

Init ==
  /\ mode \in Modes
  /\ site = [s \in Site |-> NewSite]
  /\ req = [t \in Txn |-> [s \in Site |-> <<>>]]
  /\ rep = [t \in Txn |-> [s \in Site |-> {}]]
  /\ co = [t \in Txn |-> [NewChopper(1) EXCEPT !.phase = "new"]]
  /\ up = [t \in Txn |-> [s \in Site |-> TRUE]]

-----------------------------------------------------------------------------
(* Coordinator *)

\* The start calls to site s for the pieces P, in the order of next_piece: one
\* for each, or one for all.
Calls(P, s) ==
  LET ids == InOrder(Ids({p \in P : p.site = s}))
  IN  IF mode.batch THEN (IF ids = <<>> THEN <<>> ELSE <<[op |-> "start", call |-> ids]>>)
      ELSE [n \in DOMAIN ids |-> [op |-> "start", call |-> <<ids[n]>>]]

\* What a callback that has taken answer a of site s does: the chopper becomes c
\* and the requests m[q] are sent to each site q.  On a broken connection a
\* call ends with an error.
Coordinate(t, s, a, c, m) ==
  /\ co' = [co EXCEPT ![t] = c]
  /\ req' = [req EXCEPT ![t] = [q \in Site |-> IF up[t][q] THEN @[q] \o m[q] ELSE @[q]]]
  /\ rep' = [rep EXCEPT ![t] = [q \in Site |->
               (IF q = s THEN @[q] \ {a} ELSE @[q])
                 \cup (IF up[t][q] \/ m[q] = <<>> THEN {} ELSE {[op |-> "error"]})]]
  /\ UNCHANGED <<mode, site, up>>

NoCall == [q \in Site |-> <<>>]
ToProxies(c, op) == [q \in Site |-> IF q \in c.proxies THEN <<[op |-> op]>> ELSE <<>>]

\* start, naive_batch_start: the pieces P are sent.
Starting(c, P) ==
  [c EXCEPT !.sent = @ \cup Ids(P), !.proxies = @ \cup {p.site : p \in P},
            !.start_sent = @ + Cardinality(P)]

\* finish.
Finishing(c) == IF c.commit THEN [c EXCEPT !.phase = "commit", !.res = "SUCCESS"]
                ELSE [c EXCEPT !.phase = "abort", !.res = "REJECT"]

\* do_one.  Its loop runs in the client's thread.
DoOne(t) ==
  /\ co[t].phase = "new"
  /\ LET P == Ready(t, {}, {})
         c == [co[t] EXCEPT !.phase = "start"]
     IN  IF LoopRaces THEN Coordinate(t, NoTxn, 0, [c EXCEPT !.loop = "next"], NoCall)
         ELSE Coordinate(t, NoTxn, 0, Starting(c, P), [q \in Site |-> Calls(P, q)])

\* One turn of the loop: a request, and then the count of it.
SendPiece(t) ==
  LET c == co[t]
      ready == Ready(t, c.sent, c.answered)
  IN  /\ c.loop = "next" /\ ready # {} /\ c.started # Cardinality(PiecesOf(t))
      /\ LET p == CHOOSE p \in ready : \A q \in ready : p.id <= q.id
         IN  Coordinate(t, NoTxn, 0,
                        [c EXCEPT !.sent = @ \cup {p.id}, !.proxies = @ \cup {p.site}, !.loop = "sent"],
                        [q \in Site |-> Calls({p}, q)])

CountSent(t) ==
  /\ co[t].loop = "sent"
  /\ Coordinate(t, NoTxn, 0, [co[t] EXCEPT !.start_sent = @ + 1, !.loop = "next"], NoCall)

EndLoop(t) ==
  /\ co[t].loop = "next"
  /\ Ready(t, co[t].sent, co[t].answered) = {} \/ co[t].started = Cardinality(PiecesOf(t))
  /\ Coordinate(t, NoTxn, 0, [co[t] EXCEPT !.loop = "no"], NoCall)

\* Mutant: the first rejected start ends the attempt.
CallFinishAtOnce(n, start_sent) == TRUE

\* Whether the nth answer of a call, after which the transaction is not to
\* commit, is the last that was waited for.
CallFinish(n, start_sent) == start_sent = n

\* The callback of async_start_pie and of async_naive_batch_start_pie.
StartReply(t, s, a) ==
  LET c     == co[t]
      good  == {n \in DOMAIN a.call : c.commit /\ \A k \in 1 .. n : a.res[k] = "SUCCESS"}
      now   == [c EXCEPT !.started = @ + Len(a.call), !.start_sent = @ - Len(a.call),
                         !.commit = (good = DOMAIN a.call), !.out = @ \cup a.out,
                         !.answered = @ \cup {a.call[n] : n \in good}]
      new   == \E q \in PiecesOf(t) : /\ q.after \subseteq now.answered
                                      /\ \E n \in good : a.call[n] \in q.after
      end   == \E n \in DOMAIN a.call : n \notin good /\ CallFinish(n, c.start_sent)
      ready == Ready(t, now.sent, now.answered)
      all   == now.started = Cardinality(PiecesOf(t)) /\ (now.commit \/ mode.batch)
  IN  /\ a \in rep[t][s] /\ a.op = "started"
      /\ CASE end -> Coordinate(t, s, a, Finishing(now), ToProxies(now, Finishing(now).phase))
           [] ~end /\ new ->
                Coordinate(t, s, a, Starting(now, ready), [q \in Site |-> Calls(ready, q)])
           [] ~end /\ ~new /\ all ->
                Coordinate(t, s, a, [now EXCEPT !.phase = "prepare"], ToProxies(now, "prepare"))
           [] OTHER -> Coordinate(t, s, a, now, NoCall)

PreparedOk(a) == a.op # "error" /\ a.res = "SUCCESS"

\* The callback of async_prepare_txn.
PrepareReply(t, s, a) ==
  LET now == [co[t] EXCEPT !.prepared = @ + 1, !.commit = @ /\ PreparedOk(a)]
  IN  /\ a \in rep[t][s]
      /\ a.op = "prepared" \/ (a.op = "error" /\ co[t].phase = "prepare")
      /\ IF now.prepared = Cardinality(now.proxies)
         THEN Coordinate(t, s, a, Finishing(now), ToProxies(now, Finishing(now).phase))
         ELSE Coordinate(t, s, a, now, NoCall)

CanRetry(c) == mode.tries = 0 \/ c.n_try < mode.tries

\* Mutant: n_try_ is not counted.
RestartingUncounted(c) == [NewChopper(c.n_try) EXCEPT !.loop = c.loop]

\* restart: retry() and the start of an attempt with the same txn_id_.
Restarting(c) ==
  [NewChopper(IF mode.tries = 0 THEN 1 ELSE c.n_try + 1) EXCEPT !.loop = c.loop]

\* The callback of async_commit_txn and async_abort_txn: an error counts as an
\* answer.
FinishReply(t, s, a) ==
  LET now == [co[t] EXCEPT !.finished = @ + 1]
      P == Ready(t, {}, {})
      last == now.finished = Cardinality(now.proxies)
  IN  /\ a \in rep[t][s]
      /\ a.op = "finished" \/ (a.op = "error" /\ co[t].phase \in {"commit", "abort"})
      /\ CASE last /\ now.res = "REJECT" /\ CanRetry(now) ->
                Coordinate(t, s, a, Starting(Restarting(now), P), [q \in Site |-> Calls(P, q)])
           [] last /\ ~(now.res = "REJECT" /\ CanRetry(now)) ->
                Coordinate(t, s, a, [now EXCEPT !.phase = now.res], NoCall)
           [] OTHER -> Coordinate(t, s, a, now, NoCall)

\* A start that ends with an error: its callback takes a result from an empty
\* reply, which ends the program.
StartError(t, s, a) ==
  /\ a \in rep[t][s] /\ a.op = "error" /\ co[t].phase = "start"
  /\ Coordinate(t, s, a, [co[t] EXCEPT !.phase = "crashed"], NoCall)

-----------------------------------------------------------------------------
(* Site *)

\* Site s becomes N; starts that are now answered are answered, and so is the
\* first request of t with a (a start has no answer of its own: a = {}).
At(t, s, N, a) ==
  /\ site' = [site EXCEPT ![s] = N]
  /\ rep' = [u \in Txn |-> [rep[u] EXCEPT ![s] =
               IF up[u][s] THEN @ \cup Answers(site[s], N, u) \cup (IF u = t THEN a ELSE {}) ELSE @]]
  /\ UNCHANGED <<mode, co, up>>

Take(t, s, op) ==
  /\ req[t][s] # <<>> /\ Head(req[t][s]).op = op
  /\ req' = [req EXCEPT ![t][s] = Tail(@)]

HandleStart(t, s) ==
  /\ Take(t, s, "start")
  /\ At(t, s, StartPie(site[s], mode.lock, Head(req[t][s]).call), {})

HandlePrepare(t, s) ==
  /\ Take(t, s, "prepare")
  /\ At(t, s, PrepareTxn(site[s], t), {[op |-> "prepared", res |-> PrepareResult(site[s], t)]})

HandleCommit(t, s) ==
  /\ Take(t, s, "commit")
  /\ At(t, s, CommitTxn(site[s], t), {[op |-> "finished"]})

HandleAbort(t, s) ==
  /\ Take(t, s, "abort")
  /\ At(t, s, AbortTxn(site[s], t), {[op |-> "finished"]})

LockTimeout(t, s) ==
  /\ mode.lock = "timeout"
  /\ \E i \in DOMAIN site[s].tx[t].ps :
        site[s].tx[t].ps[i].lock = "wait" /\ At(t, s, Timeout(site[s], i), {})
  /\ UNCHANGED req

\* The connection of t's coordinator to s breaks while it prepares or finishes.
Break(t, s) ==
  /\ up[t][s] /\ Cardinality({x \in Txn \X Site : ~up[x[1]][x[2]]}) < mode.breaks
  /\ s \in co[t].proxies /\ co[t].phase \in {"prepare", "commit", "abort"}
  /\ up' = [up EXCEPT ![t][s] = FALSE]
  /\ req' = [req EXCEPT ![t][s] = <<>>]
  /\ rep' = [rep EXCEPT ![t][s] = IF @ # {} \/ req[t][s] # <<>> THEN {[op |-> "error"]} ELSE {}]
  /\ UNCHANGED <<mode, site, co>>

-----------------------------------------------------------------------------
Over(t) == co[t].phase \in {"SUCCESS", "REJECT", "crashed"}
AllUp == \A t \in Txn, s \in Site : up[t][s]

\* Nothing is left to do.  What a broken connection leaves locked stays so.
Done == (\A t \in Txn : Over(t)) \/ ~AllUp

Finished == Done /\ UNCHANGED vars

Callback(t, s) ==
  /\ co[t].phase # "crashed"
  /\ \E a \in rep[t][s] : \/ StartReply(t, s, a) \/ PrepareReply(t, s, a)
                          \/ FinishReply(t, s, a) \/ StartError(t, s, a)

Handle(t, s) == HandleStart(t, s) \/ HandlePrepare(t, s) \/ HandleCommit(t, s) \/ HandleAbort(t, s)

ClientLoop(t) == SendPiece(t) \/ CountSent(t) \/ EndLoop(t)

Next ==
  \/ \E t \in Txn : DoOne(t)
  \/ \E t \in Txn, s \in Site : Callback(t, s) \/ Handle(t, s) \/ LockTimeout(t, s) \/ Break(t, s)
  \/ Finished

Spec == Init /\ [][Next]_vars

\* With LoopRaces, the client's thread goes on with its loop.
RaceSpec == Init /\ [][Next \/ \E t \in Txn : ClientLoop(t)]_vars

\* What is done for t by the threads of its client and of the sites.
Work(t) == \E s \in Site : Callback(t, s) \/ Handle(t, s) \/ LockTimeout(t, s)

\* ENABLED Work(t), which TLC is too slow to evaluate.
CanWork(t) ==
  \/ co[t].phase # "crashed" /\ \E s \in Site : rep[t][s] # {}
  \/ \E s \in Site :
       \/ req[t][s] # <<>>
       \/ mode.lock = "timeout" /\ \E i \in DOMAIN site[s].tx[t].ps : site[s].tx[t].ps[i].lock = "wait"

\* WF_vars(Work(t)) for each t: threads run, connections deliver, and a lock that
\* is waited for long enough times out.  Clients need not send, and connections
\* need not break.
FairSpec == Spec /\ \A t \in Txn : []<><<Work(t)>>_vars \/ []<>~CanWork(t)

-----------------------------------------------------------------------------
(* The database the clients see: a transaction takes effect when finish      *)
(* sends commit_txn, and its updates are then pending at the sites that have *)
(* not handled it.                                                           *)

Decided(t) == co[t].phase \in {"commit", "SUCCESS"}

Reads == [t \in Txn |-> UNION {p.reads : p \in PiecesOf(t)}]
Writes == [t \in Txn |-> UNION {p.writes : p \in PiecesOf(t)}]

SiteOf(c) == (CHOOSE p \in Piece : c \in p.reads \cup p.writes).site
Used == UNION {p.reads \cup p.writes : p \in Piece}

Pending(c) == {t \in Txn : Decided(t) /\ c \in site[SiteOf(c)].tx[t].updates}

DB == [c \in Used |-> IF Pending(c) = {} THEN site[SiteOf(c)].val[c]
                      ELSE CHOOSE t \in Pending(c) : TRUE]

Result == [t \in Txn |-> CASE Decided(t) -> "SUCCESS"
                          [] co[t].phase = "REJECT" -> "REJECT"
                          [] OTHER -> "none"]

Seen == [t \in Txn |-> IF Decided(t) THEN co[t].out ELSE {}]

SD == INSTANCE SerialDB WITH Cell <- Used, db <- DB, result <- Result, seen <- Seen

-----------------------------------------------------------------------------
(* Properties *)

\* The counters of a chopper count pieces and sites, over any number of
\* attempts, and the lock queues and pieces of a site are those of its requests.
TypeOK ==
  /\ \A t \in Txn :
       /\ co[t].phase \in {"new", "start", "prepare", "commit", "abort", "SUCCESS", "REJECT", "crashed"}
       /\ co[t].start_sent \in 0 .. Cardinality(PiecesOf(t))
       /\ co[t].started \in 0 .. Cardinality(PiecesOf(t))
       /\ co[t].prepared \in 0 .. Cardinality(co[t].proxies)
       /\ co[t].finished \in 0 .. Cardinality(co[t].proxies)
  /\ \A s \in Site, t \in Txn : DOMAIN site[s].tx[t].ps \subseteq Ids(PiecesOf(t))

\* do_prepare, do_commit and do_abort find the transaction, and it ends only
\* when each of its pieces has run or was rejected: the verifys of dtxn.cc:567,
\* 627 and 666 and of PieceStatus::commit and abort (txn.h).  A rejected piece
\* makes the coordinator wait for the pieces that still wait for locks.
VerifiesHold == \A s \in Site : site[s].ok

\* A lock that is requested or held belongs to a piece of a transaction that is
\* still at the site and will release it: no path of commit, abort, refusal or
\* wounding leaves a lock behind.
NoLockLeft ==
  \A s \in Site, c \in Cell : \A k \in DOMAIN site[s].locks[c] :
     LET a == site[s].locks[c][k]
     IN  /\ site[s].tx[a.txn].in /\ a.pid \in DOMAIN site[s].tx[a.txn].ps
         /\ site[s].tx[a.txn].ps[a.pid].lock \in {"wait", "yes"}
         /\ \A j \in DOMAIN site[s].locks[c] : site[s].locks[c][j].pid = a.pid => j = k

\* A transaction that commits holds every lock its pieces asked for at each site
\* that has not handled the commit, was never wounded there and was prepared
\* there: an error in place of an answer to prepare_txn, or a lock taken away
\* by an older transaction, does not let it commit.
CommitHoldsLocks ==
  \A t \in Txn, s \in Site :
     LET S == site[s] IN Decided(t) /\ S.tx[t].in =>
       /\ S.tx[t].prepared /\ ~S.tx[t].wound
       /\ \A i \in DOMAIN S.tx[t].ps : /\ S.tx[t].ps[i].res = "SUCCESS"
            /\ \A l \in PieceOf(i).locks : \E k \in DOMAIN S.locks[l[1]] :
                 S.locks[l[1]][k].pid = i /\ Held(S.locks[l[1]], k)

\* The locks at the sites and the transactions agree, in both directions: none
\* is left behind by a transaction that has ended, and a transaction that
\* commits has lost none; the counters of the choppers and the pieces at the
\* sites stay in their ranges.
LocksOwned == TypeOK /\ NoLockLeft /\ CommitHoldsLocks

\* t waits at some site for a lock of u.
WaitsFor(t, u) ==
  \E s \in Site, c \in Cell : \E j, k \in DOMAIN site[s].locks[c] :
     LET q == site[s].locks[c]
     IN  j < k /\ q[j].txn = u /\ q[k].txn = t /\ Against(q[j], q[k].type)
         /\ site[s].tx[t].ps[q[k].pid].lock = "wait"

\* With the wait-die and the wound-die locks no transactions wait for each
\* other in a circle, within a site or across sites.  (A broken connection
\* leaves a prepared transaction behind that nobody can wound.)
NoCircle ==
  mode.lock # "timeout" /\ AllUp =>
     \A T \in (SUBSET Txn) \ {{}} : \E t \in T : \A u \in T : ~WaitsFor(t, u)

\* Two-phase locking implements the serial database (module SerialDB): a
\* transaction answered with SUCCESS has read and written at one moment and
\* one answered with REJECT has changed nothing, with each kind of lock, with
\* and without batches, and when connections break.
Serial == SD!Spec

\* Every transaction is answered when no connection breaks.  With the wait-die
\* and wound-die locks that needs no limit on the attempts: restart keeps the
\* transaction's id, and with it its priority.
Answered == \A t \in Txn : co[t].phase = "start" ~> Over(t) \/ ~AllUp
=============================================================================
