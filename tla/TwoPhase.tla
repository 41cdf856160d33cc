------------------------------ MODULE TwoPhase ------------------------------
(***************************************************************************)
(* Two-phase commit in MODE_OCC: the coordinator's start, prepare, finish  *)
(* and restart (deptran/coordinator.cc) with the requests start_pie,       *)
(* prepare_txn, commit_txn and abort_txn (deptran/rcc_service.cc) to the   *)
(* sites of module TxnOCC.                                                 *)
(*                                                                         *)
(* Callbacks of a coordinator run one at a time in its poll thread.  The   *)
(* loop of start that do_one begins runs in the client's thread, so that   *)
(* answers are handled between two of its requests (ScopedLock(mtx_) is a  *)
(* temporary and excludes nothing).  A site handles a request under mtx_.  *)
(***************************************************************************)
EXTENDS TxnOCC

CONSTANT MaxTry    \* max_try_; 0: no limit

ASSUME MaxTryAssumption == MaxTry \in Nat

VARIABLES
  msgs,      \* requests and replies in transit
  phase,     \* what the coordinator does for the transaction
  looping,   \* the client's thread is in the loop of start
  sent,      \* pieces with status_ 1
  started,   \* pieces whose start was answered (n_started_)
  output,    \* what the answered pieces have read
  prepared,  \* sites that answered prepare_txn (n_prepared_)
  finished,  \* sites that answered commit_txn or abort_txn (n_finished_)
  commit,    \* commit_
  n_try      \* n_try_, kept when there is a limit

cvars == <<phase, looping, sent, started, output, prepared, finished, commit, n_try>>
vars == <<msgs, cvars, tvars>>

PiecesOf(t) == {p \in Piece : p.txn = t}
Ids(P) == {p.id : p \in P}
Ready(t, S, A) == {p \in PiecesOf(t) \ S : p.after \subseteq Ids(A)}

\* proxies_: the sites pieces were sent to.
Proxies(t) == {p.site : p \in sent \cap PiecesOf(t)}

Value == Cell \X (Txn \cup {NoTxn})

Message ==
       [type : {"start"}, piece : Piece]
  \cup [type : {"start_reply"}, piece : Piece, output : SUBSET Value]
  \cup [type : {"prepare", "commit", "abort"}, txn : Txn, site : Site]
  \cup [type : {"prepare_reply"}, txn : Txn, site : Site, res : BOOLEAN]
  \cup [type : {"finish_reply"}, txn : Txn, site : Site]

StartMsg(p) == [type |-> "start", piece |-> p]
Request(ty, t, s) == [type |-> ty, txn |-> t, site |-> s]

Init ==
  /\ OccInit
  /\ msgs = {}
  /\ phase = [t \in Txn |-> "new"]
  /\ looping = [t \in Txn |-> FALSE]
  /\ sent = {}
  /\ started = {}
  /\ output = [t \in Txn |-> {}]
  /\ prepared = [t \in Txn |-> {}]
  /\ finished = [t \in Txn |-> {}]
  /\ commit = [t \in Txn |-> TRUE]
  /\ n_try = [t \in Txn |-> 1]

-----------------------------------------------------------------------------
(* Coordinator *)

\* do_one: a new chopper; start begins its loop.
DoOne(t) ==
  /\ phase[t] = "new"
  /\ phase' = [phase EXCEPT ![t] = "start"]
  /\ looping' = [looping EXCEPT ![t] = TRUE]
  /\ UNCHANGED <<msgs, sent, started, output, prepared, finished, commit, n_try, tvars>>

\* One turn of the loop: next_piece takes the first piece that is ready.
SendPiece(t) ==
  /\ looping[t]
  /\ \E p \in Ready(t, sent, started) :
       /\ \A q \in Ready(t, sent, started) : p.id <= q.id
       /\ sent' = sent \cup {p}
       /\ msgs' = msgs \cup {StartMsg(p)}
  /\ UNCHANGED <<phase, looping, started, output, prepared, finished, commit, n_try, tvars>>

EndLoop(t) ==
  /\ looping[t]
  /\ Ready(t, sent, started) = {}
  /\ looping' = [looping EXCEPT ![t] = FALSE]
  /\ UNCHANGED <<msgs, phase, sent, started, output, prepared, finished, commit, n_try, tvars>>

\* Mutant: prepare is sent when the pieces sent so far have been answered.
AllStartedSoFar(t, S, A) == S \cap PiecesOf(t) \subseteq A

\* n_started_ == n_pieces_.
AllStarted(t, S, A) == PiecesOf(t) \subseteq A

\* The callback of async_start_pie: start_callback may make pieces ready, and
\* then start sends all that are; the last answer sends prepare_txn.
StartReply(m) ==
  LET p == m.piece
      t == p.txn
      answered == started \cup {p}
      unlocks == \E q \in PiecesOf(t) : p.id \in q.after /\ q.after \subseteq Ids(answered)
      ready == IF unlocks THEN Ready(t, sent, answered) ELSE {}
      last == ~unlocks /\ AllStarted(t, sent, answered)
  IN  /\ m \in msgs /\ m.type = "start_reply"
      /\ started' = answered
      /\ output' = [output EXCEPT ![t] = @ \cup m.output]
      /\ sent' = sent \cup ready
      /\ phase' = IF last THEN [phase EXCEPT ![t] = "prepare"] ELSE phase
      /\ msgs' = (msgs \ {m})
                   \cup {StartMsg(q) : q \in ready}
                   \cup {Request("prepare", t, s) : s \in IF last THEN Proxies(t) ELSE {}}
      /\ UNCHANGED <<looping, prepared, finished, commit, n_try, tvars>>

CommitAfter(t, res) == commit[t] /\ res

\* The callback of async_prepare_txn; finish after the last answer.
PrepareReply(m) ==
  LET t == m.txn
      c == CommitAfter(t, m.res)
      all == prepared[t] \cup {m.site} = Proxies(t)
      decision == IF c THEN "commit" ELSE "abort"
  IN  /\ m \in msgs /\ m.type = "prepare_reply"
      /\ prepared' = [prepared EXCEPT ![t] = @ \cup {m.site}]
      /\ commit' = [commit EXCEPT ![t] = c]
      /\ phase' = IF all THEN [phase EXCEPT ![t] = decision] ELSE phase
      /\ msgs' = (msgs \ {m})
                   \cup {Request(decision, t, s) : s \in IF all THEN Proxies(t) ELSE {}}
      /\ UNCHANGED <<looping, sent, started, output, finished, n_try, tvars>>

CanRetry(t) == MaxTry = 0 \/ n_try[t] < MaxTry

\* Mutant: the attempts are not counted.
NotCounted(t) == n_try

CountTry(t) == IF MaxTry = 0 THEN n_try ELSE [n_try EXCEPT ![t] = @ + 1]

\* restart: the chopper's retry() and start, with the same txn_id_.
Restart(m) ==
  LET t == m.txn
      ready == Ready(t, sent \ PiecesOf(t), started \ PiecesOf(t))
  IN  /\ phase' = [phase EXCEPT ![t] = "start"]
      /\ sent' = (sent \ PiecesOf(t)) \cup ready
      /\ started' = started \ PiecesOf(t)
      /\ output' = [output EXCEPT ![t] = {}]
      /\ prepared' = [prepared EXCEPT ![t] = {}]
      /\ finished' = [finished EXCEPT ![t] = {}]
      /\ commit' = [commit EXCEPT ![t] = TRUE]
      /\ n_try' = CountTry(t)
      /\ msgs' = (msgs \ {m}) \cup {StartMsg(q) : q \in ready}
      /\ UNCHANGED looping

\* The callback of async_commit_txn and async_abort_txn.
FinishReply(m) ==
  LET t == m.txn
      done == finished[t] \cup {m.site}
  IN  /\ m \in msgs /\ m.type = "finish_reply"
      /\ IF done = Proxies(t) /\ ~commit[t] /\ CanRetry(t)
         THEN Restart(m)
         ELSE /\ finished' = [finished EXCEPT ![t] = done]
              /\ phase' = IF done = Proxies(t)
                          THEN [phase EXCEPT ![t] = IF commit[t] THEN "SUCCESS" ELSE "REJECT"]
                          ELSE phase
              /\ msgs' = msgs \ {m}
              /\ UNCHANGED <<looping, sent, started, output, prepared, commit, n_try>>
      /\ UNCHANGED tvars

-----------------------------------------------------------------------------
(* Site *)

StartPie(m) ==
  LET p == m.piece
  IN  /\ m \in msgs /\ m.type = "start"
      /\ Execute(p.site, p)
      /\ msgs' = (msgs \ {m}) \cup
                   {[type |-> "start_reply", piece |-> p, output |-> Output(p.site, p)]}
      /\ UNCHANGED cvars

PrepareTxn(m) ==
  /\ m \in msgs /\ m.type = "prepare"
  /\ CommitPrepare(m.site, m.txn)
  /\ msgs' = (msgs \ {m}) \cup
               {[type |-> "prepare_reply", txn |-> m.txn, site |-> m.site,
                 res |-> CanPrepare(occ[m.site][m.txn], m.txn)]}
  /\ UNCHANGED cvars

FinishTxn(m) ==
  /\ m \in msgs
  /\ \/ m.type = "commit" /\ CommitConfirm(m.site, m.txn)
     \/ m.type = "abort" /\ Abort(m.site, m.txn)
  /\ msgs' = (msgs \ {m}) \cup {Request("finish_reply", m.txn, m.site)}
  /\ UNCHANGED cvars

-----------------------------------------------------------------------------
AllDone == /\ \A t \in Txn : phase[t] \in {"SUCCESS", "REJECT"}
           /\ UNCHANGED vars

Steps ==
  \/ \E t \in Txn : SendPiece(t) \/ EndLoop(t)
  \/ \E m \in msgs : \/ StartReply(m) \/ PrepareReply(m) \/ FinishReply(m)
                     \/ StartPie(m) \/ PrepareTxn(m) \/ FinishTxn(m)

Next == (\E t \in Txn : DoOne(t)) \/ Steps \/ AllDone

Spec == Init /\ [][Next]_vars

\* The threads run and every message is delivered and handled.
FairSpec == Spec /\ WF_vars(Steps)

-----------------------------------------------------------------------------
(* The database the clients see: a transaction takes effect when finish      *)
(* sends commit_txn, and its updates are then pending at the sites that have *)
(* not yet handled it.                                                       *)

Reads == [t \in Txn |-> UNION {p.reads : p \in PiecesOf(t)}]
Writes == [t \in Txn |-> UNION {p.writes : p \in PiecesOf(t)}]

Pending(c) == {t \in Txn : phase[t] = "commit" /\ \E s \in Site : c \in Staged(occ[s][t])}

DB == [c \in Cell |-> IF Pending(c) = {} THEN val[c] ELSE CHOOSE t \in Pending(c) : TRUE]

Result == [t \in Txn |-> CASE phase[t] \in {"commit", "SUCCESS"} -> "SUCCESS"
                          [] phase[t] = "REJECT" -> "REJECT"
                          [] OTHER -> "none"]

Seen == [t \in Txn |-> IF Result[t] = "SUCCESS" THEN output[t] ELSE {}]

SD == INSTANCE SerialDB WITH db <- DB, result <- Result, seen <- Seen

-----------------------------------------------------------------------------
(* Properties *)

\* Optimistic concurrency control with two-phase commit implements the serial
\* database: whatever the interleaving of executions, prepares and commits at
\* the sites, a transaction answered with SUCCESS has read and written at one
\* moment, and one answered with REJECT has changed nothing.
Serial == SD!Spec

\* Every variable has its type; in particular what the sites hold of a
\* transaction, over any number of restarts, is a TxnOCC with versions, and
\* the coordinator is in one of its phases.
TypeOK ==
  /\ OccTypeOK
  /\ msgs \subseteq Message
  /\ phase \in [Txn -> {"new", "start", "prepare", "commit", "abort", "SUCCESS", "REJECT"}]
  /\ looping \in [Txn -> BOOLEAN]
  /\ sent \subseteq Piece
  /\ started \subseteq Piece
  /\ output \in [Txn -> SUBSET Value]
  /\ prepared \in [Txn -> SUBSET Site]
  /\ finished \in [Txn -> SUBSET Site]
  /\ commit \in [Txn -> BOOLEAN]
  /\ n_try \in [Txn -> Nat]

\* do_prepare, do_commit and do_abort find the transaction (dtxn.cc:567, 627,
\* 666), commit_prepare has not run before and commit_confirm follows a
\* commit_prepare that succeeded (txn.cc:1197, 1257), also after restarts,
\* which reuse the transaction id.
RequestsKnown ==
  \A m \in msgs :
     /\ m.type \in {"prepare", "commit", "abort"} => m.txn \in txn_map[m.site]
     /\ m.type = "prepare" => ~occ[m.site][m.txn].verified
     /\ m.type = "commit" => occ[m.site][m.txn].verified

\* A row is locked for writing by one transaction or for reading by some
\* (the assertion of locking.h:20), and whoever locks it is a transaction that
\* is prepared at a site and will release it: no lock outlives its
\* transaction on any path of commit_prepare, commit_confirm and abort.
LocksOwned ==
  \A r \in Row :
     /\ lock[r].w # NoTxn => lock[r].r = {}
     /\ \A t \in Txn : t = lock[r].w \/ t \in lock[r].r =>
           \E s \in Site : t \in txn_map[s] /\ occ[s][t].verified /\ r \in occ[s][t].locks

\* Between commit_prepare and commit_confirm nobody else commits to a cell the
\* transaction read or will write.
PreparedCurrent ==
  \A s \in Site, t \in Txn : occ[s][t].verified => VersionCheck(occ[s][t])

\* Every transaction is answered, however often it is restarted: no request
\* waits for a lock, and the number of attempts is limited.
Answered == \A t \in Txn : phase[t] = "start" ~> phase[t] \in {"SUCCESS", "REJECT"}

\* The loop of start in the client's thread may outlive the phase in which the
\* poll thread still uses the chopper, up to its deletion, although do_one is
\* called "thread safe" (coordinator.cc:80); but it has no piece left to send
\* then, and only finds that out: next_piece's last look at the chopper is
\* all that comes too late.
LateLoopIdle ==
  \A t \in Txn : looping[t] /\ phase[t] # "start" => Ready(t, sent, started) = {}
=============================================================================
