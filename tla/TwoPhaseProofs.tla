--------------------------- MODULE TwoPhaseProofs ---------------------------
(***************************************************************************)
(* Theorems about module TwoPhase, for any transactions, sites, rows, pieces*)
(* and number of attempts: the inductive invariant IInv, and with it that  *)
(* optimistic concurrency control implements the serial database.          *)
(***************************************************************************)
EXTENDS TwoPhaseInv, TLAPS

\* The first-order prover is the default; leaves that need arithmetic or records
\* name SMT.
USE ZenonT(60)

-----------------------------------------------------------------------------
(* Types *)

\* Pieces name transactions, sites and cells.
LEMMA PieceFields ==
  ASSUME NEW p \in Piece
  PROVE  /\ p.id \in Nat /\ p.txn \in Txn /\ p.site \in Site
         /\ p.reads \subseteq Cell /\ p.writes \subseteq Cell
         /\ p \in PiecesOf(p.txn)
BY PieceAssumption DEF PieceType, PiecesOf

\* A row that two pieces use is on one site.
LEMMA SameSite ==
  ASSUME NEW p \in Piece, NEW q \in Piece,
         NEW c \in p.reads \cup p.writes, NEW d \in q.reads \cup q.writes,
         c.row = d.row
  PROVE  p.site = q.site
BY PieceAssumption

\* The fields of a message in transit have their types.
LEMMA MsgFields ==
  ASSUME TypeOK, NEW m \in msgs
  PROVE  /\ m.type \in {"start", "start_reply", "prepare", "prepare_reply", "commit",
                        "abort", "finish_reply"}
         /\ Carries(m) => m.piece \in Piece
         /\ m.type = "start_reply" => m.output \subseteq Value
         /\ Votes(m) \/ Ends(m) => m.txn \in Txn /\ m.site \in Site
         /\ m.type = "prepare_reply" => m.res \in BOOLEAN
<1>1. m \in Message
  BY DEF TypeOK
<1>2. CASE m \in [type : {"start"}, piece : Piece]
  BY <1>2 DEF Carries, Votes, Ends
<1>3. CASE m \in [type : {"start_reply"}, piece : Piece, output : SUBSET Value]
  BY <1>3 DEF Carries, Votes, Ends
<1>4. CASE m \in [type : {"prepare", "commit", "abort"}, txn : Txn, site : Site]
  BY <1>4 DEF Carries, Votes, Ends
<1>5. CASE m \in [type : {"prepare_reply"}, txn : Txn, site : Site, res : BOOLEAN]
  BY <1>5 DEF Carries, Votes, Ends
<1>6. CASE m \in [type : {"finish_reply"}, txn : Txn, site : Site]
  BY <1>6 DEF Carries, Votes, Ends
<1>7. QED
  BY <1>1, <1>2, <1>3, <1>4, <1>5, <1>6 DEF Message

\* The messages the actions make are messages.
LEMMA NewMsgs ==
  /\ \A p \in Piece : StartMsg(p) \in Message /\ StartMsg(p).type = "start"
                      /\ StartMsg(p).piece = p
  /\ \A p \in Piece, out \in SUBSET Value :
        [type |-> "start_reply", piece |-> p, output |-> out] \in Message
  /\ \A ty \in {"prepare", "commit", "abort", "finish_reply"}, t \in Txn, s \in Site :
        /\ Request(ty, t, s) \in Message /\ Request(ty, t, s).type = ty
        /\ Request(ty, t, s).txn = t /\ Request(ty, t, s).site = s
  /\ \A t \in Txn, s \in Site, b \in BOOLEAN :
        [type |-> "prepare_reply", txn |-> t, site |-> s, res |-> b] \in Message
<1>1. \A p \in Piece : StartMsg(p) \in Message /\ StartMsg(p).type = "start"
                      /\ StartMsg(p).piece = p
  BY DEF Message, StartMsg
<1>2. \A p \in Piece, out \in SUBSET Value :
        [type |-> "start_reply", piece |-> p, output |-> out] \in Message
  BY DEF Message
<1>3. \A ty \in {"prepare", "commit", "abort"}, t \in Txn, s \in Site :
        /\ Request(ty, t, s) \in Message /\ Request(ty, t, s).type = ty
        /\ Request(ty, t, s).txn = t /\ Request(ty, t, s).site = s
  BY DEF Message, Request
<1>4. \A t \in Txn, s \in Site :
        /\ Request("finish_reply", t, s) \in Message
        /\ Request("finish_reply", t, s).type = "finish_reply"
        /\ Request("finish_reply", t, s).txn = t /\ Request("finish_reply", t, s).site = s
  BY DEF Message, Request
<1>5. \A t \in Txn, s \in Site, b \in BOOLEAN :
        [type |-> "prepare_reply", txn |-> t, site |-> s, res |-> b] \in Message
  BY DEF Message
<1>6. QED
  BY <1>1, <1>2, <1>3, <1>4, <1>5, SMTT(60)

\* The answer of a piece is a set of cells with values.
LEMMA OutputType ==
  ASSUME TypeOK, NEW p \in Piece
  PROVE  Output(p.site, p) \subseteq Value
BY PieceFields, SMTT(60) DEF TypeOK, OccTypeOK, Output, Value

\* Noting versions keeps the map from cells to versions.
LEMMA NoteType ==
  ASSUME ver \in [Cell -> Nat], NEW f \in [Cell -> Version], NEW C
  PROVE  Note(f, C) \in [Cell -> Version]
BY DEF Note, Version, Absent

\* A new TxnOCC has its type.
LEMMA NewOccType == NewOcc \in Occ
BY DEF NewOcc, Occ, Version, Absent

\* A new TxnOCC has noted and locked nothing.
LEMMA NewOccFields ==
  /\ \A c \in Cell : NewOcc.rver[c] = Absent /\ NewOcc.wver[c] = Absent
  /\ NewOcc.locks = {} /\ ~NewOcc.verified
BY DEF NewOcc

-----------------------------------------------------------------------------
(* Initial states *)

\* The invariant holds when nothing has been sent.
LEMMA InitInv ==
  ASSUME Init
  PROVE  IInv
<1>1. TypeOK
  BY NewOccType DEF Init, OccInit, TypeOK, OccTypeOK, Lock, Free
<1>2. \A s \in Site, t \in Txn : occ[s][t] = NewOcc /\ t \notin txn_map[s]
  BY DEF Init, OccInit
<1>3. PieceFlow /\ OneMsg /\ MsgsOK
  BY DEF Init, PieceFlow, OneMsg, MsgsOK
<1>4. Phases
  BY <1>2, NewOccFields DEF Init, Phases
<1>5. Fresh /\ Accesses /\ Held /\ LocksNoted /\ PreparedCurrent
  BY <1>2, NewOccFields DEF Fresh, Accesses, Held, LocksNoted, PreparedCurrent
<1>6. OutputsOK
  BY DEF Init, OutputsOK, Collecting
<1>7. LocksOwned
  BY NoOwnerAssumption DEF Init, OccInit, LocksOwned, Free
<1>8. QED
  BY <1>1, <1>3, <1>4, <1>5, <1>6, <1>7 DEF IInv

-----------------------------------------------------------------------------
(* Steps of the coordinator *)

\* What a step of a site must keep for the phases of the coordinators.
PhasesLeft ==
  /\ UNCHANGED cvars
  /\ \A u \in Txn : /\ Proxies(u)' = Proxies(u)
                    /\ prepared[u] \subseteq Site /\ finished[u] \subseteq Site
  /\ \A u \in Txn, r \in Site :
        /\ phase[u] \in {"new", "start"} /\ ~occ[r][u].verified => ~occ'[r][u].verified
        /\ r \in prepared[u] /\ u \in txn_map'[r] =>
             u \in txn_map[r] /\ (occ[r][u].verified => occ'[r][u].verified)
        /\ r \in finished[u] /\ u \notin txn_map[r] => u \notin txn_map'[r]

\* Phases is kept when nothing it is about changes.
LEMMA PhasesKept ==
  ASSUME Phases, PhasesLeft
  PROVE  Phases'
BY SMTT(60) DEF Phases, PhasesLeft, cvars

\* A step that leaves the sites alone keeps what is said of them alone.
LEMMA SitesKept ==
  ASSUME IInv, UNCHANGED tvars
  PROVE  /\ OccTypeOK' /\ Accesses' /\ LocksOwned' /\ Held' /\ LocksNoted' /\ PreparedCurrent'
         /\ \A t, e : ReadOK(t, e) => ReadOK(t, e)'
         /\ \A p, out : Ran(p, out) => Ran(p, out)'
<1>1. OccTypeOK'
  BY DEF IInv, TypeOK, OccTypeOK, tvars
<1>2. Accesses'
  BY DEF IInv, Accesses, tvars
<1>3. LocksOwned'
  BY DEF IInv, LocksOwned, tvars
<1>4. Held' /\ LocksNoted'
  BY DEF IInv, Held, LocksNoted, tvars
<1>5. PreparedCurrent'
  BY DEF IInv, PreparedCurrent, VersionCheck, tvars
<1>6. \A t, e : ReadOK(t, e) => ReadOK(t, e)'
  BY DEF ReadOK, tvars, Writes
<1>7. \A p, out : Ran(p, out) => Ran(p, out)'
  BY DEF Ran, tvars
<1>8. QED
  BY <1>1, <1>2, <1>3, <1>4, <1>5, <1>6, <1>7

\* A start request or its answer stays good while its piece is started.
LEMMA CarriesKept ==
  ASSUME IInv, UNCHANGED tvars, NEW n \in msgs, Carries(n),
         n.piece \in sent' \ started', phase'[n.piece.txn] = "start"
  PROVE  MsgOK(n)'
BY SitesKept DEF IInv, MsgsOK, MsgOK, Carries, Votes, Ends, Reads

\* do_one: a transaction that begins to start has nothing at the sites.
LEMMA DoOneInv ==
  ASSUME IInv, NEW t \in Txn, DoOne(t)
  PROVE  IInv'
<1> USE DEF DoOne
<1>1. /\ UNCHANGED <<msgs, sent, started, output, prepared, finished, commit, n_try, tvars>>
      /\ \A u \in Txn : u # t => phase'[u] = phase[u] /\ looping'[u] = looping[u]
      /\ phase[t] = "new" /\ phase'[t] = "start" /\ looping'[t] = TRUE
  BY DEF IInv, TypeOK
<1>2. TypeOK'
  BY SitesKept DEF IInv, TypeOK
<1> HIDE DEF DoOne
<1>3. UNCHANGED tvars /\ \A u \in Txn : Proxies(u)' = Proxies(u)
  BY <1>1 DEF Proxies
<1>4. PieceFlow' /\ OneMsg'
  BY <1>1 DEF IInv, PieceFlow, OneMsg
<1>5. Phases'
  BY <1>1, <1>3, SMTT(60) DEF IInv, Phases, tvars
<1>6. Fresh'
  BY <1>1, <1>3 DEF IInv, Fresh, Over, tvars
<1>7. OutputsOK'
  <2>1. output[t] = {} /\ \A p \in started : p \notin PiecesOf(t)
    BY <1>1 DEF IInv, Phases, PieceFlow, PiecesOf
  <2>2. QED
    BY <1>1, <1>3, <2>1, SitesKept DEF IInv, OutputsOK, Collecting
<1>8. MsgsOK'
  BY <1>1, <1>3, SitesKept, MsgFields, PieceFields, SMTT(60)
     DEF IInv, MsgsOK, MsgOK, Carries, Votes, Ends, tvars
<1>9. QED
  BY <1>2, <1>3, <1>4, <1>5, <1>6, <1>7, <1>8, SitesKept DEF IInv

\* The sites a transaction uses grow with the pieces sent.
LEMMA ProxiesGrow ==
  ASSUME NEW t \in Txn, NEW R \in SUBSET PiecesOf(t), sent' = sent \cup R
  PROVE  /\ Proxies(t)' = Proxies(t) \cup {p.site : p \in R}
         /\ \A u \in Txn : u # t => Proxies(u)' = Proxies(u)
         /\ \A u \in Txn : Proxies(u) \subseteq Proxies(u)'
BY DEF Proxies, PiecesOf

\* Only while it starts has a transaction pieces left to send.
LEMMA ReadyStart ==
  ASSUME IInv, NEW t \in Txn, NEW p \in Ready(t, sent, started)
  PROVE  /\ p \in Piece /\ p.txn = t /\ p \notin sent
         /\ phase[t] \in {"new", "start"}
BY DEF IInv, Phases, PieceFlow, Ready, PiecesOf

\* A turn of the loop of start: one more piece, one more request.
LEMMA SendPieceInv ==
  ASSUME IInv, NEW t \in Txn, SendPiece(t)
  PROVE  IInv'
<1>1. PICK p \in Ready(t, sent, started) :
        /\ sent' = sent \cup {p}
        /\ msgs' = msgs \cup {StartMsg(p)}
  BY DEF SendPiece
<1>2. /\ UNCHANGED <<phase, looping, started, output, prepared, finished, commit, n_try, tvars>>
      /\ looping[t]
  BY DEF SendPiece
<1>3. p \in Piece /\ p.txn = t /\ p \notin sent /\ p \in PiecesOf(t) /\ phase[t] = "start"
  BY <1>2, ReadyStart DEF IInv, Phases, PiecesOf
<1>4. /\ \A u \in Txn : u # t => Proxies(u)' = Proxies(u)
      /\ \A u \in Txn : Proxies(u) \subseteq Proxies(u)'
  <2>1. {p} \in SUBSET PiecesOf(t)
    BY <1>3
  <2>2. QED
    BY <1>1, <2>1, ProxiesGrow
<1>5. StartMsg(p) \in Message /\ StartMsg(p).type = "start" /\ StartMsg(p).piece = p
  BY <1>3, NewMsgs
<1>6. TypeOK'
  BY <1>1, <1>2, <1>3, <1>5, SitesKept DEF IInv, TypeOK
<1>7. PieceFlow'
  BY <1>1, <1>2 DEF IInv, PieceFlow
<1>8. OneMsg'
  BY <1>1, <1>3, <1>5, MsgFields, SMTT(60) DEF IInv, OneMsg, MsgsOK, MsgOK, Carries, Votes, Ends
<1>9. Phases'
  <2>1. \A u \in Txn : u # t => PiecesOf(u) \cap sent' = PiecesOf(u) \cap sent
    BY <1>1, <1>3 DEF PiecesOf
  <2>2. QED
    BY <1>2, <1>3, <1>4, <2>1 DEF IInv, Phases, tvars
<1>10. Fresh'
  BY <1>2, <1>3, <1>4 DEF IInv, Fresh, tvars
<1>11. OutputsOK'
  BY <1>2, SitesKept DEF IInv, OutputsOK, Collecting
<1>12. MsgsOK'
  <2>1. ASSUME NEW m \in msgs
        PROVE  MsgOK(m)'
    BY <1>1, <1>2, <1>3, <1>4, <2>1, SitesKept, MsgFields, PieceFields, SMTT(60)
       DEF IInv, MsgsOK, MsgOK, Carries, Votes, Ends, tvars
  <2>2. ASSUME NEW n, n = StartMsg(p)
        PROVE  MsgOK(n)'
    <3>1. n.piece = p /\ p \in sent' \ started' /\ phase'[t] = "start" /\ n.type = "start"
      BY <1>1, <1>2, <1>3, <1>5, <2>2 DEF IInv, PieceFlow
    <3>2. QED
      BY <3>1, <1>3 DEF MsgOK, Carries, Votes, Ends
  <2>3. QED
    BY <1>1, <2>1, <2>2 DEF MsgsOK
<1>13. QED
  BY <1>2, <1>6, <1>7, <1>8, <1>9, <1>10, <1>11, <1>12, SitesKept DEF IInv

\* The end of the loop of start changes nothing the invariant speaks of.
LEMMA EndLoopInv ==
  ASSUME IInv, NEW t \in Txn, EndLoop(t)
  PROVE  IInv'
<1>1. /\ UNCHANGED <<msgs, phase, sent, started, output, prepared, finished, commit, n_try, tvars>>
      /\ looping' = [looping EXCEPT ![t] = FALSE]
  BY DEF EndLoop
<1>2. \A u \in Txn : Proxies(u)' = Proxies(u) /\ (looping'[u] => looping[u])
  BY <1>1 DEF Proxies, IInv, TypeOK
<1>3. TypeOK' /\ PieceFlow' /\ OneMsg'
  BY <1>1, SitesKept DEF IInv, TypeOK, PieceFlow, OneMsg
<1>4. Phases' /\ Fresh'
  BY <1>1, <1>2, SMTT(60) DEF IInv, Phases, Fresh, tvars
<1>5. OutputsOK'
  BY <1>1, SitesKept DEF IInv, OutputsOK, Collecting
<1>6. MsgsOK'
  BY <1>1, <1>2, SitesKept, MsgFields, PieceFields, SMTT(60)
     DEF IInv, MsgsOK, MsgOK, Carries, Votes, Ends, tvars
<1>7. QED
  BY <1>1, <1>3, <1>4, <1>5, <1>6, SitesKept DEF IInv

\* A piece has run also with respect to more output.
LEMMA RanMore ==
  ASSUME NEW p, NEW out, NEW more, out \subseteq more, Ran(p, out)
  PROVE  Ran(p, more)
BY DEF Ran

\* The callback of async_start_pie: the piece is counted, others become ready,
\* or prepare_txn is sent to all sites.
LEMMA StartReplyInv ==
  ASSUME IInv, NEW m \in msgs, StartReply(m)
  PROVE  IInv'
<1> DEFINE p == m.piece
           t == p.txn
           answered == started \cup {p}
           unlocks == \E q \in PiecesOf(t) : p.id \in q.after /\ q.after \subseteq Ids(answered)
           ready == IF unlocks THEN Ready(t, sent, answered) ELSE {}
           last == ~unlocks /\ AllStarted(t, sent, answered)
<1>1. /\ m.type = "start_reply"
      /\ started' = answered
      /\ output' = [output EXCEPT ![t] = @ \cup m.output]
      /\ sent' = sent \cup ready
      /\ phase' = IF last THEN [phase EXCEPT ![t] = "prepare"] ELSE phase
      /\ msgs' = (msgs \ {m})
                   \cup {StartMsg(q) : q \in ready}
                   \cup {Request("prepare", t, s) : s \in IF last THEN Proxies(t) ELSE {}}
      /\ UNCHANGED <<looping, prepared, finished, commit, n_try, tvars>>
  BY DEF StartReply
<1>2. /\ p \in Piece /\ t \in Txn /\ p \in PiecesOf(t) /\ p \in sent \ started
      /\ phase[t] = "start" /\ m.output \subseteq Value
      /\ \A e \in m.output : e[1] \in Reads[t] /\ ReadOK(t, e)
      /\ Ran(p, m.output)
  BY <1>1, MsgFields, PieceFields DEF IInv, MsgsOK, MsgOK, Carries
<1>3. /\ ready \subseteq PiecesOf(t) /\ ready \cap sent = {} /\ ready \subseteq Piece
      /\ last => ready = {} /\ PiecesOf(t) \subseteq answered
  BY DEF Ready, AllStarted, PiecesOf
<1>4. /\ \A u \in Txn : u # t => Proxies(u)' = Proxies(u)
      /\ \A u \in Txn : Proxies(u) \subseteq Proxies(u)'
  BY <1>1, <1>2, <1>3, ProxiesGrow
<1>5. /\ started' = started \cup {p}
      /\ \A u \in Txn : u # t => phase'[u] = phase[u] /\ output'[u] = output[u]
      /\ phase'[t] = IF last THEN "prepare" ELSE "start"
      /\ output'[t] = output[t] \cup m.output
  BY <1>1, <1>2 DEF IInv, TypeOK
<1>6. ASSUME NEW s \in Proxies(t), last
      PROVE  /\ s \in Site /\ s \in Proxies(t)' /\ prepared'[t] = {}
             /\ t \in txn_map'[s] /\ ~occ'[s][t].verified
  <2>1. PICK q \in sent \cap PiecesOf(t) : q.site = s
    BY DEF Proxies
  <2>2. t \in txn_map[s] /\ s \in Site
    BY <1>2, <1>3, <1>6, <2>1, PieceFields DEF IInv, OutputsOK, Collecting, Ran, PiecesOf
  <2>3. QED
    BY <1>1, <1>2, <1>4, <2>2 DEF IInv, Phases, tvars
<1> HIDE DEF ready, last, answered, unlocks
<1>7. ASSUME NEW n \in msgs'
      PROVE  \/ n \in msgs /\ n # m
             \/ \E q \in ready : n = StartMsg(q) /\ n \in Message /\ n.type = "start" /\ n.piece = q
             \/ last /\ \E s \in Proxies(t) : /\ n \in Message
                                              /\ n.type = "prepare" /\ n.txn = t /\ n.site = s
                                              /\ n = Request("prepare", t, s)
  <2>1. CASE n \in {StartMsg(q) : q \in ready}
    BY <2>1, <1>3, NewMsgs, SMTT(60)
  <2>2. CASE n \in {Request("prepare", t, s) : s \in IF last THEN Proxies(t) ELSE {}}
    BY <2>2, <1>2, <1>6, NewMsgs, SMTT(60)
  <2>3. QED
    BY <1>1, <2>1, <2>2
<1>8. TypeOK'
  <2>1. msgs' \subseteq Message
    BY <1>7 DEF IInv, TypeOK
  <2>2. OccTypeOK'
    BY <1>1, SitesKept
  <2>3. output' \in [Txn -> SUBSET Value]
    BY <1>1, <1>2 DEF IInv, TypeOK
  <2>4. QED
    BY <1>1, <1>2, <1>3, <1>5, <2>1, <2>2, <2>3 DEF IInv, TypeOK
<1>9. PieceFlow'
  BY <1>1, <1>2, <1>5 DEF IInv, PieceFlow
<1>10. OneMsg'
  <2>1. ASSUME NEW n \in msgs', NEW k \in msgs', Carries(n), Carries(k), n.piece = k.piece
        PROVE  n = k
    BY <2>1, <1>3, <1>7, SMTT(60) DEF IInv, OneMsg, MsgsOK, MsgOK, Carries
  <2>2. ASSUME NEW n \in msgs', NEW k \in msgs', Votes(n), Votes(k), n.txn = k.txn, n.site = k.site
        PROVE  n = k
    BY <2>2, <1>2, <1>7, SMTT(60) DEF IInv, OneMsg, MsgsOK, MsgOK, Votes
  <2>3. ASSUME NEW n \in msgs', NEW k \in msgs', Ends(n), Ends(k), n.txn = k.txn, n.site = k.site
        PROVE  n = k
    BY <2>3, <1>7 DEF IInv, OneMsg, Ends
  <2>4. QED
    BY <2>1, <2>2, <2>3 DEF OneMsg
<1>11. Phases'
  <2>1. \A u \in Txn : u # t => /\ PiecesOf(u) \cap sent' = PiecesOf(u) \cap sent
                                 /\ PiecesOf(u) \cap started' = PiecesOf(u) \cap started
    BY <1>1, <1>2, <1>3, <1>5 DEF PiecesOf
  <2>2. last => PiecesOf(t) \subseteq started'
    BY <1>3, <1>5 DEF answered
  <2>3. prepared'[t] = {} /\ finished'[t] = {} /\ commit'[t] /\ \A s \in Site : ~occ'[s][t].verified
    BY <1>1, <1>2 DEF IInv, Phases, tvars
  <2>4. QED
    BY <1>1, <1>2, <1>4, <1>5, <2>1, <2>2, <2>3, SMTT(60) DEF IInv, Phases, tvars
<1>12. Fresh'
  BY <1>1, <1>2, <1>4, <1>5, SMTT(60) DEF IInv, Fresh, Over, tvars
<1>13. OutputsOK'
  <2>1. ASSUME NEW u \in Txn, Collecting(u)', u # t
        PROVE  /\ \A e \in output'[u] : e[1] \in Reads[u] /\ ReadOK(u, e)'
               /\ \A q \in started' \cap PiecesOf(u) : Ran(q, output[u])'
    BY <1>1, <1>2, <1>5, <2>1, SitesKept DEF IInv, OutputsOK, Collecting, PiecesOf
  <2>2. \A e \in output'[t] : e[1] \in Reads[t] /\ ReadOK(t, e)'
    BY <1>1, <1>2, <1>5, SitesKept, SMTT(60) DEF IInv, OutputsOK, Collecting
  <2>3. \A q \in started' \cap PiecesOf(t) : Ran(q, output[t])'
    <3>1. \A q \in started' \cap PiecesOf(t) : Ran(q, output'[t])
      BY <1>2, <1>5, RanMore, SMTT(60) DEF IInv, OutputsOK, Collecting
    <3>2. QED
      BY <1>1, <3>1 DEF Ran, tvars
  <2>4. QED
    BY <2>1, <2>2, <2>3 DEF OutputsOK, Reads
<1>14. MsgsOK'
  <2>1. ASSUME NEW n \in msgs, n # m
        PROVE  MsgOK(n)'
    <3>1. CASE Carries(n)
      <4>1. n.piece \in sent' \ started' /\ phase'[n.piece.txn] = "start"
        BY <1>1, <1>2, <1>3, <1>5, <2>1, <3>1, MsgFields, PieceFields, SMTT(60)
           DEF IInv, MsgsOK, MsgOK, OneMsg, Carries, answered
      <4>2. QED
        BY <1>1, <3>1, <4>1, CarriesKept
    <3>2. CASE Votes(n) \/ Ends(n)
      <4>1. n.txn \in Txn /\ n.txn # t
        BY <1>2, <3>2, MsgFields DEF IInv, MsgsOK, MsgOK, Votes, Ends
      <4>2. QED
        BY <1>1, <1>4, <1>5, <3>2, <4>1, SMTT(60)
           DEF IInv, MsgsOK, MsgOK, Carries, Votes, Ends, tvars
    <3>3. QED
      BY <3>1, <3>2, MsgFields DEF IInv, Carries, Votes, Ends
  <2>2. ASSUME NEW n \in msgs', NEW q \in ready, n.type = "start", n.piece = q
        PROVE  MsgOK(n)'
    <3>1. q \in sent' \ started' /\ phase'[q.txn] = "start"
      BY <1>1, <1>2, <1>3, <1>5, <2>2 DEF IInv, PieceFlow, PiecesOf
    <3>2. QED
      BY <2>2, <3>1 DEF MsgOK, Carries, Votes, Ends
  <2>3. ASSUME NEW n \in msgs', NEW s \in Proxies(t), last,
               n.type = "prepare", n.txn = t, n.site = s
        PROVE  MsgOK(n)'
    BY <1>5, <1>6, <2>3 DEF MsgOK, Carries, Votes, Ends
  <2>4. QED
    BY <1>7, <2>1, <2>2, <2>3 DEF MsgsOK
<1>15. QED
  BY <1>1, <1>8, <1>9, <1>10, <1>11, <1>12, <1>13, <1>14, SitesKept DEF IInv

\* The last positive vote makes the transaction commit at all its sites.
LEMMA PrepareReplyInv ==
  ASSUME IInv, NEW m \in msgs, PrepareReply(m)
  PROVE  IInv'
<1> DEFINE t == m.txn
           c == CommitAfter(t, m.res)
           all == prepared[t] \cup {m.site} = Proxies(t)
           decision == IF c THEN "commit" ELSE "abort"
<1>1. /\ m.type = "prepare_reply"
      /\ prepared' = [prepared EXCEPT ![t] = @ \cup {m.site}]
      /\ commit' = [commit EXCEPT ![t] = c]
      /\ phase' = IF all THEN [phase EXCEPT ![t] = decision] ELSE phase
      /\ msgs' = (msgs \ {m})
                   \cup {Request(decision, t, s) : s \in IF all THEN Proxies(t) ELSE {}}
      /\ UNCHANGED <<looping, sent, started, output, finished, n_try, tvars>>
  BY DEF PrepareReply
<1>2. /\ t \in Txn /\ m.site \in Site /\ m.res \in BOOLEAN
      /\ phase[t] = "prepare" /\ finished[t] = {}
      /\ m.site \in Proxies(t) \ prepared[t] /\ t \in txn_map[m.site]
      /\ m.res => occ[m.site][t].verified
      /\ commit[t] \in BOOLEAN /\ c \in BOOLEAN
  BY <1>1, MsgFields DEF IInv, MsgsOK, MsgOK, Votes, Phases, TypeOK, CommitAfter
<1>3. /\ \A u \in Txn : Proxies(u)' = Proxies(u)
      /\ Proxies(t) \subseteq Site
      /\ \A s \in Proxies(t) : t \in txn_map[s]
  <2>1. ASSUME NEW s \in Proxies(t)
        PROVE  s \in Site /\ t \in txn_map[s]
    <3>1. PICK q \in PiecesOf(t) : q.site = s
      BY DEF Proxies
    <3>2. QED
      BY <1>2, <3>1, PieceFields DEF IInv, Phases, OutputsOK, Collecting, Ran, PiecesOf
  <2>2. QED
    BY <1>1, <2>1 DEF Proxies
<1>4. /\ \A u \in Txn : u # t => /\ phase'[u] = phase[u] /\ commit'[u] = commit[u]
                                 /\ prepared'[u] = prepared[u]
      /\ phase'[t] = IF all THEN decision ELSE "prepare"
      /\ commit'[t] = c /\ (c => commit[t] /\ m.res)
      /\ prepared'[t] = prepared[t] \cup {m.site}
  BY <1>1, <1>2 DEF IInv, TypeOK, CommitAfter
<1>5. decision \in {"commit", "abort"} /\ (decision = "commit" <=> c)
  OBVIOUS
<1> HIDE DEF c, decision, all
<1>6. ASSUME NEW n \in msgs'
      PROVE  \/ n \in msgs /\ n # m
             \/ all /\ \E s \in Proxies(t) : /\ n \in Message /\ n = Request(decision, t, s)
                                             /\ n.type = decision /\ n.txn = t /\ n.site = s
  <2>1. CASE n \in {Request(decision, t, s) : s \in IF all THEN Proxies(t) ELSE {}}
    BY <2>1, <1>2, <1>3, <1>5, NewMsgs, SMTT(60)
  <2>2. QED
    BY <1>1, <2>1
<1>7. TypeOK'
  <2>1. msgs' \subseteq Message
    BY <1>6 DEF IInv, TypeOK
  <2>2. phase' \in [Txn -> {"new", "start", "prepare", "commit", "abort", "SUCCESS", "REJECT"}]
    BY <1>1, <1>5 DEF IInv, TypeOK
  <2>3. prepared' \in [Txn -> SUBSET Site]
    BY <1>1, <1>2 DEF IInv, TypeOK
  <2>4. commit' \in [Txn -> BOOLEAN]
    BY <1>1, <1>2 DEF IInv, TypeOK
  <2>5. QED
    BY <1>1, <2>1, <2>2, <2>3, <2>4, SitesKept DEF IInv, TypeOK
<1>8. PieceFlow'
  BY <1>1 DEF IInv, PieceFlow
<1>9. OneMsg'
  <2>1. ASSUME NEW n \in msgs', NEW k \in msgs', Carries(n), Carries(k), n.piece = k.piece
        PROVE  n = k
    BY <2>1, <1>5, <1>6 DEF IInv, OneMsg, Carries
  <2>2. ASSUME NEW n \in msgs', NEW k \in msgs', Votes(n), Votes(k), n.txn = k.txn, n.site = k.site
        PROVE  n = k
    BY <2>2, <1>5, <1>6 DEF IInv, OneMsg, Votes
  <2>3. ASSUME NEW n \in msgs', NEW k \in msgs', Ends(n), Ends(k), n.txn = k.txn, n.site = k.site
        PROVE  n = k
    <3>1. \A l \in msgs : Ends(l) => l.txn # t
      BY <1>2, MsgFields DEF IInv, MsgsOK, MsgOK, Ends
    <3>2. QED
      BY <2>3, <3>1, <1>6 DEF IInv, OneMsg
  <2>4. QED
    BY <2>1, <2>2, <2>3 DEF OneMsg
<1>10. Phases'
  <2>1. c => \A s \in prepared'[t] : t \in txn_map[s] => occ[s][t].verified
    BY <1>2, <1>4 DEF IInv, Phases
  <2>2. all => prepared'[t] = Proxies(t)
    BY <1>4 DEF all
  <2>3. PiecesOf(t) \subseteq started
    BY <1>2 DEF IInv, Phases
  <2>4. ASSUME NEW u \in Txn, u # t
        PROVE  /\ phase'[u] = phase[u] /\ commit'[u] = commit[u] /\ prepared'[u] = prepared[u]
               /\ Proxies(u)' = Proxies(u)
    BY <1>3, <1>4, <2>4
  <2>5. QED
    BY <1>1, <1>2, <1>3, <1>4, <1>5, <2>1, <2>2, <2>3, <2>4, SMTT(60) DEF IInv, Phases, tvars
<1>11. Fresh'
  BY <1>1, <1>2, <1>3, <1>4, <1>5, SMTT(60) DEF IInv, Fresh, Over, tvars
<1>12. OutputsOK'
  BY <1>1, <1>2, <1>4, <1>5, SitesKept DEF IInv, OutputsOK, Collecting
<1>13. MsgsOK'
  <2>1. ASSUME NEW n \in msgs, n # m
        PROVE  MsgOK(n)'
    <3>1. CASE Carries(n)
      <4>1. n.piece.txn \in Txn /\ n.piece.txn # t
        BY <1>2, <3>1, MsgFields, PieceFields DEF IInv, MsgsOK, MsgOK
      <4>2. n.piece \in sent \ started /\ phase[n.piece.txn] = "start"
        <5>1. MsgOK(n)
          BY DEF IInv, MsgsOK
        <5>2. QED
          BY <3>1, <5>1 DEF MsgOK
      <4>3. n.piece \in sent' \ started' /\ phase'[n.piece.txn] = "start"
        BY <1>1, <1>4, <4>1, <4>2
      <4>4. QED
        BY <1>1, <3>1, <4>3, CarriesKept
    <3>2. CASE Votes(n)
      <4>1. n.txn \in Txn /\ (n.txn = t => n.site # m.site)
        BY <1>1, <2>1, <3>2, MsgFields DEF IInv, OneMsg, Votes
      <4>2. n.txn = t => ~all
        BY <1>2, <3>2, <4>1, MsgFields, SMTT(60) DEF IInv, MsgsOK, MsgOK, all
      <4>3. QED
        BY <1>1, <1>3, <1>4, <3>2, <4>1, <4>2, SMTT(60)
           DEF IInv, MsgsOK, MsgOK, Carries, Votes, Ends, tvars
    <3>3. CASE Ends(n)
      <4>1. n.txn \in Txn /\ n.txn # t
        BY <1>2, <3>3, MsgFields DEF IInv, MsgsOK, MsgOK, Ends
      <4>2. QED
        BY <1>1, <1>3, <1>4, <3>3, <4>1, SMTT(60)
           DEF IInv, MsgsOK, MsgOK, Carries, Votes, Ends, tvars
    <3>4. QED
      BY <3>1, <3>2, <3>3, MsgFields DEF IInv, Carries, Votes, Ends
  <2>2. ASSUME NEW n \in msgs', NEW s \in Proxies(t), all,
               n.type = decision, n.txn = t, n.site = s
        PROVE  MsgOK(n)'
    <3>1. s \in Proxies(t)' /\ finished'[t] = {} /\ t \in txn_map'[s] /\ phase'[t] = decision
      BY <1>1, <1>2, <1>3, <1>4, <2>2 DEF tvars
    <3>2. QED
      BY <1>5, <2>2, <3>1 DEF MsgOK, Carries, Votes, Ends
  <2>3. QED
    BY <1>6, <2>1, <2>2 DEF MsgsOK
<1>14. QED
  BY <1>1, <1>7, <1>8, <1>9, <1>10, <1>11, <1>12, <1>13, SitesKept DEF IInv

\* An answer to commit_txn or abort_txn; with the last one nothing is left of
\* the transaction at the sites and in transit.
LEMMA FinishReplyFacts ==
  ASSUME IInv, NEW m \in msgs, m.type = "finish_reply"
  PROVE  /\ m.txn \in Txn /\ m.site \in Proxies(m.txn) \ finished[m.txn] /\ m.site \in Site
         /\ phase[m.txn] \in {"commit", "abort"} /\ (phase[m.txn] = "commit" <=> commit[m.txn])
         /\ m.txn \notin txn_map[m.site]
         /\ \A n \in msgs : Carries(n) => n.piece.txn # m.txn
         /\ \A n \in msgs : Votes(n) => n.txn # m.txn
         /\ \A n \in msgs : Ends(n) /\ n.txn = m.txn /\ n # m =>
               n.site \in Proxies(m.txn) /\ n.site \notin finished[m.txn] \cup {m.site}
         /\ finished[m.txn] \cup {m.site} = Proxies(m.txn) =>
               \A s \in Site : m.txn \notin txn_map[s] /\ occ[s][m.txn] = NewOcc
<1>1. Ends(m)
  BY DEF Ends
<1>2. /\ m.txn \in Txn /\ m.site \in Proxies(m.txn) \ finished[m.txn] /\ m.site \in Site
      /\ phase[m.txn] \in {"commit", "abort"}
      /\ m.txn \notin txn_map[m.site]
  BY <1>1, MsgFields DEF IInv, MsgsOK, MsgOK
<1>3. phase[m.txn] = "commit" <=> commit[m.txn]
  BY <1>2 DEF IInv, Phases
<1>4. \A n \in msgs : Carries(n) => n.piece.txn # m.txn
  BY <1>2 DEF IInv, MsgsOK, MsgOK
<1>5. \A n \in msgs : Votes(n) => n.txn # m.txn
  BY <1>2 DEF IInv, MsgsOK, MsgOK
<1>6. \A n \in msgs : Ends(n) /\ n.txn = m.txn /\ n # m =>
               n.site \in Proxies(m.txn) /\ n.site \notin finished[m.txn] \cup {m.site}
  BY <1>1 DEF IInv, MsgsOK, MsgOK, OneMsg
<1>7. ASSUME finished[m.txn] \cup {m.site} = Proxies(m.txn), NEW s \in Site
      PROVE  m.txn \notin txn_map[s] /\ occ[s][m.txn] = NewOcc
  BY <1>2, <1>7, SMTT(60) DEF IInv, Fresh, Phases
<1>8. QED
  BY <1>2, <1>3, <1>4, <1>5, <1>6, <1>7

\* restart: the chopper begins anew at sites that know nothing of it.
LEMMA RestartInv ==
  ASSUME IInv, NEW m \in msgs, m.type = "finish_reply",
         finished[m.txn] \cup {m.site} = Proxies(m.txn), Restart(m), UNCHANGED tvars
  PROVE  IInv'
<1> DEFINE t == m.txn
           ready == Ready(t, sent \ PiecesOf(t), started \ PiecesOf(t))
<1>1. /\ phase' = [phase EXCEPT ![t] = "start"]
      /\ sent' = (sent \ PiecesOf(t)) \cup ready
      /\ started' = started \ PiecesOf(t)
      /\ output' = [output EXCEPT ![t] = {}]
      /\ prepared' = [prepared EXCEPT ![t] = {}]
      /\ finished' = [finished EXCEPT ![t] = {}]
      /\ commit' = [commit EXCEPT ![t] = TRUE]
      /\ n_try' = IF MaxTry = 0 THEN n_try ELSE [n_try EXCEPT ![t] = @ + 1]
      /\ msgs' = (msgs \ {m}) \cup {StartMsg(q) : q \in ready}
      /\ UNCHANGED looping
  BY DEF Restart, CountTry
<1>2. /\ t \in Txn
      /\ \A n \in msgs : Carries(n) => n.piece.txn # t
      /\ \A n \in msgs : Votes(n) => n.txn # t
      /\ \A n \in msgs : Ends(n) /\ n # m => n.txn # t
      /\ \A s \in Site : t \notin txn_map[s] /\ occ[s][t] = NewOcc
  BY FinishReplyFacts
<1>3. ready \subseteq PiecesOf(t) /\ ready \subseteq Piece
  BY DEF Ready, PiecesOf
<1> HIDE DEF ready
<1>4. \A u \in Txn : u # t =>
        /\ phase'[u] = phase[u] /\ output'[u] = output[u] /\ prepared'[u] = prepared[u]
        /\ finished'[u] = finished[u] /\ commit'[u] = commit[u]
        /\ PiecesOf(u) \cap sent' = PiecesOf(u) \cap sent
        /\ PiecesOf(u) \cap started' = PiecesOf(u) \cap started
        /\ Proxies(u)' = Proxies(u)
  <2>1. \A u \in Txn : u # t => /\ PiecesOf(u) \cap sent' = PiecesOf(u) \cap sent
                                 /\ PiecesOf(u) \cap started' = PiecesOf(u) \cap started
    BY <1>1, <1>3 DEF PiecesOf
  <2>2. \A u \in Txn : u # t => Proxies(u)' = Proxies(u)
    BY <2>1 DEF Proxies
  <2>3. QED
    BY <1>1, <1>2, <2>1, <2>2 DEF IInv, TypeOK
<1>5. /\ phase'[t] = "start" /\ output'[t] = {} /\ prepared'[t] = {} /\ finished'[t] = {}
      /\ commit'[t] = TRUE /\ PiecesOf(t) \cap started' = {}
  BY <1>1, <1>2 DEF IInv, TypeOK
<1>6. ASSUME NEW n \in msgs'
      PROVE  \/ n \in msgs /\ n # m
             \/ \E q \in ready : n = StartMsg(q) /\ n \in Message /\ n.type = "start" /\ n.piece = q
  BY <1>1, <1>3, NewMsgs, SMTT(60)
<1>7. TypeOK'
  <2>1. msgs' \subseteq Message
    BY <1>6 DEF IInv, TypeOK
  <2>2. n_try' \in [Txn -> Nat]
    BY <1>1, <1>2, SMTT(60) DEF IInv, TypeOK
  <2>3. QED
    BY <1>1, <1>2, <1>3, <2>1, <2>2, SitesKept DEF IInv, TypeOK
<1>8. PieceFlow'
  BY <1>1 DEF IInv, PieceFlow
<1>9. OneMsg'
  <2>1. \A q \in ready : q.txn = t
    BY <1>3 DEF PiecesOf
  <2>2. QED
    BY <1>2, <1>6, <2>1, SMTT(60) DEF IInv, OneMsg, Carries, Votes, Ends
<1>10. Phases'
  BY <1>1, <1>2, <1>4, <1>5, NewOccFields, SMTT(60) DEF IInv, Phases, tvars
<1>11. Fresh'
  BY <1>1, <1>2, <1>4, <1>5, SMTT(60) DEF IInv, Fresh, Over, tvars
<1>12. OutputsOK'
  BY <1>1, <1>2, <1>4, <1>5, SitesKept DEF IInv, OutputsOK, Collecting
<1>13. MsgsOK'
  <2>1. ASSUME NEW n \in msgs, n # m
        PROVE  MsgOK(n)'
    <3>1. CASE Carries(n)
      <4>1. n.piece.txn \in Txn /\ n.piece.txn # t /\ n.piece \in PiecesOf(n.piece.txn)
        BY <1>2, <3>1, MsgFields, PieceFields DEF IInv
      <4>2. n.piece \in sent' \ started' /\ phase'[n.piece.txn] = "start"
        BY <1>4, <3>1, <4>1, SMTT(60) DEF IInv, MsgsOK, MsgOK
      <4>3. QED
        BY <3>1, <4>2, CarriesKept
    <3>2. CASE Votes(n) \/ Ends(n)
      <4>1. n.txn \in Txn /\ n.txn # t
        BY <1>2, <2>1, <3>2, MsgFields DEF IInv
      <4>2. QED
        BY <1>4, <3>2, <4>1, SMTT(60) DEF IInv, MsgsOK, MsgOK, Carries, Votes, Ends, tvars
    <3>3. QED
      BY <3>1, <3>2, MsgFields DEF IInv, Carries, Votes, Ends
  <2>2. ASSUME NEW n \in msgs', NEW q \in ready, n.type = "start", n.piece = q
        PROVE  MsgOK(n)'
    <3>1. q \in sent' \ started' /\ phase'[q.txn] = "start"
      BY <1>1, <1>3, <1>5 DEF PiecesOf
    <3>2. QED
      BY <2>2, <3>1 DEF MsgOK, Carries, Votes, Ends
  <2>3. QED
    BY <1>6, <2>1, <2>2 DEF MsgsOK
<1>14. QED
  BY <1>7, <1>8, <1>9, <1>10, <1>11, <1>12, <1>13, SitesKept DEF IInv

\* The answers of the sites: the transaction is over with the last one.
LEMMA FinishReplyInv ==
  ASSUME IInv, NEW m \in msgs, FinishReply(m)
  PROVE  IInv'
<1> DEFINE t == m.txn
           done == finished[t] \cup {m.site}
           all == done = Proxies(t)
<1>1. m.type = "finish_reply" /\ UNCHANGED tvars
  BY DEF FinishReply
<1>2. CASE all /\ Restart(m)
  BY <1>1, <1>2, RestartInv
<1>3. CASE /\ finished' = [finished EXCEPT ![t] = done]
           /\ phase' = IF all THEN [phase EXCEPT ![t] = IF commit[t] THEN "SUCCESS" ELSE "REJECT"]
                       ELSE phase
           /\ msgs' = msgs \ {m}
           /\ UNCHANGED <<looping, sent, started, output, prepared, commit, n_try>>
  <2>1. /\ t \in Txn /\ m.site \in Proxies(t) \ finished[t] /\ m.site \in Site
        /\ phase[t] \in {"commit", "abort"} /\ t \notin txn_map[m.site]
        /\ \A n \in msgs : Carries(n) => n.piece.txn # t
        /\ \A n \in msgs : Votes(n) => n.txn # t
        /\ \A n \in msgs : Ends(n) /\ n.txn = t /\ n # m => n.site \in Proxies(t) /\ n.site \notin done
        /\ all => \A s \in Site : t \notin txn_map[s]
    BY <1>1, FinishReplyFacts
  <2>2. /\ \A u \in Txn : u # t => phase'[u] = phase[u] /\ finished'[u] = finished[u]
        /\ finished'[t] = done
        /\ all => phase'[t] \in {"SUCCESS", "REJECT"}
        /\ ~all => phase'[t] = phase[t]
        /\ \A u \in Txn : Proxies(u)' = Proxies(u)
    BY <1>3, <2>1 DEF IInv, TypeOK, Proxies
  <2>3. TypeOK'
    <3>1. finished' \in [Txn -> SUBSET Site]
      BY <1>3, <2>1 DEF IInv, TypeOK
    <3>2. phase' \in [Txn -> {"new", "start", "prepare", "commit", "abort", "SUCCESS", "REJECT"}]
      BY <1>3 DEF IInv, TypeOK
    <3>3. QED
      BY <1>1, <1>3, <3>1, <3>2, SitesKept DEF IInv, TypeOK
  <2> HIDE DEF all
  <2>4. PieceFlow' /\ OneMsg'
    BY <1>3 DEF IInv, PieceFlow, OneMsg
  <2>5. Phases'
    <3>1. \A s \in done : t \notin txn_map[s]
      BY <2>1 DEF IInv, Phases
    <3>2. QED
      BY <1>1, <1>3, <2>1, <2>2, <3>1, SMTT(60) DEF IInv, Phases, tvars
  <2>6. Fresh'
    BY <1>1, <1>3, <2>1, <2>2, SMTT(60) DEF IInv, Fresh, Over, tvars
  <2>7. OutputsOK'
    BY <1>1, <1>3, <2>1, <2>2, SitesKept DEF IInv, OutputsOK, Collecting
  <2>8. ASSUME NEW n \in msgs, n # m
        PROVE  MsgOK(n)'
    <3>1. CASE Carries(n)
      <4>1. n.piece \in sent \ started /\ phase[n.piece.txn] = "start"
        <5>1. MsgOK(n)
          BY DEF IInv, MsgsOK
        <5>2. QED
          BY <3>1, <5>1 DEF MsgOK
      <4>2. n.piece.txn \in Txn /\ n.piece.txn # t
        BY <2>1, <3>1, MsgFields, PieceFields DEF IInv
      <4>3. n.piece \in sent' \ started' /\ phase'[n.piece.txn] = "start"
        BY <1>3, <2>2, <4>1, <4>2
      <4>4. QED
        BY <1>1, <3>1, <4>3, CarriesKept
    <3>2. CASE Votes(n)
      <4>1. n.txn \in Txn /\ n.txn # t
        BY <2>1, <3>2, MsgFields DEF IInv
      <4>2. QED
        BY <1>1, <1>3, <2>2, <3>2, <4>1, SMTT(60) DEF IInv, MsgsOK, MsgOK, Carries, Votes, Ends, tvars
    <3>3. CASE Ends(n)
      <4>1. n.txn \in Txn /\ (n.txn = t => n.site \in Proxies(t) \ done)
        BY <2>1, <2>8, <3>3, MsgFields DEF IInv
      <4>2. n.txn = t => ~all
        BY <4>1 DEF all
      <4>3. QED
        BY <1>1, <1>3, <2>2, <3>3, <4>1, <4>2, SMTT(60)
           DEF IInv, MsgsOK, MsgOK, Carries, Votes, Ends, tvars
    <3>4. QED
      BY <3>1, <3>2, <3>3, MsgFields DEF IInv, Carries, Votes, Ends
  <2>9. QED
    BY <1>1, <1>3, <2>3, <2>4, <2>5, <2>6, <2>7, <2>8, SitesKept DEF IInv, MsgsOK
<1>4. QED
  BY <1>2, <1>3 DEF FinishReply

-----------------------------------------------------------------------------
(* Steps of the sites *)

\* A step of site s for transaction t that leaves the coordinators alone and
\* does not forget what other transactions have read: what is said of the
\* coordinators and of other messages stays true.
LeavesOthers(s, t) ==
  /\ UNCHANGED cvars /\ s \in Site /\ t \in Txn
  /\ \A u \in Txn, r \in Site : r # s \/ u # t =>
        (u \in txn_map'[r] <=> u \in txn_map[r]) /\ occ'[r][u].verified = occ[r][u].verified
  /\ \A u \in Txn : \A e : Collecting(u) /\ ReadOK(u, e) => ReadOK(u, e)'
  /\ \A p \in Piece : \A out : Collecting(p.txn) /\ Ran(p, out) => Ran(p, out)'

\* A step at site s for t that leaves the coordinators and the other messages
\* alone keeps what is said of them.
LEMMA CoordKept ==
  ASSUME IInv, NEW s, NEW t, LeavesOthers(s, t)
  PROVE  /\ PieceFlow' /\ OutputsOK' /\ \A u \in Txn : Proxies(u)' = Proxies(u)
         /\ \A n \in msgs : Carries(n) => MsgOK(n)'
         /\ \A n \in msgs : ~Carries(n) /\ (n.site # s \/ n.txn # t) => MsgOK(n)'
<1> SUFFICES ASSUME UNCHANGED cvars, s \in Site, t \in Txn,
                    \A u \in Txn, r \in Site : r # s \/ u # t =>
                       /\ u \in txn_map'[r] <=> u \in txn_map[r]
                       /\ occ'[r][u].verified = occ[r][u].verified,
                    \A u \in Txn : \A e : Collecting(u) /\ ReadOK(u, e) => ReadOK(u, e)',
                    \A p \in Piece : \A out : Collecting(p.txn) /\ Ran(p, out) => Ran(p, out)'
             PROVE  /\ PieceFlow' /\ OutputsOK' /\ \A u \in Txn : Proxies(u)' = Proxies(u)
                    /\ \A n \in msgs : Carries(n) => MsgOK(n)'
                    /\ \A n \in msgs : ~Carries(n) /\ (n.site # s \/ n.txn # t) => MsgOK(n)'
  BY DEF LeavesOthers
<1>1. PieceFlow' /\ \A u \in Txn : Proxies(u)' = Proxies(u)
  BY DEF IInv, PieceFlow, cvars, Proxies
<1>2. OutputsOK'
  BY DEF IInv, OutputsOK, Collecting, cvars, PiecesOf, Reads
<1>3. ASSUME NEW n \in msgs, Carries(n)
      PROVE  MsgOK(n)'
  <2>1. n.piece \in Piece /\ n.piece.txn \in Txn
    BY <1>3, MsgFields, PieceFields DEF IInv
  <2>2. n.piece \in sent' \ started' /\ phase'[n.piece.txn] = "start" /\ Collecting(n.piece.txn)
    BY <1>3 DEF IInv, MsgsOK, MsgOK, cvars, Collecting
  <2>3. n.type = "start_reply" =>
          /\ \A e \in n.output : e[1] \in Reads[n.piece.txn] /\ ReadOK(n.piece.txn, e)'
          /\ Ran(n.piece, n.output)'
    BY <2>1, <2>2 DEF IInv, MsgsOK, MsgOK
  <2>4. QED
    BY <1>3, <2>2, <2>3 DEF MsgOK, Carries, Votes, Ends, Reads
<1>4. ASSUME NEW n \in msgs, ~Carries(n), n.site # s \/ n.txn # t
      PROVE  MsgOK(n)'
  <2>1. n.txn \in Txn /\ n.site \in Site
    BY <1>4, MsgFields DEF IInv, Carries, Votes, Ends
  <2>2. /\ n.txn \in txn_map'[n.site] <=> n.txn \in txn_map[n.site]
        /\ occ'[n.site][n.txn].verified = occ[n.site][n.txn].verified
        /\ Proxies(n.txn)' = Proxies(n.txn)
    BY <1>1, <1>4, <2>1
  <2>3. QED
    BY <1>4, <2>2 DEF IInv, MsgsOK, MsgOK, Carries, cvars
<1>5. QED
  BY <1>1, <1>2, <1>3, <1>4

\* The fields of TxnOCC after a piece has run.
LEMMA ExecuteFacts ==
  ASSUME IInv, NEW p \in Piece, Execute(p.site, p)
  PROVE  /\ OccTypeOK' /\ UNCHANGED <<val, ver, lock>>
         /\ txn_map' = [txn_map EXCEPT ![p.site] = @ \cup {p.txn}]
         /\ \A s \in Site, t \in Txn : s # p.site \/ t # p.txn => occ'[s][t] = occ[s][t]
         /\ occ'[p.site][p.txn].rver = Note(occ[p.site][p.txn].rver, p.reads \ Staged(occ[p.site][p.txn]))
         /\ occ'[p.site][p.txn].wver = Note(occ[p.site][p.txn].wver, p.writes)
         /\ occ'[p.site][p.txn].locks = occ[p.site][p.txn].locks
         /\ occ'[p.site][p.txn].verified = occ[p.site][p.txn].verified
<1> DEFINE s == p.site
           t == p.txn
           o == occ[s][t]
           rv == Note(o.rver, p.reads \ Staged(o))
           wv == Note(o.wver, p.writes)
           n == [o EXCEPT !.rver = rv, !.wver = wv]
<1>1. /\ s \in Site /\ t \in Txn /\ OccTypeOK /\ o \in Occ
      /\ txn_map' = [txn_map EXCEPT ![s] = @ \cup {t}]
      /\ occ' = [occ EXCEPT ![s] = [occ[s] EXCEPT ![t] = n]]
      /\ UNCHANGED <<val, ver, lock>>
  BY PieceFields DEF IInv, TypeOK, OccTypeOK, Execute
<1>2. rv \in [Cell -> Version] /\ wv \in [Cell -> Version]
  BY <1>1, NoteType DEF OccTypeOK, Occ
<1>3. n \in Occ /\ n.rver = rv /\ n.wver = wv /\ n.locks = o.locks /\ n.verified = o.verified
  <2> HIDE DEF rv, wv, o
  <2>1. QED
    BY <1>1, <1>2 DEF Occ
<1> HIDE DEF n, rv, wv
<1>4. occ'[s][t] = n /\ \A r \in Site, u \in Txn : r # s \/ u # t => occ'[r][u] = occ[r][u]
  BY <1>1 DEF OccTypeOK
<1>5. occ' \in [Site -> [Txn -> Occ]] /\ txn_map' \in [Site -> SUBSET Txn]
  BY <1>1, <1>3 DEF OccTypeOK
<1>6. QED
  BY <1>1, <1>3, <1>4, <1>5 DEF OccTypeOK, rv, wv

\* A version once noted is kept; a cell that is used has one.
LEMMA NoteFacts ==
  ASSUME ver \in [Cell -> Nat], NEW f \in [Cell -> Version], NEW C \in SUBSET Cell, NEW c \in Cell
  PROVE  /\ f[c] # Absent => Note(f, C)[c] = f[c]
         /\ f[c] = Absent /\ c \in C => Note(f, C)[c] = ver[c]
         /\ f[c] = Absent /\ c \notin C => Note(f, C)[c] = Absent
         /\ c \in C => Note(f, C)[c] # Absent
BY SMTT(60) DEF Note, Version, Absent

\* start_pie: a piece runs at its site.
LEMMA StartPieInv ==
  ASSUME IInv, NEW m \in msgs, StartPie(m)
  PROVE  IInv'
<1> SUFFICES ASSUME NEW p, NEW s, NEW t, m.piece = p, p.site = s, p.txn = t,
                    NEW out, out = Output(s, p),
                    NEW k, k = [type |-> "start_reply", piece |-> p, output |-> out]
             PROVE  IInv'
  OBVIOUS
<1>1. /\ m.type = "start" /\ Execute(s, p) /\ UNCHANGED cvars
      /\ msgs' = (msgs \ {m}) \cup {k}
  BY DEF StartPie
<1>2. /\ p \in Piece /\ s \in Site /\ t \in Txn /\ p \in sent \ started
      /\ phase[t] = "start" /\ ~occ[s][t].verified
      /\ p.reads \subseteq Cell /\ p.writes \subseteq Cell /\ p \in PiecesOf(t)
      /\ ver \in [Cell -> Nat] /\ occ[s][t] \in Occ
  BY <1>1, MsgFields, PieceFields, SMTT(60)
     DEF IInv, TypeOK, OccTypeOK, MsgsOK, MsgOK, Carries, Phases
<1>3. /\ OccTypeOK' /\ UNCHANGED <<val, ver, lock>>
      /\ txn_map' = [txn_map EXCEPT ![s] = @ \cup {t}]
      /\ \A r \in Site, u \in Txn : r # s \/ u # t => occ'[r][u] = occ[r][u]
      /\ \A r \in Site, u \in Txn : /\ occ'[r][u].locks = occ[r][u].locks
                                    /\ occ'[r][u].verified = occ[r][u].verified
  <2>1. /\ OccTypeOK' /\ UNCHANGED <<val, ver, lock>>
        /\ txn_map' = [txn_map EXCEPT ![s] = @ \cup {t}]
        /\ \A r \in Site, u \in Txn : r # s \/ u # t => occ'[r][u] = occ[r][u]
    BY <1>1, <1>2, ExecuteFacts
  <2>2. occ'[s][t].locks = occ[s][t].locks /\ occ'[s][t].verified = occ[s][t].verified
    BY <1>1, <1>2, ExecuteFacts
  <2>3. QED
    BY <2>1, <2>2
<1>4. \A c \in Cell :
        /\ occ[s][t].rver[c] # Absent => occ'[s][t].rver[c] = occ[s][t].rver[c]
        /\ occ[s][t].wver[c] # Absent => occ'[s][t].wver[c] = occ[s][t].wver[c]
        /\ occ[s][t].rver[c] = Absent /\ occ'[s][t].rver[c] # Absent =>
             c \in p.reads /\ occ'[s][t].rver[c] = ver[c]
        /\ occ[s][t].wver[c] = Absent /\ occ'[s][t].wver[c] # Absent => c \in p.writes
        /\ c \in p.reads /\ occ[s][t].wver[c] = Absent => occ'[s][t].rver[c] # Absent
        /\ c \in p.writes => occ'[s][t].wver[c] # Absent
  <2>1. /\ p.reads \ Staged(occ[s][t]) \in SUBSET Cell /\ p.writes \in SUBSET Cell
        /\ occ[s][t].rver \in [Cell -> Version] /\ occ[s][t].wver \in [Cell -> Version]
    BY <1>2 DEF Occ
  <2>2. \A c \in Cell : c \in Staged(occ[s][t]) <=> occ[s][t].wver[c] # Absent
    BY DEF Staged
  <2>3. /\ occ'[s][t].rver = Note(occ[s][t].rver, p.reads \ Staged(occ[s][t]))
        /\ occ'[s][t].wver = Note(occ[s][t].wver, p.writes)
    BY <1>1, <1>2, ExecuteFacts
  <2>4. QED
    BY <1>2, <2>1, <2>2, <2>3, NoteFacts, SMTT(60)
<1>5. /\ txn_map \in [Site -> SUBSET Txn]
      /\ \A r \in Site : txn_map[r] \subseteq txn_map'[r]
      /\ \A u \in Txn, r \in Site : r # s \/ u # t =>
            (u \in txn_map'[r] <=> u \in txn_map[r])
      /\ t \in txn_map'[s]
  BY <1>2, <1>3 DEF IInv, TypeOK, OccTypeOK
<1>6. \A u \in Txn : \A e : ReadOK(u, e) => ReadOK(u, e)'
  <2>1. ASSUME NEW u \in Txn, NEW e, NEW q \in PiecesOf(u), e[1] \in q.reads,
               occ[q.site][u].rver[e[1]] # Absent
        PROVE  occ'[q.site][u].rver[e[1]] = occ[q.site][u].rver[e[1]]
    <3>1. q \in Piece /\ q.site \in Site /\ e[1] \in Cell
      BY <2>1, PieceFields DEF PiecesOf
    <3>2. CASE q.site = s /\ u = t
      BY <1>4, <2>1, <3>1, <3>2
    <3>3. CASE q.site # s \/ u # t
      BY <1>3, <3>1, <3>3
    <3>4. QED
      BY <3>2, <3>3
  <2>2. QED
    <3>1. UNCHANGED <<val, ver>>
      BY <1>3
    <3>2. QED
      BY <2>1, <3>1 DEF ReadOK, Writes
<1>7. \A q \in Piece : \A o : Ran(q, o) => Ran(q, o)'
  <2>1. ASSUME NEW q \in Piece, NEW c \in q.writes, occ[q.site][q.txn].wver[c] # Absent
        PROVE  occ'[q.site][q.txn].wver[c] # Absent
    BY <1>3, <1>4, <2>1, PieceFields
  <2>2. QED
    BY <1>5, <2>1, PieceFields DEF Ran
<1>8. /\ PieceFlow' /\ OutputsOK' /\ \A u \in Txn : Proxies(u)' = Proxies(u)
      /\ \A n \in msgs : Carries(n) => MsgOK(n)'
      /\ \A n \in msgs : ~Carries(n) /\ (n.site # s \/ n.txn # t) => MsgOK(n)'
  <2>1. LeavesOthers(s, t)
    BY <1>1, <1>2, <1>3, <1>5, <1>6, <1>7 DEF LeavesOthers
  <2>2. QED
    BY <2>1, CoordKept
<1>9. TypeOK'
  <2>1. msgs' \subseteq Message
    BY <1>1, <1>2, NewMsgs, OutputType, SMTT(60) DEF IInv, TypeOK
  <2>2. QED
    BY <1>1, <1>3, <2>1 DEF IInv, TypeOK, cvars
<1>10. Phases' /\ Fresh'
  <2>1. s \in Proxies(t)
    BY <1>2 DEF Proxies
  <2>2. Fresh'
    BY <1>1, <1>2, <1>3, <1>5, <1>8, <2>1, SMTT(60) DEF IInv, Fresh, Over, cvars
  <2>3. Phases'
    <3>1. \A r \in Site, u \in Txn : occ'[r][u].verified = occ[r][u].verified
      BY <1>3
    <3>2. \A u \in Txn : phase[u] # "start" =>
            \A r \in Site : u \in txn_map'[r] <=> u \in txn_map[r]
      BY <1>2, <1>5
    <3>3. \A u \in Txn : prepared[u] \subseteq Site /\ finished[u] \subseteq Site
      BY DEF IInv, TypeOK
    <3>4. QED
      BY <1>1, <1>8, <3>1, <3>2, <3>3, SMTT(60) DEF IInv, Phases, cvars
  <2>4. QED
    BY <2>2, <2>3
<1>11. Accesses'
  <2>1. ASSUME NEW r \in Site, NEW u \in Txn, NEW c \in Cell
        PROVE  /\ occ'[r][u].rver[c] # Absent =>
                    /\ occ'[r][u].rver[c] <= ver[c]
                    /\ \E q \in PiecesOf(u) : q.site = r /\ c \in q.reads
               /\ occ'[r][u].wver[c] # Absent =>
                    \E q \in PiecesOf(u) : q.site = r /\ c \in q.writes
    <3>1. CASE r = s /\ u = t
      BY <1>2, <1>4, <3>1, SMTT(60) DEF IInv, Accesses
    <3>2. CASE r # s \/ u # t
      BY <1>3, <3>2, SMTT(60) DEF IInv, Accesses
    <3>3. QED
      BY <3>1, <3>2
  <2>2. QED
    BY <1>3, <2>1 DEF Accesses
<1>12. LocksOwned' /\ Held' /\ PreparedCurrent'
  <2>1. LocksOwned'
    BY <1>2, <1>3, <1>5, SMTT(60) DEF IInv, LocksOwned
  <2>2. Held'
    <3>1. lock' = lock /\ \A r \in Site, u \in Txn : occ'[r][u].verified => occ'[r][u] = occ[r][u]
      BY <1>2, <1>3
    <3>2. ASSUME NEW r \in Site, NEW u \in Txn, occ'[r][u].verified, NEW c \in Cell
          PROVE  /\ occ'[r][u].rver[c] # Absent => lock'[c.row].w = u \/ u \in lock'[c.row].r
                 /\ occ'[r][u].wver[c] # Absent => lock'[c.row].w = u
      <4>1. occ'[r][u] = occ[r][u] /\ occ[r][u].verified
        BY <3>1, <3>2
      <4>2. /\ occ[r][u].rver[c] # Absent => lock[c.row].w = u \/ u \in lock[c.row].r
            /\ occ[r][u].wver[c] # Absent => lock[c.row].w = u
        BY <4>1 DEF IInv, Held
      <4>3. QED
        BY <3>1, <4>1, <4>2
    <3>3. QED
      BY <3>2 DEF Held
  <2>3. PreparedCurrent'
    <3>1. ver' = ver /\ \A r \in Site, u \in Txn : occ'[r][u].verified => occ'[r][u] = occ[r][u]
      BY <1>2, <1>3
    <3>2. QED
      BY <3>1 DEF IInv, PreparedCurrent, VersionCheck
  <2>4. QED
    BY <2>1, <2>2, <2>3
<1>13. LocksNoted'
  <2>1. ASSUME NEW r \in Site, NEW u \in Txn, NEW l \in occ'[r][u].locks
        PROVE  \E c \in Cell : c.row = l /\ (occ'[r][u].rver[c] # Absent \/ occ'[r][u].wver[c] # Absent)
    <3>1. l \in occ[r][u].locks
      BY <1>3
    <3>2. PICK c \in Cell : c.row = l /\ (occ[r][u].rver[c] # Absent \/ occ[r][u].wver[c] # Absent)
      BY <3>1 DEF IInv, LocksNoted
    <3>3. CASE r = s /\ u = t
      <4>1. occ[s][t].rver[c] # Absent \/ occ[s][t].wver[c] # Absent
        BY <3>2, <3>3
      <4>2. occ'[s][t].rver[c] # Absent \/ occ'[s][t].wver[c] # Absent
        BY <1>4, <4>1
      <4>3. QED
        BY <3>2, <3>3, <4>2
    <3>4. CASE r # s \/ u # t
      <4>1. occ'[r][u] = occ[r][u]
        BY <1>3, <3>4
      <4>2. QED
        BY <3>2, <4>1
    <3>5. QED
      BY <3>3, <3>4
  <2>2. QED
    BY <2>1 DEF LocksNoted
<1>14. k.type = "start_reply" /\ k.piece = p /\ k.output = out /\ Carries(k)
  BY <1>1 DEF Carries
<1>15. ASSUME NEW e \in out
       PROVE  e[1] \in Reads[t] /\ ReadOK(t, e)'
  <2>1. PICK c \in p.reads : e = <<c, IF c \in Staged(occ[s][t]) THEN t ELSE val[c]>>
    BY DEF Output
  <2>2. /\ c \in Cell /\ e[1] = c /\ e[1] \in Reads[t]
        /\ e[2] = IF c \in Staged(occ[s][t]) THEN t ELSE val[c]
    BY <1>2, <2>1 DEF Reads
  <2>3. CASE c \in Staged(occ[s][t])
    <3>1. c \in Writes[t]
      BY <1>2, <2>2, <2>3, SMTT(60) DEF IInv, Accesses, Staged, Writes
    <3>2. QED
      BY <2>2, <2>3, <3>1 DEF ReadOK, Writes
  <2>4. CASE c \notin Staged(occ[s][t])
    BY <1>2, <1>3, <1>4, <2>2, <2>4 DEF ReadOK, Staged
  <2>5. QED
    BY <2>2, <2>3, <2>4
<1>16. Ran(p, out)'
  <2>1. \A c \in p.reads : \E v \in Txn \cup {NoTxn} : <<c, v>> \in out
    BY <1>1, <1>2, SMTT(60) DEF IInv, TypeOK, OccTypeOK, Output
  <2>2. QED
    BY <1>1, <1>2, <1>4, <1>5, <2>1 DEF Ran
<1>17. OneMsg'
  BY <1>1, <1>14, SMTT(60) DEF IInv, OneMsg, Carries, Votes, Ends
<1>18. MsgsOK'
  <2>1. ASSUME NEW n \in msgs, n # m
        PROVE  MsgOK(n)'
    BY <1>2, <1>8, MsgFields DEF IInv, MsgsOK, MsgOK, Carries, Votes, Ends
  <2>2. ASSUME NEW n, n = k
        PROVE  MsgOK(n)'
    BY <1>1, <1>2, <1>14, <1>15, <1>16, <2>2
       DEF MsgOK, Carries, Votes, Ends, cvars, Reads
  <2>3. QED
    BY <1>1, <2>1, <2>2 DEF MsgsOK
<1>19. QED
  BY <1>8, <1>9, <1>10, <1>11, <1>12, <1>13, <1>17, <1>18 DEF IInv

\* The rows after commit_prepare has locked those the transaction uses: other
\* transactions keep their locks.
LEMMA LockFacts ==
  ASSUME IInv, NEW s \in Site, NEW t \in Txn, CanPrepare(occ[s][t], t),
         lock' = Locked(occ[s][t], t), NEW r \in Row
  PROVE  /\ lock'[r] \in Lock
         /\ lock'[r].w # NoTxn => lock'[r].r = {}
         /\ \A u \in Txn : u # t =>
              /\ lock'[r].w = u <=> lock[r].w = u
              /\ u \in lock'[r].r <=> u \in lock[r].r
         /\ lock[r].w = t => lock'[r].w = t
         /\ t \in lock[r].r => lock'[r].w = t \/ t \in lock'[r].r
         /\ r \in ReadRows(occ[s][t]) => lock'[r].w = t \/ t \in lock'[r].r
         /\ r \in WriteRows(occ[s][t]) => lock'[r].w = t
         /\ r \notin ReadRows(occ[s][t]) \cup WriteRows(occ[s][t]) => lock'[r] = lock[r]
<1> DEFINE l == lock[r]
           R == ReadRows(occ[s][t])
           W == WriteRows(occ[s][t])
           a == AfterRead(occ[s][t], t, r)
<1>1. /\ l \in Lock /\ l.w \in Txn \cup {NoTxn} /\ l.r \subseteq Txn
      /\ l.w # NoTxn => l.r = {}
      /\ r \in R => l.w \in {NoTxn, t}
      /\ r \in W => a.w = t \/ (a.w = NoTxn /\ a.r \subseteq {t})
      /\ lock'[r] = IF r \in W THEN [w |-> t, r |-> {}] ELSE a
  BY DEF IInv, TypeOK, OccTypeOK, Lock, LocksOwned, CanPrepare, CanLock, CanRLock, CanWLock,
         Locked, WLockBy
<1>2. /\ a.w = l.w
      /\ a.r = IF r \in R /\ l.w = NoTxn THEN l.r \cup {t} ELSE l.r
      /\ a \in Lock /\ (r \notin R => a = l)
  BY <1>1 DEF AfterRead, RLockBy, Lock
<1> HIDE DEF l, R, W, a
<1>3. CASE r \in W
  <2>1. lock'[r].w = t /\ lock'[r].r = {} /\ lock'[r] \in Lock
    BY <1>1, <1>3, SMTT(60) DEF Lock
  <2>2. \A u \in Txn : u # t => l.w # u /\ u \notin l.r
    BY <1>1, <1>2, <1>3, NoOwnerAssumption, SMTT(60)
  <2>3. QED
    BY <1>3, <2>1, <2>2, NoOwnerAssumption DEF l, W, R
<1>4. CASE r \notin W
  <2>1. lock'[r] = a
    BY <1>1, <1>4
  <2>2. QED
    BY <1>1, <1>2, <1>4, <2>1, NoOwnerAssumption DEF l, W, R
<1>5. QED
  BY <1>3, <1>4

\* A transaction that is prepared has the versions and locks it needs, and
\* takes none from the others.
LEMMA PreparedFacts ==
  ASSUME IInv, NEW s \in Site, NEW t \in Txn, CanPrepare(occ[s][t], t),
         CommitPrepare(s, t), ~occ[s][t].verified
  PROVE  /\ OccTypeOK' /\ UNCHANGED <<txn_map, val, ver>>
         /\ \A r \in Site, u \in Txn : r # s \/ u # t => occ'[r][u] = occ[r][u]
         /\ \A r \in Site, u \in Txn : occ'[r][u].rver = occ[r][u].rver
                                        /\ occ'[r][u].wver = occ[r][u].wver
         /\ occ'[s][t].verified
         /\ occ'[s][t].locks = ReadRows(occ[s][t]) \cup WriteRows(occ[s][t])
         /\ LocksOwned' /\ Held' /\ LocksNoted' /\ PreparedCurrent'
<1> DEFINE o == occ[s][t]
           R == ReadRows(o)
           W == WriteRows(o)
           n == [o EXCEPT !.verified = TRUE, !.locks = R \cup W]
<1>1. /\ lock' = Locked(o, t) /\ UNCHANGED <<txn_map, val, ver>>
      /\ occ' = [occ EXCEPT ![s] = [occ[s] EXCEPT ![t] = n]]
      /\ OccTypeOK /\ o \in Occ /\ R \cup W \subseteq Row
  BY CellAssumption, SMTT(60) DEF CommitPrepare, IInv, TypeOK, OccTypeOK, ReadRows, WriteRows, Staged
<1>2. n \in Occ /\ n.rver = o.rver /\ n.wver = o.wver /\ n.verified /\ n.locks = R \cup W
  <2> HIDE DEF R, W, o
  <2>1. QED
    BY <1>1 DEF Occ
<1> HIDE DEF n
<1>3. occ'[s][t] = n /\ \A r \in Site, u \in Txn : r # s \/ u # t => occ'[r][u] = occ[r][u]
  BY <1>1 DEF OccTypeOK
<1>4. OccTypeOK'
  <2>1. occ' \in [Site -> [Txn -> Occ]]
    BY <1>1, <1>2 DEF OccTypeOK
  <2>2. lock' \in [Row -> Lock]
    <3>1. \A r \in Row : lock'[r] \in Lock
      BY <1>1, LockFacts
    <3>2. QED
      BY <1>1, <3>1 DEF Locked
  <2>3. QED
    BY <1>1, <2>1, <2>2 DEF OccTypeOK
<1>5. \A r \in Site, u \in Txn : occ'[r][u].rver = occ[r][u].rver
                                /\ occ'[r][u].wver = occ[r][u].wver
  BY <1>2, <1>3
<1>6. LocksOwned'
  <2>1. ASSUME NEW r \in Row
        PROVE  lock'[r].w # NoTxn => lock'[r].r = {}
    BY <1>1, LockFacts
  <2>2. ASSUME NEW r \in Row, NEW u \in Txn, u = lock'[r].w \/ u \in lock'[r].r
        PROVE  \E q \in Site : u \in txn_map[q] /\ occ'[q][u].verified /\ r \in occ'[q][u].locks
    <3>1. CASE u = lock[r].w \/ u \in lock[r].r
      <4>1. PICK q \in Site : u \in txn_map[q] /\ occ[q][u].verified /\ r \in occ[q][u].locks
        BY <3>1 DEF IInv, LocksOwned
      <4>2. QED
        BY <1>3, <4>1
    <3>2. CASE ~(u = lock[r].w \/ u \in lock[r].r)
      <4>1. u = t
        BY <1>1, <2>2, <3>2, LockFacts, SMTT(60)
      <4>2. r \in R \cup W
        BY <1>1, <2>2, <3>2, LockFacts
      <4>3. t \in txn_map[s]
        BY <4>2, NewOccFields DEF IInv, Fresh, ReadRows, WriteRows, Staged
      <4>4. QED
        BY <1>2, <1>3, <4>1, <4>2, <4>3
    <3>3. QED
      BY <3>1, <3>2
  <2>3. QED
    BY <1>1, <2>1, <2>2 DEF LocksOwned
<1>7. Held'
  <2>1. ASSUME NEW q \in Site, NEW u \in Txn, occ'[q][u].verified, NEW c \in Cell
        PROVE  /\ occ'[q][u].rver[c] # Absent => lock'[c.row].w = u \/ u \in lock'[c.row].r
               /\ occ'[q][u].wver[c] # Absent => lock'[c.row].w = u
    <3>1. c.row \in Row
      BY CellAssumption
    <3>2. CASE q = s /\ u = t
      <4>1. /\ occ'[q][u].rver[c] # Absent => c.row \in R
            /\ occ'[q][u].wver[c] # Absent => c.row \in W
        BY <1>2, <1>3, <3>2 DEF ReadRows, WriteRows, Staged
      <4>2. QED
        BY <1>1, <3>1, <3>2, <4>1, LockFacts, SMTT(60)
    <3>3. CASE q # s \/ u # t
      <4>1. /\ occ'[q][u].rver[c] # Absent => lock[c.row].w = u \/ u \in lock[c.row].r
            /\ occ'[q][u].wver[c] # Absent => lock[c.row].w = u
        BY <1>3, <2>1, <3>3, SMTT(60) DEF IInv, Held
      <4>2. QED
        BY <1>1, <3>1, <4>1, LockFacts, SMTT(60)
    <3>4. QED
      BY <3>2, <3>3
  <2>2. QED
    BY <2>1 DEF Held
<1>8. LocksNoted'
  <2>1. \A r \in R \cup W : \E c \in Cell : c.row = r /\ (o.rver[c] # Absent \/ o.wver[c] # Absent)
    BY DEF ReadRows, WriteRows, Staged
  <2>2. QED
    BY <1>2, <1>3, <2>1, SMTT(60) DEF IInv, LocksNoted
<1>9. PreparedCurrent'
  BY <1>1, <1>3, <1>5, SMTT(60) DEF IInv, PreparedCurrent, CanPrepare, VersionCheck
<1>10. QED
  BY <1>1, <1>2, <1>3, <1>4, <1>5, <1>6, <1>7, <1>8, <1>9

\* prepare_txn: the site votes.
LEMMA PrepareTxnInv ==
  ASSUME IInv, NEW m \in msgs, PrepareTxn(m)
  PROVE  IInv'
<1> SUFFICES ASSUME NEW s, NEW t, m.site = s, m.txn = t, NEW b, b = CanPrepare(occ[s][t], t),
                    NEW k, k = [type |-> "prepare_reply", txn |-> t, site |-> s, res |-> b]
             PROVE  IInv'
  OBVIOUS
<1>1. /\ m.type = "prepare" /\ CommitPrepare(s, t) /\ UNCHANGED cvars
      /\ msgs' = (msgs \ {m}) \cup {k}
  BY DEF PrepareTxn
<1>2. /\ s \in Site /\ t \in Txn /\ phase[t] = "prepare" /\ t \in txn_map[s]
      /\ s \in Proxies(t) \ prepared[t] /\ ~occ[s][t].verified /\ b \in BOOLEAN
  BY <1>1, MsgFields DEF IInv, MsgsOK, MsgOK, Votes, CanPrepare, VersionCheck, CanLock
<1>3. /\ OccTypeOK' /\ UNCHANGED <<txn_map, val, ver>>
      /\ \A r \in Site, u \in Txn : r # s \/ u # t => occ'[r][u] = occ[r][u]
      /\ \A r \in Site, u \in Txn : occ'[r][u].rver = occ[r][u].rver
                                    /\ occ'[r][u].wver = occ[r][u].wver
      /\ b => occ'[s][t].verified
      /\ LocksOwned' /\ Held' /\ LocksNoted' /\ PreparedCurrent'
  <2>1. CASE b
    <3>1. CanPrepare(occ[s][t], t)
      BY <2>1
    <3>2. QED
      BY <1>1, <1>2, <3>1, PreparedFacts, SMTT(60)
  <2>2. CASE ~b
    <3>1. UNCHANGED tvars
      BY <1>1, <2>2 DEF CommitPrepare, tvars
    <3>2. QED
      BY <2>2, <3>1, SitesKept DEF tvars
  <2>3. QED
    BY <1>2, <2>1, <2>2
<1>4. \A u \in Txn : \A e : ReadOK(u, e) => ReadOK(u, e)'
  <2>1. \A q \in Piece, u \in Txn : occ'[q.site][u].rver = occ[q.site][u].rver
    BY <1>3, PieceFields
  <2>2. UNCHANGED <<val, ver>>
    BY <1>3
  <2>3. QED
    BY <2>1, <2>2 DEF ReadOK, PiecesOf
<1>5. \A q \in Piece : \A o : Ran(q, o) => Ran(q, o)'
  BY <1>3, PieceFields DEF Ran
<1>6. /\ PieceFlow' /\ OutputsOK' /\ \A u \in Txn : Proxies(u)' = Proxies(u)
      /\ \A n \in msgs : Carries(n) => MsgOK(n)'
      /\ \A n \in msgs : ~Carries(n) /\ (n.site # s \/ n.txn # t) => MsgOK(n)'
  <2>1. \A u \in Txn, r \in Site : r # s \/ u # t =>
            (u \in txn_map'[r] <=> u \in txn_map[r]) /\ occ'[r][u].verified = occ[r][u].verified
    BY <1>3
  <2>2. LeavesOthers(s, t)
    BY <1>1, <1>2, <1>4, <1>5, <2>1 DEF LeavesOthers
  <2>3. QED
    BY <2>2, CoordKept
<1>7. TypeOK'
  <2>1. msgs' \subseteq Message
    BY <1>1, <1>2, NewMsgs, SMTT(60) DEF IInv, TypeOK
  <2>2. QED
    BY <1>1, <1>3, <2>1 DEF IInv, TypeOK, cvars
<1>8. Phases'
  <2>1. \A u \in Txn, r \in Site : u # t \/ r \in prepared[t] => occ'[r][u] = occ[r][u]
    BY <1>2, <1>3
  <2>2. \A u \in Txn : prepared[u] \subseteq Site
    BY DEF IInv, TypeOK
  <2>3. ASSUME NEW u \in Txn, NEW r \in Site
        PROVE  /\ phase[u] \in {"new", "start"} /\ ~occ[r][u].verified => ~occ'[r][u].verified
               /\ r \in prepared[u] /\ u \in txn_map'[r] =>
                    u \in txn_map[r] /\ (occ[r][u].verified => occ'[r][u].verified)
               /\ r \in finished[u] /\ u \notin txn_map[r] => u \notin txn_map'[r]
    BY <1>2, <1>3, <2>1
  <2>4. \A u \in Txn : finished[u] \subseteq Site
    BY DEF IInv, TypeOK
  <2>5. PhasesLeft
    BY <1>1, <1>6, <2>2, <2>3, <2>4 DEF PhasesLeft
  <2>6. QED
    BY <2>5, PhasesKept DEF IInv
<1>9. Fresh'
  BY <1>1, <1>2, <1>3, <1>6, SMTT(60) DEF IInv, Fresh, cvars
<1>10. Accesses'
  BY <1>3, SMTT(60) DEF IInv, Accesses
<1>11. k.type = "prepare_reply" /\ k.txn = t /\ k.site = s /\ k.res = b /\ Votes(k)
  BY DEF Votes
<1>12. \A n \in msgs : Votes(n) /\ n.txn = t /\ n.site = s => n = m
  BY <1>1 DEF IInv, OneMsg, Votes
<1>13. OneMsg'
  BY <1>1, <1>11, <1>12, SMTT(60) DEF IInv, OneMsg, Carries, Votes, Ends
<1>14. MsgsOK'
  <2>1. ASSUME NEW n \in msgs, n # m
        PROVE  MsgOK(n)'
    <3>1. ~Carries(n) => Votes(n) \/ Ends(n)
      BY MsgFields DEF IInv, Carries, Votes, Ends
    <3>2. Ends(n) => n.txn # t
      BY <1>2 DEF IInv, MsgsOK, MsgOK, Ends
    <3>3. QED
      BY <1>6, <1>12, <2>1, <3>1, <3>2
  <2>2. MsgOK(k)'
    <3>1. s \in Proxies(t)' \ prepared'[t] /\ phase'[t] = "prepare" /\ t \in txn_map'[s]
      BY <1>1, <1>2, <1>3, <1>6 DEF cvars
    <3>2. QED
      BY <1>3, <1>11, <3>1 DEF MsgOK, Carries, Votes, Ends
  <2>3. QED
    BY <1>1, <2>1, <2>2 DEF MsgsOK
<1>15. QED
  BY <1>3, <1>6, <1>7, <1>8, <1>9, <1>10, <1>13, <1>14 DEF IInv

\* The rows after release_resource: only t gives up locks, and it keeps those of
\* its other sites.
LEMMA ReleaseFacts ==
  ASSUME IInv, NEW s \in Site, NEW t \in Txn, Release(s, t)
  PROVE  /\ lock' \in [Row -> Lock] /\ occ' \in [Site -> [Txn -> Occ]]
         /\ txn_map' \in [Site -> SUBSET Txn]
         /\ occ'[s][t] = NewOcc /\ t \notin txn_map'[s]
         /\ \A r \in Site, u \in Txn : r # s \/ u # t =>
              occ'[r][u] = occ[r][u] /\ (u \in txn_map'[r] <=> u \in txn_map[r])
         /\ LocksOwned' /\ Held' /\ LocksNoted'
<1> DEFINE L == occ[s][t].locks
<1>1. /\ lock' = Unlocked(L, t)
      /\ occ' = [occ EXCEPT ![s] = [occ[s] EXCEPT ![t] = NewOcc]]
      /\ txn_map' = [txn_map EXCEPT ![s] = @ \ {t}]
      /\ OccTypeOK
  BY DEF Release, IInv, TypeOK
<1>2. /\ occ' \in [Site -> [Txn -> Occ]] /\ txn_map' \in [Site -> SUBSET Txn]
      /\ occ'[s][t] = NewOcc /\ t \notin txn_map'[s]
      /\ \A r \in Site, u \in Txn : r # s \/ u # t =>
           occ'[r][u] = occ[r][u] /\ (u \in txn_map'[r] <=> u \in txn_map[r])
  <2>1. NewOcc \in Occ
    BY NewOccType
  <2>2. QED
    BY <1>1, <2>1 DEF OccTypeOK
<1>3. ASSUME NEW r \in Row
      PROVE  /\ lock'[r] \in Lock
             /\ r \notin L => lock'[r] = lock[r]
             /\ r \in L => lock'[r].w # t /\ t \notin lock'[r].r
             /\ lock'[r].w # NoTxn => lock'[r].w = lock[r].w
             /\ lock'[r].r \subseteq lock[r].r
             /\ \A u \in Txn : u # t => /\ lock[r].w = u => lock'[r].w = u
                                        /\ u \in lock[r].r => u \in lock'[r].r
  BY <1>1, NoOwnerAssumption DEF OccTypeOK, Unlocked, UnlockBy, Lock
<1>4. lock' \in [Row -> Lock]
  BY <1>1, <1>3 DEF Unlocked
<1>5. LocksOwned'
  <2>1. ASSUME NEW r \in Row
        PROVE  lock'[r].w # NoTxn => lock'[r].r = {}
    BY <1>3 DEF IInv, LocksOwned
  <2>2. ASSUME NEW r \in Row, NEW u \in Txn, u = lock'[r].w \/ u \in lock'[r].r
        PROVE  \E q \in Site : u \in txn_map'[q] /\ occ'[q][u].verified /\ r \in occ'[q][u].locks
    <3>1. u = lock[r].w \/ u \in lock[r].r
      BY <1>3, <2>2, NoOwnerAssumption
    <3>2. PICK q \in Site : u \in txn_map[q] /\ occ[q][u].verified /\ r \in occ[q][u].locks
      BY <3>1 DEF IInv, LocksOwned
    <3>3. q # s \/ u # t
      BY <1>3, <2>2, <3>2
    <3>4. QED
      BY <1>2, <3>2, <3>3
  <2>3. QED
    BY <2>1, <2>2 DEF LocksOwned
<1>6. Held'
  <2>1. ASSUME NEW q \in Site, NEW u \in Txn, occ'[q][u].verified, NEW c \in Cell,
               occ'[q][u].rver[c] # Absent \/ occ'[q][u].wver[c] # Absent
        PROVE  /\ q # s \/ u # t
               /\ occ'[q][u] = occ[q][u]
               /\ u = t => c.row \notin L
    <3>1. q # s \/ u # t
      BY <1>2, <2>1, NewOccFields
    <3>2. occ'[q][u] = occ[q][u]
      BY <1>2, <3>1
    <3>3. ASSUME u = t, c.row \in L
          PROVE  FALSE
      <4>1. PICK d \in Cell : d.row = c.row /\ (occ[s][t].rver[d] # Absent \/ occ[s][t].wver[d] # Absent)
        BY <3>3 DEF IInv, LocksNoted
      <4>2. PICK p \in PiecesOf(t) : p.site = s /\ d \in p.reads \cup p.writes
        BY <4>1 DEF IInv, Accesses
      <4>3. PICK x \in PiecesOf(t) : x.site = q /\ c \in x.reads \cup x.writes
        BY <2>1, <3>2, <3>3, SMTT(60) DEF IInv, Accesses
      <4>4. p \in Piece /\ x \in Piece
        BY DEF PiecesOf
      <4>5. p.site = x.site
        BY <4>1, <4>2, <4>3, <4>4, SameSite
      <4>6. QED
        BY <3>1, <3>3, <4>2, <4>3, <4>5
    <3>4. QED
      BY <3>1, <3>2, <3>3
  <2>2. ASSUME NEW q \in Site, NEW u \in Txn, occ'[q][u].verified, NEW c \in Cell
        PROVE  /\ occ'[q][u].rver[c] # Absent => lock'[c.row].w = u \/ u \in lock'[c.row].r
               /\ occ'[q][u].wver[c] # Absent => lock'[c.row].w = u
    <3>1. c.row \in Row
      BY CellAssumption
    <3>2. occ'[q][u].rver[c] # Absent \/ occ'[q][u].wver[c] # Absent =>
            /\ occ'[q][u] = occ[q][u] /\ (u = t => lock'[c.row] = lock[c.row])
            /\ occ[q][u].rver[c] # Absent => lock[c.row].w = u \/ u \in lock[c.row].r
            /\ occ[q][u].wver[c] # Absent => lock[c.row].w = u
      BY <1>3, <2>1, <2>2, <3>1, SMTT(60) DEF IInv, Held
    <3>3. QED
      BY <1>3, <3>1, <3>2
  <2>3. QED
    BY <2>2 DEF Held
<1>7. LocksNoted'
  <2>1. ASSUME NEW q \in Site, NEW u \in Txn, NEW r \in occ'[q][u].locks
        PROVE  \E c \in Cell : c.row = r /\ (occ'[q][u].rver[c] # Absent \/ occ'[q][u].wver[c] # Absent)
    <3>1. occ'[q][u] = occ[q][u]
      BY <1>2, <2>1, NewOccFields
    <3>2. QED
      BY <2>1, <3>1, SMTT(60) DEF IInv, LocksNoted
  <2>2. QED
    BY <2>1 DEF LocksNoted
<1>8. QED
  BY <1>2, <1>4, <1>5, <1>6, <1>7

\* A cell that a prepared transaction will write is used by no other prepared
\* transaction, nor by itself at another site.
LEMMA WriterAlone ==
  ASSUME IInv, NEW s \in Site, NEW t \in Txn, occ[s][t].verified,
         NEW c \in Cell, occ[s][t].wver[c] # Absent,
         NEW q \in Site, NEW u \in Txn, occ[q][u].verified,
         occ[q][u].rver[c] # Absent \/ occ[q][u].wver[c] # Absent
  PROVE  q = s /\ u = t
<1>1. c.row \in Row
  BY CellAssumption
<1>2. lock[c.row].w = t /\ lock[c.row].r = {} /\ (lock[c.row].w = u \/ u \in lock[c.row].r)
  BY <1>1, NoOwnerAssumption, SMTT(60) DEF IInv, Held, LocksOwned
<1>3. PICK p \in PiecesOf(t) : p.site = s /\ c \in p.reads \cup p.writes
  BY DEF IInv, Accesses
<1>4. PICK x \in PiecesOf(u) : x.site = q /\ c \in x.reads \cup x.writes
  BY DEF IInv, Accesses
<1>5. p \in Piece /\ x \in Piece
  BY DEF PiecesOf
<1>6. p.site = x.site
  BY <1>3, <1>4, <1>5, SameSite
<1>7. QED
  BY <1>2, <1>3, <1>4, <1>6

\* The end of a transaction at a site: commit_confirm with the staged cells W,
\* or abort with none.
EndsWith(s, t, W) ==
  /\ s \in Site /\ t \in Txn /\ Release(s, t) /\ ~Collecting(t)
  /\ W \in SUBSET Cell
  /\ \A c \in W : occ[s][t].verified /\ occ[s][t].wver[c] # Absent
  /\ val' \in [Cell -> Txn \cup {NoTxn}] /\ ver' \in [Cell -> Nat]
  /\ \A c \in Cell : /\ val'[c] = IF c \in W THEN t ELSE val[c]
                     /\ ver'[c] = IF c \in W THEN ver[c] + 1 ELSE ver[c]

\* What is left when t ends at site s: do_commit with the rows W written, do_abort
\* with none.
LEMMA EndFacts ==
  ASSUME IInv, NEW s, NEW t, NEW W, EndsWith(s, t, W)
  PROVE  /\ OccTypeOK' /\ Accesses' /\ LocksOwned' /\ Held' /\ LocksNoted' /\ PreparedCurrent'
         /\ occ'[s][t] = NewOcc /\ t \notin txn_map'[s]
         /\ \A r \in Site, u \in Txn : r # s \/ u # t =>
              occ'[r][u] = occ[r][u] /\ (u \in txn_map'[r] <=> u \in txn_map[r])
         /\ \A u \in Txn : \A e : Collecting(u) /\ ReadOK(u, e) => ReadOK(u, e)'
         /\ \A q \in Piece : \A o : Collecting(q.txn) /\ Ran(q, o) => Ran(q, o)'
<1> SUFFICES ASSUME s \in Site, t \in Txn, Release(s, t), ~Collecting(t), W \in SUBSET Cell,
                    \A c \in W : occ[s][t].verified /\ occ[s][t].wver[c] # Absent,
                    val' \in [Cell -> Txn \cup {NoTxn}], ver' \in [Cell -> Nat],
                    \A c \in Cell : /\ val'[c] = IF c \in W THEN t ELSE val[c]
                                   /\ ver'[c] = IF c \in W THEN ver[c] + 1 ELSE ver[c]
             PROVE  /\ OccTypeOK' /\ Accesses' /\ LocksOwned' /\ Held' /\ LocksNoted' /\ PreparedCurrent'
                    /\ occ'[s][t] = NewOcc /\ t \notin txn_map'[s]
                    /\ \A r \in Site, u \in Txn : r # s \/ u # t =>
                         occ'[r][u] = occ[r][u] /\ (u \in txn_map'[r] <=> u \in txn_map[r])
                    /\ \A u \in Txn : \A e : Collecting(u) /\ ReadOK(u, e) => ReadOK(u, e)'
                    /\ \A q \in Piece : \A o : Collecting(q.txn) /\ Ran(q, o) => Ran(q, o)'
  BY DEF EndsWith
<1>1. /\ lock' \in [Row -> Lock] /\ occ' \in [Site -> [Txn -> Occ]]
      /\ txn_map' \in [Site -> SUBSET Txn]
      /\ occ'[s][t] = NewOcc /\ t \notin txn_map'[s]
      /\ \A r \in Site, u \in Txn : r # s \/ u # t =>
           occ'[r][u] = occ[r][u] /\ (u \in txn_map'[r] <=> u \in txn_map[r])
      /\ LocksOwned' /\ Held' /\ LocksNoted'
  BY ReleaseFacts
<1>2. /\ val \in [Cell -> Txn \cup {NoTxn}] /\ ver \in [Cell -> Nat] /\ occ \in [Site -> [Txn -> Occ]]
  BY DEF IInv, TypeOK, OccTypeOK
<1>3. OccTypeOK'
  BY <1>1, <1>2 DEF OccTypeOK
<1>4. Accesses'
  <2>1. ASSUME NEW r \in Site, NEW u \in Txn, NEW c \in Cell
        PROVE  /\ occ'[r][u].rver[c] # Absent =>
                    /\ occ'[r][u].rver[c] <= ver'[c]
                    /\ \E q \in PiecesOf(u) : q.site = r /\ c \in q.reads
               /\ occ'[r][u].wver[c] # Absent =>
                    \E q \in PiecesOf(u) : q.site = r /\ c \in q.writes
    <3>1. CASE r = s /\ u = t
      BY <1>1, <3>1, NewOccFields
    <3>2. CASE r # s \/ u # t
      <4>1. occ'[r][u] = occ[r][u]
        BY <1>1, <3>2
      <4>2. occ[r][u].rver[c] \in Version /\ ver[c] \in Nat /\ ver'[c] \in {ver[c], ver[c] + 1}
        BY <1>2, SMTT(60) DEF Occ
      <4>3. QED
        BY <4>1, <4>2, SMTT(60) DEF IInv, Accesses, Version, Absent
    <3>3. QED
      BY <3>1, <3>2
  <2>2. QED
    BY <2>1 DEF Accesses
<1>5. PreparedCurrent'
  <2>1. ASSUME NEW q \in Site, NEW u \in Txn, occ'[q][u].verified, NEW c \in Cell
        PROVE  occ'[q][u].rver[c] \in {Absent, ver'[c]} /\ occ'[q][u].wver[c] \in {Absent, ver'[c]}
    <3>1. q # s \/ u # t
      BY <1>1, <2>1, NewOccFields
    <3>2. occ'[q][u] = occ[q][u]
      BY <1>1, <3>1
    <3>3. occ[q][u].rver[c] \in {Absent, ver[c]} /\ occ[q][u].wver[c] \in {Absent, ver[c]}
      BY <2>1, <3>2 DEF IInv, PreparedCurrent, VersionCheck
    <3>4. c \in W => occ[q][u].rver[c] = Absent /\ occ[q][u].wver[c] = Absent
      BY <2>1, <3>1, <3>2, WriterAlone, SMTT(60)
    <3>5. QED
      BY <3>2, <3>3, <3>4
  <2>2. QED
    BY <2>1 DEF PreparedCurrent, VersionCheck
<1>6. ASSUME NEW u \in Txn, NEW e, Collecting(u), ReadOK(u, e)
      PROVE  ReadOK(u, e)'
  <2>1. CASE e[2] = u /\ e[1] \in Writes[u]
    BY <2>1 DEF ReadOK, Writes
  <2>2. CASE \E p \in PiecesOf(u) :
               /\ e[1] \in p.reads
               /\ occ[p.site][u].rver[e[1]] # Absent
               /\ occ[p.site][u].rver[e[1]] = ver[e[1]] => e[2] = val[e[1]]
    <3>1. PICK p \in PiecesOf(u) :
               /\ e[1] \in p.reads
               /\ occ[p.site][u].rver[e[1]] # Absent
               /\ occ[p.site][u].rver[e[1]] = ver[e[1]] => e[2] = val[e[1]]
      BY <2>2
    <3>2. e[1] \in Cell /\ p.site \in Site /\ occ'[p.site][u] = occ[p.site][u]
      BY <1>1, <1>6, <3>1, PieceFields, SMTT(60) DEF PiecesOf
    <3>3. occ[p.site][u].rver[e[1]] <= ver[e[1]] /\ ver[e[1]] \in Nat
          /\ occ[p.site][u].rver[e[1]] \in Nat
      <4>1. occ[p.site][u].rver[e[1]] <= ver[e[1]]
        BY <3>1, <3>2 DEF IInv, Accesses
      <4>2. occ[p.site][u] \in Occ /\ ver[e[1]] \in Nat
        BY <1>2, <3>1, <3>2
      <4>3. occ[p.site][u].rver[e[1]] \in Version
        BY <3>2, <4>2 DEF Occ
      <4>4. QED
        BY <3>1, <4>1, <4>2, <4>3 DEF Version
    <3>4. occ'[p.site][u].rver[e[1]] = ver'[e[1]] => e[2] = val'[e[1]]
      BY <3>1, <3>2, <3>3, SMTT(60)
    <3>5. QED
      BY <3>1, <3>2, <3>4 DEF ReadOK
  <2>3. QED
    BY <1>6, <2>1, <2>2 DEF ReadOK
<1>7. ASSUME NEW q \in Piece, NEW o, Collecting(q.txn), Ran(q, o)
      PROVE  Ran(q, o)'
  <2>1. q.site \in Site /\ q.txn \in Txn /\ q.txn # t
    BY <1>7, PieceFields
  <2>2. QED
    <3>1. /\ occ'[q.site][q.txn] = occ[q.site][q.txn]
          /\ q.txn \in txn_map'[q.site] <=> q.txn \in txn_map[q.site]
      BY <1>1, <2>1
    <3>2. QED
      BY <1>7, <3>1 DEF Ran
<1>8. QED
  BY <1>1, <1>3, <1>4, <1>5, <1>6, <1>7

\* Either end of a transaction at a site.
LEMMA FinishTxnFacts ==
  ASSUME IInv, NEW m \in msgs, FinishTxn(m)
  PROVE  /\ m.type \in {"commit", "abort"} /\ m.site \in Site /\ m.txn \in Txn
         /\ phase[m.txn] = m.type /\ m.txn \in txn_map[m.site]
         /\ m.site \in Proxies(m.txn) \ finished[m.txn]
         /\ m.type = "commit" => occ[m.site][m.txn].verified
         /\ Release(m.site, m.txn) /\ UNCHANGED cvars
         /\ msgs' = (msgs \ {m}) \cup {Request("finish_reply", m.txn, m.site)}
         /\ val' \in [Cell -> Txn \cup {NoTxn}] /\ ver' \in [Cell -> Nat]
         /\ \A c \in Cell :
              LET w == m.type = "commit" /\ occ[m.site][m.txn].wver[c] # Absent
              IN  /\ val'[c] = IF w THEN m.txn ELSE val[c]
                  /\ ver'[c] = IF w THEN ver[c] + 1 ELSE ver[c]
<1>1. /\ m.type \in {"commit", "abort"} /\ UNCHANGED cvars
      /\ msgs' = (msgs \ {m}) \cup {Request("finish_reply", m.txn, m.site)}
      /\ m.type = "commit" => CommitConfirm(m.site, m.txn)
      /\ m.type = "abort" => Abort(m.site, m.txn)
  BY DEF FinishTxn
<1>2. /\ m.site \in Site /\ m.txn \in Txn
      /\ phase[m.txn] = m.type /\ m.txn \in txn_map[m.site]
      /\ m.site \in Proxies(m.txn) \ finished[m.txn]
  BY <1>1, MsgFields DEF IInv, MsgsOK, MsgOK, Ends
<1>3. m.type = "commit" => occ[m.site][m.txn].verified
  BY <1>2, SMTT(60) DEF IInv, Phases
<1>4. val \in [Cell -> Txn \cup {NoTxn}] /\ ver \in [Cell -> Nat]
  BY DEF IInv, TypeOK, OccTypeOK
<1>5. CASE m.type = "commit"
  <2>1. Release(m.site, m.txn)
    BY <1>1, <1>5 DEF CommitConfirm
  <2>2. /\ val' = [c \in Cell |-> IF c \in Staged(occ[m.site][m.txn]) THEN m.txn ELSE val[c]]
        /\ ver' = [c \in Cell |-> IF c \in Staged(occ[m.site][m.txn]) THEN ver[c] + 1 ELSE ver[c]]
    BY <1>1, <1>5 DEF CommitConfirm
  <2>3. \A c \in Cell : c \in Staged(occ[m.site][m.txn]) <=> occ[m.site][m.txn].wver[c] # Absent
    BY DEF Staged
  <2>4. val' \in [Cell -> Txn \cup {NoTxn}] /\ ver' \in [Cell -> Nat]
    BY <1>2, <1>4, <2>2, SMT
  <2>5. QED
    BY <1>1, <1>2, <1>3, <1>5, <2>1, <2>2, <2>3, <2>4
<1>6. CASE m.type = "abort"
  BY <1>1, <1>2, <1>3, <1>4, <1>6 DEF Abort
<1>7. QED
  BY <1>1, <1>5, <1>6

\* commit_txn and abort_txn.
LEMMA FinishTxnInv ==
  ASSUME IInv, NEW m \in msgs, FinishTxn(m)
  PROVE  IInv'
<1> SUFFICES ASSUME NEW s, NEW t, m.site = s, m.txn = t,
                    NEW k, k = Request("finish_reply", t, s)
             PROVE  IInv'
  OBVIOUS
<1>1. /\ m.type \in {"commit", "abort"} /\ s \in Site /\ t \in Txn
      /\ phase[t] = m.type /\ t \in txn_map[s]
      /\ s \in Proxies(t) \ finished[t]
      /\ UNCHANGED cvars /\ msgs' = (msgs \ {m}) \cup {k}
  BY FinishTxnFacts
<1>2. /\ OccTypeOK' /\ Accesses' /\ LocksOwned' /\ Held' /\ LocksNoted' /\ PreparedCurrent'
      /\ occ'[s][t] = NewOcc /\ t \notin txn_map'[s]
      /\ \A r \in Site, u \in Txn : r # s \/ u # t =>
           occ'[r][u] = occ[r][u] /\ (u \in txn_map'[r] <=> u \in txn_map[r])
      /\ \A u \in Txn : \A e : Collecting(u) /\ ReadOK(u, e) => ReadOK(u, e)'
      /\ \A q \in Piece : \A o : Collecting(q.txn) /\ Ran(q, o) => Ran(q, o)'
  <2> DEFINE W == {c \in Cell : m.type = "commit" /\ occ[s][t].wver[c] # Absent}
  <2>1. /\ val' \in [Cell -> Txn \cup {NoTxn}] /\ ver' \in [Cell -> Nat]
        /\ \A c \in Cell : /\ val'[c] = IF c \in W THEN t ELSE val[c]
                           /\ ver'[c] = IF c \in W THEN ver[c] + 1 ELSE ver[c]
    BY FinishTxnFacts
  <2>2. Release(s, t) /\ (m.type = "commit" => occ[s][t].verified)
    BY FinishTxnFacts
  <2>3. \A c \in W : occ[s][t].verified /\ occ[s][t].wver[c] # Absent
    BY <2>2
  <2>4. ~Collecting(t) /\ W \in SUBSET Cell
    BY <1>1 DEF Collecting
  <2> HIDE DEF W
  <2>5. EndsWith(s, t, W)
    BY <1>1, <2>1, <2>2, <2>3, <2>4 DEF EndsWith
  <2>6. QED
    BY <2>5, EndFacts
<1>3. /\ PieceFlow' /\ OutputsOK' /\ \A u \in Txn : Proxies(u)' = Proxies(u)
      /\ \A n \in msgs : Carries(n) => MsgOK(n)'
      /\ \A n \in msgs : ~Carries(n) /\ (n.site # s \/ n.txn # t) => MsgOK(n)'
  <2>1. \A u \in Txn, r \in Site : r # s \/ u # t =>
            (u \in txn_map'[r] <=> u \in txn_map[r]) /\ occ'[r][u].verified = occ[r][u].verified
    BY <1>2
  <2>2. UNCHANGED cvars /\ s \in Site /\ t \in Txn
    BY <1>1
  <2>3. /\ \A u \in Txn : \A e : Collecting(u) /\ ReadOK(u, e) => ReadOK(u, e)'
        /\ \A q \in Piece : \A o : Collecting(q.txn) /\ Ran(q, o) => Ran(q, o)'
    BY <1>2
  <2>4. LeavesOthers(s, t)
    BY <2>1, <2>2, <2>3 DEF LeavesOthers
  <2>5. QED
    BY <2>4, CoordKept
<1>4. k \in Message /\ k.type = "finish_reply" /\ k.txn = t /\ k.site = s
  BY <1>1, NewMsgs, SMTT(60)
<1>5. TypeOK'
  BY <1>1, <1>2, <1>4 DEF IInv, TypeOK, cvars
<1>6. Phases'
  <2>1. \A u \in Txn : prepared[u] \subseteq Site /\ finished[u] \subseteq Site
    BY DEF IInv, TypeOK
  <2>2. \A u \in Txn, r \in Site : /\ occ'[r][u].verified => occ[r][u].verified
                                   /\ u \in txn_map'[r] => u \in txn_map[r]
                                   /\ u \in txn_map'[r] => occ'[r][u].verified = occ[r][u].verified
    BY <1>1, <1>2, NewOccFields
  <2>3. UNCHANGED cvars /\ \A u \in Txn : Proxies(u)' = Proxies(u)
    BY <1>1, <1>3
  <2>4. PhasesLeft
    BY <2>1, <2>2, <2>3 DEF PhasesLeft
  <2>5. QED
    BY <2>4, PhasesKept DEF IInv
<1>7. Fresh'
  <2>1. ASSUME NEW r \in Site, NEW u \in Txn
        PROVE  /\ u \notin txn_map'[r] => occ'[r][u] = NewOcc
               /\ u \in txn_map'[r] => r \in Proxies(u)' /\ phase'[u] \notin Over
    <3>1. CASE r = s /\ u = t
      BY <1>2, <3>1
    <3>2. CASE r # s \/ u # t
      <4>1. occ'[r][u] = occ[r][u] /\ (u \in txn_map'[r] <=> u \in txn_map[r])
        BY <1>2, <3>2
      <4>2. phase' = phase /\ Proxies(u)' = Proxies(u)
        BY <1>1, <1>3 DEF cvars
      <4>3. QED
        BY <4>1, <4>2 DEF IInv, Fresh
    <3>3. QED
      BY <3>1, <3>2
  <2>2. QED
    BY <2>1 DEF Fresh
<1>8. \A n \in msgs : Ends(n) /\ n.txn = t /\ n.site = s => n = m
  BY <1>1 DEF IInv, OneMsg, Ends
<1>9. OneMsg'
  BY <1>1, <1>4, <1>8, SMTT(60) DEF IInv, OneMsg, Carries, Votes, Ends
<1>10. MsgsOK'
  <2>1. ASSUME NEW n \in msgs, n # m
        PROVE  MsgOK(n)'
    <3>1. ~Carries(n) => Votes(n) \/ Ends(n)
      BY MsgFields DEF IInv, Carries, Votes, Ends
    <3>2. Votes(n) => n.txn # t
      BY <1>1 DEF IInv, MsgsOK, MsgOK
    <3>3. QED
      BY <1>3, <1>8, <2>1, <3>1, <3>2
  <2>2. MsgOK(k)'
    <3>1. s \in Proxies(t)' \ finished'[t] /\ phase'[t] \in {"commit", "abort"} /\ t \notin txn_map'[s]
      BY <1>1, <1>2, <1>3 DEF cvars
    <3>2. QED
      BY <1>4, <3>1 DEF MsgOK, Carries, Votes, Ends
  <2>3. QED
    BY <1>1, <2>1, <2>2 DEF MsgsOK
<1>11. QED
  BY <1>2, <1>3, <1>5, <1>6, <1>7, <1>9, <1>10 DEF IInv

-----------------------------------------------------------------------------
(* The invariant *)

\* Every step of coordinators and sites preserves the invariant.
LEMMA NextInv ==
  ASSUME IInv, [Next]_vars
  PROVE  IInv'
<1>1. CASE UNCHANGED vars
  <2>1. UNCHANGED cvars /\ UNCHANGED tvars /\ msgs' = msgs
    BY <1>1 DEF vars
  <2>2. TypeOK' /\ PieceFlow' /\ OneMsg'
    BY <2>1, SitesKept DEF IInv, TypeOK, PieceFlow, OneMsg, cvars
  <2>3. \A u \in Txn : Proxies(u)' = Proxies(u)
    BY <2>1 DEF Proxies, cvars
  <2>4. Phases' /\ Fresh'
    <3>1. occ' = occ /\ txn_map' = txn_map /\ phase' = phase
      BY <2>1 DEF cvars, tvars
    <3>2. \A u \in Txn : prepared[u] \subseteq Site /\ finished[u] \subseteq Site
      BY DEF IInv, TypeOK
    <3>3. PhasesLeft
      BY <2>1, <2>3, <3>1, <3>2 DEF PhasesLeft
    <3>4. Fresh'
      BY <2>3, <3>1 DEF IInv, Fresh
    <3>5. QED
      BY <3>3, <3>4, PhasesKept DEF IInv
  <2>5. OutputsOK'
    BY <2>1, SitesKept DEF IInv, OutputsOK, Collecting, cvars
  <2>6. MsgsOK'
    <3>1. /\ occ' = occ /\ txn_map' = txn_map /\ phase' = phase /\ sent' = sent /\ started' = started
          /\ prepared' = prepared /\ finished' = finished
      BY <2>1 DEF cvars, tvars
    <3>2. /\ \A t, e : ReadOK(t, e) => ReadOK(t, e)'
          /\ \A p, out : Ran(p, out) => Ran(p, out)'
      BY <2>1, SitesKept
    <3>3. ASSUME NEW n \in msgs PROVE MsgOK(n)'
      <4>1. MsgOK(n)
        BY DEF IInv, MsgsOK
      <4>2. Votes(n) \/ Ends(n) => Proxies(n.txn)' = Proxies(n.txn)
        BY <2>3, MsgFields DEF IInv, Votes, Ends
      <4>3. QED
        BY <3>1, <3>2, <4>1, <4>2 DEF MsgOK
    <3>4. QED
      BY <2>1, <3>3 DEF MsgsOK
  <2>7. QED
    BY <2>1, <2>2, <2>4, <2>5, <2>6, SitesKept DEF IInv
<1>2. CASE \E t \in Txn : DoOne(t)
  BY <1>2, DoOneInv
<1>3. CASE \E t \in Txn : SendPiece(t) \/ EndLoop(t)
  BY <1>3, SendPieceInv, EndLoopInv
<1>4. CASE \E m \in msgs : StartReply(m) \/ PrepareReply(m) \/ FinishReply(m)
  BY <1>4, StartReplyInv, PrepareReplyInv, FinishReplyInv
<1>5. CASE \E m \in msgs : StartPie(m) \/ PrepareTxn(m) \/ FinishTxn(m)
  BY <1>5, StartPieInv, PrepareTxnInv, FinishTxnInv
<1>6. QED
  BY <1>1, <1>2, <1>3, <1>4, <1>5 DEF Next, Steps, AllDone

\* The invariant holds in every state of two-phase commit.
THEOREM Invariance == Spec => []IInv
<1>1. Init => IInv
  BY InitInv
<1>2. IInv /\ [Next]_vars => IInv'
  BY NextInv
<1>3. QED
  BY <1>1, <1>2, PTL DEF Spec

\* Messages, coordinators and sites keep their types.
THEOREM TypeCorrect == Spec => []TypeOK
<1>1. IInv => TypeOK
  BY DEF IInv
<1>2. QED
  BY <1>1, Invariance, PTL

\* The verifies of do_prepare, do_commit, do_abort, commit_prepare and
\* commit_confirm hold, whatever the order of messages and restarts.
THEOREM VerifiesHold == Spec => []RequestsKnown
<1>1. ASSUME IInv
      PROVE  RequestsKnown
  <2>1. ASSUME NEW m \in msgs, m.type = "commit"
        PROVE  m.txn \in txn_map[m.site] /\ occ[m.site][m.txn].verified
    <3>1. /\ phase[m.txn] = "commit" /\ m.txn \in txn_map[m.site] /\ m.txn \in Txn
          /\ m.site \in Proxies(m.txn)
      BY <1>1, <2>1, MsgFields DEF IInv, MsgsOK, MsgOK, Ends
    <3>2. QED
      BY <1>1, <3>1 DEF IInv, Phases
  <2>2. ASSUME NEW m \in msgs, m.type \in {"prepare", "abort"}
        PROVE  m.txn \in txn_map[m.site] /\ (m.type = "prepare" => ~occ[m.site][m.txn].verified)
    BY <1>1, <2>2 DEF IInv, MsgsOK, MsgOK, Votes
  <2>3. QED
    BY <2>1, <2>2 DEF RequestsKnown
<1>2. QED
  BY <1>1, Invariance, PTL

\* Rows are locked by one writer or by readers, and by nobody but transactions
\* that are prepared and will release them.
THEOREM LocksSafe == Spec => []LocksOwned
<1>1. IInv => LocksOwned
  BY DEF IInv
<1>2. QED
  BY <1>1, Invariance, PTL

\* What a transaction has verified stays current until it commits or aborts.
THEOREM PreparedStaysCurrent == Spec => []PreparedCurrent
<1>1. IInv => PreparedCurrent
  BY DEF IInv
<1>2. QED
  BY <1>1, Invariance, PTL

\* When the poll thread has gone on to prepare, to finish or to the answer, the
\* loop of start in the client's thread finds no piece to send, however late it
\* looks: whoever left the phase of the starts had an answer to each piece.
THEOREM LateLoopSendsNothing == Spec => []LateLoopIdle
<1>1. IInv => LateLoopIdle
  <2> SUFFICES ASSUME IInv, NEW t \in Txn, looping[t], phase[t] # "start"
               PROVE  Ready(t, sent, started) = {}
    BY DEF LateLoopIdle
  <2>1. PiecesOf(t) \subseteq started
    BY DEF IInv, Phases
  <2>2. started \subseteq sent
    BY DEF IInv, PieceFlow
  <2>3. QED
    BY <2>1, <2>2 DEF Ready
<1>2. QED
  BY <1>1, Invariance, PTL

-----------------------------------------------------------------------------
(* Refinement of the serial database *)

Decided == {"commit", "SUCCESS"}

\* What the refinement mapping is: a cell has the value of the one transaction
\* that is committing it, or else the value stored.
Mapping ==
  /\ DB = [c \in Cell |-> DB[c]]
  /\ \A c \in Cell : /\ Pending(c) = {} => DB[c] = val[c]
                     /\ \A t \in Pending(c) : DB[c] = t
  /\ Result = [t \in Txn |-> Result[t]]
  /\ \A t \in Txn : Result[t] = IF phase[t] \in Decided THEN "SUCCESS"
                                 ELSE IF phase[t] = "REJECT" THEN "REJECT" ELSE "none"
  /\ Seen = [t \in Txn |-> Seen[t]]
  /\ \A t \in Txn : Seen[t] = IF phase[t] \in Decided THEN output[t] ELSE {}

\* What a committing transaction has staged it has verified.
LEMMA CommittingVerified ==
  ASSUME IInv, NEW s \in Site, NEW t \in Txn, phase[t] = "commit",
         NEW c \in Cell, occ[s][t].rver[c] # Absent \/ occ[s][t].wver[c] # Absent
  PROVE  occ[s][t].verified
<1>1. t \in txn_map[s] /\ s \in Proxies(t)
  BY NewOccFields DEF IInv, Fresh
<1>2. QED
  BY <1>1 DEF IInv, Phases

\* At most one transaction is committing a cell.
LEMMA OnePending ==
  ASSUME IInv, NEW c \in Cell, NEW t \in Pending(c), NEW u \in Pending(c)
  PROVE  t = u
<1>1. PICK s \in Site : t \in Txn /\ phase[t] = "commit" /\ occ[s][t].wver[c] # Absent
  BY DEF Pending, Staged
<1>2. PICK q \in Site : u \in Txn /\ phase[u] = "commit" /\ occ[q][u].wver[c] # Absent
  BY DEF Pending, Staged
<1>3. occ[s][t].verified /\ occ[q][u].verified
  BY <1>1, <1>2, CommittingVerified
<1>4. QED
  BY <1>1, <1>2, <1>3, WriterAlone, SMTT(60)

\* The mapping is as described.
LEMMA MappingHolds == IInv => Mapping
<1> SUFFICES ASSUME IInv PROVE Mapping
  OBVIOUS
<1>1. ASSUME NEW c \in Cell
      PROVE  /\ Pending(c) = {} => DB[c] = val[c]
             /\ \A t \in Pending(c) : DB[c] = t
  <2>1. ASSUME NEW t \in Pending(c)
        PROVE  DB[c] = t
    <3>1. (CHOOSE u \in Pending(c) : TRUE) \in Pending(c)
      BY <2>1, Zenon
    <3>2. (CHOOSE u \in Pending(c) : TRUE) = t
      BY <3>1, OnePending
    <3>3. DB[c] = (CHOOSE u \in Pending(c) : TRUE)
      BY <2>1, Zenon DEF DB
    <3>4. QED
      BY <3>2, <3>3
  <2>2. QED
    BY <2>1 DEF DB
<1>2. DB = [c \in Cell |-> DB[c]]
  BY SMTT(60) DEF DB
<1>3. /\ Result = [t \in Txn |-> Result[t]]
      /\ \A t \in Txn : Result[t] = IF phase[t] \in Decided THEN "SUCCESS"
                                     ELSE IF phase[t] = "REJECT" THEN "REJECT" ELSE "none"
  BY DEF Result, Decided
<1>4. /\ Seen = [t \in Txn |-> Seen[t]]
      /\ \A t \in Txn : Seen[t] = IF phase[t] \in Decided THEN output[t] ELSE {}
  BY <1>3 DEF Seen
<1>5. QED
  BY <1>1, <1>2, <1>3, <1>4 DEF Mapping

\* A step that decides nothing leaves what the clients see unchanged.
LEMMA Stutter ==
  ASSUME Mapping, Mapping',
         \A u \in Txn : /\ phase'[u] \in Decided <=> phase[u] \in Decided
                        /\ phase'[u] = "REJECT" <=> phase[u] = "REJECT"
                        /\ phase[u] \in Decided => output'[u] = output[u],
         \A c \in Cell : DB'[c] = DB[c]
  PROVE  UNCHANGED <<DB, Result, Seen>>
<1>1. DB' = DB
  BY DEF Mapping
<1>2. \A u \in Txn : Result'[u] = Result[u] /\ Seen'[u] = Seen[u]
  BY DEF Mapping
<1>3. Result' = Result /\ Seen' = Seen
  BY <1>2 DEF Mapping
<1>4. QED
  BY <1>1, <1>3

\* A cell keeps its value when nobody begins or ends to commit it.
LEMMA SameDB ==
  ASSUME Mapping, Mapping', NEW c \in Cell, val'[c] = val[c],
         \A u \in Txn : u \in Pending(c)' <=> u \in Pending(c)
  PROVE  DB'[c] = DB[c]
<1>1. Pending(c)' = Pending(c)
  BY DEF Pending
<1>2. QED
  BY <1>1, SMTT(60) DEF Mapping

\* A step that leaves the sites alone and makes no transaction commit.
LEMMA QuietStep ==
  ASSUME Mapping, Mapping', UNCHANGED <<occ, val>>,
         \A u \in Txn : /\ phase'[u] = "commit" <=> phase[u] = "commit"
                        /\ phase'[u] \in Decided <=> phase[u] \in Decided
                        /\ phase'[u] = "REJECT" <=> phase[u] = "REJECT"
                        /\ phase[u] \in Decided => output'[u] = output[u]
  PROVE  UNCHANGED <<DB, Result, Seen>>
<1>1. \A c \in Cell : \A u \in Txn : u \in Pending(c)' <=> u \in Pending(c)
  BY DEF Pending, Staged
<1>2. \A c \in Cell : DB'[c] = DB[c]
  BY <1>1, SameDB
<1>3. QED
  BY <1>2, Stutter

\* The decision to commit: all the transaction has read is current, and all it
\* writes becomes pending.
LEMMA DecideCommit ==
  ASSUME IInv, IInv', Mapping, Mapping', NEW t \in Txn,
         phase[t] = "prepare", phase' = [phase EXCEPT ![t] = "commit"],
         UNCHANGED <<sent, started, output, tvars>>
  PROVE  SD!Commit(t)
<1>1. \A u \in Txn : u # t => phase'[u] = phase[u]
  BY SMTT(60)
<1>2. phase'[t] = "commit" /\ t \in Txn
  BY DEF IInv, TypeOK
<1>3. \A s \in Site : t \in txn_map[s] => occ[s][t].verified
  <2>1. \A s \in Site : t \in txn_map'[s] => s \in prepared'[t] /\ commit'[t]
    <3>1. Fresh' /\ Phases'
      BY DEF IInv
    <3>2. commit'[t] /\ prepared'[t] = Proxies(t)'
      BY <1>2, <3>1 DEF Phases
    <3>3. \A s \in Site : t \in txn_map'[s] => s \in Proxies(t)'
      BY <3>1 DEF Fresh
    <3>4. QED
      BY <3>2, <3>3
  <2>2. \A s \in Site : t \in txn_map'[s] => occ'[s][t].verified
    BY <1>2, <2>1 DEF IInv, Phases
  <2>3. QED
    BY <2>2 DEF tvars
<1>4. \A p \in PiecesOf(t) : p \in Piece /\ Ran(p, output[t])
  BY DEF IInv, Phases, OutputsOK, Collecting, PiecesOf
<1>5. Result[t] = "none"
  BY DEF Mapping, Decided
<1>6. \A c \in Cell : \A u \in Txn : u # t => (u \in Pending(c)' <=> u \in Pending(c))
  BY <1>1 DEF Pending, Staged, tvars
<1>7. \A c \in Cell : t \notin Pending(c) /\ (t \in Pending(c)' <=> c \in Writes[t])
  <2>1. ASSUME NEW c \in Cell
        PROVE  (\E s \in Site : occ[s][t].wver[c] # Absent) <=> c \in Writes[t]
    <3>1. ASSUME c \in Writes[t]
          PROVE  \E s \in Site : occ[s][t].wver[c] # Absent
      <4>1. PICK p \in PiecesOf(t) : c \in p.writes
        BY <3>1 DEF Writes
      <4>2. QED
        BY <1>4, <4>1, PieceFields DEF Ran, PiecesOf
    <3>2. ASSUME NEW s \in Site, occ[s][t].wver[c] # Absent
          PROVE  c \in Writes[t]
      <4>1. PICK p \in PiecesOf(t) : c \in p.writes
        BY <3>2 DEF IInv, Accesses
      <4>2. QED
        BY <4>1 DEF Writes
    <3>3. QED
      BY <3>1, <3>2
  <2>2. \A c \in Cell : t \in Pending(c)' <=> \E s \in Site : occ[s][t].wver[c] # Absent
    BY <1>2 DEF Pending, Staged, tvars
  <2>3. \A c \in Cell : t \notin Pending(c)
    BY DEF Pending
  <2>4. QED
    BY <2>1, <2>2, <2>3
<1>8. \A c \in Cell : DB'[c] = IF c \in Writes[t] THEN t ELSE DB[c]
  <2>1. ASSUME NEW c \in Cell, c \in Writes[t]
        PROVE  DB'[c] = t
    BY <1>7, <2>1 DEF Mapping
  <2>2. ASSUME NEW c \in Cell, c \notin Writes[t]
        PROVE  DB'[c] = DB[c]
    <3>1. \A u \in Txn : u \in Pending(c)' <=> u \in Pending(c)
      BY <1>6, <1>7, <2>2
    <3>2. val'[c] = val[c]
      BY DEF tvars
    <3>3. QED
      BY <3>1, <3>2, SameDB
  <2>3. QED
    BY <2>1, <2>2
<1>9. DB' = [c \in Cell |-> IF c \in Writes[t] THEN t ELSE DB[c]]
  BY <1>8 DEF Mapping
<1>10. Result' = [Result EXCEPT ![t] = "SUCCESS"] /\ Seen' = [Seen EXCEPT ![t] = output[t]]
  <2>1. \A u \in Txn : u # t => Result'[u] = Result[u] /\ Seen'[u] = Seen[u]
    BY <1>1 DEF Mapping
  <2>2. Result'[t] = "SUCCESS" /\ Seen'[t] = output[t]
    BY <1>2 DEF Mapping, Decided
  <2>3. QED
    BY <2>1, <2>2, SMTT(60) DEF Mapping
<1>11. output[t] \in SUBSET (Cell \X (Txn \cup {NoTxn}))
  BY DEF IInv, TypeOK, Value
<1>12. SD!MaySee(t, output[t])
  <2>1. ASSUME NEW c \in Reads[t]
        PROVE  \E v \in Txn \cup {NoTxn} : <<c, v>> \in output[t]
    BY <1>4 DEF Reads, Ran
  <2>2. ASSUME NEW e \in output[t]
        PROVE  e[1] \in Reads[t] /\ (e[2] = DB[e[1]] \/ (e[2] = t /\ e[1] \in Writes[t]))
    <3>1. e[1] \in Reads[t] /\ ReadOK(t, e)
      BY DEF IInv, OutputsOK, Collecting
    <3>2. ASSUME NEW p \in PiecesOf(t), e[1] \in p.reads,
                 occ[p.site][t].rver[e[1]] # Absent,
                 occ[p.site][t].rver[e[1]] = ver[e[1]] => e[2] = val[e[1]]
          PROVE  e[2] = DB[e[1]]
      <4>1. p.site \in Site /\ e[1] \in Cell
        BY <3>2, PieceFields DEF PiecesOf
      <4>2. occ[p.site][t].verified
        <5>1. t \notin txn_map[p.site] => occ[p.site][t] = NewOcc
          BY <4>1 DEF IInv, Fresh
        <5>2. NewOcc.rver[e[1]] = Absent
          BY <4>1, NewOccFields
        <5>3. QED
          BY <1>3, <3>2, <4>1, <5>1, <5>2
      <4>3. e[2] = val[e[1]]
        BY <3>2, <4>1, <4>2 DEF IInv, PreparedCurrent, VersionCheck
      <4>4. ASSUME NEW u \in Pending(e[1])
            PROVE  FALSE
        <5>1. PICK q \in Site : u \in Txn /\ phase[u] = "commit" /\ occ[q][u].wver[e[1]] # Absent
          BY <4>1 DEF Pending, Staged
        <5>2. occ[q][u].verified
          BY <4>1, <5>1, CommittingVerified
        <5>3. u = t
          BY <3>2, <4>1, <4>2, <5>1, <5>2, WriterAlone, SMTT(60)
        <5>4. QED
          BY <5>1, <5>3
      <4>5. Pending(e[1]) = {}
        BY <4>4
      <4>6. QED
        BY <4>1, <4>3, <4>5 DEF Mapping
    <3>3. QED
      BY <3>1, <3>2 DEF ReadOK
  <2>3. QED
    BY <2>1, <2>2 DEF SD!MaySee
<1>13. QED
  BY <1>5, <1>9, <1>10, <1>11, <1>12 DEF SD!Commit

\* The last vote may decide; the others change nothing a client sees.
LEMMA PrepareReplyStep ==
  ASSUME IInv, IInv', Mapping, Mapping', NEW m \in msgs, PrepareReply(m)
  PROVE  (\E t \in Txn : SD!Commit(t)) \/ UNCHANGED <<DB, Result, Seen>>
<1> SUFFICES ASSUME NEW t, m.txn = t
             PROVE  (\E u \in Txn : SD!Commit(u)) \/ UNCHANGED <<DB, Result, Seen>>
  OBVIOUS
<1>1. /\ UNCHANGED <<sent, started, output, tvars>>
      /\ phase' \in {phase, [phase EXCEPT ![t] = "commit"], [phase EXCEPT ![t] = "abort"]}
  BY DEF PrepareReply
<1>2. t \in Txn /\ phase[t] = "prepare" /\ DOMAIN phase = Txn
  BY MsgFields DEF PrepareReply, IInv, MsgsOK, MsgOK, Votes, TypeOK
<1>3. CASE phase' = [phase EXCEPT ![t] = "commit"]
  BY <1>1, <1>2, <1>3, DecideCommit
<1>4. CASE phase' \in {phase, [phase EXCEPT ![t] = "abort"]}
  <2>1. \A u \in Txn : phase'[u] = phase[u] \/ (phase[u] = "prepare" /\ phase'[u] = "abort")
    BY <1>2, <1>4
  <2>2. \A u \in Txn : /\ phase'[u] = "commit" <=> phase[u] = "commit"
                       /\ phase'[u] \in Decided <=> phase[u] \in Decided
                       /\ phase'[u] = "REJECT" <=> phase[u] = "REJECT"
                       /\ phase[u] \in Decided => output'[u] = output[u]
    BY <1>1, <2>1 DEF Decided
  <2>3. UNCHANGED <<occ, val>>
    BY <1>1 DEF tvars
  <2>4. QED
    BY <2>2, <2>3, QuietStep
<1>5. QED
  BY <1>1, <1>3, <1>4

\* The last answer of an aborted transaction rejects it, unless it is restarted.
LEMMA FinishReplyStep ==
  ASSUME IInv, IInv', Mapping, Mapping', NEW m \in msgs, FinishReply(m)
  PROVE  (\E t \in Txn : SD!Reject(t)) \/ UNCHANGED <<DB, Result, Seen>>
<1> SUFFICES ASSUME NEW t, m.txn = t
             PROVE  (\E u \in Txn : SD!Reject(u)) \/ UNCHANGED <<DB, Result, Seen>>
  OBVIOUS
<1>1. m.type = "finish_reply" /\ UNCHANGED tvars
  BY DEF FinishReply
<1>2. /\ t \in Txn /\ phase[t] \in {"commit", "abort"} /\ (phase[t] = "commit" <=> commit[t])
      /\ DOMAIN phase = Txn /\ output \in [Txn -> SUBSET Value]
  BY <1>1, FinishReplyFacts DEF IInv, TypeOK
<1>3. UNCHANGED <<occ, val>>
  BY <1>1 DEF tvars
<1>4. CASE phase' = [phase EXCEPT ![t] = "start"] /\ output' = [output EXCEPT ![t] = {}] /\ ~commit[t]
  BY <1>2, <1>3, <1>4, QuietStep DEF Decided
<1>5. CASE phase' = phase /\ output' = output
  BY <1>3, <1>5, QuietStep
<1>6. CASE /\ finished[t] \cup {m.site} = Proxies(t) /\ output' = output
           /\ phase' = [phase EXCEPT ![t] = IF commit[t] THEN "SUCCESS" ELSE "REJECT"]
  <2>1. \A s \in Site : occ[s][t] = NewOcc
    BY <1>1, <1>6, FinishReplyFacts
  <2>2. /\ \A u \in Txn : u # t => phase'[u] = phase[u]
        /\ phase'[t] = IF commit[t] THEN "SUCCESS" ELSE "REJECT"
    BY <1>2, <1>6
  <2>3. \A c \in Cell : t \notin Pending(c) /\ t \notin Pending(c)'
    BY <1>3, <2>1, NewOccFields DEF Pending, Staged
  <2>4. \A c \in Cell : \A u \in Txn : u \in Pending(c)' <=> u \in Pending(c)
    BY <1>3, <2>2, <2>3 DEF Pending, Staged
  <2>5. \A c \in Cell : DB'[c] = DB[c]
    BY <1>3, <2>4, SameDB
  <2>6. CASE commit[t]
    BY <1>2, <1>6, <2>2, <2>5, <2>6, Stutter DEF Decided
  <2>7. CASE ~commit[t]
    <3>1. phase[t] = "abort" /\ phase'[t] = "REJECT"
      BY <1>2, <2>2, <2>7
    <3>2. \A u \in Txn : Seen'[u] = Seen[u] /\ (u # t => Result'[u] = Result[u])
      <4>1. Seen'[t] = {} /\ Seen[t] = {}
        BY <1>2, <3>1 DEF Mapping, Decided
      <4>2. \A u \in Txn : u # t => Seen'[u] = Seen[u] /\ Result'[u] = Result[u]
        <5>1. \A u \in Txn : u # t => phase'[u] = phase[u] /\ output'[u] = output[u]
          BY <1>6, <2>2
        <5>2. QED
          BY <5>1 DEF Mapping
      <4>3. QED
        BY <4>1, <4>2
    <3>3. Result[t] = "none" /\ Result'[t] = "REJECT"
      BY <1>2, <3>1 DEF Mapping, Decided
    <3>4. DB' = DB /\ Seen' = Seen /\ Result' = [Result EXCEPT ![t] = "REJECT"]
      BY <2>5, <3>2, <3>3, SMTT(60) DEF Mapping
    <3>5. SD!Reject(t)
      BY <3>3, <3>4 DEF SD!Reject
    <3>6. QED
      BY <1>2, <3>5
  <2>8. QED
    BY <2>6, <2>7
<1>7. QED
  BY <1>4, <1>5, <1>6 DEF FinishReply, Restart

\* A site that handles commit_txn makes pending updates of the transaction its
\* values; nothing else a site does is seen.
LEMMA SiteStep ==
  ASSUME IInv, IInv', Mapping, Mapping', NEW m \in msgs,
         StartPie(m) \/ PrepareTxn(m) \/ FinishTxn(m)
  PROVE  UNCHANGED <<DB, Result, Seen>>
<1>1. UNCHANGED cvars
  BY DEF StartPie, PrepareTxn, FinishTxn
<1>2. SUFFICES \A c \in Cell : DB'[c] = DB[c]
  BY <1>1, Stutter DEF cvars
<1>3. CASE StartPie(m)
  <2>1. /\ m.piece \in Piece /\ m.piece.txn \in Txn /\ phase[m.piece.txn] = "start"
        /\ Execute(m.piece.site, m.piece)
    BY <1>3, MsgFields, PieceFields DEF StartPie, IInv, MsgsOK, MsgOK, Carries
  <2>2. /\ val' = val
        /\ \A s \in Site, u \in Txn : u # m.piece.txn => occ'[s][u] = occ[s][u]
    BY <2>1, ExecuteFacts
  <2>3. \A c \in Cell : \A u \in Txn : u \in Pending(c)' <=> u \in Pending(c)
    BY <1>1, <2>1, <2>2 DEF Pending, Staged, cvars
  <2>4. QED
    BY <2>2, <2>3, SameDB
<1>4. CASE PrepareTxn(m)
  <2>1. /\ val' = val
        /\ \A s \in Site, u \in Txn : u # m.txn => occ'[s][u] = occ[s][u]
        /\ m.txn \in Txn /\ phase[m.txn] = "prepare"
    <3>1. /\ m.txn \in Txn /\ m.site \in Site /\ phase[m.txn] = "prepare"
          /\ occ \in [Site -> [Txn -> Occ]]
      BY <1>4, MsgFields DEF PrepareTxn, IInv, MsgsOK, MsgOK, Votes, TypeOK, OccTypeOK
    <3>2. val' = val /\ CommitPrepare(m.site, m.txn)
      BY <1>4 DEF PrepareTxn, CommitPrepare
    <3>3. \A s \in Site, u \in Txn : u # m.txn => occ'[s][u] = occ[s][u]
      BY <3>1, <3>2, SMTT(60) DEF CommitPrepare
    <3>4. QED
      BY <3>1, <3>2, <3>3
  <2>2. \A c \in Cell : \A u \in Txn : u \in Pending(c)' <=> u \in Pending(c)
    BY <1>1, <2>1 DEF Pending, Staged, cvars
  <2>3. QED
    BY <2>1, <2>2, SameDB
<1>5. CASE FinishTxn(m)
  <2> SUFFICES ASSUME NEW c \in Cell, NEW s, NEW t, s = m.site, t = m.txn
               PROVE  DB'[c] = DB[c]
    OBVIOUS
  <2>1. /\ s \in Site /\ t \in Txn /\ m.type \in {"commit", "abort"} /\ phase[t] = m.type
        /\ m.type = "commit" => occ[s][t].verified
        /\ Release(s, t)
        /\ LET w == m.type = "commit" /\ occ[s][t].wver[c] # Absent
           IN  val'[c] = IF w THEN t ELSE val[c]
    BY <1>5, FinishTxnFacts
  <2>2. /\ occ'[s][t] = NewOcc
        /\ \A r \in Site, u \in Txn : r # s \/ u # t => occ'[r][u] = occ[r][u]
    <3>1. s \in Site /\ t \in Txn /\ Release(s, t)
      BY <2>1
    <3>2. occ'[s][t] = NewOcc
      BY <3>1, ReleaseFacts
    <3>3. \A r \in Site, u \in Txn : r # s \/ u # t =>
             occ'[r][u] = occ[r][u] /\ (u \in txn_map'[r] <=> u \in txn_map[r])
      BY <3>1, ReleaseFacts
    <3>4. QED
      BY <3>2, <3>3
  <2>3. CASE m.type = "commit" /\ occ[s][t].wver[c] # Absent
    <3>1. t \in Pending(c)
      BY <2>1, <2>3 DEF Pending, Staged
    <3>2. DB[c] = t /\ val'[c] = t
      BY <2>1, <2>3, <3>1 DEF Mapping
    <3>3. ASSUME NEW u \in Pending(c)'
          PROVE  FALSE
      <4>1. PICK q \in Site : u \in Txn /\ phase[u] = "commit" /\ occ'[q][u].wver[c] # Absent
        BY <1>1, <3>3 DEF Pending, Staged, cvars
      <4>2. q # s \/ u # t
        BY <2>2, <4>1, NewOccFields
      <4>3. occ[q][u].wver[c] # Absent
        BY <2>2, <4>1, <4>2
      <4>4. occ[q][u].verified
        BY <4>1, <4>3, CommittingVerified
      <4>5. QED
        BY <2>1, <2>3, <4>1, <4>2, <4>3, <4>4, WriterAlone, SMTT(60)
    <3>4. QED
      BY <3>2, <3>3 DEF Mapping
  <2>4. CASE ~(m.type = "commit" /\ occ[s][t].wver[c] # Absent)
    <3>1. ASSUME NEW u \in Txn
          PROVE  u \in Pending(c)' <=> u \in Pending(c)
      <4>1. \A q \in Site : phase[u] = "commit" =>
              (occ'[q][u].wver[c] # Absent <=> occ[q][u].wver[c] # Absent)
        BY <2>1, <2>2, <2>4, NewOccFields
      <4>2. QED
        BY <1>1, <4>1 DEF Pending, Staged, cvars
    <3>2. val'[c] = val[c]
      BY <2>1, <2>4
    <3>3. QED
      BY <3>1, <3>2, SameDB
  <2>5. QED
    BY <2>3, <2>4
<1>6. QED
  BY <1>3, <1>4, <1>5

\* Optimistic concurrency control with two-phase commit implements the serial
\* database, for any transactions, sites, rows and number of attempts: a
\* transaction that is answered with SUCCESS has read and written at the moment
\* finish sends commit_txn, and one answered with REJECT has changed nothing.
THEOREM Serializability == Spec => Serial
<1>1. Init => SD!Init
  <2> SUFFICES ASSUME Init PROVE SD!Init
    OBVIOUS
  <2>1. Mapping
    BY InitInv, MappingHolds
  <2>2. /\ \A c \in Cell : Pending(c) = {} /\ val[c] = NoTxn
        /\ \A t \in Txn : phase[t] = "new"
    BY DEF Init, OccInit, Pending
  <2>3. QED
    BY <2>1, <2>2 DEF Mapping, Decided, SD!Init
<1>2. ASSUME IInv, IInv', Mapping, Mapping', [Next]_vars
      PROVE  [SD!Next]_<<DB, Result, Seen>>
  <2>1. CASE /\ UNCHANGED <<output, tvars>>
             /\ \A u \in Txn : phase'[u] = phase[u] \/ {phase[u], phase'[u]} \subseteq {"new", "start", "prepare"}
    <3>1. UNCHANGED <<occ, val>>
      BY <2>1 DEF tvars
    <3>2. QED
      BY <1>2, <2>1, <3>1, QuietStep DEF Decided
  <2>2. CASE UNCHANGED vars
    BY <2>1, <2>2 DEF vars, cvars
  <2>3. CASE \E t \in Txn : DoOne(t) \/ SendPiece(t) \/ EndLoop(t)
    BY <1>2, <2>1, <2>3 DEF DoOne, SendPiece, EndLoop, IInv, TypeOK
  <2>4. ASSUME NEW m \in msgs, StartReply(m)
        PROVE  UNCHANGED <<DB, Result, Seen>>
    <3>1. m.piece.txn \in Txn /\ phase[m.piece.txn] = "start"
      BY <1>2, <2>4, MsgFields, PieceFields DEF StartReply, IInv, MsgsOK, MsgOK, Carries
    <3>2. /\ UNCHANGED tvars /\ output' = [output EXCEPT ![m.piece.txn] = @ \cup m.output]
          /\ phase' = phase \/ phase' = [phase EXCEPT ![m.piece.txn] = "prepare"]
      BY <2>4 DEF StartReply
    <3>3. \A u \in Txn : u # m.piece.txn => phase'[u] = phase[u] /\ output'[u] = output[u]
      BY <1>2, <3>1, <3>2 DEF IInv, TypeOK
    <3>4. phase'[m.piece.txn] \in {"start", "prepare"}
      BY <1>2, <3>1, <3>2 DEF IInv, TypeOK
    <3>5. UNCHANGED <<occ, val>>
      BY <3>2 DEF tvars
    <3>6. QED
      BY <1>2, <3>1, <3>3, <3>4, <3>5, QuietStep DEF Decided
  <2>5. ASSUME NEW m \in msgs, PrepareReply(m) \/ FinishReply(m)
        PROVE  [SD!Next]_<<DB, Result, Seen>>
    BY <1>2, <2>5, PrepareReplyStep, FinishReplyStep DEF SD!Next
  <2>6. ASSUME NEW m \in msgs, StartPie(m) \/ PrepareTxn(m) \/ FinishTxn(m)
        PROVE  UNCHANGED <<DB, Result, Seen>>
    BY <1>2, <2>6, SiteStep
  <2>7. QED
    BY <1>2, <2>2, <2>3, <2>4, <2>5, <2>6 DEF Next, Steps, AllDone
<1>3. QED
  BY <1>1, <1>2, Invariance, MappingHolds, PTL DEF Spec, Serial, SD!Spec
=============================================================================
