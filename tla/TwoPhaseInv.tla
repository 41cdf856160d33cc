---------------------------- MODULE TwoPhaseInv ----------------------------
(***************************************************************************)
(* The inductive invariant of module TwoPhase.                             *)
(***************************************************************************)
EXTENDS TwoPhase

Over == {"new", "SUCCESS", "REJECT"}

\* A site that does not have the transaction in txn_map_s has nothing of it; one
\* that has it was sent a piece and has not handled the end of the transaction.
Fresh ==
  \A s \in Site, t \in Txn :
     /\ t \notin txn_map[s] => occ[s][t] = NewOcc
     /\ t \in txn_map[s] => s \in Proxies(t) /\ phase[t] \notin Over

\* The versions a transaction has noted are those of its own pieces' cells, and
\* versions only grow.
Accesses ==
  \A s \in Site, t \in Txn, c \in Cell :
     /\ occ[s][t].rver[c] # Absent =>
          /\ occ[s][t].rver[c] <= ver[c]
          /\ \E p \in PiecesOf(t) : p.site = s /\ c \in p.reads
     /\ occ[s][t].wver[c] # Absent => \E p \in PiecesOf(t) : p.site = s /\ c \in p.writes

\* What a piece has read is still there as long as the version it noted is.
ReadOK(t, e) ==
  \/ e[2] = t /\ e[1] \in Writes[t]
  \/ \E p \in PiecesOf(t) :
        /\ e[1] \in p.reads
        /\ occ[p.site][t].rver[e[1]] # Absent
        /\ occ[p.site][t].rver[e[1]] = ver[e[1]] => e[2] = val[e[1]]

\* The piece has run: its writes are staged and all its reads are in out.
Ran(p, out) ==
  /\ p.txn \in txn_map[p.site]
  /\ \A c \in p.writes : occ[p.site][p.txn].wver[c] # Absent
  /\ \A c \in p.reads : \E v \in Txn \cup {NoTxn} : <<c, v>> \in out

Collecting(t) == phase[t] \in {"start", "prepare"}

OutputsOK ==
  \A t \in Txn : Collecting(t) =>
     /\ \A e \in output[t] : e[1] \in Reads[t] /\ ReadOK(t, e)
     /\ \A p \in started \cap PiecesOf(t) : Ran(p, output[t])

\* The phases of a transaction.
Phases ==
  \A t \in Txn :
     /\ phase[t] = "new" => PiecesOf(t) \cap sent = {} /\ ~looping[t] /\ output[t] = {}
     /\ phase[t] \notin {"new", "start"} => PiecesOf(t) \subseteq started
     /\ phase[t] \in {"new", "start"} => /\ prepared[t] = {} /\ finished[t] = {} /\ commit[t]
                                         /\ \A s \in Site : ~occ[s][t].verified
     /\ phase[t] = "prepare" => finished[t] = {}
     /\ phase[t] \in {"prepare", "commit"} /\ commit[t] =>
          \A s \in prepared[t] : t \in txn_map[s] => occ[s][t].verified
     /\ phase[t] = "commit" => commit[t] /\ prepared[t] = Proxies(t)
     /\ phase[t] = "abort" => ~commit[t]
     /\ phase[t] \in {"commit", "abort"} => \A s \in finished[t] : t \notin txn_map[s]

Carries(m) == m.type \in {"start", "start_reply"}
Ends(m) == m.type \in {"commit", "abort", "finish_reply"}
Votes(m) == m.type \in {"prepare", "prepare_reply"}

\* A message fits the phase of its transaction and the state of its site.
MsgOK(m) ==
  /\ Carries(m) => m.piece \in sent \ started /\ phase[m.piece.txn] = "start"
  /\ m.type = "start_reply" =>
       /\ \A e \in m.output : e[1] \in Reads[m.piece.txn] /\ ReadOK(m.piece.txn, e)
       /\ Ran(m.piece, m.output)
  /\ Votes(m) => /\ phase[m.txn] = "prepare"
                 /\ m.site \in Proxies(m.txn) \ prepared[m.txn]
                 /\ m.txn \in txn_map[m.site]
  /\ m.type = "prepare" => ~occ[m.site][m.txn].verified
  /\ m.type = "prepare_reply" => (m.res => occ[m.site][m.txn].verified)
  /\ Ends(m) => m.site \in Proxies(m.txn) \ finished[m.txn]
  /\ m.type = "commit" => phase[m.txn] = "commit" /\ m.txn \in txn_map[m.site]
  /\ m.type = "abort" => phase[m.txn] = "abort" /\ m.txn \in txn_map[m.site]
  /\ m.type = "finish_reply" =>
       phase[m.txn] \in {"commit", "abort"} /\ m.txn \notin txn_map[m.site]

\* Each piece, and each site of a transaction, has one message at a time.
OneMsg ==
  \A m, n \in msgs :
     /\ Carries(m) /\ Carries(n) /\ m.piece = n.piece => m = n
     /\ Votes(m) /\ Votes(n) /\ m.txn = n.txn /\ m.site = n.site => m = n
     /\ Ends(m) /\ Ends(n) /\ m.txn = n.txn /\ m.site = n.site => m = n

PieceFlow == started \subseteq sent

MsgsOK == \A m \in msgs : MsgOK(m)

\* A prepared transaction has the locks of what it has noted.
Held ==
  \A s \in Site, t \in Txn : occ[s][t].verified =>
     \A c \in Cell :
        /\ occ[s][t].rver[c] # Absent => lock[c.row].w = t \/ t \in lock[c.row].r
        /\ occ[s][t].wver[c] # Absent => lock[c.row].w = t

\* locks_ are locks of rows of the site the transaction is prepared at.
LocksNoted ==
  \A s \in Site, t \in Txn : \A r \in occ[s][t].locks :
     \E c \in Cell : c.row = r /\ (occ[s][t].rver[c] # Absent \/ occ[s][t].wver[c] # Absent)

\* The conjunction that every step of coordinators and sites preserves.
IInv ==
  /\ TypeOK
  /\ PieceFlow
  /\ Phases
  /\ Fresh
  /\ Accesses
  /\ OutputsOK
  /\ OneMsg
  /\ MsgsOK
  /\ LocksOwned
  /\ Held
  /\ LocksNoted
  /\ PreparedCurrent
=============================================================================
