----------------------------- MODULE Ap2pMsgInv -----------------------------
(***************************************************************************)
(* The inductive invariant of Ap2pMsg: what StoredWasSent and              *)
(* ReceivedIsTrue rest on, for nodes that run one command at a time on     *)
(* settled tables.                                                         *)
(***************************************************************************)
EXTENDS Ap2pMsg

-----------------------------------------------------------------------------
(* The tables. *)

\* What is sent on row c of n is for row d of p.
ReachesIn(t, n, c, p, d) ==
  /\ t[n][c] # NoRow /\ t[p][d] # NoRow
  /\ t[n][c].status = "accepted"
  /\ t[n][c].peer = p
  /\ t[n][c].self_id = t[p][d].peer_id

\* No handshake is half done: an accepted row has the id it is known by, and the row it
\* reaches is accepted and reaches back to it alone.
Settled(t) ==
  \A n \in Nodes, c \in ConnIds :
    /\ t[n][c] # NoRow /\ t[n][c].status = "accepted" => t[n][c].self_id # Null
    /\ \A p \in Nodes, d \in ConnIds : ReachesIn(t, n, c, p, d) =>
         /\ t[p][d].status = "accepted"
         /\ \A q \in Nodes, e \in ConnIds : ReachesIn(t, p, d, q, e) => q = n /\ e = c

-----------------------------------------------------------------------------
(* The messages. *)

\* A message of n is in its table, as written on row c.
Has(n, c, num, body) ==
  \E r \in msgs[n] : r.out /\ r.conn = c /\ r.num = num /\ r.body = body

\* Parcel m says what a user wrote on the connection the parcel is for.
Wrote(m) ==
  \E n \in Nodes, c \in ConnIds :
    /\ IsRow(n, c) /\ conns[n][c].status = "accepted"
    /\ conns[n][c].peer = m.dst /\ conns[n][c].self_id = m.id
    /\ Has(n, c, m.num, m.body)

\* Parcel m acknowledges what a listener has stored.
HasStored(m) ==
  \E p \in Nodes, d \in ConnIds :
    /\ IsRow(p, d) /\ conns[p][d].status = "accepted"
    /\ conns[p][d].peer = m.dst /\ conns[p][d].self_id = m.id
    /\ \E q \in msgs[p] : ~q.out /\ q.conn = d /\ q.num = m.num

\* The parcels sent, or about to be.
Outgoing ==
  net \cup {m \in MsgParcel : \/ \E n \in Nodes : lst[n] = Sending(m)
                              \/ \E n \in Nodes, k \in Slots : cmd[n][k] = Sending(m)}

True(m) == (m.kind = "MSG_SEND" => Wrote(m)) /\ (m.kind = "MSG_RCV" => HasStored(m))

ParcelsAreTrue == \A m \in Outgoing : True(m)

\* A command between its statements has its row in the connection selected.
Drafted(n, k) ==
  cmd[n][k].pc = "lookup" => Has(n, sel[n], cmd[n][k].num, cmd[n][k].body)

\* A listener between its statements has a true parcel, and the row it is for.
Bound(n) ==
  lst[n].pc = "store" =>
    LET m == lst[n].parcel IN
    /\ m.kind = "MSG_SEND" /\ m.dst = n /\ Wrote(m)
    /\ \E d \in ConnIds : /\ HasPeerId(n, d, m.id) /\ conns[n][d].status = "accepted"
                          /\ conns[n][d].self_id = lst[n].self_id
                          /\ conns[n][d].peer = lst[n].peer

\* UNIQUE(conn_id, shared_msg_id).
NumsDiffer ==
  \A n \in Nodes : \A r, s \in msgs[n] :
    r.conn = s.conn /\ r.conn # Null /\ r.num = s.num => r = s

MsgInv ==
  /\ TypeOK
  /\ held = [n \in Nodes |-> FALSE]
  /\ ParcelsAreTrue
  /\ \A n \in Nodes, k \in Slots : Drafted(n, k)
  /\ \A n \in Nodes : Bound(n)
  /\ NumsDiffer
  /\ StoredWasSent
  /\ ReceivedIsTrue

\* Of a node whose tables are not settled, MsgInv is not claimed.
SettledInv == Settled(conns) => MsgInv

=============================================================================
