----------------------------- MODULE Ap2pMsgAbs -----------------------------
(***************************************************************************)
(* Ap2pMsg implements MsgDelivery, when a node runs one command at a time  *)
(* and no commit fails unseen: an end of a connection is a row of a        *)
(* Connections table, and holds the Messages rows with its conn_id.        *)
(***************************************************************************)
EXTENDS Ap2pMsg

RowEnds == Nodes \X ConnIds

\* UNIQUE leaves at most one row of end e with number k.
ShownAt(e, k) ==
  LET rows == {r \in msgs[e[1]] : r.conn = e[2] /\ r.num = k} IN
  IF rows = {} THEN Null
  ELSE LET r == CHOOSE r \in rows : TRUE IN
       [body |-> r.body, mine |-> r.out, received |-> r.received]

boxOf == [e \in RowEnds |-> [k \in Nums |-> ShownAt(e, k)]]

peerOf ==
  [e \in RowEnds |->
    LET others == {f \in RowEnds : Reaches(e[1], e[2], f[1], f[2])} IN
    IF others = {} THEN Null ELSE CHOOSE f \in others : TRUE]

Delivery == INSTANCE MsgDelivery WITH
  Ends <- RowEnds, None <- Null, peer <- peerOf, box <- boxOf

\* NULL is neither an end nor a message.
ASSUME NullAssumption == Null \notin RowEnds \cup Delivery!Message

\* Messages keep what MsgDelivery promises, whatever parcels and processes are
\* lost: at most once, unaltered, on the connection they were written for, never
\* overwritten, and confirmed only if they have arrived.
ImplementsDelivery == Delivery!Spec
=============================================================================
