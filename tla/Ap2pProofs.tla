----------------------------- MODULE Ap2pProofs -----------------------------
(***************************************************************************)
(* Proofs about the whole of a node.                                       *)
(*                                                                         *)
(*   1. Each step of Ap2p is, to the handshake, a step of Ap2pConn or no   *)
(*      step (StepSeen), whatever the constants: MessagesTakeNoPart.  The  *)
(*      invariants proved of Ap2pConn hold of a node that sends messages.  *)
(*   2. Of nodes that run one command at a time that invariant says that   *)
(*      rows keep their ends (RowsStay).  On it rests MsgInv: a step adds  *)
(*      to what is written and stored and takes nothing back (Grows), so   *)
(*      that all that was true stays so (the Kept lemmas), and what it     *)
(*      sends or marks anew is true (the Owes lemmas).                     *)
(*   3. From the two: no message without consent, none unsent that is not  *)
(*      pending, none shown as received that is not stored.                *)
(*   4. Consent needs less than MsgInv: ConsentInv holds whatever stops,   *)
(*      dies or fails to commit (ConsentRestsOnHandshake).                 *)
(***************************************************************************)
EXTENDS Ap2pInv, TLAPS

\* The handshake, with what is proved of it.  A statement that fails for a lock is to
\* it an "sql" fault.
H == INSTANCE Ap2pConnAgreeProofs
       WITH net <- connNet, lst <- connLst, cmd <- connCmd, Faults <- Faults \cup {"sql"}

-----------------------------------------------------------------------------
(* What a process and a parcel are.                                        *)

\* The instances say the same words.
LEMMA Words ==
  /\ C!Idle = Idle /\ M!Idle = Idle /\ H!Idle = Idle
  /\ C!Loop = Loop /\ M!Loop = Loop /\ H!Loop = Loop
  /\ M!Off = Off /\ H!Off = Off
  /\ \A m : C!Sending(m) = Sending(m) /\ M!Sending(m) = Sending(m)
            /\ H!Sending(m) = Sending(m)
  /\ \A k, n, p, i, j : /\ C!Parcel(k, n, p, i, j) = Parcel(k, n, p, i, j)
                        /\ H!Parcel(k, n, p, i, j) = Parcel(k, n, p, i, j)
  /\ \A c, i, p, acc : H!Deciding(c, i, p, acc) = C!Deciding(c, i, p, acc)
BY DEF C!Idle, M!Idle, H!Idle, Idle, C!Loop, M!Loop, H!Loop, Loop, M!Off, H!Off, Off,
       C!Sending, M!Sending, H!Sending, Sending, C!Parcel, H!Parcel, Parcel,
       H!Deciding, C!Deciding

\* They read the Connections tables alike.
LEMMA Tables ==
  \A n, c : /\ C!IsRow(n, c) <=> IsRow(n, c)
            /\ M!IsRow(n, c) <=> IsRow(n, c)
            /\ H!IsRow(n, c) <=> IsRow(n, c)
            /\ H!Asked(n, c) <=> Asked(n, c)
            /\ H!Offered(n, c) <=> Offered(n, c)
            /\ \A id : /\ M!HasPeerId(n, c, id) <=> HasPeerId(n, c, id)
                       /\ H!HasPeerId(n, c, id) <=> HasPeerId(n, c, id)
BY DEF C!IsRow, M!IsRow, H!IsRow, IsRow, H!Asked, Asked, H!Offered, Offered,
       M!HasPeerId, H!HasPeerId, HasPeerId

LEMMA Positions ==
  /\ Off.pc = "off" /\ Loop.pc = "loop" /\ Idle.pc = "idle"
  /\ \A m : Sending(m).pc = "send" /\ Sending(m).parcel = m
  /\ \A c, i, p, acc : C!Deciding(c, i, p, acc).pc = "decide"
  /\ \A k, b : /\ M!LookingUp(k, b).pc = "lookup"
               /\ M!LookingUp(k, b).num = k /\ M!LookingUp(k, b).body = b
  /\ \A m, s, p : /\ M!Storing(m, s, p).pc = "store" /\ M!Storing(m, s, p).parcel = m
                  /\ M!Storing(m, s, p).self_id = s /\ M!Storing(m, s, p).peer = p
BY DEF Off, Loop, Idle, Sending, C!Deciding, M!LookingUp, M!Storing

LEMMA WhoIsOfMessages ==
  /\ ~OfMessages(Off) /\ ~OfMessages(Loop) /\ ~OfMessages(Idle)
  /\ \A m : OfMessages(Sending(m)) <=> m.kind \notin ConnKinds
  /\ \A c, i, p, acc : ~OfMessages(C!Deciding(c, i, p, acc))
  /\ \A k, b : OfMessages(M!LookingUp(k, b))
  /\ \A m, s, p : OfMessages(M!Storing(m, s, p))
BY Positions DEF OfMessages

LEMMA ParcelFields ==
  ASSUME NEW m \in AnyParcel
  PROVE  /\ m.dst \in Nodes /\ m.id \in Ids
         /\ m \in ConnParcel <=> m.kind \in ConnKinds
         /\ m.kind \notin ConnKinds => m.num \in M!Nums
         /\ m.kind \notin ConnKinds => m.kind \in {"MSG_SEND", "MSG_RCV"}
         /\ m.kind = "MSG_SEND" <=> m \in M!MsgSends
         /\ m \in M!MsgSends => m.body \in Bodies
<1>1. CASE m \in ConnParcel  BY <1>1 DEF ConnParcel, ConnKinds, M!MsgSends
<1>2. CASE m \in M!MsgSends
  BY <1>2 DEF ConnParcel, ConnKinds, M!MsgSends
<1>3. CASE m \in M!MsgRcvs
  BY <1>3 DEF ConnParcel, ConnKinds, M!MsgSends, M!MsgRcvs
<1> QED  BY <1>1, <1>2, <1>3 DEF AnyParcel, M!MsgParcel

LEMMA ParcelTypes ==
  ASSUME NEW p \in Nodes, NEW i \in Ids, NEW k \in M!Nums, NEW b \in Bodies
  PROVE  /\ M!MsgSend(p, i, k, b) \in AnyParcel
         /\ M!MsgSend(p, i, k, b).kind = "MSG_SEND" /\ M!MsgSend(p, i, k, b).dst = p
         /\ M!MsgSend(p, i, k, b).id = i /\ M!MsgSend(p, i, k, b).num = k
         /\ M!MsgSend(p, i, k, b).body = b
BY DEF M!MsgSend, AnyParcel, M!MsgParcel, M!MsgSends

LEMMA AnswerTypes ==
  ASSUME NEW p \in Nodes, NEW i \in Ids, NEW k \in M!Nums
  PROVE  /\ M!MsgRcv(p, i, k) \in AnyParcel
         /\ M!MsgRcv(p, i, k).kind = "MSG_RCV" /\ M!MsgRcv(p, i, k).dst = p
         /\ M!MsgRcv(p, i, k).id = i /\ M!MsgRcv(p, i, k).num = k
BY DEF M!MsgRcv, AnyParcel, M!MsgParcel, M!MsgRcvs

LEMMA CommandAt ==
  ASSUME MsgTypes, NEW n \in Nodes, NEW k \in Slots
  PROVE  /\ cmd[n][k] \in CommandState
         /\ cmd[n][k].pc = "send" =>
              cmd[n][k] = Sending(cmd[n][k].parcel) /\ cmd[n][k].parcel \in AnyParcel
         /\ cmd[n][k].pc = "decide" =>
              \E c \in ConnIds, i \in Ids, p \in Nodes, acc \in BOOLEAN :
                cmd[n][k] = C!Deciding(c, i, p, acc)
         /\ cmd[n][k].pc = "lookup" =>
              /\ cmd[n][k].num \in M!Nums /\ cmd[n][k].body \in Bodies
              /\ cmd[n][k] = M!LookingUp(cmd[n][k].num, cmd[n][k].body)
<1>0. cmd[n][k] \in CommandState  BY DEF MsgTypes
<1>1. CASE cmd[n][k] = Idle  BY <1>0, <1>1, Positions
<1>2. CASE \E m \in AnyParcel : cmd[n][k] = Sending(m)  BY <1>0, <1>2, Positions
<1>3. CASE \E c \in ConnIds, i \in Ids, p \in Nodes, acc \in BOOLEAN :
             cmd[n][k] = C!Deciding(c, i, p, acc)
  BY <1>0, <1>3, Positions
<1>4. CASE \E i \in M!Nums, b \in Bodies : cmd[n][k] = M!LookingUp(i, b)
  BY <1>0, <1>4, Positions
<1> QED  BY <1>0, <1>1, <1>2, <1>3, <1>4 DEF CommandState

LEMMA ListenerAt ==
  ASSUME MsgTypes, NEW n \in Nodes
  PROVE  /\ lst[n] \in ListenerState
         /\ lst[n].pc = "send" =>
              lst[n] = Sending(lst[n].parcel) /\ lst[n].parcel \in AnyParcel
         /\ lst[n].pc = "store" =>
              /\ lst[n].parcel \in M!MsgSends /\ lst[n].self_id \in Ids
              /\ lst[n].peer \in Nodes
              /\ lst[n] = M!Storing(lst[n].parcel, lst[n].self_id, lst[n].peer)
<1>0. lst[n] \in ListenerState  BY DEF MsgTypes
<1>1. CASE lst[n] \in {Off, Loop}  BY <1>0, <1>1, Positions
<1>2. CASE \E m \in AnyParcel : lst[n] = Sending(m)  BY <1>0, <1>2, Positions
<1>3. CASE \E m \in M!MsgSends, i \in Ids, p \in Nodes : lst[n] = M!Storing(m, i, p)
  BY <1>0, <1>3, Positions
<1> QED  BY <1>0, <1>1, <1>2, <1>3 DEF ListenerState

-----------------------------------------------------------------------------
(* What the handshake sees of a step.                                      *)

LEMMA CmdSeen ==
  ASSUME MsgTypes, NEW n \in Nodes, NEW k \in Slots, NEW v, ~OfMessages(v),
         cmd' = [cmd EXCEPT ![n][k] = v]
  PROVE  connCmd' = [connCmd EXCEPT ![n][k] = v]
BY DEF MsgTypes, connCmd

LEMMA LstSeen ==
  ASSUME MsgTypes, NEW n \in Nodes, NEW v, ~OfMessages(v), lst' = [lst EXCEPT ![n] = v]
  PROVE  connLst' = [connLst EXCEPT ![n] = v]
BY DEF MsgTypes, connLst

LEMMA CmdSends ==
  ASSUME MsgTypes, NEW n \in Nodes, NEW k \in Slots, NEW kind \in ConnKinds,
         NEW p, NEW i, NEW j, cmd' = [cmd EXCEPT ![n][k] = Sending(Parcel(kind, n, p, i, j))]
  PROVE  connCmd' = [connCmd EXCEPT ![n][k] = H!Sending(H!Parcel(kind, n, p, i, j))]
<1>0. PICK v : v = Sending(Parcel(kind, n, p, i, j))  OBVIOUS
<1>1. ~OfMessages(v)  BY <1>0, WhoIsOfMessages DEF Parcel
<1>2. v = H!Sending(H!Parcel(kind, n, p, i, j))  BY <1>0, Words
<1>3. cmd' = [cmd EXCEPT ![n][k] = v]  BY <1>0
<1>4. connCmd' = [connCmd EXCEPT ![n][k] = v]
  BY ONLY MsgTypes, n \in Nodes, k \in Slots, <1>1, <1>3, CmdSeen
<1> QED  BY <1>2, <1>4

LEMMA CmdUnseen ==
  ASSUME MsgTypes, NEW n \in Nodes, NEW k \in Slots, NEW v,
         cmd' = [cmd EXCEPT ![n][k] = v],
         OfMessages(v) \/ v = Idle, OfMessages(cmd[n][k]) \/ cmd[n][k] = Idle
  PROVE  connCmd' = connCmd
BY DEF MsgTypes, connCmd

LEMMA LstUnseen ==
  ASSUME MsgTypes, NEW n \in Nodes, NEW v, lst' = [lst EXCEPT ![n] = v],
         OfMessages(v) \/ v = Loop, OfMessages(lst[n]) \/ lst[n] = Loop
  PROVE  connLst' = connLst
BY DEF MsgTypes, connLst

LEMMA Unseen ==
  /\ UNCHANGED net => connNet' = connNet
  /\ UNCHANGED lst => connLst' = connLst
  /\ UNCHANGED cmd => connCmd' = connCmd
BY DEF connNet, connLst, connCmd, OfMessages

-----------------------------------------------------------------------------
(* A step of a node is a step of the handshake, or none.                   *)

\* The handshake sees nothing of the step.
NotSeen == conns' = conns /\ connNet' = connNet /\ connLst' = connLst /\ connCmd' = connCmd

LEMMA NetSeen ==
  /\ \A m : net' = net \ {m} =>
       connNet' = IF m.kind \in ConnKinds THEN connNet \ {m} ELSE connNet
  /\ \A m : net' = net \cup {m} =>
       connNet' = IF m.kind \in ConnKinds THEN connNet \cup {m} ELSE connNet
  /\ \A n : net' = {m \in net : m.dst # n} => connNet' = {m \in connNet : m.dst # n}
BY DEF connNet

LEMMA ListeningSeen ==
  ASSUME NEW n \in Nodes
  PROVE  H!Listening(n) <=> Listening(n)
BY Positions DEF H!Listening, Listening, connLst, OfMessages

LEMMA CmdThere ==
  ASSUME NEW n \in Nodes, NEW k \in Slots
  PROVE  connCmd[n][k] = IF OfMessages(cmd[n][k]) THEN Idle ELSE cmd[n][k]
BY DEF connCmd

LEMMA LstThere ==
  ASSUME NEW n \in Nodes
  PROVE  connLst[n] = IF OfMessages(lst[n]) THEN Loop ELSE lst[n]
BY DEF connLst

LEMMA SendSeen ==
  ASSUME MsgTypes, NEW m \in AnyParcel, SendParcel(m)
  PROVE  /\ m.kind \in ConnKinds => H!SendParcel(m)
         /\ m.kind \notin ConnKinds => connNet' = connNet
<1>1. m.dst \in Nodes  BY ParcelFields
<1>2. H!Listening(m.dst) <=> Listening(m.dst)  BY <1>1, ListeningSeen
<1>3. CASE net' = net \cup {m}
  BY <1>2, <1>3, NetSeen DEF SendParcel, H!SendParcel
<1>4. CASE (~Listening(m.dst) \/ "loss" \in Faults) /\ net' = net
  <2>1. connNet' = connNet  BY <1>4, Unseen
  <2>2. ~Listening(m.dst) \/ "loss" \in Faults  BY <1>4
  <2> QED  BY <1>2, <2>1, <2>2 DEF H!SendParcel
<1> QED  BY <1>3, <1>4 DEF SendParcel

LEMMA ReceiveSeen ==
  ASSUME NEW n \in Nodes, NEW kind \in ConnKinds, NEW m, C!Receive(n, kind, m)
  PROVE  m \in connNet /\ H!Receive(n, kind, m)
<1>1. /\ lst[n] = Loop /\ m \in net /\ m.dst = n /\ m.kind = kind /\ net' = net \ {m}
  BY Words DEF C!Receive
<1>2. connLst[n] = H!Loop  BY <1>1, Words, WhoIsOfMessages DEF connLst
<1>3. m \in connNet /\ connNet' = connNet \ {m}  BY <1>1, NetSeen DEF connNet
<1> QED  BY <1>1, <1>2, <1>3 DEF H!Receive

\* The commands of the handshake.
LEMMA RequestSeen ==
  ASSUME MsgTypes, NEW n \in Nodes, NEW k \in Slots, NEW p \in Nodes, C!Request(n, k, p)
  PROVE  H!Request(n, k, p)
<1>1. PICK c \in ConnIds, id \in Ids :
        /\ C!FreshRow(n, c) /\ C!PeerIdFree(n, c, id)
        /\ conns' = [conns EXCEPT ![n][c] =
             [by |-> "request", peer_id |-> id, self_id |-> Null, peer |-> p,
              named |-> FALSE, status |-> "pending"]]
        /\ cmd' = [cmd EXCEPT ![n][k] = Sending(Parcel("CONN_REQ", n, p, id, Null))]
  BY Words DEF C!Request
<1>2. H!FreshRow(n, c) /\ H!PeerIdFree(n, c, id)
  BY <1>1 DEF H!FreshRow, C!FreshRow, H!PeerIdFree, C!PeerIdFree, H!IsRow, C!IsRow,
              H!HasPeerId, C!HasPeerId
<1>3. connCmd[n][k] = H!Idle
  BY CmdThere, Words, WhoIsOfMessages DEF C!Request
<1>4. {d \in ConnIds : H!Asked(n, d)} = {d \in ConnIds : C!Asked(n, d)}
  BY DEF H!Asked, C!Asked, H!IsRow, C!IsRow
<1>5. H!Cardinality({d \in ConnIds : H!Asked(n, d)}) < MaxRequests
  BY <1>4 DEF C!Request, H!Cardinality, C!Cardinality
<1>6. connCmd' = [connCmd EXCEPT ![n][k] =
                    H!Sending(H!Parcel("CONN_REQ", n, p, id, Null))]
  <2>1. PICK kind \in ConnKinds : kind = "CONN_REQ"  BY DEF ConnKinds
  <2>2. cmd' = [cmd EXCEPT ![n][k] = Sending(Parcel(kind, n, p, id, Null))]
    BY <1>1, <2>1
  <2> QED  BY <2>1, <2>2, CmdSends
<1>7. connNet' = connNet /\ connLst' = connLst  BY Unseen DEF C!Request
<1> QED  BY <1>1, <1>2, <1>3, <1>5, <1>6, <1>7 DEF H!Request

LEMMA SelectSeen ==
  ASSUME MsgTypes, NEW n \in Nodes, NEW k \in Slots, NEW c \in ConnIds, NEW acc \in BOOLEAN,
         C!DecideSelect(n, k, c, acc)
  PROVE  H!DecideSelect(n, k, c, acc)
<1>1. connCmd[n][k] = H!Idle
  BY CmdThere, Words, WhoIsOfMessages DEF C!DecideSelect
<1>2. connCmd' = [connCmd EXCEPT ![n][k] =
                    H!Deciding(c, conns[n][c].self_id, conns[n][c].peer, acc)]
  <2>0. PICK v : v = C!Deciding(c, conns[n][c].self_id, conns[n][c].peer, acc)  OBVIOUS
  <2>1. cmd' = [cmd EXCEPT ![n][k] = v]  BY <2>0 DEF C!DecideSelect
  <2>2. ~OfMessages(v)  BY <2>0, WhoIsOfMessages
  <2>3. v = H!Deciding(c, conns[n][c].self_id, conns[n][c].peer, acc)  BY <2>0, Words
  <2>4. connCmd' = [connCmd EXCEPT ![n][k] = v]  BY <2>1, <2>2, CmdSeen
  <2> QED  BY <2>3, <2>4
<1>3. connNet' = connNet /\ connLst' = connLst  BY Unseen DEF C!DecideSelect
<1> QED  BY <1>1, <1>2, <1>3, Tables DEF C!DecideSelect, H!DecideSelect

LEMMA DeciderSeen ==
  ASSUME NEW n \in Nodes, NEW k \in Slots, cmd[n][k].pc = "decide"
  PROVE  connCmd[n][k] = cmd[n][k]
BY CmdThere DEF OfMessages

LEMMA RejectSeen ==
  ASSUME MsgTypes, NEW n \in Nodes, NEW k \in Slots, C!DecideReject(n, k)
  PROVE  H!DecideReject(n, k)
<1>1. connCmd[n][k] = cmd[n][k]  BY DeciderSeen DEF C!DecideReject
<1>2. connCmd' = [connCmd EXCEPT ![n][k] =
        H!Sending(H!Parcel("CONN_REJ", n, cmd[n][k].peer, cmd[n][k].id, Null))]
  <2>1. PICK kind \in ConnKinds : kind = "CONN_REJ"  BY DEF ConnKinds
  <2>2. cmd' = [cmd EXCEPT ![n][k] =
                  Sending(Parcel(kind, n, cmd[n][k].peer, cmd[n][k].id, Null))]
    BY <2>1, Words DEF C!DecideReject
  <2> QED  BY <2>1, <2>2, CmdSends
<1>3. connNet' = connNet /\ connLst' = connLst  BY Unseen DEF C!DecideReject
<1> QED  BY <1>1, <1>2, <1>3 DEF C!DecideReject, H!DecideReject

LEMMA AcceptSeen ==
  ASSUME MsgTypes, NEW n \in Nodes, NEW k \in Slots, C!DecideAccept(n, k)
  PROVE  H!DecideAccept(n, k)
<1>1. connCmd[n][k] = cmd[n][k]  BY DeciderSeen DEF C!DecideAccept
<1>2. PICK new \in Ids :
        /\ C!PeerIdFree(n, cmd[n][k].conn, new)
        /\ conns' = [conns EXCEPT ![n][cmd[n][k].conn].peer_id = new,
                                  ![n][cmd[n][k].conn].status = "accepted"]
        /\ cmd' = [cmd EXCEPT ![n][k] =
             Sending(Parcel("CONN_ACC", n, cmd[n][k].peer, cmd[n][k].id, new))]
  BY Words DEF C!DecideAccept
<1>3. connCmd' = [connCmd EXCEPT ![n][k] =
        H!Sending(H!Parcel("CONN_ACC", n, cmd[n][k].peer, cmd[n][k].id, new))]
  <2>1. PICK kind \in ConnKinds : kind = "CONN_ACC"  BY DEF ConnKinds
  <2>2. cmd' = [cmd EXCEPT ![n][k] =
                  Sending(Parcel(kind, n, cmd[n][k].peer, cmd[n][k].id, new))]
    BY <1>2, <2>1
  <2> QED  BY <2>1, <2>2, CmdSends
<1>4. connNet' = connNet /\ connLst' = connLst  BY Unseen DEF C!DecideAccept
<1>5. H!PeerIdFree(n, cmd[n][k].conn, new)
  BY <1>2 DEF H!PeerIdFree, C!PeerIdFree, H!HasPeerId, C!HasPeerId, H!IsRow, C!IsRow
<1> QED  BY <1>1, <1>2, <1>3, <1>4, <1>5 DEF C!DecideAccept, H!DecideAccept

LEMMA CollideSeen ==
  ASSUME MsgTypes, NEW n \in Nodes, NEW k \in Slots, C!DecideCollide(n, k)
  PROVE  H!DecideCollide(n, k)
<1>1. connCmd[n][k] = cmd[n][k]  BY DeciderSeen DEF C!DecideCollide
<1>2. connCmd' = [connCmd EXCEPT ![n][k] = H!Idle]
  BY CmdSeen, Words, WhoIsOfMessages DEF C!DecideCollide
<1>3. connNet' = connNet /\ connLst' = connLst  BY Unseen DEF C!DecideCollide
<1> QED
  BY <1>1, <1>2, <1>3 DEF C!DecideCollide, H!DecideCollide, H!PeerIdFree, C!PeerIdFree,
       H!HasPeerId, C!HasPeerId, H!IsRow, C!IsRow

\* A decision a lock keeps from being written is one whose statement failed.
LEMMA BlockedSeen ==
  ASSUME MsgTypes, NEW n \in Nodes, NEW k \in Slots, DecideBlocked(n, k)
  PROVE  H!CommandExit(n, k)
<1>1. connCmd[n][k] = cmd[n][k] /\ cmd[n][k] # Idle
  BY DeciderSeen, Positions DEF DecideBlocked
<1>2. connCmd' = [connCmd EXCEPT ![n][k] = H!Idle]
  BY CmdSeen, Words, WhoIsOfMessages DEF DecideBlocked
<1>3. connNet' = connNet /\ connLst' = connLst  BY Unseen DEF DecideBlocked
<1> QED  BY <1>1, <1>2, <1>3, Words DEF DecideBlocked, H!CommandExit

\* The handlers of its parcels.
LEMMA LstSends ==
  ASSUME MsgTypes, NEW n \in Nodes, NEW kind \in ConnKinds,
         NEW p, NEW i, NEW j, lst' = [lst EXCEPT ![n] = Sending(Parcel(kind, n, p, i, j))]
  PROVE  connLst' = [connLst EXCEPT ![n] = H!Sending(H!Parcel(kind, n, p, i, j))]
<1>0. PICK v : v = Sending(Parcel(kind, n, p, i, j))  OBVIOUS
<1>1. ~OfMessages(v)  BY <1>0, WhoIsOfMessages DEF Parcel
<1>2. v = H!Sending(H!Parcel(kind, n, p, i, j))  BY <1>0, Words
<1>3. lst' = [lst EXCEPT ![n] = v]  BY <1>0
<1>4. connLst' = [connLst EXCEPT ![n] = v]
  BY ONLY MsgTypes, n \in Nodes, <1>1, <1>3, LstSeen
<1> QED  BY <1>2, <1>4

LEMMA HandleReqSeen ==
  ASSUME MsgTypes, NEW n \in Nodes, NEW m, C!HandleReq(n, m)
  PROVE  m \in connNet /\ H!HandleReq(n, m)
<1>1. m \in connNet /\ H!Receive(n, "CONN_REQ", m)
  BY ReceiveSeen DEF C!HandleReq, ConnKinds
<1>2. PICK c \in ConnIds :
        /\ C!FreshRow(n, c)
        /\ conns' = [conns EXCEPT ![n][c] =
             [by |-> "listener", peer_id |-> Null, self_id |-> m.id,
              peer |-> m.src, named |-> TRUE, status |-> "self_review"]]
  BY DEF C!HandleReq
<1>3. H!FreshRow(n, c)  BY <1>2 DEF H!FreshRow, C!FreshRow, H!IsRow, C!IsRow
<1>4. connLst' = [connLst EXCEPT ![n] =
                    H!Sending(H!Parcel("CONN_ACK", n, m.src, m.id, Null))]
  <2>1. PICK kind \in ConnKinds : kind = "CONN_ACK"  BY DEF ConnKinds
  <2>2. lst' = [lst EXCEPT ![n] = Sending(Parcel(kind, n, m.src, m.id, Null))]
    <3>1. C!Sending(C!Parcel("CONN_ACK", n, m.src, m.id, Null))
            = Sending(Parcel("CONN_ACK", n, m.src, m.id, Null))
      BY Words
    <3> QED  BY <2>1, <3>1 DEF C!HandleReq
  <2>3. connLst' = [connLst EXCEPT ![n] = H!Sending(H!Parcel(kind, n, m.src, m.id, Null))]
    BY ONLY MsgTypes, n \in Nodes, <2>1, <2>2, LstSends
  <2> QED  BY <2>1, <2>3
<1>5. connCmd' = connCmd  BY Unseen DEF C!HandleReq
<1> QED  BY <1>1, <1>2, <1>3, <1>4, <1>5 DEF H!HandleReq

LEMMA HandleReplySeen ==
  ASSUME NEW n \in Nodes, NEW m, C!HandleAck(n, m) \/ C!HandleRej(n, m) \/ C!HandleAcc(n, m)
  PROVE  m \in connNet /\ (H!HandleAck(n, m) \/ H!HandleRej(n, m) \/ H!HandleAcc(n, m))
<1>1. connLst' = connLst /\ connCmd' = connCmd
  BY Unseen DEF C!HandleAck, C!HandleRej, C!HandleAcc
<1>2. CASE C!HandleAck(n, m)
  <2>1. m \in connNet /\ H!Receive(n, "CONN_ACK", m)
    BY <1>2, ReceiveSeen DEF C!HandleAck, ConnKinds
  <2>2. H!Acknowledged(n, m.id) = C!Acknowledged(n, m.id)
    BY DEF H!Acknowledged, C!Acknowledged, H!HasPeerId, C!HasPeerId, H!IsRow, C!IsRow
  <2> QED  BY <1>1, <1>2, <2>1, <2>2 DEF C!HandleAck, H!HandleAck
<1>3. CASE C!HandleRej(n, m)
  <2>1. m \in connNet /\ H!Receive(n, "CONN_REJ", m)
    BY <1>3, ReceiveSeen DEF C!HandleRej, ConnKinds
  <2>2. H!Refused(n, m.id) = C!Refused(n, m.id)
    BY DEF H!Refused, C!Refused, H!HasPeerId, C!HasPeerId, H!IsRow, C!IsRow
  <2> QED  BY <1>1, <1>3, <2>1, <2>2 DEF C!HandleRej, H!HandleRej
<1>4. CASE C!HandleAcc(n, m)
  <2>1. m \in connNet /\ H!Receive(n, "CONN_ACC", m)
    BY <1>4, ReceiveSeen DEF C!HandleAcc, ConnKinds
  <2>2. H!Granted(n, m.id, m.new_id) = C!Granted(n, m.id, m.new_id)
    BY DEF H!Granted, C!Granted, H!HasPeerId, C!HasPeerId, H!IsRow, C!IsRow
  <2> QED  BY <1>1, <1>4, <2>1, <2>2 DEF C!HandleAcc, H!HandleAcc
<1> QED  BY <1>2, <1>3, <1>4

LEMMA HandlersSeen ==
  ASSUME MsgTypes, NEW n \in Nodes, C!Handle(n)
  PROVE  H!Handle(n)
BY HandleReqSeen, HandleReplySeen DEF C!Handle, H!Handle

\* What the two kinds of parcel share.
LEMMA StartSeen ==
  ASSUME MsgTypes, NEW n \in Nodes, M!StartListening(n)
  PROVE  H!StartListening(n)
<1>1. connLst[n] = H!Off  BY LstThere, Words, WhoIsOfMessages DEF M!StartListening
<1>2. connLst' = [connLst EXCEPT ![n] = H!Loop]
  BY LstSeen, Words, WhoIsOfMessages DEF M!StartListening
<1>3. connNet' = connNet /\ connCmd' = connCmd  BY Unseen DEF M!StartListening
<1> QED  BY <1>1, <1>2, <1>3 DEF M!StartListening, H!StartListening

LEMMA StopSeen ==
  ASSUME MsgTypes, NEW n \in Nodes, M!Stop(n)
  PROVE  H!StopListening(n)
<1>1. /\ (lst[n] = Loop /\ "stop" \in Faults) \/ (Listening(n) /\ "crash" \in Faults)
      /\ lst' = [lst EXCEPT ![n] = Off]
      /\ net' = {m \in net : m.dst # n}
      /\ conns' = conns /\ cmd' = cmd
  BY Words DEF M!Stop, M!StopListening, M!Listening, Listening
<1>2. lst[n] = Loop => connLst[n] = H!Loop  BY LstThere, Words, WhoIsOfMessages
<1>3. Listening(n) => H!Listening(n)  BY ListeningSeen
<1>4. connLst' = [connLst EXCEPT ![n] = H!Off]
  BY <1>1, LstSeen, Words, WhoIsOfMessages
<1>5. connNet' = {m \in connNet : m.dst # n}  BY <1>1, NetSeen
<1>6. connCmd' = connCmd  BY <1>1, Unseen
<1> QED  BY <1>1, <1>2, <1>3, <1>4, <1>5, <1>6 DEF H!StopListening

LEMMA ListenerSendSeen ==
  ASSUME MsgTypes, NEW n \in Nodes, M!ListenerSend(n)
  PROVE  H!ListenerSend(n) \/ NotSeen
<1>1. /\ lst[n].pc = "send" /\ SendParcel(lst[n].parcel)
      /\ lst' = [lst EXCEPT ![n] = Loop]
      /\ conns' = conns /\ cmd' = cmd
  BY Words DEF M!ListenerSend, M!SendParcel, SendParcel, M!Listening, Listening
<1>2. PICK m \in AnyParcel : lst[n] = Sending(m) /\ lst[n].parcel = m
  BY <1>1, ListenerAt
<1>3. connCmd' = connCmd  BY <1>1, Unseen
<1>4. CASE m.kind \in ConnKinds
  <2>1. connLst[n] = lst[n]  BY <1>2, <1>4, LstThere, WhoIsOfMessages
  <2>2. connLst' = [connLst EXCEPT ![n] = H!Loop]
    BY <1>1, LstSeen, Words, WhoIsOfMessages
  <2>3. H!SendParcel(m)  BY <1>1, <1>2, <1>4, SendSeen
  <2> QED  BY <1>1, <1>2, <1>3, <2>1, <2>2, <2>3 DEF H!ListenerSend
<1>5. CASE m.kind \notin ConnKinds
  <2>1. connLst' = connLst  BY <1>1, <1>2, <1>5, LstUnseen, WhoIsOfMessages
  <2>2. connNet' = connNet  BY <1>1, <1>2, <1>5, SendSeen
  <2> QED  BY <1>1, <1>3, <2>1, <2>2 DEF NotSeen
<1> QED  BY <1>4, <1>5

LEMMA DropSeen ==
  ASSUME MsgTypes, NEW n \in Nodes, M!DropParcel(n)
  PROVE  H!DropParcel(n) \/ NotSeen
<1>1. PICK m \in net : m.dst = n /\ net' = net \ {m}  BY DEF M!DropParcel
<1>2. lst[n] = Loop /\ conns' = conns /\ lst' = lst /\ cmd' = cmd
  BY Words DEF M!DropParcel
<1>3. connLst' = connLst /\ connCmd' = connCmd  BY <1>2, Unseen
<1>4. CASE m.kind \in ConnKinds
  <2>1. connLst[n] = H!Loop  BY <1>2, LstThere, Words, WhoIsOfMessages
  <2>2. m \in connNet /\ connNet' = connNet \ {m}  BY <1>1, <1>4, NetSeen DEF connNet
  <2> QED  BY <1>1, <1>2, <1>3, <2>1, <2>2 DEF H!DropParcel
<1>5. CASE m.kind \notin ConnKinds
  BY <1>1, <1>2, <1>3, <1>5, NetSeen DEF NotSeen
<1> QED  BY <1>4, <1>5

LEMMA CommandSendSeen ==
  ASSUME MsgTypes, NEW n \in Nodes, NEW k \in Slots, M!CommandSend(n, k)
  PROVE  H!CommandSend(n, k) \/ NotSeen
<1>1. /\ cmd[n][k].pc = "send" /\ SendParcel(cmd[n][k].parcel)
      /\ cmd' = [cmd EXCEPT ![n][k] = Idle]
      /\ conns' = conns /\ lst' = lst
  BY Words DEF M!CommandSend, M!SendParcel, SendParcel, M!Listening, Listening
<1>2. PICK m \in AnyParcel : cmd[n][k] = Sending(m) /\ cmd[n][k].parcel = m
  BY <1>1, CommandAt
<1>3. connLst' = connLst  BY <1>1, Unseen
<1>4. CASE m.kind \in ConnKinds
  <2>1. connCmd[n][k] = cmd[n][k]  BY <1>2, <1>4, CmdThere, WhoIsOfMessages
  <2>2. connCmd' = [connCmd EXCEPT ![n][k] = H!Idle]
    BY <1>1, CmdSeen, Words, WhoIsOfMessages
  <2>3. H!SendParcel(m)  BY <1>1, <1>2, <1>4, SendSeen
  <2> QED  BY <1>1, <1>2, <1>3, <2>1, <2>2, <2>3 DEF H!CommandSend
<1>5. CASE m.kind \notin ConnKinds
  <2>1. connCmd' = connCmd  BY <1>1, <1>2, <1>5, CmdUnseen, WhoIsOfMessages
  <2>2. connNet' = connNet  BY <1>1, <1>2, <1>5, SendSeen
  <2> QED  BY <1>1, <1>3, <2>1, <2>2 DEF NotSeen
<1> QED  BY <1>4, <1>5

LEMMA CommandExitSeen ==
  ASSUME MsgTypes, NEW n \in Nodes, NEW k \in Slots, M!CommandExit(n, k)
  PROVE  H!CommandExit(n, k) \/ NotSeen
<1>1. /\ cmd[n][k] # Idle /\ Faults \cap {"crash", "sql"} # {}
      /\ cmd' = [cmd EXCEPT ![n][k] = Idle]
      /\ conns' = conns /\ net' = net /\ lst' = lst
  BY Words DEF M!CommandExit
<1>2. connNet' = connNet /\ connLst' = connLst  BY <1>1, Unseen
<1>3. CASE ~OfMessages(cmd[n][k])
  <2>1. connCmd[n][k] # H!Idle  BY <1>1, <1>3, CmdThere, Words
  <2>2. connCmd' = [connCmd EXCEPT ![n][k] = H!Idle]
    BY <1>1, CmdSeen, Words, WhoIsOfMessages
  <2> QED  BY <1>1, <1>2, <2>1, <2>2 DEF H!CommandExit
<1>4. CASE OfMessages(cmd[n][k])
  BY <1>1, <1>2, <1>4, CmdUnseen DEF NotSeen
<1> QED  BY <1>3, <1>4

\* A message's parcel is none of the handshake's.
LEMMA MessageUnseen ==
  ASSUME NEW n, NEW kind, kind \notin ConnKinds, NEW m, M!Receive(n, kind, m)
  PROVE  connNet' = connNet /\ lst[n] = Loop /\ m.kind = kind /\ m.dst = n /\ m \in net
         /\ net' = net \ {m}
<1>1. lst[n] = Loop /\ m.kind = kind /\ m.dst = n /\ m \in net /\ net' = net \ {m}
  BY Words DEF M!Receive
<1> QED  BY <1>1, NetSeen

LEMMA MessageHandlersUnseen ==
  ASSUME MsgTypes, NEW n \in Nodes, M!Handle(n)
  PROVE  NotSeen
<1>1. PICK m \in net : \/ M!HandleSend(n, m) \/ M!HandleSendRefused(n, m)
                       \/ M!HandleSendUnknown(n, m) \/ M!HandleRcv(n, m)
  BY DEF M!Handle
<1>2. "MSG_SEND" \notin ConnKinds /\ "MSG_RCV" \notin ConnKinds  BY DEF ConnKinds
<1>3. CASE M!HandleSend(n, m)
  <2>1. connNet' = connNet /\ lst[n] = Loop
    BY <1>2, <1>3, MessageUnseen DEF M!HandleSend
  <2>2. PICK v : OfMessages(v) /\ lst' = [lst EXCEPT ![n] = v]
    BY <1>3, WhoIsOfMessages DEF M!HandleSend
  <2>3. connLst' = connLst  BY <2>1, <2>2, LstUnseen
  <2> QED  BY <1>3, <2>1, <2>3, Unseen DEF M!HandleSend, NotSeen
<1>4. CASE M!HandleSendRefused(n, m)
  BY <1>2, <1>4, MessageUnseen, Unseen DEF M!HandleSendRefused, NotSeen
<1>5. CASE M!HandleSendUnknown(n, m)
  BY <1>2, <1>5, MessageUnseen, Unseen DEF M!HandleSendUnknown, NotSeen
<1>6. CASE M!HandleRcv(n, m)
  BY <1>2, <1>6, MessageUnseen, Unseen DEF M!HandleRcv, NotSeen
<1> QED  BY <1>1, <1>3, <1>4, <1>5, <1>6

LEMMA StoreUnseen ==
  ASSUME MsgTypes, NEW n \in Nodes, M!Store(n) \/ M!StoreFails(n)
  PROVE  NotSeen
<1>1. /\ lst[n].pc = "store" /\ conns' = conns /\ net' = net /\ cmd' = cmd
      /\ \/ lst' = [lst EXCEPT ![n] = Loop]
         \/ lst' = [lst EXCEPT ![n] =
              Sending(M!MsgRcv(lst[n].peer, lst[n].self_id, lst[n].parcel.num))]
  BY Words DEF M!Store, M!StoreFails
<1>2. OfMessages(lst[n])  BY <1>1 DEF OfMessages
<1>3. OfMessages(Sending(M!MsgRcv(lst[n].peer, lst[n].self_id, lst[n].parcel.num)))
  BY WhoIsOfMessages DEF M!MsgRcv, ConnKinds
<1>4. PICK v : (OfMessages(v) \/ v = Loop) /\ lst' = [lst EXCEPT ![n] = v]
  BY <1>1, <1>3
<1>5. connLst' = connLst  BY <1>2, <1>4, LstUnseen
<1> QED  BY <1>1, <1>5, Unseen DEF NotSeen

LEMMA MessageCommandsUnseen ==
  ASSUME MsgTypes, NEW n \in Nodes, NEW k \in Slots,
         \/ \E c \in ConnIds : M!SelectConn(n, k, c)
         \/ \E b \in Bodies : M!SendInsert(n, k, b)
         \/ M!SendLookup(n, k)
         \/ M!SendRefused(n, k)
  PROVE  NotSeen
<1>1. CASE \E c \in ConnIds : M!SelectConn(n, k, c)
  BY <1>1, Unseen DEF M!SelectConn, M!nodeVars, NotSeen
<1>2. CASE \E b \in Bodies : M!SendInsert(n, k, b)
  <2>1. /\ cmd[n][k] = Idle /\ conns' = conns /\ net' = net /\ lst' = lst
        /\ \E num, b : cmd' = [cmd EXCEPT ![n][k] = M!LookingUp(num, b)]
    BY <1>2, Words DEF M!SendInsert
  <2>2. PICK v : OfMessages(v) /\ cmd' = [cmd EXCEPT ![n][k] = v]
    BY <2>1, WhoIsOfMessages
  <2>3. connCmd' = connCmd  BY <2>1, <2>2, CmdUnseen
  <2> QED  BY <2>1, <2>3, Unseen DEF NotSeen
<1>3. CASE M!SendLookup(n, k) \/ M!SendRefused(n, k)
  <2>1. /\ cmd[n][k].pc = "lookup" /\ conns' = conns /\ net' = net /\ lst' = lst
        /\ \/ cmd' = [cmd EXCEPT ![n][k] = Idle]
           \/ \E p, i, num, b :
                cmd' = [cmd EXCEPT ![n][k] = Sending(M!MsgSend(p, i, num, b))]
    BY <1>3, Words DEF M!SendLookup, M!SendRefused
  <2>2. \A p, i, num, b : OfMessages(Sending(M!MsgSend(p, i, num, b)))
    BY WhoIsOfMessages DEF M!MsgSend, ConnKinds
  <2>3. PICK v : (OfMessages(v) \/ v = Idle) /\ cmd' = [cmd EXCEPT ![n][k] = v]
    BY <2>1, <2>2
  <2>4. OfMessages(cmd[n][k])  BY <2>1 DEF OfMessages
  <2>5. connCmd' = connCmd  BY <2>3, <2>4, CmdUnseen
  <2> QED  BY <2>1, <2>5, Unseen DEF NotSeen
<1> QED  BY <1>1, <1>2, <1>3

LEMMA StepSeen ==
  ASSUME MsgTypes, [Next]_vars
  PROVE  H!Next \/ NotSeen
<1>1. CASE UNCHANGED vars  BY <1>1, Unseen DEF vars, nodeVars, NotSeen
<1>2. ASSUME NEW n \in Nodes, Listener(n) PROVE H!Next \/ NotSeen
  <2>1. H!Listener(n) \/ NotSeen
    BY <1>2, StopSeen, StartSeen, ListenerSendSeen, DropSeen, MessageHandlersUnseen,
       StoreUnseen, HandlersSeen DEF Listener, M!Listener, H!Listener
  <2> QED  BY <2>1 DEF H!Next
<1>3. ASSUME NEW n \in Nodes, NEW k \in Slots, Command(n, k) PROVE H!Next \/ NotSeen
  <2>1. CASE M!Command(n, k)
    BY <2>1, MessageCommandsUnseen, CommandSendSeen, CommandExitSeen
       DEF M!Command, H!Next, H!Command
  <2>2. CASE ConnCommand(n, k)
    BY <2>2, RequestSeen, SelectSeen, RejectSeen, AcceptSeen, CollideSeen, BlockedSeen
       DEF ConnCommand, H!Next, H!Command
  <2> QED  BY <1>3, <2>1, <2>2 DEF Command
<1> QED  BY <1>1, <1>2, <1>3 DEF Next

-----------------------------------------------------------------------------
(* Types.                                                                  *)

\* What node n may do to the variables, by their types.
TypedEffect(n) ==
  /\ net' \subseteq AnyParcel
  /\ lst' = lst \/ \E v \in ListenerState : lst' = [lst EXCEPT ![n] = v]
  /\ cmd' = cmd \/ \E k \in Slots, v \in CommandState : cmd' = [cmd EXCEPT ![n][k] = v]
  /\ msgs' = msgs \/ \E t \in SUBSET M!MsgRow : msgs' = [msgs EXCEPT ![n] = t]
  /\ sel' = sel \/ \E c \in ConnIds : sel' = [sel EXCEPT ![n] = c]
  /\ held' = held \/ \E b \in BOOLEAN : held' = [held EXCEPT ![n] = b]

LEMMA TypesKept ==
  ASSUME MsgTypes, NEW n \in Nodes, TypedEffect(n)
  PROVE  MsgTypes'
<1>1. lst' \in [Nodes -> ListenerState]
  <2>1. CASE lst' = lst  BY <2>1 DEF MsgTypes
  <2>2. ASSUME NEW v \in ListenerState, lst' = [lst EXCEPT ![n] = v]
        PROVE  lst' \in [Nodes -> ListenerState]
    BY <2>2 DEF MsgTypes
  <2> QED  BY <2>1, <2>2 DEF TypedEffect
<1>2. cmd' \in [Nodes -> [Slots -> CommandState]]
  <2>1. CASE cmd' = cmd  BY <2>1 DEF MsgTypes
  <2>2. ASSUME NEW k \in Slots, NEW v \in CommandState, cmd' = [cmd EXCEPT ![n][k] = v]
        PROVE  cmd' \in [Nodes -> [Slots -> CommandState]]
    BY <2>2 DEF MsgTypes
  <2> QED  BY <2>1, <2>2 DEF TypedEffect
<1>3. msgs' \in [Nodes -> SUBSET M!MsgRow]
  <2>1. CASE msgs' = msgs  BY <2>1 DEF MsgTypes
  <2>2. ASSUME NEW t \in SUBSET M!MsgRow, msgs' = [msgs EXCEPT ![n] = t]
        PROVE  msgs' \in [Nodes -> SUBSET M!MsgRow]
    BY <2>2 DEF MsgTypes
  <2> QED  BY <2>1, <2>2 DEF TypedEffect
<1>4. sel' \in [Nodes -> ConnIds \cup {NoConn, Null}]
  <2>1. CASE sel' = sel  BY <2>1 DEF MsgTypes
  <2>2. ASSUME NEW c \in ConnIds, sel' = [sel EXCEPT ![n] = c]
        PROVE  sel' \in [Nodes -> ConnIds \cup {NoConn, Null}]
    BY <2>2 DEF MsgTypes
  <2> QED  BY <2>1, <2>2 DEF TypedEffect
<1>5. held' \in [Nodes -> BOOLEAN]
  <2>1. CASE held' = held  BY <2>1 DEF MsgTypes
  <2>2. ASSUME NEW b \in BOOLEAN, held' = [held EXCEPT ![n] = b]
        PROVE  held' \in [Nodes -> BOOLEAN]
    BY <2>2 DEF MsgTypes
  <2> QED  BY <2>1, <2>2 DEF TypedEffect
<1> QED  BY <1>1, <1>2, <1>3, <1>4, <1>5 DEF MsgTypes, TypedEffect

LEMMA RowTyped ==
  ASSUME H!IInv, NEW n \in Nodes, NEW c \in ConnIds, IsRow(n, c)
  PROVE  /\ conns[n][c] \in Row
         /\ conns[n][c].status = "accepted" =>
              conns[n][c].self_id \in Ids /\ conns[n][c].peer_id \in Ids
<1>1. conns[n][c] \in Row
  BY DEF H!IInv, H!TypeOK, H!Row, Row, H!ConnStatus, ConnStatus, IsRow
<1>2. Asked(n, c) \/ Offered(n, c)  BY <1>1 DEF Asked, Offered, Row
<1>3. CASE Asked(n, c)
  BY <1>1, <1>3, Tables DEF H!IInv, H!AskedRows, Row
<1>4. CASE Offered(n, c)
  BY <1>1, <1>4, Tables DEF H!IInv, H!OfferedRows, Row
<1> QED  BY <1>1, <1>2, <1>3, <1>4

LEMMA SentTyped ==
  ASSUME MsgTypes, NEW m \in AnyParcel, SendParcel(m)
  PROVE  net' \subseteq AnyParcel
BY DEF MsgTypes, SendParcel

LEMMA States ==
  /\ Off \in ListenerState /\ Loop \in ListenerState /\ Idle \in CommandState
  /\ \A m \in AnyParcel : Sending(m) \in ListenerState /\ Sending(m) \in CommandState
  /\ \A m \in M!MsgSends, i \in Ids, p \in Nodes : M!Storing(m, i, p) \in ListenerState
  /\ \A k \in M!Nums, b \in Bodies : M!LookingUp(k, b) \in CommandState
  /\ \A c \in ConnIds, i \in Ids, p \in Nodes, acc \in BOOLEAN :
       C!Deciding(c, i, p, acc) \in CommandState
BY DEF ListenerState, CommandState

LEMMA ConnParcelTyped ==
  ASSUME NEW k \in ConnKinds, NEW n \in Nodes, NEW p \in Nodes, NEW i \in Ids,
         NEW j \in Ids \cup {Null}
  PROVE  Parcel(k, n, p, i, j) \in AnyParcel
BY DEF Parcel, AnyParcel, ConnParcel

\* The commands of the handshake are at work on no message.
LEMMA ConnCommandEffect ==
  ASSUME MsgTypes, H!IInv, NEW n \in Nodes, NEW k \in Slots, ConnCommand(n, k)
  PROVE  /\ net' = net /\ lst' = lst
         /\ \E v \in CommandState : ~OfMessages(v) /\ cmd' = [cmd EXCEPT ![n][k] = v]
<1>1. net' = net /\ lst' = lst
  BY DEF ConnCommand, C!Request, C!DecideSelect, C!DecideReject, C!DecideAccept,
         C!DecideCollide, DecideBlocked
<1>2. \E v \in CommandState : ~OfMessages(v) /\ cmd' = [cmd EXCEPT ![n][k] = v]
  <2>1. ASSUME NEW p \in Nodes, C!Request(n, k, p)
        PROVE  \E v \in CommandState : ~OfMessages(v) /\ cmd' = [cmd EXCEPT ![n][k] = v]
    <3>1. PICK id \in Ids :
            cmd' = [cmd EXCEPT ![n][k] = Sending(Parcel("CONN_REQ", n, p, id, Null))]
      BY <2>1, Words DEF C!Request
    <3>2. Sending(Parcel("CONN_REQ", n, p, id, Null)) \in CommandState
      BY States, ConnParcelTyped DEF ConnKinds
    <3>3. ~OfMessages(Sending(Parcel("CONN_REQ", n, p, id, Null)))
      BY WhoIsOfMessages DEF Parcel, ConnKinds
    <3> QED  BY <3>1, <3>2, <3>3
  <2>2. ASSUME NEW c \in ConnIds, NEW acc \in BOOLEAN, C!DecideSelect(n, k, c, acc)
        PROVE  \E v \in CommandState : ~OfMessages(v) /\ cmd' = [cmd EXCEPT ![n][k] = v]
    <3>1. /\ IsRow(n, c) /\ conns[n][c].status = "self_review"
          /\ cmd' = [cmd EXCEPT ![n][k] =
               C!Deciding(c, conns[n][c].self_id, conns[n][c].peer, acc)]
      BY <2>2, Tables DEF C!DecideSelect
    <3>2. conns[n][c] \in Row  BY <3>1, RowTyped
    <3>3. Asked(n, c) \/ Offered(n, c)  BY <3>1, <3>2 DEF Asked, Offered, Row
    <3>4. conns[n][c].self_id \in Ids /\ conns[n][c].peer \in Nodes
      BY <3>1, <3>2, <3>3, Tables DEF H!IInv, H!AskedRows, H!OfferedRows, Row
    <3>5. C!Deciding(c, conns[n][c].self_id, conns[n][c].peer, acc) \in CommandState
      BY <3>4, States
    <3> QED  BY <3>1, <3>5, WhoIsOfMessages
  <2>3. ASSUME cmd[n][k].pc = "decide", cmd' # [cmd EXCEPT ![n][k] = Idle],
               C!DecideReject(n, k) \/ C!DecideAccept(n, k)
        PROVE  \E v \in CommandState : ~OfMessages(v) /\ cmd' = [cmd EXCEPT ![n][k] = v]
    <3>1. PICK kind \in ConnKinds, j \in Ids \cup {Null} :
            cmd' = [cmd EXCEPT ![n][k] =
                      Sending(Parcel(kind, n, cmd[n][k].peer, cmd[n][k].id, j))]
      BY <2>3, Words DEF C!DecideReject, C!DecideAccept, ConnKinds
    <3>2. cmd[n][k].peer \in Nodes /\ cmd[n][k].id \in Ids
      <4>1. PICK c \in ConnIds, i \in Ids, p \in Nodes, acc \in BOOLEAN :
              cmd[n][k] = C!Deciding(c, i, p, acc)
        BY <2>3, CommandAt
      <4> QED  BY <4>1 DEF C!Deciding
    <3>3. Sending(Parcel(kind, n, cmd[n][k].peer, cmd[n][k].id, j)) \in CommandState
      BY <3>2, States, ConnParcelTyped
    <3>4. ~OfMessages(Sending(Parcel(kind, n, cmd[n][k].peer, cmd[n][k].id, j)))
      BY WhoIsOfMessages DEF Parcel
    <3> QED  BY <3>1, <3>3, <3>4
  <2>4. CASE C!DecideCollide(n, k) \/ DecideBlocked(n, k)
    BY <2>4, Words, States, WhoIsOfMessages DEF C!DecideCollide, DecideBlocked
  <2>5. C!DecideReject(n, k) \/ C!DecideAccept(n, k) => cmd[n][k].pc = "decide"
    BY DEF C!DecideReject, C!DecideAccept
  <2> QED  BY <2>1, <2>2, <2>3, <2>4, <2>5, States, WhoIsOfMessages DEF ConnCommand
<1> QED  BY <1>1, <1>2

LEMMA ConnHandlersEffect ==
  ASSUME MsgTypes, NEW n \in Nodes, C!Handle(n)
  PROVE  /\ net' \subseteq net /\ cmd' = cmd
         /\ \/ lst' = lst
            \/ \E v \in ListenerState : ~OfMessages(v) /\ lst' = [lst EXCEPT ![n] = v]
<1>1. PICK m \in net : \/ C!HandleReq(n, m) \/ C!HandleAck(n, m)
                       \/ C!HandleRej(n, m) \/ C!HandleAcc(n, m)
  BY DEF C!Handle
<1>2. m.kind \in ConnKinds /\ net' = net \ {m}
  BY <1>1 DEF C!HandleReq, C!HandleAck, C!HandleRej, C!HandleAcc, C!Receive, ConnKinds
<1>3. m \in ConnParcel  BY <1>2, ParcelFields DEF MsgTypes
<1>4. CASE C!HandleReq(n, m)
  <2>1. C!Sending(C!Parcel("CONN_ACK", n, m.src, m.id, Null))
          = Sending(Parcel("CONN_ACK", n, m.src, m.id, Null))
    BY Words
  <2>2. Sending(Parcel("CONN_ACK", n, m.src, m.id, Null)) \in ListenerState
    BY <1>3, States, ConnParcelTyped DEF ConnKinds, ConnParcel
  <2>3. ~OfMessages(Sending(Parcel("CONN_ACK", n, m.src, m.id, Null)))
    BY WhoIsOfMessages DEF Parcel, ConnKinds
  <2>4. \E v \in ListenerState : ~OfMessages(v) /\ lst' = [lst EXCEPT ![n] = v]
    BY <1>4, <2>1, <2>2, <2>3 DEF C!HandleReq
  <2> QED  BY <1>2, <1>4, <2>4 DEF C!HandleReq
<1>5. CASE C!HandleAck(n, m) \/ C!HandleRej(n, m) \/ C!HandleAcc(n, m)
  BY <1>2, <1>5 DEF C!HandleAck, C!HandleRej, C!HandleAcc
<1> QED  BY <1>1, <1>4, <1>5

LEMMA HandshakeTyped ==
  ASSUME MsgTypes, H!IInv, NEW n \in Nodes, UNCHANGED <<msgs, sel, held>>,
         C!Handle(n) \/ \E k \in Slots : ConnCommand(n, k)
  PROVE  TypedEffect(n)
BY ConnCommandEffect, ConnHandlersEffect DEF TypedEffect, MsgTypes

\* What processes of both kinds do.
LEMMA ProcessesTyped ==
  ASSUME MsgTypes, NEW n \in Nodes,
         \/ /\ \/ M!StartListening(n) \/ M!ListenerSend(n) \/ M!DropParcel(n)
               \/ \E k \in Slots : M!CommandSend(n, k) \/ M!CommandExit(n, k)
            /\ UNCHANGED M!msgVars
         \/ M!Stop(n)
  PROVE  TypedEffect(n)
<1>1. CASE M!Stop(n)
  BY <1>1, Words, States
     DEF M!Stop, M!StopListening, TypedEffect, MsgTypes
<1>2. CASE M!StartListening(n) /\ UNCHANGED M!msgVars
  BY <1>2, Words, States DEF M!StartListening, M!msgVars, TypedEffect, MsgTypes
<1>3. CASE M!ListenerSend(n) /\ UNCHANGED M!msgVars
  <2>1. /\ lst[n].pc = "send" /\ SendParcel(lst[n].parcel)
        /\ lst' = [lst EXCEPT ![n] = Loop]
        /\ conns' = conns /\ cmd' = cmd
    BY <1>3, Words DEF M!ListenerSend, M!SendParcel, SendParcel, M!Listening, Listening
  <2>2. net' \subseteq AnyParcel  BY <2>1, ListenerAt, SentTyped
  <2> QED  BY <1>3, <2>1, <2>2, States DEF M!msgVars, TypedEffect
<1>4. CASE M!DropParcel(n) /\ UNCHANGED M!msgVars
  BY <1>4 DEF M!DropParcel, M!msgVars, TypedEffect, MsgTypes
<1>5. ASSUME NEW k \in Slots, M!CommandSend(n, k), UNCHANGED M!msgVars
      PROVE  TypedEffect(n)
  <2>1. /\ cmd[n][k].pc = "send" /\ SendParcel(cmd[n][k].parcel)
        /\ cmd' = [cmd EXCEPT ![n][k] = Idle]
        /\ conns' = conns /\ lst' = lst
    BY <1>5, Words DEF M!CommandSend, M!SendParcel, SendParcel, M!Listening, Listening
  <2>2. net' \subseteq AnyParcel  BY <2>1, CommandAt, SentTyped
  <2> QED  BY <1>5, <2>1, <2>2, States DEF M!msgVars, TypedEffect
<1>6. ASSUME NEW k \in Slots, M!CommandExit(n, k), UNCHANGED M!msgVars
      PROVE  TypedEffect(n)
  BY <1>6, Words, States DEF M!CommandExit, M!msgVars, TypedEffect, MsgTypes
<1> QED  BY <1>1, <1>2, <1>3, <1>4, <1>5, <1>6

LEMMA MessageHandlersTyped ==
  ASSUME MsgTypes, H!IInv, NEW n \in Nodes, M!Handle(n)
  PROVE  TypedEffect(n)
<1>1. PICK m \in net : \/ M!HandleSend(n, m) \/ M!HandleSendRefused(n, m)
                       \/ M!HandleSendUnknown(n, m) \/ M!HandleRcv(n, m)
  BY DEF M!Handle
<1>2. net' \subseteq AnyParcel
  BY <1>1 DEF M!HandleSend, M!HandleSendRefused, M!HandleSendUnknown, M!HandleRcv,
              M!Receive, MsgTypes
<1>3. CASE M!HandleSend(n, m)
  <2>1. PICK c \in ConnIds :
          /\ IsRow(n, c) /\ conns[n][c].status = "accepted"
          /\ lst' = [lst EXCEPT ![n] =
               M!Storing(m, conns[n][c].self_id, conns[n][c].peer)]
    BY <1>3, Tables DEF M!HandleSend, M!HasPeerId
  <2>2. m \in M!MsgSends  BY <1>3, ParcelFields DEF M!HandleSend, M!Receive, MsgTypes
  <2>3. conns[n][c].self_id \in Ids /\ conns[n][c].peer \in Nodes
    BY <2>1, RowTyped DEF Row
  <2>4. \E v \in ListenerState : lst' = [lst EXCEPT ![n] = v]
    BY <2>1, <2>2, <2>3, States
  <2> QED  BY <1>2, <1>3, <2>4 DEF M!HandleSend, M!msgVars, TypedEffect
<1>4. CASE M!HandleSendRefused(n, m)
  BY <1>2, <1>4 DEF M!HandleSendRefused, TypedEffect
<1>5. CASE M!HandleSendUnknown(n, m)
  BY <1>2, <1>5 DEF M!HandleSendUnknown, M!msgVars, TypedEffect
<1>6. CASE M!HandleRcv(n, m)
  <2> DEFINE t == {IF r.num = m.num /\ r.conn = M!ConnOf(n, m.id) /\ r.conn # Null
                   THEN [r EXCEPT !.received = TRUE] ELSE r : r \in msgs[n]}
  <2>1. ASSUME NEW r \in M!MsgRow PROVE [r EXCEPT !.received = TRUE] \in M!MsgRow
    <3>1. PICK w : w = TRUE  OBVIOUS
    <3>2. PICK x : x = [r EXCEPT !.received = w]  OBVIOUS
    <3>3. x \in M!MsgRow  BY <3>1, <3>2 DEF M!MsgRow
    <3> QED  BY <3>1, <3>2, <3>3
  <2>2. msgs[n] \subseteq M!MsgRow  BY DEF MsgTypes
  <2>3. t \in SUBSET M!MsgRow  BY <2>1, <2>2
  <2>4. msgs' = [msgs EXCEPT ![n] = t]  BY <1>6 DEF M!HandleRcv
  <2> HIDE DEF t
  <2> QED  BY <1>2, <1>6, <2>3, <2>4 DEF M!HandleRcv, TypedEffect
<1> QED  BY <1>1, <1>3, <1>4, <1>5, <1>6

\* WHERE peer_id = id finds one row at most.
LEMMA ConnOfRow ==
  ASSUME H!IInv, NEW n \in Nodes, NEW id \in Ids
  PROVE  /\ M!ConnOf(n, id) \in ConnIds \cup {Null}
         /\ \A c \in ConnIds : HasPeerId(n, c, id) => M!ConnOf(n, id) = c
         /\ M!ConnOf(n, id) # Null => HasPeerId(n, M!ConnOf(n, id), id)
<1>1. CASE \E c \in ConnIds : HasPeerId(n, c, id)
  <2>1. PICK c \in ConnIds : c = M!ConnOf(n, id) /\ HasPeerId(n, c, id)
    BY <1>1, Tables DEF M!ConnOf
  <2>2. ASSUME NEW d \in ConnIds, HasPeerId(n, d, id)
        PROVE  d = c
    BY <2>1, <2>2, NodeAssumption, Tables DEF H!IInv, H!PeerIdsDiffer, HasPeerId
  <2> QED  BY <2>1, <2>2
<1>2. CASE ~\E c \in ConnIds : HasPeerId(n, c, id)
  BY <1>2, Tables DEF M!ConnOf
<1> QED  BY <1>1, <1>2

\* The row the listener stores, and the answer it owes.
StoredRow(n) ==
  [conn |-> M!ConnOf(n, lst[n].parcel.id), num |-> lst[n].parcel.num,
   body |-> lst[n].parcel.body, received |-> TRUE, out |-> FALSE]

LEMMA StoredRowTyped ==
  ASSUME MsgTypes, H!IInv, NEW n \in Nodes, lst[n].pc = "store"
  PROVE  StoredRow(n) \in M!MsgRow
<1>1. lst[n].parcel \in M!MsgSends  BY ListenerAt
<1>2. /\ lst[n].parcel.num \in M!Nums /\ lst[n].parcel.body \in Bodies
      /\ lst[n].parcel.id \in Ids
  BY <1>1 DEF M!MsgSends
<1>3. M!ConnOf(n, lst[n].parcel.id) \in ConnIds \cup {Null}  BY <1>2, ConnOfRow
<1> QED  BY <1>2, <1>3 DEF StoredRow, M!MsgRow

LEMMA StoreTyped ==
  ASSUME MsgTypes, H!IInv, NEW n \in Nodes, M!Store(n) \/ M!StoreFails(n)
  PROVE  TypedEffect(n)
<1>1. CASE M!StoreFails(n)
  BY <1>1, Words, States DEF M!StoreFails, M!msgVars, TypedEffect, MsgTypes
<1>2. CASE M!Store(n)
  <2>0. lst[n].pc = "store"  BY <1>2 DEF M!Store
  <2>1. Sending(M!MsgRcv(lst[n].peer, lst[n].self_id, lst[n].parcel.num)) \in ListenerState
    BY <2>0, ListenerAt, AnswerTypes, States DEF M!MsgSends
  <2>2. \E v \in ListenerState : lst' = [lst EXCEPT ![n] = v]
    BY <1>2, <2>1, Words DEF M!Store
  <2>3. msgs' = msgs \/ msgs' = [msgs EXCEPT ![n] = @ \cup {StoredRow(n)}]
    BY <1>2 DEF M!Store, StoredRow
  <2>4. msgs[n] \cup {StoredRow(n)} \in SUBSET M!MsgRow
    BY <2>0, StoredRowTyped DEF MsgTypes
  <2> QED  BY <1>2, <2>2, <2>3, <2>4 DEF M!Store, TypedEffect, MsgTypes
<1> QED  BY <1>1, <1>2

\* The row a command writes.
NewRow(n, num, b) ==
  [conn |-> sel[n], num |-> num, body |-> b, received |-> FALSE, out |-> TRUE]

LEMMA NewRowTyped ==
  ASSUME MsgTypes, NEW n \in Nodes, NEW num \in M!Nums, NEW b \in Bodies
  PROVE  NewRow(n, num, b) \in M!MsgRow
<1>1. sel[n] \in ConnIds \cup {NoConn, Null}  BY DEF MsgTypes
<1> QED  BY <1>1 DEF NewRow, M!MsgRow

LEMMA MessageCommandsTyped ==
  ASSUME MsgTypes, H!IInv, NEW n \in Nodes, NEW k \in Slots,
         \/ \E c \in ConnIds : M!SelectConn(n, k, c)
         \/ \E b \in Bodies : M!SendInsert(n, k, b)
         \/ M!SendLookup(n, k)
         \/ M!SendRefused(n, k)
  PROVE  TypedEffect(n)
<1>1. CASE \E c \in ConnIds : M!SelectConn(n, k, c)
  BY <1>1 DEF M!SelectConn, M!nodeVars, TypedEffect, MsgTypes
<1>2. ASSUME NEW b \in Bodies, M!SendInsert(n, k, b) PROVE TypedEffect(n)
  <2>1. PICK num \in M!Nums :
          /\ msgs' = msgs \/ msgs' = [msgs EXCEPT ![n] = @ \cup {NewRow(n, num, b)}]
          /\ cmd' = [cmd EXCEPT ![n][k] = M!LookingUp(num, b)]
    BY <1>2 DEF M!SendInsert, NewRow
  <2>2. msgs[n] \cup {NewRow(n, num, b)} \in SUBSET M!MsgRow
    BY NewRowTyped DEF MsgTypes
  <2>3. M!LookingUp(num, b) \in CommandState  BY States
  <2> QED  BY <1>2, <2>1, <2>2, <2>3 DEF M!SendInsert, TypedEffect, MsgTypes
<1>3. CASE M!SendLookup(n, k)
  <2>1. PICK c \in ConnIds :
          /\ IsRow(n, c) /\ conns[n][c].status = "accepted"
          /\ cmd' = [cmd EXCEPT ![n][k] =
               Sending(M!MsgSend(conns[n][c].peer, conns[n][c].self_id,
                                 cmd[n][k].num, cmd[n][k].body))]
    BY <1>3, Words, Tables DEF M!SendLookup
  <2>2. conns[n][c].self_id \in Ids /\ conns[n][c].peer \in Nodes
    BY <2>1, RowTyped DEF Row
  <2>3. cmd[n][k].num \in M!Nums /\ cmd[n][k].body \in Bodies
    BY <1>3, CommandAt DEF M!SendLookup
  <2>4. Sending(M!MsgSend(conns[n][c].peer, conns[n][c].self_id,
                          cmd[n][k].num, cmd[n][k].body)) \in CommandState
    BY <2>2, <2>3, ParcelTypes, States
  <2> QED  BY <1>3, <2>1, <2>4 DEF M!SendLookup, M!msgVars, TypedEffect, MsgTypes
<1>4. CASE M!SendRefused(n, k)
  BY <1>4, Words, States DEF M!SendRefused, M!msgVars, TypedEffect, MsgTypes
<1> QED  BY <1>1, <1>2, <1>3, <1>4

LEMMA MsgTypesNext ==
  ASSUME MsgTypes, H!IInv, [Next]_vars
  PROVE  MsgTypes'
<1>1. CASE UNCHANGED vars  BY <1>1 DEF vars, nodeVars, MsgTypes
<1>2. ASSUME NEW n \in Nodes, Listener(n) PROVE MsgTypes'
  <2>1. TypedEffect(n)
    BY <1>2, ProcessesTyped, MessageHandlersTyped, StoreTyped, HandshakeTyped
       DEF Listener, M!Listener
  <2> QED  BY <2>1, TypesKept
<1>3. ASSUME NEW n \in Nodes, NEW k \in Slots, Command(n, k) PROVE MsgTypes'
  <2>1. TypedEffect(n)
    BY <1>3, MessageCommandsTyped, ProcessesTyped, HandshakeTyped
       DEF Command, M!Command
  <2> QED  BY <2>1, TypesKept
<1> QED  BY <1>1, <1>2, <1>3 DEF Next

-----------------------------------------------------------------------------
(* The handshake of Ap2p is Ap2pConn's.                                    *)

LEMMA HandshakeAssumptions ==
  /\ ConnIds \subseteq Nat /\ Null \notin Ids /\ Faults \cup {"sql"} \subseteq H!FaultKinds
  /\ NoRow \notin H!Row
  /\ MaxRequests \in Nat
<1>1. H!FaultKinds = FaultKinds  BY DEF FaultKinds, H!FaultKinds
<1>2. H!Row = Row  BY DEF Row, H!Row, H!ConnStatus, ConnStatus
<1> QED  BY <1>1, <1>2, NodeAssumption, RowAssumption, Ap2pAssumption DEF FaultKinds

LEMMA NotSeenStays ==
  ASSUME NotSeen
  PROVE  UNCHANGED H!vars
BY DEF NotSeen, H!vars, H!nodeVars

LEMMA InitSeen == Init => H!Init
<1> SUFFICES ASSUME Init PROVE H!Init  OBVIOUS
<1>1. /\ conns = [n \in Nodes |-> [c \in ConnIds |-> NoRow]]
      /\ net = {} /\ lst \in [Nodes -> {Off, Loop}]
      /\ cmd = [n \in Nodes |-> [k \in Slots |-> Idle]]
  BY DEF Init, NodeInit
<1>2. connNet = {}  BY <1>1 DEF connNet
<1>3. connLst \in [Nodes -> {H!Off, H!Loop}]
  BY <1>1, Words, WhoIsOfMessages DEF connLst
<1>4. connCmd = [n \in Nodes |-> [k \in Slots |-> H!Idle]]
  BY <1>1, Words, WhoIsOfMessages DEF connCmd
<1> QED  BY <1>1, <1>2, <1>3, <1>4 DEF H!Init, H!NodeInit

\* The invariant of the handshake and of the types, of any number of commands.
TypesInv == MsgTypes /\ H!IInv

LEMMA TypesInvInit == Init => TypesInv
<1> SUFFICES ASSUME Init PROVE TypesInv  OBVIOUS
<1>1. H!IInv  BY InitSeen, H!IInvInit, HandshakeAssumptions
<1>2. MsgTypes  BY States, Ap2pAssumption DEF Init, NodeInit, MsgTypes
<1> QED  BY <1>1, <1>2 DEF TypesInv

LEMMA TypesInvNext ==
  ASSUME TypesInv, [Next]_vars
  PROVE  TypesInv'
<1>1. MsgTypes'  BY MsgTypesNext DEF TypesInv
<1>2. H!Next \/ UNCHANGED H!vars  BY StepSeen, NotSeenStays DEF TypesInv
<1>3. H!IInv'  BY <1>2, H!IInvNext, H!IInvStutter, HandshakeAssumptions DEF TypesInv
<1> QED  BY <1>1, <1>3 DEF TypesInv

\* Tables, parcels and processes keep their types, however many commands a node runs.
THEOREM Typed == Spec => []TypesInv
<1>1. TypesInv /\ [Next]_vars => TypesInv'  BY TypesInvNext
<1> QED  BY <1>1, TypesInvInit, PTL DEF Spec

\* What the handlers and the commands of a node rest on when they look a row up by one id,
\* however many commands it runs, messages in between, and whatever is lost, dies or is
\* locked out: each reply finds the request it answers (801, 827, 859), each offer has a
\* request behind it (756), a row that is listed or sent on has the columns its readers
\* copy (270-272, 623), and none is accepted that the peer's user did not accept.
THEOREM HandshakeHolds ==
  Spec => [](/\ H!RepliesNameRequests /\ H!OffersHaveRequests
             /\ H!RowsReadable /\ H!AcceptedByPeer)
<1>1. H!IInv => H!RepliesNameRequests /\ H!RowsReadable
  BY H!RepliesByInv, H!ReadableByInv, HandshakeAssumptions
<1>2. H!IInv => H!OffersHaveRequests /\ H!AcceptedByPeer
  BY DEF H!IInv
<1> QED  BY <1>1, <1>2, Typed, PTL DEF TypesInv

-----------------------------------------------------------------------------
(* Ap2p names the handshake `Handshake', an instance of Ap2pConn; its      *)
(* proofs are those of H, an instance of Ap2pConnAgreeProofs.  The two     *)
(* say the same.                                                           *)

LEMMA SameRows ==
  /\ \A n, c : Handshake!IsRow(n, c) <=> H!IsRow(n, c)
  /\ \A n, c : Handshake!Asked(n, c) <=> H!Asked(n, c)
  /\ \A n, c : Handshake!FreshRow(n, c) <=> H!FreshRow(n, c)
  /\ \A n, c, id : Handshake!HasPeerId(n, c, id) <=> H!HasPeerId(n, c, id)
  /\ \A n, c, id : Handshake!PeerIdFree(n, c, id) <=> H!PeerIdFree(n, c, id)
BY DEF Handshake!Asked, H!Asked, Handshake!IsRow, H!IsRow, Handshake!FreshRow, H!FreshRow,
       Handshake!PeerIdFree, H!PeerIdFree, Handshake!HasPeerId, H!HasPeerId

LEMMA SameParcels ==
  /\ \A k, n, p, i, j : Handshake!Parcel(k, n, p, i, j) = H!Parcel(k, n, p, i, j)
  /\ \A m : Handshake!Sending(m) = H!Sending(m)
  /\ Handshake!Idle = H!Idle /\ Handshake!Loop = H!Loop /\ Handshake!Off = H!Off
  /\ \A n : Handshake!Listening(n) <=> H!Listening(n)
  /\ \A m : Handshake!SendParcel(m) <=> H!SendParcel(m)
  /\ \A n, k, m : Handshake!Receive(n, k, m) <=> H!Receive(n, k, m)
BY DEF Handshake!Parcel, H!Parcel, Handshake!Sending, H!Sending, Handshake!Idle, H!Idle,
       Handshake!Loop, H!Loop, Handshake!Off, H!Off, Handshake!Listening, H!Listening,
       Handshake!SendParcel, H!SendParcel, Handshake!Receive, H!Receive

LEMMA SameRequest == \A n, k, p : Handshake!Request(n, k, p) <=> H!Request(n, k, p)
<1> SUFFICES ASSUME NEW n, NEW k, NEW p
             PROVE  Handshake!Request(n, k, p) <=> H!Request(n, k, p)
  OBVIOUS
<1>1. {c \in ConnIds : Handshake!Asked(n, c)} = {c \in ConnIds : H!Asked(n, c)}  BY SameRows
<1>2. Handshake!Cardinality({c \in ConnIds : Handshake!Asked(n, c)})
        = H!Cardinality({c \in ConnIds : H!Asked(n, c)})
  BY <1>1 DEF Handshake!Cardinality, H!Cardinality
<1> QED BY <1>2, SameRows, SameParcels, Zenon DEF Handshake!Request, H!Request

LEMMA SameSelect ==
  \A n, k, c, acc :
    Handshake!DecideSelect(n, k, c, acc) <=> H!DecideSelect(n, k, c, acc)
BY DEF Handshake!DecideSelect, H!DecideSelect, Handshake!IsRow, H!IsRow,
       Handshake!Deciding, H!Deciding, Handshake!Idle, H!Idle

LEMMA SameReject == \A n, k : Handshake!DecideReject(n, k) <=> H!DecideReject(n, k)
BY DEF Handshake!DecideReject, H!DecideReject, Handshake!Parcel, H!Parcel,
       Handshake!Sending, H!Sending

LEMMA SameAccept == \A n, k : Handshake!DecideAccept(n, k) <=> H!DecideAccept(n, k)
BY DEF Handshake!DecideAccept, H!DecideAccept, Handshake!Parcel, H!Parcel,
       Handshake!Sending, H!Sending, Handshake!PeerIdFree, H!PeerIdFree,
       Handshake!HasPeerId, H!HasPeerId, Handshake!IsRow, H!IsRow

LEMMA SameCollide == \A n, k : Handshake!DecideCollide(n, k) <=> H!DecideCollide(n, k)
BY DEF Handshake!DecideCollide, H!DecideCollide, Handshake!Idle, H!Idle,
       Handshake!PeerIdFree, H!PeerIdFree, Handshake!HasPeerId, H!HasPeerId,
       Handshake!IsRow, H!IsRow

LEMMA SameEnds ==
  /\ \A n, k : Handshake!CommandSend(n, k) <=> H!CommandSend(n, k)
  /\ \A n, k : Handshake!CommandExit(n, k) <=> H!CommandExit(n, k)
BY DEF Handshake!CommandSend, H!CommandSend, Handshake!CommandExit, H!CommandExit,
       Handshake!Idle, H!Idle, Handshake!SendParcel, H!SendParcel, Handshake!Listening,
       H!Listening

LEMMA SameListener ==
  /\ \A n : Handshake!StartListening(n) <=> H!StartListening(n)
  /\ \A n : Handshake!StopListening(n) <=> H!StopListening(n)
  /\ \A n : Handshake!ListenerSend(n) <=> H!ListenerSend(n)
  /\ \A n : Handshake!DropParcel(n) <=> H!DropParcel(n)
<1>1. \A n : Handshake!StartListening(n) <=> H!StartListening(n)
  BY SameParcels DEF Handshake!StartListening, H!StartListening
<1>2. \A n : Handshake!StopListening(n) <=> H!StopListening(n)
  BY SameParcels DEF Handshake!StopListening, H!StopListening
<1>3. \A n : Handshake!ListenerSend(n) <=> H!ListenerSend(n)
  BY SameParcels DEF Handshake!ListenerSend, H!ListenerSend
<1>4. \A n : Handshake!DropParcel(n) <=> H!DropParcel(n)
  BY SameParcels DEF Handshake!DropParcel, H!DropParcel
<1> QED BY <1>1, <1>2, <1>3, <1>4

LEMMA SameHandlers ==
  /\ \A n, m : Handshake!HandleReq(n, m) <=> H!HandleReq(n, m)
  /\ \A n, m : Handshake!HandleAck(n, m) <=> H!HandleAck(n, m)
  /\ \A n, m : Handshake!HandleRej(n, m) <=> H!HandleRej(n, m)
  /\ \A n, m : Handshake!HandleAcc(n, m) <=> H!HandleAcc(n, m)
<1>1. \A n, m : Handshake!HandleReq(n, m) <=> H!HandleReq(n, m)
  BY SameRows, SameParcels, Zenon DEF Handshake!HandleReq, H!HandleReq
<1>2. \A n, m : Handshake!HandleAck(n, m) <=> H!HandleAck(n, m)
  BY SameParcels, Zenon DEF Handshake!HandleAck, H!HandleAck, Handshake!Acknowledged,
                            H!Acknowledged, Handshake!HasPeerId, H!HasPeerId,
                            Handshake!IsRow, H!IsRow
<1>3. \A n, m : Handshake!HandleRej(n, m) <=> H!HandleRej(n, m)
  BY SameParcels, Zenon DEF Handshake!HandleRej, H!HandleRej, Handshake!Refused,
                            H!Refused, Handshake!HasPeerId, H!HasPeerId, Handshake!IsRow,
                            H!IsRow
<1>4. \A n, m : Handshake!HandleAcc(n, m) <=> H!HandleAcc(n, m)
  BY SameParcels, Zenon DEF Handshake!HandleAcc, H!HandleAcc, Handshake!Granted,
                            H!Granted, Handshake!HasPeerId, H!HasPeerId, Handshake!IsRow,
                            H!IsRow
<1> QED BY <1>1, <1>2, <1>3, <1>4

LEMMA SameNext == Handshake!Next <=> H!Next
<1>1. \A n, k : Handshake!Command(n, k) <=> H!Command(n, k)
  BY SameRequest, SameSelect, SameReject, SameAccept, SameCollide, SameEnds
     DEF Handshake!Command, H!Command
<1>2. \A n : Handshake!Handle(n) <=> H!Handle(n)
  BY SameHandlers DEF Handshake!Handle, H!Handle
<1>3. \A n : Handshake!Listener(n) <=> H!Listener(n)
  BY <1>2, SameListener DEF Handshake!Listener, H!Listener
<1> QED BY <1>1, <1>3 DEF Handshake!Next, H!Next

LEMMA SameInit == H!Init <=> Handshake!Init
BY SameParcels DEF H!Init, H!NodeInit, Handshake!Init, Handshake!NodeInit

\* The handshake of a whole node is the one of Ap2pConn: messages share its table, its
\* processes and the network, and a lock of theirs may keep it from writing, yet what
\* happens to connections is what Ap2pConn allows.
THEOREM MessagesTakeNoPart == Spec => ImplementsHandshake
<1>1. Init => Handshake!Init  BY InitSeen, SameInit
<1>2. TypesInv /\ [Next]_vars => [HandshakeStep]_vars
  <2> SUFFICES ASSUME TypesInv, [Next]_vars PROVE HandshakeStep  OBVIOUS
  <2>1. Handshake!Next \/ NotSeen  BY StepSeen, SameNext DEF TypesInv
  <2> QED  BY <2>1 DEF HandshakeStep, NotSeen
<1> QED  BY <1>1, <1>2, Typed, PTL DEF Spec, ImplementsHandshake

\* ImplementsHandshake is Ap2pConn's specification with its variables written out.
LEMMA HandshakeIsAp2pConn == ImplementsHandshake => Handshake!Spec
<1>1. [HandshakeStep]_vars => [Handshake!Next]_(Handshake!vars)
  <2> SUFFICES ASSUME [HandshakeStep]_vars PROVE [Handshake!Next]_(Handshake!vars)
    OBVIOUS
  <2>1. CASE Handshake!Next  BY <2>1
  <2>2. CASE UNCHANGED <<conns, connNet, connLst, connCmd>>
    BY <2>2 DEF Handshake!vars, Handshake!nodeVars
  <2>3. CASE UNCHANGED vars
    BY <2>3, Unseen DEF vars, nodeVars, Handshake!vars, Handshake!nodeVars
  <2> QED  BY <2>1, <2>2, <2>3 DEF HandshakeStep
<1> QED  BY <1>1, PTL DEF ImplementsHandshake, Handshake!Spec

-----------------------------------------------------------------------------
(* The two ends of a connection.                                           *)

\* The other end of a row is one row, and the two are a request and its offer.
LEMMA MeetsEnds ==
  ASSUME H!AgreeInv, NEW n \in Nodes, NEW c \in ConnIds, NEW p \in Nodes, NEW d \in ConnIds,
         Meets(n, c, p, d)
  PROVE  /\ Asked(n, c) => Made(n, c, p, d)
         /\ Offered(n, c) => Made(p, d, n, c)
         /\ Asked(n, c) \/ Offered(n, c)
<1>0. H!IInv /\ H!ToldIsInForce
  BY DEF H!AgreeInv, H!SoloInv
<1> DEFINE s == conns[n][c].self_id
<1>1. /\ IsRow(n, c) /\ s # Null /\ conns[n][c].peer_id # Null /\ conns[n][c].peer = p
      /\ IsRow(p, d) /\ conns[p][d].peer_id = s
  BY DEF Meets, Joined, HasPeerId
<1>2. Asked(n, c) \/ Offered(n, c)
  BY <1>0, <1>1, RowTyped DEF Asked, Offered, Row
<1>3. ASSUME NEW e \in ConnIds, IsRow(p, e), conns[p][e].peer_id = s
      PROVE  e = d
  BY <1>0, <1>1, <1>3, Tables DEF H!IInv, H!PeerIdsDiffer
<1>4. CASE Asked(n, c)
  <2>1. PICK e \in ConnIds : /\ H!OfferOf(p, e, conns[n][c].peer_id, n)
                             /\ conns[p][e].peer_id = s
    BY <1>0, <1>1, <1>4, Tables DEF H!ToldIsInForce, H!InForce
  <2>2. Offered(p, e) /\ conns[p][e].self_id = conns[n][c].peer_id /\ conns[p][e].peer = n
    BY <2>1, Tables DEF H!OfferOf
  <2>3. e = d  BY <1>3, <2>1, <2>2 DEF Offered
  <2> QED  BY <1>1, <1>4, <2>2, <2>3 DEF Made, Asked, Offered
<1>5. CASE Offered(n, c)
  <2>1. PICK e \in ConnIds : /\ H!Asked(p, e) /\ conns[p][e].peer_id = s
                             /\ conns[p][e].peer = n
    BY <1>0, <1>1, <1>5, Tables DEF H!IInv, H!OffersHaveRequests, H!Requested
  <2>2. Asked(p, e)  BY <2>1, Tables
  <2>3. e = d  BY <1>3, <2>1, <2>2 DEF Asked
  <2> QED  BY <1>1, <1>5, <2>1, <2>2, <2>3 DEF Made, Asked, Offered
<1> QED  BY <1>2, <1>4, <1>5

LEMMA OneOtherEnd ==
  ASSUME H!AgreeInv, NEW n \in Nodes, NEW c \in ConnIds, NEW p \in Nodes, NEW d \in ConnIds,
         Meets(n, c, p, d),
         NEW q \in Nodes, NEW e \in ConnIds, Meets(q, e, n, c)
  PROVE  q = p /\ e = d
<1>0. H!IInv /\ H!OneOfferPerRequest
  BY DEF H!AgreeInv, H!SoloInv, H!OnceInv
<1>1. CASE Asked(n, c)
  <2>1. Made(n, c, p, d)  BY <1>1, MeetsEnds
  <2>2. Made(n, c, q, e)  BY <1>1, MeetsEnds DEF Made, Asked, Offered
  <2>3. q = p  BY <2>1, <2>2 DEF Made
  <2> QED  BY <1>0, <2>1, <2>2, <2>3, Tables DEF Made, H!OneOfferPerRequest
<1>2. CASE Offered(n, c)
  <2>1. Made(p, d, n, c)  BY <1>2, MeetsEnds
  <2>2. Made(q, e, n, c)  BY <1>2, MeetsEnds DEF Made, Asked, Offered
  <2>3. q = p  BY <2>1, <2>2 DEF Made
  <2>4. conns[p][d].peer_id = conns[q][e].peer_id /\ conns[p][d].peer_id # Null
    BY <1>0, <2>1, <2>2, Tables DEF Made, H!IInv, H!AskedRows
  <2> QED  BY <1>0, <2>1, <2>2, <2>3, <2>4, Tables DEF Made, Asked, H!IInv, H!PeerIdsDiffer
<1> QED  BY <1>1, <1>2, MeetsEnds

-----------------------------------------------------------------------------
(* What a step does not take back.                                         *)

\* The rows keep their ends.
RowsStay ==
  \A n \in Nodes, c \in ConnIds :
    IsRow(n, c) => LET r == conns[n][c] s == conns'[n][c] IN
      /\ IsRow(n, c)'
      /\ s.by = r.by /\ s.peer = r.peer
      /\ r.peer_id # Null => s.peer_id = r.peer_id
      /\ r.self_id # Null => s.self_id = r.self_id

\* r and q are one message.
Same(r, q) == q.conn = r.conn /\ q.num = r.num /\ q.body = r.body /\ q.out = r.out

Grows ==
  /\ RowsStay
  /\ \A n \in Nodes : \A r \in msgs[n] : \E q \in msgs'[n] : Same(r, q)
  /\ \A n \in Nodes : held[n] => /\ held'[n]
                                 /\ \A q \in msgs'[n] : q.out => \E r \in msgs[n] : Same(r, q)

LEMMA JoinedKept ==
  ASSUME RowsStay, NEW n \in Nodes, NEW c \in ConnIds, Joined(n, c)
  PROVE  /\ Joined(n, c)'
         /\ conns'[n][c].peer = conns[n][c].peer
         /\ conns'[n][c].self_id = conns[n][c].self_id
BY DEF RowsStay, Joined

LEMMA HasPeerIdKept ==
  ASSUME RowsStay, NEW n \in Nodes, NEW c \in ConnIds, NEW id, id # Null, HasPeerId(n, c, id)
  PROVE  HasPeerId(n, c, id)'
BY DEF RowsStay, HasPeerId

LEMMA MeetsKept ==
  ASSUME RowsStay, NEW n \in Nodes, NEW c \in ConnIds, NEW p \in Nodes, NEW d \in ConnIds,
         Meets(n, c, p, d)
  PROVE  Meets(n, c, p, d)'
<1>1. Joined(n, c)' /\ conns'[n][c].peer = p /\ conns'[n][c].self_id = conns[n][c].self_id
  BY JoinedKept DEF Meets
<1>2. conns[n][c].self_id # Null  BY DEF Meets, Joined
<1>3. IsRow(p, d) /\ conns[p][d].peer_id = conns[n][c].self_id  BY DEF Meets, HasPeerId
<1>4. IsRow(p, d)' /\ conns'[p][d].peer_id = conns[p][d].peer_id
  BY <1>2, <1>3 DEF RowsStay
<1> QED  BY <1>1, <1>3, <1>4 DEF Meets, HasPeerId

LEMMA WrittenKept ==
  ASSUME Grows, NEW n \in Nodes, NEW c, NEW num, NEW body, Written(n, c, num, body)
  PROVE  Written(n, c, num, body)'
<1>1. CASE Wrote(n, c, num, body)
  <2>1. PICK r \in msgs[n] : r.out /\ r.conn = c /\ r.num = num /\ r.body = body
    BY <1>1 DEF Wrote
  <2>2. PICK q \in msgs'[n] : Same(r, q)  BY DEF Grows
  <2> QED  BY <2>1, <2>2 DEF Same, Wrote, Written
<1>2. CASE KeptOut(n, c, num)
  <2>1. held'[n]  BY <1>2 DEF KeptOut, Grows
  <2>2. ~\E q \in msgs'[n] : q.out /\ q.conn = c /\ q.num = num
    BY <1>2 DEF KeptOut, Grows, Same
  <2> QED  BY <2>1, <2>2 DEF KeptOut, Written
<1> QED  BY <1>1, <1>2 DEF Written

LEMMA HasStoredKept ==
  ASSUME Grows, NEW p \in Nodes, NEW d, NEW num, HasStored(p, d, num)
  PROVE  HasStored(p, d, num)'
<1>1. PICK q \in msgs[p] : ~q.out /\ q.conn = d /\ q.num = num  BY DEF HasStored
<1>2. PICK r \in msgs'[p] : Same(q, r)  BY DEF Grows
<1> QED  BY <1>1, <1>2 DEF Same, HasStored

LEMMA PostedByKept ==
  ASSUME Grows, NEW n \in Nodes, NEW m, PostedBy(n, m)
  PROVE  PostedBy(n, m)'
<1>1. PICK c \in ConnIds :
        /\ Joined(n, c) /\ conns[n][c].peer = m.dst /\ conns[n][c].self_id = m.id
        /\ Written(n, c, m.num, m.body)
  BY DEF PostedBy
<1>2. Written(n, c, m.num, m.body)'  BY <1>1, WrittenKept
<1>3. Joined(n, c)' /\ conns'[n][c].peer = m.dst /\ conns'[n][c].self_id = m.id
  BY <1>1, JoinedKept DEF Grows
<1> QED  BY <1>2, <1>3 DEF PostedBy

LEMMA AnsweredByKept ==
  ASSUME Grows, NEW p \in Nodes, NEW m, AnsweredBy(p, m)
  PROVE  AnsweredBy(p, m)'
<1>1. PICK d \in ConnIds :
        /\ Joined(p, d) /\ conns[p][d].peer = m.dst /\ conns[p][d].self_id = m.id
        /\ HasStored(p, d, m.num)
  BY DEF AnsweredBy
<1>2. HasStored(p, d, m.num)'  BY <1>1, HasStoredKept
<1>3. Joined(p, d)' /\ conns'[p][d].peer = m.dst /\ conns'[p][d].self_id = m.id
  BY <1>1, JoinedKept DEF Grows
<1> QED  BY <1>2, <1>3 DEF AnsweredBy

LEMMA ParcelTrueKept ==
  ASSUME Grows, NEW m, ParcelTrue(m)
  PROVE  ParcelTrue(m)'
BY PostedByKept, AnsweredByKept DEF ParcelTrue

LEMMA CommandTrueKept ==
  ASSUME Grows, NEW n \in Nodes, NEW s, CommandTrue(n, s),
         sel'[n] = sel[n] \/ s.pc # "lookup"
  PROVE  CommandTrue(n, s)'
<1>1. SendsMessage(s) => s.parcel.kind = "MSG_SEND" /\ PostedBy(n, s.parcel)'
  BY PostedByKept DEF CommandTrue
<1>2. (s.pc = "lookup" /\ sel[n] # Null => Written(n, sel[n], s.num, s.body))'
  <2> SUFFICES ASSUME s.pc = "lookup", sel'[n] # Null
               PROVE  Written(n, sel[n], s.num, s.body)'
    OBVIOUS
  <2>1. PICK c : c = sel[n]  OBVIOUS
  <2>2. Written(n, c, s.num, s.body)
    BY <2>1 DEF CommandTrue, Written, Wrote, KeptOut
  <2>3. Written(n, c, s.num, s.body)'  BY <2>2, WrittenKept
  <2>4. sel'[n] = c  BY <2>1
  <2> QED  BY <2>3, <2>4 DEF Written, Wrote, KeptOut
<1> QED  BY <1>1, <1>2 DEF CommandTrue, SendsMessage

LEMMA ListenerTrueKept ==
  ASSUME Grows, NEW n \in Nodes, NEW s, ListenerTrue(n, s),
         s.pc = "store" => s.parcel.id \in Ids
  PROVE  ListenerTrue(n, s)'
<1>1. SendsMessage(s) => s.parcel.kind = "MSG_RCV" /\ AnsweredBy(n, s.parcel)'
  BY AnsweredByKept DEF ListenerTrue
<1>2. ASSUME s.pc = "store"
      PROVE  /\ s.parcel.kind = "MSG_SEND" /\ s.parcel.dst = n
             /\ \E p \in Nodes : PostedBy(p, s.parcel)'
             /\ \E d \in ConnIds : /\ HasPeerId(n, d, s.parcel.id)' /\ Joined(n, d)'
                                   /\ conns'[n][d].self_id = s.self_id
                                   /\ conns'[n][d].peer = s.peer
  <2>1. PICK p \in Nodes : PostedBy(p, s.parcel)'
    BY <1>2, PostedByKept DEF ListenerTrue
  <2>2. PICK d \in ConnIds : /\ HasPeerId(n, d, s.parcel.id) /\ Joined(n, d)
                             /\ conns[n][d].self_id = s.self_id
                             /\ conns[n][d].peer = s.peer
    BY <1>2 DEF ListenerTrue
  <2>3. s.parcel.id # Null  BY <1>2, NodeAssumption
  <2>4. HasPeerId(n, d, s.parcel.id)'  BY <2>2, <2>3, HasPeerIdKept DEF Grows
  <2>5. /\ Joined(n, d)' /\ conns'[n][d].self_id = s.self_id
        /\ conns'[n][d].peer = s.peer
    BY <2>2, JoinedKept DEF Grows
  <2> QED  BY <1>2, <2>1, <2>4, <2>5 DEF ListenerTrue
<1> QED  BY <1>1, <1>2 DEF ListenerTrue, SendsMessage

LEMMA RowTrueKept ==
  ASSUME Grows, NEW p \in Nodes, NEW q, NEW r, RowTrue(p, q), Same(q, r),
         r.out /\ r.received => q.received
  PROVE  RowTrue(p, r)'
<1>1. ASSUME ~r.out
      PROVE  /\ r.conn \in ConnIds
             /\ \E n \in Nodes, c \in ConnIds :
                  Meets(n, c, p, r.conn)' /\ Written(n, c, r.num, r.body)'
  <2>1. q.conn \in ConnIds /\ r.conn = q.conn /\ r.num = q.num /\ r.body = q.body
    BY <1>1 DEF RowTrue, Same
  <2>2. PICK n \in Nodes, c \in ConnIds :
          Meets(n, c, p, q.conn) /\ Written(n, c, q.num, q.body)
    BY <1>1 DEF RowTrue, Same
  <2>3. PICK d \in ConnIds : d = q.conn  BY <2>1
  <2>4. Meets(n, c, p, d)'  BY <2>2, <2>3, MeetsKept DEF Grows
  <2>5. Written(n, c, q.num, q.body)'  BY <2>2, WrittenKept
  <2> QED  BY <2>1, <2>3, <2>4, <2>5
<1>2. ASSUME r.out, r.received
      PROVE  /\ r.conn \in ConnIds
             /\ \E n \in Nodes, c \in ConnIds :
                  /\ Meets(n, c, p, r.conn)'
                  /\ \E s \in msgs'[n] : /\ s.conn = c /\ s.num = r.num
                                         /\ s.body = r.body /\ ~s.out
  <2>1. q.conn \in ConnIds /\ r.conn = q.conn /\ r.num = q.num /\ r.body = q.body
    BY <1>2 DEF RowTrue, Same
  <2>2. PICK n \in Nodes, c \in ConnIds :
          /\ Meets(n, c, p, q.conn)
          /\ \E s \in msgs[n] : /\ s.conn = c /\ s.num = q.num
                                /\ s.body = q.body /\ ~s.out
    BY <1>2 DEF RowTrue, Same
  <2>3. PICK d \in ConnIds : d = q.conn  BY <2>1
  <2>4. Meets(n, c, p, d)'  BY <2>2, <2>3, MeetsKept DEF Grows
  <2>5. \E s \in msgs'[n] : /\ s.conn = c /\ s.num = q.num /\ s.body = q.body /\ ~s.out
    BY <2>2 DEF Grows, Same
  <2> QED  BY <2>1, <2>3, <2>4, <2>5
<1> QED  BY <1>1, <1>2 DEF RowTrue

-----------------------------------------------------------------------------
(* What a step owes to the messages.                                       *)

\* What is sent, or about to be done, was true already or has become so.
ParcelsOwed == \A m \in net' : m \in net \/ ParcelTrue(m)'
CommandsOwed ==
  \A n \in Nodes, k \in Slots : \A s :
    s = cmd'[n][k] => \/ s = cmd[n][k] /\ (sel'[n] = sel[n] \/ s.pc # "lookup")
                      \/ CommandTrue(n, s)'
ListenersOwed ==
  \A n \in Nodes : \A s : s = lst'[n] => s = lst[n] \/ ListenerTrue(n, s)'
RowsOwed ==
  \A n \in Nodes : \A q \in msgs'[n] :
    \/ \E r \in msgs[n] : Same(r, q) /\ (q.out /\ q.received => r.received)
    \/ RowTrue(n, q)'

MsgEffect ==
  /\ Grows /\ ParcelsOwed /\ CommandsOwed /\ ListenersOwed /\ RowsOwed /\ NumsDiffer'

LEMMA InvKept ==
  ASSUME MsgInv, MsgTypes', MsgEffect
  PROVE  MsgInv'
<1>0. Grows  BY DEF MsgEffect
<1>1. ParcelsAreTrue'
  BY <1>0, ParcelTrueKept DEF MsgInv, ParcelsAreTrue, MsgEffect, ParcelsOwed
<1>2. CommandsAreTrue'
  <2> SUFFICES ASSUME NEW n \in Nodes, NEW k \in Slots
               PROVE  CommandTrue(n, cmd[n][k])'
    BY DEF CommandsAreTrue
  <2>1. PICK s : s = cmd'[n][k]  OBVIOUS
  <2>2. CommandTrue(n, s)'
    <3>1. CASE s = cmd[n][k] /\ (sel'[n] = sel[n] \/ s.pc # "lookup")
      <4>1. CommandTrue(n, s)
        BY <3>1 DEF MsgInv, CommandsAreTrue, CommandTrue, SendsMessage
      <4> QED  BY <1>0, <3>1, <4>1, CommandTrueKept
    <3> QED  BY <2>1, <3>1 DEF MsgEffect, CommandsOwed
  <2> QED
    BY <2>1, <2>2 DEF CommandTrue, SendsMessage, PostedBy, Joined, Written, Wrote, KeptOut,
                      IsRow
<1>3. ListenersAreTrue'
  <2> SUFFICES ASSUME NEW n \in Nodes
               PROVE  ListenerTrue(n, lst[n])'
    BY DEF ListenersAreTrue
  <2>1. PICK s : s = lst'[n]  OBVIOUS
  <2>2. ListenerTrue(n, s)'
    <3>1. CASE s = lst[n]
      <4>1. ListenerTrue(n, s)
        BY <3>1 DEF MsgInv, ListenersAreTrue, ListenerTrue, SendsMessage
      <4>2. s.pc = "store" => s.parcel.id \in Ids
        BY <3>1, ListenerAt DEF MsgInv, M!MsgSends
      <4> QED  BY <1>0, <4>1, <4>2, ListenerTrueKept
    <3> QED  BY <2>1, <3>1 DEF MsgEffect, ListenersOwed
  <2> QED
    BY <2>1, <2>2 DEF ListenerTrue, SendsMessage, AnsweredBy, PostedBy, HasPeerId, Joined,
                      HasStored, Written, Wrote, KeptOut, IsRow
<1>4. RowsAreTrue'
  <2> SUFFICES ASSUME NEW p \in Nodes, NEW q \in msgs'[p]
               PROVE  RowTrue(p, q)'
    BY DEF RowsAreTrue
  <2>1. ASSUME NEW r \in msgs[p], Same(r, q), q.out /\ q.received => r.received
        PROVE  RowTrue(p, q)'
    BY <1>0, <2>1, RowTrueKept DEF MsgInv, RowsAreTrue
  <2> QED  BY <2>1 DEF MsgEffect, RowsOwed
<1> QED  BY <1>1, <1>2, <1>3, <1>4 DEF MsgInv, MsgEffect

LEMMA CmdWrite ==
  ASSUME MsgTypes, NEW n \in Nodes, NEW k \in Slots, NEW v, cmd' = [cmd EXCEPT ![n][k] = v]
  PROVE  /\ cmd'[n][k] = v
         /\ \A j \in Nodes, l \in Slots : j # n \/ l # k => cmd'[j][l] = cmd[j][l]
BY DEF MsgTypes

LEMMA LstWrite ==
  ASSUME MsgTypes, NEW n \in Nodes, NEW v, lst' = [lst EXCEPT ![n] = v]
  PROVE  /\ lst'[n] = v
         /\ \A j \in Nodes : j # n => lst'[j] = lst[j]
BY DEF MsgTypes

\* Of the commands, one takes position v, or none.
LEMMA OneCommandOwed ==
  ASSUME MsgTypes, NEW n \in Nodes, NEW k \in Slots, NEW v, sel' = sel,
         cmd' = [cmd EXCEPT ![n][k] = v], CommandTrue(n, v)'
  PROVE  CommandsOwed
BY CmdWrite DEF CommandsOwed

LEMMA OneListenerOwed ==
  ASSUME MsgTypes, NEW n \in Nodes, NEW v,
         lst' = [lst EXCEPT ![n] = v], ListenerTrue(n, v)'
  PROVE  ListenersOwed
BY LstWrite DEF ListenersOwed

LEMMA NobodyOwes ==
  /\ net' \subseteq net => ParcelsOwed
  /\ cmd' = cmd /\ sel' = sel => CommandsOwed
  /\ lst' = lst => ListenersOwed
BY DEF ParcelsOwed, CommandsOwed, ListenersOwed

\* A process that is not at work on a message owes nothing.
LEMMA OthersAreTrue ==
  ASSUME NEW n, NEW s, ~OfMessages(s)
  PROVE  CommandTrue(n, s)' /\ ListenerTrue(n, s)'
BY DEF OfMessages, CommandTrue, ListenerTrue, SendsMessage

LEMMA ConnParcelsAreTrue ==
  ASSUME NEW m, m.kind \in ConnKinds
  PROVE  ParcelTrue(m)'
BY DEF ParcelTrue, ConnKinds

\* No message written, none marked.
LEMMA SameMsgs ==
  ASSUME MsgInv, RowsStay, msgs' = msgs, \A n \in Nodes : held[n] => held'[n]
  PROVE  Grows /\ RowsOwed /\ NumsDiffer'
BY DEF Grows, RowsOwed, Same, MsgInv, NumsDiffer

-----------------------------------------------------------------------------
(* The steps.                                                              *)

\* A node runs one command at a time.
OneCommand == \A j, k \in Slots : j = k

LEMMA HandshakeOwes ==
  ASSUME MsgInv, H!IInv, RowsStay, NEW n \in Nodes, UNCHANGED <<msgs, sel, held>>,
         C!Handle(n) \/ \E k \in Slots : ConnCommand(n, k)
  PROVE  MsgEffect
<1>0. MsgTypes  BY DEF MsgInv
<1>1. Grows /\ RowsOwed /\ NumsDiffer'  BY SameMsgs
<1>2. ASSUME NEW k \in Slots, ConnCommand(n, k) PROVE MsgEffect
  <2>1. PICK v : ~OfMessages(v) /\ cmd' = [cmd EXCEPT ![n][k] = v]
    BY <1>0, <1>2, ConnCommandEffect
  <2>2. net' = net /\ lst' = lst  BY <1>0, <1>2, ConnCommandEffect
  <2>3. CommandsOwed  BY <1>0, <2>1, OthersAreTrue, OneCommandOwed
  <2> QED  BY <1>1, <2>2, <2>3, NobodyOwes DEF MsgEffect
<1>3. CASE C!Handle(n)
  <2>1. net' \subseteq net /\ cmd' = cmd  BY <1>0, <1>3, ConnHandlersEffect
  <2>2. ListenersOwed
    <3>1. CASE lst' = lst  BY <3>1, NobodyOwes
    <3>2. ASSUME NEW v, ~OfMessages(v), lst' = [lst EXCEPT ![n] = v] PROVE ListenersOwed
      BY <1>0, <3>2, OthersAreTrue, OneListenerOwed
    <3> QED  BY <1>0, <1>3, <3>1, <3>2, ConnHandlersEffect
  <2> QED  BY <1>1, <2>1, <2>2, NobodyOwes DEF MsgEffect
<1> QED  BY <1>2, <1>3

\* A command or a listener that goes on or ends, with its parcel sent or not.
LEMMA ProcessesOwe ==
  ASSUME MsgInv, RowsStay, NEW n \in Nodes, UNCHANGED M!msgVars,
         \/ M!StartListening(n) \/ M!ListenerSend(n) \/ M!DropParcel(n)
         \/ \E k \in Slots : M!CommandSend(n, k) \/ M!CommandExit(n, k)
  PROVE  MsgEffect
<1>0. MsgTypes /\ msgs' = msgs /\ sel' = sel /\ held' = held  BY DEF MsgInv, M!msgVars
<1>1. Grows /\ RowsOwed /\ NumsDiffer'  BY <1>0, SameMsgs
<1>2. ASSUME lst' = [lst EXCEPT ![n] = Loop] PROVE ListenersOwed
  BY <1>0, <1>2, WhoIsOfMessages, OthersAreTrue, OneListenerOwed
<1>3. ASSUME NEW k \in Slots, cmd' = [cmd EXCEPT ![n][k] = Idle] PROVE CommandsOwed
  BY <1>0, <1>3, WhoIsOfMessages, OthersAreTrue, OneCommandOwed
<1>4. ASSUME NEW m, SendParcel(m), ParcelTrue(m) PROVE ParcelsOwed
  BY <1>1, <1>4, ParcelTrueKept DEF SendParcel, ParcelsOwed
<1>5. CASE M!StartListening(n)
  BY <1>1, <1>2, <1>5, <1>0, Words, NobodyOwes DEF M!StartListening, MsgEffect
<1>6. CASE M!ListenerSend(n)
  <2>1. /\ lst[n].pc = "send" /\ SendParcel(lst[n].parcel)
        /\ lst' = [lst EXCEPT ![n] = Loop] /\ cmd' = cmd
    BY <1>6, Words DEF M!ListenerSend, M!SendParcel, SendParcel, M!Listening, Listening
  <2>2. PICK m : m = lst[n].parcel  OBVIOUS
  <2>3. ParcelTrue(m)
    <3>1. CASE m.kind \in ConnKinds  BY <3>1 DEF ParcelTrue, ConnKinds
    <3>2. CASE m.kind \notin ConnKinds
      BY <2>1, <2>2, <3>2
         DEF MsgInv, ListenersAreTrue, ListenerTrue, SendsMessage, ParcelTrue
    <3> QED  BY <3>1, <3>2
  <2>4. ParcelsOwed  BY <1>4, <2>1, <2>2, <2>3
  <2> QED  BY <1>0, <1>1, <1>2, <2>1, <2>4, NobodyOwes DEF MsgEffect
<1>7. CASE M!DropParcel(n)
  BY <1>0, <1>1, <1>7, NobodyOwes DEF M!DropParcel, MsgEffect
<1>8. ASSUME NEW k \in Slots, M!CommandSend(n, k) PROVE MsgEffect
  <2>1. /\ cmd[n][k].pc = "send" /\ SendParcel(cmd[n][k].parcel)
        /\ cmd' = [cmd EXCEPT ![n][k] = Idle] /\ lst' = lst
    BY <1>8, Words DEF M!CommandSend, M!SendParcel, SendParcel, M!Listening, Listening
  <2>2. PICK m : m = cmd[n][k].parcel  OBVIOUS
  <2>3. ParcelTrue(m)
    <3>1. CASE m.kind \in ConnKinds  BY <3>1 DEF ParcelTrue, ConnKinds
    <3>2. CASE m.kind \notin ConnKinds
      BY <2>1, <2>2, <3>2
         DEF MsgInv, CommandsAreTrue, CommandTrue, SendsMessage, ParcelTrue
    <3> QED  BY <3>1, <3>2
  <2>4. ParcelsOwed  BY <1>4, <2>1, <2>2, <2>3
  <2> QED  BY <1>1, <1>3, <2>1, <2>4, NobodyOwes DEF MsgEffect
<1>9. ASSUME NEW k \in Slots, M!CommandExit(n, k) PROVE MsgEffect
  BY <1>1, <1>3, <1>9, Words, NobodyOwes DEF M!CommandExit, MsgEffect
<1> QED  BY <1>5, <1>6, <1>7, <1>8, <1>9

\* With one command at a time nobody is between statements when a connection is selected.
LEMMA SelectOwes ==
  ASSUME MsgInv, RowsStay, OneCommand, NEW n \in Nodes, NEW k \in Slots, NEW c \in ConnIds,
         M!SelectConn(n, k, c)
  PROVE  MsgEffect
<1>1. /\ conns' = conns /\ net' = net /\ lst' = lst /\ cmd' = cmd /\ msgs' = msgs
      /\ held' = held /\ sel' = [sel EXCEPT ![n] = c] /\ cmd[n][k] = Idle
  BY Words DEF M!SelectConn, M!nodeVars
<1>2. Grows /\ RowsOwed /\ NumsDiffer'  BY <1>1, SameMsgs
<1>3. CommandsOwed
  <2> SUFFICES ASSUME NEW j \in Nodes, NEW l \in Slots
               PROVE  sel'[j] = sel[j] \/ cmd[j][l].pc # "lookup"
    BY <1>1 DEF CommandsOwed
  <2>1. CASE j = n
    <3>1. l = k  BY DEF OneCommand
    <3> QED  BY <1>1, <2>1, <3>1, Positions
  <2>2. CASE j # n  BY <1>1, <2>2 DEF MsgInv, MsgTypes
  <2> QED  BY <2>1, <2>2
<1> QED  BY <1>1, <1>2, <1>3, NobodyOwes DEF MsgEffect

\* The number of a new message is larger than those its connection has.
LEMMA InsertOwes ==
  ASSUME MsgInv, RowsStay, "commit" \notin Faults,
         NEW n \in Nodes, NEW k \in Slots, NEW b \in Bodies, M!SendInsert(n, k, b)
  PROVE  MsgEffect
<1>0. MsgTypes  BY DEF MsgInv
<1>1. PICK num \in M!Nums :
        /\ M!NextNum(n, sel[n], num)
        /\ \/ ~held[n] /\ msgs' = [msgs EXCEPT ![n] = @ \cup {NewRow(n, num, b)}]
           \/ held[n] /\ msgs' = msgs
        /\ cmd' = [cmd EXCEPT ![n][k] = M!LookingUp(num, b)]
  BY DEF M!SendInsert, NewRow, M!CommitFails
<1>2. conns' = conns /\ net' = net /\ lst' = lst /\ sel' = sel /\ held' = held
  BY DEF M!SendInsert
<1>3. \A r \in msgs[n] : r.conn = sel[n] /\ sel[n] # Null => r.num # num
  <2>1. \A r \in msgs[n] : r.num \in Nat  BY <1>0 DEF MsgTypes, M!MsgRow, M!Nums
  <2> QED  BY <1>1, <2>1 DEF M!NextNum, M!Nums
<1>4. Grows /\ RowsOwed /\ NumsDiffer' /\ (sel[n] # Null => Written(n, sel[n], num, b))'
  <2>1. CASE held[n] /\ msgs' = msgs
    <3>1. (sel[n] # Null => KeptOut(n, sel[n], num))'
      BY <1>2, <1>3, <2>1 DEF KeptOut
    <3> QED  BY <1>2, <2>1, <3>1, SameMsgs DEF Written
  <2>2. CASE ~held[n] /\ msgs' = [msgs EXCEPT ![n] = @ \cup {NewRow(n, num, b)}]
    <3>0. PICK new : new = NewRow(n, num, b)  OBVIOUS
    <3>1. /\ new.conn = sel[n] /\ new.num = num /\ new.body = b /\ new.out
          /\ ~new.received
      BY <3>0 DEF NewRow
    <3>2. /\ msgs'[n] = msgs[n] \cup {new}
          /\ \A j \in Nodes : j # n => msgs'[j] = msgs[j]
      BY <1>0, <2>2, <3>0 DEF MsgTypes
    <3>3. Grows  BY <1>2, <2>2, <3>2 DEF Grows, Same
    <3>4. RowsOwed  BY <3>1, <3>2 DEF RowsOwed, RowTrue, Same
    <3>5. NumsDiffer'  BY <1>3, <3>1, <3>2 DEF MsgInv, NumsDiffer
    <3>6. Written(n, sel[n], num, b)'  BY <1>2, <3>1, <3>2 DEF Written, Wrote
    <3> QED  BY <3>3, <3>4, <3>5, <3>6
  <2> QED  BY <1>1, <2>1, <2>2
<1>5. CommandsOwed
  <2>1. PICK v : v = M!LookingUp(num, b)  OBVIOUS
  <2>2. v.pc = "lookup" /\ v.num = num /\ v.body = b  BY <2>1, Positions
  <2>3. CommandTrue(n, v)'  BY <1>4, <2>2 DEF CommandTrue, SendsMessage
  <2> QED  BY <1>0, <1>1, <1>2, <2>1, <2>3, OneCommandOwed
<1> QED  BY <1>2, <1>4, <1>5, NobodyOwes DEF MsgEffect

LEMMA LookupOwes ==
  ASSUME MsgInv, H!IInv, RowsStay, NEW n \in Nodes, NEW k \in Slots,
         M!SendLookup(n, k) \/ M!SendRefused(n, k)
  PROVE  MsgEffect
<1>0. MsgTypes  BY DEF MsgInv
<1>1. /\ conns' = conns /\ net' = net /\ lst' = lst /\ sel' = sel /\ held' = held
      /\ msgs' = msgs
  BY DEF M!SendLookup, M!SendRefused, M!msgVars
<1>2. Grows /\ RowsOwed /\ NumsDiffer'  BY <1>1, SameMsgs
<1>3. CASE M!SendRefused(n, k)
  <2>1. cmd' = [cmd EXCEPT ![n][k] = Idle]  BY <1>3, Words DEF M!SendRefused
  <2>2. CommandsOwed
    BY <1>0, <1>1, <2>1, WhoIsOfMessages, OthersAreTrue, OneCommandOwed
  <2> QED  BY <1>1, <1>2, <2>2, NobodyOwes DEF MsgEffect
<1>4. CASE M!SendLookup(n, k)
  <2>1. PICK c \in ConnIds :
          /\ c = sel[n] /\ IsRow(n, c) /\ conns[n][c].status = "accepted"
          /\ cmd' = [cmd EXCEPT ![n][k] =
               Sending(M!MsgSend(conns[n][c].peer, conns[n][c].self_id,
                                 cmd[n][k].num, cmd[n][k].body))]
    BY <1>4, Words, Tables DEF M!SendLookup
  <2>2. /\ conns[n][c].self_id \in Ids /\ conns[n][c].peer_id \in Ids
        /\ conns[n][c].peer \in Nodes
    BY <2>1, RowTyped DEF Row
  <2>3. cmd[n][k].num \in M!Nums /\ cmd[n][k].body \in Bodies
    BY <1>0, <1>4, CommandAt DEF M!SendLookup
  <2>4. PICK m : m = M!MsgSend(conns[n][c].peer, conns[n][c].self_id,
                               cmd[n][k].num, cmd[n][k].body)
    OBVIOUS
  <2>5. /\ m.kind = "MSG_SEND" /\ m.dst = conns[n][c].peer /\ m.id = conns[n][c].self_id
        /\ m.num = cmd[n][k].num /\ m.body = cmd[n][k].body
    BY <2>2, <2>3, <2>4, ParcelTypes
  <2>6. Joined(n, c)  BY <2>1, <2>2, NodeAssumption DEF Joined
  <2>7. Written(n, c, m.num, m.body)
    BY <1>4, <2>1, <2>5, Ap2pAssumption
       DEF MsgInv, CommandsAreTrue, CommandTrue, M!SendLookup, Written, Wrote, KeptOut
  <2>8. PostedBy(n, m)  BY <2>5, <2>6, <2>7 DEF PostedBy
  <2>9. PICK v : v = Sending(m)  OBVIOUS
  <2>10. CommandTrue(n, v)'
    BY <1>2, <2>5, <2>8, <2>9, PostedByKept, Positions DEF CommandTrue, SendsMessage
  <2>11. cmd' = [cmd EXCEPT ![n][k] = v]  BY <2>1, <2>4, <2>9
  <2>12. CommandsOwed  BY <1>0, <1>1, <2>10, <2>11, OneCommandOwed
  <2> QED  BY <1>1, <1>2, <2>12, NobodyOwes DEF MsgEffect
<1> QED  BY <1>3, <1>4


\* The message stored is one the user at the other end has written.
LEMMA StoreOwes ==
  ASSUME MsgInv, H!IInv, RowsStay, "commit" \notin Faults, NEW n \in Nodes,
         M!Store(n) \/ M!StoreFails(n)
  PROVE  MsgEffect
<1>0. MsgTypes  BY DEF MsgInv
<1>1. conns' = conns /\ net' = net /\ cmd' = cmd /\ sel' = sel /\ held' = held
  BY DEF M!Store, M!StoreFails, M!msgVars
<1>2. CASE M!StoreFails(n)
  <2>1. msgs' = msgs /\ lst' = [lst EXCEPT ![n] = Loop]
    BY <1>2, Words DEF M!StoreFails, M!msgVars
  <2>2. Grows /\ RowsOwed /\ NumsDiffer'  BY <1>1, <2>1, SameMsgs
  <2>3. ListenersOwed  BY <1>0, <2>1, WhoIsOfMessages, OthersAreTrue, OneListenerOwed
  <2> QED  BY <1>1, <2>2, <2>3, NobodyOwes DEF MsgEffect
<1>3. CASE M!Store(n)
  <2>1. PICK m, s, p : m = lst[n].parcel /\ s = lst[n].self_id /\ p = lst[n].peer
    OBVIOUS
  <2>2. PICK new : new = StoredRow(n)  OBVIOUS
  <2>3. PICK v : v = Sending(M!MsgRcv(p, s, m.num))  OBVIOUS
  <2>4. /\ lst[n].pc = "store" /\ M!NumFree(n, new.conn, m.num)
        /\ msgs' = [msgs EXCEPT ![n] = @ \cup {new}]
        /\ lst' = [lst EXCEPT ![n] = v]
    BY <1>3, <2>1, <2>2, <2>3, Words DEF M!Store, StoredRow
  <2>5. m \in M!MsgSends /\ s \in Ids /\ p \in Nodes
    BY <1>0, <2>1, <2>4, ListenerAt
  <2>6. m.id \in Ids /\ m.num \in M!Nums  BY <2>5 DEF M!MsgSends
  <2>7. ListenerTrue(n, lst[n])  BY DEF MsgInv, ListenersAreTrue
  <2>8. PICK d \in ConnIds : /\ HasPeerId(n, d, m.id) /\ Joined(n, d)
                             /\ conns[n][d].self_id = s /\ conns[n][d].peer = p
    BY <2>1, <2>4, <2>7 DEF ListenerTrue
  <2>9. m.dst = n /\ \E q \in Nodes : PostedBy(q, m)
    BY <2>1, <2>4, <2>7 DEF ListenerTrue
  <2>10. /\ new.conn = d /\ new.num = m.num /\ new.body = m.body
         /\ ~new.out
    BY <2>1, <2>2, <2>6, <2>8, ConnOfRow DEF StoredRow
  <2>11. /\ msgs'[n] = msgs[n] \cup {new}
         /\ \A j \in Nodes : j # n => msgs'[j] = msgs[j]
    BY <1>0, <2>4 DEF MsgTypes
  <2>12. Grows  BY <1>1, <2>10, <2>11 DEF Grows, Same
  <2>13. RowTrue(n, new)'
    <3>1. PICK q \in Nodes, c \in ConnIds :
            /\ Joined(q, c) /\ conns[q][c].peer = n /\ conns[q][c].self_id = m.id
            /\ Written(q, c, m.num, m.body)
      BY <2>9 DEF PostedBy
    <3>2. Meets(q, c, n, d)  BY <2>8, <3>1 DEF Meets
    <3>3. Meets(q, c, n, d)' /\ Written(q, c, m.num, m.body)'
      BY <2>12, <3>1, <3>2, MeetsKept, WrittenKept DEF Grows
    <3> QED  BY <2>10, <3>3 DEF RowTrue
  <2>14. RowsOwed  BY <2>11, <2>13 DEF RowsOwed, Same
  <2>15. NumsDiffer'
    <3>1. \A r \in msgs[n] : r.conn # d \/ r.num # m.num
      BY <2>4, <2>10, Ap2pAssumption DEF M!NumFree
    <3> QED  BY <2>10, <2>11, <3>1 DEF MsgInv, NumsDiffer
  <2>16. ListenerTrue(n, v)'
    <3>1. PICK a : a = M!MsgRcv(p, s, m.num)  OBVIOUS
    <3>2. a.kind = "MSG_RCV" /\ a.dst = p /\ a.id = s /\ a.num = m.num
      BY <2>5, <2>6, <3>1, AnswerTypes
    <3>3. HasStored(n, d, a.num)'  BY <2>10, <2>11, <3>2 DEF HasStored
    <3>4. Joined(n, d)' /\ conns'[n][d].peer = p /\ conns'[n][d].self_id = s
      BY <2>8, JoinedKept
    <3>5. AnsweredBy(n, a)'  BY <3>2, <3>3, <3>4 DEF AnsweredBy
    <3>6. v.pc = "send" /\ v.parcel = a  BY <2>3, <3>1, Positions
    <3> QED  BY <3>2, <3>5, <3>6 DEF ListenerTrue, SendsMessage
  <2>17. ListenersOwed  BY <1>0, <2>4, <2>16, OneListenerOwed
  <2> QED  BY <1>1, <2>12, <2>14, <2>15, <2>17, NobodyOwes DEF MsgEffect
<1> QED  BY <1>2, <1>3

LEMMA HandleSendOwes ==
  ASSUME MsgInv, H!IInv, RowsStay, NEW n \in Nodes, NEW m \in net,
         M!HandleSend(n, m) \/ M!HandleSendRefused(n, m) \/ M!HandleSendUnknown(n, m)
  PROVE  MsgEffect
<1>0. MsgTypes  BY DEF MsgInv
<1>1. /\ net' \subseteq net /\ conns' = conns /\ cmd' = cmd /\ sel' = sel /\ msgs' = msgs
      /\ \A j \in Nodes : held[j] => held'[j]
  BY <1>0 DEF M!HandleSend, M!HandleSendRefused, M!HandleSendUnknown, M!Receive, M!msgVars,
              MsgTypes
<1>2. Grows /\ RowsOwed /\ NumsDiffer'  BY <1>1, SameMsgs
<1>3. ListenersOwed
  <2>1. CASE M!HandleSendRefused(n, m) \/ M!HandleSendUnknown(n, m)
    BY <2>1, NobodyOwes DEF M!HandleSendRefused, M!HandleSendUnknown
  <2>2. CASE M!HandleSend(n, m)
    <3>1. PICK c \in ConnIds :
            /\ HasPeerId(n, c, m.id) /\ conns[n][c].status = "accepted"
            /\ lst' = [lst EXCEPT ![n] =
                 M!Storing(m, conns[n][c].self_id, conns[n][c].peer)]
      BY <2>2, Tables DEF M!HandleSend
    <3>2. m.kind = "MSG_SEND" /\ m.dst = n  BY <2>2 DEF M!HandleSend, M!Receive
    <3>3. PICK p \in Nodes : PostedBy(p, m)
      BY <3>2 DEF MsgInv, ParcelsAreTrue, ParcelTrue
    <3>4. Joined(n, c)
      <4>1. IsRow(n, c)  BY <3>1 DEF HasPeerId
      <4>2. conns[n][c].self_id \in Ids /\ conns[n][c].peer_id \in Ids
        BY <3>1, <4>1, RowTyped DEF Row
      <4> QED  BY <4>1, <4>2, NodeAssumption DEF Joined
    <3>5. PICK v : v = M!Storing(m, conns[n][c].self_id, conns[n][c].peer)  OBVIOUS
    <3>6. /\ v.pc = "store" /\ v.parcel = m /\ v.self_id = conns[n][c].self_id
          /\ v.peer = conns[n][c].peer
      BY <3>5, Positions
    <3>7. PostedBy(p, m)'  BY <1>2, <3>3, PostedByKept
    <3>8. HasPeerId(n, c, m.id)'  BY <1>1, <3>1 DEF HasPeerId, IsRow
    <3>9. /\ Joined(n, c)' /\ conns'[n][c].self_id = v.self_id
          /\ conns'[n][c].peer = v.peer
      BY <1>1, <3>4, <3>6 DEF Joined, IsRow
    <3>10. ListenerTrue(n, v)'
      BY <3>2, <3>6, <3>7, <3>8, <3>9 DEF ListenerTrue, SendsMessage
    <3>11. lst' = [lst EXCEPT ![n] = v]  BY <3>1, <3>5
    <3> QED  BY <1>0, <3>10, <3>11, OneListenerOwed
  <2> QED  BY <2>1, <2>2
<1> QED  BY <1>1, <1>2, <1>3, NobodyOwes DEF MsgEffect

LEMMA MarkedRow ==
  ASSUME NEW r \in M!MsgRow, NEW q, q = [r EXCEPT !.received = TRUE]
  PROVE  Same(r, q)
BY DEF M!MsgRow, Same

\* The row marked as received is that of the message the other end has stored.
LEMMA HandleRcvOwes ==
  ASSUME MsgInv, H!AgreeInv, RowsStay, NEW n \in Nodes, NEW m \in net, M!HandleRcv(n, m)
  PROVE  MsgEffect
<1>0. MsgTypes /\ H!IInv  BY DEF MsgInv, H!AgreeInv, H!SoloInv
<1> DEFINE Hit(r) == r.num = m.num /\ r.conn = M!ConnOf(n, m.id) /\ r.conn # Null
           Mark(r) == IF Hit(r) THEN [r EXCEPT !.received = TRUE] ELSE r
<1>1. /\ net' \subseteq net /\ conns' = conns /\ cmd' = cmd /\ lst' = lst /\ sel' = sel
      /\ held' = held /\ m.kind = "MSG_RCV" /\ m.dst = n
  BY DEF M!HandleRcv, M!Receive
<1>2. /\ msgs'[n] = {Mark(r) : r \in msgs[n]}
      /\ \A j \in Nodes : j # n => msgs'[j] = msgs[j]
  BY <1>0 DEF M!HandleRcv, MsgTypes
<1>3. ASSUME NEW r \in msgs[n] PROVE Same(r, Mark(r))
  <2>1. r \in M!MsgRow  BY <1>0 DEF MsgTypes
  <2>2. PICK q : q = [r EXCEPT !.received = TRUE]  OBVIOUS
  <2>3. Same(r, q)  BY <2>1, <2>2, MarkedRow
  <2>4. Same(r, r)  BY DEF Same
  <2> QED  BY <2>2, <2>3, <2>4
<1>4. ASSUME NEW r \in msgs[n], Hit(r), r.out
      PROVE  /\ r.conn \in ConnIds
             /\ \E p \in Nodes, d \in ConnIds :
                  /\ Meets(p, d, n, r.conn)
                  /\ \E q \in msgs[p] : /\ q.conn = d /\ q.num = r.num
                                        /\ q.body = r.body /\ ~q.out
  <2>1. PICK p \in Nodes : AnsweredBy(p, m)
    BY <1>1 DEF MsgInv, ParcelsAreTrue, ParcelTrue
  <2>2. PICK d \in ConnIds :
          /\ Joined(p, d) /\ conns[p][d].peer = n /\ conns[p][d].self_id = m.id
          /\ HasStored(p, d, m.num)
    BY <1>1, <2>1 DEF AnsweredBy
  <2>3. PICK q \in msgs[p] : ~q.out /\ q.conn = d /\ q.num = m.num
    BY <2>2 DEF HasStored
  <2>4. m.id \in Ids  BY <1>0, ParcelFields DEF MsgTypes
  <2>5. PICK c \in ConnIds : c = r.conn /\ HasPeerId(n, c, m.id)
    BY <1>0, <1>4, <2>4, ConnOfRow
  <2>6. Meets(p, d, n, c)  BY <2>2, <2>5 DEF Meets
  <2>7. PICK j \in Nodes, e \in ConnIds :
          Meets(j, e, p, d) /\ Written(j, e, q.num, q.body)
    BY <2>3 DEF MsgInv, RowsAreTrue, RowTrue
  <2>8. j = n /\ e = c  BY <2>6, <2>7, OneOtherEnd
  <2>9. q.body = r.body
    BY <1>4, <2>3, <2>5, <2>7, <2>8 DEF Written, Wrote, KeptOut, MsgInv, NumsDiffer
  <2> QED  BY <1>4, <2>3, <2>5, <2>6, <2>9
<1> HIDE DEF Mark, Hit
<1>5. \A q \in msgs'[n] : \E r \in msgs[n] : q = Mark(r) /\ Same(r, q)
  BY <1>2, <1>3
<1>6. Grows
  <2>1. \A r \in msgs[n] : Mark(r) \in msgs'[n]  BY <1>2
  <2>2. ASSUME NEW j \in Nodes
        PROVE  /\ \A r \in msgs[j] : \E q \in msgs'[j] : Same(r, q)
               /\ \A q \in msgs'[j] : \E r \in msgs[j] : Same(r, q)
    <3>1. CASE j = n  BY <1>3, <1>5, <2>1, <3>1
    <3>2. CASE j # n  BY <1>2, <3>2 DEF Same
    <3> QED  BY <3>1, <3>2
  <2> QED  BY <1>1, <2>2 DEF Grows
<1>7. RowsOwed
  <2> SUFFICES ASSUME NEW j \in Nodes, NEW q \in msgs'[j]
               PROVE  \/ \E r \in msgs[j] :
                           Same(r, q) /\ (q.out /\ q.received => r.received)
                      \/ RowTrue(j, q)'
    BY DEF RowsOwed
  <2>1. CASE j # n  BY <1>2, <2>1 DEF Same
  <2>2. CASE j = n
    <3>1. PICK r \in msgs[n] : q = Mark(r) /\ Same(r, q)  BY <1>5, <2>2
    <3>2. CASE ~Hit(r)  BY <2>2, <3>1, <3>2 DEF Mark
    <3>3. CASE ~r.out  BY <2>2, <3>1, <3>3 DEF Same
    <3>4. CASE Hit(r) /\ r.out
      <4>1. PICK p \in Nodes, d \in ConnIds :
              /\ Meets(p, d, n, r.conn)
              /\ \E s \in msgs[p] : /\ s.conn = d /\ s.num = r.num
                                    /\ s.body = r.body /\ ~s.out
        BY <1>4, <3>4
      <4>2. PICK c \in ConnIds : c = r.conn  BY <1>4, <3>4
      <4>3. Meets(p, d, n, c)'  BY <4>1, <4>2, MeetsKept
      <4>4. \E s \in msgs'[p] : /\ s.conn = d /\ s.num = r.num
                                /\ s.body = r.body /\ ~s.out
        BY <1>6, <4>1 DEF Grows, Same
      <4>5. q.conn = c /\ q.num = r.num /\ q.body = r.body /\ q.out
        BY <3>1, <3>4, <4>2 DEF Same
      <4> QED  BY <2>2, <4>3, <4>4, <4>5 DEF RowTrue
    <3> QED  BY <3>2, <3>3, <3>4
  <2> QED  BY <2>1, <2>2
<1>8. NumsDiffer'
  <2> SUFFICES ASSUME NEW j \in Nodes, NEW q \in msgs'[j], NEW s \in msgs'[j],
                      q.conn = s.conn, q.conn # Null, q.num = s.num
               PROVE  q = s
    BY DEF NumsDiffer
  <2>1. CASE j # n  BY <1>2, <2>1 DEF MsgInv, NumsDiffer
  <2>2. CASE j = n
    <3>1. PICK r \in msgs[n] : q = Mark(r) /\ Same(r, q)  BY <1>5, <2>2
    <3>2. PICK t \in msgs[n] : s = Mark(t) /\ Same(t, s)  BY <1>5, <2>2
    <3>3. r = t  BY <3>1, <3>2 DEF Same, MsgInv, NumsDiffer
    <3> QED  BY <3>1, <3>2, <3>3
  <2> QED  BY <2>1, <2>2
<1> QED  BY <1>1, <1>6, <1>7, <1>8, NobodyOwes DEF MsgEffect

LEMMA InitOwes == Init => MsgInv
<1> SUFFICES ASSUME Init PROVE MsgInv  OBVIOUS
<1>1. MsgTypes  BY TypesInvInit DEF TypesInv
<1>2. /\ net = {} /\ \A n \in Nodes : lst[n] = Off \/ lst[n] = Loop
      /\ \A n \in Nodes : msgs[n] = {}
      /\ \A n \in Nodes, k \in Slots : cmd[n][k] = Idle
  BY DEF Init, NodeInit
<1>3. CommandsAreTrue /\ ListenersAreTrue
  BY <1>2, Positions DEF CommandsAreTrue, ListenersAreTrue, CommandTrue, ListenerTrue,
                         SendsMessage
<1> QED  BY <1>1, <1>2, <1>3 DEF MsgInv, ParcelsAreTrue, RowsAreTrue, NumsDiffer

\* The handshake's invariant, of a node that also sends messages.
LEMMA AgreeSeen ==
  ASSUME OneCommand, MsgTypes, H!AgreeInv, [Next]_vars
  PROVE  H!AgreeInv' /\ RowsStay
<1>1. H!Next \/ UNCHANGED H!vars  BY StepSeen, NotSeenStays
<1>2. H!OneCommand  BY DEF OneCommand, H!OneCommand
<1>3. H!AgreeInv' /\ H!IdsKept
  BY <1>1, <1>2, H!AgreeInvNext, HandshakeAssumptions
<1>4. RowsStay  BY <1>3 DEF H!IdsKept, RowsStay, H!IsRow, IsRow
<1> QED  BY <1>3, <1>4

LEMMA MsgInvNext ==
  ASSUME OneCommand, Faults \cap {"stop", "crash", "commit"} = {},
         MsgInv, H!AgreeInv, [Next]_vars
  PROVE  MsgInv' /\ H!AgreeInv'
<1>0. MsgTypes /\ H!IInv  BY DEF MsgInv, H!AgreeInv, H!SoloInv
<1>1. MsgTypes'  BY <1>0, MsgTypesNext
<1>2. H!AgreeInv' /\ RowsStay  BY <1>0, AgreeSeen
<1>3. ASSUME NEW n \in Nodes, Listener(n) PROVE MsgEffect
  <2>1. CASE M!Listener(n)
    <3>1. ~M!Stop(n)  BY DEF M!Stop, M!StopListening
    <3>2. CASE (M!StartListening(n) \/ M!ListenerSend(n) \/ M!DropParcel(n))
               /\ UNCHANGED M!msgVars
      BY <1>2, <3>2, ProcessesOwe
    <3>3. CASE M!Handle(n)
      BY <1>0, <1>2, <3>3, HandleSendOwes, HandleRcvOwes DEF M!Handle
    <3>4. CASE M!Store(n) \/ M!StoreFails(n)
      BY <1>0, <1>2, <3>4, StoreOwes
    <3> QED  BY <2>1, <3>1, <3>2, <3>3, <3>4 DEF M!Listener
  <2>2. CASE C!Handle(n) /\ UNCHANGED <<msgs, sel, held>>
    BY <1>0, <1>2, <2>2, HandshakeOwes
  <2> QED  BY <1>3, <2>1, <2>2 DEF Listener
<1>4. ASSUME NEW n \in Nodes, NEW k \in Slots, Command(n, k) PROVE MsgEffect
  <2>1. CASE M!Command(n, k)
    <3>1. CASE \E c \in ConnIds : M!SelectConn(n, k, c)
      BY <1>2, <3>1, SelectOwes
    <3>2. CASE \E b \in Bodies : M!SendInsert(n, k, b)
      BY <1>2, <3>2, InsertOwes
    <3>3. CASE M!SendLookup(n, k) \/ M!SendRefused(n, k)
      BY <1>0, <1>2, <3>3, LookupOwes
    <3>4. CASE (M!CommandSend(n, k) \/ M!CommandExit(n, k)) /\ UNCHANGED M!msgVars
      BY <1>2, <3>4, ProcessesOwe
    <3> QED  BY <2>1, <3>1, <3>2, <3>3, <3>4 DEF M!Command
  <2>2. CASE ConnCommand(n, k) /\ UNCHANGED <<msgs, sel, held>>
    BY <1>0, <1>2, <2>2, HandshakeOwes
  <2> QED  BY <1>4, <2>1, <2>2 DEF Command
<1>5. CASE Next  BY <1>1, <1>2, <1>3, <1>4, <1>5, InvKept DEF Next
<1>6. CASE UNCHANGED vars
  <2>1. MsgEffect
    BY <1>0, <1>2, <1>6, SameMsgs, NobodyOwes DEF vars, nodeVars, MsgEffect
  <2> QED  BY <1>1, <1>2, <2>1, InvKept
<1> QED  BY <1>5, <1>6

-----------------------------------------------------------------------------
(* What messages rest on.                                                  *)

\* Of nodes that run one command at a time, whose listeners are not stopped and whose
\* commits do not fail, the invariant of messages and that of the handshake hold
\* together: the first needs the ends of a row to be for good, which is what the second
\* shows.
THEOREM MessagesRestOnHandshake ==
  ASSUME OneCommand, Faults \cap {"stop", "crash", "commit"} = {}
  PROVE  Spec => [](MsgInv /\ H!AgreeInv)
<1>1. Init => MsgInv /\ H!AgreeInv
  BY InitOwes, InitSeen, H!AgreeInit, HandshakeAssumptions
<1>2. (MsgInv /\ H!AgreeInv) /\ [Next]_vars => (MsgInv /\ H!AgreeInv)'  BY MsgInvNext
<1> QED  BY <1>1, <1>2, PTL DEF Spec

LEMMA MeetingIsByConsent ==
  ASSUME H!AgreeInv, NEW n \in Nodes, NEW c \in ConnIds, NEW p \in Nodes, NEW d \in ConnIds,
         Meets(n, c, p, d)
  PROVE  Ends(n, c, p, d) /\ Consented(p, d)
<1>1. /\ conns[n][c].self_id # Null /\ conns[p][d].peer_id = conns[n][c].self_id
      /\ conns[n][c].peer_id # Null
  BY DEF Meets, Joined, HasPeerId
<1>2. CASE Made(n, c, p, d)  BY <1>1, <1>2 DEF Made, Ends, Consented
<1>3. CASE Made(p, d, n, c)  BY <1>1, <1>3 DEF Ends, Consented
<1> QED  BY <1>2, <1>3, MeetsEnds

LEMMA RowsByConsent == MsgInv /\ H!AgreeInv => StoredByConsent
<1> SUFFICES ASSUME MsgInv, H!AgreeInv, NEW p \in Nodes, NEW q \in msgs[p], ~q.out
             PROVE  /\ q.conn \in ConnIds /\ Consented(p, q.conn)
                    /\ \E n \in Nodes, c \in ConnIds :
                         /\ Ends(n, c, p, q.conn)
                         /\ \/ \E r \in msgs[n] : /\ r.out /\ r.conn = c
                                                  /\ r.num = q.num /\ r.body = q.body
                            \/ held[n]
  BY DEF StoredByConsent, ConsentGiven
<1>1. RowTrue(p, q)  BY DEF MsgInv, RowsAreTrue
<1>2. PICK n \in Nodes, c \in ConnIds :
        Meets(n, c, p, q.conn) /\ Written(n, c, q.num, q.body)
  BY <1>1 DEF RowTrue
<1>3. q.conn \in ConnIds  BY <1>1 DEF RowTrue
<1>4. Ends(n, c, p, q.conn) /\ Consented(p, q.conn)
  BY <1>2, <1>3, MeetingIsByConsent
<1> QED  BY <1>2, <1>3, <1>4 DEF Written, Wrote, KeptOut

\* No message is stored without consent, and none that nobody wrote.
THEOREM NoMessageWithoutConsent ==
  ASSUME OneCommand, Faults \cap {"stop", "crash", "commit"} = {}
  PROVE  Spec => []StoredByConsent
BY MessagesRestOnHandshake, RowsByConsent, PTL

LEMMA SentAreWritten == MsgInv => UnsentIsPending
<1> SUFFICES ASSUME MsgInv, NEW n \in Nodes, NEW k \in Slots, cmd[n][k].pc = "send",
                    cmd[n][k].parcel.kind = "MSG_SEND", ~held[n]
             PROVE  LET m == cmd[n][k].parcel IN
                    \E r \in msgs[n] : /\ r.out /\ r.num = m.num /\ r.body = m.body
                                       /\ r.conn \in ConnIds /\ IsRow(n, r.conn)
                                       /\ conns[n][r.conn].peer = m.dst
                                       /\ conns[n][r.conn].self_id = m.id
  BY DEF UnsentIsPending
<1>1. PICK m : m = cmd[n][k].parcel  OBVIOUS
<1>2. PostedBy(n, m)
  BY <1>1 DEF MsgInv, CommandsAreTrue, CommandTrue, SendsMessage, ConnKinds
<1>3. PICK c \in ConnIds : /\ Joined(n, c)
                           /\ conns[n][c].peer = m.dst /\ conns[n][c].self_id = m.id
                           /\ Written(n, c, m.num, m.body)
  BY <1>2 DEF PostedBy
<1>4. PICK r \in msgs[n] : r.out /\ r.conn = c /\ r.num = m.num /\ r.body = m.body
  BY <1>3 DEF Written, Wrote, KeptOut
<1> QED  BY <1>1, <1>3, <1>4 DEF Joined

\* A message that could not be sent is pending in the sender's table.
THEOREM UnsentArePending ==
  ASSUME OneCommand, Faults \cap {"stop", "crash", "commit"} = {}
  PROVE  Spec => []UnsentIsPending
BY MessagesRestOnHandshake, SentAreWritten, PTL

LEMMA MarkedAreStored == MsgInv /\ H!AgreeInv => ReceivedAtOtherEnd
<1> SUFFICES ASSUME MsgInv, H!AgreeInv, NEW n \in Nodes, NEW r \in msgs[n],
                    r.out, r.received
             PROVE  \E p \in Nodes, d \in ConnIds :
                      /\ r.conn \in ConnIds /\ Ends(n, r.conn, p, d)
                      /\ \E q \in msgs[p] : /\ q.conn = d /\ q.num = r.num
                                            /\ q.body = r.body /\ ~q.out
  BY DEF ReceivedAtOtherEnd
<1>1. RowTrue(n, r)  BY DEF MsgInv, RowsAreTrue
<1>2. r.conn \in ConnIds  BY <1>1 DEF RowTrue
<1>3. PICK p \in Nodes, d \in ConnIds :
        /\ Meets(p, d, n, r.conn)
        /\ \E q \in msgs[p] : /\ q.conn = d /\ q.num = r.num
                              /\ q.body = r.body /\ ~q.out
  BY <1>1 DEF RowTrue
<1>4. Ends(p, d, n, r.conn)  BY <1>2, <1>3, MeetingIsByConsent
<1> QED  BY <1>2, <1>3, <1>4 DEF Ends

\* A message shown as received is stored at the other end of its connection.
THEOREM ReceivedAreStored ==
  ASSUME OneCommand, Faults \cap {"stop", "crash", "commit"} = {}
  PROVE  Spec => []ReceivedAtOtherEnd
BY MessagesRestOnHandshake, MarkedAreStored, PTL

-----------------------------------------------------------------------------
(* Consent, whatever stops, dies or fails to commit.                       *)

\* An accepted row has consent: it was accepted at its end, or at the one it was asked of.
LEMMA AcceptedByConsent ==
  ASSUME H!IInv, NEW n \in Nodes, NEW c \in ConnIds, IsRow(n, c),
         conns[n][c].status = "accepted"
  PROVE  Consented(n, c)
<1>1. conns[n][c] \in Row  BY RowTyped
<1>2. CASE Offered(n, c)
  BY <1>2, Tables DEF H!IInv, H!OfferedRows, Consented
<1>3. CASE Asked(n, c)
  <2>1. PICK p \in Nodes : p = conns[n][c].peer  BY <1>1 DEF Row
  <2>2. H!AcceptedOnce(p, conns[n][c].peer_id, n)
    BY <1>3, <2>1, Tables DEF H!IInv, H!AcceptedByPeer
  <2>3. PICK d \in ConnIds : /\ Offered(p, d) /\ conns[p][d].peer = n
                             /\ conns[p][d].self_id = conns[n][c].peer_id
                             /\ conns[p][d].peer_id # Null
    BY <2>2, Tables DEF H!AcceptedOnce, H!OfferOf
  <2>4. Made(n, c, p, d)  BY <1>3, <2>1, <2>3 DEF Made
  <2> QED  BY <2>3, <2>4 DEF Consented
<1> QED  BY <1>1, <1>2, <1>3 DEF Asked, Offered, Row

\* Consent is given for good.
LEMMA MadeKept ==
  ASSUME H!IInv, RowsStay, NEW n \in Nodes, NEW c \in ConnIds, NEW p \in Nodes,
         NEW d \in ConnIds, Made(n, c, p, d)
  PROVE  Made(n, c, p, d)'
<1>1. conns[n][c].peer_id # Null
  BY Tables DEF H!IInv, H!AskedRows, Made
<1>2. conns[p][d].self_id # Null
  BY Tables DEF H!IInv, H!OfferedRows, Made
<1> QED  BY <1>1, <1>2 DEF Made, Asked, Offered, RowsStay

LEMMA ConsentedKept ==
  ASSUME H!IInv, RowsStay, NEW n \in Nodes, NEW c \in ConnIds, Consented(n, c)
  PROVE  Consented(n, c)'
<1>1. CASE Offered(n, c) /\ conns[n][c].peer_id # Null
  <2>1. Offered(n, c)' /\ conns'[n][c].peer_id # Null  BY <1>1 DEF Offered, RowsStay
  <2> QED  BY <2>1 DEF Consented
<1>2. ASSUME NEW p \in Nodes, NEW d \in ConnIds,
             Made(n, c, p, d), conns[p][d].peer_id # Null
      PROVE  Consented(n, c)'
  <2>1. Made(n, c, p, d)'  BY <1>2, MadeKept
  <2>2. conns'[p][d].peer_id # Null  BY <1>2 DEF Made, Offered, RowsStay
  <2> QED  BY <2>1, <2>2 DEF Consented
<1> QED  BY <1>1, <1>2 DEF Consented

\* Only Store adds a row to what listeners have stored, and only HandleSend brings a
\* listener there, by an accepted row.
StoredBefore ==
  \A p \in Nodes : \A q \in msgs'[p] :
    ~q.out => \/ \E r \in msgs[p] : ~r.out /\ r.conn = q.conn
              \/ lst[p].pc = "store" /\ q = StoredRow(p)

StoringKnown ==
  \A n \in Nodes :
    lst'[n].pc = "store" =>
      \/ lst'[n] = lst[n]
      \/ /\ conns' = conns
         /\ \E c \in ConnIds : /\ HasPeerId(n, c, lst'[n].parcel.id)
                               /\ conns[n][c].status = "accepted"

LEMMA NoneStored ==
  /\ msgs' = msgs => StoredBefore
  /\ lst' = lst => StoringKnown
BY DEF StoredBefore, StoringKnown

LEMMA NoneStoring ==
  ASSUME MsgTypes, NEW n \in Nodes, NEW v, lst' = [lst EXCEPT ![n] = v],
         v.pc # "store"
  PROVE  StoringKnown
BY LstWrite DEF StoringKnown

LEMMA ProcessesStore ==
  ASSUME MsgTypes, NEW n \in Nodes,
         \/ M!StartListening(n) \/ M!ListenerSend(n) \/ M!DropParcel(n)
         \/ M!StopListening(n)
         \/ \E k \in Slots : M!CommandSend(n, k) \/ M!CommandExit(n, k)
  PROVE  StoringKnown
<1>1. CASE M!StartListening(n) \/ M!ListenerSend(n)
  BY <1>1, NoneStoring, Words, Positions DEF M!StartListening, M!ListenerSend
<1>2. CASE M!StopListening(n)
  BY <1>2, NoneStoring, Words, Positions DEF M!StopListening
<1>3. CASE M!DropParcel(n) \/ \E k \in Slots : M!CommandSend(n, k) \/ M!CommandExit(n, k)
  BY <1>3, NoneStored DEF M!DropParcel, M!CommandSend, M!CommandExit
<1> QED  BY <1>1, <1>2, <1>3

LEMMA HandshakeStores ==
  ASSUME MsgTypes, H!IInv, NEW n \in Nodes,
         C!Handle(n) \/ \E k \in Slots : ConnCommand(n, k)
  PROVE  StoringKnown
<1>1. lst' = lst \/ \E v : ~OfMessages(v) /\ lst' = [lst EXCEPT ![n] = v]
  BY ConnHandlersEffect, ConnCommandEffect
<1>2. \A v : ~OfMessages(v) => v.pc # "store"  BY DEF OfMessages
<1> QED  BY <1>1, <1>2, NoneStored, NoneStoring

LEMMA MessageCommandsStore ==
  ASSUME MsgTypes, NEW n \in Nodes, NEW k \in Slots,
         \/ \E c \in ConnIds : M!SelectConn(n, k, c)
         \/ \E b \in Bodies : M!SendInsert(n, k, b)
         \/ M!SendLookup(n, k)
         \/ M!SendRefused(n, k)
  PROVE  StoredBefore /\ StoringKnown
<1>1. lst' = lst
  BY DEF M!SelectConn, M!SendInsert, M!SendLookup, M!SendRefused, M!nodeVars
<1>2. CASE \E b \in Bodies : M!SendInsert(n, k, b)
  <2>1. PICK num \in M!Nums, b \in Bodies :
          msgs' = msgs \/ msgs' = [msgs EXCEPT ![n] = @ \cup {NewRow(n, num, b)}]
    BY <1>2 DEF M!SendInsert, NewRow
  <2>2. NewRow(n, num, b).out  BY DEF NewRow
  <2>3. \A p \in Nodes : \A q \in msgs'[p] : q \in msgs[p] \/ q.out
    BY <2>1, <2>2 DEF MsgTypes
  <2> QED  BY <1>1, <2>3, NoneStored DEF StoredBefore
<1>3. CASE ~\E b \in Bodies : M!SendInsert(n, k, b)
  BY <1>1, <1>3, NoneStored
     DEF M!SelectConn, M!SendLookup, M!SendRefused, M!nodeVars, M!msgVars
<1> QED  BY <1>2, <1>3

LEMMA MessageHandlersStore ==
  ASSUME MsgTypes, NEW n \in Nodes, M!Handle(n)
  PROVE  StoredBefore /\ StoringKnown
<1>1. PICK m \in net : \/ M!HandleSend(n, m) \/ M!HandleSendRefused(n, m)
                       \/ M!HandleSendUnknown(n, m) \/ M!HandleRcv(n, m)
  BY DEF M!Handle
<1>2. CASE M!HandleSend(n, m)
  <2>0. PICK c \in ConnIds :
          /\ HasPeerId(n, c, m.id) /\ conns[n][c].status = "accepted"
          /\ lst' = [lst EXCEPT ![n] =
               M!Storing(m, conns[n][c].self_id, conns[n][c].peer)]
          /\ conns' = conns /\ msgs' = msgs
    BY <1>2, Tables DEF M!HandleSend, M!msgVars
  <2>1. PICK v : v = M!Storing(m, conns[n][c].self_id, conns[n][c].peer)
    OBVIOUS
  <2>2. v.parcel = m  BY <2>1, Positions
  <2>3. lst' = [lst EXCEPT ![n] = v]  BY <2>0, <2>1
  <2> QED  BY <2>0, <2>2, <2>3, LstWrite, NoneStored DEF StoringKnown
<1>3. CASE M!HandleSendRefused(n, m) \/ M!HandleSendUnknown(n, m)
  BY <1>3, NoneStored DEF M!HandleSendRefused, M!HandleSendUnknown, M!msgVars
<1>4. CASE M!HandleRcv(n, m)
  <2>1. /\ lst' = lst
        /\ \A q \in msgs'[n] : \E r \in msgs[n] :
             q = r \/ q = [r EXCEPT !.received = TRUE]
        /\ \A p \in Nodes : p # n => msgs'[p] = msgs[p]
    BY <1>4 DEF M!HandleRcv, MsgTypes
  <2>2. ASSUME NEW r \in msgs[n], NEW q, q = r \/ q = [r EXCEPT !.received = TRUE]
        PROVE  q.out = r.out /\ q.conn = r.conn
    <3>1. r \in M!MsgRow  BY DEF MsgTypes
    <3> QED  BY <2>2, <3>1, MarkedRow DEF Same
  <2>3. StoredBefore  BY <2>1, <2>2 DEF StoredBefore
  <2> QED  BY <2>1, <2>3, NoneStored
<1> QED  BY <1>1, <1>2, <1>3, <1>4

LEMMA StoreStores ==
  ASSUME MsgTypes, NEW n \in Nodes, M!Store(n) \/ M!StoreFails(n)
  PROVE  StoredBefore /\ StoringKnown
<1>1. StoringKnown
  BY NoneStoring, Words, Positions DEF M!Store, M!StoreFails
<1>2. /\ lst[n].pc = "store"
      /\ msgs' = msgs \/ msgs' = [msgs EXCEPT ![n] = @ \cup {StoredRow(n)}]
  BY DEF M!Store, M!StoreFails, M!msgVars, StoredRow
<1>3. CASE msgs' = [msgs EXCEPT ![n] = @ \cup {StoredRow(n)}]
  <2>1. \A p \in Nodes : \A q \in msgs'[p] :
          q \in msgs[p] \/ (p = n /\ q = StoredRow(n))
    BY <1>3 DEF MsgTypes
  <2> QED  BY <1>1, <1>2, <2>1 DEF StoredBefore
<1> QED  BY <1>1, <1>2, <1>3, NoneStored

LEMMA StepStores ==
  ASSUME MsgTypes, H!IInv, [Next]_vars
  PROVE  StoredBefore /\ StoringKnown
<1>1. CASE UNCHANGED vars  BY <1>1, NoneStored DEF vars, nodeVars
<1>2. ASSUME NEW n \in Nodes, Listener(n) PROVE StoredBefore /\ StoringKnown
  <2>1. CASE M!Handle(n) \/ M!Store(n) \/ M!StoreFails(n)
    BY <2>1, MessageHandlersStore, StoreStores
  <2>2. CASE M!Stop(n)
    BY <2>2, ProcessesStore, NoneStored DEF M!Stop
  <2>3. CASE (M!StartListening(n) \/ M!ListenerSend(n) \/ M!DropParcel(n))
             /\ UNCHANGED M!msgVars
    BY <2>3, ProcessesStore, NoneStored DEF M!msgVars
  <2>4. CASE C!Handle(n) /\ UNCHANGED <<msgs, sel, held>>
    BY <2>4, HandshakeStores, NoneStored
  <2> QED  BY <1>2, <2>1, <2>2, <2>3, <2>4 DEF Listener, M!Listener
<1>3. ASSUME NEW n \in Nodes, NEW k \in Slots, Command(n, k)
      PROVE  StoredBefore /\ StoringKnown
  <2>1. CASE (M!CommandSend(n, k) \/ M!CommandExit(n, k)) /\ UNCHANGED M!msgVars
    BY <2>1, ProcessesStore, NoneStored DEF M!msgVars
  <2>2. CASE ConnCommand(n, k) /\ UNCHANGED <<msgs, sel, held>>
    BY <2>2, HandshakeStores, NoneStored
  <2> QED  BY <1>3, <2>1, <2>2, MessageCommandsStore DEF Command, M!Command
<1> QED  BY <1>1, <1>2, <1>3 DEF Next

\* The row a listener stores a message on is the one it has looked up.
LEMMA ConsentNext ==
  ASSUME OneCommand, ConsentInv, H!AgreeInv, [Next]_vars
  PROVE  ConsentInv' /\ H!AgreeInv'
<1>0. MsgTypes /\ H!IInv  BY DEF ConsentInv, H!AgreeInv, H!SoloInv
<1>1. MsgTypes'  BY <1>0, MsgTypesNext
<1>2. H!AgreeInv' /\ RowsStay  BY <1>0, AgreeSeen
<1>3. StoredBefore /\ StoringKnown  BY <1>0, StepStores
<1>4. ASSUME NEW n \in Nodes, lst[n].pc = "store"
      PROVE  \E c \in ConnIds :
               /\ StoredRow(n).conn = c /\ Consented(n, c)'
               /\ lst'[n] = lst[n] => HasPeerId(n, c, lst[n].parcel.id)'
  <2>1. PICK c \in ConnIds : HasPeerId(n, c, lst[n].parcel.id) /\ Consented(n, c)
    BY <1>4 DEF ConsentInv
  <2>2. PICK id \in Ids : id = lst[n].parcel.id
    BY <1>0, <1>4, ListenerAt DEF M!MsgSends
  <2>3. conns'[n][c].peer_id = id /\ IsRow(n, c)'
    BY <1>2, <2>1, <2>2, NodeAssumption DEF RowsStay, HasPeerId
  <2>4. StoredRow(n).conn = c
    BY <1>0, <2>1, <2>2, ConnOfRow DEF StoredRow
  <2>5. Consented(n, c)'  BY <1>0, <1>2, <2>1, ConsentedKept
  <2>6. lst'[n] = lst[n] => HasPeerId(n, c, lst[n].parcel.id)'
    BY <2>2, <2>3 DEF HasPeerId
  <2> QED  BY <2>4, <2>5, <2>6
<1>5. ASSUME NEW n \in Nodes, lst'[n].pc = "store"
      PROVE  \E c \in ConnIds : HasPeerId(n, c, lst[n].parcel.id)' /\ Consented(n, c)'
  <2>1. CASE lst'[n] = lst[n]  BY <1>4, <1>5, <2>1
  <2>2. ASSUME NEW c \in ConnIds, conns' = conns, conns[n][c].status = "accepted",
               HasPeerId(n, c, lst'[n].parcel.id)
        PROVE  HasPeerId(n, c, lst[n].parcel.id)' /\ Consented(n, c)'
    <3>1. Consented(n, c)
      BY <1>0, <2>2, AcceptedByConsent DEF HasPeerId
    <3>2. Consented(n, c)'  BY <1>0, <1>2, <3>1, ConsentedKept
    <3>3. HasPeerId(n, c, lst[n].parcel.id)'  BY <2>2 DEF HasPeerId, IsRow
    <3> QED  BY <3>2, <3>3
  <2> QED  BY <1>3, <1>5, <2>1, <2>2 DEF StoringKnown
<1>6. ASSUME NEW p \in Nodes, NEW q \in msgs'[p], ~q.out
      PROVE  q.conn \in ConnIds /\ Consented(p, q.conn)'
  <2>1. CASE lst[p].pc = "store" /\ q = StoredRow(p)  BY <1>4, <2>1
  <2>2. ASSUME NEW r \in msgs[p], ~r.out, r.conn = q.conn
        PROVE  q.conn \in ConnIds /\ Consented(p, q.conn)'
    <3>1. r.conn \in ConnIds /\ Consented(p, r.conn)
      BY <2>2 DEF ConsentInv, ConsentGiven
    <3> QED  BY <1>0, <1>2, <2>2, <3>1, ConsentedKept
  <2> QED  BY <1>3, <1>6, <2>1, <2>2 DEF StoredBefore
<1> QED  BY <1>1, <1>2, <1>5, <1>6 DEF ConsentInv, ConsentGiven

LEMMA ConsentInit == Init => ConsentInv
<1> SUFFICES ASSUME Init PROVE ConsentInv  OBVIOUS
<1>1. MsgTypes  BY TypesInvInit DEF TypesInv
<1>2. \A n \in Nodes : lst[n].pc # "store" /\ msgs[n] = {}
  BY Positions DEF Init, NodeInit
<1> QED  BY <1>1, <1>2 DEF ConsentInv, ConsentGiven

\* What consent rests on and the handshake's invariant hold together, of nodes that run
\* one command at a time: whatever is lost, stops, dies or fails to commit, a listener's
\* row has consent when it looks it up, and keeps it.
THEOREM ConsentRestsOnHandshake ==
  ASSUME OneCommand
  PROVE  Spec => [](ConsentInv /\ H!AgreeInv)
<1>1. Init => ConsentInv /\ H!AgreeInv
  BY ConsentInit, InitSeen, H!AgreeInit, HandshakeAssumptions
<1>2. (ConsentInv /\ H!AgreeInv) /\ [Next]_vars => (ConsentInv /\ H!AgreeInv)'
  BY ConsentNext
<1> QED  BY <1>1, <1>2, PTL DEF Spec

\* No message is stored but between users who have asked and accepted, under every fault.
THEOREM ConsentUnderEveryFault ==
  ASSUME OneCommand
  PROVE  Spec => []ConsentGiven
<1>1. ConsentInv => ConsentGiven  BY DEF ConsentInv
<1> QED  BY <1>1, ConsentRestsOnHandshake, PTL
=============================================================================
