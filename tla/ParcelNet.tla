------------------------------ MODULE ParcelNet ------------------------------
(***************************************************************************)
(* What Ap2pConn and Ap2pMsg take the network to be, alone: send_parcel is *)
(* one step that hands a parcel to a listener or fails, and a listener     *)
(* reads one parcel at a time, each once and in no order.                  *)
(***************************************************************************)
EXTENDS Ap2pNode

Begin(n, k) ==
  /\ cmd[n][k] = Idle
  /\ \E m \in ConnParcel : m.src = n /\ cmd' = [cmd EXCEPT ![n][k] = Sending(m)]
  /\ UNCHANGED <<conns, net, lst>>

\* Only requests are answered.
Serve(n, m) ==
  /\ Receive(n, m.kind, m)
  /\ lst' = IF m.kind # "CONN_REQ" THEN lst
            ELSE [lst EXCEPT ![n] = Sending(Parcel("CONN_ACK", n, m.src, m.id, Null))]
  /\ UNCHANGED <<conns, cmd>>

Next ==
  \E n \in Nodes :
    \/ StartListening(n) \/ StopListening(n) \/ ListenerSend(n) \/ DropParcel(n)
    \/ \E m \in net : Serve(n, m)
    \/ \E k \in Slots : Begin(n, k) \/ CommandSend(n, k) \/ CommandExit(n, k)

Spec == NodeInit /\ [][Next]_nodeVars

=============================================================================
