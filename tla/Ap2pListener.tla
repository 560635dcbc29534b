---------------------------- MODULE Ap2pListener ----------------------------
(***************************************************************************)
(* send_parcel and the listener's loop over TCP, call by call: connect,    *)
(* send, accept, recv.  The kernel queues the connections a listener has   *)
(* not accepted, few of them (listen(sock, 1)); a listener connects to its *)
(* peers from inside its loop; and it closes no connection that worked, so *)
(* its descriptors run out.                                                *)
(*                                                                         *)
(* A parcel has a connection of its own and stands for it here.            *)
(***************************************************************************)
EXTENDS Naturals, Sequences

CONSTANTS
  Nodes, Slots, Ids, Null, NoRow, Faults,  \* as in Ap2pNode
  Letters,   \* the parcels users send, each once
  QueueLen,  \* connections the kernel queues for a listener
  MaxFds     \* descriptors a listener may have for connections

VARIABLES
  queue,  \* queue[n]: connections to n its listener has not accepted
  link,   \* link[m]: the connection of parcel m
  seat,   \* seat[n]: the listener of n
  proc,   \* proc[n][k]: the command in slot k of n
  fds     \* fds[n]: descriptors the listener of n has open for connections

vars == <<queue, link, seat, proc, fds>>

\* A process with a parcel to send is one step away from it in Ap2pNode; a listener
\* reading one is still in its loop.
AsSender(s) == IF s.pc \in {"connect", "send"} THEN [pc |-> "send", parcel |-> s.parcel]
               ELSE IF s.pc \in {"peek", "read"} THEN [pc |-> "loop"] ELSE s

sentNet    == {m \in DOMAIN link : link[m] = "sent"}
senderLst  == [n \in Nodes |-> AsSender(seat[n])]
senderCmd  == [n \in Nodes |-> [k \in Slots |-> AsSender(proc[n][k])]]
emptyConns == [n \in Nodes |-> [c \in {} |-> NoRow]]

P == INSTANCE ParcelNet WITH ConnIds <- {}, conns <- emptyConns, net <- sentNet,
                             lst <- senderLst, cmd <- senderCmd

Ack(m) == P!Parcel("CONN_ACK", m.dst, m.src, m.id, Null)

Wire == Letters \cup {Ack(m) : m \in {l \in Letters : l.kind = "CONN_REQ"}}

\* Users send no CONN_ACK, and a CONN_REQ carries one id: each has an answer of its own.
ASSUME ListenerAssumption ==
  /\ Letters \subseteq P!ConnParcel
  /\ \A m \in Letters : /\ m.kind # "CONN_ACK"
                        /\ m.kind = "CONN_REQ" => m.new_id = Null

At(pc, m) == [pc |-> pc, parcel |-> m]

Up(n)        == seat[n] # P!Off
Full(n)      == Len(queue[n]) = QueueLen
\* No descriptor is left for the log file, which ap2p_log opens for each line.
Exhausted(n) == fds[n] = MaxFds

\* link[m] is "none" before a process takes up m, "begun" until it connects, "open" with
\* nothing sent, "sent", "closed" by the sender with nothing sent, or "over".
Init ==
  /\ queue = [n \in Nodes |-> <<>>]
  /\ link = [m \in Wire |-> "none"]
  /\ seat \in [Nodes -> {P!Off, P!Loop}]
  /\ proc = [n \in Nodes |-> [k \in Slots |-> P!Idle]]
  /\ fds = [n \in Nodes |-> 0]

-----------------------------------------------------------------------------
(* send_parcel, in whichever process. *)

\* The kernel of the peer completes the connection by itself, if it has room.
Connects(m) ==
  /\ Up(m.dst) /\ ~Full(m.dst)
  /\ queue' = [queue EXCEPT ![m.dst] = Append(@, m)]
  /\ link' = [link EXCEPT ![m] = "open"]

\* Variant: connect has no timeout.
ConnectRefused(m) ==
  /\ ~Up(m.dst)
  /\ link' = [link EXCEPT ![m] = "over"]
  /\ UNCHANGED queue

\* Refused, unreachable, or timed out on a queue with no room.
ConnectFails(m) ==
  /\ ~Up(m.dst) \/ Full(m.dst) \/ "loss" \in Faults
  /\ link' = [link EXCEPT ![m] = "over"]
  /\ UNCHANGED queue

Sends(m) ==
  /\ link[m] = "open"
  /\ link' = [link EXCEPT ![m] = "sent"]

\* Of a connection the peer has reset, or that breaks now.
SendFails(m) ==
  /\ link[m] # "open" \/ "loss" \in Faults
  /\ link' = [link EXCEPT ![m] = IF @ = "open" THEN "closed" ELSE @]

-----------------------------------------------------------------------------
(* Commands. *)

Begin(n, k, m) ==
  /\ proc[n][k] = P!Idle
  /\ m.src = n /\ link[m] = "none"
  /\ link' = [link EXCEPT ![m] = "begun"]
  /\ proc' = [proc EXCEPT ![n][k] = At("connect", m)]
  /\ UNCHANGED <<queue, seat, fds>>

CommandConnect(n, k) ==
  /\ proc[n][k].pc = "connect"
  /\ LET m == proc[n][k].parcel IN
       \/ Connects(m) /\ proc' = [proc EXCEPT ![n][k] = At("send", m)]
       \/ ConnectFails(m) /\ proc' = [proc EXCEPT ![n][k] = P!Idle]
  /\ UNCHANGED <<seat, fds>>

\* The end of the process closes the connection after what was sent on it.
CommandSend(n, k) ==
  /\ proc[n][k].pc = "send"
  /\ Sends(proc[n][k].parcel) \/ SendFails(proc[n][k].parcel)
  /\ proc' = [proc EXCEPT ![n][k] = P!Idle]
  /\ UNCHANGED <<queue, seat, fds>>

\* A connection that is open when its sender dies is closed.
Without(s) == IF s.pc = "send" /\ link[s.parcel] = "open"
              THEN [link EXCEPT ![s.parcel] = "closed"] ELSE link

Kill(n, k) ==
  /\ proc[n][k] # P!Idle
  /\ "crash" \in Faults
  /\ link' = Without(proc[n][k])
  /\ proc' = [proc EXCEPT ![n][k] = P!Idle]
  /\ UNCHANGED <<queue, seat, fds>>

-----------------------------------------------------------------------------
(* The listener. *)

Start(n) ==
  /\ ~Up(n)
  /\ seat' = [seat EXCEPT ![n] = P!Loop]
  /\ UNCHANGED <<queue, link, proc, fds>>

\* Its kernel resets what it had not read, and closes what it had opened.
Down(n) ==
  /\ link' = [m \in Wire |->
       IF m.dst = n /\ link[m] # "none" THEN "over" ELSE Without(seat[n])[m]]
  /\ queue' = [queue EXCEPT ![n] = <<>>]
  /\ seat' = [seat EXCEPT ![n] = P!Off]
  /\ fds' = [fds EXCEPT ![n] = 0]
  /\ UNCHANGED proc

\* Enter at the head of the loop, or killed anywhere.
Stop(n) ==
  /\ \/ seat[n] = P!Loop /\ "stop" \in Faults
     \/ Up(n) /\ "crash" \in Faults
  /\ Down(n)

\* fopen of the log fails and ap2p_log writes to NULL.  Between a connect and a send that
\* succeed nothing is logged.
LogFails(n) ==
  /\ Up(n) /\ Exhausted(n)
  /\ seat[n].pc = "send" => link[seat[n].parcel] # "open"
  /\ Down(n)

Goes(n, s, f) == seat' = [seat EXCEPT ![n] = s] /\ fds' = [fds EXCEPT ![n] = f]

Accept(n) ==
  /\ seat[n] = P!Loop /\ ~Exhausted(n)
  /\ queue[n] # <<>>
  /\ Goes(n, At("peek", Head(queue[n])), fds[n] + 1)
  /\ queue' = [queue EXCEPT ![n] = Tail(@)]
  /\ UNCHANGED <<link, proc>>

\* recv of the kind waits for a byte, or for the end of the connection.
Peek(n) ==
  /\ seat[n].pc = "peek" /\ ~Exhausted(n)
  /\ LET m == seat[n].parcel IN
       \/ link[m] = "sent" /\ Goes(n, At("read", m), fds[n])
       \/ link[m] = "closed" /\ Goes(n, P!Loop, fds[n])
  /\ UNCHANGED <<queue, link, proc>>

\* The parcel is whole, and is handled; or it is not, and is dropped (recv does not wait
\* for all of it).  The connection is left open.
Read(n) ==
  /\ seat[n].pc = "read"
  /\ LET m == seat[n].parcel IN
       /\ \/ m.kind = "CONN_REQ" /\ Goes(n, At("connect", Ack(m)), fds[n] + 1)
          \/ /\ m.kind # "CONN_REQ" \/ "loss" \in Faults
             /\ Goes(n, P!Loop, fds[n])
       /\ link' = [link EXCEPT ![m] = "over"]
  /\ UNCHANGED <<queue, proc>>

ReplyConnect(n) ==
  /\ seat[n].pc = "connect"
  /\ LET m == seat[n].parcel IN
       \/ Connects(m) /\ Goes(n, At("send", m), fds[n])
       \/ ConnectFails(m) /\ ~Exhausted(n) /\ Goes(n, P!Loop, fds[n] - 1)
  /\ UNCHANGED proc

\* Variant: a reply that fails is tried again.
ReplySendRetried(n) ==
  /\ seat[n].pc = "send"
  /\ LET m == seat[n].parcel IN
       \/ Sends(m) /\ UNCHANGED <<seat, fds>>
       \/ SendFails(m) /\ ~Exhausted(n) /\ Goes(n, P!Loop, fds[n] - 1)
  /\ UNCHANGED <<queue, proc>>

\* The socket is closed only if the send fails.
ReplySend(n) ==
  /\ seat[n].pc = "send"
  /\ LET m == seat[n].parcel IN
       \/ Sends(m) /\ Goes(n, P!Loop, fds[n])
       \/ SendFails(m) /\ ~Exhausted(n) /\ Goes(n, P!Loop, fds[n] - 1)
  /\ UNCHANGED <<queue, proc>>

Pass(n) ==
  Accept(n) \/ Peek(n) \/ Read(n) \/ ReplyConnect(n) \/ ReplySend(n) \/ LogFails(n)

Next ==
  \E n \in Nodes :
    \/ Start(n) \/ Stop(n) \/ Pass(n)
    \/ \E k \in Slots : \/ \E m \in Letters : Begin(n, k, m)
                        \/ CommandConnect(n, k) \/ CommandSend(n, k) \/ Kill(n, k)

Spec == Init /\ [][Next]_vars

\* A process that runs keeps running, and a connect ends, by its timeout at the latest.
FairSpec ==
  /\ Spec
  /\ \A n \in Nodes : /\ WF_vars(Pass(n))
                      /\ \A k \in Slots : WF_vars(CommandConnect(n, k) \/ CommandSend(n, k))

-----------------------------------------------------------------------------
(* Properties. *)

\* Two listeners may connect to each other from inside their loops while neither queue
\* has room (91): a listener that leaves its loop for a parcel comes back to it, or ends,
\* whatever its peers and its users do.
ListenerComesBack ==
  \A n \in Nodes : seat[n].pc \notin {"off", "loop"} ~> seat[n].pc \in {"off", "loop"}

\* The calls implement the steps the other modules take them to be: one connection per
\* parcel, so a parcel is read at most once, and only if all calls of its sender worked.
ImplementsNet == P!Spec

=============================================================================
