-------------------------- MODULE Ap2pListenerInv --------------------------
(***************************************************************************)
(* The inductive invariant of Ap2pListener: every connection has at most   *)
(* one process that writes on it and one that reads from it.               *)
(***************************************************************************)
EXTENDS Ap2pListener

Requests == {l \in Letters : l.kind = "CONN_REQ"}

\* The process in position s is in send_parcel with m.
Writes(s, m) == s.pc \in {"connect", "send"} /\ s.parcel = m

LinkState == {"none", "begun", "open", "sent", "closed", "over"}

ListenerPositions ==
  {P!Off, P!Loop}
    \cup {At(pc, m) : pc \in {"connect", "send", "peek", "read"}, m \in Wire}

CommandPositions == {P!Idle} \cup {At(pc, m) : pc \in {"connect", "send"}, m \in Letters}

QueueTypes == /\ queue \in [Nodes -> Seq(Wire)]
              /\ \A n \in Nodes : queue[n] \in Seq({m \in Wire : m.dst = n})

LinkTypes ==
  /\ link \in [Wire -> LinkState]
  /\ QueueTypes
  /\ seat \in [Nodes -> ListenerPositions]
  /\ proc \in [Nodes -> [Slots -> CommandPositions]]

\* A command's parcel is on the way to be sent; one that its listener's end has cut off
\* may still be.
CommandsWrite ==
  \A n \in Nodes, k \in Slots :
    LET s == proc[n][k] IN
    /\ s.pc = "connect" => link[s.parcel] \in {"begun", "over"}
    /\ s.pc = "send" => link[s.parcel] \in {"open", "over"}
    /\ s.pc \in {"connect", "send"} =>
         /\ s.parcel.src = n
         /\ \A l \in Slots : Writes(proc[n][l], s.parcel) => l = k

\* So is a listener's, and it is the answer to a request it has read.
ListenersWrite ==
  \A n \in Nodes :
    LET s == seat[n] IN
    /\ s.pc = "connect" => link[s.parcel] \in {"none", "over"}
    /\ s.pc = "send" => link[s.parcel] \in {"open", "over"}
    /\ s.pc \in {"connect", "send"} => \E l \in Requests : l.dst = n /\ s.parcel = Ack(l)

\* What is read has been sent, here.
ListenersRead ==
  \A n \in Nodes :
    /\ seat[n].pc \in {"peek", "read"} => seat[n].parcel.dst = n
    /\ seat[n].pc = "read" => link[seat[n].parcel] = "sent"

\* Only a listener that is there has connections.
OpenToListeners == \A m \in Wire : link[m] = "open" => Up(m.dst)

\* A request that is being or has been answered has been read, and is written no more.
AnsweredOnce ==
  \A l \in Requests :
    link[Ack(l)] # "none" \/ (l.dst \in Nodes /\ Writes(seat[l.dst], Ack(l))) =>
      /\ link[l] = "over"
      /\ \A n \in Nodes, k \in Slots : ~Writes(proc[n][k], l)

LinkInv ==
  /\ LinkTypes
  /\ CommandsWrite
  /\ ListenersWrite
  /\ ListenersRead
  /\ OpenToListeners
  /\ AnsweredOnce

=============================================================================
