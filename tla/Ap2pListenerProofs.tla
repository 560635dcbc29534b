------------------------- MODULE Ap2pListenerProofs -------------------------
(***************************************************************************)
(* The calls of send_parcel and of the listener's loop implement the one   *)
(* step the other modules take them to be, for any parcels, any length of  *)
(* a kernel's queue and any number of descriptors.                         *)
(*                                                                         *)
(* The invariant, LinkInv, gives every connection one writer and one       *)
(* reader.  A command's step, or a listener's, changes the link of its own *)
(* parcel only (CommandMoves, ListenerMoves); a listener that reads a      *)
(* request is the first to answer it, for it was not "over" until then.    *)
(***************************************************************************)
EXTENDS Ap2pListenerInv, TLAPS

-----------------------------------------------------------------------------
(* Parcels. *)

LEMMA LetterFacts ==
  ASSUME NEW m \in Letters
  PROVE  /\ m \in Wire /\ m \in P!ConnParcel
         /\ m.src \in Nodes /\ m.dst \in Nodes /\ m.id \in Ids
         /\ m.kind # "CONN_ACK"
<1>1. m \in P!ConnParcel /\ m.kind # "CONN_ACK"  BY ListenerAssumption
<1>2. m \in Wire  BY DEF Wire
<1> QED  BY <1>1, <1>2 DEF P!ConnParcel

LEMMA AckFacts ==
  ASSUME NEW l \in Requests
  PROVE  /\ l \in Letters
         /\ Ack(l) \in Wire /\ Ack(l) \in P!ConnParcel /\ Ack(l) \notin Letters
         /\ Ack(l).src = l.dst /\ Ack(l).dst = l.src /\ Ack(l).id = l.id
         /\ Ack(l).kind = "CONN_ACK"
<1>1. l \in Letters /\ Ack(l) \in Wire  BY DEF Requests, Wire
<1>2. PICK m : m = Ack(l)  OBVIOUS
<1>3. m = [kind |-> "CONN_ACK", src |-> l.dst, dst |-> l.src, id |-> l.id,
           new_id |-> Null]
  BY <1>2 DEF Ack, P!Parcel
<1>4. l.src \in Nodes /\ l.dst \in Nodes /\ l.id \in Ids  BY <1>1, LetterFacts
<1>5. m \in P!ConnParcel /\ m.kind = "CONN_ACK" /\ m.src = l.dst /\ m.dst = l.src
      /\ m.id = l.id
  BY <1>3, <1>4 DEF P!ConnParcel, P!ConnKinds
<1>6. m \notin Letters  BY <1>5, LetterFacts
<1> QED  BY <1>1, <1>2, <1>5, <1>6

\* A request has an answer of its own.
LEMMA AcksDiffer ==
  ASSUME NEW l \in Requests, NEW m \in Requests, Ack(l) = Ack(m)
  PROVE  l = m
<1>1. l.dst = m.dst /\ l.src = m.src /\ l.id = m.id  BY AckFacts
<1>2. /\ l \in P!ConnParcel /\ m \in P!ConnParcel
      /\ l.kind = "CONN_REQ" /\ m.kind = "CONN_REQ" /\ l.new_id = Null /\ m.new_id = Null
  BY ListenerAssumption DEF Requests
<1> QED  BY <1>1, <1>2 DEF P!ConnParcel

LEMMA WireFacts ==
  ASSUME NEW m \in Wire
  PROVE  /\ m \in P!ConnParcel /\ m.src \in Nodes /\ m.dst \in Nodes
         /\ m \in Letters \/ \E l \in Requests : m = Ack(l)
<1>1. CASE m \in Letters  BY <1>1, LetterFacts
<1>2. ASSUME NEW l \in Requests, m = Ack(l)
      PROVE  /\ m \in P!ConnParcel /\ m.src \in Nodes /\ m.dst \in Nodes
             /\ \E r \in Requests : m = Ack(r)
  BY <1>2, AckFacts, LetterFacts
<1> QED  BY <1>1, <1>2 DEF Wire, Requests

-----------------------------------------------------------------------------
(* Positions. *)

LEMMA Places ==
  /\ P!Off.pc = "off" /\ P!Loop.pc = "loop" /\ P!Idle.pc = "idle"
  /\ \A pc, m : At(pc, m).pc = pc /\ At(pc, m).parcel = m
BY DEF P!Off, P!Loop, P!Idle, At

LEMMA Positions ==
  /\ P!Idle \in CommandPositions
  /\ \A pc \in {"connect", "send"}, m \in Letters : At(pc, m) \in CommandPositions
  /\ {P!Off, P!Loop} \subseteq ListenerPositions
  /\ \A pc \in {"connect", "send", "peek", "read"}, m \in Wire :
       At(pc, m) \in ListenerPositions
BY DEF CommandPositions, ListenerPositions

LEMMA CommandAt ==
  ASSUME LinkTypes, NEW n \in Nodes, NEW k \in Slots
  PROVE  \/ proc[n][k] = P!Idle
         \/ \E pc \in {"connect", "send"}, m \in Letters : proc[n][k] = At(pc, m)
BY DEF LinkTypes, CommandPositions

LEMMA ListenerAt ==
  ASSUME LinkTypes, NEW n \in Nodes
  PROVE  \/ seat[n] \in {P!Off, P!Loop}
         \/ \E pc \in {"connect", "send", "peek", "read"}, m \in Wire : seat[n] = At(pc, m)
BY DEF LinkTypes, ListenerPositions

\* Who writes what: letters are the commands' of the node they are from, answers its
\* listener's.
LEMMA Writers ==
  ASSUME LinkInv
  PROVE  /\ \A n \in Nodes, k \in Slots : \A m : Writes(proc[n][k], m) =>
              m \in Letters /\ m.src = n /\ link[m] \notin {"none", "sent"}
         /\ \A n \in Nodes : \A m : Writes(seat[n], m) =>
              /\ m \in Wire /\ m \notin Letters /\ m.src = n /\ link[m] # "sent"
              /\ \E l \in Requests : l.dst = n /\ m = Ack(l)
<1>1. ASSUME NEW n \in Nodes, NEW k \in Slots, NEW m, Writes(proc[n][k], m)
      PROVE  m \in Letters /\ m.src = n /\ link[m] \notin {"none", "sent"}
  <2>1. m \in Letters  BY <1>1, CommandAt, Places DEF LinkInv, Writes
  <2> QED  BY <1>1, <2>1 DEF LinkInv, CommandsWrite, Writes
<1>2. ASSUME NEW n \in Nodes, NEW m, Writes(seat[n], m)
      PROVE  /\ m \in Wire /\ m \notin Letters /\ m.src = n /\ link[m] # "sent"
             /\ \E l \in Requests : l.dst = n /\ m = Ack(l)
  <2>1. PICK l \in Requests : l.dst = n /\ m = Ack(l)
    BY <1>2 DEF LinkInv, ListenersWrite, Writes
  <2> QED  BY <1>2, <2>1, AckFacts DEF LinkInv, ListenersWrite, Writes
<1> QED  BY <1>1, <1>2

-----------------------------------------------------------------------------
(* What the steps do to the invariant. *)

LEMMA LinkInvInit == Init => LinkInv
<1> SUFFICES ASSUME Init PROVE LinkInv
  OBVIOUS
<1>1. LinkTypes
  BY Positions DEF Init, LinkTypes, LinkState, QueueTypes
<1>2. \A n \in Nodes : seat[n] \in {P!Off, P!Loop} /\ \A k \in Slots : proc[n][k] = P!Idle
  BY DEF Init
<1>3. \A m \in Wire : link[m] = "none"
  BY DEF Init
<1>4. CommandsWrite
  BY <1>2, Places DEF CommandsWrite
<1>5. ListenersWrite /\ ListenersRead
  BY <1>2, Places DEF ListenersWrite, ListenersRead
<1>6. OpenToListeners
  BY <1>3 DEF OpenToListeners
<1>7. AnsweredOnce
  <2> SUFFICES ASSUME NEW l \in Requests,
                      \/ link[Ack(l)] # "none"
                      \/ l.dst \in Nodes /\ Writes(seat[l.dst], Ack(l))
               PROVE  FALSE
    BY DEF AnsweredOnce
  <2> QED  BY <1>2, <1>3, AckFacts, Places DEF Writes
<1> QED  BY <1>1, <1>4, <1>5, <1>6, <1>7 DEF LinkInv

\* The process of a parcel goes on with it: to its send, or to the end.
LEMMA CommandMoves ==
  ASSUME LinkInv, NEW n \in Nodes, NEW k \in Slots, NEW m, Writes(proc[n][k], m),
         NEW v \in LinkState, NEW s \in {P!Idle, At("send", m)},
         s # P!Idle => v \in {"open", "over"},
         v = "open" => Up(m.dst),
         link' = [link EXCEPT ![m] = v],
         proc' = [proc EXCEPT ![n][k] = s],
         seat' = seat,
         QueueTypes'
  PROVE  LinkInv'
<1>1. m \in Letters /\ m \in Wire /\ m.src = n /\ link[m] \notin {"none", "sent"}
  BY Writers, LetterFacts
<1>2. link'[m] = v /\ \A p \in Wire : p # m => link'[p] = link[p]
  BY <1>1 DEF LinkInv, LinkTypes
<1>3. /\ proc'[n][k] = s
      /\ \A p \in Nodes, l \in Slots : p # n \/ l # k => proc'[p][l] = proc[p][l]
  BY DEF LinkInv, LinkTypes
<1>4. \A p \in Nodes, l \in Slots : \A q : Writes(proc'[p][l], q) => Writes(proc[p][l], q)
  BY <1>3, Places DEF Writes
<1>5. \A p \in Nodes, l \in Slots : Writes(proc[p][l], m) => p = n /\ l = k
  <2> SUFFICES ASSUME NEW p \in Nodes, NEW l \in Slots, Writes(proc[p][l], m)
               PROVE  p = n /\ l = k
    OBVIOUS
  <2>1. p = n  BY <1>1, Writers
  <2> QED  BY <2>1 DEF LinkInv, CommandsWrite, Writes
<1>6. LinkTypes'
  <2>1. link' \in [Wire -> LinkState]
    BY DEF LinkInv, LinkTypes
  <2>2. s \in CommandPositions
    BY <1>1, Positions
  <2>3. proc' \in [Nodes -> [Slots -> CommandPositions]]
    BY <2>2 DEF LinkInv, LinkTypes
  <2> QED  BY <2>1, <2>3 DEF LinkInv, LinkTypes
<1>7. CommandsWrite'
  <2> SUFFICES ASSUME NEW p \in Nodes, NEW l \in Slots,
                      NEW r, r = proc'[p][l], r.pc \in {"connect", "send"}
               PROVE  /\ r.pc = "connect" => link'[r.parcel] \in {"begun", "over"}
                      /\ r.pc = "send" => link'[r.parcel] \in {"open", "over"}
                      /\ r.parcel.src = p
                      /\ \A j \in Slots : Writes(proc'[p][j], r.parcel) => j = l
    BY DEF CommandsWrite
  <2>1. CASE p = n /\ l = k
    <3>1. r = s /\ s # P!Idle  BY <2>1, <1>3, Places
    <3>2. r.pc = "send" /\ r.parcel = m  BY <3>1, Places
    <3>3. v \in {"open", "over"}  BY <3>1
    <3> QED  BY <3>2, <3>3, <2>1, <1>1, <1>2, <1>4, <1>5
  <2>2. CASE p # n \/ l # k
    <3>1. r = proc[p][l]  BY <2>2, <1>3
    <3>2. Writes(r, r.parcel) /\ r.parcel # m
      BY <3>1, <2>2, <1>5 DEF Writes
    <3>3. r.parcel \in Wire  BY <3>1, <3>2, Writers, LetterFacts
    <3>4. link'[r.parcel] = link[r.parcel]  BY <3>2, <3>3, <1>2
    <3> QED  BY <3>1, <3>4, <1>4 DEF LinkInv, CommandsWrite
  <2> QED  BY <2>1, <2>2
<1>8. ListenersWrite' /\ ListenersRead'
  <2> SUFFICES ASSUME NEW p \in Nodes, NEW r, r = seat[p],
                      r.pc \in {"connect", "send", "peek", "read"}
               PROVE  /\ r.pc = "connect" => link'[r.parcel] \in {"none", "over"}
                      /\ r.pc = "send" => link'[r.parcel] \in {"open", "over"}
                      /\ r.pc \in {"connect", "send"} =>
                           \E l \in Requests : l.dst = p /\ r.parcel = Ack(l)
                      /\ r.pc \in {"peek", "read"} => r.parcel.dst = p
                      /\ r.pc = "read" => link'[r.parcel] = "sent"
    BY DEF ListenersWrite, ListenersRead
  <2>1. r.parcel \in Wire  BY ListenerAt, Places DEF LinkInv
  <2>2. r.pc # "peek" => r.parcel # m
    <3>1. CASE r.pc = "read"  BY <3>1, <1>1 DEF LinkInv, ListenersRead
    <3>2. CASE r.pc \in {"connect", "send"}  BY <3>2, <1>1, Writers DEF Writes
    <3> QED  BY <3>1, <3>2
  <2>3. r.pc # "peek" => link'[r.parcel] = link[r.parcel]  BY <2>1, <2>2, <1>2
  <2> QED  BY <2>3 DEF LinkInv, ListenersWrite, ListenersRead
<1>9. OpenToListeners'
  BY <1>2 DEF LinkInv, OpenToListeners, Up
<1>10. AnsweredOnce'
  <2> SUFFICES ASSUME NEW l \in Requests,
                      \/ link'[Ack(l)] # "none"
                      \/ l.dst \in Nodes /\ Writes(seat[l.dst], Ack(l))
               PROVE  /\ link'[l] = "over"
                      /\ \A p \in Nodes, j \in Slots : ~Writes(proc'[p][j], l)
    BY DEF AnsweredOnce
  <2>1. link'[Ack(l)] = link[Ack(l)]  BY <1>1, <1>2, AckFacts
  <2>2. link[l] = "over" /\ \A p \in Nodes, j \in Slots : ~Writes(proc[p][j], l)
    BY <2>1 DEF LinkInv, AnsweredOnce
  <2>3. l # m /\ l \in Wire  BY <2>2, LetterFacts, AckFacts
  <2> QED  BY <2>2, <2>3, <1>2, <1>4
<1> QED  BY <1>6, <1>7, <1>8, <1>9, <1>10 DEF LinkInv

\* So does a listener with its answer.
LEMMA ListenerMoves ==
  ASSUME LinkInv, NEW n \in Nodes, NEW m, Writes(seat[n], m),
         NEW v \in LinkState, NEW s \in {P!Loop, At("send", m)},
         s # P!Loop => v \in {"open", "over"},
         v = "open" => Up(m.dst),
         link' = [link EXCEPT ![m] = v],
         seat' = [seat EXCEPT ![n] = s],
         proc' = proc,
         QueueTypes'
  PROVE  LinkInv'
<1>1. m \in Wire /\ m \notin Letters /\ m.src = n /\ link[m] # "sent"
  BY Writers
<1>2. link'[m] = v /\ \A p \in Wire : p # m => link'[p] = link[p]
  BY <1>1 DEF LinkInv, LinkTypes
<1>3. seat'[n] = s /\ \A p \in Nodes : p # n => seat'[p] = seat[p]
  BY DEF LinkInv, LinkTypes
<1>4. PICK a \in Requests : a.dst = n /\ m = Ack(a)
  BY Writers
<1>5. LinkTypes'
  <2>1. link' \in [Wire -> LinkState]
    BY DEF LinkInv, LinkTypes
  <2>2. s \in ListenerPositions
    BY <1>1, Positions
  <2>3. seat' \in [Nodes -> ListenerPositions]
    BY <2>2 DEF LinkInv, LinkTypes
  <2> QED  BY <2>1, <2>3 DEF LinkInv, LinkTypes
<1>6. CommandsWrite'
  <2> SUFFICES ASSUME NEW p \in Nodes, NEW l \in Slots,
                      NEW r, r = proc[p][l], r.pc \in {"connect", "send"}
               PROVE  link'[r.parcel] = link[r.parcel]
    BY DEF LinkInv, CommandsWrite
  <2>1. r.parcel \in Letters  BY Writers DEF Writes
  <2> QED  BY <2>1, <1>1, <1>2, LetterFacts
<1>7. ListenersWrite' /\ ListenersRead'
  <2> SUFFICES ASSUME NEW p \in Nodes, NEW r, r = seat'[p],
                      r.pc \in {"connect", "send", "peek", "read"}
               PROVE  /\ r.pc = "connect" => link'[r.parcel] \in {"none", "over"}
                      /\ r.pc = "send" => link'[r.parcel] \in {"open", "over"}
                      /\ r.pc \in {"connect", "send"} =>
                           \E l \in Requests : l.dst = p /\ r.parcel = Ack(l)
                      /\ r.pc \in {"peek", "read"} => r.parcel.dst = p
                      /\ r.pc = "read" => link'[r.parcel] = "sent"
    BY DEF ListenersWrite, ListenersRead
  <2>1. CASE p = n
    <3>1. r = s /\ s # P!Loop  BY <2>1, <1>3, Places
    <3>2. r.pc = "send" /\ r.parcel = m  BY <3>1, Places
    <3>3. v \in {"open", "over"}  BY <3>1
    <3> QED  BY <3>2, <3>3, <2>1, <1>2, <1>4
  <2>2. CASE p # n
    <3>1. r = seat[p]  BY <2>2, <1>3
    <3>2. r.parcel \in Wire  BY <3>1, ListenerAt, Places DEF LinkInv
    <3>3. r.pc # "peek" => r.parcel # m
      <4>1. CASE r.pc = "read"  BY <4>1, <3>1, <1>1 DEF LinkInv, ListenersRead
      <4>2. CASE r.pc \in {"connect", "send"}
        BY <4>2, <3>1, <2>2, <1>1, Writers DEF Writes
      <4> QED  BY <4>1, <4>2
    <3>4. r.pc # "peek" => link'[r.parcel] = link[r.parcel]  BY <3>2, <3>3, <1>2
    <3> QED  BY <3>1, <3>4 DEF LinkInv, ListenersWrite, ListenersRead
  <2> QED  BY <2>1, <2>2
<1>8. OpenToListeners'
  <2>1. \A p \in Nodes : Up(p) => seat'[p] # P!Off
    BY <1>3, Places DEF Up
  <2> QED  BY <2>1, <1>2, WireFacts DEF LinkInv, OpenToListeners, Up
<1>9. AnsweredOnce'
  <2> SUFFICES ASSUME NEW l \in Requests,
                      \/ link'[Ack(l)] # "none"
                      \/ l.dst \in Nodes /\ Writes(seat'[l.dst], Ack(l))
               PROVE  /\ link'[l] = "over"
                      /\ \A p \in Nodes, j \in Slots : ~Writes(proc[p][j], l)
    BY DEF AnsweredOnce
  <2>1. link[Ack(l)] # "none" \/ (l.dst \in Nodes /\ Writes(seat[l.dst], Ack(l)))
    <3>1. CASE Ack(l) = m  BY <3>1, <1>4, AcksDiffer
    <3>2. CASE Ack(l) # m
      <4>1. link'[Ack(l)] = link[Ack(l)]  BY <3>2, <1>2, AckFacts
      <4>2. ~Writes(s, Ack(l))  BY <3>2, Places DEF Writes
      <4> QED  BY <4>1, <4>2, <1>3
    <3> QED  BY <3>1, <3>2
  <2>2. link[l] = "over" /\ \A p \in Nodes, j \in Slots : ~Writes(proc[p][j], l)
    BY <2>1 DEF LinkInv, AnsweredOnce
  <2>3. l # m /\ l \in Wire  BY <1>1, LetterFacts, AckFacts
  <2> QED  BY <2>2, <2>3, <1>2
<1> QED  BY <1>5, <1>6, <1>7, <1>8, <1>9 DEF LinkInv

LEMMA BeginStep ==
  ASSUME LinkInv, NEW n \in Nodes, NEW k \in Slots, NEW m \in Letters, Begin(n, k, m)
  PROVE  LinkInv'
<1>1. m \in Wire /\ m.src = n /\ link[m] = "none"
  BY LetterFacts DEF Begin
<1>2. link'[m] = "begun" /\ \A p \in Wire : p # m => link'[p] = link[p]
  BY <1>1 DEF LinkInv, LinkTypes, Begin
<1>3. /\ proc'[n][k] = At("connect", m)
      /\ \A p \in Nodes, l \in Slots : p # n \/ l # k => proc'[p][l] = proc[p][l]
  BY DEF LinkInv, LinkTypes, Begin
<1>4. \A p \in Nodes, l \in Slots : ~Writes(proc[p][l], m)
  BY <1>1, Writers
<1>5. \A p \in Nodes, l \in Slots : \A q : Writes(proc'[p][l], q) =>
        \/ Writes(proc[p][l], q)
        \/ p = n /\ l = k /\ q = m
  BY <1>3, Places DEF Writes
<1>6. LinkTypes'
  <2>1. link' \in [Wire -> LinkState]
    BY DEF LinkInv, LinkTypes, LinkState, Begin
  <2>2. At("connect", m) \in CommandPositions
    BY Positions
  <2>3. proc' \in [Nodes -> [Slots -> CommandPositions]]
    BY <2>2 DEF LinkInv, LinkTypes, Begin
  <2> QED  BY <2>1, <2>3 DEF LinkInv, LinkTypes, QueueTypes, Begin
<1>7. CommandsWrite'
  <2> SUFFICES ASSUME NEW p \in Nodes, NEW l \in Slots,
                      NEW r, r = proc'[p][l], r.pc \in {"connect", "send"}
               PROVE  /\ r.pc = "connect" => link'[r.parcel] \in {"begun", "over"}
                      /\ r.pc = "send" => link'[r.parcel] \in {"open", "over"}
                      /\ r.parcel.src = p
                      /\ \A j \in Slots : Writes(proc'[p][j], r.parcel) => j = l
    BY DEF CommandsWrite
  <2>1. CASE p = n /\ l = k
    <3>1. r.pc = "connect" /\ r.parcel = m  BY <2>1, <1>3, Places
    <3> QED  BY <3>1, <2>1, <1>1, <1>2, <1>4, <1>5
  <2>2. CASE p # n \/ l # k
    <3>1. r = proc[p][l]  BY <2>2, <1>3
    <3>2. Writes(r, r.parcel) /\ r.parcel # m
      BY <3>1, <1>4 DEF Writes
    <3>3. r.parcel \in Wire  BY <3>1, <3>2, Writers, LetterFacts
    <3>4. link'[r.parcel] = link[r.parcel]  BY <3>2, <3>3, <1>2
    <3>5. \A j \in Slots : Writes(proc'[p][j], r.parcel) => Writes(proc[p][j], r.parcel)
      BY <3>2, <1>5
    <3> QED  BY <3>1, <3>4, <3>5 DEF LinkInv, CommandsWrite
  <2> QED  BY <2>1, <2>2
<1>8. ListenersWrite' /\ ListenersRead'
  <2> SUFFICES ASSUME NEW p \in Nodes, NEW r, r = seat[p],
                      r.pc \in {"connect", "send", "read"}
               PROVE  link'[r.parcel] = link[r.parcel]
    BY DEF LinkInv, ListenersWrite, ListenersRead, Begin
  <2>1. r.parcel \in Wire  BY ListenerAt, Places DEF LinkInv
  <2>2. r.parcel # m
    <3>1. CASE r.pc = "read"  BY <3>1, <1>1 DEF LinkInv, ListenersRead
    <3>2. CASE r.pc \in {"connect", "send"}  BY <3>2, <1>1, Writers DEF Writes
    <3> QED  BY <3>1, <3>2
  <2> QED  BY <2>1, <2>2, <1>2
<1>9. OpenToListeners'
  BY <1>2 DEF LinkInv, OpenToListeners, Up, Begin
<1>10. AnsweredOnce'
  <2> SUFFICES ASSUME NEW l \in Requests,
                      \/ link'[Ack(l)] # "none"
                      \/ l.dst \in Nodes /\ Writes(seat[l.dst], Ack(l))
               PROVE  /\ link'[l] = "over"
                      /\ \A p \in Nodes, j \in Slots : ~Writes(proc'[p][j], l)
    BY DEF AnsweredOnce, Begin
  <2>1. link'[Ack(l)] = link[Ack(l)]  BY <1>1, <1>2, AckFacts
  <2>2. link[l] = "over" /\ \A p \in Nodes, j \in Slots : ~Writes(proc[p][j], l)
    BY <2>1 DEF LinkInv, AnsweredOnce
  <2>3. l # m /\ l \in Wire  BY <2>2, <1>1, LetterFacts, AckFacts
  <2> QED  BY <2>2, <2>3, <1>2, <1>5
<1> QED  BY <1>6, <1>7, <1>8, <1>9, <1>10 DEF LinkInv

LEMMA StartStep ==
  ASSUME LinkInv, NEW n \in Nodes, Start(n)
  PROVE  LinkInv'
<1>1. seat'[n] = P!Loop /\ \A p \in Nodes : p # n => seat'[p] = seat[p]
  BY DEF LinkInv, LinkTypes, Start
<1>2. P!Loop.pc = "loop"  BY Places
<1>3. seat' \in [Nodes -> ListenerPositions]
  BY Positions DEF LinkInv, LinkTypes, Start
<1>4. LinkTypes' /\ CommandsWrite'
  BY <1>3 DEF LinkInv, LinkTypes, QueueTypes, CommandsWrite, Start
<1>5. ListenersWrite' /\ ListenersRead'
  BY <1>1, <1>2 DEF LinkInv, ListenersWrite, ListenersRead, Start
<1>6. OpenToListeners'
  <2>1. \A p \in Nodes : Up(p) => seat'[p] # P!Off
    BY <1>1, Places DEF Up
  <2> QED  BY <2>1, WireFacts DEF LinkInv, OpenToListeners, Up, Start
<1>7. AnsweredOnce'
  BY <1>1, <1>2 DEF LinkInv, AnsweredOnce, Writes, Start
<1> QED  BY <1>4, <1>5, <1>6, <1>7 DEF LinkInv

\* A listener's end resets what is open to it and closes what it has open, and leaves alone
\* what is not begun, what others read and what others write to others.
LEMMA DownLinks ==
  ASSUME LinkInv, NEW n \in Nodes, Down(n), NEW m \in Wire
  PROVE  /\ link'[m] \in {"over", "closed"} \/ link'[m] = link[m]
         /\ link[m] = "none" <=> link'[m] = "none"
         /\ link[m] = "over" => link'[m] = "over"
         /\ m.dst = n => link'[m] \in {"none", "over"}
         /\ m.dst # n /\ ~Writes(seat[n], m) => link'[m] = link[m]
         /\ ~Writes(seat[n], m) => link'[m] \in {link[m], "over"}
<1>1. PICK w : w = Without(seat[n])[m]  OBVIOUS
<1>2. link'[m] = IF m.dst = n /\ link[m] # "none" THEN "over" ELSE w
  BY <1>1 DEF Down
<1>3. \/ w = link[m]
      \/ w = "closed" /\ link[m] = "open" /\ Writes(seat[n], m)
  BY <1>1 DEF Without, LinkInv, LinkTypes, Writes
<1> QED  BY <1>2, <1>3

LEMMA DownStep ==
  ASSUME LinkInv, NEW n \in Nodes, Down(n)
  PROVE  LinkInv'
<1>1. \A m \in Wire :
        /\ link'[m] \in {"over", "closed"} \/ link'[m] = link[m]
        /\ link[m] = "none" <=> link'[m] = "none"
        /\ link[m] = "over" => link'[m] = "over"
        /\ m.dst = n => link'[m] \in {"none", "over"}
        /\ m.dst # n /\ ~Writes(seat[n], m) => link'[m] = link[m]
        /\ ~Writes(seat[n], m) => link'[m] \in {link[m], "over"}
  BY DownLinks
<1>2. seat'[n] = P!Off /\ \A p \in Nodes : p # n => seat'[p] = seat[p]
  BY DEF LinkInv, LinkTypes, Down
<1>3. P!Off.pc = "off"  BY Places
<1>4. LinkTypes'
  <2>1. link' = [m \in Wire |-> link'[m]]
    BY DEF Down
  <2>2. link' \in [Wire -> LinkState]
    BY <2>1, <1>1 DEF LinkInv, LinkTypes, LinkState
  <2>3. seat' \in [Nodes -> ListenerPositions]
    BY Positions DEF LinkInv, LinkTypes, Down
  <2>4. QueueTypes'
    BY DEF LinkInv, LinkTypes, QueueTypes, Down
  <2> QED  BY <2>2, <2>3, <2>4 DEF LinkInv, LinkTypes, Down
<1>5. CommandsWrite'
  <2> SUFFICES ASSUME NEW p \in Nodes, NEW l \in Slots,
                      NEW r, r = proc[p][l], r.pc \in {"connect", "send"}
               PROVE  link'[r.parcel] \in {link[r.parcel], "over"}
    BY DEF LinkInv, CommandsWrite, Down
  <2>1. r.parcel \in Letters  BY Writers DEF Writes
  <2>2. r.parcel \in Wire /\ ~Writes(seat[n], r.parcel)
    BY <2>1, LetterFacts, Writers
  <2> QED  BY <2>2, <1>1
<1>6. ListenersWrite' /\ ListenersRead'
  <2> SUFFICES ASSUME NEW p \in Nodes, NEW r, r = seat'[p],
                      r.pc \in {"connect", "send", "peek", "read"}
               PROVE  /\ r.pc = "connect" => link'[r.parcel] \in {"none", "over"}
                      /\ r.pc = "send" => link'[r.parcel] \in {"open", "over"}
                      /\ r.pc \in {"connect", "send"} =>
                           \E l \in Requests : l.dst = p /\ r.parcel = Ack(l)
                      /\ r.pc \in {"peek", "read"} => r.parcel.dst = p
                      /\ r.pc = "read" => link'[r.parcel] = "sent"
    BY DEF ListenersWrite, ListenersRead
  <2>1. p # n /\ r = seat[p]  BY <1>2, <1>3
  <2>2. r.parcel \in Wire  BY <2>1, ListenerAt, Places DEF LinkInv
  <2>3. CASE r.pc \in {"connect", "send"}
    <3>1. ~Writes(seat[n], r.parcel)  BY <2>1, <2>3, Writers DEF Writes
    <3>2. link'[r.parcel] \in {link[r.parcel], "over"}  BY <3>1, <2>2, <1>1
    <3> QED  BY <3>2, <2>1, <2>3 DEF LinkInv, ListenersWrite
  <2>4. CASE r.pc = "peek"
    BY <2>4, <2>1 DEF LinkInv, ListenersRead
  <2>5. CASE r.pc = "read"
    <3>1. r.parcel.dst = p /\ link[r.parcel] = "sent"
      BY <2>5, <2>1 DEF LinkInv, ListenersRead
    <3>2. ~Writes(seat[n], r.parcel)  BY <3>1, Writers
    <3> QED  BY <3>1, <3>2, <2>1, <2>2, <2>5, <1>1
  <2> QED  BY <2>3, <2>4, <2>5
<1>7. OpenToListeners'
  <2> SUFFICES ASSUME NEW m \in Wire, link'[m] = "open"
               PROVE  seat'[m.dst] # P!Off
    BY DEF OpenToListeners, Up
  <2>1. link[m] = "open" /\ m.dst # n  BY <1>1
  <2> QED  BY <2>1, <1>2, WireFacts DEF LinkInv, OpenToListeners, Up
<1>8. AnsweredOnce'
  <2> SUFFICES ASSUME NEW l \in Requests,
                      \/ link'[Ack(l)] # "none"
                      \/ l.dst \in Nodes /\ Writes(seat'[l.dst], Ack(l))
               PROVE  /\ link'[l] = "over"
                      /\ \A p \in Nodes, j \in Slots : ~Writes(proc[p][j], l)
    BY DEF AnsweredOnce, Down
  <2>1. link[Ack(l)] # "none" \/ (l.dst \in Nodes /\ Writes(seat[l.dst], Ack(l)))
    BY <1>1, <1>2, <1>3, AckFacts DEF Writes
  <2>2. link[l] = "over" /\ \A p \in Nodes, j \in Slots : ~Writes(proc[p][j], l)
    BY <2>1 DEF LinkInv, AnsweredOnce
  <2> QED  BY <2>2, <1>1, LetterFacts, AckFacts
<1> QED  BY <1>4, <1>5, <1>6, <1>7, <1>8 DEF LinkInv

LEMMA AcceptStep ==
  ASSUME LinkInv, NEW n \in Nodes, Accept(n)
  PROVE  LinkInv'
<1> DEFINE Here == {m \in Wire : m.dst = n}
           h == Head(queue[n])
<1>1. queue[n] \in Seq(Here) /\ queue[n] \in Seq(Wire) /\ queue[n] # <<>>
  BY DEF LinkInv, LinkTypes, QueueTypes, Accept
<1>2. h \in Here /\ Tail(queue[n]) \in Seq(Here) /\ Tail(queue[n]) \in Seq(Wire)
  BY <1>1
<1>3. seat' = [seat EXCEPT ![n] = At("peek", h)]
  BY DEF Accept, Goes
<1> HIDE DEF h
<1>4. seat'[n] = At("peek", h) /\ \A p \in Nodes : p # n => seat'[p] = seat[p]
  BY <1>3 DEF LinkInv, LinkTypes
<1>5. At("peek", h).pc = "peek" /\ At("peek", h).parcel = h
  BY Places
<1>6. LinkTypes'
  <2>1. seat' \in [Nodes -> ListenerPositions]
    BY <1>2, <1>3, Positions DEF LinkInv, LinkTypes
  <2>2. queue' \in [Nodes -> Seq(Wire)]
    BY <1>2 DEF LinkInv, LinkTypes, QueueTypes, Accept
  <2>3. \A p \in Nodes : queue'[p] \in Seq({m \in Wire : m.dst = p})
    BY <1>2 DEF LinkInv, LinkTypes, QueueTypes, Accept
  <2> QED  BY <2>1, <2>2, <2>3 DEF LinkInv, LinkTypes, QueueTypes, Accept
<1>7. CommandsWrite'
  BY DEF LinkInv, CommandsWrite, Accept
<1>8. ListenersWrite' /\ ListenersRead'
  BY <1>2, <1>4, <1>5 DEF LinkInv, ListenersWrite, ListenersRead, Accept
<1>9. OpenToListeners'
  <2>1. \A p \in Nodes : Up(p) => seat'[p] # P!Off
    BY <1>4, <1>5, Places DEF Up
  <2> QED  BY <2>1, WireFacts DEF LinkInv, OpenToListeners, Up, Accept
<1>10. AnsweredOnce'
  BY <1>4, <1>5 DEF LinkInv, AnsweredOnce, Writes, Accept
<1> QED  BY <1>6, <1>7, <1>8, <1>9, <1>10 DEF LinkInv

LEMMA PeekStep ==
  ASSUME LinkInv, NEW n \in Nodes, Peek(n)
  PROVE  LinkInv'
<1> DEFINE m == seat[n].parcel
<1>1. m \in Wire /\ m.dst = n
  BY ListenerAt, Places DEF LinkInv, ListenersRead, Peek
<1>2. PICK s : /\ seat' = [seat EXCEPT ![n] = s]
               /\ s = P!Loop \/ (s = At("read", m) /\ link[m] = "sent")
  BY DEF Peek, Goes
<1>3. seat[n] # P!Off
  BY Places DEF Peek
<1> HIDE DEF m
<1>4. \/ s.pc = "loop"
      \/ s.pc = "read" /\ s.parcel = m /\ link[m] = "sent"
  BY <1>2, Places
<1>5. seat'[n] = s /\ \A p \in Nodes : p # n => seat'[p] = seat[p]
  BY <1>2 DEF LinkInv, LinkTypes
<1>6. LinkTypes'
  <2>1. seat' \in [Nodes -> ListenerPositions]
    BY <1>1, <1>2, Positions DEF LinkInv, LinkTypes
  <2> QED  BY <2>1 DEF LinkInv, LinkTypes, QueueTypes, Peek
<1>7. CommandsWrite'
  BY DEF LinkInv, CommandsWrite, Peek
<1>8. ListenersWrite' /\ ListenersRead'
  BY <1>1, <1>4, <1>5 DEF LinkInv, ListenersWrite, ListenersRead, Peek
<1>9. OpenToListeners'
  <2>1. \A p \in Nodes : Up(p) => seat'[p] # P!Off
    BY <1>4, <1>5, Places DEF Up
  <2> QED  BY <2>1, WireFacts DEF LinkInv, OpenToListeners, Up, Peek
<1>10. AnsweredOnce'
  BY <1>4, <1>5 DEF LinkInv, AnsweredOnce, Writes, Peek
<1> QED  BY <1>6, <1>7, <1>8, <1>9, <1>10 DEF LinkInv

\* What is read was sent: nobody writes it any more, nobody else reads it, and if it is a
\* request it has no answer yet.
LEMMA ReadStep ==
  ASSUME LinkInv, NEW n \in Nodes, Read(n)
  PROVE  LinkInv'
<1> DEFINE m == seat[n].parcel
<1>1. m \in Wire /\ m.dst = n /\ link[m] = "sent"
  BY ListenerAt, Places DEF LinkInv, ListenersRead, Read
<1>2. PICK s : /\ seat' = [seat EXCEPT ![n] = s]
               /\ s = P!Loop \/ (s = At("connect", Ack(m)) /\ m.kind = "CONN_REQ")
  BY DEF Read, Goes
<1>3. seat[n] # P!Off /\ link' = [link EXCEPT ![m] = "over"]
  BY Places DEF Read
<1> HIDE DEF m
<1>4. s # P!Loop =>
        m \in Requests /\ s.pc = "connect" /\ s.parcel = Ack(m) /\ Ack(m) \in Wire
  <2> SUFFICES ASSUME s # P!Loop
               PROVE  /\ m \in Requests
                      /\ s.pc = "connect" /\ s.parcel = Ack(m) /\ Ack(m) \in Wire
    OBVIOUS
  <2>1. m \in Requests  BY <1>1, <1>2, WireFacts, AckFacts DEF Requests
  <2> QED  BY <2>1, <1>2, AckFacts, Places
<1>5. seat'[n] = s /\ \A p \in Nodes : p # n => seat'[p] = seat[p]
  BY <1>2 DEF LinkInv, LinkTypes
<1>6. link'[m] = "over" /\ \A p \in Wire : p # m => link'[p] = link[p]
  BY <1>1, <1>3 DEF LinkInv, LinkTypes
<1>7. \A p \in Nodes : \A q : Writes(seat[p], q) => q # m
  BY <1>1, Writers
<1>8. \A p \in Nodes, k \in Slots : \A q : Writes(proc[p][k], q) => q # m /\ q \in Wire
  BY <1>1, Writers, LetterFacts
<1>9. P!Loop.pc = "loop"  BY Places
<1>10. LinkTypes'
  <2>1. s \in ListenerPositions
    BY <1>2, <1>4, Positions
  <2>2. seat' \in [Nodes -> ListenerPositions]
    BY <2>1, <1>2 DEF LinkInv, LinkTypes
  <2>3. link' \in [Wire -> LinkState]
    BY <1>3 DEF LinkInv, LinkTypes, LinkState
  <2> QED  BY <2>2, <2>3 DEF LinkInv, LinkTypes, QueueTypes, Read
<1>11. CommandsWrite'
  <2> SUFFICES ASSUME NEW p \in Nodes, NEW l \in Slots,
                      NEW r, r = proc[p][l], r.pc \in {"connect", "send"}
               PROVE  link'[r.parcel] = link[r.parcel]
    BY DEF LinkInv, CommandsWrite, Read
  <2> QED  BY <1>6, <1>8 DEF Writes
<1>12. ListenersWrite' /\ ListenersRead'
  <2> SUFFICES ASSUME NEW p \in Nodes, NEW r, r = seat'[p],
                      r.pc \in {"connect", "send", "peek", "read"}
               PROVE  /\ r.pc = "connect" => link'[r.parcel] \in {"none", "over"}
                      /\ r.pc = "send" => link'[r.parcel] \in {"open", "over"}
                      /\ r.pc \in {"connect", "send"} =>
                           \E l \in Requests : l.dst = p /\ r.parcel = Ack(l)
                      /\ r.pc \in {"peek", "read"} => r.parcel.dst = p
                      /\ r.pc = "read" => link'[r.parcel] = "sent"
    BY DEF ListenersWrite, ListenersRead
  <2>1. CASE p = n
    <3>1. r = s /\ s # P!Loop  BY <2>1, <1>5, <1>9
    <3>2. m \in Requests /\ r.pc = "connect" /\ r.parcel = Ack(m) /\ Ack(m) \in Wire
      BY <3>1, <1>4
    <3>3. Ack(m) # m  BY <3>2, AckFacts
    <3>4. link[Ack(m)] = "none"
      BY <3>2, <1>1 DEF LinkInv, AnsweredOnce
    <3> QED  BY <3>2, <3>3, <3>4, <2>1, <1>1, <1>6
  <2>2. CASE p # n
    <3>1. r = seat[p]  BY <2>2, <1>5
    <3>2. r.parcel \in Wire  BY <3>1, ListenerAt, Places DEF LinkInv
    <3>3. r.parcel # m
      <4>1. CASE r.pc \in {"peek", "read"}
        BY <4>1, <3>1, <2>2, <1>1 DEF LinkInv, ListenersRead
      <4>2. CASE r.pc \in {"connect", "send"}
        BY <4>2, <3>1, <1>7 DEF Writes
      <4> QED  BY <4>1, <4>2
    <3>4. link'[r.parcel] = link[r.parcel]  BY <3>2, <3>3, <1>6
    <3> QED  BY <3>1, <3>4 DEF LinkInv, ListenersWrite, ListenersRead
  <2> QED  BY <2>1, <2>2
<1>13. OpenToListeners'
  <2>1. \A p \in Nodes : Up(p) => seat'[p] # P!Off
    BY <1>2, <1>5, Places DEF Up
  <2> QED  BY <2>1, <1>6, WireFacts DEF LinkInv, OpenToListeners, Up
<1>14. AnsweredOnce'
  <2> SUFFICES ASSUME NEW l \in Requests,
                      \/ link'[Ack(l)] # "none"
                      \/ l.dst \in Nodes /\ Writes(seat'[l.dst], Ack(l))
               PROVE  /\ link'[l] = "over"
                      /\ \A p \in Nodes, j \in Slots : ~Writes(proc[p][j], l)
    BY DEF AnsweredOnce, Read
  <2>1. CASE l = m
    BY <2>1, <1>6, <1>8
  <2>2. CASE l # m
    <3>1. link[Ack(l)] # "none" \/ (l.dst \in Nodes /\ Writes(seat[l.dst], Ack(l)))
      <4>1. link'[Ack(l)] = "none" \/ link[Ack(l)] # "none"
        BY <1>1, <1>6, AckFacts
      <4>2. ~Writes(s, Ack(l))
        BY <2>2, <1>2, <1>4, <1>9, AcksDiffer DEF Writes
      <4> QED  BY <4>1, <4>2, <1>5
    <3>2. link[l] = "over" /\ \A p \in Nodes, j \in Slots : ~Writes(proc[p][j], l)
      BY <3>1 DEF LinkInv, AnsweredOnce
    <3> QED  BY <3>2, <2>2, <1>6, LetterFacts, AckFacts
  <2> QED  BY <2>1, <2>2
<1> QED  BY <1>10, <1>11, <1>12, <1>13, <1>14 DEF LinkInv

\* A connect queues its parcel where it is for, if at all.
LEMMA ConnectQueues ==
  ASSUME LinkInv, NEW m \in Wire, Connects(m) \/ ConnectFails(m)
  PROVE  /\ QueueTypes'
         /\ \E v \in {"open", "over"} :
              /\ link' = [link EXCEPT ![m] = v]
              /\ v = "open" <=> Connects(m)
              /\ v = "open" => Up(m.dst)
<1>1. CASE Connects(m)
  <2>1. m.dst \in Nodes  BY WireFacts
  <2>2. queue' = [queue EXCEPT ![m.dst] = Append(queue[m.dst], m)]
    BY <1>1 DEF Connects
  <2>3. queue[m.dst] \in Seq({q \in Wire : q.dst = m.dst}) /\ queue[m.dst] \in Seq(Wire)
    BY <2>1 DEF LinkInv, LinkTypes, QueueTypes
  <2>4. /\ Append(queue[m.dst], m) \in Seq({q \in Wire : q.dst = m.dst})
        /\ Append(queue[m.dst], m) \in Seq(Wire)
    BY <2>3
  <2>5. queue' \in [Nodes -> Seq(Wire)]
    BY <2>1, <2>2, <2>4 DEF LinkInv, LinkTypes, QueueTypes
  <2>6. \A p \in Nodes : queue'[p] \in Seq({q \in Wire : q.dst = p})
    BY <2>1, <2>2, <2>4 DEF LinkInv, LinkTypes, QueueTypes
  <2> QED  BY <2>5, <2>6, <1>1 DEF QueueTypes, Connects
<1>2. CASE ~Connects(m) /\ ConnectFails(m)
  BY <1>2 DEF LinkInv, LinkTypes, QueueTypes, ConnectFails
<1> QED  BY <1>1, <1>2

LEMMA CommandConnectStep ==
  ASSUME LinkInv, NEW n \in Nodes, NEW k \in Slots, CommandConnect(n, k)
  PROVE  LinkInv'
<1>1. PICK m : m = proc[n][k].parcel  OBVIOUS
<1>2. Writes(proc[n][k], m)
  BY <1>1 DEF Writes, CommandConnect
<1>3. m \in Wire
  BY <1>2, Writers, LetterFacts
<1>4. PICK s \in {P!Idle, At("send", m)} :
        /\ proc' = [proc EXCEPT ![n][k] = s]
        /\ s # P!Idle => Connects(m)
        /\ Connects(m) \/ ConnectFails(m)
  BY <1>1 DEF CommandConnect
<1>5. PICK v \in {"open", "over"} : /\ link' = [link EXCEPT ![m] = v]
                                    /\ v = "open" => Up(m.dst)
  BY <1>3, <1>4, ConnectQueues
<1>6. QueueTypes' /\ seat' = seat
  BY <1>3, <1>4, ConnectQueues DEF CommandConnect
<1>7. v \in LinkState  BY DEF LinkState
<1> QED  BY <1>2, <1>4, <1>5, <1>6, <1>7, CommandMoves

LEMMA CommandSendStep ==
  ASSUME LinkInv, NEW n \in Nodes, NEW k \in Slots, CommandSend(n, k)
  PROVE  LinkInv'
<1>1. PICK m : m = proc[n][k].parcel  OBVIOUS
<1>2. Writes(proc[n][k], m)
  BY <1>1 DEF Writes, CommandSend
<1>3. m \in Wire /\ link[m] \in {"open", "over"}
  BY <1>1, <1>2, Writers, LetterFacts DEF LinkInv, CommandsWrite, CommandSend
<1>4. PICK v \in {"sent", "closed", "over"} : link' = [link EXCEPT ![m] = v]
  BY <1>1, <1>3 DEF CommandSend, Sends, SendFails
<1>5. proc' = [proc EXCEPT ![n][k] = P!Idle] /\ seat' = seat /\ QueueTypes'
  BY DEF LinkInv, LinkTypes, QueueTypes, CommandSend
<1>6. v \in LinkState  BY DEF LinkState
<1> QED  BY <1>2, <1>4, <1>5, <1>6, CommandMoves

LEMMA KillStep ==
  ASSUME LinkInv, NEW n \in Nodes, NEW k \in Slots, Kill(n, k)
  PROVE  LinkInv'
<1>1. PICK m : m = proc[n][k].parcel  OBVIOUS
<1>2. Writes(proc[n][k], m)
  BY <1>1, CommandAt, Places DEF LinkInv, Writes, Kill
<1>3. m \in Wire /\ link[m] \in LinkState
  BY <1>2, Writers, LetterFacts DEF LinkInv, LinkTypes
<1>4. PICK v \in {link[m], "closed"} :
        link' = [link EXCEPT ![m] = v] /\ v # "open"
  <2>1. CASE proc[n][k].pc = "send" /\ link[m] = "open"
    BY <2>1, <1>1 DEF Kill, Without
  <2>2. CASE ~(proc[n][k].pc = "send" /\ link[m] = "open")
    <3>1. link' = link  BY <2>2, <1>1 DEF Kill, Without
    <3>2. link[m] # "open"
      BY <2>2, <1>1, <1>2 DEF LinkInv, CommandsWrite, Writes
    <3> QED  BY <3>1, <3>2 DEF LinkInv, LinkTypes
  <2> QED  BY <2>1, <2>2
<1>5. proc' = [proc EXCEPT ![n][k] = P!Idle] /\ seat' = seat /\ QueueTypes'
  BY DEF LinkInv, LinkTypes, QueueTypes, Kill
<1>6. v \in LinkState  BY <1>3 DEF LinkState
<1> QED  BY <1>2, <1>4, <1>5, <1>6, CommandMoves

LEMMA ReplyConnectStep ==
  ASSUME LinkInv, NEW n \in Nodes, ReplyConnect(n)
  PROVE  LinkInv'
<1>1. PICK m : m = seat[n].parcel  OBVIOUS
<1>2. Writes(seat[n], m)
  BY <1>1 DEF Writes, ReplyConnect
<1>3. m \in Wire
  BY <1>2, Writers
<1>4. PICK s \in {P!Loop, At("send", m)} :
        /\ seat' = [seat EXCEPT ![n] = s]
        /\ s # P!Loop => Connects(m)
        /\ Connects(m) \/ ConnectFails(m)
  BY <1>1 DEF ReplyConnect, Goes
<1>5. PICK v \in {"open", "over"} : /\ link' = [link EXCEPT ![m] = v]
                                    /\ v = "open" => Up(m.dst)
  BY <1>3, <1>4, ConnectQueues
<1>6. QueueTypes' /\ proc' = proc
  BY <1>3, <1>4, ConnectQueues DEF ReplyConnect
<1>7. v \in LinkState  BY DEF LinkState
<1> QED  BY <1>2, <1>4, <1>5, <1>6, <1>7, ListenerMoves

LEMMA ReplySendStep ==
  ASSUME LinkInv, NEW n \in Nodes, ReplySend(n)
  PROVE  LinkInv'
<1>1. PICK m : m = seat[n].parcel  OBVIOUS
<1>2. Writes(seat[n], m)
  BY <1>1 DEF Writes, ReplySend
<1>3. m \in Wire /\ link[m] \in {"open", "over"}
  BY <1>1, <1>2, Writers DEF LinkInv, ListenersWrite, ReplySend
<1>4. PICK v \in {"sent", "closed", "over"} : link' = [link EXCEPT ![m] = v]
  BY <1>1, <1>3 DEF ReplySend, Sends, SendFails
<1>5. seat' = [seat EXCEPT ![n] = P!Loop] /\ proc' = proc /\ QueueTypes'
  BY DEF LinkInv, LinkTypes, QueueTypes, ReplySend, Goes
<1>6. v \in LinkState  BY DEF LinkState
<1> QED  BY <1>2, <1>4, <1>5, <1>6, ListenerMoves

LEMMA LinkInvNext == LinkInv /\ [Next]_vars => LinkInv'
<1> SUFFICES ASSUME LinkInv, [Next]_vars PROVE LinkInv'
  OBVIOUS
<1>1. CASE Next
  <2>1. PICK n \in Nodes :
          \/ Start(n) \/ Down(n)
          \/ Accept(n) \/ Peek(n) \/ Read(n) \/ ReplyConnect(n) \/ ReplySend(n)
          \/ \E k \in Slots : \/ \E m \in Letters : Begin(n, k, m)
                              \/ CommandConnect(n, k) \/ CommandSend(n, k) \/ Kill(n, k)
    BY <1>1 DEF Next, Stop, Pass, LogFails
  <2> QED
    BY <2>1, StartStep, DownStep, AcceptStep, PeekStep, ReadStep, ReplyConnectStep,
       ReplySendStep, BeginStep, CommandConnectStep, CommandSendStep, KillStep
<1>2. CASE UNCHANGED vars
  BY <1>2 DEF LinkInv, LinkTypes, QueueTypes, CommandsWrite, ListenersWrite, ListenersRead,
              OpenToListeners, AnsweredOnce, Writes, Up, vars
<1> QED  BY <1>1, <1>2

\* Every connection has at most one process that writes on it and one that reads from it,
\* and a request has at most one answer: send_parcel and ap2p_listen over TCP.
THEOREM LinkInvHolds == Spec => []LinkInv
<1>1. Init => LinkInv  BY LinkInvInit
<1>2. LinkInv /\ [Next]_vars => LinkInv'  BY LinkInvNext
<1> QED  BY <1>1, <1>2, PTL DEF Spec

-----------------------------------------------------------------------------
(* The calls implement the steps of ParcelNet.  A process in send_parcel    *)
(* is there about to send, a listener that reads is there in its loop.      *)

LEMMA SenderFacts ==
  /\ AsSender(P!Off) = P!Off /\ AsSender(P!Loop) = P!Loop /\ AsSender(P!Idle) = P!Idle
  /\ \A m : /\ AsSender(At("connect", m)) = P!Sending(m)
            /\ AsSender(At("send", m)) = P!Sending(m)
            /\ AsSender(At("peek", m)) = P!Loop
            /\ AsSender(At("read", m)) = P!Loop
            /\ P!Sending(m).pc = "send" /\ P!Sending(m).parcel = m
BY DEF AsSender, P!Off, P!Loop, P!Idle, P!Sending, At

LEMMA SenderAt ==
  ASSUME LinkInv
  PROVE  /\ \A n \in Nodes : senderLst[n] = AsSender(seat[n])
         /\ \A n \in Nodes, k \in Slots : senderCmd[n][k] = AsSender(proc[n][k])
         /\ \A n \in Nodes : \A m : Writes(seat[n], m) => AsSender(seat[n]) = P!Sending(m)
         /\ \A n \in Nodes, k \in Slots : \A m :
              Writes(proc[n][k], m) => AsSender(proc[n][k]) = P!Sending(m)
         /\ \A n \in Nodes : seat[n].pc \in {"peek", "read"} => AsSender(seat[n]) = P!Loop
         /\ \A n \in Nodes : P!Listening(n) <=> Up(n)
<1>1. \A n \in Nodes : senderLst[n] = AsSender(seat[n])  BY DEF senderLst
<1>2. \A n \in Nodes, k \in Slots : senderCmd[n][k] = AsSender(proc[n][k])
  BY DEF senderCmd
<1>3. \A n \in Nodes : \A m : Writes(seat[n], m) => AsSender(seat[n]) = P!Sending(m)
  BY DEF Writes, AsSender, P!Sending
<1>4. \A n \in Nodes, k \in Slots : \A m :
        Writes(proc[n][k], m) => AsSender(proc[n][k]) = P!Sending(m)
  BY DEF Writes, AsSender, P!Sending
<1>5. \A n \in Nodes : seat[n].pc \in {"peek", "read"} => AsSender(seat[n]) = P!Loop
  BY DEF AsSender, P!Loop
<1>6. ASSUME NEW n \in Nodes PROVE P!Listening(n) <=> Up(n)
  <2>1. CASE seat[n] \in {P!Off, P!Loop}
    BY <2>1, <1>1, SenderFacts, Places DEF P!Listening, Up
  <2>2. CASE \E pc \in {"connect", "send", "peek", "read"}, m \in Wire : seat[n] = At(pc, m)
    <3>1. PICK pc \in {"connect", "send", "peek", "read"}, m \in Wire : seat[n] = At(pc, m)
      BY <2>2
    <3>2. seat[n] # P!Off  BY <3>1, Places
    <3>3. AsSender(seat[n]) \in {P!Sending(m), P!Loop}  BY <3>1, SenderFacts
    <3> QED  BY <3>2, <3>3, <1>1, SenderFacts, Places DEF P!Listening, Up
  <2> QED  BY <2>1, <2>2, ListenerAt DEF LinkInv
<1> QED  BY <1>1, <1>2, <1>3, <1>4, <1>5, <1>6

LEMMA ListenerTo ==
  ASSUME LinkInv, NEW n \in Nodes, NEW s, NEW t,
         AsSender(s) = t, seat' = [seat EXCEPT ![n] = s]
  PROVE  senderLst' = [senderLst EXCEPT ![n] = t]
BY DEF LinkInv, LinkTypes, senderLst

LEMMA LinkTo ==
  ASSUME LinkInv, NEW m \in Wire, NEW v, link' = [link EXCEPT ![m] = v]
  PROVE  sentNet' = IF v = "sent" THEN sentNet \cup {m} ELSE sentNet \ {m}
BY DEF LinkInv, LinkTypes, sentNet

LEMMA StillThere ==
  /\ emptyConns' = emptyConns
  /\ link' = link => sentNet' = sentNet
  /\ seat' = seat => senderLst' = senderLst
  /\ proc' = proc => senderCmd' = senderCmd
BY DEF emptyConns, sentNet, senderLst, senderCmd

LEMMA BeginIsBegin ==
  ASSUME LinkInv, NEW n \in Nodes, NEW k \in Slots, NEW m \in Letters, Begin(n, k, m)
  PROVE  P!Begin(n, k)
<1>1. senderCmd[n][k] = P!Idle
  BY SenderAt, SenderFacts DEF Begin
<1>2. senderCmd' = [senderCmd EXCEPT ![n][k] = P!Sending(m)]
  <2>1. proc' = [proc EXCEPT ![n][k] = At("connect", m)]  BY DEF Begin
  <2>2. AsSender(At("connect", m)) = P!Sending(m)  BY SenderFacts
  <2> QED  BY <2>1, <2>2 DEF LinkInv, LinkTypes, senderCmd
<1>3. sentNet' = sentNet
  <2>1. m \notin sentNet /\ m \in Wire  BY LetterFacts DEF Begin, sentNet
  <2>2. link' = [link EXCEPT ![m] = "begun"]  BY DEF Begin
  <2>3. sentNet' = sentNet \ {m}  BY <2>1, <2>2, LinkTo
  <2> QED  BY <2>1, <2>3
<1> QED  BY <1>1, <1>2, <1>3, StillThere, LetterFacts DEF P!Begin, Begin

\* send_parcel hands its parcel to a listener that is there or, with faults, fails.
LEMMA SendIsSendParcel ==
  ASSUME LinkInv, "loss" \in Faults, NEW m \in Wire, link[m] # "sent",
         NEW v \in {"sent", "open", "closed", "over"}, link' = [link EXCEPT ![m] = v],
         v = "sent" => link[m] = "open"
  PROVE  P!SendParcel(m)
<1>1. m \notin sentNet  BY DEF sentNet
<1>2. v = "sent" => P!Listening(m.dst)
  BY WireFacts, SenderAt DEF LinkInv, OpenToListeners
<1> QED  BY <1>1, <1>2, LinkTo DEF P!SendParcel

LEMMA CommandConnectIs ==
  ASSUME LinkInv, "loss" \in Faults, NEW n \in Nodes, NEW k \in Slots, CommandConnect(n, k)
  PROVE  P!CommandSend(n, k) \/ UNCHANGED P!nodeVars
<1>1. PICK m : m = proc[n][k].parcel  OBVIOUS
<1>2. Writes(proc[n][k], m)
  BY <1>1 DEF Writes, CommandConnect
<1>3. m \in Wire /\ link[m] # "sent" /\ m \notin sentNet
  BY <1>2, Writers, LetterFacts DEF sentNet
<1>4. seat' = seat  BY DEF CommandConnect
<1>5. senderCmd[n][k] = P!Sending(m)  BY <1>2, SenderAt
<1>6. CASE Connects(m) /\ proc' = [proc EXCEPT ![n][k] = At("send", m)]
  <2>1. sentNet' = sentNet
    <3>1. link' = [link EXCEPT ![m] = "open"]  BY <1>6 DEF Connects
    <3>2. sentNet' = sentNet \ {m}
      BY ONLY LinkInv, <1>3, <3>1 DEF LinkInv, LinkTypes, sentNet
    <3> QED  BY <1>3, <3>2
  <2>2. senderCmd' = [senderCmd EXCEPT ![n][k] = P!Sending(m)]
    <3>1. AsSender(At("send", m)) = P!Sending(m)  BY SenderFacts
    <3> QED  BY <1>6, <3>1 DEF LinkInv, LinkTypes, senderCmd
  <2>3. senderCmd = [p \in Nodes |-> [l \in Slots |-> senderCmd[p][l]]]
    BY DEF senderCmd
  <2>4. senderCmd' = senderCmd
    BY ONLY <2>2, <2>3, <1>5
  <2> QED  BY <2>1, <2>4, <1>4, StillThere DEF P!nodeVars
<1>7. CASE ConnectFails(m) /\ proc' = [proc EXCEPT ![n][k] = P!Idle]
  <2>1. P!SendParcel(m)
    BY <1>3, <1>7, SendIsSendParcel DEF ConnectFails
  <2>2. senderCmd' = [senderCmd EXCEPT ![n][k] = P!Idle]
    <3>1. proc' = [proc EXCEPT ![n][k] = P!Idle]  BY <1>7
    <3>2. AsSender(P!Idle) = P!Idle  BY SenderFacts
    <3> QED  BY <3>1, <3>2 DEF LinkInv, LinkTypes, senderCmd
  <2> QED  BY <2>1, <2>2, <1>4, <1>5, SenderFacts, StillThere DEF P!CommandSend
<1> QED  BY <1>1, <1>6, <1>7 DEF CommandConnect

LEMMA CommandSendIs ==
  ASSUME LinkInv, "loss" \in Faults, NEW n \in Nodes, NEW k \in Slots, CommandSend(n, k)
  PROVE  P!CommandSend(n, k)
<1>1. PICK m : m = proc[n][k].parcel  OBVIOUS
<1>2. Writes(proc[n][k], m)
  BY <1>1 DEF Writes, CommandSend
<1>3. m \in Wire /\ link[m] # "sent" /\ link[m] \in {"open", "over"}
  BY <1>1, <1>2, Writers, LetterFacts DEF LinkInv, CommandsWrite, CommandSend
<1>4. PICK v \in {"sent", "closed", "over"} :
        link' = [link EXCEPT ![m] = v] /\ (v = "sent" => link[m] = "open")
  BY <1>1, <1>3 DEF CommandSend, Sends, SendFails
<1>5. P!SendParcel(m)
  BY <1>3, <1>4, SendIsSendParcel
<1>6. senderCmd[n][k] = P!Sending(m)  BY <1>2, SenderAt
<1>7. senderCmd' = [senderCmd EXCEPT ![n][k] = P!Idle]
  <2>1. proc' = [proc EXCEPT ![n][k] = P!Idle]  BY DEF CommandSend
  <2>2. AsSender(P!Idle) = P!Idle  BY SenderFacts
  <2> QED  BY <2>1, <2>2 DEF LinkInv, LinkTypes, senderCmd
<1> QED  BY <1>5, <1>6, <1>7, SenderFacts, StillThere DEF P!CommandSend, CommandSend

LEMMA KillIsExit ==
  ASSUME LinkInv, NEW n \in Nodes, NEW k \in Slots, Kill(n, k)
  PROVE  P!CommandExit(n, k)
<1>1. PICK m : m = proc[n][k].parcel  OBVIOUS
<1>2. Writes(proc[n][k], m)
  BY <1>1, CommandAt, Places DEF LinkInv, Writes, Kill
<1>3. m \in Wire /\ m \notin sentNet
  BY <1>2, Writers, LetterFacts DEF sentNet
<1>4. sentNet' = sentNet
  <2>1. link' = link \/ link' = [link EXCEPT ![m] = "closed"]
    BY <1>1 DEF Kill, Without
  <2> QED  BY <2>1, <1>3, LinkTo, StillThere
<1>5. senderCmd[n][k] # P!Idle
  <2>1. senderCmd[n][k] = P!Sending(m)  BY <1>2, SenderAt
  <2> QED  BY <2>1, SenderFacts, Places
<1>6. senderCmd' = [senderCmd EXCEPT ![n][k] = P!Idle]
  <2>1. proc' = [proc EXCEPT ![n][k] = P!Idle]  BY DEF Kill
  <2>2. AsSender(P!Idle) = P!Idle  BY SenderFacts
  <2> QED  BY <2>1, <2>2 DEF LinkInv, LinkTypes, senderCmd
<1> QED  BY <1>4, <1>5, <1>6, StillThere DEF P!CommandExit, Kill

LEMMA StartIsStart ==
  ASSUME LinkInv, NEW n \in Nodes, Start(n)
  PROVE  P!StartListening(n)
<1>1. senderLst[n] = P!Off
  BY SenderAt, SenderFacts DEF Start, Up
<1>2. senderLst' = [senderLst EXCEPT ![n] = P!Loop]
  <2>1. seat' = [seat EXCEPT ![n] = P!Loop]  BY DEF Start
  <2> QED  BY <2>1, ListenerTo, SenderFacts
<1> QED  BY <1>1, <1>2, StillThere DEF P!StartListening, Start

\* The end of a listener, by a signal, by Enter or by the log it cannot open.
LEMMA DownIsStop ==
  ASSUME LinkInv, NEW n \in Nodes, Down(n),
         \/ seat[n] = P!Loop /\ "stop" \in Faults
         \/ Up(n) /\ "crash" \in Faults
  PROVE  P!StopListening(n)
<1>1. \/ senderLst[n] = P!Loop /\ "stop" \in Faults
      \/ P!Listening(n) /\ "crash" \in Faults
  BY SenderAt, SenderFacts
<1>2. senderLst' = [senderLst EXCEPT ![n] = P!Off]
  <2>1. seat' = [seat EXCEPT ![n] = P!Off]  BY DEF Down
  <2> QED  BY <2>1, ListenerTo, SenderFacts
<1>3. sentNet' = {m \in sentNet : m.dst # n}
  <2>1. sentNet' = {m \in Wire : link'[m] = "sent"}
    BY DEF sentNet, Down
  <2>2. sentNet = {m \in Wire : link[m] = "sent"}
    BY DEF sentNet, LinkInv, LinkTypes
  <2>3. ASSUME NEW m \in Wire
        PROVE  link'[m] = "sent" <=> link[m] = "sent" /\ m.dst # n
    BY DownLinks, Writers
  <2> QED  BY <2>1, <2>2, <2>3
<1> QED  BY <1>1, <1>2, <1>3, StillThere DEF P!StopListening, Down

\* What a listener does before it has read a parcel is inside its loop.
LEMMA LoopStutters ==
  ASSUME LinkInv, NEW n \in Nodes, Accept(n) \/ Peek(n)
  PROVE  UNCHANGED P!nodeVars
<1>1. PICK s : seat' = [seat EXCEPT ![n] = s] /\ AsSender(s) = P!Loop
  BY SenderFacts DEF Accept, Peek, Goes
<1>2. senderLst[n] = P!Loop
  BY SenderAt, SenderFacts DEF Accept, Peek
<1>3. senderLst' = [senderLst EXCEPT ![n] = P!Loop]
  BY <1>1, ListenerTo
<1>4. senderLst' = senderLst
  BY <1>2, <1>3 DEF senderLst
<1> QED  BY <1>4, StillThere DEF P!nodeVars, Accept, Peek

LEMMA ReadIs ==
  ASSUME LinkInv, NEW n \in Nodes, Read(n)
  PROVE  P!DropParcel(n) \/ \E m \in sentNet : P!Serve(n, m)
<1>1. PICK m : m = seat[n].parcel  OBVIOUS
<1>2. m \in Wire /\ m.dst = n /\ link[m] = "sent" /\ m \in sentNet
  BY <1>1, ListenerAt, Places DEF LinkInv, LinkTypes, ListenersRead, Read, sentNet
<1>3. senderLst[n] = P!Loop
  BY SenderAt DEF Read
<1>4. sentNet' = sentNet \ {m}
  BY <1>1, <1>2, LinkTo DEF Read
<1>5. CASE m.kind = "CONN_REQ" /\ Goes(n, At("connect", Ack(m)), fds[n] + 1)
  <2>1. Ack(m) = P!Parcel("CONN_ACK", n, m.src, m.id, Null)
    BY <1>2 DEF Ack
  <2>2. senderLst' = [senderLst EXCEPT ![n] = P!Sending(Ack(m))]
    <3>1. seat' = [seat EXCEPT ![n] = At("connect", Ack(m))]  BY <1>5 DEF Goes
    <3>2. AsSender(At("connect", Ack(m))) = P!Sending(Ack(m))  BY SenderFacts
    <3> QED  BY <3>1, <3>2, ListenerTo
  <2> QED  BY <1>2, <1>3, <1>4, <1>5, <2>1, <2>2, StillThere
           DEF P!Serve, P!Receive, Read
<1>6. CASE (m.kind # "CONN_REQ" \/ "loss" \in Faults) /\ Goes(n, P!Loop, fds[n])
  <2>1. senderLst' = [senderLst EXCEPT ![n] = P!Loop]
    <3>1. seat' = [seat EXCEPT ![n] = P!Loop]  BY <1>6 DEF Goes
    <3> QED  BY <3>1, ListenerTo, SenderFacts
  <2>2. senderLst' = senderLst
    BY <2>1, <1>3 DEF senderLst
  <2> QED  BY <1>2, <1>3, <1>4, <1>6, <2>2, StillThere
           DEF P!Serve, P!Receive, P!DropParcel, Read
<1> QED  BY <1>1, <1>5, <1>6 DEF Read

LEMMA ReplyConnectIs ==
  ASSUME LinkInv, "loss" \in Faults, NEW n \in Nodes, ReplyConnect(n)
  PROVE  P!ListenerSend(n) \/ UNCHANGED P!nodeVars
<1>1. PICK m : m = seat[n].parcel  OBVIOUS
<1>2. Writes(seat[n], m)
  BY <1>1 DEF Writes, ReplyConnect
<1>3. m \in Wire /\ link[m] # "sent" /\ m \notin sentNet
  BY <1>2, Writers DEF sentNet
<1>4. proc' = proc  BY DEF ReplyConnect
<1>5. senderLst[n] = P!Sending(m)  BY <1>2, SenderAt
<1>6. CASE Connects(m) /\ seat' = [seat EXCEPT ![n] = At("send", m)]
  <2>1. sentNet' = sentNet
    <3>1. link' = [link EXCEPT ![m] = "open"]  BY <1>6 DEF Connects
    <3>2. sentNet' = sentNet \ {m}
      BY ONLY LinkInv, <1>3, <3>1 DEF LinkInv, LinkTypes, sentNet
    <3> QED  BY <1>3, <3>2
  <2>2. senderLst' = [senderLst EXCEPT ![n] = P!Sending(m)]
    <3>1. seat' = [seat EXCEPT ![n] = At("send", m)]  BY <1>6
    <3>2. AsSender(At("send", m)) = P!Sending(m)  BY SenderFacts
    <3> QED  BY ONLY LinkInv, <3>1, <3>2, ListenerTo
  <2>3. senderLst' = senderLst
    BY <2>2, <1>5 DEF senderLst
  <2> QED  BY <2>1, <2>3, <1>4, StillThere DEF P!nodeVars
<1>7. CASE ConnectFails(m) /\ seat' = [seat EXCEPT ![n] = P!Loop]
  <2>1. P!SendParcel(m)
    BY <1>3, <1>7, SendIsSendParcel DEF ConnectFails
  <2>2. senderLst' = [senderLst EXCEPT ![n] = P!Loop]
    <3>1. seat' = [seat EXCEPT ![n] = P!Loop]  BY <1>7
    <3> QED  BY <3>1, ListenerTo, SenderFacts
  <2> QED  BY <2>1, <2>2, <1>4, <1>5, SenderFacts, StillThere DEF P!ListenerSend
<1> QED  BY <1>1, <1>6, <1>7 DEF ReplyConnect, Goes

LEMMA ReplySendIs ==
  ASSUME LinkInv, "loss" \in Faults, NEW n \in Nodes, ReplySend(n)
  PROVE  P!ListenerSend(n)
<1>1. PICK m : m = seat[n].parcel  OBVIOUS
<1>2. Writes(seat[n], m)
  BY <1>1 DEF Writes, ReplySend
<1>3. m \in Wire /\ link[m] # "sent" /\ link[m] \in {"open", "over"}
  BY <1>1, <1>2, Writers DEF LinkInv, ListenersWrite, ReplySend
<1>4. PICK v \in {"sent", "closed", "over"} :
        link' = [link EXCEPT ![m] = v] /\ (v = "sent" => link[m] = "open")
  BY <1>1, <1>3 DEF ReplySend, Sends, SendFails
<1>5. P!SendParcel(m)
  BY <1>3, <1>4, SendIsSendParcel
<1>6. senderLst[n] = P!Sending(m)  BY <1>2, SenderAt
<1>7. senderLst' = [senderLst EXCEPT ![n] = P!Loop]
  BY ListenerTo, SenderFacts DEF ReplySend, Goes
<1> QED  BY <1>5, <1>6, <1>7, SenderFacts, StillThere DEF P!ListenerSend, ReplySend

LEMMA NetInit == Init => P!NodeInit
<1> SUFFICES ASSUME Init PROVE P!NodeInit
  OBVIOUS
<1>1. sentNet = {}
  BY DEF Init, sentNet
<1>2. senderLst \in [Nodes -> {P!Off, P!Loop}]
  BY SenderFacts DEF Init, senderLst
<1>3. senderCmd = [n \in Nodes |-> [k \in Slots |-> P!Idle]]
  BY SenderFacts DEF Init, senderCmd
<1> QED  BY <1>1, <1>2, <1>3 DEF P!NodeInit, emptyConns

LEMMA NetStep ==
  ASSUME {"loss", "crash"} \subseteq Faults, LinkInv, [Next]_vars
  PROVE  [P!Next]_(P!nodeVars)
<1>1. CASE Next
  <2>1. PICK n \in Nodes :
          \/ Start(n) \/ Stop(n) \/ LogFails(n)
          \/ Accept(n) \/ Peek(n) \/ Read(n) \/ ReplyConnect(n) \/ ReplySend(n)
          \/ \E k \in Slots : \/ \E m \in Letters : Begin(n, k, m)
                              \/ CommandConnect(n, k) \/ CommandSend(n, k) \/ Kill(n, k)
    BY <1>1 DEF Next, Pass
  <2>2. CASE Start(n)  BY <2>2, StartIsStart DEF P!Next
  <2>3. CASE Stop(n) \/ LogFails(n)
    <3>1. P!StopListening(n)  BY <2>3, DownIsStop DEF Stop, LogFails
    <3> QED  BY <3>1 DEF P!Next
  <2>4. CASE Accept(n) \/ Peek(n)  BY <2>4, LoopStutters
  <2>5. CASE Read(n)  BY <2>5, ReadIs DEF P!Next
  <2>6. CASE ReplyConnect(n)  BY <2>6, ReplyConnectIs DEF P!Next
  <2>7. CASE ReplySend(n)  BY <2>7, ReplySendIs DEF P!Next
  <2>8. ASSUME NEW k \in Slots,
               \/ \E m \in Letters : Begin(n, k, m)
               \/ CommandConnect(n, k) \/ CommandSend(n, k) \/ Kill(n, k)
        PROVE  [P!Next]_(P!nodeVars)
    <3>1. \/ P!Begin(n, k) \/ P!CommandSend(n, k) \/ P!CommandExit(n, k)
          \/ UNCHANGED P!nodeVars
      BY <2>8, BeginIsBegin, CommandConnectIs, CommandSendIs, KillIsExit
    <3> QED  BY <3>1 DEF P!Next
  <2> QED  BY <2>1, <2>2, <2>3, <2>4, <2>5, <2>6, <2>7, <2>8
<1>2. CASE UNCHANGED vars
  BY <1>2, StillThere DEF vars, P!nodeVars
<1> QED  BY <1>1, <1>2

\* The calls on sockets implement the one step that send_parcel is, and the one in which
\* a listener takes a parcel, in the modules of the handshake and of the messages: for any
\* parcels, any length of a kernel's queue and any number of descriptors, if those modules
\* allow for a parcel that is lost (as one that finds a full queue is) and for a listener
\* that dies (as one does with no descriptor left for its log).
THEOREM CallsImplementNet ==
  ASSUME {"loss", "crash"} \subseteq Faults
  PROVE  Spec => ImplementsNet
<1>1. Init => P!NodeInit  BY NetInit
<1>2. Init => LinkInv  BY LinkInvInit
<1>3. LinkInv /\ [Next]_vars => LinkInv'  BY LinkInvNext
<1>4. LinkInv /\ [Next]_vars => [P!Next]_(P!nodeVars)  BY NetStep
<1> QED  BY <1>1, <1>2, <1>3, <1>4, PTL DEF Spec, ImplementsNet, P!Spec

=============================================================================
