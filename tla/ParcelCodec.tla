----------------------------- MODULE ParcelCodec -----------------------------
(***************************************************************************)
(* The bytes of the parcels (libap2p.c 9-28, utilap2p.h 52-70).  A parcel  *)
(* is a function on 0 .. length - 1, as in C.                              *)
(*                                                                         *)
(* Writer and reader of each kind are written apart and share only offsets *)
(* that each spells out for itself, so that they can disagree.  The other  *)
(* modules take a parcel for the record of its fields.                     *)
(***************************************************************************)
EXTENDS Integers, Sequences

Byte == 0 .. 255

\* d >> 8 and d << 8.
Right(d) == d \div 256
Left(d)  == d * 256

Right3(d) == Right(Right(Right(d)))
Right7(d) == Right3(Right3(Right(d)))

\* The values a field holds: an int or a long that is not negative.
Int32  == {d \in Nat : Right3(d) < 128}
Long64 == {d \in Nat : Right7(d) < 128}

-----------------------------------------------------------------------------
(* Numbers, the first byte the highest. *)

pack_int(d) == <<Right3(d) % 256, Right(Right(d)) % 256, Right(d) % 256, d % 256>>

pack_long(d) == pack_int(Right(Right3(d))) \o pack_int(d)

unpack_int(p, at) ==
  Left(Left(Left(p[at]) + p[at + 1]) + p[at + 2]) + p[at + 3]

\* The loop goes on from the first four bytes.
unpack_long(p, at) ==
  Left(Left(Left(Left(unpack_int(p, at)) + p[at + 4]) + p[at + 5]) + p[at + 6]) + p[at + 7]

-----------------------------------------------------------------------------
(* Texts, sequences of bytes other than 0. *)

Text == Seq(Byte \ {0})

\* Those that fit in len bytes with the 0 that ends them.
TextIn(len) == {s \in Text : Len(s) < len}

\* strncpy(dest, s, len): cut at len, or filled up with zeros.
strncpy(s, len) == [i \in 1 .. len |-> IF i <= Len(s) THEN s[i] ELSE 0]

\* The len bytes at `at` are copied and read as a C string, which is s.
ReadsText(p, at, len, s) ==
  /\ Len(s) < len
  /\ \A i \in 1 .. Len(s) : p[at + i - 1] = s[i]
  /\ p[at + Len(s)] = 0

\* No 0 is among the len bytes: the buffer they are copied to, of the same length, is no
\* C string, and strlen runs past its end.
Unended(p, at, len) == \A i \in 0 .. len - 1 : p[at + i] # 0

-----------------------------------------------------------------------------
(* Writers: the fields are put one after the other in a buffer. *)

Buffer(len, kind) == [i \in 0 .. len - 1 |-> IF i = 0 THEN kind ELSE 0]

\* The len bytes of field go to `at` and after.
Put(p, at, len, field) ==
  [i \in DOMAIN p |-> IF at <= i /\ i < at + len THEN field[i - at + 1] ELSE p[i]]

PutLong(p, at, d) == Put(p, at, 8, pack_long(d))
PutInt(p, at, d)  == Put(p, at, 4, pack_int(d))

ConnReq(peer_id, self_name, self_addr, self_port) ==
  LET p1 == PutLong(Buffer(93, 1), 1, peer_id)
      p2 == Put(p1, 9, 64, strncpy(self_name, 64))
      p3 == Put(p2, 73, 16, strncpy(self_addr, 16)) IN
  PutInt(p3, 89, self_port)

ConnAck(self_id) == PutLong(Buffer(9, 2), 1, self_id)
ConnRej(self_id) == PutLong(Buffer(9, 3), 1, self_id)

ConnAcc(self_id, peer_id, self_name) ==
  LET p1 == PutLong(Buffer(81, 4), 1, self_id)
      p2 == PutLong(p1, 9, peer_id) IN
  Put(p2, 17, 64, strncpy(self_name, 64))

MsgSend(self_id, shared_msg_id, time_sent, content_type, content) ==
  LET p1 == PutLong(Buffer(30 + Len(content), 10), 1, self_id)
      p2 == PutLong(p1, 9, shared_msg_id)
      p3 == PutLong(p2, 17, time_sent)
      p4 == PutInt([p3 EXCEPT ![25] = content_type], 26, Len(content)) IN
  Put(p4, 30, Len(content), content)

\* 30 + content_len bytes are sent, of a buffer of 25 + content_len with 25 set: what
\* follows byte 24 may be anything.
MsgRcv(self_id, shared_msg_id, time_recieved, content_len) ==
  LET p1 == PutLong(Buffer(25 + content_len, 11), 1, self_id)
      p2 == PutLong(p1, 9, shared_msg_id)
      p3 == PutLong(p2, 17, time_recieved) IN
  {p \in [0 .. 29 + content_len -> Byte] : \A i \in 0 .. 24 : p[i] = p3[i]}

-----------------------------------------------------------------------------
(* Readers: what each handler of ap2p_listen takes a parcel to say.  Ids    *)
(* are named from the writer's side, as above.                              *)

ReadsConnReq(p, peer_id, self_name, self_addr, self_port) ==
  /\ unpack_long(p, 1) = peer_id
  /\ ReadsText(p, 9, 64, self_name)
  /\ ReadsText(p, 73, 16, self_addr)
  /\ unpack_int(p, 89) = self_port

ReadsConnAck(p, self_id) == unpack_long(p, 1) = self_id
ReadsConnRej(p, self_id) == unpack_long(p, 1) = self_id

ReadsConnAcc(p, self_id, peer_id, self_name) ==
  /\ unpack_long(p, 1) = self_id
  /\ unpack_long(p, 9) = peer_id
  /\ ReadsText(p, 17, 64, self_name)

\* The header is read first, for the length of the rest.
ReadsMsgSend(p, self_id, shared_msg_id, time_sent, content_type, content) ==
  /\ unpack_long(p, 1) = self_id
  /\ unpack_long(p, 9) = shared_msg_id
  /\ unpack_long(p, 17) = time_sent
  /\ p[25] = content_type
  /\ unpack_int(p, 26) = Len(content)
  /\ \A i \in 1 .. Len(content) : p[29 + i] = content[i]

ReadsMsgRcv(p, self_id, shared_msg_id, time_recieved) ==
  /\ unpack_long(p, 1) = self_id
  /\ unpack_long(p, 9) = shared_msg_id
  /\ unpack_long(p, 17) = time_recieved

=============================================================================
