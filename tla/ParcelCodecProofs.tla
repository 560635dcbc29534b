-------------------------- MODULE ParcelCodecProofs --------------------------
(***************************************************************************)
(* What the writer of a parcel says is what its reader reads, for every    *)
(* value of its fields.                                                    *)
(***************************************************************************)
EXTENDS ParcelCodec, SequenceTheorems, TLAPS

-----------------------------------------------------------------------------
(* Numbers. *)

\* One shift to the right, and the byte it drops.
LEMMA RightNat ==
  ASSUME NEW d \in Nat
  PROVE  /\ Right(d) \in Nat
         /\ d % 256 \in Byte
         /\ d = Left(Right(d)) + (d % 256)
BY SMT DEF Right, Left, Byte

\* A shift to the left, and the byte it takes in.
LEMMA TakeIn ==
  ASSUME NEW d \in Nat, NEW hi, hi = Right(d), NEW lo, lo = d % 256
  PROVE  Left(hi) + lo = d
BY RightNat

\* A byte is its own remainder.
LEMMA ByteMod == ASSUME NEW d \in Nat, d < 256 PROVE d % 256 = d
BY SMT

\* pack_int writes four bytes.
LEMMA PackIntBytes ==
  ASSUME NEW d \in Nat
  PROVE  /\ pack_int(d) \in Seq(Byte)
         /\ Len(pack_int(d)) = 4
         /\ pack_int(d)[1] = Right3(d) % 256
         /\ pack_int(d)[2] = Right(Right(d)) % 256
         /\ pack_int(d)[3] = Right(d) % 256
         /\ pack_int(d)[4] = d % 256
<1>1. /\ Right(d) \in Nat /\ Right(Right(d)) \in Nat /\ Right3(d) \in Nat
  BY RightNat DEF Right3
<1>2. /\ d % 256 \in Byte /\ Right(d) % 256 \in Byte
      /\ Right(Right(d)) % 256 \in Byte /\ Right3(d) % 256 \in Byte
  BY <1>1, RightNat
<1> QED BY <1>2 DEF pack_int

\* Two sequences of four, one after the other.
LEMMA FourAndFour ==
  ASSUME NEW s \in Seq(Byte), NEW t \in Seq(Byte), Len(s) = 4, Len(t) = 4
  PROVE  /\ Len(s \o t) = 8
         /\ \A i \in 1 .. 4 : (s \o t)[i] = s[i] /\ (s \o t)[i + 4] = t[i]
<1>1. /\ Len(s \o t) = Len(s) + Len(t)
      /\ \A i \in 1 .. Len(s) + Len(t) :
           (s \o t)[i] = IF i <= Len(s) THEN s[i] ELSE t[i - Len(s)]
  BY ConcatProperties, Zenon
<1>2. Len(s \o t) = 8
  BY <1>1
<1>3. ASSUME NEW i \in 1 .. 4
      PROVE  (s \o t)[i] = s[i] /\ (s \o t)[i + 4] = t[i]
  BY <1>1
<1> QED BY <1>2, <1>3

\* pack_long writes the high half, then the low one.
LEMMA PackLongBytes ==
  ASSUME NEW d \in Nat
  PROVE  LET h == Right(Right3(d)) IN
         /\ h \in Nat
         /\ Len(pack_long(d)) = 8
         /\ \A i \in 1 .. 4 : /\ pack_long(d)[i] = pack_int(h)[i]
                              /\ pack_long(d)[i + 4] = pack_int(d)[i]
<1> DEFINE h == Right(Right3(d))
<1>1. h \in Nat
  BY RightNat DEF Right3
<1>2. /\ pack_int(h) \in Seq(Byte) /\ Len(pack_int(h)) = 4
      /\ pack_int(d) \in Seq(Byte) /\ Len(pack_int(d)) = 4
  BY <1>1, PackIntBytes
<1>3. pack_long(d) = pack_int(h) \o pack_int(d)
  BY DEF pack_long
<1> QED BY <1>1, <1>2, <1>3, FourAndFour

\* Reading back four bytes: of a number above 32 bits, the top byte is all that differs.
LEMMA UnpackPackInt ==
  ASSUME NEW d \in Int32, NEW p, NEW at \in Nat,
         \A i \in 1 .. 4 : p[at + i - 1] = pack_int(d)[i]
  PROVE  unpack_int(p, at) = d
<1>1. d \in Nat /\ Right(d) \in Nat /\ Right(Right(d)) \in Nat /\ Right3(d) \in Nat
  BY RightNat DEF Right3, Int32
<1>2. /\ p[at] = pack_int(d)[1] /\ p[at + 1] = pack_int(d)[2]
      /\ p[at + 2] = pack_int(d)[3] /\ p[at + 3] = pack_int(d)[4]
  <2>1. at + 1 - 1 = at /\ at + 2 - 1 = at + 1 /\ at + 3 - 1 = at + 2 /\ at + 4 - 1 = at + 3
    OBVIOUS
  <2> QED BY <2>1
<1>3. p[at] = Right3(d)
  <2>1. Right3(d) < 128
    BY DEF Int32
  <2>2. Right3(d) % 256 = Right3(d)
    BY <1>1, <2>1, ByteMod
  <2> QED BY <1>1, <1>2, <2>2, PackIntBytes
<1>4. /\ p[at + 1] = Right(Right(d)) % 256 /\ p[at + 2] = Right(d) % 256
      /\ p[at + 3] = d % 256 /\ Right3(d) = Right(Right(Right(d)))
  BY <1>1, <1>2, PackIntBytes DEF Right3
<1>5. Left(p[at]) + p[at + 1] = Right(Right(d))
  BY <1>1, <1>3, <1>4, TakeIn
<1>6. Left(Left(p[at]) + p[at + 1]) + p[at + 2] = Right(d)
  BY <1>1, <1>4, <1>5, TakeIn
<1>7. Left(Left(Left(p[at]) + p[at + 1]) + p[at + 2]) + p[at + 3] = d
  BY <1>1, <1>4, <1>6, TakeIn
<1> QED BY <1>7 DEF unpack_int

\* Reading back eight bytes, the high half first.
LEMMA UnpackPackLong ==
  ASSUME NEW d \in Long64, NEW p, NEW at \in Nat,
         \A i \in 1 .. 8 : p[at + i - 1] = pack_long(d)[i]
  PROVE  unpack_long(p, at) = d
<1> DEFINE h == Right(Right3(d))
<1>1. /\ d \in Nat /\ h \in Nat
      /\ Right(d) \in Nat /\ Right(Right(d)) \in Nat /\ Right3(d) \in Nat
  BY RightNat DEF Right3, Long64
<1>2. Right3(h) = Right7(d)
  BY DEF Right3, Right7
<1>3. h \in Int32
  BY <1>1, <1>2 DEF Long64, Int32
<1>4. \A i \in 1 .. 4 : pack_long(d)[i] = pack_int(h)[i] /\ pack_long(d)[i + 4] = pack_int(d)[i]
  BY <1>1, PackLongBytes
<1>5. \A i \in 1 .. 4 : p[at + i - 1] = pack_int(h)[i]
  BY <1>4
<1>6. unpack_int(p, at) = h
  BY <1>3, <1>5, UnpackPackInt
<1>7. /\ p[at + 4] = pack_int(d)[1] /\ p[at + 5] = pack_int(d)[2]
      /\ p[at + 6] = pack_int(d)[3] /\ p[at + 7] = pack_int(d)[4]
  <2>1. /\ at + 5 - 1 = at + 4 /\ at + 6 - 1 = at + 5 /\ at + 7 - 1 = at + 6
        /\ at + 8 - 1 = at + 7
    OBVIOUS
  <2>2. /\ p[at + 4] = pack_long(d)[1 + 4] /\ p[at + 5] = pack_long(d)[2 + 4]
        /\ p[at + 6] = pack_long(d)[3 + 4] /\ p[at + 7] = pack_long(d)[4 + 4]
    BY <2>1
  <2> QED BY <2>2, <1>4
<1>8. /\ p[at + 4] = Right3(d) % 256 /\ p[at + 5] = Right(Right(d)) % 256
      /\ p[at + 6] = Right(d) % 256 /\ p[at + 7] = d % 256
      /\ Right3(d) = Right(Right(Right(d)))
  BY <1>1, <1>7, PackIntBytes DEF Right3
<1>9. Left(unpack_int(p, at)) + p[at + 4] = Right3(d)
  BY <1>1, <1>6, <1>8, TakeIn
<1>10. Left(Left(unpack_int(p, at)) + p[at + 4]) + p[at + 5] = Right(Right(d))
  BY <1>1, <1>8, <1>9, TakeIn
<1>11. Left(Left(Left(unpack_int(p, at)) + p[at + 4]) + p[at + 5]) + p[at + 6] = Right(d)
  BY <1>1, <1>8, <1>10, TakeIn
<1>12. Left(Left(Left(Left(unpack_int(p, at)) + p[at + 4]) + p[at + 5]) + p[at + 6])
         + p[at + 7] = d
  BY <1>1, <1>8, <1>11, TakeIn
<1> QED BY <1>12 DEF unpack_long

-----------------------------------------------------------------------------
(* Texts. *)

\* A text with room for its end is read back as it was.
LEMMA TextIsRead ==
  ASSUME NEW len \in Nat, NEW s \in TextIn(len), NEW p, NEW at \in Nat,
         \A i \in 1 .. len : p[at + i - 1] = strncpy(s, len)[i]
  PROVE  ReadsText(p, at, len, s)
<1>1. Len(s) \in Nat /\ Len(s) < len
  BY DEF Text, TextIn
<1>2. \A i \in 1 .. Len(s) : p[at + i - 1] = s[i]
  BY <1>1 DEF strncpy
<1>3. p[at + Len(s)] = 0
  <2>1. Len(s) + 1 \in 1 .. len /\ at + (Len(s) + 1) - 1 = at + Len(s)
    BY <1>1
  <2>2. strncpy(s, len)[Len(s) + 1] = 0
    BY <1>1, <2>1 DEF strncpy
  <2> QED BY <2>1, <2>2
<1> QED BY <1>1, <1>2, <1>3 DEF ReadsText

\* strncpy fills a field with a text that has no room for its end, and ends it nowhere.
LEMMA LongTextHasNoEnd ==
  ASSUME NEW s \in Text, NEW len \in Nat, Len(s) >= len, NEW p, NEW at \in Nat,
         \A i \in 1 .. len : p[at + i - 1] = strncpy(s, len)[i]
  PROVE  Unended(p, at, len)
<1> SUFFICES ASSUME NEW i \in 0 .. len - 1 PROVE p[at + i] # 0
  BY DEF Unended
<1>1. i + 1 \in 1 .. len /\ at + (i + 1) - 1 = at + i /\ i + 1 \in 1 .. Len(s)
  BY DEF Text
<1>2. p[at + i] = s[i + 1]
  BY <1>1 DEF strncpy
<1>3. s[i + 1] # 0
  BY <1>1 DEF Text
<1> QED BY <1>2, <1>3

-----------------------------------------------------------------------------
(* Parcels. *)

\* Where the fields of a CONN_REQ are: none is overwritten by a later one.
LEMMA ConnReqFields ==
  ASSUME NEW peer_id, NEW self_name, NEW self_addr, NEW self_port,
         NEW p, p = ConnReq(peer_id, self_name, self_addr, self_port)
  PROVE  /\ \A i \in 1 .. 8  : p[1 + i - 1]  = pack_long(peer_id)[i]
         /\ \A i \in 1 .. 64 : p[9 + i - 1]  = strncpy(self_name, 64)[i]
         /\ \A i \in 1 .. 16 : p[73 + i - 1] = strncpy(self_addr, 16)[i]
         /\ \A i \in 1 .. 4  : p[89 + i - 1] = pack_int(self_port)[i]
<1>1. \A i \in 1 .. 8 : p[1 + i - 1] = pack_long(peer_id)[i]
  BY DEF ConnReq, Put, PutLong, PutInt, Buffer
<1>2. \A i \in 1 .. 64 : p[9 + i - 1] = strncpy(self_name, 64)[i]
  BY DEF ConnReq, Put, PutLong, PutInt, Buffer
<1>3. \A i \in 1 .. 16 : p[73 + i - 1] = strncpy(self_addr, 16)[i]
  BY DEF ConnReq, Put, PutLong, PutInt, Buffer
<1>4. \A i \in 1 .. 4 : p[89 + i - 1] = pack_int(self_port)[i]
  BY DEF ConnReq, Put, PutLong, PutInt, Buffer
<1> QED BY <1>1, <1>2, <1>3, <1>4

\* Where those of a CONN_ACC are.
LEMMA ConnAccFields ==
  ASSUME NEW self_id, NEW peer_id, NEW self_name,
         NEW p, p = ConnAcc(self_id, peer_id, self_name)
  PROVE  /\ \A i \in 1 .. 8  : p[1 + i - 1]  = pack_long(self_id)[i]
         /\ \A i \in 1 .. 8  : p[9 + i - 1]  = pack_long(peer_id)[i]
         /\ \A i \in 1 .. 64 : p[17 + i - 1] = strncpy(self_name, 64)[i]
<1>1. \A i \in 1 .. 8 : p[1 + i - 1] = pack_long(self_id)[i]
  BY DEF ConnAcc, Put, PutLong, PutInt, Buffer
<1>2. \A i \in 1 .. 8 : p[9 + i - 1] = pack_long(peer_id)[i]
  BY DEF ConnAcc, Put, PutLong, PutInt, Buffer
<1>3. \A i \in 1 .. 64 : p[17 + i - 1] = strncpy(self_name, 64)[i]
  BY DEF ConnAcc, Put, PutLong, PutInt, Buffer
<1> QED BY <1>1, <1>2, <1>3

\* What the listener reads of a CONN_REQ (740-755) is what ap2p_request_connection wrote
\* (410-415).
THEOREM ConnReqIsRead ==
  ASSUME NEW peer_id \in Long64, NEW self_name \in TextIn(64),
         NEW self_addr \in TextIn(16), NEW self_port \in Int32
  PROVE  ReadsConnReq(ConnReq(peer_id, self_name, self_addr, self_port),
                      peer_id, self_name, self_addr, self_port)
<1> DEFINE p == ConnReq(peer_id, self_name, self_addr, self_port)
<1>0. p = ConnReq(peer_id, self_name, self_addr, self_port)
  OBVIOUS
<1> HIDE DEF p
<1>1. /\ \A i \in 1 .. 8  : p[1 + i - 1]  = pack_long(peer_id)[i]
      /\ \A i \in 1 .. 64 : p[9 + i - 1]  = strncpy(self_name, 64)[i]
      /\ \A i \in 1 .. 16 : p[73 + i - 1] = strncpy(self_addr, 16)[i]
      /\ \A i \in 1 .. 4  : p[89 + i - 1] = pack_int(self_port)[i]
  BY <1>0, ConnReqFields
<1>2. unpack_long(p, 1) = peer_id
  BY <1>1, UnpackPackLong
<1>3. ReadsText(p, 9, 64, self_name)
  BY <1>1, TextIsRead
<1>4. ReadsText(p, 73, 16, self_addr)
  BY <1>1, TextIsRead
<1>5. unpack_int(p, 89) = self_port
  BY <1>1, UnpackPackInt
<1> QED BY <1>2, <1>3, <1>4, <1>5 DEF ReadsConnReq, p

\* CONN_ACK and CONN_REJ: written at 781-782 and 501-502, read at 796 and 822.
THEOREM ConnAckIsRead ==
  ASSUME NEW self_id \in Long64
  PROVE  /\ ReadsConnAck(ConnAck(self_id), self_id)
         /\ ReadsConnRej(ConnRej(self_id), self_id)
<1>1. \A i \in 1 .. 8 : ConnAck(self_id)[1 + i - 1] = pack_long(self_id)[i]
  BY DEF ConnAck, Put, PutLong, PutInt, Buffer
<1>2. \A i \in 1 .. 8 : ConnRej(self_id)[1 + i - 1] = pack_long(self_id)[i]
  BY DEF ConnRej, Put, PutLong, PutInt, Buffer
<1>3. unpack_long(ConnAck(self_id), 1) = self_id
  BY <1>1, UnpackPackLong
<1>4. unpack_long(ConnRej(self_id), 1) = self_id
  BY <1>2, UnpackPackLong
<1> QED BY <1>3, <1>4 DEF ReadsConnAck, ReadsConnRej

\* CONN_ACC: written at 539-542, its two ids in the order in which 848 and 851 read them.
THEOREM ConnAccIsRead ==
  ASSUME NEW self_id \in Long64, NEW peer_id \in Long64,
         NEW self_name \in TextIn(64)
  PROVE  ReadsConnAcc(ConnAcc(self_id, peer_id, self_name), self_id, peer_id, self_name)
<1> DEFINE p == ConnAcc(self_id, peer_id, self_name)
<1>0. p = ConnAcc(self_id, peer_id, self_name)
  OBVIOUS
<1> HIDE DEF p
<1>1. /\ \A i \in 1 .. 8  : p[1 + i - 1]  = pack_long(self_id)[i]
      /\ \A i \in 1 .. 8  : p[9 + i - 1]  = pack_long(peer_id)[i]
      /\ \A i \in 1 .. 64 : p[17 + i - 1] = strncpy(self_name, 64)[i]
  BY <1>0, ConnAccFields
<1>2. unpack_long(p, 1) = self_id
  BY <1>1, UnpackPackLong
<1>3. unpack_long(p, 9) = peer_id
  BY <1>1, UnpackPackLong
<1>4. ReadsText(p, 17, 64, self_name)
  BY <1>1, TextIsRead
<1> QED BY <1>2, <1>3, <1>4 DEF ReadsConnAcc, p

\* A self_name of 64 bytes or more has no end in the parcels that carry it: neither the
\* writers (412, 541) nor the readers, who copy the 64 bytes as they are (749, 854), put
\* one there, and what the readers then take for a string (769, 870) runs on.
THEOREM LongNameHasNoEnd ==
  ASSUME NEW self_name \in Text \ TextIn(64)
  PROVE  /\ \A peer_id, self_addr, self_port :
              Unended(ConnReq(peer_id, self_name, self_addr, self_port), 9, 64)
         /\ \A self_id, peer_id : Unended(ConnAcc(self_id, peer_id, self_name), 17, 64)
<1>0. self_name \in Text /\ Len(self_name) >= 64
  BY DEF Text, TextIn
<1>1. ASSUME NEW peer_id, NEW self_addr, NEW self_port
      PROVE  Unended(ConnReq(peer_id, self_name, self_addr, self_port), 9, 64)
  <2>1. PICK p : p = ConnReq(peer_id, self_name, self_addr, self_port)  OBVIOUS
  <2>2. \A i \in 1 .. 64 : p[9 + i - 1] = strncpy(self_name, 64)[i]
    BY <2>1, ConnReqFields
  <2>3. Unended(p, 9, 64)  BY <1>0, <2>2, LongTextHasNoEnd
  <2> QED  BY <2>1, <2>3
<1>2. ASSUME NEW self_id, NEW peer_id
      PROVE  Unended(ConnAcc(self_id, peer_id, self_name), 17, 64)
  <2>1. PICK p : p = ConnAcc(self_id, peer_id, self_name)  OBVIOUS
  <2>2. \A i \in 1 .. 64 : p[17 + i - 1] = strncpy(self_name, 64)[i]
    BY <2>1, ConnAccFields
  <2>3. Unended(p, 17, 64)  BY <1>0, <2>2, LongTextHasNoEnd
  <2> QED  BY <2>1, <2>3
<1> QED  BY <1>1, <1>2

\* MSG_SEND: written at 632-638, read at 893-897 and 942.
THEOREM MsgSendIsRead ==
  ASSUME NEW self_id \in Long64, NEW shared_msg_id \in Long64, NEW time_sent \in Long64,
         NEW content_type \in Byte, NEW content \in Seq(Byte), Len(content) \in Int32
  PROVE  ReadsMsgSend(MsgSend(self_id, shared_msg_id, time_sent, content_type, content),
                      self_id, shared_msg_id, time_sent, content_type, content)
<1> DEFINE p == MsgSend(self_id, shared_msg_id, time_sent, content_type, content)
           l == Len(content)
<1>0. l \in Nat
  OBVIOUS
<1>1. \A i \in 1 .. 8 : p[1 + i - 1] = pack_long(self_id)[i]
  BY <1>0 DEF MsgSend, Put, PutLong, PutInt, Buffer
<1>2. \A i \in 1 .. 8 : p[9 + i - 1] = pack_long(shared_msg_id)[i]
  BY <1>0 DEF MsgSend, Put, PutLong, PutInt, Buffer
<1>3. \A i \in 1 .. 8 : p[17 + i - 1] = pack_long(time_sent)[i]
  BY <1>0 DEF MsgSend, Put, PutLong, PutInt, Buffer
<1>4. p[25] = content_type
  BY <1>0 DEF MsgSend, Put, PutLong, PutInt, Buffer
<1>5. \A i \in 1 .. 4 : p[26 + i - 1] = pack_int(l)[i]
  BY <1>0 DEF MsgSend, Put, PutLong, PutInt, Buffer
<1>6. \A i \in 1 .. l : p[29 + i] = content[i]
  BY <1>0 DEF MsgSend, Put, PutLong, PutInt, Buffer
<1> HIDE DEF p
<1>7. /\ unpack_long(p, 1) = self_id
      /\ unpack_long(p, 9) = shared_msg_id
      /\ unpack_long(p, 17) = time_sent
  BY <1>1, <1>2, <1>3, UnpackPackLong
<1>8. unpack_int(p, 26) = l
  BY <1>5, UnpackPackInt
<1> QED BY <1>4, <1>6, <1>7, <1>8 DEF ReadsMsgSend, p

\* MSG_RCV: whatever is sent after its 25 bytes (990), what is read of it (1005-1007) is
\* what was written (985-988).
THEOREM MsgRcvIsRead ==
  ASSUME NEW self_id \in Long64, NEW shared_msg_id \in Long64, NEW time_recieved \in Long64,
         NEW content_len \in Nat,
         NEW p \in MsgRcv(self_id, shared_msg_id, time_recieved, content_len)
  PROVE  ReadsMsgRcv(p, self_id, shared_msg_id, time_recieved)
<1>1. \A i \in 1 .. 8 : p[1 + i - 1] = pack_long(self_id)[i]
  BY DEF MsgRcv, Put, PutLong, PutInt, Buffer
<1>2. \A i \in 1 .. 8 : p[9 + i - 1] = pack_long(shared_msg_id)[i]
  BY DEF MsgRcv, Put, PutLong, PutInt, Buffer
<1>3. \A i \in 1 .. 8 : p[17 + i - 1] = pack_long(time_recieved)[i]
  BY DEF MsgRcv, Put, PutLong, PutInt, Buffer
<1> QED BY <1>1, <1>2, <1>3, UnpackPackLong DEF ReadsMsgRcv

=============================================================================
