--------------------------- MODULE ReadBufferProofs ---------------------------
(***************************************************************************)
(* What holds of the read buffer for every length of header, trailer,      *)
(* packet and buffer, all messages with whatever flags in them, and every  *)
(* split of the stream.                                                    *)
(*                                                                         *)
(* The cursor stays inside the buffer because a packet is taken out only   *)
(* when its length is there; that nothing comes out twice or out of order  *)
(* rests on the position of the cursor, which never moves back in the      *)
(* stream; that all of a careful peer's packets come out rests on the      *)
(* cursor being at the start of one whenever SetBuffer looks: flags in     *)
(* payload stand at places the cursor never comes to.                      *)
(***************************************************************************)
EXTENDS ReadBuffer, TLAPS

Size(k) == PackedLen(packets[k].message)

(* The peer's packets lie one behind the other, and fill the stream.       *)
StreamInv ==
  /\ \A k \in DOMAIN packets :
       /\ packets[k].bytes \in 1..Size(k)
       /\ packets[k].start + packets[k].bytes <= streamed
       /\ careful => /\ packets[k].bytes = Size(k)
                     /\ Size(k) > HEADER_LEN + TRAILER_LEN
                     /\ Size(k) <= MaxPacketLen
  /\ \A i, j \in DOMAIN packets : i < j => packets[i].start + packets[i].bytes <= packets[j].start
  /\ \A i, j \in DOMAIN packets : j = i + 1 => packets[j].start = packets[i].start + packets[i].bytes
  /\ IF packets = <<>> THEN streamed = 0
     ELSE /\ packets[1].start = 0
          /\ streamed = packets[Len(packets)].start + packets[Len(packets)].bytes

(* What has come out lies before the cursor, and in order.                 *)
OrderInv ==
  /\ \A i \in DOMAIN extracted : extracted[i].from + extracted[i].size <= Position
  /\ InOrder

(* With a careful peer the cursor is always at the start of the packet     *)
(* that comes out next, and between two reads that packet is incomplete.   *)
NextOut == Len(extracted) + 1
CarefulInv ==
  careful =>
    /\ dropped = 0 /\ readPc \notin {"stuck", "crashed"}
    /\ \A i \in DOMAIN extracted : extracted[i] = ExtentOf(packets[i])
    /\ Len(extracted) <= Len(packets)
    /\ IF Len(extracted) = Len(packets) THEN Position = streamed
       ELSE Position = packets[NextOut].start
    /\ readPc \in {"idle", "read"} =>
         /\ cur = 0
         /\ filled > 0 => Len(extracted) < Len(packets) /\ Size(NextOut) > filled

Inv == BufferTypeOK /\ StreamInv /\ OrderInv /\ CarefulInv

------------------------------------------------------------------------------
(* A sequence, and one with an element more.                               *)
LEMMA Elements ==
  ASSUME NEW R, NEW s \in Seq(R)
  PROVE  Len(s) \in Nat /\ DOMAIN s = 1..Len(s) /\ \A k \in DOMAIN s : s[k] \in R
OBVIOUS

LEMMA Appended ==
  ASSUME NEW R, NEW s \in Seq(R), NEW e \in R
  PROVE  /\ Append(s, e) \in Seq(R)
         /\ Len(Append(s, e)) = Len(s) + 1
         /\ DOMAIN Append(s, e) = 1..(Len(s) + 1)
         /\ \A k \in DOMAIN s : Append(s, e)[k] = s[k]
         /\ Append(s, e)[Len(s) + 1] = e
OBVIOUS

LEMMA EmptyDomain ==
  ASSUME NEW R, NEW s \in Seq(R), Len(s) = 0
  PROVE  s = <<>>
OBVIOUS

(* The length of a packet is a number, and that of a whole one which fits. *)
LEMMA Sizes ==
  ASSUME NEW m \in Messages
  PROVE  /\ PackedLen(m) \in Nat \ {0} /\ PackedLen(m) >= HEADER_LEN + TRAILER_LEN
         /\ FitsPacket(m) => PackedLen(m) > HEADER_LEN + TRAILER_LEN /\ PackedLen(m) <= MaxPacketLen
BY LengthsAreValid, MessagesAreValid DEF PackedLen, FitsPacket

(* The variables as numbers.                                               *)
LEMMA Numbers ==
  ASSUME BufferTypeOK
  PROVE  /\ Len(packets) \in Nat /\ DOMAIN packets = 1..Len(packets)
         /\ Len(extracted) \in Nat /\ DOMAIN extracted = 1..Len(extracted)
         /\ \A k \in DOMAIN packets : /\ packets[k].start \in Nat
                                      /\ packets[k].bytes \in Nat
                                      /\ packets[k].message \in Messages
                                      /\ Size(k) \in Nat
         /\ \A i \in DOMAIN extracted : /\ extracted[i].from \in Int
                                        /\ extracted[i].size \in Nat
         /\ streamed \in Nat /\ received \in Nat /\ received <= streamed
         /\ filled \in Nat /\ filled <= BUFF_LEN /\ cur \in Nat /\ cur <= filled
         /\ Available \in Nat /\ Position \in Int
<1>1. \A k \in DOMAIN packets : packets[k] \in Packet
  BY Elements DEF BufferTypeOK
<1>2. \A k \in DOMAIN packets :
        packets[k].start \in Nat /\ packets[k].bytes \in Nat /\ packets[k].message \in Messages
  BY <1>1 DEF Packet
<1>3. \A k \in DOMAIN packets : Size(k) \in Nat
  BY <1>2, Sizes DEF Size
<1>4. filled \in Nat /\ cur \in Nat /\ cur <= filled /\ filled <= BUFF_LEN /\ received \in Nat /\ received <= streamed
  BY LengthsAreValid DEF BufferTypeOK
<1>5. Available \in Nat /\ Position \in Int
  BY <1>4 DEF Available, Position
<1>6. /\ Len(packets) \in Nat /\ DOMAIN packets = 1..Len(packets)
      /\ Len(extracted) \in Nat /\ DOMAIN extracted = 1..Len(extracted)
  BY Elements DEF BufferTypeOK
<1>7. \A i \in DOMAIN extracted : extracted[i] \in Extent
  BY Elements DEF BufferTypeOK
<1>8. \A i \in DOMAIN extracted : extracted[i].from \in Int /\ extracted[i].size \in Nat
  BY <1>7 DEF Extent
<1> QED
  BY <1>2, <1>3, <1>4, <1>5, <1>6, <1>8 DEF BufferTypeOK

(* What PeerSends does to the stream: one packet more, behind the others.  *)
LEMMA PeerSendsAppends ==
  ASSUME BufferTypeOK, NEW m \in Messages, PeerSends(m)
  PROVE  \E bytes \in 1..PackedLen(m) :
           /\ careful => bytes = PackedLen(m) /\ FitsPacket(m)
           /\ streamed' = streamed + bytes
           /\ Len(packets') = Len(packets) + 1
           /\ DOMAIN packets' = 1..(Len(packets) + 1)
           /\ \A k \in DOMAIN packets : packets'[k] = packets[k]
           /\ packets'[Len(packets) + 1] = [start |-> streamed, bytes |-> bytes, message |-> m]
           /\ packets' \in Seq(Packet)
           /\ UNCHANGED <<careful, readPc, received, filled, cur, extracted, dropped>>
<1>1. PackedLen(m) \in Nat \ {0}
  BY Sizes
<1>2. PICK bytes \in (IF careful THEN {PackedLen(m)} ELSE 1..PackedLen(m)) :
        /\ packets' = Append(packets, [start |-> streamed, bytes |-> bytes, message |-> m])
        /\ streamed' = streamed + bytes
  BY DEF PeerSends
<1>3. bytes \in 1..PackedLen(m)
  BY <1>1, <1>2 DEF BufferTypeOK
<1>4. [start |-> streamed, bytes |-> bytes, message |-> m] \in Packet
  BY <1>1, <1>3 DEF BufferTypeOK, Packet
<1>5. packets \in Seq(Packet)
  BY DEF BufferTypeOK
<1>6. /\ Len(packets') = Len(packets) + 1
      /\ DOMAIN packets' = 1..(Len(packets) + 1)
      /\ \A k \in DOMAIN packets : packets'[k] = packets[k]
      /\ packets'[Len(packets) + 1] = [start |-> streamed, bytes |-> bytes, message |-> m]
      /\ packets' \in Seq(Packet)
  BY <1>2, <1>4, <1>5, Appended
<1>7. careful => bytes = PackedLen(m) /\ FitsPacket(m)
  BY <1>2 DEF PeerSends
<1>8. UNCHANGED <<careful, readPc, received, filled, cur, extracted, dropped>>
  BY DEF PeerSends, window
<1> QED
  BY <1>1, <1>2, <1>3, <1>6, <1>7, <1>8

(* What is known of a length that is accepted: it is that of a packet with *)
(* data, and so much is in the buffer.                                     *)
LEMMA LengthIsNumber ==
  ASSUME BufferTypeOK, NEW l \in LengthsAt(Position)
  PROVE  /\ l \in Int
         /\ Plain => \E p \in Sent : Position = p.start /\ l = PackedLen(p.message)
<1>1. PICK k \in DOMAIN packets :
        /\ Position - packets[k].start \in DOMAIN Headers(packets[k].message)
        /\ l = Headers(packets[k].message)[Position - packets[k].start]
  BY DEF LengthsAt, Sent
<1> DEFINE m == packets[k].message
           place == Position - packets[k].start
<1>2. m \in Messages /\ packets[k].start \in Nat /\ Position \in Int
  BY Numbers
<1>3. DOMAIN Headers(m) = {0} \cup DOMAIN m.spells
  BY DEF Headers
<1>4. l = IF place = 0 THEN PackedLen(m) ELSE m.spells[place]
  BY <1>1 DEF Headers
<1>5. place # 0 => place \in DOMAIN m.spells
  BY <1>1, <1>3
<1>6. place # 0 => m.spells[place] \in Int
  BY <1>2, <1>5, MessagesAreValid
<1>7. l \in Int
  BY <1>2, <1>4, <1>6, Sizes
<1>8. ASSUME Plain PROVE Position = packets[k].start /\ l = PackedLen(m)
  <2>1. DOMAIN m.spells = {}
    BY <1>8 DEF Plain
  <2>2. place = 0
    BY <1>5, <2>1
  <2> QED
    BY <1>2, <1>4, <2>2
<1> QED
  BY <1>7, <1>8 DEF Sent

LEMMA AcceptedIsThere ==
  ASSUME BufferTypeOK, NEW l \in LengthsAt(Position), Accepts(l)
  PROVE  l \in Nat /\ l <= Available /\ l > HEADER_LEN + TRAILER_LEN
<1>1. l \in Int /\ Available \in Nat
  BY LengthIsNumber, Numbers
<1>2. ~(l > Available) /\ l - TRAILER_LEN > HEADER_LEN
  BY DEF Accepts, Verdict
<1> QED
  BY <1>1, <1>2, LengthsAreValid

(* The cursor and the data stay inside the buffer.                         *)
LEMMA TypeStep ==
  ASSUME Inv, [BufferNext]_bufferVars
  PROVE  BufferTypeOK'
<1> USE LengthsAreValid DEF Inv
<1>0. CASE UNCHANGED bufferVars
  BY <1>0 DEF bufferVars, stream, window, BufferTypeOK
<1>1. ASSUME NEW m \in Messages, PeerSends(m) PROVE BufferTypeOK'
  <2>1. PICK bytes \in 1..PackedLen(m) :
          /\ streamed' = streamed + bytes
          /\ packets' \in Seq(Packet)
          /\ UNCHANGED <<careful, readPc, received, filled, cur, extracted, dropped>>
    BY <1>1, PeerSendsAppends
  <2>2. streamed' \in Nat /\ received \in 0..streamed'
    BY <1>1, <2>1, Sizes DEF BufferTypeOK
  <2> QED
    BY <2>1, <2>2 DEF BufferTypeOK
<1>2. CASE ReadCalled
  BY <1>2 DEF ReadCalled, BufferTypeOK, stream, window
<1>3. CASE ReadSome
  BY <1>3 DEF ReadSome, BufferTypeOK, stream
<1>4. CASE WouldBlock \/ ReadEnds
  BY <1>4 DEF WouldBlock, ReadEnds, BufferTypeOK, stream, window
<1>5. CASE BufferFull
  BY <1>5 DEF BufferFull, Reset, Available, BufferTypeOK, stream
<1>6. CASE Extract
  <2>1. PICK l \in LengthsAt(Position) :
          /\ Accepts(l)
          /\ extracted' = Append(extracted, [from |-> Position, size |-> l])
          /\ cur' = cur + l
    BY <1>6 DEF Extract
  <2>2. l \in Nat /\ l <= Available
    BY <2>1, AcceptedIsThere
  <2>3. [from |-> Position, size |-> l] \in Extent
    BY <2>2, Numbers DEF Extent
  <2>4. cur' \in 0..filled
    BY <2>1, <2>2, Numbers DEF Available
  <2>5. extracted' \in Seq(Extent)
    BY <2>1, <2>3 DEF BufferTypeOK
  <2>6. UNCHANGED <<careful, readPc, packets, streamed, received, filled, dropped>>
    BY <1>6 DEF Extract, stream
  <2> QED
    BY <2>4, <2>5, <2>6 DEF BufferTypeOK
<1>9. CASE ExtractOversize \/ AccessOutside
  BY <1>9 DEF ExtractOversize, AccessOutside, BufferTypeOK, stream, window
<1>7. CASE NeedsMore
  BY <1>7 DEF NeedsMore, Adjust, BufferTypeOK, stream
<1>8. CASE Unrecognized
  BY <1>8 DEF Unrecognized, Reset, Available, BufferTypeOK, stream
<1> QED
  BY <1>0, <1>1, <1>2, <1>3, <1>4, <1>5, <1>6, <1>7, <1>8, <1>9 DEF BufferNext

(* Only the peer changes the stream, and only at its end.                  *)
LEMMA StreamStep ==
  ASSUME Inv, [BufferNext]_bufferVars
  PROVE  StreamInv'
<1>1. ASSUME UNCHANGED stream PROVE StreamInv'
  BY <1>1 DEF stream, Inv, StreamInv, Size
<1>2. ASSUME NEW m \in Messages, PeerSends(m) PROVE StreamInv'
  <2>1. PICK bytes \in 1..PackedLen(m) :
           /\ careful => bytes = PackedLen(m) /\ FitsPacket(m)
           /\ streamed' = streamed + bytes
           /\ Len(packets') = Len(packets) + 1
           /\ DOMAIN packets' = 1..(Len(packets) + 1)
           /\ \A k \in DOMAIN packets : packets'[k] = packets[k]
           /\ packets'[Len(packets) + 1] = [start |-> streamed, bytes |-> bytes, message |-> m]
           /\ UNCHANGED careful
    BY <1>2, PeerSendsAppends DEF Inv
  <2> DEFINE n == Len(packets)
  <2>2. /\ n \in Nat /\ DOMAIN packets = 1..n /\ streamed \in Nat /\ bytes \in Nat \ {0}
        /\ \A k \in 1..n : /\ packets[k].start \in Nat
                            /\ packets[k].bytes \in Nat
                            /\ Size(k) \in Nat
        /\ PackedLen(m) \in Nat
    BY Numbers, Sizes DEF Inv
  <2>3. packets'[n + 1].start = streamed /\ packets'[n + 1].bytes = bytes
        /\ packets'[n + 1].message = m
    BY <2>1
  <2>4. careful => PackedLen(m) > HEADER_LEN + TRAILER_LEN /\ PackedLen(m) <= MaxPacketLen
    BY <2>1, Sizes
  <2>5. \A k \in DOMAIN packets' :
          /\ packets'[k].bytes \in 1..Size(k)'
          /\ packets'[k].start + packets'[k].bytes <= streamed'
          /\ careful' => /\ packets'[k].bytes = Size(k)'
                         /\ Size(k)' > HEADER_LEN + TRAILER_LEN
                         /\ Size(k)' <= MaxPacketLen
    <3> SUFFICES ASSUME NEW k \in 1..(n + 1)
                 PROVE  /\ packets'[k].bytes \in 1..Size(k)'
                        /\ packets'[k].start + packets'[k].bytes <= streamed'
                        /\ careful' => /\ packets'[k].bytes = Size(k)'
                                       /\ Size(k)' > HEADER_LEN + TRAILER_LEN
                                       /\ Size(k)' <= MaxPacketLen
      BY <2>1
    <3>1. CASE k = n + 1
      <4>1. Size(k)' = PackedLen(m)
        BY <2>3, <3>1 DEF Size
      <4> QED
        BY <2>1, <2>2, <2>3, <2>4, <3>1, <4>1
    <3>2. CASE k # n + 1
      <4>1. k \in DOMAIN packets /\ packets'[k] = packets[k] /\ Size(k)' = Size(k)
        BY <2>1, <2>2, <3>2 DEF Size
      <4>2. packets[k].bytes \in 1..Size(k) /\ packets[k].start + packets[k].bytes <= streamed
        BY <4>1 DEF Inv, StreamInv
      <4>3. careful => /\ packets[k].bytes = Size(k)
                       /\ Size(k) > HEADER_LEN + TRAILER_LEN
                       /\ Size(k) <= MaxPacketLen
        BY <4>1 DEF Inv, StreamInv
      <4>4. packets'[k].start + packets'[k].bytes <= streamed'
        BY <2>1, <2>2, <4>1, <4>2
      <4> QED
        BY <2>1, <4>1, <4>2, <4>3, <4>4
    <3> QED
      BY <3>1, <3>2
  <2>6. ASSUME NEW i \in 1..(n + 1), NEW j \in 1..(n + 1), i < j
        PROVE  /\ packets'[i].start + packets'[i].bytes <= packets'[j].start
               /\ j = i + 1 => packets'[j].start = packets'[i].start + packets'[i].bytes
    <3>0. n \in Nat /\ DOMAIN packets = 1..n
      BY <2>2
    <3>1. i \in DOMAIN packets /\ packets'[i] = packets[i]
      <4>1. i \in DOMAIN packets
        BY <2>6, <3>0
      <4> QED
        BY <2>1, <4>1
    <3>2. CASE j = n + 1
      <4>1. packets[i].start + packets[i].bytes <= streamed
        BY <3>1 DEF Inv, StreamInv
      <4>2. j = i + 1 => streamed = packets[i].start + packets[i].bytes
        <5>1. j = i + 1 => i = n /\ packets # <<>>
          BY <2>2, <3>1, <3>2
        <5> QED
          BY <5>1 DEF Inv, StreamInv
      <4> QED
        BY <2>3, <3>1, <3>2, <4>1, <4>2
    <3>3. CASE j # n + 1
      <4>1. j \in DOMAIN packets /\ packets'[j] = packets[j]
        BY <2>1, <2>2, <3>3
      <4> QED
        BY <2>6, <3>1, <4>1 DEF Inv, StreamInv
    <3> QED
      BY <3>2, <3>3
  <2>7. packets' # <<>> /\ packets'[1].start = 0
    <3>1. CASE n = 0
      <4>1. packets = <<>> /\ streamed = 0
        BY <2>2, <3>1, EmptyDomain DEF BufferTypeOK, Inv, StreamInv
      <4>2. Len(packets') = 1 /\ n + 1 = 1
        BY <2>1, <3>1
      <4>3. packets'[1].start = 0
        BY <2>3, <4>1, <4>2
      <4>4. packets' # <<>>
        BY <4>2
      <4> QED
        BY <4>3, <4>4
    <3>2. CASE n > 0
      <4>1. packets # <<>> /\ 1 \in DOMAIN packets
        BY <2>2, <3>2
      <4> QED
        BY <2>1, <2>2, <3>2, <4>1 DEF Inv, StreamInv
    <3> QED
      BY <2>2, <3>1, <3>2
  <2>8. streamed' = packets'[Len(packets')].start + packets'[Len(packets')].bytes
    BY <2>1, <2>3
  <2>9. \A i, j \in DOMAIN packets' :
          /\ i < j => packets'[i].start + packets'[i].bytes <= packets'[j].start
          /\ j = i + 1 => packets'[j].start = packets'[i].start + packets'[i].bytes
    BY <2>1, <2>2, <2>6
  <2> QED
    BY <2>5, <2>7, <2>8, <2>9 DEF StreamInv
<1> QED
  BY <1>1, <1>2 DEF BufferNext, bufferVars, ReadCalled, ReadSome, WouldBlock, ReadEnds, BufferFull,
                    Extract, ExtractOversize, AccessOutside, NeedsMore, Unrecognized, Inv

(* What has come out stays before the cursor, and what comes out next lies *)
(* at the cursor: behind all of it.                                        *)
LEMMA OrderStep ==
  ASSUME Inv, [BufferNext]_bufferVars
  PROVE  OrderInv'
<1>n. /\ DOMAIN packets = 1..Len(packets) /\ Len(packets) \in Nat
      /\ DOMAIN extracted = 1..Len(extracted) /\ Len(extracted) \in Nat
      /\ \A i \in DOMAIN extracted : extracted[i].from \in Int /\ extracted[i].size \in Nat
      /\ Position \in Int /\ Available \in Nat
      /\ received \in Nat /\ filled \in Nat /\ cur \in Nat /\ cur <= filled /\ filled <= BUFF_LEN
  BY Numbers DEF Inv
<1>o. /\ \A i \in DOMAIN extracted : extracted[i].from + extracted[i].size <= Position
      /\ \A i, j \in DOMAIN extracted :
           i < j => extracted[i].from + extracted[i].size <= extracted[j].from
      /\ Plain => \A i \in DOMAIN extracted : \E p \in Sent : extracted[i] = ExtentOf(p)
  BY DEF Inv, OrderInv, InOrder
<1>1. ASSUME UNCHANGED <<packets, extracted>>, Position' \in Int, Position' >= Position
      PROVE  OrderInv'
  <2>1. (Plain' <=> Plain) /\ Sent' = Sent
    BY <1>1 DEF Plain, Sent
  <2> QED
    BY <1>1, <1>n, <1>o, <2>1 DEF OrderInv, InOrder, ExtentOf
<1>2. ASSUME NEW m \in Messages, PeerSends(m) PROVE OrderInv'
  <2>1. /\ DOMAIN packets' = 1..(Len(packets) + 1)
        /\ \A k \in DOMAIN packets : packets'[k] = packets[k]
        /\ UNCHANGED <<received, filled, cur, extracted>>
    BY <1>2, PeerSendsAppends DEF Inv
  <2>2. Position' = Position
    BY <2>1 DEF Position, Available
  <2>3. \A k \in DOMAIN packets : k \in DOMAIN packets'
    BY <1>n, <2>1
  <2>4. Sent \subseteq Sent'
    BY <2>1, <2>3 DEF Sent
  <2>5. Plain' => Plain
    BY <2>1, <2>3 DEF Plain
  <2> QED
    BY <1>o, <2>1, <2>2, <2>4, <2>5 DEF OrderInv, InOrder, ExtentOf
<1>3. CASE \/ ReadCalled \/ WouldBlock \/ ReadEnds \/ ExtractOversize \/ AccessOutside
           \/ UNCHANGED bufferVars
  <2>1. UNCHANGED <<packets, extracted, received, filled, cur>>
    BY <1>3 DEF ReadCalled, WouldBlock, ReadEnds, ExtractOversize, AccessOutside,
                bufferVars, stream, window
  <2>2. Position' = Position
    BY <2>1 DEF Position, Available
  <2> QED
    BY <1>1, <1>n, <2>1, <2>2
<1>4. CASE ReadSome
  <2>1. PICK d \in 1..(streamed - received) : received' = received + d /\ filled' = filled + d
    BY <1>4 DEF ReadSome
  <2>2. UNCHANGED <<packets, extracted, cur>>
    BY <1>4 DEF ReadSome, stream
  <2>3. Position' = Position
    BY <1>n, <2>1, <2>2 DEF Position, Available
  <2> QED
    BY <1>1, <1>n, <2>2, <2>3
<1>5. CASE BufferFull \/ Unrecognized
  <2>1. UNCHANGED <<packets, extracted, received>> /\ filled' = 0 /\ cur' = 0
    BY <1>5 DEF BufferFull, Unrecognized, Reset, stream
  <2>2. Position' \in Int /\ Position' >= Position
    BY <1>n, <2>1 DEF Position, Available
  <2> QED
    BY <1>1, <2>1, <2>2
<1>6. CASE NeedsMore
  <2>1. UNCHANGED <<packets, extracted, received>> /\ filled' = filled - cur /\ cur' = 0
    BY <1>6 DEF NeedsMore, Adjust, stream
  <2>2. Position' = Position
    BY <1>n, <2>1 DEF Position, Available
  <2> QED
    BY <1>1, <1>n, <2>1, <2>2
<1>7. CASE Extract
  <2>1. PICK l \in LengthsAt(Position) :
          /\ Accepts(l)
          /\ extracted' = Append(extracted, [from |-> Position, size |-> l])
          /\ cur' = cur + l
    BY <1>7 DEF Extract
  <2> DEFINE e == [from |-> Position, size |-> l]
             n == Len(extracted)
  <2>2. l \in Nat /\ l <= Available
    BY <2>1, AcceptedIsThere DEF Inv
  <2>3. UNCHANGED <<packets, received, filled>>
    BY <1>7 DEF Extract, stream
  <2>4. Position' = Position + l
    BY <1>n, <2>1, <2>2, <2>3 DEF Position, Available
  <2>5. extracted \in Seq(Extent) /\ e \in Extent
    BY <1>n, <2>2 DEF Inv, BufferTypeOK, Extent
  <2>6. /\ DOMAIN extracted' = 1..(n + 1)
        /\ \A i \in DOMAIN extracted : extracted'[i] = extracted[i]
        /\ extracted'[n + 1] = e
    BY <2>1, <2>5, Appended
  <2>7. \A i \in 1..(n + 1) : i # n + 1 => i \in DOMAIN extracted /\ extracted'[i] = extracted[i]
    BY <1>n, <2>6
  <2>8. ASSUME NEW i \in 1..(n + 1) PROVE extracted'[i].from + extracted'[i].size <= Position'
    <3>1. CASE i = n + 1
      BY <1>n, <2>2, <2>4, <2>6, <3>1
    <3>2. CASE i # n + 1
      <4>1. i \in DOMAIN extracted /\ extracted'[i] = extracted[i]
        BY <2>7, <3>2
      <4>2. /\ extracted[i].from \in Int /\ extracted[i].size \in Nat
            /\ extracted[i].from + extracted[i].size <= Position
        BY <1>n, <1>o, <4>1
      <4>3. Position \in Int /\ Position' = Position + l /\ l \in Nat
        BY <1>n, <2>2, <2>4
      <4> HIDE DEF Position
      <4> QED
        BY <4>1, <4>2, <4>3
    <3> QED
      BY <3>1, <3>2
  <2>9. ASSUME NEW i \in 1..(n + 1), NEW j \in 1..(n + 1), i < j
        PROVE  extracted'[i].from + extracted'[i].size <= extracted'[j].from
    <3>1. i # n + 1
      BY <1>n, <2>9
    <3>2. CASE j = n + 1
      BY <1>o, <2>6, <2>7, <3>1, <3>2
    <3>3. CASE j # n + 1
      BY <1>o, <2>7, <2>9, <3>1, <3>3
    <3> QED
      BY <3>2, <3>3
  <2>10. (Plain' <=> Plain) /\ Sent' = Sent
    BY <2>3 DEF Plain, Sent
  <2>11. ASSUME Plain, NEW i \in 1..(n + 1) PROVE \E p \in Sent : extracted'[i] = ExtentOf(p)
    <3>1. CASE i = n + 1
      <4>1. PICK p \in Sent : Position = p.start /\ l = PackedLen(p.message)
        BY <2>1, <2>11, LengthIsNumber DEF Inv
      <4> QED
        BY <2>6, <3>1, <4>1 DEF ExtentOf
    <3>2. CASE i # n + 1
      BY <1>o, <2>7, <2>11, <3>2
    <3> QED
      BY <3>1, <3>2
  <2> QED
    BY <2>6, <2>8, <2>9, <2>10, <2>11 DEF OrderInv, InOrder, ExtentOf
<1> QED
  BY <1>2, <1>3, <1>4, <1>5, <1>6, <1>7 DEF BufferNext

(* The initial state.                                                      *)
LEMMA InitHolds == BufferInit => Inv
<1> SUFFICES ASSUME BufferInit PROVE Inv
  OBVIOUS
<1>1. /\ packets = <<>> /\ extracted = <<>> /\ streamed = 0 /\ received = 0
      /\ filled = 0 /\ cur = 0 /\ dropped = 0 /\ readPc = "idle" /\ careful \in BOOLEAN
  BY DEF BufferInit
<1>2. /\ Len(packets) = 0 /\ DOMAIN packets = {} /\ packets \in Seq(Packet)
      /\ Len(extracted) = 0 /\ DOMAIN extracted = {} /\ extracted \in Seq(Extent)
  BY <1>1
<1>3. BufferTypeOK
  BY <1>1, <1>2, LengthsAreValid DEF BufferTypeOK
<1>4. StreamInv /\ OrderInv
  BY <1>1, <1>2 DEF StreamInv, OrderInv, InOrder
<1>5. CarefulInv
  BY <1>1, <1>2 DEF CarefulInv, Position, Available
<1> QED
  BY <1>3, <1>4, <1>5 DEF Inv

(* No two packets have a byte in common.                                   *)
LEMMA PacketsAreApart ==
  ASSUME BufferTypeOK, StreamInv, NEW i \in DOMAIN packets, NEW j \in DOMAIN packets, NEW q \in Int,
         packets[i].start <= q, q < packets[i].start + packets[i].bytes,
         packets[j].start <= q, q < packets[j].start + packets[j].bytes
  PROVE  i = j
<1>1. /\ packets[i].start \in Nat /\ packets[i].bytes \in Nat
      /\ packets[j].start \in Nat /\ packets[j].bytes \in Nat
      /\ i \in Nat /\ j \in Nat
  BY Numbers
<1>2. ~(i < j)
  BY <1>1 DEF StreamInv
<1>3. ~(j < i)
  BY <1>1 DEF StreamInv
<1> QED
  BY <1>1, <1>2, <1>3

(* From a careful peer: when bytes are left in the buffer, the packet that *)
(* comes out next starts at the cursor.                                    *)
LEMMA NextIsAtCursor ==
  ASSUME Inv, careful, Available > 0
  PROVE  /\ Len(extracted) < Len(packets)
         /\ NextOut \in DOMAIN packets
         /\ packets[NextOut].start = Position
         /\ packets[NextOut].bytes = Size(NextOut)
         /\ Size(NextOut) \in Nat
         /\ Size(NextOut) > HEADER_LEN + TRAILER_LEN
         /\ Size(NextOut) <= MaxPacketLen
<1>n. /\ DOMAIN packets = 1..Len(packets) /\ Len(packets) \in Nat /\ Len(extracted) \in Nat
      /\ \A k \in DOMAIN packets : Size(k) \in Nat
      /\ received \in Nat /\ streamed \in Nat /\ received <= streamed /\ Available \in Nat
  BY Numbers DEF Inv
<1>1. Position < streamed
  BY <1>n DEF Position
<1>2. Len(extracted) < Len(packets) /\ Position = packets[NextOut].start
  BY <1>n, <1>1 DEF Inv, CarefulInv
<1>3. NextOut \in DOMAIN packets
  BY <1>n, <1>2 DEF NextOut
<1>4. /\ packets[NextOut].bytes = Size(NextOut)
      /\ Size(NextOut) > HEADER_LEN + TRAILER_LEN
      /\ Size(NextOut) <= MaxPacketLen
  BY <1>3 DEF Inv, StreamInv
<1> QED
  BY <1>n, <1>2, <1>3, <1>4

(* Then the length SetBuffer reads is that of this packet, whatever flags  *)
(* stand elsewhere, and its end flag is where the length says.             *)
LEMMA NextIsSeen ==
  ASSUME Inv, careful, Available > 0
  PROVE  /\ LengthsAt(Position) = {Size(NextOut)}
         /\ EndFlagAt(Position + Size(NextOut) - TRAILER_LEN)
<1> DEFINE m == packets[NextOut].message
<1>1. /\ NextOut \in DOMAIN packets
      /\ packets[NextOut].start = Position
      /\ packets[NextOut].bytes = Size(NextOut)
      /\ Size(NextOut) \in Nat
      /\ Size(NextOut) > HEADER_LEN + TRAILER_LEN
  BY NextIsAtCursor
<1>n. /\ Position \in Int /\ HEADER_LEN \in Nat \ {0} /\ TRAILER_LEN \in Nat \ {0}
      /\ \A k \in DOMAIN packets : /\ packets[k].start \in Nat
                                   /\ packets[k].bytes \in Nat
                                   /\ packets[k].message \in Messages
  BY Numbers, LengthsAreValid DEF Inv
<1>2. Headers(m)[0] = Size(NextOut) /\ 0 \in DOMAIN Headers(m)
  BY DEF Headers, Size
<1>3. Position - packets[NextOut].start = 0
  BY <1>1, <1>n
<1>4. packets[NextOut] \in Sent
  BY <1>1 DEF Sent
<1>5. Size(NextOut) \in LengthsAt(Position)
  <2>1. Position - packets[NextOut].start + HEADER_LEN <= packets[NextOut].bytes
    BY <1>1, <1>3, <1>n
  <2> QED
    BY <1>2, <1>3, <1>4, <2>1 DEF LengthsAt
<1>6. ASSUME NEW l \in LengthsAt(Position) PROVE l = Size(NextOut)
  <2>1. PICK k \in DOMAIN packets :
          /\ Position - packets[k].start \in DOMAIN Headers(packets[k].message)
          /\ Position - packets[k].start + HEADER_LEN <= packets[k].bytes
          /\ l = Headers(packets[k].message)[Position - packets[k].start]
    BY DEF LengthsAt, Sent
  <2>2. Position - packets[k].start \in {0} \cup DOMAIN packets[k].message.spells
    BY <2>1 DEF Headers
  <2>3. DOMAIN packets[k].message.spells \subseteq
          1..(PackedLen(packets[k].message) - HEADER_LEN - TRAILER_LEN)
    BY <1>n, MessagesAreValid
  <2>4. Position - packets[k].start >= 0
    BY <2>2, <2>3, <1>n
  <2>5. packets[k].start <= Position /\ Position < packets[k].start + packets[k].bytes
    BY <1>n, <2>1, <2>4
  <2>6. k = NextOut
    BY <1>1, <1>n, <2>5, PacketsAreApart DEF Inv
  <2> QED
    BY <1>2, <1>3, <2>1, <2>6
<1>7. LengthsAt(Position) = {Size(NextOut)}
  BY <1>5, <1>6
<1>8. EndFlagAt(Position + Size(NextOut) - TRAILER_LEN)
  <2> DEFINE q == Position + Size(NextOut) - TRAILER_LEN
  <2>1. q - packets[NextOut].start = Size(NextOut) - TRAILER_LEN
    BY <1>1, <1>n
  <2>2. Size(NextOut) - TRAILER_LEN \in EndFlags(m)
    BY DEF EndFlags, Size
  <2>3. q - packets[NextOut].start + TRAILER_LEN <= packets[NextOut].bytes
    BY <1>1, <1>n, <2>1
  <2>4. q - packets[NextOut].start \in EndFlags(packets[NextOut].message)
    BY <2>1, <2>2
  <2> HIDE DEF q
  <2>5. EndFlagAt(q)
    BY <1>4, <2>3, <2>4 DEF EndFlagAt
  <2> QED
    BY <2>5 DEF q
<1> QED
  BY <1>7, <1>8

(* So SetBuffer never rejects what is at the cursor, wants more only while *)
(* the packet is incomplete, and looks for no end flag in front of m_Buff. *)
LEMMA CarefulSetBuffer ==
  ASSUME Inv, careful, Available > 0
  PROVE  /\ Available >= HEADER_LEN => -1 \notin SetBuffer
         /\ Available < HEADER_LEN \/ 0 \in SetBuffer => Size(NextOut) > Available
         /\ \A place \in EndFlagPlaces : place >= 0
<1>1. /\ Size(NextOut) \in Nat
      /\ Size(NextOut) > HEADER_LEN + TRAILER_LEN
  BY NextIsAtCursor
<1>n. Available \in Nat /\ HEADER_LEN \in Nat /\ TRAILER_LEN \in Nat /\ cur \in Nat
  BY Numbers, LengthsAreValid DEF Inv
<1>2. Verdict(Size(NextOut)) = IF Size(NextOut) > Available THEN 0 ELSE 1
  BY <1>1, <1>n, NextIsSeen DEF Verdict
<1>3. SetBuffer = IF TooShort \/ Size(NextOut) > Available THEN {0} ELSE {1}
  BY <1>2, NextIsSeen DEF SetBuffer
<1>4. TooShort => Size(NextOut) > Available
  BY <1>1, <1>n DEF TooShort
<1>5. Available < HEADER_LEN => Size(NextOut) > Available
  BY <1>1, <1>n
<1>6. \A place \in EndFlagPlaces : place = cur + Size(NextOut) - TRAILER_LEN
  BY NextIsSeen DEF EndFlagPlaces
<1> QED
  BY <1>1, <1>3, <1>4, <1>5, <1>6, <1>n

(* The argument for careful peers: packets come out one after the other,   *)
(* nothing is thrown away, and what is left is an incomplete packet.       *)
LEMMA CarefulStep ==
  ASSUME Inv, [BufferNext]_bufferVars
  PROVE  CarefulInv'
<1> SUFFICES ASSUME careful' PROVE CarefulInv'
  BY DEF CarefulInv
<1>c. careful /\ UNCHANGED careful
  BY DEF BufferNext, bufferVars, stream, ReadCalled, ReadSome, WouldBlock, ReadEnds, BufferFull,
         Extract, ExtractOversize, AccessOutside, NeedsMore, Unrecognized, PeerSends
<1>n. /\ DOMAIN packets = 1..Len(packets) /\ Len(packets) \in Nat
      /\ DOMAIN extracted = 1..Len(extracted) /\ Len(extracted) \in Nat
      /\ \A k \in DOMAIN packets : /\ packets[k].start \in Nat
                                   /\ Size(k) \in Nat
                                   /\ packets[k].bytes \in Nat
      /\ Position \in Int /\ Available \in Nat /\ NextOut \in Nat
      /\ streamed \in Nat
      /\ received \in Nat /\ filled \in Nat /\ cur \in Nat /\ cur <= filled /\ filled <= BUFF_LEN
  BY Numbers DEF Inv, NextOut
<1>i. /\ dropped = 0 /\ readPc \notin {"stuck", "crashed"}
      /\ \A i \in DOMAIN extracted : extracted[i] = ExtentOf(packets[i])
      /\ Len(extracted) <= Len(packets)
      /\ Len(extracted) = Len(packets) => Position = streamed
      /\ Len(extracted) # Len(packets) => Position = packets[NextOut].start
      /\ readPc \in {"idle", "read"} =>
           /\ cur = 0
           /\ filled > 0 => Len(extracted) < Len(packets) /\ Size(NextOut) > filled
  BY <1>c DEF Inv, CarefulInv
<1>l. Len(extracted) \in Nat /\ Len(packets) \in Nat /\ Len(extracted) <= Len(packets)
  <2>1. Len(extracted) <= Len(packets)
    BY <1>c DEF Inv, CarefulInv
  <2>2. Len(extracted) \in Nat /\ Len(packets) \in Nat
    BY Numbers DEF Inv
  <2> QED
    BY <2>1, <2>2
<1>m. Len(extracted) # Len(packets) => NextOut \in DOMAIN packets
  <2>1. DOMAIN packets = 1..Len(packets)
    BY <1>n
  <2> QED
    BY <1>l, <2>1 DEF NextOut
<1>1. ASSUME NEW m \in Messages, PeerSends(m) PROVE CarefulInv'
  <2>1. PICK bytes \in 1..PackedLen(m) :
          /\ streamed' = streamed + bytes
          /\ Len(packets') = Len(packets) + 1
          /\ \A k \in DOMAIN packets : packets'[k] = packets[k]
          /\ packets'[Len(packets) + 1] = [start |-> streamed, bytes |-> bytes, message |-> m]
          /\ readPc' = readPc /\ received' = received /\ filled' = filled /\ cur' = cur
          /\ extracted' = extracted /\ dropped' = dropped
    BY <1>1, PeerSendsAppends DEF Inv
  <2>2. Position' = Position /\ NextOut' = NextOut
    BY <2>1 DEF Position, Available, NextOut
  <2>3. packets'[Len(packets) + 1].start = streamed
    BY <2>1
  <2>4. Len(extracted') # Len(packets') /\ Len(extracted') <= Len(packets')
    <3>1. Len(extracted') = Len(extracted) /\ Len(packets') = Len(packets) + 1
      BY <2>1
    <3> QED
      BY <1>l, <3>1
  <2>7. \A i \in DOMAIN extracted' : extracted'[i] = ExtentOf(packets'[i])
    <3>1. \A i \in DOMAIN extracted : i \in DOMAIN packets
      BY <1>n, <1>l
    <3> QED
      BY <1>i, <2>1, <3>1
  <2>5. CASE Len(extracted) = Len(packets)
    <3>1. Position' = packets'[NextOut'].start
      BY <1>i, <2>2, <2>3, <2>5 DEF NextOut
    <3>2. readPc' \in {"idle", "read"} => cur' = 0 /\ ~(filled' > 0)
      BY <1>i, <1>n, <2>1, <2>5
    <3> QED
      BY <1>i, <2>1, <2>4, <2>7, <3>1, <3>2 DEF CarefulInv
  <2>6. CASE Len(extracted) # Len(packets)
    <3>1. NextOut \in DOMAIN packets
      BY <1>m, <2>6
    <3>2. packets'[NextOut'] = packets[NextOut] /\ Size(NextOut)' = Size(NextOut)
      BY <2>1, <2>2, <3>1 DEF Size
    <3>3. Position' = packets'[NextOut'].start
      BY <1>i, <2>2, <2>6, <3>2
    <3>4. readPc' \in {"idle", "read"} =>
            cur' = 0 /\ (filled' > 0 => Len(extracted') < Len(packets') /\ Size(NextOut)' > filled')
      <4>1. Len(extracted) < Len(packets) + 1
        BY <1>l
      <4>2. Len(extracted') < Len(packets')
        BY <2>1, <4>1
      <4> QED
        BY <1>i, <2>1, <3>2, <4>2
    <3> QED
      BY <1>i, <2>1, <2>4, <2>7, <3>3, <3>4 DEF CarefulInv
  <2> QED
    BY <2>5, <2>6
<1>2. CASE ReadCalled \/ WouldBlock \/ ReadEnds \/ UNCHANGED bufferVars
  <2>1. UNCHANGED <<packets, streamed, extracted, dropped, received, filled, cur>>
    BY <1>2 DEF ReadCalled, WouldBlock, ReadEnds, bufferVars, stream, window
  <2>2. Position' = Position /\ NextOut' = NextOut /\ Size(NextOut)' = Size(NextOut)
    BY <2>1 DEF Position, Available, NextOut, Size
  <2>3. /\ readPc' \in {"idle", "read"} => readPc \in {"idle", "read"}
        /\ readPc' \notin {"stuck", "crashed"}
    BY <1>2, <1>i DEF ReadCalled, WouldBlock, ReadEnds, bufferVars
  <2> QED
    BY <1>i, <2>1, <2>2, <2>3 DEF CarefulInv
<1>3. CASE ReadSome
  <2>1. PICK d \in 1..(streamed - received) : received' = received + d /\ filled' = filled + d
    BY <1>3 DEF ReadSome
  <2>2. UNCHANGED <<packets, streamed, extracted, dropped, cur>> /\ readPc' = "parse"
    BY <1>3 DEF ReadSome, stream
  <2>3. Position' = Position /\ NextOut' = NextOut
    BY <1>n, <2>1, <2>2 DEF Position, Available, NextOut
  <2> QED
    BY <1>i, <2>2, <2>3 DEF CarefulInv
<1>4. ASSUME BufferFull PROVE FALSE
  <2>1. readPc = "read" /\ filled = BUFF_LEN
    BY <1>4 DEF BufferFull
  <2>2. BUFF_LEN > 0
    BY LengthsAreValid
  <2>3. cur = 0 /\ Size(NextOut) > filled
    BY <1>i, <2>1, <2>2
  <2>4. Available > 0
    BY <1>n, <2>1, <2>2, <2>3 DEF Available
  <2>5. Size(NextOut) <= MaxPacketLen /\ Size(NextOut) \in Nat
    BY <1>c, <2>4, NextIsAtCursor
  <2> QED
    BY <1>n, <2>1, <2>3, <2>5, LengthsAreValid
<1>5. ASSUME Unrecognized PROVE FALSE
  <2>1. Available >= HEADER_LEN /\ -1 \in SetBuffer
    BY <1>5 DEF Unrecognized
  <2>2. Available > 0
    BY <1>n, <2>1, LengthsAreValid
  <2> QED
    BY <1>c, <2>1, <2>2, CarefulSetBuffer
<1>6. CASE NeedsMore
  <2>1. /\ UNCHANGED <<packets, streamed, extracted, dropped, received>>
        /\ filled' = Available /\ cur' = 0 /\ readPc' = "read"
    BY <1>6 DEF NeedsMore, Adjust, Available, stream
  <2>2. Position' = Position /\ NextOut' = NextOut /\ Size(NextOut)' = Size(NextOut)
    BY <1>n, <2>1 DEF Position, Available, NextOut, Size
  <2>3. filled' > 0 => Len(extracted) < Len(packets) /\ Size(NextOut) > Available
    BY <1>6, <1>c, <2>1, NextIsAtCursor, CarefulSetBuffer DEF NeedsMore
  <2> QED
    BY <1>i, <2>1, <2>2, <2>3 DEF CarefulInv
<1>7. ASSUME NEW l \in LengthsAt(Position), Accepts(l)
      PROVE  /\ Available > 0 /\ l = Size(NextOut) /\ l <= MaxPacketLen
             /\ NextOut \in DOMAIN packets /\ Len(extracted) < Len(packets)
             /\ packets[NextOut].start = Position
             /\ packets[NextOut].bytes = l
  <2>1. l \in Nat /\ l <= Available /\ l > HEADER_LEN + TRAILER_LEN
    BY <1>7, AcceptedIsThere DEF Inv
  <2>2. Available > 0
    BY <1>n, <2>1, LengthsAreValid
  <2>3. l = Size(NextOut)
    BY <1>c, <2>2, NextIsSeen
  <2> QED
    BY <1>c, <2>2, <2>3, NextIsAtCursor
<1>8. ASSUME ExtractOversize PROVE FALSE
  <2>1. PICK l \in LengthsAt(Position) : Accepts(l) /\ l > MaxPacketLen
    BY <1>8 DEF ExtractOversize
  <2>2. l <= MaxPacketLen /\ l \in Int
    BY <1>7, <2>1, LengthIsNumber DEF Inv
  <2> QED
    BY <2>1, <2>2, LengthsAreValid
<1>9. ASSUME AccessOutside PROVE FALSE
  <2>1. ~TooShort /\ \E place \in EndFlagPlaces : place < 0
    BY <1>9 DEF AccessOutside
  <2>2. Available > 0
    BY <1>n, <2>1, LengthsAreValid DEF TooShort
  <2>3. \A place \in EndFlagPlaces : place >= 0
    BY <1>c, <2>2, CarefulSetBuffer
  <2>4. \A place \in EndFlagPlaces : place \in Int
    BY <1>n, LengthIsNumber, LengthsAreValid DEF EndFlagPlaces, Inv
  <2> QED
    BY <2>1, <2>3, <2>4
<1>10. CASE Extract
  <2>1. PICK l \in LengthsAt(Position) :
          /\ Accepts(l)
          /\ extracted' = Append(extracted, [from |-> Position, size |-> l])
          /\ cur' = cur + l
    BY <1>10 DEF Extract
  <2> DEFINE k == NextOut
             e == [from |-> Position, size |-> l]
  <2>2. /\ l = Size(k) /\ k \in DOMAIN packets /\ Len(extracted) < Len(packets)
        /\ packets[k].start = Position /\ packets[k].bytes = l
    BY <1>7, <2>1
  <2>3. e = ExtentOf(packets[k])
    BY <2>2 DEF ExtentOf, Size
  <2>4. UNCHANGED <<packets, streamed, received, filled, dropped>> /\ readPc' = "parse"
    BY <1>10 DEF Extract, stream
  <2>5. l \in Nat
    BY <2>1, AcceptedIsThere DEF Inv
  <2>6. Position' = packets[k].start + packets[k].bytes
    BY <1>n, <2>1, <2>2, <2>4, <2>5 DEF Position, Available
  <2>7. extracted \in Seq(Extent) /\ e \in Extent
    BY <1>n, <2>5 DEF Inv, BufferTypeOK, Extent
  <2>8. /\ Len(extracted') = k
        /\ \A i \in DOMAIN extracted' : extracted'[i] = ExtentOf(packets'[i])
    <3>1. /\ Len(extracted') = Len(extracted) + 1
          /\ DOMAIN extracted' = 1..(Len(extracted) + 1)
          /\ \A i \in DOMAIN extracted : extracted'[i] = extracted[i]
          /\ extracted'[Len(extracted) + 1] = e
      BY <2>1, <2>7, Appended
    <3>2. k = Len(extracted) + 1
      BY DEF NextOut
    <3>3. ASSUME NEW i \in 1..k PROVE extracted'[i] = ExtentOf(packets'[i])
      <4>1. CASE i = k
        BY <2>3, <2>4, <3>1, <3>2, <4>1
      <4>2. CASE i # k
        <5>1. i \in DOMAIN extracted
          BY <1>n, <3>2, <4>2
        <5> QED
          BY <1>i, <2>4, <3>1, <5>1
      <4> QED
        BY <4>1, <4>2
    <3> QED
      BY <3>1, <3>2, <3>3
  <2>9. Len(extracted') <= Len(packets') /\ NextOut' = k + 1
    BY <1>n, <2>2, <2>4, <2>8 DEF NextOut
  <2>10. CASE k = Len(packets)
    <3>1. packets # <<>>
      BY <1>n, <2>2
    <3>2. streamed = packets[k].start + packets[k].bytes
      BY <2>10, <3>1 DEF Inv, StreamInv
    <3>3. Position' = streamed'
      BY <2>4, <2>6, <3>2
    <3> QED
      BY <1>i, <2>4, <2>8, <2>9, <2>10, <3>3 DEF CarefulInv
  <2>11. CASE k # Len(packets)
    <3>1. k + 1 \in DOMAIN packets
      BY <1>n, <2>2, <2>11
    <3>2. packets[k + 1].start = packets[k].start + packets[k].bytes
      BY <2>2, <3>1 DEF Inv, StreamInv
    <3>3. Position' = packets'[NextOut'].start
      BY <2>4, <2>6, <2>9, <3>2
    <3> QED
      BY <1>i, <2>4, <2>8, <2>9, <2>11, <3>3 DEF CarefulInv
  <2> HIDE DEF k
  <2> QED
    BY <2>10, <2>11
<1> QED
  BY <1>1, <1>2, <1>3, <1>4, <1>5, <1>6, <1>8, <1>9, <1>10 DEF BufferNext

------------------------------------------------------------------------------
(* The invariant the theorems below rest on.                               *)
THEOREM InvHolds == BufferSpec => []Inv
<1>1. Inv /\ [BufferNext]_bufferVars => Inv'
  BY TypeStep, StreamStep, OrderStep, CarefulStep DEF Inv
<1> QED
  BY <1>1, InitHolds, PTL DEF BufferSpec

(* The cursor stays within the data, and the data within m_Buff, whatever  *)
(* the peer sends and read() returns.                                      *)
THEOREM CursorStaysInside == BufferSpec => []BufferTypeOK
<1>1. Inv => BufferTypeOK
  BY DEF Inv
<1> QED
  BY <1>1, InvHolds, PTL

(* SetBuffer looks for an end flag only in data that is in m_Buff, also    *)
(* behind packets that were cut, while no payload looks like a start flag. *)
THEOREM EndFlagIsLookedForInside == BufferSpec => []AccessInside
<1>1. Inv => AccessInside
  <2> SUFFICES ASSUME Inv, Plain, NEW place \in EndFlagPlaces
               PROVE  place >= 0 /\ place + TRAILER_LEN <= filled
    BY DEF AccessInside
  <2>1. PICK l \in LengthsAt(Position) : l <= Available /\ place = cur + l - TRAILER_LEN
    BY DEF EndFlagPlaces
  <2>2. PICK p \in Sent : l = PackedLen(p.message)
    BY <2>1, LengthIsNumber DEF Inv
  <2>3. p.message \in Messages
    BY Numbers DEF Sent, Inv
  <2>4. l \in Nat /\ l >= HEADER_LEN + TRAILER_LEN
    BY <2>2, <2>3, Sizes
  <2>5. cur \in Nat /\ filled \in Nat
    BY Numbers DEF Inv
  <2> QED
    BY <2>1, <2>4, <2>5, LengthsAreValid DEF Available
<1> QED
  BY <1>1, InvHolds, PTL

(* Nothing comes out twice or before what lies in front of it, and without *)
(* start flags in payload whatever comes out has the place and the length  *)
(* of a packet of the peer: also when packets were cut short or dropped.   *)
(* (That its bytes are all of that packet is not so: OnlyWholePackets.)    *)
THEOREM AlwaysInOrder == BufferSpec => []InOrder
<1>1. Inv => InOrder
  BY DEF Inv, OrderInv
<1> QED
  BY <1>1, InvHolds, PTL

(* From a careful peer no byte is dropped, no packet skipped or mistaken,  *)
(* and Read neither loops nor reads outside, whatever its payload holds.   *)
THEOREM NothingIsLost == BufferSpec => []NothingLost
<1>1. Inv => NothingLost
  <2> SUFFICES ASSUME Inv, careful PROVE NothingLost
    BY DEF NothingLost
  <2>1. /\ dropped = 0 /\ readPc \notin {"stuck", "crashed"}
        /\ \A i \in DOMAIN extracted : extracted[i] = ExtentOf(packets[i])
        /\ Len(extracted) <= Len(packets)
    BY DEF Inv, CarefulInv
  <2>2. \A i \in DOMAIN extracted : i \in DOMAIN packets
    BY <2>1, Numbers DEF Inv
  <2> QED
    BY <2>1, <2>2 DEF NothingLost
<1> QED
  BY <1>1, InvHolds, PTL

(* From a careful peer the buffer is never full of an incomplete packet:   *)
(* Read always has room to read into.                                      *)
THEOREM RoomToRead == BufferSpec => []NeverFull
<1>1. Inv => NeverFull
  <2> SUFFICES ASSUME Inv, careful, readPc = "read" PROVE filled < BUFF_LEN
    BY DEF NeverFull
  <2>1. filled \in Nat /\ filled <= BUFF_LEN /\ cur = 0 /\ Available = filled - cur
    BY Numbers DEF Inv, CarefulInv, Available
  <2>2. CASE filled = 0
    BY <2>2, LengthsAreValid
  <2>3. CASE filled > 0
    <3>1. Size(NextOut) > filled
      BY <2>3 DEF Inv, CarefulInv
    <3>2. Size(NextOut) \in Nat /\ Size(NextOut) <= MaxPacketLen
      BY <2>1, <2>3, NextIsAtCursor
    <3> QED
      BY <2>1, <3>1, <3>2, LengthsAreValid
  <2> QED
    BY <2>1, <2>2, <2>3
<1> QED
  BY <1>1, InvHolds, PTL

(* From a careful peer every packet is out when Read has returned with the *)
(* stream read to its end.                                                 *)
THEOREM NothingWithheld == BufferSpec => []NoneWithheld
<1>1. Inv => NoneWithheld
  <2> SUFFICES ASSUME Inv, careful, readPc = "idle", received = streamed
               PROVE  Len(extracted) = Len(packets)
    BY DEF NoneWithheld
  <2>n. /\ DOMAIN packets = 1..Len(packets) /\ Len(packets) \in Nat /\ Len(extracted) \in Nat
        /\ \A k \in DOMAIN packets : /\ packets[k].start \in Nat
                                     /\ Size(k) \in Nat
                                     /\ packets[k].bytes \in Nat
        /\ filled \in Nat /\ received \in Nat /\ streamed \in Nat
    BY Numbers DEF Inv
  <2>1. cur = 0 /\ Len(extracted) <= Len(packets)
    BY DEF Inv, CarefulInv
  <2>2. Position = streamed - filled
    BY <2>n, <2>1 DEF Position, Available
  <2>3. ASSUME Len(extracted) # Len(packets) PROVE FALSE
    <3>1. NextOut \in DOMAIN packets
      BY <2>n, <2>1, <2>3 DEF NextOut
    <3>2. packets[NextOut].start = streamed - filled
      BY <2>2, <2>3 DEF Inv, CarefulInv
    <3>3. packets[NextOut].start + Size(NextOut) <= streamed /\ Size(NextOut) > 0
      BY <2>n, <3>1 DEF Inv, StreamInv
    <3>4. filled > 0 => Size(NextOut) > filled
      BY DEF Inv, CarefulInv
    <3> QED
      BY <2>n, <3>1, <3>2, <3>3, <3>4
  <2> QED
    BY <2>3
<1> QED
  BY <1>1, InvHolds, PTL
=============================================================================
