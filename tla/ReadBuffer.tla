----------------------------- MODULE ReadBuffer -----------------------------
(***************************************************************************)
(* How a connection cuts the byte stream of its peer into packets:         *)
(* CConnectionReadBuffer::Read with GetPacket and Adjust, on top of        *)
(* CDataUnPacker::SetBuffer, fed by a peer whose CRPCClient::WriteTo packs *)
(* each message and whose CRPCConnection::Send may cut a packet short.     *)
(*                                                                         *)
(* A byte is known by its position in the stream.  Read appends to the     *)
(* buffer what it takes from the socket and Adjust keeps the bytes behind  *)
(* the cursor, so the buffer always holds the last m_Len bytes read, and   *)
(* the byte at the cursor has position Position.  (Adjust copies           *)
(* overlapping bytes with memcpy, towards lower addresses, which a forward *)
(* copy and glibc's memmove-like one on x86-64 do correctly.)              *)
(*                                                                         *)
(* SetBuffer knows a packet by its start flag and by two bytes at the      *)
(* place its length says, so what matters of the bytes is where a start    *)
(* flag stands, behind which length, and where an end flag.  Besides those *)
(* of the packets, payload may hold both: spells gives, for each place of  *)
(* a packet where payload makes SetBuffer see a start flag, the signed     *)
(* length the four bytes before the flag are read as, and ends the places  *)
(* of payload where the two bytes of an end flag stand.  No flag comes     *)
(* about across two packets: a length takes its first byte 0 and its third *)
(* at most 4, so what follows a cut is none of 0xEE, 0x55 and 0x99.        *)
(***************************************************************************)
EXTENDS Integers, Sequences

CONSTANTS HEADER_LEN,   \* RPC_PACKET_HEADER_LEN: length field and start flag
          TRAILER_LEN,  \* the end flag
          MaxPacketLen, \* MAX_RPC_PACKET_LEN, the buffer WriteTo packs into
          BUFF_LEN,     \* the size of m_Buff
          Messages,     \* what applications send: [len, spells, ends]
          MaxSent       \* bound: messages sent

ASSUME LengthsAreValid ==
  /\ HEADER_LEN \in Nat \ {0} /\ TRAILER_LEN \in Nat \ {0}
  /\ MaxPacketLen \in Nat /\ HEADER_LEN + TRAILER_LEN < MaxPacketLen
  /\ BUFF_LEN \in Nat /\ MaxPacketLen <= BUFF_LEN
  /\ MaxSent \in Nat

VARIABLES careful,   \* does the peer send only messages that fit, and all of each
                     \* packet? (chosen once)
          readPc,    \* "idle": no Read is running; "read" and "parse" in Read;
                     \* "closed": Read has returned 0 or -1; "stuck": it loops for
                     \* ever; "crashed": it has read memory that is not there
          packets,   \* the peer's packets: [start, bytes, message]
          streamed,  \* bytes the peer has put on the stream
          received,  \* bytes read() has returned
          filled, cur, \* m_Len, m_Cursor
          extracted, \* the packets GetPacket has returned: [from, size]
          dropped    \* bytes that Reset has thrown away (history)

window == <<filled, cur>>
stream == <<careful, packets, streamed>>
bufferVars == <<readPc, stream, received, window, extracted, dropped>>

BufferInit ==
  /\ careful \in BOOLEAN
  /\ readPc = "idle"
  /\ packets = <<>>
  /\ streamed = 0 /\ received = 0
  /\ filled = 0 /\ cur = 0
  /\ extracted = <<>>
  /\ dropped = 0

------------------------------------------------------------------------------
(* The peer *)

(* The length of the packet WriteTo makes of a message.  The result of     *)
(* WriteBinary is not looked at, so a message that is empty or does not    *)
(* fit goes out as a packet without data.                                  *)
FitsPacket(message) ==
  message.len > 0 /\ HEADER_LEN + message.len <= MaxPacketLen - TRAILER_LEN
PackedLen(message) ==
  HEADER_LEN + (IF FitsPacket(message) THEN message.len ELSE 0) + TRAILER_LEN

(* The flags payload holds lie inside it, so none in a packet without data *)
(* (the length in front of a start flag may reach back into the header).   *)
ASSUME MessagesAreValid ==
  \A m \in Messages :
    /\ m.len \in Nat
    /\ DOMAIN m.spells \subseteq 1..(PackedLen(m) - HEADER_LEN - TRAILER_LEN)
    /\ \A place \in DOMAIN m.spells : m.spells[place] \in Int
    /\ m.ends \subseteq HEADER_LEN..(PackedLen(m) - 2 * TRAILER_LEN)

(* The places of a packet where a start flag is seen, with the length read *)
(* there, and those of its end flags: its own and what payload looks like. *)
Headers(message) ==
  [place \in {0} \cup DOMAIN message.spells |->
     IF place = 0 THEN PackedLen(message) ELSE message.spells[place]]
EndFlags(message) == {PackedLen(message) - TRAILER_LEN} \cup message.ends

(* The peer's writer sends the packet, or only its first bytes when its    *)
(* socket buffer is full.                                                  *)
PeerSends(message) ==
  /\ Len(packets) < MaxSent
  /\ careful => FitsPacket(message)
  /\ \E bytes \in (IF careful THEN {PackedLen(message)} ELSE 1..PackedLen(message)) :
       /\ packets' = Append(packets,
                             [start |-> streamed, bytes |-> bytes, message |-> message])
       /\ streamed' = streamed + bytes
  /\ UNCHANGED <<careful, readPc, received, window, extracted, dropped>>

------------------------------------------------------------------------------
(* GetPacket *)

Available == filled - cur
Position == received - Available

(* The lengths that stand in front of a start flag at place q of the       *)
(* stream (at most one), and whether an end flag stands there: only what   *)
(* was not cut off counts.                                                 *)
Sent == {packets[k] : k \in DOMAIN packets}
LengthsAt(q) ==
  {Headers(p.message)[q - p.start] :
     p \in {p \in Sent : /\ q - p.start \in DOMAIN Headers(p.message)
                          /\ q - p.start + HEADER_LEN <= p.bytes}}
EndFlagAt(q) ==
  \E p \in Sent : /\ q - p.start \in EndFlags(p.message)
                  /\ q - p.start + TRAILER_LEN <= p.bytes

(* The places of m_Buff where CDataUnPacker::SetBuffer looks for an end    *)
(* flag.  The length is signed and only tested against what is there.      *)
TooShort == Available - TRAILER_LEN <= HEADER_LEN
MutantEndFlagPlaces == \* a mutant: it is not tested at all
  {cur + l - TRAILER_LEN : l \in LengthsAt(Position)}
EndFlagPlaces ==
  {cur + l - TRAILER_LEN : l \in {l \in LengthsAt(Position) : l <= Available}}

(* What SetBuffer makes of a length, and what it returns.                  *)
MutantVerdict(l) ==    \* a mutant: a packet of all that is there is refused
  IF l >= Available THEN -1
  ELSE IF EndFlagAt(Position + l - TRAILER_LEN) /\ l - TRAILER_LEN > HEADER_LEN THEN 1
  ELSE -1
Verdict(l) ==
  IF l > Available THEN 0
  ELSE IF EndFlagAt(Position + l - TRAILER_LEN) /\ l - TRAILER_LEN > HEADER_LEN THEN 1
  ELSE -1
Accepts(l) == ~TooShort /\ Verdict(l) = 1
SetBuffer ==
  IF TooShort THEN {0}
  ELSE IF LengthsAt(Position) = {} THEN {-1}
  ELSE {Verdict(l) : l \in LengthsAt(Position)}

------------------------------------------------------------------------------
(* Read *)

(* The epoll thread has seen the socket become readable, and a reader      *)
(* thread calls Read.                                                      *)
ReadCalled ==
  /\ readPc = "idle"
  /\ received < streamed
  /\ readPc' = "read"
  /\ UNCHANGED <<stream, received, window, extracted, dropped>>

MutantReadSome ==     \* a mutant: read() may fill BUFF_LEN bytes from m_Len on
  /\ readPc = "read"
  /\ filled < BUFF_LEN
  /\ \E n \in 1..(streamed - received) :
       /\ n <= BUFF_LEN
       /\ received' = received + n
       /\ filled' = filled + n
  /\ readPc' = "parse"
  /\ UNCHANGED <<stream, cur, extracted, dropped>>

ReadSome ==
  /\ readPc = "read"
  /\ filled < BUFF_LEN
  /\ \E n \in 1..(streamed - received) :
       /\ n <= BUFF_LEN - filled
       /\ received' = received + n
       /\ filled' = filled + n
  /\ readPc' = "parse"
  /\ UNCHANGED <<stream, cur, extracted, dropped>>

(* EAGAIN: what the peer has sent so far is read, or is not here yet.      *)
WouldBlock ==
  /\ readPc = "read"
  /\ filled < BUFF_LEN
  /\ readPc' = "idle"
  /\ UNCHANGED <<stream, received, window, extracted, dropped>>

(* read() fails, or reports the end of the stream: Read returns -1 or 0    *)
(* and the caller closes the connection.                                   *)
ReadEnds ==
  /\ readPc = "read"
  /\ filled < BUFF_LEN
  /\ readPc' = "closed"
  /\ UNCHANGED <<stream, received, window, extracted, dropped>>

Reset ==
  /\ filled' = 0
  /\ cur' = 0
  /\ dropped' = dropped + Available

(* There is no room to read into: Read throws the buffer away.             *)
BufferFull ==
  /\ readPc = "read"
  /\ filled = BUFF_LEN
  /\ Reset
  /\ UNCHANGED <<readPc, stream, received, extracted>>

MutantExtract ==      \* a mutant: one packet is taken out after each read()
  /\ readPc = "parse"
  /\ Available >= HEADER_LEN
  /\ \E l \in LengthsAt(Position) :
       /\ Accepts(l)
       /\ l <= MaxPacketLen
       /\ extracted' = Append(extracted, [from |-> Position, size |-> l])
       /\ cur' = cur + l
  /\ readPc' = "read"
  /\ UNCHANGED <<stream, received, filled, dropped>>

MutantExtractTwice == \* a mutant: the cursor stays
  /\ readPc = "parse"
  /\ Available >= HEADER_LEN
  /\ \E l \in LengthsAt(Position) :
       /\ Accepts(l)
       /\ l <= MaxPacketLen
       /\ extracted' = Append(extracted, [from |-> Position, size |-> l])
  /\ UNCHANGED <<readPc, stream, received, window, dropped>>

(* A packet is copied out, and the cursor moves behind it.                 *)
Extract ==
  /\ readPc = "parse"
  /\ Available >= HEADER_LEN
  /\ \E l \in LengthsAt(Position) :
       /\ Accepts(l)
       /\ l <= MaxPacketLen
       /\ extracted' = Append(extracted, [from |-> Position, size |-> l])
       /\ cur' = cur + l
  /\ UNCHANGED <<readPc, stream, received, filled, dropped>>

(* More than a CRPCPacket holds: it stays empty, with length 0, the cursor *)
(* does not move and GetPacket finds the same again, without end.          *)
ExtractOversize ==
  /\ readPc = "parse"
  /\ Available >= HEADER_LEN
  /\ \E l \in LengthsAt(Position) : Accepts(l) /\ l > MaxPacketLen
  /\ readPc' = "stuck"
  /\ UNCHANGED <<stream, received, window, extracted, dropped>>

(* The end flag is looked for in front of m_Buff, and the memory there is  *)
(* not mapped.  (Where it is, the length is refused: Unrecognized.)        *)
AccessOutside ==
  /\ readPc = "parse"
  /\ ~TooShort
  /\ \E place \in EndFlagPlaces : place < 0
  /\ readPc' = "crashed"
  /\ UNCHANGED <<stream, received, window, extracted, dropped>>

MutantAdjust ==       \* a mutant: the rest of the buffer is forgotten
  /\ filled' = 0
  /\ cur' = 0

MutantNoAdjust ==     \* a mutant: the bytes stay where they are
  UNCHANGED <<filled, cur>>

(* Adjust moves the bytes behind the cursor to the front of the buffer.    *)
Adjust ==
  /\ filled' = filled - cur
  /\ cur' = 0

NeedsMore ==
  /\ readPc = "parse"
  /\ Available < HEADER_LEN \/ 0 \in SetBuffer
  /\ Adjust
  /\ readPc' = "read"
  /\ UNCHANGED <<stream, received, extracted, dropped>>

Unrecognized ==
  /\ readPc = "parse"
  /\ Available >= HEADER_LEN
  /\ -1 \in SetBuffer
  /\ Reset
  /\ readPc' = "read"
  /\ UNCHANGED <<stream, received, extracted>>

BufferNext ==
  \/ \E m \in Messages : PeerSends(m)
  \/ ReadCalled \/ ReadSome \/ WouldBlock \/ ReadEnds \/ BufferFull
  \/ Extract \/ ExtractOversize \/ AccessOutside \/ NeedsMore \/ Unrecognized

BufferSpec == BufferInit /\ [][BufferNext]_bufferVars

------------------------------------------------------------------------------
(* Properties *)

Packet == [start : Nat, bytes : Nat, message : Messages]
Extent == [from : Int, size : Nat]

(* The type invariant: the cursor does not pass the end of the data, nor   *)
(* the data the end of m_Buff, whatever lengths the stream holds.          *)
BufferTypeOK ==
  /\ careful \in BOOLEAN
  /\ readPc \in {"idle", "read", "parse", "closed", "stuck", "crashed"}
  /\ packets \in Seq(Packet)
  /\ streamed \in Nat
  /\ received \in 0..streamed
  /\ filled \in 0..BUFF_LEN
  /\ cur \in 0..filled
  /\ extracted \in Seq(Extent)
  /\ dropped \in Nat

(* No payload has made SetBuffer see a start flag so far.                  *)
Plain == \A k \in DOMAIN packets : DOMAIN packets[k].message.spells = {}

(* What a packet of the peer occupies when all of it is sent.              *)
ExtentOf(p) == [from |-> p.start, size |-> PackedLen(p.message)]

(* No byte comes out twice nor before an earlier one, and without start    *)
(* flags in payload whatever comes out begins with the header of a packet  *)
(* of the peer and has its length: also when packets were cut short and    *)
(* the cursor has lost them in between.                                    *)
InOrder ==
  /\ \A i, j \in DOMAIN extracted :
       i < j => extracted[i].from + extracted[i].size <= extracted[j].from
  /\ Plain => \A i \in DOMAIN extracted : \E p \in Sent : extracted[i] = ExtentOf(p)

(* Without start flags in payload, SetBuffer looks for end flags only in   *)
(* data that is there, also behind a packet that was cut short.            *)
AccessInside ==
  Plain /\ readPc = "parse" /\ ~TooShort =>
    \A place \in EndFlagPlaces : place >= 0 /\ place + TRAILER_LEN <= filled

(* From a careful peer nothing is lost however the stream is split into    *)
(* reads and whatever payload looks like: the packets that came out are    *)
(* the first ones, without a gap, no byte is dropped and Read goes on.     *)
NothingLost ==
  careful =>
    /\ dropped = 0 /\ readPc \notin {"stuck", "crashed"}
    /\ \A i \in DOMAIN extracted :
         i \in DOMAIN packets /\ extracted[i] = ExtentOf(packets[i])

(* Read never finds the buffer full before it has a whole packet.          *)
NeverFull == careful /\ readPc = "read" => filled < BUFF_LEN

(* No packet waits in the buffer for bytes that are not its own: when Read *)
(* has returned with the stream read to its end, all packets are out.      *)
NoneWithheld ==
  careful /\ readPc = "idle" /\ received = streamed => Len(extracted) = Len(packets)

(* "there is an integrated packet" (RPCCommon.cpp:193): what GetPacket     *)
(* returns was sent so, and whole.  Violated: a packet that was cut short  *)
(* is completed with bytes of the next when the end flag of that one       *)
(* stands where its own is looked for.                                     *)
OnlyWholePackets ==
  \A i \in DOMAIN extracted : \E p \in Sent :
    extracted[i] = ExtentOf(p) /\ p.bytes = PackedLen(p.message)

(* "-1 buffer data is not right to compose a packet" (RPCPacket.h:91):     *)
(* such data is refused and Read goes on.  Violated: when a refusal or a   *)
(* cut has left the cursor inside a packet, a length found in its payload  *)
(* may lead in front of m_Buff, or make a packet that is never taken out.  *)
BadDataIsRefused == readPc \notin {"stuck", "crashed"}
=============================================================================
