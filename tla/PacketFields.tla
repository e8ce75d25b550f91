---------------------------- MODULE PacketFields ----------------------------
(* CDataPacker writes fields into a packet, CDataUnPacker reads them back: *)
(* integers, shorts, bytes and binaries.  ReadBuffer has whole packets in  *)
(* a stream; here is what lies inside one.                                 *)
(*                                                                         *)
(* A cell of memory has the name of the byte it holds: which byte of which *)
(* field, of the header or of the end flag.  The program gives the bytes   *)
(* their values: equal names stand for equal values, different names for   *)
(* any, equal ones too.  htonl and ntohl undo each other and need none.    *)
(* The reader asks for the kinds that were written.                        *)
EXTENDS Naturals, Sequences, SequencesExt

CONSTANTS
  BufferLen,    \* length of the longest buffer
  MaxBinary     \* bound: the longest binary

ASSUME PacketAssumption == BufferLen \in Nat /\ MaxBinary \in Nat

IntSize == 4
ShortSize == 2
HeaderLen == IntSize + 2      \* packet length and start flag
TrailerLen == 2

Kinds ==
  {[kind |-> "int", size |-> IntSize], [kind |-> "short", size |-> ShortSize],
   [kind |-> "byte", size |-> 1]} \cup
  {[kind |-> "binary", size |-> n] : n \in 1 .. MaxBinary}

Header == 0                   \* names of what a cell may belong to, beside
Trailer == BufferLen + 1      \* the fields 1, 2, ...
Foreign == <<0, 0>>           \* a cell no Write has set
Cells(owner, n) == [k \in 1 .. n |-> <<owner, k>>]

VARIABLES
  phase,      \* what the program does with the packet
  len,        \* SetBuffer's second argument
  fields,     \* the kinds written so far
  memory,     \* the buffer
  pos,        \* m_CurrentPos of the packer, then of the unpacker
  endOffset,  \* m_EndOffset, likewise
  packetLen,  \* the length in the header
  results         \* what each call of Read has returned

packetVars == <<phase, len, fields, memory, pos, endOffset, packetLen, results>>

PacketInit ==
  /\ phase = "start"
  /\ len = 0
  /\ fields = <<>>
  /\ memory = [i \in 0 .. BufferLen - 1 |-> Foreign]
  /\ pos = 0
  /\ endOffset = 0
  /\ packetLen = 0
  /\ results = <<>>

Store(at, cells) ==
  [i \in DOMAIN memory |-> IF i \in at .. at + Len(cells) - 1
                           THEN cells[i - at + 1] ELSE memory[i]]
Load(at, n) ==
  [k \in 1 .. n |-> IF at + k - 1 \in DOMAIN memory THEN memory[at + k - 1] ELSE Foreign]

------------------------------------------------------------------------------
(* CDataPacker *)

PackerSetBuffer(n) ==
  /\ phase = "start"
  /\ n > HeaderLen + TrailerLen
  /\ phase' = "packing"
  /\ len' = n
  /\ pos' = HeaderLen
  /\ endOffset' = n - TrailerLen
  /\ UNCHANGED <<fields, memory, packetLen, results>>

MutantFits(f) == pos < endOffset

(* WriteInt, WriteShort, WriteByte and WriteBinary differ in the size.     *)
Fits(f) == pos < endOffset /\ pos + f.size <= endOffset

WriteField(f) ==
  /\ phase = "packing"
  /\ Fits(f)
  /\ memory' = Store(pos, Cells(Len(fields) + 1, f.size))
  /\ pos' = pos + f.size
  /\ fields' = Append(fields, f)
  /\ UNCHANGED <<phase, len, endOffset, packetLen, results>>

(* The length counts header and end flag.                                  *)
Finish ==
  /\ phase = "packing"
  /\ memory' = [i \in DOMAIN memory |->
       IF i < HeaderLen THEN <<Header, i + 1>>
       ELSE IF i \in pos .. pos + TrailerLen - 1 THEN <<Trailer, i - pos + 1>>
       ELSE memory[i]]
  /\ pos' = pos + TrailerLen
  /\ packetLen' = pos'
  /\ phase' = "packed"
  /\ UNCHANGED <<len, fields, endOffset, results>>

------------------------------------------------------------------------------
(* CDataUnPacker *)

(* SetBuffer on a buffer of n bytes that begins with the packet.           *)
Recognized(n) ==
  /\ HeaderLen < n - TrailerLen
  /\ packetLen <= n
  /\ Load(packetLen - TrailerLen, TrailerLen) = Cells(Trailer, TrailerLen)
  /\ HeaderLen < packetLen - TrailerLen

UnPackerSetBuffer(n) ==
  /\ phase = "packed"
  /\ phase' = IF Recognized(n) THEN "reading" ELSE "rejected"
  /\ len' = n
  /\ pos' = HeaderLen
  /\ endOffset' = packetLen - TrailerLen
  /\ UNCHANGED <<fields, memory, packetLen, results>>

(* ReadInt and ReadShort add the cursor to a pointer to int or to short,   *)
(* which multiplies it by the size.                                        *)
Scale(f) == IF f.kind \in {"int", "short"} THEN f.size ELSE 1

ReadField ==
  LET f == fields[Len(results) + 1]
  IN  /\ phase = "reading"
      /\ Len(results) < Len(fields)
      /\ Fits(f)
      /\ results' = Append(results, Load(Scale(f) * pos, f.size))
      /\ pos' = pos + f.size
      /\ UNCHANGED <<phase, len, fields, memory, endOffset, packetLen>>

HaveData == pos < endOffset

PacketNext ==
  \/ \E n \in 1 .. BufferLen : PackerSetBuffer(n) \/ UnPackerSetBuffer(n)
  \/ \E f \in Kinds : WriteField(f)
  \/ Finish
  \/ ReadField

PacketSpec == PacketInit /\ [][PacketNext]_packetVars

------------------------------------------------------------------------------
(* Properties *)

(* What Finish leaves is header, fields and end flag, within the buffer it *)
(* was given.  A buffer with the whole packet is recognized unless it has  *)
(* no data.  Bytes and binaries read in the order in which they were       *)
(* written are what was written, also behind integers and shorts; HaveData *)
(* tells when all is read.                                                 *)
Written(i) == Cells(i, fields[i].size)
Layout == Cells(Header, HeaderLen)
            \o FlattenSeq([i \in DOMAIN fields |-> Written(i)]) \o Cells(Trailer, TrailerLen)

FieldsReadBack ==
  /\ phase = "packed" => pos <= len /\ Load(0, pos) = Layout
  /\ phase \in {"reading", "rejected"} =>
       (phase = "reading") = (fields # <<>> /\ packetLen <= len)
  /\ \A i \in DOMAIN results : fields[i].kind \in {"byte", "binary"} => results[i] = Written(i)
  /\ phase = "reading" => HaveData = (Len(results) < Len(fields))

(* What a call of Read returns, with the result that says success, is what *)
(* was written there, for whatever values.  An integer and a short are     *)
(* read from another place of the buffer, or from behind it, where some    *)
(* other value may be.                                                     *)
EveryFieldReadsBack == \A i \in DOMAIN results : results[i] = Written(i)
=============================================================================
