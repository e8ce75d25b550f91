---------------------------- MODULE StringUtility ---------------------------
(* The functions on strings: trimming, splitting, joining, and numbers and *)
(* bytes as decimal and hexadecimal strings.  A string is the sequence of  *)
(* its characters, as their codes, without the final 0.  Of the blanks of  *)
(* isspace only the space is used.                                         *)
EXTENDS Integers, Sequences, FiniteSets, SequencesExt

CONSTANTS
  Characters,   \* of the texts, the blank among them
  Separator,    \* the separator of StrSplit and StrJoin, one character
  FieldLen,     \* length of the array filed into which fields are copied
  MaxText,      \* bound: length of the texts
  Bytes, MaxBytesShown   \* bounds: the bytes, and how many are formatted

ASSUME StringAssumption ==
  /\ Characters \subseteq 1 .. 127
  /\ Separator \in Characters \ {32}
  /\ Bytes \subseteq 0 .. 255
  /\ FieldLen \in Nat /\ FieldLen > 4
  /\ MaxText \in Nat /\ MaxBytesShown \in Nat

VARIABLES
  text,      \* the string the functions are applied to
  datas      \* the bytes that are formatted

stringVars == <<text, datas>>

StringInit == text = <<>> /\ datas = <<>>

LongerText ==
  /\ Len(text) < MaxText /\ datas = <<>>
  /\ \E c \in Characters : text' = Append(text, c)
  /\ UNCHANGED datas

MoreBytes ==
  /\ Len(datas) < MaxBytesShown /\ text = <<>>
  /\ \E d \in Bytes : datas' = Append(datas, d)
  /\ UNCHANGED text

StringNext == LongerText \/ MoreBytes

StringSpec == StringInit /\ [][StringNext]_stringVars

------------------------------------------------------------------------------
(* Trim *)

Blank == 32
NonBlank(s) == {i \in DOMAIN s : s[i] # Blank}
Least(S) == CHOOSE i \in S : \A j \in S : i <= j
Greatest(S) == CHOOSE i \in S : \A j \in S : j <= i

(* start runs to the first character that is no blank or to the end; end   *)
(* runs down from the last one, at most to the first.                      *)
TrimStart(s) == Least(NonBlank(s) \cup {Len(s) + 1})

MutantTrimEnd(s) == Greatest({i \in NonBlank(s) : i < Len(s)} \cup {1})

TrimEnd(s) == Greatest(NonBlank(s) \cup {1})

(* The final 0 goes behind what is kept.  Of a string of two or more       *)
(* blanks nothing is kept, and it goes before the start of the string,     *)
(* which stays as it is.                                                   *)
TrimWritesBefore(s) == TrimEnd(s) - TrimStart(s) + 1 < 0
Trim(s) == IF TrimWritesBefore(s) THEN s ELSE SubSeq(s, TrimStart(s), TrimEnd(s))

------------------------------------------------------------------------------
(* Splitting and joining *)

(* strstr from a position: where the pattern begins, 0 if nowhere.         *)
Occurs(s, pattern, i) == SubSeq(s, i, i + Len(pattern) - 1) = pattern
Find(s, pattern, from) ==
  LET at == {i \in from .. Len(s) - Len(pattern) + 1 : Occurs(s, pattern, i)}
  IN  IF at = {} THEN 0 ELSE Least(at)

(* StrSplit goes on one character behind the start of a separator, however *)
(* long that is; nothing follows a separator at the end.                   *)
StrSplit(src, sep) ==
  LET s == Trim(src)
      From[i \in 1 .. Len(s) + 1] ==
        LET next == Find(s, sep, i)
        IN  IF i > Len(s) THEN <<>>
            ELSE IF next = 0 THEN <<SubSeq(s, i, Len(s))>>
            ELSE <<SubSeq(s, i, next - 1)>> \o From[next + 1]
  IN  From[1]

(* A field that ends at a separator, also the last one if nothing follows, *)
(* is copied to filed, unless it is empty; the 0 is written one place      *)
(* behind the one that follows the copy.  The rest is taken as it is.      *)
SeparatorIsLast(s, sep) == s # <<>> /\ Find(s, sep, Len(s)) # 0
StrSplitFits(src, sep) ==
  LET fields == StrSplit(src, sep)
  IN  \A n \in DOMAIN fields :
        fields[n] # <<>> /\ (n < Len(fields) \/ SeparatorIsLast(Trim(src), sep))
          => Len(fields[n]) + 1 < FieldLen

WordEnd(s, i) == Least({j \in i .. Len(s) : s[j] = Blank} \cup {Len(s) + 1}) - 1

StrSplitBySpaces(src) ==
  LET s == Trim(src)
      From[i \in 1 .. Len(s) + 1] ==
        IF i > Len(s) THEN <<>>
        ELSE IF s[i] = Blank THEN From[i + 1]
        ELSE <<SubSeq(s, i, WordEnd(s, i))>> \o From[WordEnd(s, i) + 1]
  IN  From[1]

(* Every word is copied to filed, and the 0 follows it.                    *)
StrSplitBySpacesFits(src) ==
  LET words == StrSplitBySpaces(src)
  IN  \A n \in DOMAIN words : Len(words[n]) < FieldLen

StrJoin(vec, sep) ==
  FlattenSeq([i \in DOMAIN vec |-> IF i < Len(vec) THEN Append(vec[i], sep) ELSE vec[i]])

(* The word behind the first place where field is found, be it in a word;  *)
(* <<>> for a field that is not found or has no value.                     *)
GetField(src, field) ==
  LET at == Find(src, field, 1)
      behind == {i \in NonBlank(src) : i >= at + Len(field)}
  IN  IF at = 0 \/ behind = {} THEN <<>>
      ELSE SubSeq(src, Least(behind), WordEnd(src, Least(behind)))

------------------------------------------------------------------------------
(* Numbers.  Digits are produced from the last to the first, and reversed. *)

Zero == 48
LetterX == 120
Digit2Hex(val) == IF val < 10 THEN Zero + val ELSE 65 + val - 10

DigitsUp(n, radix) ==
  LET Up[m \in 0 .. n] ==
        IF m = 0 THEN <<>> ELSE <<Digit2Hex(m % radix)>> \o Up[m \div radix]
  IN  Up[n]

ReverseString(s) ==    \* swaps the ends up to the middle
  [i \in DOMAIN s |-> s[Len(s) + 1 - i]]

Oct2OctString(num) == IF num = 0 THEN <<Zero>> ELSE ReverseString(DigitsUp(num, 10))

(* An even number of digits behind 0x.                                     *)
Padded(s) == IF Len(s) % 2 = 1 THEN Append(s, Zero) ELSE s

MutantOct2HexString(num) ==   \* pads behind the number
  IF num = 0 THEN <<Zero, LetterX, Zero, Zero>>
  ELSE <<Zero, LetterX>> \o Padded(ReverseString(DigitsUp(num, 16)))

Oct2HexString(num) ==
  IF num = 0 THEN <<Zero, LetterX, Zero, Zero>>
  ELSE ReverseString(Padded(DigitsUp(num, 16)) \o <<LetterX, Zero>>)

ByteString(bytes, Show(_), sep) ==
  FlattenSeq([i \in DOMAIN bytes |-> Show(bytes[i]) \o sep])
Byte2OctString(bytes, sep) == ByteString(bytes, Oct2OctString, sep)
Byte2HexString(bytes, sep) == ByteString(bytes, Oct2HexString, sep)

------------------------------------------------------------------------------
(* Properties *)

(* The words of a text, stated by where they begin.                        *)
WordStarts(s) == {i \in NonBlank(s) : i = 1 \/ s[i - 1] = Blank}
WordAt(s, i) == SubSeq(s, i, WordEnd(s, i))
NthWord(s, n) ==
  WordAt(s, CHOOSE i \in WordStarts(s) : Cardinality({j \in WordStarts(s) : j <= i}) = n)

(* Trim takes the blanks at both ends and nothing else, and writes in      *)
(* front of the text if it is two or more blanks and only then.            *)
OnlyBlanks(s) == NonBlank(s) = {} /\ Len(s) > 1
TrimTakesBlanks ==
  LET s == Trim(text)
  IN  /\ TrimWritesBefore(text) = OnlyBlanks(text)
      /\ ~TrimWritesBefore(text) =>
           /\ s # <<>> => Head(s) # Blank /\ Last(s) # Blank
           /\ \E l, r \in 0 .. Len(text) :
                text = [i \in 1 .. l |-> Blank] \o s \o [i \in 1 .. r |-> Blank]

(* What Trim is said to do, to every text that is not empty.               *)
TrimRemovesSpaces ==
  text # <<>> => LET s == Trim(text) IN s # <<>> => Head(s) # Blank /\ Last(s) # Blank

SplitGivesWords ==
  LET words == StrSplitBySpaces(text)
  IN  /\ Len(words) = Cardinality(WordStarts(text))
      /\ \A n \in DOMAIN words : words[n] = NthWord(text, n)

(* But for one separator at the end.                                       *)
JoinUndoesSplit ==
  LET s == Trim(text)
      fields == StrSplit(text, <<Separator>>)
  IN  /\ StrJoin(fields, Separator) =
           IF s # <<>> /\ Last(s) = Separator THEN SubSeq(s, 1, Len(s) - 1) ELSE s
      /\ \A n \in DOMAIN fields : ~Contains(fields[n], Separator)

(* The value is what is left of the word in which the field is first found *)
(* or, if nothing is, the next word.                                       *)
FieldIsFound ==
  LET at == Find(text, <<Separator>>, 1)
      later == {i \in WordStarts(text) : i > at}
  IN  GetField(text, <<Separator>>) =
        IF at = 0 THEN <<>>
        ELSE IF WordEnd(text, at) > at THEN SubSeq(text, at + 1, WordEnd(text, at))
        ELSE IF later = {} THEN <<>> ELSE WordAt(text, Least(later))

(* Trim, StrSplitBySpaces, StrSplit with StrJoin, and GetField do what     *)
(* their parts above say, on every text that is not empty (Trim answers    *)
(* NULL to an empty one, and the splits then read it).  For the splits the *)
(* text must not be one of blanks alone, before which Trim writes, and the *)
(* fields must fit into filed: words shorter than it do, and so does every *)
(* field of a text that is shorter by two.                                 *)
SplitsAreRight ==
  text # <<>> =>
    /\ TrimTakesBlanks /\ FieldIsFound
    /\ ~OnlyBlanks(text) =>
         /\ (\A i \in WordStarts(text) : Len(WordAt(text, i)) < FieldLen)
              => StrSplitBySpacesFits(text) /\ SplitGivesWords
         /\ Len(Trim(text)) + 1 < FieldLen => StrSplitFits(text, <<Separator>>)
         /\ StrSplitFits(text, <<Separator>>) => JoinUndoesSplit

(* Numbers can be read back: a byte is two hexadecimal digits behind 0x,   *)
(* so bytes can be read back without a separator; in decimal, the digits   *)
(* have the byte's value and no zero in front, and with a separator that   *)
(* is no digit bytes can be read back with StrSplit, into whose array      *)
(* three digits fit.                                                       *)
DigitValue(c) == CHOOSE v \in 0 .. 15 : Digit2Hex(v) = c
Value(s, radix) ==
  LET Up[n \in 0 .. Len(s)] ==
        IF n = 0 THEN 0 ELSE Up[n - 1] * radix + DigitValue(s[n])
  IN  Up[Len(s)]
HexByte(s, i) == Value(SubSeq(s, 4 * i - 1, 4 * i), 16)
DecimalBytes(s) == LET t == StrSplit(s, <<Separator>>) IN [i \in DOMAIN t |-> Value(t[i], 10)]

NumbersReadBack ==
  LET hex == Byte2HexString(datas, <<>>)
  IN  /\ Len(hex) = 4 * Len(datas)
      /\ \A i \in DOMAIN datas :
           SubSeq(hex, 4 * i - 3, 4 * i - 2) = <<Zero, LetterX>> /\ HexByte(hex, i) = datas[i]
      /\ \A i \in DOMAIN datas :
           LET s == Oct2OctString(datas[i]) IN Value(s, 10) = datas[i] /\ (Len(s) > 1 => s[1] # Zero)
      /\ (datas # <<>> /\ Separator \notin Zero .. Zero + 9) =>
           DecimalBytes(Byte2OctString(datas, <<Separator>>)) = datas
=============================================================================
