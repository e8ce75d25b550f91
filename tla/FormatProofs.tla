---------------------------- MODULE FormatProofs -----------------------------
(* Theorems about what the formatting functions compute: the decimal       *)
(* digits of a port in Itoa's static buffer, the fields of a packet, and   *)
(* the functions on strings, for every text and all bytes.                 *)
EXTENDS PeerAddress, PacketFields, StringUtility, NumberLemmas, SequenceTheorems,
        FiniteSetTheorems

DecimalDigits == 0 .. 9

(* The digits of a number: what the recursive definition gives.            *)
DigitsOf(n) == IF n < Radix THEN <<n>> ELSE Append(Digits[n \div Radix], n % Radix)

LEMMA DivideByRadix ==
  \A n \in Nat :
    /\ n \div Radix \in Nat /\ n % Radix \in DecimalDigits
    /\ n < Radix => n \div Radix = 0 /\ n % Radix = n /\ n \in DecimalDigits
    /\ ~(n < Radix) => n \div Radix \in 0 .. n - 1 /\ n \div Radix > 0
BY DEF Radix, DecimalDigits

LEMMA DigitsAreOf == \A n \in Nat : Digits[n] = DigitsOf(n)
<1> DEFINE V == Seq(Nat)
           Of(n, g) == IF n < Radix THEN <<n>> ELSE Append(g[n \div Radix], n % Radix)
           F == [n \in Nat |-> [g \in [Nat -> V] |-> Of(n, g)]]
<1>1. ASSUME NEW n \in Nat, NEW g \in [Nat -> V] PROVE Of(n, g) \in V
  <2>1. n \div Radix \in Nat /\ n % Radix \in Nat
    <3>1. DecimalDigits \subseteq Nat
      BY DEF DecimalDigits
    <3> QED
      BY <3>1, DivideByRadix, Zenon
  <2>2. g[n \div Radix] \in V
    BY <2>1
  <2> QED
    BY <2>1, <2>2
<1>2. ASSUME NEW n \in Nat, NEW g \in [Nat -> V], NEW h \in [Nat -> V],
             \A i \in 0 .. n - 1 : g[i] = h[i]
      PROVE  Of(n, g) = Of(n, h)
  <2>1. CASE n < Radix
    BY <2>1
  <2>2. CASE ~(n < Radix)
    <3>1. g[n \div Radix] = h[n \div Radix]
      BY <1>2, <2>2, DivideByRadix
    <3> QED
      BY <2>2, <3>1
  <2> QED
    BY <2>1, <2>2 DEF Radix
<1> DEFINE rank == [n \in Nat |-> n]
<1>3. LooksDown(F, Nat, rank, V)
  <2>1. F \in [Nat -> [[Nat -> V] -> V]] /\ rank \in [Nat -> Nat]
    BY <1>1
  <2>2. ASSUME NEW n \in Nat, NEW g \in [Nat -> V], NEW h \in [Nat -> V],
               \A i \in Nat : rank[i] < rank[n] => g[i] = h[i]
        PROVE  F[n][g] = F[n][h]
    <3>1. \A i \in 0 .. n - 1 : g[i] = h[i]
      BY <2>2
    <3> QED
      BY <1>2, <3>1
  <2> HIDE DEF F, V, rank
  <2> QED
    BY <2>1, <2>2 DEF LooksDown
<1>4. PICK f : IsMadeBy(f, F, Nat, V)
  <2>1. <<0>> \in V
    OBVIOUS
  <2> HIDE DEF F, V, rank
  <2> QED
    BY <1>3, <2>1, RankedRecursion
<1>5. f = [n \in Nat |-> Of(n, f)]
  <2>1. f \in [Nat -> V] /\ \A n \in Nat : f[n] = F[n][f]
    BY <1>4 DEF IsMadeBy
  <2>2. \A n \in Nat : F[n][f] = Of(n, f)
    BY <2>1
  <2> HIDE DEF F, Of
  <2> QED
    BY <2>1, <2>2
<1>6. Digits = [n \in Nat |-> Of(n, Digits)]
  BY <1>5 DEF Digits
<1>7. \A n \in Nat : Digits[n] = Of(n, Digits)
  <2> HIDE DEF Of
  <2> QED
    BY <1>6
<1> QED
  BY <1>7 DEF DigitsOf

LEMMA DigitsType == \A n \in Nat : Digits[n] \in Seq(DecimalDigits) /\ Len(Digits[n]) \in Nat \ {0}
<1> DEFINE Good(n) == Digits[n] \in Seq(DecimalDigits) /\ Len(Digits[n]) \in Nat \ {0}
           S == {n \in Nat : Good(n)}
<1>1. ASSUME NEW n \in Nat, \A m \in 0 .. n - 1 : m \in S PROVE n \in S
  <2>1. CASE n < Radix
    <3>1. Digits[n] = <<n>> /\ n \in DecimalDigits
      BY <2>1, DigitsAreOf, DivideByRadix DEF DigitsOf
    <3>2. ASSUME NEW d \in DecimalDigits
          PROVE  <<d>> \in Seq(DecimalDigits) /\ Len(<<d>>) \in Nat \ {0}
      OBVIOUS
    <3>3. Good(n)
      BY <3>1, <3>2, Zenon
    <3> QED
      BY <3>3
  <2>2. CASE ~(n < Radix)
    <3>1. Good(n \div Radix)
      BY <1>1, <2>2, DivideByRadix
    <3>2. Digits[n] = Append(Digits[n \div Radix], n % Radix) /\ n % Radix \in DecimalDigits
      BY <2>2, DigitsAreOf, DivideByRadix DEF DigitsOf, Radix
    <3>3. ASSUME NEW s \in Seq(DecimalDigits), NEW d \in DecimalDigits, Len(s) \in Nat
          PROVE  Append(s, d) \in Seq(DecimalDigits) /\ Len(Append(s, d)) \in Nat \ {0}
      BY <3>3
    <3>4. Len(Digits[n \div Radix]) \in Nat
      BY <3>1
    <3>5. Good(n)
      BY <3>1, <3>2, <3>3, <3>4, Zenon
    <3> QED
      BY <3>5
  <2> QED
    BY <2>1, <2>2
<1>2. \A n \in Nat : n \in S
  <2> HIDE DEF S
  <2> QED
    BY <1>1, SetStrongInduction
<1> QED
  BY <1>2

------------------------------------------------------------------------------
(* The inductive invariant of Itoa.                                        *)

AddressTypeOK ==
  /\ buff \in [1 .. BuffLen -> 0 .. NUL]
  /\ step \in [Formatters -> {"idle", "digit", "terminate", "swap", "copy"}]
  /\ port \in [Formatters -> Nat] /\ u \in [Formatters -> Nat]
  /\ p \in [Formatters -> Nat] /\ b \in [Formatters -> Nat]
  /\ address \in [Formatters -> Seq(0 .. NUL)]
  /\ disturbed \in [Formatters -> BOOLEAN]

(* What is left of the number are its first digits, and the pointers are   *)
(* as far from its ends as there were rounds.                              *)
PointsRight(t) ==
  LET D == Digits[port[t]]
      L == Len(D)
  IN  /\ step[t] # "idle" => port[t] \in Ports
      /\ step[t] = "digit" =>
           /\ p[t] \in 1 .. L /\ b[t] = 1
           /\ Len(Digits[u[t]]) = L + 1 - p[t]
           /\ \A i \in 1 .. L + 1 - p[t] : Digits[u[t]][i] = D[i]
      /\ step[t] = "terminate" => p[t] = L + 1 /\ b[t] = 1
      /\ step[t] = "swap" => b[t] >= 1 /\ p[t] + b[t] = L + 1 /\ b[t] <= p[t]
PointerInv == \A t \in Formatters : PointsRight(t)

(* What one thread alone has made of the buffer.                           *)
HoldsRight(t) ==
  LET D == Digits[port[t]]
      L == Len(D)
  IN  /\ step[t] = "digit" => \A i \in 1 .. p[t] - 1 : buff[i] = D[L + 1 - i]
      /\ step[t] = "terminate" => \A i \in 1 .. L : buff[i] = D[L + 1 - i]
      /\ step[t] = "swap" =>
           /\ buff[L + 1] = NUL
           /\ \A i \in 1 .. L :
                buff[i] = IF i < b[t] \/ i > p[t] THEN D[i] ELSE D[L + 1 - i]
      /\ step[t] = "copy" => buff[L + 1] = NUL /\ \A i \in 1 .. L : buff[i] = D[i]
      /\ Finished(t) => address[t] = D
ContentInv == \A t \in Formatters : ~disturbed[t] => HoldsRight(t)

(* Whoever wrote it, no character lies behind the longest port.            *)
Reached(i) == \E n \in Ports : i <= Len(Digits[n])
NulInv == \A i \in 1 .. BuffLen : buff[i] # NUL => Reached(i)

LengthInv == \A t \in Formatters : Reached(Len(address[t]))

ItoaInv == AddressTypeOK /\ PointerInv /\ ContentInv /\ NulInv /\ LengthInv

ByThread(t) == (\E n \in Ports : Begin(t, n)) \/ Digit(t) \/ Terminate(t) \/ Swap(t) \/ Copy(t)

LEMMA PortDigits ==
  ASSUME NEW n \in Ports
  PROVE  /\ n \in Nat /\ BuffLen \in Nat
         /\ Len(Digits[n]) \in Nat /\ 1 <= Len(Digits[n]) /\ Len(Digits[n]) < BuffLen
         /\ \A i \in 1 .. Len(Digits[n]) : Digits[n][i] \in 0 .. 9 /\ Digits[n][i] # NUL
<1>1. n \in Nat /\ BuffLen \in Nat /\ Len(Digits[n]) < BuffLen
  BY AddressAssumption, BufferAssumption
<1>2. PICK s \in Seq(DecimalDigits) : s = Digits[n] /\ Len(s) \in Nat \ {0}
  BY <1>1, DigitsType, Zenon
<1>3. \A i \in 1 .. Len(s) : s[i] \in 0 .. 9
  BY DEF DecimalDigits
<1>4. \A i \in 1 .. Len(s) : s[i] # NUL
  BY <1>3 DEF NUL, Radix
<1> QED
  BY <1>1, <1>2, <1>3, <1>4

(* What one thread does leaves the others their variables, and marks those *)
(* that are in Itoa when it writes.                                        *)
LEMMA OthersStay ==
  ASSUME AddressTypeOK, NEW t \in Formatters, ByThread(t), NEW v \in Formatters, v # t
  PROVE  /\ step'[v] = step[v] /\ port'[v] = port[v] /\ u'[v] = u[v]
         /\ p'[v] = p[v] /\ b'[v] = b[v] /\ address'[v] = address[v]
         /\ disturbed[v] => disturbed'[v]
         /\ step[v] = "idle" \/ buff' = buff \/ disturbed'[v]
<1> USE DEF AddressTypeOK
<1>1. CASE \E n \in Ports : Begin(t, n)
  BY <1>1 DEF Begin, StepTo
<1>2. CASE Digit(t)
  BY <1>2 DEF Digit, StepTo, Disturbs
<1>3. CASE Terminate(t)
  BY <1>3 DEF Terminate, StepTo, Disturbs
<1>4. CASE Swap(t)
  BY <1>4 DEF Swap, StepTo, Disturbs
<1>5. CASE Copy(t)
  BY <1>5 DEF Copy, StepTo
<1> QED
  BY <1>1, <1>2, <1>3, <1>4, <1>5 DEF ByThread

(* Hence what holds of each other thread goes on holding.                  *)
LEMMA OthersStayRight ==
  ASSUME ItoaInv, NEW t \in Formatters, ByThread(t), NEW v \in Formatters, v # t
  PROVE  PointsRight(v)' /\ (~disturbed'[v] => HoldsRight(v)')
<1>1. AddressTypeOK /\ PointsRight(v) /\ (~disturbed[v] => HoldsRight(v))
  BY DEF ItoaInv, PointerInv, ContentInv
<1>2. /\ step'[v] = step[v] /\ port'[v] = port[v] /\ u'[v] = u[v]
      /\ p'[v] = p[v] /\ b'[v] = b[v] /\ address'[v] = address[v]
      /\ disturbed[v] => disturbed'[v]
      /\ step[v] = "idle" \/ buff' = buff \/ disturbed'[v]
  BY <1>1, OthersStay
<1>3. PointsRight(v)'
  BY <1>1, <1>2 DEF PointsRight
<1>4. ASSUME ~disturbed'[v] PROVE HoldsRight(v)'
  <2>1. HoldsRight(v)
    BY <1>1, <1>2, <1>4
  <2>2. CASE buff' = buff
    BY <1>2, <2>1, <2>2 DEF HoldsRight, Finished
  <2>3. CASE step[v] = "idle"
    BY <1>2, <2>1, <2>3 DEF HoldsRight, Finished
  <2> QED
    BY <1>2, <1>4, <2>2, <2>3
<1> QED
  BY <1>3, <1>4

------------------------------------------------------------------------------
(* One lemma for each step of Itoa: what it makes of the thread's own      *)
(* variables, of the buffer, and of the last zeros of the buffer.          *)

OwnInv(t) == PointsRight(t) /\ (~disturbed[t] => HoldsRight(t)) /\ Reached(Len(address[t]))

LEMMA NothingIsReached == Reached(0)
<1>1. PICK n \in Ports : TRUE
  BY AddressAssumption
<1>2. 0 <= Len(Digits[n])
  BY PortDigits
<1> QED
  BY <1>2 DEF Reached

LEMMA BeginStep ==
  ASSUME ItoaInv, NEW t \in Formatters, NEW n \in Ports, Begin(t, n)
  PROVE  AddressTypeOK' /\ OwnInv(t)' /\ NulInv'
<1>1. AddressTypeOK /\ Reached(Len(address[t])) /\ n \in Nat
  BY AddressAssumption DEF ItoaInv, LengthInv
<1>2. AddressTypeOK'
  BY <1>1 DEF AddressTypeOK, Begin, StepTo, NUL, Radix
<1>3. /\ step'[t] = "digit" /\ port'[t] = n /\ u'[t] = n /\ p'[t] = 1 /\ b'[t] = 1
      /\ address' = address
      /\ \A i \in 1 .. BuffLen : buff'[i] = NUL
  BY <1>1 DEF AddressTypeOK, Begin, StepTo
<1>4. PointsRight(t)'
  BY <1>3, PortDigits DEF PointsRight
<1>5. HoldsRight(t)'
  BY <1>3 DEF HoldsRight, Finished
<1> QED
  BY <1>1, <1>2, <1>3, <1>4, <1>5 DEF OwnInv, NulInv, Reached

LEMMA DigitStep ==
  ASSUME ItoaInv, NEW t \in Formatters, Digit(t)
  PROVE  AddressTypeOK' /\ OwnInv(t)' /\ NulInv'
<1>1. /\ AddressTypeOK /\ PointsRight(t) /\ (~disturbed[t] => HoldsRight(t)) /\ NulInv
      /\ Reached(Len(address[t])) /\ step[t] = "digit"
  BY DEF ItoaInv, PointerInv, ContentInv, LengthInv, Digit
<1>2. /\ u'[t] = u[t] \div Radix /\ p'[t] = p[t] + 1 /\ b' = b /\ port' = port
      /\ address' = address /\ disturbed'[t] = disturbed[t]
      /\ step'[t] = IF u'[t] > 0 THEN "digit" ELSE "terminate"
  BY <1>1 DEF AddressTypeOK, Digit, StepTo, Disturbs
<1>3. \A i \in 1 .. BuffLen : buff'[i] = IF i = p[t] THEN u[t] % Radix ELSE buff[i]
  BY <1>1 DEF AddressTypeOK, Digit
<1>4. PICK m \in Nat, q \in Nat, d \in 0 .. 9, r \in Nat :
        m = u[t] /\ q = u[t] \div Radix /\ d = u[t] % Radix /\ r = p[t]
  BY <1>1, DivideByRadix DEF AddressTypeOK, DecimalDigits
<1> DEFINE D == Digits[port[t]]
<1>5. PICK L \in Nat : L = Len(D)
  BY <1>1, PortDigits DEF PointsRight
<1>6. PICK e \in Seq(DecimalDigits), s \in Seq(DecimalDigits) :
        e = Digits[m] /\ s = Digits[q] /\ Len(s) \in Nat \ {0}
  BY DigitsType, Zenon
<1>7. /\ port[t] \in Ports /\ r \in 1 .. L /\ b[t] = 1 /\ BuffLen \in Nat /\ L < BuffLen
      /\ Len(e) = L + 1 - r /\ \A i \in 1 .. L + 1 - r : e[i] = D[i]
  <2>1. port[t] \in Ports
    BY <1>1 DEF PointsRight
  <2>2. BuffLen \in Nat /\ L < BuffLen /\ 1 <= L
    BY <1>5, <2>1, PortDigits
  <2>3. /\ r \in 1 .. L /\ b[t] = 1 /\ Len(Digits[m]) = L + 1 - r
        /\ \A i \in 1 .. L + 1 - r : Digits[m][i] = D[i]
    BY <1>1, <1>4, <1>5 DEF PointsRight
  <2> HIDE DEF D
  <2> QED
    BY <1>6, <2>1, <2>2, <2>3
<1>8. ASSUME q = 0
      PROVE  d = D[L + 1 - r] /\ PointsRight(t)' /\ r = L /\ step'[t] = "terminate"
  <2>1. step'[t] = "terminate"
    BY <1>2, <1>4, <1>8
  <2>2. m < Radix
    BY <1>4, <1>8, DivideByRadix
  <2>3. e = <<d>>
    BY <1>4, <1>6, <2>2, DigitsAreOf, DivideByRadix DEF DigitsOf
  <2>4. Len(e) = 1 /\ e[1] = d
    BY <2>3
  <2>5. r = L /\ L + 1 - r = 1
    <3> HIDE DEF D
    <3>1. r \in Nat /\ L \in Nat /\ L + 1 - r = 1
      BY <1>7, <2>4, Zenon
    <3> QED
      BY <3>1
  <2>6. d = D[L + 1 - r]
    BY <1>7, <2>4, <2>5
  <2>7. PointsRight(t)'
    BY <1>2, <1>4, <1>5, <1>7, <2>1, <2>5 DEF PointsRight
  <2> QED
    BY <2>1, <2>5, <2>7, <2>6
<1>9. ASSUME q > 0
      PROVE  d = D[L + 1 - r] /\ PointsRight(t)' /\ step'[t] = "digit"
  <2>1. step'[t] = "digit"
    BY <1>2, <1>4, <1>9
  <2>2. ~(m < Radix)
    <3>1. q = m \div Radix /\ ~(q = 0)
      BY <1>4, <1>9
    <3> QED
      BY <3>1, DivideByRadix, Zenon
  <2>3. e = Append(s, d)
    BY <1>4, <1>6, <2>2, DigitsAreOf DEF DigitsOf
  <2>4. Len(e) = Len(s) + 1 /\ e[Len(s) + 1] = d /\ \A i \in 1 .. Len(s) : e[i] = s[i]
    BY <1>6, <2>3
  <2>5. PICK k \in Nat : k = Len(s)
    BY <1>6
  <2>6. k + 1 = L + 1 - r /\ k # 0 /\ L + 1 - (r + 1) = k /\ r + 1 \in 1 .. L
    <3> HIDE DEF D
    <3>1. k + 1 = L + 1 - r
      BY <1>7, <2>4, <2>5, Zenon
    <3>2. k # 0 /\ r \in Nat /\ L \in Nat /\ 1 <= r
      BY <1>6, <1>7, <2>5
    <3> QED
      BY <3>1, <3>2
  <2>7. d = D[L + 1 - r]
    BY <1>7, <2>4, <2>5, <2>6
  <2>8. \A i \in 1 .. k : s[i] = D[i]
    <3> HIDE DEF D
    <3> QED
      BY <1>7, <2>4, <2>5, <2>6
  <2>9. /\ u'[t] = q /\ p'[t] = r + 1 /\ b'[t] = 1 /\ port'[t] = port[t]
    BY <1>2, <1>4, <1>7
  <2>10. PointsRight(t)'
    BY <1>5, <1>6, <1>7, <2>1, <2>5, <2>6, <2>8, <2>9 DEF PointsRight
  <2> QED
    BY <2>1, <2>7, <2>10
<1>10. d = D[L + 1 - r] /\ PointsRight(t)' /\ (q = 0 => r = L) /\ step'[t] \in {"digit", "terminate"}
       /\ (q > 0 => step'[t] = "digit")
  <2>1. q = 0 \/ q > 0
    BY <1>4
  <2> QED
    BY <1>8, <1>9, <2>1
<1>11. ASSUME ~disturbed'[t] PROVE HoldsRight(t)'
  <2>1. \A i \in 1 .. r - 1 : buff[i] = D[L + 1 - i]
    BY <1>1, <1>2, <1>4, <1>5, <1>11 DEF HoldsRight
  <2>2. \A i \in 1 .. r : buff'[i] = D[L + 1 - i]
    <3>1. ASSUME NEW i \in 1 .. r PROVE buff'[i] = D[L + 1 - i]
      <4>1. i \in 1 .. BuffLen /\ (i = r \/ i \in 1 .. r - 1)
        BY <1>7
      <4> QED
        BY <1>3, <1>4, <1>10, <2>1, <4>1
    <3> QED
      BY <3>1
  <2>3. /\ p'[t] = r + 1 /\ port'[t] = port[t] /\ (r + 1) - 1 = r
        /\ step'[t] = "terminate" => r = L
    BY <1>2, <1>4, <1>10
  <2> QED
    BY <1>5, <1>10, <2>2, <2>3 DEF HoldsRight, Finished
<1>12. NulInv'
  <2>1. Reached(r)
    BY <1>5, <1>7 DEF Reached
  <2>2. \A i \in 1 .. BuffLen : buff'[i] # NUL => i = r \/ buff[i] # NUL
    BY <1>3, <1>4
  <2> QED
    BY <1>1, <2>1, <2>2 DEF NulInv, Reached
<1>13. AddressTypeOK'
  <2>1. d \in 0 .. NUL /\ q \in Nat /\ p[t] + 1 \in Nat
    BY <1>4 DEF NUL, Radix
  <2> QED
    BY <1>1, <1>4, <2>1 DEF AddressTypeOK, Digit, StepTo, Disturbs
<1> QED
  BY <1>1, <1>2, <1>10, <1>11, <1>12, <1>13 DEF OwnInv, Reached

LEMMA TerminateStep ==
  ASSUME ItoaInv, NEW t \in Formatters, Terminate(t)
  PROVE  AddressTypeOK' /\ OwnInv(t)' /\ NulInv'
<1>1. /\ AddressTypeOK /\ PointsRight(t) /\ (~disturbed[t] => HoldsRight(t)) /\ NulInv
      /\ Reached(Len(address[t])) /\ step[t] = "terminate"
  BY DEF ItoaInv, PointerInv, ContentInv, LengthInv, Terminate
<1>2. /\ p'[t] = p[t] - 1 /\ b'[t] = b[t] /\ port'[t] = port[t]
      /\ address' = address /\ disturbed'[t] = disturbed[t] /\ step'[t] = "swap"
  BY <1>1 DEF AddressTypeOK, Terminate, StepTo, Disturbs
<1>3. \A i \in 1 .. BuffLen : buff'[i] = IF i = p[t] THEN NUL ELSE buff[i]
  BY <1>1 DEF AddressTypeOK, Terminate
<1> DEFINE D == Digits[port[t]]
<1>4. PICK L \in Nat : L = Len(D) /\ BuffLen \in Nat /\ 1 <= L /\ L < BuffLen
  BY <1>1, PortDigits DEF PointsRight
<1>5. port[t] \in Ports /\ p[t] = L + 1 /\ b[t] = 1 /\ p'[t] = L
  BY <1>1, <1>2, <1>4 DEF PointsRight
<1>6. PointsRight(t)'
  BY <1>2, <1>4, <1>5 DEF PointsRight
<1>7. ASSUME ~disturbed'[t] PROVE HoldsRight(t)'
  <2>1. \A i \in 1 .. L : buff[i] = D[L + 1 - i]
    BY <1>1, <1>2, <1>4, <1>7 DEF HoldsRight
  <2>2. buff'[L + 1] = NUL
    BY <1>3, <1>4, <1>5
  <2>3. \A i \in 1 .. L : buff'[i] = D[L + 1 - i]
    <3>1. ASSUME NEW i \in 1 .. L PROVE buff'[i] = buff[i]
      BY <1>3, <1>4, <1>5
    <3> QED
      BY <2>1, <3>1
  <2>4. \A i \in 1 .. L : ~(i < 1) /\ ~(i > L)
    BY <1>4
  <2> QED
    BY <1>2, <1>4, <1>5, <2>2, <2>3, <2>4 DEF HoldsRight, Finished
<1>8. NulInv'
  BY <1>1, <1>3 DEF NulInv, Reached
<1>9. AddressTypeOK'
  <2>1. NUL \in 0 .. NUL /\ p[t] - 1 \in Nat
    BY <1>4, <1>5 DEF NUL, Radix
  <2> QED
    BY <1>1, <2>1 DEF AddressTypeOK, Terminate, StepTo, Disturbs
<1> QED
  BY <1>1, <1>2, <1>6, <1>7, <1>8, <1>9 DEF OwnInv, Reached

LEMMA SwapStep ==
  ASSUME ItoaInv, NEW t \in Formatters, Swap(t)
  PROVE  AddressTypeOK' /\ OwnInv(t)' /\ NulInv'
<1>1. /\ AddressTypeOK /\ PointsRight(t) /\ (~disturbed[t] => HoldsRight(t)) /\ NulInv
      /\ Reached(Len(address[t])) /\ step[t] = "swap"
  BY DEF ItoaInv, PointerInv, ContentInv, LengthInv, Swap
<1> DEFINE D == Digits[port[t]]
<1>2. PICK L \in Nat : L = Len(D) /\ BuffLen \in Nat /\ 1 <= L /\ L < BuffLen
  BY <1>1, PortDigits DEF PointsRight
<1>3. PICK r \in Nat, c \in Nat : r = p[t] /\ c = b[t]
  BY <1>1 DEF AddressTypeOK
<1>4. port[t] \in Ports /\ c >= 1 /\ r + c = L + 1 /\ c <= r
  BY <1>1, <1>2, <1>3 DEF PointsRight
<1>5. /\ p'[t] = r - 1 /\ b'[t] = c + 1 /\ port'[t] = port[t]
      /\ address' = address /\ disturbed'[t] = disturbed[t]
      /\ step'[t] = IF c + 1 < r - 1 THEN "swap" ELSE "copy"
  BY <1>1, <1>3 DEF AddressTypeOK, Swap, StepTo, Disturbs
<1>6. r \in 1 .. L /\ c \in 1 .. L /\ 1 .. L \subseteq 1 .. BuffLen
  BY <1>2, <1>4
<1>7. \A i \in 1 .. BuffLen :
        buff'[i] = IF i = c THEN buff[r] ELSE IF i = r THEN buff[c] ELSE buff[i]
  BY <1>1, <1>3, <1>6 DEF AddressTypeOK, Swap
<1>8. PointsRight(t)'
  <2>1. c + 1 < r - 1 => c + 1 >= 1 /\ (r - 1) + (c + 1) = L + 1 /\ c + 1 <= r - 1
    BY <1>4
  <2>2. step'[t] = "swap" => c + 1 < r - 1
    BY <1>5
  <2>3. step'[t] \in {"swap", "copy"}
    BY <1>5
  <2> QED
    BY <1>2, <1>4, <1>5, <2>1, <2>2, <2>3 DEF PointsRight
<1>9. ASSUME ~disturbed'[t] PROVE HoldsRight(t)'
  <2>1. /\ buff[L + 1] = NUL
        /\ \A i \in 1 .. L : buff[i] = IF i < c \/ i > r THEN D[i] ELSE D[L + 1 - i]
    BY <1>1, <1>2, <1>3, <1>5, <1>9 DEF HoldsRight
  <2>2. buff'[L + 1] = NUL
    BY <1>2, <1>4, <1>7, <2>1
  <2>3. ASSUME NEW i \in 1 .. L
        PROVE  buff'[i] = IF i < c + 1 \/ i > r - 1 THEN D[i] ELSE D[L + 1 - i]
    <3>1. CASE i = c
      <4>1. buff'[i] = buff[r] /\ buff[r] = D[L + 1 - r] /\ L + 1 - r = i /\ i < c + 1
        BY <1>4, <1>6, <1>7, <2>1, <3>1
      <4> QED
        BY <4>1
    <3>2. CASE i = r /\ i # c
      <4>1. buff'[i] = buff[c] /\ buff[c] = D[L + 1 - c] /\ L + 1 - c = i /\ i > r - 1
        BY <1>4, <1>6, <1>7, <2>1, <3>2
      <4> QED
        BY <4>1
    <3>3. CASE i # r /\ i # c
      <4>1. buff'[i] = buff[i]
        BY <1>6, <1>7, <3>3
      <4>2. (i < c + 1 <=> i < c) /\ (i > r - 1 <=> i > r)
        BY <3>3
      <4> QED
        BY <2>1, <4>1, <4>2
    <3> QED
      BY <3>1, <3>2, <3>3
  <2>4. ASSUME ~(c + 1 < r - 1), NEW i \in 1 .. L PROVE buff'[i] = D[i]
    <3>1. CASE i < c + 1 \/ i > r - 1
      BY <2>3, <3>1
    <3>2. CASE ~(i < c + 1) /\ ~(i > r - 1)
      <4>1. L + 1 - i = i
        BY <1>4, <2>4, <3>2
      <4> QED
        BY <2>3, <3>2, <4>1
    <3> QED
      BY <3>1, <3>2
  <2>5. step'[t] = "copy" => ~(c + 1 < r - 1)
    BY <1>5
  <2> QED
    BY <1>2, <1>5, <2>2, <2>3, <2>4, <2>5 DEF HoldsRight, Finished
<1>10. NulInv'
  <2>1. ASSUME NEW i \in 1 .. L PROVE Reached(i)
    BY <1>2, <1>4 DEF Reached
  <2>2. Reached(r) /\ Reached(c)
    BY <1>6, <2>1
  <2>3. \A i \in 1 .. BuffLen : buff'[i] # NUL => i = r \/ i = c \/ buff[i] # NUL
    BY <1>7
  <2> QED
    BY <1>1, <2>2, <2>3 DEF NulInv, Reached
<1>11. AddressTypeOK'
  <2>1. r \in 1 .. BuffLen /\ c \in 1 .. BuffLen /\ r - 1 \in Nat /\ c + 1 \in Nat
    BY <1>6
  <2>2. buff[r] \in 0 .. NUL /\ buff[c] \in 0 .. NUL
    BY <1>1, <2>1 DEF AddressTypeOK
  <2> QED
    BY <1>1, <1>3, <2>1, <2>2 DEF AddressTypeOK, Swap, StepTo, Disturbs
<1> QED
  BY <1>1, <1>5, <1>8, <1>9, <1>10, <1>11 DEF OwnInv, Reached

LEMMA FunctionIsSeq ==
  ASSUME NEW S, NEW n \in Nat, NEW f \in [1 .. n -> S]
  PROVE  f \in Seq(S) /\ Len(f) = n
OBVIOUS

IsPrefixOf(x, k, s, S) == x \in Seq(S) /\ Len(x) = k /\ \A i \in 1 .. k : x[i] = s[i]

LEMMA PrefixIs ==
  ASSUME NEW S, NEW s \in Seq(S), NEW k \in 0 .. Len(s)
  PROVE  IsPrefixOf(SubSeq(s, 1, k), k, s, S)
BY DEF IsPrefixOf

(* The caller's string ends before the first 0 of the buffer.              *)
LEMMA TextEnds ==
  ASSUME AddressTypeOK, NEW k \in 1 .. BuffLen, buff[k] = NUL, BuffLen \in Nat
  PROVE  \E j \in 1 .. BuffLen :
           Text = SubSeq(buff, 1, j - 1) /\ buff[j] = NUL /\ \A i \in 1 .. j - 1 : buff[i] # NUL
<1> DEFINE I == {i \in 1 .. Len(buff) : buff[i] = NUL}
<1>1. buff \in Seq(0 .. NUL) /\ Len(buff) = BuffLen
  BY DEF AddressTypeOK
<1>2. k \in I /\ I \subseteq Nat
  BY <1>1
<1>3. PICK j \in I : \A i \in I : j <= i
  <2> HIDE DEF I
  <2> QED
    BY <1>2, LeastNumber
<1>4. Min(I) = j
  <2>1. \A x \in I : (\A i \in I : x <= i) => x = j
    BY <1>2, <1>3
  <2> QED
    BY <1>3, <2>1 DEF Min
<1>5. SelectInSeq(buff, LAMBDA c : c = NUL) = j
  BY <1>2, <1>4 DEF SelectInSeq
<1>6. ASSUME NEW i \in 1 .. j - 1 PROVE buff[i] # NUL
  <2>1. i \in 1 .. Len(buff) /\ ~(j <= i)
    BY <1>1, <1>3
  <2> QED
    BY <1>3, <2>1
<1> QED
  BY <1>1, <1>3, <1>5, <1>6 DEF Text

LEMMA CopyStep ==
  ASSUME ItoaInv, NEW t \in Formatters, Copy(t)
  PROVE  AddressTypeOK' /\ OwnInv(t)' /\ NulInv'
<1>1. /\ AddressTypeOK /\ PointsRight(t) /\ (~disturbed[t] => HoldsRight(t)) /\ NulInv
      /\ step[t] = "copy"
  BY DEF ItoaInv, PointerInv, ContentInv, LengthInv, Copy
<1>2. /\ port' = port /\ address'[t] = Text /\ disturbed' = disturbed
      /\ step'[t] = "idle" /\ buff' = buff
  BY <1>1 DEF AddressTypeOK, Copy, StepTo
<1> DEFINE D == Digits[port[t]]
<1>3. PICK L \in Nat : L = Len(D) /\ BuffLen \in Nat /\ 1 <= L /\ L < BuffLen /\ D \in Seq(DecimalDigits)
  BY <1>1, PortDigits, DigitsType DEF PointsRight
<1>4. buff \in Seq(0 .. NUL) /\ Len(buff) = BuffLen
  <2>1. buff \in [1 .. BuffLen -> 0 .. NUL] /\ BuffLen \in Nat
    BY <1>1, <1>3 DEF AddressTypeOK
  <2> QED
    BY <2>1, FunctionIsSeq
<1>5. buff[BuffLen] = NUL
  <2>1. ~Reached(BuffLen)
    BY <1>3, PortDigits DEF Reached
  <2> QED
    BY <1>1, <1>3, <2>1 DEF NulInv
<1>6. PICK j \in 1 .. BuffLen :
        Text = SubSeq(buff, 1, j - 1) /\ buff[j] = NUL /\ \A i \in 1 .. j - 1 : buff[i] # NUL
  BY <1>1, <1>3, <1>5, TextEnds
<1>7. Text \in Seq(0 .. NUL) /\ Len(Text) = j - 1 /\ \A i \in 1 .. j - 1 : Text[i] = buff[i]
  <2>1. j - 1 \in 0 .. Len(buff)
    BY <1>3, <1>4
  <2>2. \A k \in 0 .. Len(buff) : IsPrefixOf(SubSeq(buff, 1, k), k, buff, 0 .. NUL)
    BY <1>4, PrefixIs
  <2> QED
    BY <1>6, <2>1, <2>2 DEF IsPrefixOf
<1>8. Reached(Len(Text))
  <2>1. CASE j = 1
    BY <1>7, <2>1, NothingIsReached
  <2>2. CASE j # 1
    <3>1. j - 1 \in 1 .. BuffLen /\ j - 1 \in 1 .. j - 1
      BY <1>3, <2>2
    <3>2. buff[j - 1] # NUL
      BY <1>6, <3>1
    <3> QED
      BY <1>1, <1>7, <3>1, <3>2 DEF NulInv
  <2> QED
    BY <2>1, <2>2
<1>9. ASSUME ~disturbed[t] PROVE Text = D
  <2>1. buff[L + 1] = NUL /\ \A i \in 1 .. L : buff[i] = D[i]
    BY <1>1, <1>3, <1>9 DEF HoldsRight
  <2>2. \A i \in 1 .. L : D[i] # NUL
    BY <1>1, <1>3, PortDigits DEF PointsRight
  <2>3. j = L + 1
    <3>1. ~(L + 1 < j)
      BY <1>3, <1>6, <2>1
    <3>2. ~(j < L + 1)
      <4>1. ASSUME j < L + 1 PROVE FALSE
        <5>1. j \in 1 .. L
          BY <1>3, <4>1
        <5>2. buff[j] = D[j] /\ D[j] # NUL
          BY <2>1, <2>2, <5>1, Zenon
        <5> QED
          BY <1>6, <5>2
      <4> QED
        BY <4>1
    <3> QED
      BY <1>3, <3>1, <3>2
  <2>4. Len(Text) = Len(D) /\ \A i \in 1 .. L : Text[i] = D[i]
    BY <1>3, <1>7, <2>1, <2>3
  <2> QED
    BY <1>3, <1>7, <2>4
<1>10. AddressTypeOK'
  BY <1>1, <1>7 DEF AddressTypeOK, Copy, StepTo
<1>11. OwnInv(t)'
  BY <1>1, <1>2, <1>8, <1>9 DEF OwnInv, PointsRight, HoldsRight, Finished, Reached
<1> QED
  BY <1>1, <1>2, <1>10, <1>11 DEF NulInv, Reached

LEMMA ItoaInvStarts == AddressInit => ItoaInv
<1> SUFFICES ASSUME AddressInit PROVE ItoaInv
  OBVIOUS
<1>1. AddressTypeOK
  <2>1. <<>> \in Seq(0 .. NUL) /\ NUL \in 0 .. NUL
    BY DEF NUL, Radix
  <2> QED
    BY <2>1 DEF AddressInit, AddressTypeOK
<1>2. ASSUME NEW t \in Formatters
      PROVE  PointsRight(t) /\ HoldsRight(t) /\ Reached(Len(address[t]))
  <2>1. step[t] = "idle" /\ address[t] = <<>> /\ Len(<<>>) = 0
    BY DEF AddressInit
  <2> QED
    BY <2>1, NothingIsReached DEF PointsRight, HoldsRight, Finished
<1>3. NulInv
  BY DEF AddressInit, NulInv
<1> QED
  BY <1>1, <1>2, <1>3 DEF ItoaInv, PointerInv, ContentInv, LengthInv

LEMMA ItoaInvStays == ItoaInv /\ [AddressNext]_addressVars => ItoaInv'
<1> SUFFICES ASSUME ItoaInv, [AddressNext]_addressVars PROVE ItoaInv'
  OBVIOUS
<1>1. CASE AddressNext
  <2>1. PICK t \in Formatters : ByThread(t)
    BY <1>1 DEF AddressNext, ByThread
  <2>2. AddressTypeOK' /\ OwnInv(t)' /\ NulInv'
    BY <2>1, BeginStep, DigitStep, TerminateStep, SwapStep, CopyStep DEF ByThread
  <2>3. ASSUME NEW v \in Formatters
        PROVE  PointsRight(v)' /\ (~disturbed'[v] => HoldsRight(v)') /\ Reached(Len(address'[v]))
    <3>1. CASE v = t
      BY <2>2, <3>1 DEF OwnInv
    <3>2. CASE v # t
      <4>1. AddressTypeOK /\ Reached(Len(address[v]))
        BY DEF ItoaInv, LengthInv
      <4>2. address'[v] = address[v]
        BY <2>1, <3>2, <4>1, OthersStay
      <4> QED
        BY <2>1, <3>2, <4>1, <4>2, OthersStayRight
    <3> QED
      BY <3>1, <3>2
  <2> QED
    BY <2>2, <2>3 DEF ItoaInv, PointerInv, ContentInv, LengthInv
<1>2. CASE UNCHANGED addressVars
  BY <1>2 DEF addressVars, ItoaInv, AddressTypeOK, PointerInv, ContentInv, NulInv, LengthInv,
              PointsRight, HoldsRight, Finished, Reached
<1> QED
  BY <1>1, <1>2

(* However many threads format ports of any number of digits at the same   *)
(* time, in a buffer of any length: an address is the digits of the port   *)
(* unless another thread has written to Itoa's buffer meanwhile, and it is *)
(* never longer than the longest port.                                     *)
THEOREM AddressesAreRight == AddressSpec => []AddressIsRight
<1>1. ItoaInv => AddressIsRight
  BY DEF ItoaInv, ContentInv, LengthInv, HoldsRight, Reached, AddressIsRight
<1> QED
  BY <1>1, ItoaInvStarts, ItoaInvStays, PTL DEF AddressSpec

------------------------------------------------------------------------------
(* The inductive invariant of a packet.                                    *)

PacketTypeOK ==
  /\ phase \in {"start", "packing", "packed", "reading", "rejected"}
  /\ len \in 0 .. BufferLen
  /\ fields \in Seq(Kinds)
  /\ memory \in [0 .. BufferLen - 1 -> Nat \X Nat]
  /\ pos \in Nat /\ packetLen \in Nat /\ endOffset \in Int
  /\ results \in Seq(Seq(Nat \X Nat))

(* Where each field starts, and the end flag behind them.                  *)
End(at) == at[Len(fields) + 1]
IsPlace(at) ==
  /\ at \in [1 .. Len(fields) + 1 -> Nat]
  /\ at[1] = HeaderLen
  /\ \A i \in 1 .. Len(fields) : at[i + 1] = at[i] + fields[i].size /\ at[i] < End(at)
  /\ \A i \in 1 .. Len(fields) + 1 : HeaderLen <= at[i]
  /\ HeaderLen + Len(fields) <= End(at)

(* A field is at its place, and not behind it.                             *)
FieldsLie(at) ==
  /\ \A i \in 1 .. Len(fields) : \A k \in 1 .. fields[i].size : memory[at[i] + k - 1] = <<i, k>>
  /\ \A x \in 0 .. BufferLen - 1 : \A i \in 1 .. Len(fields) :
       memory[x][1] = i => x < at[i + 1]

PacketLies(at) ==
  /\ packetLen = End(at) + TrailerLen /\ packetLen <= BufferLen
  /\ \A x \in 0 .. HeaderLen - 1 : memory[x] = <<Header, x + 1>>
  /\ \A k \in 1 .. TrailerLen : memory[End(at) + k - 1] = <<Trailer, k>>

PhaseInv(at) ==
  /\ phase \in {"start", "packing", "packed"} => results = <<>>
  /\ phase \in {"start", "packing"} =>
       \A x \in 0 .. BufferLen - 1 : memory[x][1] <= Len(fields)
  /\ phase = "start" => fields = <<>>
  /\ phase = "packing" => pos = End(at) /\ endOffset = len - TrailerLen /\ pos <= endOffset
  /\ phase \in {"packed", "reading", "rejected"} => PacketLies(at)
  /\ phase = "packed" => pos = packetLen /\ pos <= len
  /\ phase = "reading" => /\ fields # <<>> /\ packetLen <= len
                          /\ endOffset = packetLen - TrailerLen
                          /\ Len(results) <= Len(fields) /\ pos = at[Len(results) + 1]
  /\ phase = "rejected" => ~(fields # <<>> /\ packetLen <= len)

ResultsInv ==
  \A i \in 1 .. Len(results) :
    i <= Len(fields) /\ (fields[i].kind \in {"byte", "binary"} => results[i] = Written(i))

PacketInv ==
  /\ PacketTypeOK /\ ResultsInv
  /\ \E at : IsPlace(at) /\ FieldsLie(at) /\ PhaseInv(at)

LEMMA FieldKinds ==
  ASSUME NEW f \in Kinds
  PROVE  /\ f.size \in Nat \ {0} /\ Scale(f) \in Nat
         /\ f.kind \in {"byte", "binary"} => Scale(f) = 1
BY PacketAssumption DEF Kinds, Scale, IntSize, ShortSize

LEMMA PacketInvStarts == PacketInit => PacketInv
<1> SUFFICES ASSUME PacketInit PROVE PacketInv
  OBVIOUS
<1> USE DEF PacketInit
<1>1. PacketTypeOK
  BY PacketAssumption DEF PacketTypeOK, Foreign
<1>2. ResultsInv
  BY DEF ResultsInv
<1> DEFINE at == [i \in 1 .. 1 |-> HeaderLen]
<1>3. Len(fields) = 0 /\ at \in [1 .. 1 -> Nat] /\ at[1] = HeaderLen
  BY DEF HeaderLen, IntSize
<1>4. \A x \in 0 .. BufferLen - 1 : memory[x][1] = 0
  BY DEF Foreign
<1> HIDE DEF at
<1>5. IsPlace(at) /\ FieldsLie(at) /\ PhaseInv(at)
  BY <1>3, <1>4 DEF IsPlace, FieldsLie, PhaseInv, End, HeaderLen, IntSize
<1> QED
  BY <1>1, <1>2, <1>5 DEF PacketInv

LEMMA SetPackerStep ==
  ASSUME PacketInv, NEW n \in 1 .. BufferLen, PackerSetBuffer(n)
  PROVE  PacketInv'
<1>1. PICK at : IsPlace(at) /\ FieldsLie(at) /\ PhaseInv(at)
  BY DEF PacketInv
<1>2. /\ phase = "start" /\ n \in Nat /\ n <= BufferLen /\ n > HeaderLen + TrailerLen
      /\ phase' = "packing" /\ len' = n /\ pos' = HeaderLen /\ endOffset' = n - TrailerLen
      /\ fields' = fields /\ memory' = memory /\ packetLen' = packetLen /\ results' = results
  BY PacketAssumption DEF PackerSetBuffer
<1>3. PacketTypeOK'
  BY <1>2, PacketAssumption DEF PacketInv, PacketTypeOK, HeaderLen, TrailerLen, IntSize
<1>4. ResultsInv'
  BY <1>2 DEF PacketInv, ResultsInv, Written
<1>5. IsPlace(at)' /\ FieldsLie(at)'
  BY <1>1, <1>2 DEF IsPlace, FieldsLie, End
<1>6. End(at) = HeaderLen /\ Len(fields) = 0 /\ results = <<>>
  BY <1>1, <1>2 DEF IsPlace, PhaseInv, End
<1>7. PhaseInv(at)'
  BY <1>1, <1>2, <1>6 DEF PhaseInv, End, HeaderLen, TrailerLen, IntSize
<1> QED
  BY <1>3, <1>4, <1>5, <1>7 DEF PacketInv

LEMMA WriteFieldStep ==
  ASSUME PacketInv, NEW f \in Kinds, WriteField(f)
  PROVE  PacketInv'
<1>1. PICK at : IsPlace(at) /\ FieldsLie(at) /\ PhaseInv(at)
  BY DEF PacketInv
<1>2. PacketTypeOK /\ ResultsInv
  BY DEF PacketInv
<1>3. /\ phase = "packing" /\ pos + f.size <= endOffset
      /\ memory' = Store(pos, Cells(Len(fields) + 1, f.size))
      /\ pos' = pos + f.size /\ fields' = Append(fields, f)
      /\ phase' = phase /\ len' = len /\ endOffset' = endOffset
      /\ packetLen' = packetLen /\ results' = results
  BY DEF WriteField, Fits
<1>4. PICK m \in Nat, E \in Nat, z \in Nat \ {0} : m = Len(fields) /\ E = pos /\ z = f.size
  <2>1. pos \in Nat /\ fields \in Seq(Kinds)
    BY <1>2 DEF PacketTypeOK
  <2>2. Len(fields) \in Nat
    BY <2>1
  <2>3. f.size \in Nat \ {0}
    BY FieldKinds
  <2> QED
    BY <2>1, <2>2, <2>3
<1>5. /\ results = <<>> /\ at[m + 1] = E /\ endOffset = len - TrailerLen /\ len \in 0 .. BufferLen
      /\ \A x \in 0 .. BufferLen - 1 : memory[x][1] <= m
  BY <1>1, <1>2, <1>3, <1>4 DEF PhaseInv, End, PacketTypeOK
<1>6. /\ at \in [1 .. m + 1 -> Nat] /\ at[1] = HeaderLen
      /\ \A i \in 1 .. m : at[i + 1] = at[i] + fields[i].size /\ at[i] < E
      /\ \A i \in 1 .. m + 1 : HeaderLen <= at[i]
      /\ HeaderLen + m <= E
  BY <1>1, <1>4, <1>5 DEF IsPlace, End
<1>7. /\ Len(fields') = m + 1 /\ fields'[m + 1] = f /\ fields' \in Seq(Kinds)
      /\ \A i \in 1 .. m : fields'[i] = fields[i]
  BY <1>2, <1>3, <1>4 DEF PacketTypeOK
<1>8. PICK to : to = [i \in 1 .. m + 2 |-> IF i = m + 2 THEN E + z ELSE at[i]]
  OBVIOUS
<1>9. /\ to \in [1 .. m + 2 -> Nat] /\ to[m + 2] = E + z /\ to[m + 1] = E
      /\ \A i \in 1 .. m + 1 : to[i] = at[i]
  BY <1>5, <1>6, <1>8
<1>10. IsPlace(to)'
  <2>1. HeaderLen \in Nat
    BY DEF HeaderLen, IntSize
  <2>2. /\ (m + 1) + 1 = m + 2 /\ HeaderLen + (m + 1) <= E + z
    BY <1>6, <2>1
  <2>3. ASSUME NEW i \in 1 .. m + 1
        PROVE  to[i + 1] = to[i] + fields'[i].size /\ to[i] < E + z
    <3>1. CASE i = m + 1
      BY <1>4, <1>7, <1>9, <2>2, <3>1
    <3>2. CASE i \in 1 .. m
      <4>1. i + 1 \in 1 .. m + 1 /\ to[i + 1] = at[i + 1] /\ to[i] = at[i] /\ fields'[i] = fields[i]
        BY <1>7, <1>9, <3>2
      <4>2. at[i + 1] = at[i] + fields[i].size /\ at[i] < E /\ at[i] \in Nat
        BY <1>6, <3>2
      <4> QED
        BY <4>1, <4>2
    <3> QED
      BY <3>1, <3>2
  <2>4. ASSUME NEW i \in 1 .. m + 2 PROVE HeaderLen <= to[i]
    <3>1. CASE i = m + 2
      BY <1>6, <1>9, <2>1, <3>1
    <3>2. CASE i \in 1 .. m + 1
      BY <1>6, <1>9, <3>2
    <3> QED
      BY <3>1, <3>2
  <2>5. to[1] = HeaderLen
    BY <1>6, <1>9
  <2> QED
    BY <1>7, <1>9, <2>2, <2>3, <2>4, <2>5 DEF IsPlace, End
<1>11. \A x \in 0 .. BufferLen - 1 :
         memory'[x] = IF x \in E .. E + z - 1 THEN <<m + 1, x - E + 1>> ELSE memory[x]
  <2>1. Len(Cells(m + 1, z)) = z /\ \A k \in 1 .. z : Cells(m + 1, z)[k] = <<m + 1, k>>
    BY DEF Cells
  <2>2. DOMAIN memory = 0 .. BufferLen - 1
    BY <1>2 DEF PacketTypeOK
  <2>3. \A x \in E .. E + z - 1 : x - E + 1 \in 1 .. z
    OBVIOUS
  <2> QED
    BY <1>3, <1>4, <2>1, <2>2, <2>3 DEF Store
<1>12. E + z <= BufferLen - TrailerLen /\ BufferLen \in Nat
  BY <1>3, <1>4, <1>5, PacketAssumption DEF TrailerLen
<1>13. FieldsLie(to)'
  <2>1. ASSUME NEW i \in 1 .. m + 1, NEW k \in 1 .. fields'[i].size
        PROVE  memory'[to[i] + k - 1] = <<i, k>>
    <3>1. CASE i = m + 1
      <4>1. k \in 1 .. z /\ to[i] = E
        BY <1>4, <1>7, <1>9, <3>1
      <4>2. E + k - 1 \in E .. E + z - 1 /\ E + k - 1 \in 0 .. BufferLen - 1 /\ (E + k - 1) - E + 1 = k
        BY <1>12, <4>1 DEF TrailerLen
      <4> QED
        BY <1>11, <3>1, <4>1, <4>2
    <3>2. CASE i \in 1 .. m
      <4>1. /\ to[i] = at[i] /\ fields'[i] = fields[i] /\ fields[i].size \in Nat
            /\ at[i + 1] = at[i] + fields[i].size /\ at[i] \in Nat
            /\ i + 1 \in 1 .. m + 1
        <5>1. fields[i] \in Kinds
          BY <1>2, <1>4, <3>2 DEF PacketTypeOK
        <5>2. fields[i].size \in Nat
          BY <5>1, FieldKinds
        <5> QED
          BY <1>6, <1>7, <1>9, <3>2, <5>2
      <4>2. at[i + 1] <= E
        <5>1. CASE i = m
          BY <1>5, <5>1
        <5>2. CASE i # m
          <6>1. i + 1 \in 1 .. m
            BY <3>2, <5>2
          <6> QED
            BY <1>6, <6>1
        <5> QED
          BY <5>1, <5>2
      <4>3. at[i] + k - 1 \in 0 .. BufferLen - 1 /\ at[i] + k - 1 \notin E .. E + z - 1
        BY <1>12, <4>1, <4>2 DEF TrailerLen
      <4>4. memory[at[i] + k - 1] = <<i, k>>
        BY <1>1, <1>4, <3>2, <4>1 DEF FieldsLie
      <4> QED
        BY <1>11, <4>1, <4>3, <4>4
    <3> QED
      BY <3>1, <3>2
  <2>2. ASSUME NEW x \in 0 .. BufferLen - 1, NEW i \in 1 .. m + 1, memory'[x][1] = i
        PROVE  x < to[i + 1]
    <3>1. CASE x \in E .. E + z - 1
      <4>1. memory'[x] = <<m + 1, x - E + 1>>
        BY <1>11, <3>1
      <4>2. i = m + 1
        BY <2>2, <4>1
      <4> QED
        BY <1>9, <3>1, <4>2
    <3>2. CASE x \notin E .. E + z - 1
      <4>1. memory[x][1] = i
        BY <1>11, <2>2, <3>2
      <4>2. i \in 1 .. m /\ i + 1 \in 1 .. m + 1
        BY <1>5, <4>1
      <4>3. x < at[i + 1]
        BY <1>1, <1>4, <4>1, <4>2 DEF FieldsLie
      <4> QED
        BY <1>9, <4>2, <4>3
    <3> QED
      BY <3>1, <3>2
  <2> QED
    BY <1>7, <2>1, <2>2 DEF FieldsLie
<1>14. PhaseInv(to)'
  <2>1. \A x \in 0 .. BufferLen - 1 : memory'[x][1] <= m + 1
    <3>1. ASSUME NEW x \in 0 .. BufferLen - 1 PROVE memory'[x][1] <= m + 1
      <4>1. memory[x] \in Nat \X Nat /\ memory[x][1] \in Nat
        BY <1>2 DEF PacketTypeOK
      <4>2. memory'[x] = <<m + 1, x - E + 1>> \/ memory'[x] = memory[x]
        BY <1>11
      <4>3. memory[x][1] <= m
        BY <1>5
      <4> QED
        BY <4>1, <4>2, <4>3
    <3> QED
      BY <3>1
  <2>2. pos' = to[(m + 1) + 1] /\ pos' <= endOffset
    BY <1>3, <1>4, <1>9
  <2> QED
    BY <1>3, <1>5, <1>7, <2>1, <2>2 DEF PhaseInv, End
<1>15. PacketTypeOK'
  <2>1. memory' \in [0 .. BufferLen - 1 -> Nat \X Nat]
    <3>1. DOMAIN memory = 0 .. BufferLen - 1 /\ \A x \in 0 .. BufferLen - 1 : memory[x] \in Nat \X Nat
      BY <1>2 DEF PacketTypeOK
    <3>2. memory' = [x \in 0 .. BufferLen - 1 |-> memory'[x]]
      BY <1>3, <3>1 DEF Store
    <3>3. \A x \in 0 .. BufferLen - 1 : memory'[x] \in Nat \X Nat
      <4>1. ASSUME NEW x \in E .. E + z - 1 PROVE <<m + 1, x - E + 1>> \in Nat \X Nat
        OBVIOUS
      <4> QED
        BY <1>11, <3>1, <4>1
    <3> QED
      BY <3>2, <3>3
  <2>2. pos + f.size \in Nat
    BY <1>4
  <2> QED
    BY <1>2, <1>3, <1>7, <2>1, <2>2 DEF PacketTypeOK
<1>16. ResultsInv'
  BY <1>3, <1>5 DEF ResultsInv
<1> QED
  BY <1>10, <1>13, <1>14, <1>15, <1>16 DEF PacketInv

LEMMA FinishStep ==
  ASSUME PacketInv, Finish
  PROVE  PacketInv'
<1>1. PICK at : IsPlace(at) /\ FieldsLie(at) /\ PhaseInv(at)
  BY DEF PacketInv
<1>2. PacketTypeOK /\ ResultsInv
  BY DEF PacketInv
<1>3. /\ phase = "packing" /\ pos' = pos + TrailerLen /\ packetLen' = pos' /\ phase' = "packed"
      /\ len' = len /\ fields' = fields /\ endOffset' = endOffset /\ results' = results
  BY DEF Finish
<1>4. DOMAIN memory = 0 .. BufferLen - 1 /\ pos \in Nat /\ fields \in Seq(Kinds) /\ BufferLen \in Nat
  BY <1>2, PacketAssumption DEF PacketTypeOK
<1>5. \A x \in 0 .. BufferLen - 1 :
        memory'[x] = IF x < HeaderLen THEN <<Header, x + 1>>
                     ELSE IF x \in pos .. pos + TrailerLen - 1 THEN <<Trailer, x - pos + 1>>
                     ELSE memory[x]
  BY <1>4 DEF Finish
<1>6. PICK m \in Nat : m = Len(fields)
  BY <1>4
<1>7. /\ results = <<>> /\ at[m + 1] = pos /\ pos + TrailerLen <= len /\ len <= BufferLen
      /\ len \in Nat /\ pos + TrailerLen <= BufferLen
  <2>1. endOffset = len - TrailerLen /\ pos <= endOffset /\ len \in 0 .. BufferLen
    BY <1>1, <1>2, <1>3 DEF PhaseInv, PacketTypeOK
  <2>2. results = <<>> /\ at[m + 1] = pos
    BY <1>1, <1>3, <1>6 DEF PhaseInv, End
  <2> QED
    BY <1>4, <2>1, <2>2 DEF TrailerLen
<1>8. /\ \A i \in 1 .. m : at[i + 1] = at[i] + fields[i].size /\ at[i] < pos
      /\ \A i \in 1 .. m + 1 : HeaderLen <= at[i]
      /\ at \in [1 .. m + 1 -> Nat]
      /\ HeaderLen + m <= pos /\ m <= BufferLen
  BY <1>1, <1>4, <1>6, <1>7 DEF IsPlace, End, HeaderLen, TrailerLen, IntSize
<1>9. FieldsLie(at)'
  <2>1. ASSUME NEW i \in 1 .. m, NEW k \in 1 .. fields[i].size
        PROVE  memory'[at[i] + k - 1] = <<i, k>>
    <3>1. fields[i].size \in Nat
      BY <1>4, <1>6, FieldKinds
    <3>2. /\ at[i] \in Nat /\ at[i + 1] = at[i] + fields[i].size /\ HeaderLen <= at[i]
          /\ i + 1 \in 1 .. m + 1 /\ at[i + 1] \in Nat
      BY <1>8
    <3>3. at[i + 1] <= pos
      <4>1. CASE i = m
        BY <1>4, <1>7, <4>1
      <4>2. CASE i # m
        <5>1. i + 1 \in 1 .. m
          BY <4>2
        <5>2. at[i + 1] < pos
          BY <1>8, <5>1, Zenon
        <5> QED
          BY <1>4, <3>2, <5>2
      <4> QED
        BY <4>1, <4>2
    <3>4. /\ at[i] + k - 1 \in 0 .. BufferLen - 1 /\ ~(at[i] + k - 1 < HeaderLen)
          /\ at[i] + k - 1 \notin pos .. pos + TrailerLen - 1
      <4>1. /\ BufferLen \in Nat /\ pos + 2 <= BufferLen /\ at[i] >= 6 /\ k \in Nat /\ 1 <= k
            /\ at[i] + k <= at[i] + fields[i].size
        <5>1. BufferLen \in Nat /\ pos + 2 <= BufferLen
          BY <1>4, <1>7 DEF TrailerLen, HeaderLen, IntSize
        <5>2. at[i] >= 6
          BY <3>2 DEF TrailerLen, HeaderLen, IntSize
        <5>3. k \in Nat /\ 1 <= k /\ at[i] + k <= at[i] + fields[i].size
          BY <3>1, <3>2
        <5> QED
          BY <5>1, <5>2, <5>3, Zenon
      <4>2. at[i] + k <= pos
        BY <1>4, <3>1, <3>2, <3>3, <4>1
      <4> QED
        BY <1>4, <3>2, <4>1, <4>2 DEF TrailerLen, HeaderLen, IntSize
    <3>5. memory[at[i] + k - 1] = <<i, k>>
      BY <1>1, <1>6 DEF FieldsLie
    <3> QED
      BY <1>5, <3>4, <3>5
  <2>2. ASSUME NEW x \in 0 .. BufferLen - 1, NEW i \in 1 .. m, memory'[x][1] = i
        PROVE  x < at[i + 1]
    <3>1. i # Header /\ i # Trailer
      BY <1>4, <1>8 DEF Header, Trailer
    <3>2. <<Header, x + 1>>[1] = Header /\ <<Trailer, x - pos + 1>>[1] = Trailer
      OBVIOUS
    <3>3. memory'[x] = memory[x]
      BY <1>5, <2>2, <3>1, <3>2
    <3> QED
      BY <1>1, <1>6, <2>2, <3>3 DEF FieldsLie
  <2> QED
    BY <1>3, <1>6, <2>1, <2>2 DEF FieldsLie
<1>10. \A x \in 0 .. HeaderLen - 1 : memory'[x] = <<Header, x + 1>>
  <2>1. \A x \in 0 .. HeaderLen - 1 : x \in 0 .. BufferLen - 1 /\ x < HeaderLen
    BY <1>4, <1>7, <1>8 DEF HeaderLen, IntSize, TrailerLen
  <2> QED
    BY <1>5, <2>1
<1>11. \A k \in 1 .. TrailerLen : memory'[pos + k - 1] = <<Trailer, k>>
  <2>1. ASSUME NEW k \in 1 .. TrailerLen PROVE memory'[pos + k - 1] = <<Trailer, k>>
    <3>1. /\ pos + k - 1 \in 0 .. BufferLen - 1 /\ ~(pos + k - 1 < HeaderLen)
          /\ pos + k - 1 \in pos .. pos + TrailerLen - 1 /\ (pos + k - 1) - pos + 1 = k
      BY <1>4, <1>7, <1>8 DEF HeaderLen, IntSize, TrailerLen
    <3> QED
      BY <1>5, <3>1
  <2> QED
    BY <2>1
<1>12. IsPlace(at)'
  BY <1>1, <1>3 DEF IsPlace, End
<1>13. PhaseInv(at)'
  <2>1. packetLen' = at[m + 1] + TrailerLen /\ packetLen' <= BufferLen /\ pos' = packetLen' /\ pos' <= len'
    BY <1>3, <1>4, <1>7 DEF TrailerLen
  <2>2. End(at)' = pos
    BY <1>3, <1>6, <1>7 DEF End
  <2>3. PacketLies(at)'
    BY <1>3, <1>6, <1>7, <1>10, <1>11, <2>1, <2>2 DEF PacketLies
  <2> QED
    BY <1>3, <1>7, <2>1, <2>3 DEF PhaseInv
<1>14. PacketTypeOK'
  <2>1. memory' \in [0 .. BufferLen - 1 -> Nat \X Nat]
    <3>1. \A x \in 0 .. BufferLen - 1 : memory[x] \in Nat \X Nat
      BY <1>2 DEF PacketTypeOK
    <3>2. memory' = [x \in 0 .. BufferLen - 1 |-> memory'[x]]
      BY <1>4 DEF Finish
    <3>3. Header \in Nat /\ Trailer \in Nat
      BY <1>4 DEF Header, Trailer
    <3>4. ASSUME NEW x \in 0 .. BufferLen - 1 PROVE memory'[x] \in Nat \X Nat
      <4>1. <<Header, x + 1>> \in Nat \X Nat
        BY <3>3
      <4>2. x \in pos .. pos + TrailerLen - 1 => <<Trailer, x - pos + 1>> \in Nat \X Nat
        BY <1>4, <3>3
      <4> QED
        BY <1>5, <3>1, <4>1, <4>2
    <3> QED
      BY <3>2, <3>4
  <2>2. pos + TrailerLen \in Nat
    BY <1>4 DEF TrailerLen
  <2> QED
    BY <1>2, <1>3, <2>1, <2>2 DEF PacketTypeOK
<1>15. ResultsInv'
  BY <1>3, <1>7 DEF ResultsInv
<1> QED
  BY <1>9, <1>12, <1>13, <1>14, <1>15 DEF PacketInv

LEMMA SetUnPackerStep ==
  ASSUME PacketInv, NEW n \in 1 .. BufferLen, UnPackerSetBuffer(n)
  PROVE  PacketInv'
<1>1. PICK at : IsPlace(at) /\ FieldsLie(at) /\ PhaseInv(at)
  BY DEF PacketInv
<1>2. PacketTypeOK /\ ResultsInv
  BY DEF PacketInv
<1>3. /\ phase = "packed" /\ phase' = IF Recognized(n) THEN "reading" ELSE "rejected"
      /\ len' = n /\ pos' = HeaderLen /\ endOffset' = packetLen - TrailerLen
      /\ fields' = fields /\ memory' = memory /\ packetLen' = packetLen /\ results' = results
  BY DEF UnPackerSetBuffer
<1>4. results = <<>> /\ PacketLies(at)
  BY <1>1, <1>3 DEF PhaseInv
<1>5. /\ DOMAIN memory = 0 .. BufferLen - 1 /\ fields \in Seq(Kinds) /\ BufferLen \in Nat
      /\ packetLen \in Nat /\ n \in Nat /\ n <= BufferLen
  BY <1>2, PacketAssumption DEF PacketTypeOK
<1>6. PICK m \in Nat : m = Len(fields)
  BY <1>5
<1>7. PICK E \in Nat : E = End(at)
  BY <1>1, <1>6 DEF IsPlace, End
<1>8. /\ packetLen = E + TrailerLen /\ packetLen <= BufferLen
      /\ \A k \in 1 .. TrailerLen : memory[E + k - 1] = <<Trailer, k>>
  BY <1>4, <1>7 DEF PacketLies
<1>9. HeaderLen <= E /\ (HeaderLen < E <=> fields # <<>>)
  <2>1. at[1] = HeaderLen /\ at[m + 1] = E /\ HeaderLen + m <= E
    BY <1>1, <1>6, <1>7 DEF IsPlace, End
  <2>2. fields = <<>> <=> m = 0
    BY <1>5, <1>6
  <2> QED
    BY <2>1, <2>2 DEF HeaderLen, IntSize
<1>10. Load(packetLen - TrailerLen, TrailerLen) = Cells(Trailer, TrailerLen)
  <2>1. packetLen - TrailerLen = E
    BY <1>8 DEF TrailerLen
  <2>2. ASSUME NEW k \in 1 .. TrailerLen
        PROVE  (IF E + k - 1 \in DOMAIN memory THEN memory[E + k - 1] ELSE Foreign) = <<Trailer, k>>
    <3>1. E + k - 1 \in DOMAIN memory
      BY <1>5, <1>8 DEF TrailerLen
    <3> QED
      BY <1>8, <3>1
  <2> QED
    BY <2>1, <2>2 DEF Load, Cells
<1>11. Recognized(n) <=> fields # <<>> /\ packetLen <= n
  <2>1. packetLen - TrailerLen = E
    BY <1>8 DEF TrailerLen
  <2>2. HeaderLen < E /\ packetLen <= n => HeaderLen < n - TrailerLen
    BY <1>5, <1>8 DEF HeaderLen, IntSize, TrailerLen
  <2> QED
    BY <1>9, <1>10, <2>1, <2>2 DEF Recognized
<1>12. PacketTypeOK'
  <2>1. packetLen - TrailerLen \in Int /\ HeaderLen \in Nat /\ n \in 0 .. BufferLen
    BY <1>5 DEF TrailerLen, HeaderLen, IntSize
  <2> QED
    BY <1>2, <1>3, <2>1 DEF PacketTypeOK
<1>13. ResultsInv'
  BY <1>3, <1>4 DEF ResultsInv
<1>14. IsPlace(at)' /\ FieldsLie(at)'
  BY <1>1, <1>3 DEF IsPlace, FieldsLie, End
<1>15. PhaseInv(at)'
  <2>1. PacketLies(at)'
    BY <1>3, <1>4 DEF PacketLies, End
  <2>2. Len(results) = 0 /\ at[1] = HeaderLen
    BY <1>1, <1>4 DEF IsPlace
  <2>3. phase' \in {"reading", "rejected"} /\ (phase' = "reading" <=> fields # <<>> /\ packetLen <= n)
    BY <1>3, <1>11
  <2> QED
    BY <1>3, <1>6, <2>1, <2>2, <2>3 DEF PhaseInv
<1> QED
  BY <1>12, <1>13, <1>14, <1>15 DEF PacketInv

IsExtension(w, s, y, S) ==
  /\ w \in Seq(S) /\ Len(w) = Len(s) + 1 /\ w[Len(s) + 1] = y
  /\ \A i \in 1 .. Len(s) : w[i] = s[i]

LEMMA ExtensionIs ==
  ASSUME NEW S, NEW s \in Seq(S), NEW y \in S
  PROVE  IsExtension(Append(s, y), s, y, S)
BY DEF IsExtension

LEMMA ReadFieldStep ==
  ASSUME PacketInv, ReadField
  PROVE  PacketInv'
<1>1. PICK at : IsPlace(at) /\ FieldsLie(at) /\ PhaseInv(at)
  BY DEF PacketInv
<1>2. PacketTypeOK /\ ResultsInv
  BY DEF PacketInv
<1>3. PICK m \in Nat, r \in Nat : m = Len(fields) /\ r = Len(results)
  BY <1>2 DEF PacketTypeOK
<1>4. PICK f : f = fields[r + 1]
  OBVIOUS
<1>5. /\ phase = "reading" /\ r < m
      /\ results' = Append(results, Load(Scale(f) * pos, f.size))
      /\ pos' = pos + f.size
      /\ phase' = phase /\ len' = len /\ fields' = fields /\ memory' = memory
      /\ endOffset' = endOffset /\ packetLen' = packetLen
  BY <1>3, <1>4 DEF ReadField
<1>6. f \in Kinds /\ r + 1 \in 1 .. m /\ f.size \in Nat \ {0} /\ Scale(f) \in Nat
  <2>1. r + 1 \in 1 .. m /\ fields \in Seq(Kinds)
    BY <1>2, <1>3, <1>5 DEF PacketTypeOK
  <2> QED
    BY <1>3, <1>4, <2>1, FieldKinds
<1>7. PICK z \in Nat \ {0}, c \in Nat : z = f.size /\ c = Scale(f) * pos
  BY <1>2, <1>6 DEF PacketTypeOK
<1>8. PICK x : x = Load(c, z)
  OBVIOUS
<1>9. x = [k \in 1 .. z |-> IF c + k - 1 \in DOMAIN memory THEN memory[c + k - 1] ELSE Foreign]
  BY <1>8 DEF Load
<1>10. DOMAIN memory = 0 .. BufferLen - 1 /\ BufferLen \in Nat /\ pos \in Nat
  BY <1>2, PacketAssumption DEF PacketTypeOK
<1>11. /\ pos = at[r + 1] /\ PacketLies(at)
       /\ fields # <<>> /\ packetLen <= len /\ endOffset = packetLen - TrailerLen
  BY <1>1, <1>3, <1>5 DEF PhaseInv
<1>12. /\ at[(r + 1) + 1] = pos + z /\ HeaderLen <= pos
       /\ at \in [1 .. m + 1 -> Nat] /\ End(at) = at[m + 1]
       /\ \A i \in 1 .. m : at[i] < at[m + 1]
  BY <1>1, <1>3, <1>4, <1>6, <1>7, <1>11 DEF IsPlace, End
<1>13. pos + z <= BufferLen
  <2>1. packetLen = at[m + 1] + TrailerLen /\ packetLen <= BufferLen
    BY <1>11, <1>12 DEF PacketLies
  <2>2. PICK j : j = (r + 1) + 1
    OBVIOUS
  <2>3. j \in 1 .. m + 1 /\ (j = m + 1 \/ j \in 1 .. m)
    BY <1>6, <2>2
  <2>4. at[j] = at[m + 1] \/ at[j] < at[m + 1]
    BY <1>12, <2>3, Zenon
  <2>5. at[j] \in Nat /\ at[m + 1] \in Nat
    BY <1>12, <2>3
  <2>6. at[j] = pos + z
    BY <1>12, <2>2
  <2> QED
    BY <1>7, <1>10, <2>1, <2>4, <2>5, <2>6 DEF TrailerLen
<1>14. ASSUME f.kind \in {"byte", "binary"} PROVE x = Cells(r + 1, z)
  <2>1. c = pos
    BY <1>6, <1>7, <1>10, <1>14, FieldKinds
  <2>2. ASSUME NEW k \in 1 .. z
        PROVE  (IF c + k - 1 \in DOMAIN memory THEN memory[c + k - 1] ELSE Foreign) = <<r + 1, k>>
    <3>1. c + k - 1 \in DOMAIN memory
      BY <1>7, <1>10, <1>13, <2>1
    <3>2. memory[at[r + 1] + k - 1] = <<r + 1, k>>
      BY <1>1, <1>3, <1>4, <1>6, <1>7 DEF FieldsLie
    <3> QED
      BY <1>11, <2>1, <3>1, <3>2
  <2> QED
    BY <1>9, <2>2 DEF Cells
<1>16. x \in Seq(Nat \X Nat)
  <2>1. Foreign \in Nat \X Nat /\ \A y \in DOMAIN memory : memory[y] \in Nat \X Nat
    BY <1>2 DEF Foreign, PacketTypeOK
  <2>2. x \in [1 .. z -> Nat \X Nat]
    BY <1>9, <2>1
  <2> QED
    BY <2>2, FunctionIsSeq
<1>17. /\ Len(results') = r + 1 /\ results'[r + 1] = x /\ results' \in Seq(Seq(Nat \X Nat))
       /\ \A i \in 1 .. r : results'[i] = results[i]
  <2>1. results \in Seq(Seq(Nat \X Nat)) /\ results' = Append(results, x)
    BY <1>2, <1>5, <1>7, <1>8 DEF PacketTypeOK
  <2>2. IsExtension(results', results, x, Seq(Nat \X Nat))
    BY <1>16, <2>1, ExtensionIs, Zenon
  <2> QED
    BY <1>3, <2>2, Zenon DEF IsExtension
<1>18. ResultsInv'
  <2>1. ASSUME NEW i \in 1 .. r + 1
        PROVE  i <= m /\ (fields[i].kind \in {"byte", "binary"} => results'[i] = Written(i))
    <3>1. CASE i = r + 1
      <4>1. Written(i) = Cells(r + 1, z)
        BY <1>4, <1>7, <3>1 DEF Written
      <4> QED
        BY <1>4, <1>6, <1>14, <1>17, <3>1, <4>1
    <3>2. CASE i \in 1 .. r
      <4>1. i <= m /\ (fields[i].kind \in {"byte", "binary"} => results[i] = Written(i))
        BY <1>2, <1>3, <3>2 DEF ResultsInv
      <4> QED
        BY <1>17, <3>2, <4>1
    <3> QED
      BY <3>1, <3>2
  <2> QED
    BY <1>3, <1>5, <1>17, <2>1 DEF ResultsInv, Written
<1>19. IsPlace(at)' /\ FieldsLie(at)'
  BY <1>1, <1>5 DEF IsPlace, FieldsLie, End
<1>20. PhaseInv(at)'
  <2>1. PacketLies(at)'
    BY <1>5, <1>11 DEF PacketLies, End
  <2>2. pos' = at[(r + 1) + 1] /\ r + 1 <= m
    BY <1>3, <1>5, <1>7, <1>12
  <2> QED
    BY <1>3, <1>5, <1>11, <1>17, <2>1, <2>2 DEF PhaseInv
<1>21. PacketTypeOK'
  <2>1. pos + f.size \in Nat
    BY <1>6, <1>10
  <2> QED
    BY <1>2, <1>5, <1>17, <2>1 DEF PacketTypeOK
<1> QED
  BY <1>18, <1>19, <1>20, <1>21 DEF PacketInv

LEMMA PacketInvStays == PacketInv /\ [PacketNext]_packetVars => PacketInv'
<1> SUFFICES ASSUME PacketInv, [PacketNext]_packetVars PROVE PacketInv'
  OBVIOUS
<1>1. CASE PacketNext
  BY <1>1, SetPackerStep, SetUnPackerStep, WriteFieldStep, FinishStep, ReadFieldStep DEF PacketNext
<1>2. CASE UNCHANGED packetVars
  <2>1. PICK at : IsPlace(at) /\ FieldsLie(at) /\ PhaseInv(at)
    BY DEF PacketInv
  <2>2. (IsPlace(at) /\ FieldsLie(at) /\ PhaseInv(at))'
    BY <1>2, <2>1 DEF packetVars, IsPlace, FieldsLie, PhaseInv, PacketLies, End
  <2>3. (PacketTypeOK /\ ResultsInv)'
    BY <1>2 DEF packetVars, PacketInv, PacketTypeOK, ResultsInv, Written
  <2> QED
    BY <2>2, <2>3 DEF PacketInv
<1> QED
  BY <1>1, <1>2

------------------------------------------------------------------------------
(* The concatenation of a sequence of sequences.                           *)

(* All of the first i sequences of s, one behind the other.                *)
Joins(h, s, V) ==
  /\ h \in [Nat -> Seq(V)] /\ h[0] = <<>>
  /\ \A i \in 1 .. Len(s) : h[i] = h[i - 1] \o s[i]

LEMMA SomeJoins ==
  ASSUME NEW V, NEW s \in Seq(Seq(V))
  PROVE  \E h : Joins(h, s, V)
<1> DEFINE W == Seq(V)
           one(n) == IF n + 1 \in 1 .. Len(s) THEN s[n + 1] ELSE <<>>
           next == [n \in Nat |-> [q \in W |-> q \o one(n)]]
<1>1. ASSUME NEW n \in Nat, NEW q \in W PROVE q \o one(n) \in W
  <2>1. one(n) \in W
    OBVIOUS
  <2> HIDE DEF one
  <2> QED
    BY <2>1
<1>2. next \in Successors(W) /\ <<>> \in W
  <2>1. <<>> \in W
    OBVIOUS
  <2> HIDE DEF one, W
  <2> QED
    BY <1>1, <2>1 DEF Successors
<1>3. PICK h : IsRecursive(h, W, <<>>, next)
  <2> HIDE DEF W, next
  <2> QED
    BY <1>2, PrimitiveRecursion
<1>4. h \in [Nat -> W] /\ h[0] = <<>> /\ \A n \in Nat : h[n + 1] = h[n] \o one(n)
  <2>1. h \in [Nat -> W] /\ h[0] = <<>> /\ \A n \in Nat : h[n + 1] = next[n][h[n]]
    BY <1>3 DEF IsRecursive
  <2> HIDE DEF W, one
  <2> QED
    BY <2>1
<1>5. ASSUME NEW i \in 1 .. Len(s) PROVE h[i] = h[i - 1] \o s[i]
  <2>1. i - 1 \in Nat /\ (i - 1) + 1 = i
    OBVIOUS
  <2>2. h[i] = h[i - 1] \o one(i - 1)
    <3> HIDE DEF one, W
    <3> QED
      BY <1>4, <2>1
  <2>3. one(i - 1) = s[i]
    BY <2>1
  <2> QED
    BY <2>2, <2>3
<1> QED
  BY <1>4, <1>5 DEF Joins

LEMMA FlattenIs ==
  ASSUME NEW V, NEW s \in Seq(Seq(V)), NEW h, Joins(h, s, V)
  PROVE  FlattenSeq(s) = h[Len(s)]
<1>1. h \in [Nat -> Seq(V)] /\ h[0] = <<>> /\ \A i \in 1 .. Len(s) : h[i] = h[i - 1] \o s[i]
  BY DEF Joins
<1>2. Len(s) \in Nat
  OBVIOUS
<1>3. CASE Len(s) = 0
  BY <1>1, <1>3 DEF FlattenSeq
<1>4. CASE Len(s) # 0
  <2> DEFINE Step(g, i) == IF i = 1 THEN s[i] ELSE g[i - 1] \o s[i]
             flatten == CHOOSE g : g = [i \in 1 .. Len(s) |-> Step(g, i)]
             f == [i \in 1 .. Len(s) |-> h[i]]
  <2>1. FlattenSeq(s) = flatten[Len(s)]
    BY <1>4 DEF FlattenSeq
  <2>2. ASSUME NEW i \in 1 .. Len(s) PROVE f[i] = Step(f, i)
    <3>1. CASE i = 1
      <4>1. h[i] = h[i - 1] \o s[i] /\ i - 1 = 0 /\ s[i] \in Seq(V)
        <5> HIDE DEF f, flatten, Step
        <5>1. h[i] = h[i - 1] \o s[i]
          BY <1>1, Zenon
        <5>2. s[i] \in Seq(V)
          OBVIOUS
        <5> QED
          BY <3>1, <5>1, <5>2
      <4>2. h[i] = <<>> \o s[i]
        BY <1>1, <4>1
      <4> QED
        BY <3>1, <4>1, <4>2
    <3>2. CASE i # 1
      <4>1. i - 1 \in 1 .. Len(s)
        BY <1>2, <3>2
      <4> QED
        BY <1>1, <3>2, <4>1
    <3> QED
      BY <3>1, <3>2
  <2>3. f = [i \in 1 .. Len(s) |-> Step(f, i)]
    <3> HIDE DEF Step
    <3> QED
      BY <2>2
  <2>4. flatten = [i \in 1 .. Len(s) |-> Step(flatten, i)]
    <3> HIDE DEF f, Step
    <3> QED
      BY <2>3
  <2>5. \A i \in 1 .. Len(s) : flatten[i] = Step(flatten, i)
    <3> HIDE DEF Step, flatten
    <3> QED
      BY <2>4
  <2> HIDE DEF flatten
  <2> DEFINE T == {i \in Nat : i + 1 \in 1 .. Len(s) => flatten[i + 1] = h[i + 1]}
  <2>6. 0 \in T
    <3>1. ASSUME NEW i \in 1 .. Len(s), i = 1 PROVE flatten[i] = h[i]
      <4>1. flatten[i] = s[i] /\ f[i] = s[i]
        BY <2>2, <2>5, <3>1 DEF Step
      <4> QED
        BY <4>1
    <3> QED
      BY <3>1
  <2>7. ASSUME NEW n \in Nat, n \in T PROVE n + 1 \in T
    <3>1. ASSUME NEW j \in 1 .. Len(s), j = (n + 1) + 1 PROVE flatten[j] = h[j]
      <4>1. n + 1 \in 1 .. Len(s) /\ j - 1 = n + 1 /\ j # 1
        BY <1>2, <3>1
      <4>2. flatten[n + 1] = h[n + 1]
        BY <2>7, <4>1
      <4>3. flatten[j] = flatten[j - 1] \o s[j] /\ h[j] = h[j - 1] \o s[j]
        BY <1>1, <2>5, <4>1
      <4> QED
        BY <4>1, <4>2, <4>3
    <3> QED
      BY <3>1
  <2>8. \A n \in Nat : n \in T
    <3> HIDE DEF T
    <3> QED
      BY <2>6, <2>7, SetInduction
  <2>9. PICK n \in Nat : n + 1 = Len(s)
    <3>1. Len(s) - 1 \in Nat /\ (Len(s) - 1) + 1 = Len(s)
      BY <1>2, <1>4
    <3> QED
      BY <3>1
  <2> QED
    BY <2>1, <2>8, <2>9
<1> QED
  BY <1>3, <1>4

------------------------------------------------------------------------------
(* The fields of the buffer, joined, are what lies between header and end. *)
AllWritten == [i \in DOMAIN fields |-> Written(i)]

LEMMA CellsType ==
  ASSUME NEW i \in Nat, NEW z \in Nat
  PROVE  /\ Cells(i, z) \in Seq(Nat \X Nat) /\ Len(Cells(i, z)) = z
         /\ \A k \in 1 .. z : Cells(i, z)[k] = <<i, k>>
<1>1. Cells(i, z) \in [1 .. z -> Nat \X Nat]
  BY DEF Cells
<1>2. Cells(i, z) \in Seq(Nat \X Nat) /\ Len(Cells(i, z)) = z
  BY <1>1, FunctionIsSeq, Zenon
<1> QED
  BY <1>2 DEF Cells

JoinedIs(x, s, y, S) ==
  /\ x \in Seq(S) /\ Len(x) = Len(s) + Len(y)
  /\ \A i \in 1 .. Len(s) : x[i] = s[i]
  /\ \A i \in 1 .. Len(y) : x[Len(s) + i] = y[i]

LEMMA ConcatIs ==
  ASSUME NEW S, NEW s \in Seq(S), NEW y \in Seq(S)
  PROVE  JoinedIs(s \o y, s, y, S)
BY DEF JoinedIs

LEMMA FieldsJoined ==
  ASSUME PacketTypeOK, NEW at, IsPlace(at), FieldsLie(at), End(at) <= BufferLen
  PROVE  /\ FlattenSeq(AllWritten) \in Seq(Nat \X Nat)
         /\ Len(FlattenSeq(AllWritten)) = End(at) - HeaderLen
         /\ \A k \in 1 .. End(at) - HeaderLen :
              FlattenSeq(AllWritten)[k] = memory[HeaderLen + k - 1]
<1> DEFINE V == Nat \X Nat
           H == HeaderLen
<1>1. PICK m \in Nat : m = Len(fields)
  BY DEF PacketTypeOK
<1>2. \A i \in 1 .. m : fields[i] \in Kinds /\ fields[i].size \in Nat \ {0}
  <2>1. \A i \in 1 .. m : fields[i] \in Kinds
    BY <1>1 DEF PacketTypeOK
  <2> QED
    BY <2>1, FieldKinds
<1>3. AllWritten \in Seq(Seq(V)) /\ Len(AllWritten) = m /\ \A i \in 1 .. m : AllWritten[i] = Written(i)
  <2>1. DOMAIN fields = 1 .. m
    BY <1>1 DEF PacketTypeOK
  <2>2. ASSUME NEW i \in 1 .. m PROVE Written(i) \in Seq(V)
    <3>1. i \in Nat /\ fields[i].size \in Nat
      BY <1>2
    <3> QED
      BY <3>1, CellsType, Zenon DEF Written
  <2>3. AllWritten \in [1 .. m -> Seq(V)]
    BY <2>1, <2>2 DEF AllWritten
  <2>4. AllWritten \in Seq(Seq(V)) /\ Len(AllWritten) = m
    BY <1>1, <2>3, FunctionIsSeq, Zenon
  <2> QED
    BY <2>1, <2>4 DEF AllWritten
<1>4. PICK h : Joins(h, AllWritten, V)
  BY <1>3, SomeJoins, Zenon
<1>5. FlattenSeq(AllWritten) = h[m]
  BY <1>3, <1>4, FlattenIs, Zenon
<1>6. /\ h \in [Nat -> Seq(V)] /\ h[0] = <<>>
      /\ \A i \in 1 .. m : h[i] = h[i - 1] \o Written(i)
  BY <1>3, <1>4 DEF Joins
<1>7. /\ at \in [1 .. m + 1 -> Nat] /\ at[1] = H /\ H \in Nat
      /\ \A i \in 1 .. m : at[i + 1] = at[i] + fields[i].size
      /\ \A i \in 1 .. m + 1 : H <= at[i]
  BY <1>1 DEF IsPlace, HeaderLen, IntSize
<1> DEFINE Good(i) == /\ Len(h[i]) = at[i + 1] - H
                      /\ \A k \in 1 .. at[i + 1] - H : h[i][k] = memory[H + k - 1]
           T == {i \in Nat : i <= m => Good(i)}
<1> HIDE DEF V, H
<1>8. 0 \in T
  <2>1. h[0] = <<>> /\ at[0 + 1] = H /\ at[0 + 1] - H = 0
    BY <1>6, <1>7
  <2>2. Len(h[0]) = 0
    BY <2>1
  <2>3. Good(0)
    BY <2>1, <2>2
  <2> QED
    BY <2>3
<1>9. ASSUME NEW n \in Nat, n \in T PROVE n + 1 \in T
  <2>1. ASSUME n + 1 <= m PROVE Good(n + 1)
    <3>1. PICK j \in 1 .. m : j = n + 1
      BY <1>1, <2>1
    <3>2. j - 1 = n /\ n <= m
      BY <2>1, <3>1
    <3>3. Good(n)
      BY <1>9, <3>2
    <3>4. PICK z \in Nat \ {0} : z = fields[j].size
      BY <1>2
    <3>5. PICK A \in Nat, B \in Nat : A = at[j] /\ B = at[j + 1] /\ B = A + z /\ H <= A
      BY <1>7, <3>1, <3>4
    <3>6. PICK s \in Seq(V) : s = h[n] /\ Len(s) = A - H /\ \A k \in 1 .. A - H : s[k] = memory[H + k - 1]
      BY <1>6, <3>1, <3>3, <3>5
    <3>7. PICK y \in Seq(V) : y = Written(j) /\ Len(y) = z /\ \A k \in 1 .. z : y[k] = <<j, k>>
      <4>1. Written(j) = Cells(j, z)
        BY <3>4 DEF Written
      <4>2. j \in Nat /\ z \in Nat
        BY <1>1
      <4> QED
        BY <4>1, <4>2, CellsType DEF V
    <3>8. PICK x : x = h[j] /\ x = s \o y
      <4>1. h[j] = h[j - 1] \o Written(j)
        BY <1>6
      <4> QED
        BY <3>2, <3>6, <3>7, <4>1
    <3>9. JoinedIs(x, s, y, V)
      BY <3>8, ConcatIs, Zenon
    <3>10. Len(x) = B - H
      BY <1>7, <3>5, <3>6, <3>7, <3>9 DEF JoinedIs
    <3>11. ASSUME NEW k \in 1 .. B - H PROVE x[k] = memory[H + k - 1]
      <4>1. CASE k \in 1 .. A - H
        BY <3>6, <3>9, <4>1 DEF JoinedIs
      <4>2. CASE k \notin 1 .. A - H
        <5>1. H \in Nat
          BY <1>7
        <5>2. PICK i \in 1 .. z : k = (A - H) + i
          <6>1. PICK c \in Nat : c = A - H
            BY <3>5, <5>1
          <6>2. k \in 1 .. c + z /\ k \notin 1 .. c
            BY <3>5, <4>2, <5>1, <6>1
          <6>3. k - c \in 1 .. z /\ k = c + (k - c)
            BY <6>2
          <6> QED
            BY <6>1, <6>3
        <5>3. x[k] = <<j, i>>
          BY <3>6, <3>7, <3>9, <5>2 DEF JoinedIs
        <5>4. memory[at[j] + i - 1] = <<j, i>>
          BY <1>1, <3>4 DEF FieldsLie
        <5>5. H + k - 1 = A + i - 1
          <6>1. i \in Int /\ A \in Int /\ H \in Int
            BY <5>1
          <6> QED
            BY <5>2, <6>1
        <5> QED
          BY <3>5, <5>3, <5>4, <5>5
      <4> QED
        BY <4>1, <4>2
    <3> QED
      BY <3>1, <3>5, <3>8, <3>10, <3>11
  <2> QED
    BY <2>1
<1>10. \A n \in Nat : n \in T
  <2> HIDE DEF T
  <2> QED
    BY <1>8, <1>9, SetInduction
<1>11. Good(m) /\ h[m] \in Seq(V)
  BY <1>1, <1>6, <1>10
<1>12. at[m + 1] = End(at)
  BY <1>1 DEF End
<1> QED
  BY <1>5, <1>11, <1>12 DEF V, H

(* Whatever fields are written into a buffer of any length: what Finish    *)
(* leaves is header, fields and end flag within the buffer, SetBuffer      *)
(* takes it unless it is cut or has no data, bytes and binaries read back  *)
(* in their order, and HaveData tells when all has been read.              *)
THEOREM FieldsAreReadBack == PacketSpec => []FieldsReadBack
<1>1. PacketInv => FieldsReadBack
  <2> SUFFICES ASSUME PacketInv PROVE FieldsReadBack
    OBVIOUS
  <2>1. PICK at : IsPlace(at) /\ FieldsLie(at) /\ PhaseInv(at)
    BY DEF PacketInv
  <2>2. PacketTypeOK /\ ResultsInv
    BY DEF PacketInv
  <2>3. PICK m \in Nat, E \in Nat : m = Len(fields) /\ E = End(at)
    <3>1. Len(fields) \in Nat
      BY <2>2 DEF PacketTypeOK
    <3> QED
      BY <2>1, <3>1 DEF IsPlace, End
  <2>4. ASSUME phase = "packed" PROVE pos <= len /\ Load(0, pos) = Layout
    <3>1. PacketLies(at) /\ pos = packetLen /\ pos <= len
      BY <2>1, <2>4 DEF PhaseInv
    <3>2. /\ pos = E + TrailerLen /\ pos <= BufferLen /\ BufferLen \in Nat
          /\ \A x \in 0 .. HeaderLen - 1 : memory[x] = <<Header, x + 1>>
          /\ \A k \in 1 .. TrailerLen : memory[E + k - 1] = <<Trailer, k>>
      BY <2>3, <3>1, PacketAssumption DEF PacketLies
    <3>3. PICK w : w = FlattenSeq(AllWritten)
      OBVIOUS
    <3>4. /\ w \in Seq(Nat \X Nat) /\ Len(w) = E - HeaderLen
          /\ \A k \in 1 .. E - HeaderLen : w[k] = memory[HeaderLen + k - 1]
      <4>1. End(at) <= BufferLen
        BY <2>3, <3>2 DEF TrailerLen
      <4> QED
        BY <2>1, <2>2, <2>3, <3>3, <4>1, FieldsJoined
    <3>5. HeaderLen <= E
      BY <2>1, <2>3 DEF IsPlace, End, HeaderLen, IntSize
    <3>6. Header \in Nat /\ HeaderLen \in Nat /\ Trailer \in Nat /\ TrailerLen \in Nat
      BY <3>2 DEF Header, HeaderLen, IntSize, Trailer, TrailerLen
    <3>7. PICK c : c = Cells(Header, HeaderLen)
      OBVIOUS
    <3>8. PICK e : e = Cells(Trailer, TrailerLen)
      OBVIOUS
    <3>9. /\ c \in Seq(Nat \X Nat) /\ Len(c) = HeaderLen
          /\ e \in Seq(Nat \X Nat) /\ Len(e) = TrailerLen
          /\ \A k \in 1 .. HeaderLen : c[k] = <<Header, k>>
          /\ \A k \in 1 .. TrailerLen : e[k] = <<Trailer, k>>
      BY <3>6, <3>7, <3>8, CellsType, Zenon
    <3>10. PICK x : x = c \o w
      OBVIOUS
    <3>11. JoinedIs(x, c, w, Nat \X Nat)
      BY <3>4, <3>9, <3>10, ConcatIs, Zenon
    <3>12. PICK y : y = x \o e
      OBVIOUS
    <3>13. JoinedIs(y, x, e, Nat \X Nat)
      <4>1. x \in Seq(Nat \X Nat)
        BY <3>11 DEF JoinedIs
      <4> QED
        BY <3>9, <3>12, <4>1, ConcatIs, Zenon
    <3>14. Layout = y
      BY <3>3, <3>10, <3>12, <3>7, <3>8 DEF Layout, AllWritten
    <3>15. Len(x) = E /\ Len(y) = E + TrailerLen
      BY <2>3, <3>4, <3>5, <3>9, <3>11, <3>13 DEF JoinedIs, HeaderLen, IntSize, TrailerLen
    <3>16. ASSUME NEW k \in 1 .. pos PROVE y[k] = memory[k - 1]
      <4>1. CASE k \in 1 .. HeaderLen
        <5>1. k \in 1 .. E
          BY <2>3, <3>5, <4>1 DEF HeaderLen, IntSize
        <5>2. k \in 1 .. Len(x) /\ k \in 1 .. Len(c)
          BY <3>9, <3>15, <4>1, <5>1, Zenon
        <5>3. y[k] = x[k] /\ x[k] = c[k]
          BY <3>11, <3>13, <5>2 DEF JoinedIs
        <5>4. k - 1 \in 0 .. HeaderLen - 1 /\ (k - 1) + 1 = k
          BY <4>1 DEF HeaderLen, IntSize
        <5> QED
          BY <3>2, <3>9, <4>1, <5>3, <5>4
      <4>2. CASE k > HeaderLen /\ k <= E
        <5>1. PICK i \in 1 .. E - HeaderLen : k = HeaderLen + i
          <6>1. k - HeaderLen \in 1 .. E - HeaderLen /\ k = HeaderLen + (k - HeaderLen)
            BY <2>3, <4>2 DEF HeaderLen, IntSize
          <6> QED
            BY <6>1
        <5>2. y[k] = x[k]
          BY <3>13, <3>15, <4>2 DEF JoinedIs
        <5>3. x[k] = w[i]
          BY <3>4, <3>9, <3>11, <5>1 DEF JoinedIs
        <5>4. w[i] = memory[k - 1]
          <6>1. HeaderLen + i - 1 = k - 1
            <7>1. HeaderLen \in Int /\ i \in Int
              BY <2>3, <3>6
            <7> QED
              BY <5>1, <7>1
          <6> QED
            BY <3>4, <6>1
        <5> QED
          BY <5>2, <5>3, <5>4
      <4>3. CASE k > E
        <5>1. PICK i \in 1 .. TrailerLen : k = E + i
          <6>1. k \in 1 .. E + TrailerLen
            BY <3>2
          <6>2. k - E \in 1 .. TrailerLen /\ k = E + (k - E)
            BY <2>3, <4>3, <6>1 DEF TrailerLen
          <6> QED
            BY <6>2
        <5>2. y[k] = e[i]
          BY <3>9, <3>13, <3>15, <5>1 DEF JoinedIs
        <5>3. e[i] = <<Trailer, i>> /\ memory[E + i - 1] = <<Trailer, i>>
          BY <3>2, <3>9
        <5> QED
          BY <5>1, <5>2, <5>3
      <4> QED
        BY <2>3, <3>2, <4>1, <4>2, <4>3 DEF HeaderLen, IntSize
    <3>17. Load(0, pos) = [k \in 1 .. pos |-> memory[k - 1]]
      <4>1. DOMAIN memory = 0 .. BufferLen - 1 /\ pos \in Nat
        BY <2>2 DEF PacketTypeOK
      <4>2. \A k \in 1 .. pos : 0 + k - 1 \in DOMAIN memory /\ 0 + k - 1 = k - 1
        BY <3>2, <4>1
      <4> QED
        BY <4>2 DEF Load
    <3>18. y = [k \in 1 .. pos |-> memory[k - 1]]
      <4>1. y \in Seq(Nat \X Nat) /\ Len(y) = pos
        BY <3>2, <3>13, <3>15 DEF JoinedIs
      <4>2. y = [k \in 1 .. pos |-> y[k]]
        BY <4>1
      <4> QED
        BY <3>16, <4>2
    <3> QED
      BY <3>1, <3>14, <3>17, <3>18
  <2>5. phase \in {"reading", "rejected"} => (phase = "reading") = (fields # <<>> /\ packetLen <= len)
    BY <2>1 DEF PhaseInv
  <2>6. \A i \in DOMAIN results : fields[i].kind \in {"byte", "binary"} => results[i] = Written(i)
    <3>1. DOMAIN results = 1 .. Len(results)
      BY <2>2 DEF PacketTypeOK
    <3> QED
      BY <2>2, <3>1 DEF ResultsInv
  <2>7. ASSUME phase = "reading" PROVE HaveData = (Len(results) < Len(fields))
    <3>1. /\ PacketLies(at) /\ endOffset = packetLen - TrailerLen
          /\ Len(results) <= Len(fields) /\ pos = at[Len(results) + 1]
      BY <2>1, <2>7 DEF PhaseInv
    <3>2. endOffset = E
      BY <2>3, <3>1 DEF PacketLies, TrailerLen
    <3>3. PICK r \in Nat : r = Len(results)
      BY <2>2 DEF PacketTypeOK
    <3>4. CASE r = m
      BY <2>3, <3>1, <3>2, <3>3, <3>4 DEF HaveData, End
    <3>5. CASE r < m
      <4>1. r + 1 \in 1 .. m
        BY <3>5
      <4>2. at[r + 1] < E
        <5>1. \A i \in 1 .. m : at[i] < E
          BY <2>1, <2>3 DEF IsPlace
        <5> QED
          BY <4>1, <5>1, Zenon
      <4> QED
        BY <2>3, <3>1, <3>2, <3>3, <3>5, <4>2 DEF HaveData
    <3> QED
      BY <2>3, <3>1, <3>3, <3>4, <3>5
  <2> QED
    BY <2>4, <2>5, <2>6, <2>7 DEF FieldsReadBack
<1> QED
  BY <1>1, PacketInvStarts, PacketInvStays, PTL DEF PacketSpec

------------------------------------------------------------------------------
(* Least and greatest elements, and trimming.                              *)

LEMMA LeastIs ==
  ASSUME NEW S, S \subseteq Nat, S # {}
  PROVE  Least(S) \in S /\ \A i \in S : Least(S) <= i
<1>1. \E i \in S : \A j \in S : i <= j
  BY LeastNumber
<1> QED
  BY <1>1 DEF Least

(* A number known to be the least is what Least returns.                   *)
LEMMA LeastIsIt ==
  ASSUME NEW S, S \subseteq Nat, NEW i \in S, \A j \in S : i <= j
  PROVE  Least(S) = i
<1>1. PICK x : x = Least(S)
  OBVIOUS
<1>2. x \in S /\ \A j \in S : x <= j
  <2>1. S # {}
    OBVIOUS
  <2> QED
    BY <1>1, <2>1, LeastIs
<1>3. x \in Nat /\ i \in Nat /\ x <= i /\ i <= x
  BY <1>2
<1> QED
  BY <1>1, <1>3

LEMMA GreatestIs ==
  ASSUME NEW n \in Nat, NEW S, S \subseteq 0 .. n, S # {}
  PROVE  Greatest(S) \in S /\ \A j \in S : j <= Greatest(S)
<1> DEFINE D == {k \in Nat : n - k \in S}
<1>1. D # {} /\ D \subseteq Nat
  <2>1. PICK i \in S : TRUE
    OBVIOUS
  <2>2. n - i \in Nat /\ n - (n - i) = i
    BY <2>1
  <2> QED
    BY <2>1, <2>2
<1>2. PICK k \in D : \A j \in D : k <= j
  <2> HIDE DEF D
  <2> QED
    BY <1>1, LeastNumber
<1>3. PICK i \in S : i = n - k
  BY <1>2
<1>4. ASSUME NEW j \in S PROVE j <= i
  <2>1. j \in 0 .. n
    OBVIOUS
  <2>2. n - j \in Nat /\ n - (n - j) = j
    BY <2>1
  <2>3. n - j \in D
    BY <2>2
  <2>4. k <= n - j
    BY <1>2, <2>3
  <2> QED
    BY <1>1, <1>3, <2>1, <2>4
<1> HIDE DEF D
<1>5. \E x \in S : \A j \in S : j <= x
  BY <1>4
<1> QED
  BY <1>5 DEF Greatest

(* What Trim makes of a text: of one of blanks only nothing is changed if  *)
(* it is long and nothing is left if it is short; else what lies from its  *)
(* first to its last other character is left.                              *)
IsMiddle(s, a, z) ==
  /\ a \in 1 .. Len(s) /\ z \in a .. Len(s)
  /\ s[a] # Blank /\ s[z] # Blank
  /\ \A i \in 1 .. a - 1 : s[i] = Blank
  /\ \A i \in z + 1 .. Len(s) : s[i] = Blank

TrimsTo(s, w) ==
  \/ NonBlank(s) = {} /\ Len(s) > 1 /\ TrimWritesBefore(s) /\ w = s
  \/ NonBlank(s) = {} /\ Len(s) = 1 /\ ~TrimWritesBefore(s) /\ w = <<>>
  \/ /\ NonBlank(s) # {} /\ ~TrimWritesBefore(s)
     /\ \E a, z : IsMiddle(s, a, z) /\ w = SubSeq(s, a, z)

LEMMA TrimIs ==
  ASSUME NEW s \in Seq(Int), s # <<>>
  PROVE  TrimsTo(s, Trim(s))
<1>1. PICK n \in Nat \ {0} : n = Len(s)
  <2>1. Len(s) \in Nat \ {0}
    OBVIOUS
  <2> QED
    BY <2>1
<1>2. DOMAIN s = 1 .. n
  BY <1>1
<1>3. CASE NonBlank(s) = {}
  <2>1. TrimStart(s) = n + 1
    <3>1. NonBlank(s) \cup {Len(s) + 1} = {n + 1}
      BY <1>1, <1>3
    <3>2. Least({n + 1}) = n + 1
      BY LeastIsIt
    <3> QED
      BY <3>1, <3>2 DEF TrimStart
  <2>2. TrimEnd(s) = 1
    <3>1. NonBlank(s) \cup {1} = {1}
      BY <1>3
    <3>2. Greatest({1}) \in {1}
      <4>1. 1 \in Nat /\ {1} \subseteq 0 .. 1
        OBVIOUS
      <4> QED
        BY <4>1, GreatestIs
    <3> QED
      BY <3>1, <3>2 DEF TrimEnd
  <2>3. TrimWritesBefore(s) <=> n > 1
    BY <2>1, <2>2 DEF TrimWritesBefore
  <2>4. CASE n > 1
    BY <1>1, <1>3, <2>3, <2>4 DEF TrimsTo, Trim
  <2>5. CASE n = 1
    <3>1. SubSeq(s, 2, 1) = <<>>
      OBVIOUS
    <3>2. Trim(s) = <<>>
      BY <2>1, <2>2, <2>3, <2>5, <3>1 DEF Trim
    <3> QED
      BY <1>1, <1>3, <2>3, <2>5, <3>2 DEF TrimsTo
  <2> QED
    BY <2>4, <2>5
<1>4. CASE NonBlank(s) # {}
  <2>1. NonBlank(s) \subseteq 1 .. n
    BY <1>2 DEF NonBlank
  <2>2. PICK a : a = TrimStart(s)
    OBVIOUS
  <2>3. PICK z : z = TrimEnd(s)
    OBVIOUS
  <2>4. a \in NonBlank(s) /\ \A i \in NonBlank(s) : a <= i
    <3> DEFINE S == NonBlank(s) \cup {n + 1}
    <3>1. S \subseteq Nat /\ S # {}
      BY <2>1
    <3>2. a \in S /\ \A i \in S : a <= i
      <4> HIDE DEF S
      <4>1. a = Least(S)
        BY <1>1, <2>2 DEF TrimStart, S
      <4> QED
        BY <3>1, <4>1, LeastIs
    <3>3. ~(a = n + 1)
      BY <1>4, <2>1, <3>2
    <3> QED
      BY <3>2, <3>3
  <2>5. z \in NonBlank(s) /\ \A i \in NonBlank(s) : i <= z
    <3> DEFINE S == NonBlank(s) \cup {1}
    <3>1. S \subseteq 0 .. n /\ S # {}
      BY <2>1
    <3>2. z \in S /\ \A i \in S : i <= z
      <4> HIDE DEF S
      <4>1. z = Greatest(S)
        BY <2>3 DEF TrimEnd, S
      <4>2. n \in Nat
        OBVIOUS
      <4> QED
        BY <3>1, <4>1, <4>2, GreatestIs
    <3>3. z = 1 => z \in NonBlank(s)
      <4>1. ASSUME z = 1 PROVE z \in NonBlank(s)
        <5>1. PICK i \in NonBlank(s) : TRUE
          BY <1>4
        <5>2. i \in 1 .. n /\ i <= 1
          BY <2>1, <3>2, <4>1
        <5> QED
          BY <4>1, <5>2
      <4> QED
        BY <4>1
    <3> QED
      BY <3>2, <3>3
  <2>6. a \in 1 .. n /\ z \in 1 .. n /\ a <= z /\ s[a] # Blank /\ s[z] # Blank
    BY <2>1, <2>4, <2>5 DEF NonBlank
  <2>7. \A i \in 1 .. n : s[i] # Blank => a <= i /\ i <= z
    BY <1>2, <2>4, <2>5 DEF NonBlank
  <2>8. IsMiddle(s, a, z)
    BY <1>1, <2>6, <2>7 DEF IsMiddle
  <2>9. ~TrimWritesBefore(s)
    BY <2>2, <2>3, <2>6 DEF TrimWritesBefore
  <2>10. Trim(s) = SubSeq(s, a, z)
    BY <2>2, <2>3, <2>9 DEF Trim
  <2> QED
    BY <1>4, <2>8, <2>9, <2>10 DEF TrimsTo
<1> QED
  BY <1>3, <1>4

Blanks(k) == [i \in 1 .. k |-> Blank]
Strips(w) ==
  /\ w # <<>> => Head(w) # Blank /\ Last(w) # Blank
  /\ \E l, r \in 0 .. Len(text) : text = Blanks(l) \o w \o Blanks(r)

(* Trim takes the blanks at both ends and nothing else, unless the text    *)
(* has two or more blanks and nothing else.                                *)
LEMMA TrimTakes ==
  ASSUME text \in Seq(Int), text # <<>>
  PROVE  TrimTakesBlanks
<1>1. PICK s : s = Trim(text)
  OBVIOUS
<1>2. TrimsTo(text, s)
  BY <1>1, TrimIs
<1>3. PICK n \in Nat \ {0} : n = Len(text) /\ DOMAIN text = 1 .. n
  <2>1. Len(text) \in Nat \ {0} /\ DOMAIN text = 1 .. Len(text)
    OBVIOUS
  <2> QED
    BY <2>1
<1> SUFFICES /\ TrimWritesBefore(text) = (NonBlank(text) = {} /\ n > 1)
             /\ ~TrimWritesBefore(text) => Strips(s)
  BY <1>1, <1>3, Zenon DEF TrimTakesBlanks, OnlyBlanks, Strips, Blanks
<1>4. CASE NonBlank(text) = {} /\ n > 1 /\ TrimWritesBefore(text)
  BY <1>4
<1>5. CASE NonBlank(text) = {} /\ n = 1 /\ ~TrimWritesBefore(text) /\ s = <<>>
  <2>1. text = Blanks(1) \o <<>> \o Blanks(0)
    <3>1. text[1] = Blank
      BY <1>3, <1>5 DEF NonBlank
    <3>2. text = <<Blank>>
      BY <1>3, <1>5, <3>1
    <3>3. Blanks(1) = <<Blank>> /\ Blanks(0) = <<>>
      BY DEF Blanks
    <3>4. <<Blank>> \o <<>> \o <<>> = <<Blank>>
      BY DEF Blank
    <3> QED
      BY <3>2, <3>3, <3>4, Zenon
  <2>2. 1 \in 0 .. n /\ 0 \in 0 .. n /\ ~(n > 1)
    BY <1>3, <1>5
  <2>3. Strips(s)
    BY <1>3, <1>5, <2>1, <2>2, Zenon DEF Strips
  <2>4. TrimWritesBefore(text) = (NonBlank(text) = {} /\ n > 1)
    BY <1>5, <2>2 DEF TrimWritesBefore
  <2> QED
    BY <2>3, <2>4, Zenon
<1>6. CASE /\ NonBlank(text) # {} /\ ~TrimWritesBefore(text)
           /\ \E a, z : IsMiddle(text, a, z) /\ s = SubSeq(text, a, z)
  <2>1. PICK a, z : IsMiddle(text, a, z) /\ s = SubSeq(text, a, z)
    BY <1>6
  <2>2. /\ a \in 1 .. n /\ z \in a .. n /\ text[a] # Blank /\ text[z] # Blank
        /\ \A i \in 1 .. a - 1 : text[i] = Blank
        /\ \A i \in z + 1 .. n : text[i] = Blank
    BY <1>3, <2>1 DEF IsMiddle
  <2>3. /\ s \in Seq(Int) /\ Len(s) = z - a + 1 /\ Len(s) \in Nat \ {0}
        /\ \A i \in 1 .. z - a + 1 : s[i] = text[a + i - 1]
    BY <1>3, <2>1, <2>2
  <2>4. s # <<>> => Head(s) # Blank /\ Last(s) # Blank
    <3>1. s[1] = text[a]
      BY <2>2, <2>3
    <3>2. s[Len(s)] = text[z]
      BY <2>2, <2>3
    <3>3. Head(s) = s[1] /\ Last(s) = s[Len(s)]
      BY <2>3 DEF Last
    <3> QED
      BY <2>2, <3>1, <3>2, <3>3
  <2>5. PICK l \in 0 .. n, r \in 0 .. n : l = a - 1 /\ r = n - z
    BY <2>2
  <2>6. Blanks(l) \in Seq(Int) /\ Len(Blanks(l)) = l /\ Blanks(r) \in Seq(Int) /\ Len(Blanks(r)) = r
    BY DEF Blank, Blanks
  <2>7. \A i \in 1 .. l : Blanks(l)[i] = Blank
    BY DEF Blanks
  <2>8. \A i \in 1 .. r : Blanks(r)[i] = Blank
    BY DEF Blanks
  <2>9. PICK bl, br : bl = Blanks(l) /\ br = Blanks(r)
    OBVIOUS
  <2>10. PICK x : x = bl \o s
    OBVIOUS
  <2>11. JoinedIs(x, bl, s, Int)
    BY <2>3, <2>6, <2>9, <2>10, ConcatIs
  <2>12. PICK y : y = x \o br
    OBVIOUS
  <2>13. JoinedIs(y, x, br, Int)
    <3>1. x \in Seq(Int)
      BY <2>11 DEF JoinedIs
    <3> QED
      BY <2>6, <2>9, <2>12, <3>1, ConcatIs, Zenon
  <2>14. Len(x) = z /\ Len(y) = n /\ y \in Seq(Int)
    <3>1. Len(x) = l + Len(s) /\ Len(y) = Len(x) + r /\ y \in Seq(Int)
      BY <2>6, <2>9, <2>11, <2>13, Zenon DEF JoinedIs
    <3>2. Len(x) = z
      BY <1>3, <2>2, <2>3, <2>5, <3>1
    <3>3. z + r = n
      BY <1>3, <2>2, <2>5
    <3> QED
      BY <3>1, <3>2, <3>3, Zenon
  <2>15. ASSUME NEW i \in 1 .. n PROVE y[i] = text[i]
    <3>1. CASE i \in 1 .. l
      <4>1. i \in 1 .. Len(x) /\ i \in 1 .. Len(bl)
        BY <2>2, <2>5, <2>6, <2>9, <2>14, <3>1
      <4>2. y[i] = x[i] /\ x[i] = bl[i]
        BY <2>11, <2>13, <4>1 DEF JoinedIs
      <4> QED
        BY <2>2, <2>5, <2>7, <2>9, <3>1, <4>2
    <3>2. CASE i \in a .. z
      <4>1. PICK j \in 1 .. z - a + 1 : i = l + j
        <5>1. i - l \in 1 .. z - a + 1 /\ i = l + (i - l)
          BY <2>2, <2>5, <3>2
        <5> QED
          BY <5>1
      <4>2. i \in 1 .. Len(x) /\ j \in 1 .. Len(s) /\ i = Len(bl) + j
        <5>1. i \in 1 .. z
          BY <2>2, <3>2
        <5> QED
          BY <2>3, <2>6, <2>9, <2>14, <4>1, <5>1, Zenon
      <4>3. y[i] = x[i] /\ x[i] = s[j]
        BY <2>11, <2>13, <4>2 DEF JoinedIs
      <4>4. s[j] = text[a + j - 1] /\ a + j - 1 = i
        BY <2>2, <2>3, <2>5, <4>1
      <4> QED
        BY <4>3, <4>4
    <3>3. CASE i \in z + 1 .. n
      <4>1. PICK j \in 1 .. r : i = z + j
        <5>1. i - z \in 1 .. r /\ i = z + (i - z)
          BY <1>3, <2>2, <2>5, <3>3
        <5> QED
          BY <5>1
      <4>2. y[i] = br[j]
        BY <2>6, <2>9, <2>13, <2>14, <4>1 DEF JoinedIs
      <4> QED
        BY <2>2, <2>8, <2>9, <3>3, <4>2
    <3> QED
      BY <1>3, <2>2, <2>5, <3>1, <3>2, <3>3
  <2>16. y = text
    <3>1. y \in Seq(Int) /\ text \in Seq(Int) /\ Len(y) = Len(text)
      BY <1>3, <2>14
    <3>2. \A i \in 1 .. Len(y) : y[i] = text[i]
      BY <2>14, <2>15, Zenon
    <3>3. y = [i \in 1 .. Len(y) |-> y[i]] /\ text = [i \in 1 .. Len(text) |-> text[i]]
      BY <3>1
    <3> QED
      BY <3>1, <3>2, <3>3, Zenon
  <2>17. Strips(s)
    <3>1. text = Blanks(l) \o s \o Blanks(r)
      BY <2>9, <2>10, <2>12, <2>16
    <3> QED
      BY <1>3, <2>4, <3>1, Zenon DEF Strips
  <2>18. TrimWritesBefore(text) = (NonBlank(text) = {} /\ n > 1)
    BY <1>6 DEF TrimWritesBefore
  <2> QED
    BY <2>17, <2>18, Zenon
<1> QED
  BY <1>2, <1>3, <1>4, <1>5, <1>6, Zenon DEF TrimsTo

------------------------------------------------------------------------------
(* Splitting by spaces.                                                    *)

(* Where a word that goes on at i ends.                                    *)
IsWordEnd(s, i, e) ==
  /\ e \in i - 1 .. Len(s)
  /\ \A j \in i .. e : s[j] # Blank
  /\ e < Len(s) => s[e + 1] = Blank

LEMMA WordEndIs ==
  ASSUME NEW s \in Seq(Int), NEW i \in 1 .. Len(s) + 1
  PROVE  IsWordEnd(s, i, WordEnd(s, i))
<1> DEFINE S == {j \in i .. Len(s) : s[j] = Blank} \cup {Len(s) + 1}
<1>1. PICK n \in Nat : n = Len(s)
  OBVIOUS
<1>2. S \subseteq Nat /\ S # {}
  BY <1>1
<1>3. PICK x : x = Least(S)
  OBVIOUS
<1>4. x \in S /\ \A j \in S : x <= j
  <2> HIDE DEF S
  <2> QED
    BY <1>2, <1>3, LeastIs
<1>5. x \in i .. n + 1 /\ (x # n + 1 => s[x] = Blank)
  BY <1>1, <1>4
<1>6. \A j \in i .. x - 1 : s[j] # Blank
  BY <1>1, <1>4, <1>5
<1>7. WordEnd(s, i) = x - 1
  BY <1>3 DEF WordEnd
<1> QED
  BY <1>1, <1>5, <1>6, <1>7 DEF IsWordEnd

LEMMA OneWordEnd ==
  ASSUME NEW s \in Seq(Int), NEW i \in 1 .. Len(s) + 1, NEW e, IsWordEnd(s, i, e)
  PROVE  WordEnd(s, i) = e
<1>1. PICK d : d = WordEnd(s, i) /\ IsWordEnd(s, i, d)
  BY WordEndIs
<1>2. PICK n \in Nat : n = Len(s)
  OBVIOUS
<1>3. d \in i - 1 .. n /\ e \in i - 1 .. n
  BY <1>1, <1>2 DEF IsWordEnd
<1>4. ~(d < e)
  BY <1>1, <1>2, <1>3 DEF IsWordEnd
<1>5. ~(e < d)
  BY <1>1, <1>2, <1>3 DEF IsWordEnd
<1> QED
  BY <1>1, <1>3, <1>4, <1>5

(* What StrSplitBySpaces has found from each place on.                     *)
SplitsBlanks(f, s) ==
  /\ f \in [1 .. Len(s) + 1 -> Seq(Seq(Int))]
  /\ f[Len(s) + 1] = <<>>
  /\ \A i \in 1 .. Len(s) :
       f[i] = IF s[i] = Blank THEN f[i + 1]
              ELSE <<SubSeq(s, i, WordEnd(s, i))>> \o f[WordEnd(s, i) + 1]

LEMMA SplitBySpacesIs ==
  ASSUME NEW src, NEW s \in Seq(Int), s = Trim(src)
  PROVE  \E f : SplitsBlanks(f, s) /\ StrSplitBySpaces(src) = f[1]
<1> DEFINE V == Seq(Seq(Int))
           D == 1 .. Len(s) + 1
           Of(i, g) == IF i > Len(s) THEN <<>>
                       ELSE IF s[i] = Blank THEN g[i + 1]
                       ELSE <<SubSeq(s, i, WordEnd(s, i))>> \o g[WordEnd(s, i) + 1]
           F == [i \in D |-> [g \in [D -> V] |-> Of(i, g)]]
           rank == [i \in D |-> Len(s) + 1 - i]
<1>1. PICK n \in Nat : n = Len(s)
  OBVIOUS
<1>2. ASSUME NEW i \in D, ~(i > Len(s)), s[i] # Blank
      PROVE  /\ WordEnd(s, i) \in i .. n /\ WordEnd(s, i) + 1 \in D
             /\ SubSeq(s, i, WordEnd(s, i)) \in Seq(Int)
  <2>1. PICK e : e = WordEnd(s, i) /\ IsWordEnd(s, i, e)
    BY WordEndIs
  <2>2. e \in i .. n
    BY <1>1, <1>2, <2>1 DEF IsWordEnd
  <2>3. SubSeq(s, i, e) \in Seq(Int)
    BY <1>1, <2>2
  <2> QED
    BY <1>1, <2>1, <2>2, <2>3
<1>3. ASSUME NEW i \in D, NEW g \in [D -> V] PROVE Of(i, g) \in V
  <2>1. CASE i > Len(s)
    BY <2>1
  <2>2. CASE ~(i > Len(s)) /\ s[i] = Blank
    <3>1. i + 1 \in D
      BY <1>1, <2>2
    <3> QED
      BY <2>2, <3>1
  <2>3. CASE ~(i > Len(s)) /\ s[i] # Blank
    <3>1. PICK w \in Seq(Int), r \in V : w = SubSeq(s, i, WordEnd(s, i)) /\ r = g[WordEnd(s, i) + 1]
      <4> HIDE DEF V
      <4> QED
        BY <1>2, <2>3
    <3>2. <<w>> \o r \in V
      OBVIOUS
    <3> QED
      BY <2>3, <3>1, <3>2
  <2> QED
    BY <2>1, <2>2, <2>3
<1>4. ASSUME NEW i \in D, NEW g, NEW h,
             \A j \in i + 1 .. n + 1 : g[j] = h[j]
      PROVE  Of(i, g) = Of(i, h)
  <2>1. CASE i > Len(s)
    BY <2>1
  <2>2. CASE ~(i > Len(s)) /\ s[i] = Blank
    <3>1. i + 1 \in i + 1 .. n + 1
      BY <1>1, <2>2
    <3>2. g[i + 1] = h[i + 1]
      BY <1>4, <3>1, Zenon
    <3> QED
      BY <2>2, <3>2
  <2>3. CASE ~(i > Len(s)) /\ s[i] # Blank
    <3>1. PICK e : e = WordEnd(s, i) + 1 /\ e \in i + 1 .. n + 1
      <4>1. WordEnd(s, i) \in i .. n
        BY <1>2, <2>3
      <4>2. WordEnd(s, i) + 1 \in i + 1 .. n + 1
        BY <1>1, <4>1
      <4> QED
        BY <4>2
    <3>2. g[e] = h[e]
      BY <1>4, <3>1, Zenon
    <3> QED
      BY <2>3, <3>1, <3>2
  <2> QED
    BY <2>1, <2>2, <2>3
<1>5. LooksDown(F, D, rank, V)
  <2>1. F \in [D -> [[D -> V] -> V]] /\ rank \in [D -> Nat]
    <3>1. rank \in [D -> Nat]
      BY <1>1
    <3> HIDE DEF V, D, Of
    <3> QED
      BY <1>3, <3>1
  <2>2. ASSUME NEW i \in D, NEW g \in [D -> V], NEW h \in [D -> V],
               \A j \in D : rank[j] < rank[i] => g[j] = h[j]
        PROVE  F[i][g] = F[i][h]
    <3>1. ASSUME NEW j \in i + 1 .. n + 1 PROVE g[j] = h[j]
      <4>1. j \in D /\ rank[j] < rank[i]
        BY <1>1
      <4> QED
        BY <2>2, <4>1
    <3>2. Of(i, g) = Of(i, h)
      <4> HIDE DEF V, D, Of
      <4> QED
        BY <1>4, <3>1
    <3> HIDE DEF V, D, Of
    <3> QED
      BY <3>2
  <2> HIDE DEF F, V, D, rank
  <2> QED
    BY <2>1, <2>2 DEF LooksDown
<1>6. PICK f : IsMadeBy(f, F, D, V)
  <2>1. <<>> \in V
    OBVIOUS
  <2> HIDE DEF F, V, D, rank
  <2> QED
    BY <1>5, <2>1, RankedRecursion
<1>7. f \in [D -> V] /\ f = [i \in D |-> Of(i, f)]
  <2>1. f \in [D -> V] /\ \A i \in D : f[i] = F[i][f]
    BY <1>6 DEF IsMadeBy
  <2>2. \A i \in D : F[i][f] = Of(i, f)
    <3> HIDE DEF Of, D, V
    <3> QED
      BY <2>1
  <2> HIDE DEF F, Of, D, V
  <2> QED
    BY <2>1, <2>2
<1> DEFINE From == CHOOSE g : g = [i \in D |-> Of(i, g)]
<1>8. From = [i \in D |-> Of(i, From)]
  <2> HIDE DEF Of, D
  <2> QED
    BY <1>7
<1>9. From = f
  <2>1. rank \in [D -> Nat]
    BY <1>1
  <2> DEFINE S == {i \in D : From[i] = f[i]}
  <2>2. ASSUME NEW i \in D, \A j \in D : rank[j] < rank[i] => j \in S PROVE i \in S
    <3>1. ASSUME NEW j \in i + 1 .. n + 1 PROVE From[j] = f[j]
      <4>1. j \in D /\ rank[j] < rank[i]
        BY <1>1
      <4> QED
        BY <2>2, <4>1
    <3>2. Of(i, From) = Of(i, f)
      <4> HIDE DEF V, D, Of, From
      <4> QED
        BY <1>4, <3>1
    <3> HIDE DEF V, D, Of, From
    <3> QED
      BY <1>7, <1>8, <3>2
  <2>3. \A i \in D : i \in S
    <3> HIDE DEF D, S, rank
    <3> QED
      BY <2>1, <2>2, RankedInduction
  <2> HIDE DEF Of, D, From
  <2> QED
    BY <1>7, <1>8, <2>3
<1>10. StrSplitBySpaces(src) = f[1]
  <2>1. StrSplitBySpaces(src) = From[1]
    BY DEF StrSplitBySpaces
  <2> HIDE DEF From
  <2> QED
    BY <1>9, <2>1
<1>11. SplitsBlanks(f, s)
  <2>1. f \in [D -> V] /\ \A i \in D : f[i] = Of(i, f)
    <3> HIDE DEF Of, D
    <3> QED
      BY <1>7
  <2>2. \A i \in 1 .. Len(s) : i \in D /\ ~(i > Len(s))
    BY <1>1
  <2>3. Len(s) + 1 \in D /\ Len(s) + 1 > Len(s)
    BY <1>1
  <2>4. f[Len(s) + 1] = <<>>
    <3> HIDE DEF D
    <3> QED
      BY <2>1, <2>3
  <2>5. ASSUME NEW i \in 1 .. Len(s)
        PROVE  f[i] = IF s[i] = Blank THEN f[i + 1]
                      ELSE <<SubSeq(s, i, WordEnd(s, i))>> \o f[WordEnd(s, i) + 1]
    <3> HIDE DEF D
    <3> QED
      BY <2>1, <2>2
  <2> QED
    BY <2>1, <2>4, <2>5 DEF SplitsBlanks
<1> QED
  BY <1>10, <1>11

------------------------------------------------------------------------------
(* s is what lies from a to z of r, and around it there are blanks only.   *)
IsPart(s, r, a, z) ==
  /\ s \in Seq(Int) /\ r \in Seq(Int)
  /\ a \in 1 .. Len(r) /\ z \in a - 1 .. Len(r)
  /\ Len(s) = z - a + 1
  /\ \A i \in 1 .. Len(s) : s[i] = r[a + i - 1]
  /\ \A i \in 1 .. Len(r) : i < a \/ i > z => r[i] = Blank

LEMMA TrimIsPart ==
  ASSUME NEW r \in Seq(Int), r # <<>>
  PROVE  \E a, z : IsPart(Trim(r), r, a, z)
<1>1. PICK s : s = Trim(r)
  OBVIOUS
<1>2. TrimsTo(r, s)
  BY <1>1, TrimIs
<1>3. PICK n \in Nat \ {0} : n = Len(r) /\ DOMAIN r = 1 .. n
  <2>1. Len(r) \in Nat \ {0} /\ DOMAIN r = 1 .. Len(r)
    OBVIOUS
  <2> QED
    BY <2>1
<1>4. CASE NonBlank(r) = {} /\ s = r
  <2>1. \A i \in 1 .. n : r[i] = Blank
    BY <1>3, <1>4 DEF NonBlank
  <2>2. IsPart(s, r, 1, n)
    BY <1>3, <1>4, <2>1 DEF IsPart
  <2> QED
    BY <1>1, <2>2
<1>5. CASE NonBlank(r) = {} /\ s = <<>>
  <2>1. \A i \in 1 .. n : r[i] = Blank
    BY <1>3, <1>5 DEF NonBlank
  <2>2. IsPart(s, r, 1, 0)
    BY <1>3, <1>5, <2>1 DEF IsPart
  <2> QED
    BY <1>1, <2>2
<1>6. CASE \E a, z : IsMiddle(r, a, z) /\ s = SubSeq(r, a, z)
  <2>1. PICK a, z : IsMiddle(r, a, z) /\ s = SubSeq(r, a, z)
    BY <1>6
  <2>2. /\ a \in 1 .. n /\ z \in a .. n
        /\ \A i \in 1 .. a - 1 : r[i] = Blank
        /\ \A i \in z + 1 .. n : r[i] = Blank
    BY <1>3, <2>1 DEF IsMiddle
  <2>3. /\ s \in Seq(Int) /\ Len(s) = z - a + 1
        /\ \A i \in 1 .. z - a + 1 : s[i] = r[a + i - 1]
    BY <1>3, <2>1, <2>2
  <2>4. ASSUME NEW i \in 1 .. n, i < a \/ i > z PROVE r[i] = Blank
    <3>1. i \in 1 .. a - 1 \/ i \in z + 1 .. n
      BY <2>2, <2>4
    <3> QED
      BY <2>2, <3>1
  <2>5. IsPart(s, r, a, z)
    BY <1>3, <2>2, <2>3, <2>4 DEF IsPart
  <2> QED
    BY <1>1, <2>5
<1> QED
  BY <1>2, <1>4, <1>5, <1>6 DEF TrimsTo

LEMMA OneIs ==
  ASSUME NEW V, NEW x \in V
  PROVE  <<x>> \in Seq(V) /\ Len(<<x>>) = 1 /\ <<x>>[1] = x
OBVIOUS

(* w holds the words of r that begin at the places of S, in their order.   *)
UpTo(S, i) == {j \in S : j <= i}
Lists(w, S, r) ==
  /\ Len(w) = Cardinality(S)
  /\ \A n \in 1 .. Len(w) : \E i \in S : Cardinality(UpTo(S, i)) = n /\ w[n] = WordAt(r, i)

LEMMA ListsMore ==
  ASSUME NEW r, NEW T, T \subseteq Nat, IsFiniteSet(T), NEW w \in Seq(Seq(Int)), Lists(w, T, r),
         NEW a \in Nat, \A j \in T : a < j, NEW x \in Seq(Int), x = WordAt(r, a)
  PROVE  Lists(<<x>> \o w, T \cup {a}, r)
<1>1. PICK m \in Nat : m = Len(w) /\ m = Cardinality(T)
  <2>1. Len(w) \in Nat /\ Len(w) = Cardinality(T)
    BY DEF Lists
  <2> QED
    BY <2>1
<1>2. PICK y : y = <<x>> \o w
  OBVIOUS
<1>3. Len(y) = 1 + m /\ y[1] = x /\ \A i \in 1 .. m : y[1 + i] = w[i]
  <2>1. PICK o \in Seq(Seq(Int)) : o = <<x>> /\ Len(o) = 1 /\ o[1] = x
    BY OneIs, Zenon
  <2>2. JoinedIs(y, o, w, Seq(Int))
    BY <1>2, <2>1, ConcatIs
  <2>3. /\ Len(y) = 1 + m
        /\ \A i \in 1 .. 1 : y[i] = o[i]
        /\ \A i \in 1 .. m : y[1 + i] = w[i]
    BY <1>1, <2>1, <2>2, Zenon DEF JoinedIs
  <2> QED
    BY <2>1, <2>3
<1>4. PICK S : S = T \cup {a}
  OBVIOUS
<1>5. ~(a \in T)
  BY SMT
<1>6. Cardinality(S) = m + 1
  BY <1>1, <1>4, <1>5, FS_AddElement
<1>7. Cardinality(UpTo(S, a)) = 1
  <2>1. UpTo(S, a) = {a}
    <3>1. \A j \in T : ~(j <= a)
      BY SMT
    <3>2. a <= a
      OBVIOUS
    <3> QED
      BY <1>4, <3>1, <3>2, Zenon DEF UpTo
  <2> QED
    BY <2>1, FS_Singleton
<1>8. ASSUME NEW i \in T PROVE Cardinality(UpTo(S, i)) = Cardinality(UpTo(T, i)) + 1
  <2>1. UpTo(S, i) = UpTo(T, i) \cup {a}
    BY <1>4 DEF UpTo
  <2>2. IsFiniteSet(UpTo(T, i)) /\ ~(a \in UpTo(T, i))
    <3>1. UpTo(T, i) \in SUBSET T
      BY DEF UpTo
    <3> QED
      BY <1>5, <3>1, FS_Subset
  <2> QED
    BY <2>1, <2>2, FS_AddElement
<1>9. ASSUME NEW n \in 1 .. 1 + m
      PROVE  \E i \in S : Cardinality(UpTo(S, i)) = n /\ y[n] = WordAt(r, i)
  <2>1. CASE n = 1
    BY <1>3, <1>4, <1>7, <2>1
  <2>2. CASE n # 1
    <3>1. PICK k \in 1 .. m : n = 1 + k
      <4>1. n - 1 \in 1 .. m /\ n = 1 + (n - 1)
        BY <2>2
      <4> QED
        BY <4>1
    <3>2. PICK i \in T : Cardinality(UpTo(T, i)) = k /\ w[k] = WordAt(r, i)
      BY <1>1 DEF Lists
    <3>3. Cardinality(UpTo(S, i)) = n
      BY <1>8, <3>1, <3>2
    <3>4. y[n] = w[k]
      BY <1>3, <3>1
    <3> QED
      BY <1>4, <3>2, <3>3, <3>4
  <2> QED
    BY <2>1, <2>2
<1>10. Len(y) = Cardinality(S) /\ 1 .. Len(y) = 1 .. 1 + m
  BY <1>3, <1>6
<1>11. Lists(y, S, r)
  BY <1>9, <1>10, Zenon DEF Lists
<1> QED
  BY <1>2, <1>4, <1>11, Zenon

StartsFrom(r, i) == {j \in WordStarts(r) : i <= j}

LEMMA WordStartsAre ==
  ASSUME NEW r \in Seq(Int)
  PROVE  /\ IsFiniteSet(WordStarts(r)) /\ WordStarts(r) \subseteq 1 .. Len(r)
         /\ \A j : j \in WordStarts(r) <=>
                   j \in 1 .. Len(r) /\ r[j] # Blank /\ (j = 1 \/ r[j - 1] = Blank)
<1>1. \A j : j \in WordStarts(r) <=>
             j \in 1 .. Len(r) /\ r[j] # Blank /\ (j = 1 \/ r[j - 1] = Blank)
  BY DEF WordStarts, NonBlank
<1>2. WordStarts(r) \in SUBSET (1 .. Len(r))
  BY <1>1
<1>3. IsFiniteSet(1 .. Len(r))
  <2>1. Len(r) \in Int
    OBVIOUS
  <2> QED
    BY <2>1, FS_Interval
<1> QED
  BY <1>1, <1>2, <1>3, FS_Subset

LEMMA StartsFromAre ==
  ASSUME NEW r \in Seq(Int), NEW i
  PROVE  IsFiniteSet(StartsFrom(r, i)) /\ StartsFrom(r, i) \subseteq Nat
<1>1. StartsFrom(r, i) \in SUBSET WordStarts(r)
  BY DEF StartsFrom
<1>2. 1 .. Len(r) \subseteq Nat
  OBVIOUS
<1> QED
  BY <1>1, <1>2, WordStartsAre, FS_Subset

(* What lies from a to z of a sequence.                                    *)
IsCut(x, s, a, z, V) ==
  /\ x \in Seq(V) /\ Len(x) = z - a + 1
  /\ \A k \in 1 .. z - a + 1 : x[k] = s[a + k - 1]

LEMMA CutIs ==
  ASSUME NEW V, NEW s \in Seq(V), NEW a \in 1 .. Len(s) + 1, NEW z \in a - 1 .. Len(s)
  PROVE  IsCut(SubSeq(s, a, z), s, a, z, V)
BY DEF IsCut

LEMMA SameSequence ==
  ASSUME NEW V, NEW x \in Seq(V), NEW y \in Seq(V), NEW n, Len(x) = n, Len(y) = n,
         \A k \in 1 .. n : x[k] = y[k]
  PROVE  x = y
<1>1. x = [k \in 1 .. n |-> x[k]] /\ y = [k \in 1 .. n |-> y[k]]
  OBVIOUS
<1> QED
  BY <1>1, Zenon

LEMMA WordsFrom ==
  ASSUME NEW r, NEW s, NEW a, NEW z, IsPart(s, r, a, z), NEW f, SplitsBlanks(f, s),
         NEW i \in 1 .. Len(s) + 1, i <= Len(s) /\ s[i] # Blank => a + i - 1 \in WordStarts(r)
  PROVE  Lists(f[i], StartsFrom(r, a + i - 1), r)
<1>1. PICK m \in Nat, n \in Nat : m = Len(s) /\ n = Len(r)
  <2>1. s \in Seq(Int) /\ r \in Seq(Int)
    BY Zenon DEF IsPart
  <2> QED
    BY <2>1
<1>2. /\ s \in Seq(Int) /\ r \in Seq(Int) /\ a \in 1 .. n /\ z \in a - 1 .. n /\ m = z - a + 1
      /\ \A j \in 1 .. m : s[j] = r[a + j - 1]
      /\ \A j \in 1 .. n : j < a \/ j > z => r[j] = Blank
  BY <1>1 DEF IsPart
<1>3. /\ f \in [1 .. m + 1 -> Seq(Seq(Int))] /\ f[m + 1] = <<>>
      /\ \A j \in 1 .. m :
           f[j] = IF s[j] = Blank THEN f[j + 1]
                  ELSE <<SubSeq(s, j, WordEnd(s, j))>> \o f[WordEnd(s, j) + 1]
  BY <1>1 DEF SplitsBlanks
<1> DEFINE D == 1 .. m + 1
           rank == [j \in D |-> m + 1 - j]
           Begins(j) == j <= m /\ s[j] # Blank => a + j - 1 \in WordStarts(r)
           Good(j) == Begins(j) => Lists(f[j], StartsFrom(r, a + j - 1), r)
           S == {j \in D : Good(j)}
<1>4. \A j \in 1 .. n : r[j] # Blank /\ (j = 1 \/ r[j - 1] = Blank) => j \in WordStarts(r)
  BY <1>1, <1>2, WordStartsAre
<1>5. \A j \in WordStarts(r) : j \in 1 .. n /\ r[j] # Blank /\ (j = 1 \/ r[j - 1] = Blank)
  BY <1>1, <1>2, WordStartsAre
<1>6. Good(m + 1)
  <2>1. StartsFrom(r, a + (m + 1) - 1) = {}
    <3>1. ASSUME NEW j \in WordStarts(r) PROVE ~(a + (m + 1) - 1 <= j)
      <4>1. j \in 1 .. n /\ ~(j > z)
        BY <1>2, <1>5
      <4> QED
        BY <1>2, <4>1
    <3> QED
      BY <3>1 DEF StartsFrom
  <2>2. PICK w : w = f[m + 1] /\ w = <<>> /\ Len(w) = 0 /\ 1 .. Len(w) = {}
    BY <1>3
  <2>3. Lists(w, {}, r)
    BY <2>2, FS_EmptySet, Zenon DEF Lists
  <2> QED
    BY <2>1, <2>2, <2>3
<1>7. ASSUME NEW j \in 1 .. m, s[j] = Blank, Good(j + 1) PROVE Good(j)
  <2>1. f[j] = f[j + 1]
    BY <1>3, <1>7
  <2>2. r[a + j - 1] = Blank /\ (a + j) - 1 = a + j - 1 /\ a + (j + 1) - 1 = a + j
        /\ (j + 1 <= m => a + j \in 1 .. n /\ s[j + 1] = r[a + j])
    BY <1>2, <1>7
  <2>3. StartsFrom(r, a + (j + 1) - 1) = StartsFrom(r, a + j - 1)
    <3>1. ASSUME NEW k \in WordStarts(r) PROVE a + j <= k <=> a + j - 1 <= k
      <4>1. k \in Nat /\ k # a + j - 1
        BY <1>5, <2>2
      <4> QED
        BY <1>2, <4>1
    <3>2. StartsFrom(r, a + j) = StartsFrom(r, a + j - 1)
      BY <3>1 DEF StartsFrom
    <3> QED
      BY <2>2, <3>2
  <2>4. Begins(j + 1)
    <3>1. ASSUME j + 1 <= m, s[j + 1] # Blank PROVE a + j \in WordStarts(r)
      <4>1. a + j \in 1 .. n /\ r[a + j] # Blank /\ r[(a + j) - 1] = Blank
        BY <2>2, <3>1
      <4> QED
        BY <1>4, <4>1
    <3> QED
      BY <2>2, <3>1
  <2> HIDE DEF Begins
  <2> QED
    BY <1>7, <2>1, <2>3, <2>4
<1>8. ASSUME NEW j \in 1 .. m, s[j] # Blank, \A k \in j + 1 .. m + 1 : Good(k) PROVE Good(j)
  <2>1. PICK e : e = WordEnd(s, j) /\ IsWordEnd(s, j, e)
    <3>1. j \in 1 .. Len(s) + 1
      BY <1>1
    <3> QED
      BY <1>2, <3>1, WordEndIs
  <2>2. /\ e \in j .. m /\ (\A k \in j .. e : s[k] # Blank) /\ (e < m => s[e + 1] = Blank)
    <3>1. /\ e \in j - 1 .. m /\ (\A k \in j .. e : s[k] # Blank) /\ (e < m => s[e + 1] = Blank)
      BY <1>1, <2>1 DEF IsWordEnd
    <3>2. e # j - 1
      BY <1>8, <3>1
    <3> QED
      BY <3>1, <3>2
  <2>3. PICK x : x = SubSeq(s, j, e)
    OBVIOUS
  <2>4. f[j] = <<x>> \o f[e + 1]
    BY <1>3, <1>8, <2>1, <2>3
  <2>5. PICK q \in 1 .. n, d \in 1 .. n : q = a + j - 1 /\ d = a + e - 1
    <3>1. a + j - 1 \in 1 .. n /\ a + e - 1 \in 1 .. n
      BY <1>2, <2>2
    <3> QED
      BY <3>1
  <2>6. x \in Seq(Int) /\ Len(x) = e - j + 1 /\ \A k \in 1 .. e - j + 1 : x[k] = s[j + k - 1]
    <3>1. IsCut(x, s, j, e, Int)
      <4>1. j \in 1 .. Len(s) + 1 /\ e \in j - 1 .. Len(s)
        BY <1>1, <2>2
      <4> QED
        BY <1>2, <2>3, <4>1, CutIs
    <3> QED
      BY <3>1 DEF IsCut
  <2>7. IsWordEnd(r, q, d)
    <3>1. \A k \in q .. d : r[k] # Blank
      <4>1. ASSUME NEW k \in q .. d PROVE r[k] # Blank
        <5>1. PICK l \in j .. e : k = a + l - 1
          <6>1. k - a + 1 \in j .. e /\ k = a + (k - a + 1) - 1
            BY <1>2, <2>2, <2>5
          <6> QED
            BY <6>1
        <5>2. l \in 1 .. m /\ s[l] # Blank
          BY <2>2
        <5> QED
          BY <1>2, <5>1, <5>2
      <4> QED
        BY <4>1
    <3>2. ASSUME d < n PROVE r[d + 1] = Blank
      <4>1. CASE e < m
        <5>1. e + 1 \in 1 .. m /\ a + (e + 1) - 1 = d + 1
          BY <1>2, <2>2, <2>5, <4>1
        <5>2. s[e + 1] = r[d + 1]
          BY <1>2, <5>1
        <5> QED
          BY <2>2, <4>1, <5>2
      <4>2. CASE e = m
        <5>1. d + 1 \in 1 .. n /\ d + 1 > z
          BY <1>2, <2>5, <3>2, <4>2
        <5> QED
          BY <1>2, <5>1
      <4> QED
        BY <2>2, <4>1, <4>2
    <3>3. d \in q - 1 .. n
      BY <1>2, <2>2, <2>5
    <3> QED
      BY <1>1, <3>1, <3>2, <3>3 DEF IsWordEnd
  <2>8. WordEnd(r, q) = d
    <3>1. q \in 1 .. Len(r) + 1
      BY <1>1
    <3> QED
      BY <1>2, <2>7, <3>1, OneWordEnd
  <2>9. x = WordAt(r, q)
    <3>1. PICK y : y = SubSeq(r, q, d)
      OBVIOUS
    <3>2. y \in Seq(Int) /\ Len(y) = d - q + 1 /\ \A k \in 1 .. d - q + 1 : y[k] = r[q + k - 1]
      <4>1. IsCut(y, r, q, d, Int)
        <5>1. q \in 1 .. Len(r) + 1 /\ d \in q - 1 .. Len(r)
          BY <1>1, <1>2, <2>2, <2>5
        <5> QED
          BY <1>2, <3>1, <5>1, CutIs
      <4> QED
        BY <4>1 DEF IsCut
    <3>3. ASSUME NEW k \in 1 .. e - j + 1 PROVE x[k] = y[k]
      <4>1. k \in 1 .. d - q + 1 /\ j + k - 1 \in 1 .. m /\ a + (j + k - 1) - 1 = q + k - 1
        BY <1>2, <2>2, <2>5
      <4>2. x[k] = s[j + k - 1] /\ y[k] = r[q + k - 1]
        BY <2>6, <3>2, <4>1
      <4>3. s[j + k - 1] = r[a + (j + k - 1) - 1]
        BY <1>2, <4>1
      <4> QED
        BY <4>1, <4>2, <4>3
    <3>4. Len(y) = e - j + 1
      BY <1>2, <2>2, <2>5, <3>2
    <3>5. x = y
      BY <2>6, <3>2, <3>3, <3>4, SameSequence, Zenon
    <3> QED
      BY <2>8, <3>1, <3>5 DEF WordAt
  <2>10. PICK T : T = StartsFrom(r, d + 1)
    OBVIOUS
  <2>11. StartsFrom(r, q) = T \cup {q} \/ ~(q \in WordStarts(r))
    <3>1. ASSUME NEW k \in WordStarts(r), k # q PROVE q <= k <=> d + 1 <= k
      <4>1. k \in 1 .. n /\ (k = 1 \/ r[k - 1] = Blank)
        BY <1>5
      <4>2. \A l \in q .. d : r[l] # Blank
        BY <1>1, <2>7 DEF IsWordEnd
      <4>3. ~(k - 1 \in q .. d)
        <5>1. ASSUME k - 1 \in q .. d PROVE FALSE
          BY <2>5, <4>1, <4>2, <5>1
        <5> QED
          BY <5>1
      <4> QED
        BY <1>2, <2>2, <2>5, <3>1, <4>1, <4>3
    <3>2. q <= q /\ ~(d + 1 <= q)
      BY <1>2, <2>2, <2>5
    <3> QED
      BY <2>10, <3>1, <3>2 DEF StartsFrom
  <2>12. PICK w \in Seq(Seq(Int)) : w = f[e + 1]
    BY <1>3, <2>2
  <2>13. Lists(w, T, r)
    <3>1. e + 1 \in j + 1 .. m + 1
      BY <2>2
    <3>2. Good(e + 1)
      <4> HIDE DEF Good
      <4> QED
        BY <1>8, <3>1
    <3>3. Begins(e + 1)
      BY <2>2
    <3>4. a + (e + 1) - 1 = d + 1
      BY <1>2, <2>2, <2>5
    <3> HIDE DEF Begins
    <3> QED
      BY <2>10, <2>12, <3>2, <3>3, <3>4
  <2>14. IsFiniteSet(T) /\ T \subseteq Nat /\ \A k \in T : q < k
    <3>1. \A k \in T : d + 1 <= k
      BY <2>10 DEF StartsFrom
    <3>2. IsFiniteSet(T) /\ T \subseteq Nat
      BY <1>2, <2>10, StartsFromAre
    <3>3. q < d + 1
      BY <1>2, <2>2, <2>5
    <3> QED
      BY <2>5, <3>1, <3>2, <3>3
  <2>15. Lists(<<x>> \o w, T \cup {q}, r)
    <3>1. q \in Nat /\ x \in Seq(Int)
      BY <2>6
    <3> QED
      BY <2>9, <2>13, <2>14, <3>1, ListsMore
  <2>16. ASSUME Begins(j) PROVE Lists(f[j], StartsFrom(r, a + j - 1), r)
    <3>1. q \in WordStarts(r)
      BY <1>8, <2>5, <2>16
    <3> QED
      BY <2>4, <2>5, <2>11, <2>12, <2>15, <3>1
  <2> QED
    BY <2>16
<1>9. \A j \in D : j \in S
  <2>1. ASSUME NEW j \in D, \A k \in D : rank[k] < rank[j] => k \in S PROVE j \in S
    <3>1. ASSUME NEW k \in j + 1 .. m + 1 PROVE Good(k)
      <4>1. k \in D /\ rank[k] < rank[j]
        OBVIOUS
      <4> HIDE DEF Good
      <4> QED
        BY <2>1, <4>1
    <3> HIDE DEF Good
    <3>2. CASE j = m + 1
      BY <1>6, <3>2
    <3>3. CASE j # m + 1 /\ s[j] = Blank
      <4>1. j \in 1 .. m /\ j + 1 \in j + 1 .. m + 1
        BY <3>3
      <4>2. Good(j + 1)
        BY <3>1, <4>1, Zenon
      <4> QED
        BY <1>7, <3>3, <4>1, <4>2
    <3>4. CASE j # m + 1 /\ s[j] # Blank
      <4>1. j \in 1 .. m
        BY <3>4
      <4> QED
        BY <1>8, <3>1, <3>4, <4>1
    <3> QED
      BY <3>2, <3>3, <3>4
  <2>2. rank \in [D -> Nat]
    OBVIOUS
  <2> HIDE DEF D, S, rank
  <2> QED
    BY <2>1, <2>2, RankedInduction
<1> QED
  BY <1>1, <1>9

LEMMA OneNth ==
  ASSUME NEW S, S \subseteq Nat, IsFiniteSet(S), NEW i \in S, NEW k \in S,
         Cardinality(UpTo(S, i)) = Cardinality(UpTo(S, k))
  PROVE  i = k
<1>1. ASSUME NEW x \in S, NEW y \in S, x <= y, Cardinality(UpTo(S, x)) = Cardinality(UpTo(S, y))
      PROVE  x = y
  <2>1. UpTo(S, x) \in SUBSET UpTo(S, y)
    <3>1. \A j \in S : j <= x => j <= y
      <4>1. x \in Nat /\ y \in Nat
        OBVIOUS
      <4> QED
        BY <1>1, <4>1
    <3> QED
      BY <3>1 DEF UpTo
  <2>2. IsFiniteSet(UpTo(S, y))
    <3>1. UpTo(S, y) \in SUBSET S
      BY DEF UpTo
    <3> QED
      BY <3>1, FS_Subset
  <2>3. UpTo(S, x) = UpTo(S, y)
    BY <1>1, <2>1, <2>2, FS_Subset
  <2>4. y \in UpTo(S, y)
    BY DEF UpTo
  <2>5. y <= x
    BY <2>3, <2>4 DEF UpTo
  <2> QED
    BY <1>1, <2>5
<1>2. i <= k \/ k <= i
  OBVIOUS
<1> QED
  BY <1>1, <1>2

(* StrSplitBySpaces gives the words of a text in their order.              *)
LEMMA SplitGives ==
  ASSUME text \in Seq(Int), text # <<>>
  PROVE  /\ SplitGivesWords
         /\ \A n \in DOMAIN StrSplitBySpaces(text) :
              \E i \in WordStarts(text) : StrSplitBySpaces(text)[n] = WordAt(text, i)
<1>1. PICK r \in Seq(Int) : r = text /\ r # <<>>
  OBVIOUS
<1>2. PICK s : s = Trim(r)
  OBVIOUS
<1>3. PICK a, z : IsPart(s, r, a, z)
  BY <1>1, <1>2, TrimIsPart
<1>4. s \in Seq(Int)
  BY <1>3, Zenon DEF IsPart
<1>5. PICK f : SplitsBlanks(f, s) /\ StrSplitBySpaces(r) = f[1]
  BY <1>2, <1>4, SplitBySpacesIs
<1>6. PICK n \in Nat, m \in Nat : n = Len(r) /\ m = Len(s)
  BY <1>4
<1>7. /\ a \in 1 .. n /\ z \in a - 1 .. n /\ m = z - a + 1
      /\ \A i \in 1 .. m : s[i] = r[a + i - 1]
      /\ \A j \in 1 .. n : j < a \/ j > z => r[j] = Blank
  BY <1>3, <1>6 DEF IsPart
<1>8. PICK S : S = WordStarts(r)
  OBVIOUS
<1>9. /\ IsFiniteSet(S) /\ S \subseteq Nat
      /\ \A j : j \in S <=> j \in 1 .. n /\ r[j] # Blank /\ (j = 1 \/ r[j - 1] = Blank)
  BY <1>6, <1>8, WordStartsAre
<1>10. 1 <= m /\ s[1] # Blank => a \in S
  <2>1. ASSUME 1 <= m, s[1] # Blank PROVE a \in S
    <3>1. r[a] # Blank
      <4>1. s[1] = r[a + 1 - 1] /\ a + 1 - 1 = a
        BY <1>7, <2>1
      <4> QED
        BY <2>1, <4>1
    <3>2. a = 1 \/ r[a - 1] = Blank
      <4>1. ASSUME a # 1 PROVE r[a - 1] = Blank
        <5>1. a - 1 \in 1 .. n /\ a - 1 < a
          BY <1>7, <4>1
        <5> QED
          BY <1>7, <5>1
      <4> QED
        BY <4>1
    <3> QED
      BY <1>7, <1>9, <3>1, <3>2
  <2> QED
    BY <2>1
<1>11. PICK w : w = f[1]
  OBVIOUS
<1>12. Lists(w, S, r)
  <2>1. a + 1 - 1 = a /\ 1 \in 1 .. Len(s) + 1
    BY <1>6, <1>7
  <2>2. StartsFrom(r, a) = S
    <3>1. \A j \in S : a <= j
      BY <1>7, <1>9
    <3> QED
      BY <1>8, <3>1 DEF StartsFrom
  <2>3. Lists(f[1], StartsFrom(r, a + 1 - 1), r)
    <3>1. 1 <= Len(s) /\ s[1] # Blank => a + 1 - 1 \in WordStarts(r)
      BY <1>6, <1>8, <1>10, <2>1
    <3> QED
      BY <1>3, <1>5, <2>1, <3>1, WordsFrom
  <2> QED
    BY <1>11, <2>1, <2>2, <2>3
<1>13. w \in Seq(Seq(Int)) /\ DOMAIN w = 1 .. Len(w)
  <2>1. 1 \in 1 .. Len(s) + 1
    BY <1>6
  <2>2. w \in Seq(Seq(Int))
    BY <1>5, <1>11, <2>1 DEF SplitsBlanks
  <2> QED
    BY <2>2
<1>14. ASSUME NEW k \in DOMAIN w PROVE w[k] = NthWord(r, k)
  <2>1. PICK i \in S : Cardinality(UpTo(S, i)) = k /\ w[k] = WordAt(r, i)
    BY <1>12, <1>13 DEF Lists
  <2> DEFINE j == CHOOSE x \in S : Cardinality({y \in S : y <= x}) = k
  <2>2. j \in S /\ Cardinality(UpTo(S, j)) = k
    BY <2>1 DEF UpTo
  <2>3. NthWord(r, k) = WordAt(r, j)
    BY <1>8, Zenon DEF NthWord
  <2> HIDE DEF j
  <2>4. j = i
    BY <1>9, <2>1, <2>2, OneNth
  <2> QED
    BY <2>1, <2>3, <2>4
<1>15. Len(w) = Cardinality(WordStarts(text))
  BY <1>1, <1>8, <1>12 DEF Lists
<1>16. ASSUME NEW k \in DOMAIN w PROVE \E i \in WordStarts(r) : w[k] = WordAt(r, i)
  BY <1>8, <1>12, <1>13 DEF Lists
<1>17. StrSplitBySpaces(text) = w
  BY <1>1, <1>5, <1>11
<1> QED
  BY <1>1, <1>14, <1>15, <1>16, <1>17, Zenon DEF SplitGivesWords

(* The place where the first of one character is found.                    *)
FindsFirst(k, s, c, i) ==
  \/ k = 0 /\ \A j \in i .. Len(s) : s[j] # c
  \/ k \in i .. Len(s) /\ s[k] = c /\ \A j \in i .. k - 1 : s[j] # c

LEMMA FindIs ==
  ASSUME NEW s \in Seq(Int), NEW c \in Int, NEW i \in 1 .. Len(s) + 1
  PROVE  FindsFirst(Find(s, <<c>>, i), s, c, i)
<1>1. PICK n \in Nat : n = Len(s)
  OBVIOUS
<1>2. PICK o \in Seq(Int) : o = <<c>> /\ Len(o) = 1 /\ o[1] = c
  BY OneIs, Zenon
<1>3. ASSUME NEW j \in 1 .. n PROVE Occurs(s, o, j) <=> s[j] = c
  <2>1. PICK x : x = SubSeq(s, j, j)
    OBVIOUS
  <2>2. x \in Seq(Int) /\ Len(x) = 1 /\ x[1] = s[j]
    <3>1. IsCut(x, s, j, j, Int)
      BY <1>1, <2>1, CutIs
    <3> QED
      BY <1>1, <3>1 DEF IsCut
  <2>3. Occurs(s, o, j) <=> x = o
    <3>1. j + 1 - 1 = j
      OBVIOUS
    <3> QED
      BY <1>2, <2>1, <3>1 DEF Occurs
  <2>4. x[1] = o[1] => x = o
    <3>1. ASSUME x[1] = o[1] PROVE \A k \in 1 .. 1 : x[k] = o[k]
      BY <3>1
    <3> QED
      BY <1>2, <2>2, <3>1, SameSequence
  <2> QED
    BY <1>2, <2>2, <2>3, <2>4
<1> DEFINE S == {j \in i .. n : s[j] = c}
<1>4. Find(s, o, i) = IF S = {} THEN 0 ELSE Least(S)
  <2>1. {j \in i .. Len(s) - Len(o) + 1 : Occurs(s, o, j)} = S
    <3>1. Len(s) - Len(o) + 1 = n /\ i .. n \subseteq 1 .. n
      BY <1>1, <1>2
    <3> QED
      BY <1>3, <3>1
  <2> QED
    BY <2>1, Zenon DEF Find
<1>5. CASE S = {}
  BY <1>1, <1>2, <1>4, <1>5 DEF FindsFirst
<1>6. CASE S # {}
  <2>1. PICK k : k = Least(S)
    OBVIOUS
  <2>2. k \in S /\ \A j \in S : k <= j
    <3>1. S \subseteq Nat
      OBVIOUS
    <3> HIDE DEF S
    <3> QED
      BY <1>6, <2>1, <3>1, LeastIs
  <2>3. k \in i .. n /\ s[k] = c /\ \A j \in i .. k - 1 : s[j] # c
    <3>1. ASSUME NEW j \in i .. k - 1, s[j] = c PROVE FALSE
      <4>1. j \in S /\ ~(k <= j)
        BY <2>2, <3>1
      <4> QED
        BY <2>2, <4>1
    <3> QED
      BY <2>2, <3>1
  <2> QED
    BY <1>1, <1>2, <1>4, <1>6, <2>1, <2>3 DEF FindsFirst
<1> QED
  BY <1>5, <1>6

(* GetField gives what is left of the word in which the field is found, or *)
(* the next word.                                                          *)
LEMMA FieldIs ==
  ASSUME text \in Seq(Int), text # <<>>
  PROVE  FieldIsFound
<1>1. PICK s \in Seq(Int) : s = text /\ s # <<>>
  OBVIOUS
<1>2. PICK n \in Nat : n = Len(s) /\ n # 0
  BY <1>1
<1>3. PICK c \in Int : c = Separator /\ c # Blank
  BY StringAssumption DEF Blank
<1>4. PICK at : at = Find(s, <<c>>, 1)
  OBVIOUS
<1>5. at = 0 \/ (at \in 1 .. n /\ s[at] # Blank)
  <2>1. FindsFirst(at, s, c, 1)
    <3>1. 1 \in 1 .. Len(s) + 1
      BY <1>2
    <3> QED
      BY <1>4, <3>1, FindIs
  <2> QED
    BY <1>2, <1>3, <2>1 DEF FindsFirst
<1> DEFINE behind == {i \in NonBlank(s) : i >= at + 1}
           later == {i \in WordStarts(s) : i > at}
           x == GetField(s, <<c>>)
           e == WordEnd(s, at)
<1>6. x = IF at = 0 \/ behind = {} THEN <<>> ELSE SubSeq(s, Least(behind), WordEnd(s, Least(behind)))
  <2>1. Len(<<c>>) = 1
    OBVIOUS
  <2> QED
    BY <1>4, <2>1, Zenon DEF GetField
<1>7. \A i : i \in NonBlank(s) <=> i \in 1 .. n /\ s[i] # Blank
  BY <1>2 DEF NonBlank
<1>8. \A i : i \in WordStarts(s) <=> i \in NonBlank(s) /\ (i = 1 \/ s[i - 1] = Blank)
  BY DEF WordStarts
<1> SUFFICES x = IF at = 0 THEN <<>>
                 ELSE IF e > at THEN SubSeq(s, at + 1, e)
                 ELSE IF later = {} THEN <<>> ELSE WordAt(s, Least(later))
  BY <1>1, <1>3, <1>4, Zenon DEF FieldIsFound
<1>9. CASE at = 0
  BY <1>6, <1>9
<1>10. CASE at \in 1 .. n /\ s[at] # Blank
  <2>1. PICK d : d = e /\ IsWordEnd(s, at, d)
    <3>1. at \in 1 .. Len(s) + 1
      BY <1>2, <1>10
    <3> QED
      BY <3>1, WordEndIs
  <2>2. d \in at .. n /\ (\A j \in at .. d : s[j] # Blank) /\ (d < n => s[d + 1] = Blank)
    <3>1. d \in at - 1 .. n /\ (\A j \in at .. d : s[j] # Blank) /\ (d < n => s[d + 1] = Blank)
      BY <1>2, <2>1 DEF IsWordEnd
    <3>2. d # at - 1
      BY <1>10, <3>1
    <3> QED
      BY <1>10, <3>1, <3>2
  <2>3. behind \subseteq Nat /\ later \subseteq behind
    BY <1>7, <1>8, <1>10
  <2> HIDE DEF e, x
  <2>4. CASE d > at
    <3>1. at + 1 \in behind /\ \A j \in behind : at + 1 <= j
      BY <1>7, <1>10, <2>2, <2>4
    <3>2. Least(behind) = at + 1
      <4> HIDE DEF behind
      <4> QED
        BY <2>3, <3>1, LeastIsIt
    <3>3. WordEnd(s, at + 1) = d
      <4>1. IsWordEnd(s, at + 1, d)
        BY <1>2, <1>10, <2>2, <2>4 DEF IsWordEnd
      <4>2. at + 1 \in 1 .. Len(s) + 1
        BY <1>2, <1>10
      <4> QED
        BY <4>1, <4>2, OneWordEnd
    <3>4. x = SubSeq(s, at + 1, d)
      <4>1. ~(at = 0 \/ behind = {})
        BY <1>10, <3>1
      <4> QED
        BY <1>6, <3>2, <3>3, <4>1, Zenon
    <3>5. e > at /\ ~(at = 0)
      BY <1>10, <2>1, <2>4
    <3> QED
      BY <2>1, <3>4, <3>5, Zenon
  <2>5. CASE d = at
    <3>1. ~(e > at) /\ ~(at = 0)
      BY <1>10, <2>1, <2>5
    <3>2. CASE behind = {}
      <4>1. x = <<>> /\ later = {}
        BY <1>6, <2>3, <3>2
      <4> QED
        BY <3>1, <4>1, Zenon
    <3>3. CASE behind # {}
      <4>1. PICK l : l = Least(behind)
        OBVIOUS
      <4>2. l \in behind /\ \A j \in behind : l <= j
        <5> HIDE DEF behind
        <5> QED
          BY <2>3, <3>3, <4>1, LeastIs
      <4>3. l \in 1 .. n /\ s[l] # Blank /\ l >= at + 1
        BY <1>7, <4>2
      <4>4. l # at + 1
        <5>1. ASSUME l = at + 1 PROVE FALSE
          <6>1. d < n /\ d + 1 = l
            BY <1>10, <2>5, <4>3, <5>1
          <6> QED
            BY <2>2, <4>3, <6>1
        <5> QED
          BY <5>1
      <4>5. s[l - 1] = Blank
        <5>1. l - 1 \in 1 .. n /\ l - 1 >= at + 1 /\ ~(l <= l - 1)
          BY <1>10, <4>3, <4>4
        <5>2. l - 1 \notin behind
          BY <4>2, <5>1
        <5> QED
          BY <1>7, <5>1, <5>2
      <4>6. l \in later
        <5>1. l > at
          BY <1>10, <4>3
        <5>2. l \in WordStarts(s)
          BY <1>7, <1>8, <4>3, <4>5
        <5> QED
          BY <5>1, <5>2
      <4>7. Least(later) = l
        <5>1. \A j \in later : l <= j
          BY <2>3, <4>2
        <5> HIDE DEF behind, later
        <5> QED
          BY <2>3, <4>6, <5>1, LeastIsIt
      <4>8. x = SubSeq(s, l, WordEnd(s, l)) /\ later # {}
        BY <1>6, <3>1, <3>3, <4>1, <4>6
      <4> QED
        BY <3>1, <4>7, <4>8, Zenon DEF WordAt
    <3> QED
      BY <3>2, <3>3
  <2>6. d > at \/ d = at
    BY <1>10, <2>2
  <2> QED
    BY <2>4, <2>5, <2>6
<1> QED
  BY <1>5, <1>9, <1>10

------------------------------------------------------------------------------
(* Splitting at one character, and joining.                                *)

LEMMA FlattenFirst ==
  ASSUME NEW V, NEW x \in Seq(V), NEW w \in Seq(Seq(V))
  PROVE  FlattenSeq(w) \in Seq(V) /\ FlattenSeq(<<x>> \o w) = x \o FlattenSeq(w)
<1>1. PICK m \in Nat : m = Len(w)
  OBVIOUS
<1>2. PICK g : Joins(g, w, V)
  BY SomeJoins
<1>3. g \in [Nat -> Seq(V)] /\ g[0] = <<>> /\ \A i \in 1 .. m : g[i] = g[i - 1] \o w[i]
  BY <1>1, <1>2 DEF Joins
<1>4. FlattenSeq(w) = g[m] /\ g[m] \in Seq(V)
  BY <1>1, <1>2, <1>3, FlattenIs
<1>5. PICK y \in Seq(Seq(V)) : y = <<x>> \o w /\ JoinedIs(y, <<x>>, w, Seq(V)) /\ Len(<<x>>) = 1 /\ <<x>>[1] = x
  <2>1. PICK o \in Seq(Seq(V)) : o = <<x>> /\ Len(o) = 1 /\ o[1] = x
    BY OneIs, Zenon
  <2>2. JoinedIs(o \o w, o, w, Seq(V))
    BY ConcatIs, Zenon
  <2>3. o \o w \in Seq(Seq(V))
    BY <2>2, Zenon DEF JoinedIs
  <2> QED
    BY <2>1, <2>2, <2>3, Zenon
<1>6. Len(y) = 1 + m /\ y[1] = x /\ \A i \in 1 .. m : y[1 + i] = w[i]
  <2>1. PICK o : o = <<x>> /\ Len(o) = 1 /\ o[1] = x /\ JoinedIs(y, o, w, Seq(V))
    BY <1>5, Zenon
  <2>2. /\ Len(y) = 1 + m
        /\ \A i \in 1 .. 1 : y[i] = o[i]
        /\ \A i \in 1 .. m : y[1 + i] = w[i]
    BY <1>1, <2>1, Zenon DEF JoinedIs
  <2> QED
    BY <2>1, <2>2
<1> DEFINE h == [i \in Nat |-> IF i = 0 THEN <<>> ELSE x \o g[i - 1]]
<1>7. ASSUME NEW i \in Nat PROVE h[i] \in Seq(V)
  <2>1. CASE i = 0
    BY <2>1
  <2>2. CASE i # 0
    <3>1. PICK e \in Seq(V) : e = g[i - 1]
      BY <1>3, <2>2
    <3>2. x \o e \in Seq(V)
      OBVIOUS
    <3> QED
      BY <2>2, <3>1, <3>2
  <2> QED
    BY <2>1, <2>2
<1>8. h[0] = <<>>
  OBVIOUS
<1>9. ASSUME NEW i \in 1 .. 1 + m PROVE h[i] = h[i - 1] \o y[i]
  <2>1. CASE i = 1
    <3>1. h[1] = x \o g[0] /\ h[0] = <<>>
      OBVIOUS
    <3>2. x \o <<>> = x /\ <<>> \o x = x
      OBVIOUS
    <3> HIDE DEF h
    <3>3. h[1] = x
      BY <1>3, <3>1, <3>2
    <3> QED
      BY <1>6, <2>1, <3>1, <3>2, <3>3
  <2>2. CASE i # 1
    <3>1. PICK k \in 1 .. m : i = 1 + k
      <4>1. i - 1 \in 1 .. m /\ i = 1 + (i - 1)
        BY <2>2
      <4> QED
        BY <4>1
    <3>2. PICK e \in Seq(V), d \in Seq(V) : e = g[k - 1] /\ d = w[k]
      <4>1. k - 1 \in Nat /\ w[k] \in Seq(V)
        BY <1>1
      <4> QED
        BY <1>3, <4>1
    <3>3. g[k] = e \o d /\ y[i] = d
      BY <1>3, <1>6, <3>1, <3>2
    <3>4. h[i] = x \o (e \o d)
      <4>1. i \in Nat /\ i # 0 /\ i - 1 = k
        BY <3>1
      <4>2. h[i] = x \o g[k]
        BY <4>1
      <4> HIDE DEF h
      <4> QED
        BY <3>3, <4>2
    <3>5. h[i - 1] = x \o e
      <4>1. i - 1 = k /\ k \in Nat /\ k # 0
        BY <3>1
      <4>2. h[k] = x \o g[k - 1]
        BY <4>1
      <4> HIDE DEF h
      <4> QED
        BY <3>2, <4>1, <4>2
    <3>6. x \o (e \o d) = (x \o e) \o d
      OBVIOUS
    <3> HIDE DEF h
    <3> QED
      BY <3>3, <3>4, <3>5, <3>6
  <2> QED
    BY <2>1, <2>2
<1>10. h[1 + m] = x \o g[m]
  BY <1>1
<1>11. h \in [Nat -> Seq(V)]
  BY <1>7
<1> HIDE DEF h
<1>12. Joins(h, y, V)
  BY <1>6, <1>8, <1>9, <1>11 DEF Joins
<1>13. FlattenSeq(y) = h[1 + m]
  BY <1>6, <1>12, FlattenIs
<1> QED
  BY <1>4, <1>5, <1>10, <1>13

LEMMA AppendIs ==
  ASSUME NEW V, NEW x \in Seq(V), NEW c \in V
  PROVE  /\ Append(x, c) \in Seq(V) /\ Len(Append(x, c)) = Len(x) + 1
         /\ \A i \in 1 .. Len(x) : Append(x, c)[i] = x[i]
         /\ Append(x, c)[Len(x) + 1] = c
OBVIOUS

LEMMA FlattenNone == FlattenSeq(<<>>) = <<>>
BY DEF FlattenSeq

(* All fields but the last, each with the separator behind it.             *)
Separated(w, c) == [i \in DOMAIN w |-> IF i < Len(w) THEN Append(w[i], c) ELSE w[i]]

LEMMA SeparatedIs ==
  ASSUME NEW w \in Seq(Seq(Int)), NEW c \in Int
  PROVE  /\ Separated(w, c) \in Seq(Seq(Int)) /\ Len(Separated(w, c)) = Len(w)
         /\ \A i \in 1 .. Len(w) :
              Separated(w, c)[i] = IF i < Len(w) THEN Append(w[i], c) ELSE w[i]
<1>1. PICK m \in Nat : m = Len(w) /\ DOMAIN w = 1 .. m
  OBVIOUS
<1>2. ASSUME NEW i \in 1 .. m PROVE (IF i < m THEN Append(w[i], c) ELSE w[i]) \in Seq(Int)
  <2>1. PICK x \in Seq(Int) : x = w[i]
    BY <1>1
  <2>2. Append(x, c) \in Seq(Int)
    OBVIOUS
  <2> QED
    BY <2>1, <2>2
<1>3. Separated(w, c) \in [1 .. m -> Seq(Int)]
  BY <1>1, <1>2 DEF Separated
<1>4. Separated(w, c) \in Seq(Seq(Int)) /\ Len(Separated(w, c)) = m
  BY <1>3, FunctionIsSeq, Zenon
<1>5. \A i \in 1 .. m : Separated(w, c)[i] = IF i < m THEN Append(w[i], c) ELSE w[i]
  BY <1>1 DEF Separated
<1> QED
  BY <1>1, <1>4, <1>5

LEMMA JoinOfMore ==
  ASSUME NEW w \in Seq(Seq(Int)), w # <<>>, NEW x \in Seq(Int), NEW c \in Int
  PROVE  /\ StrJoin(w, c) \in Seq(Int)
         /\ StrJoin(<<x>> \o w, c) = Append(x, c) \o StrJoin(w, c)
<1>1. PICK m \in Nat \ {0} : m = Len(w)
  <2>1. Len(w) \in Nat \ {0}
    OBVIOUS
  <2> QED
    BY <2>1
<1>2. PICK o \in Seq(Seq(Int)) : o = <<x>> /\ Len(o) = 1 /\ o[1] = x
  BY OneIs, Zenon
<1>3. PICK y : y = o \o w
  OBVIOUS
<1>4. /\ y \in Seq(Seq(Int)) /\ Len(y) = 1 + m /\ y[1] = x
      /\ \A i \in 1 .. m : y[1 + i] = w[i]
  <2>1. JoinedIs(y, o, w, Seq(Int))
    BY <1>3, ConcatIs
  <2>2. /\ y \in Seq(Seq(Int)) /\ Len(y) = 1 + m
        /\ \A i \in 1 .. 1 : y[i] = o[i]
        /\ \A i \in 1 .. m : y[1 + i] = w[i]
    BY <1>1, <1>2, <2>1, Zenon DEF JoinedIs
  <2> QED
    BY <1>2, <2>2
<1>5. PICK v \in Seq(Seq(Int)) : /\ v = Separated(w, c) /\ Len(v) = m
                                 /\ \A i \in 1 .. m : v[i] = IF i < m THEN Append(w[i], c) ELSE w[i]
  BY <1>1, SeparatedIs
<1>6. PICK b1 : /\ b1 = Separated(y, c) /\ b1 \in Seq(Seq(Int)) /\ Len(b1) = 1 + m
                /\ \A i \in 1 .. 1 + m : b1[i] = IF i < 1 + m THEN Append(y[i], c) ELSE y[i]
  <2>1. /\ Separated(y, c) \in Seq(Seq(Int)) /\ Len(Separated(y, c)) = Len(y)
        /\ \A i \in 1 .. Len(y) :
             Separated(y, c)[i] = IF i < Len(y) THEN Append(y[i], c) ELSE y[i]
    BY <1>4, SeparatedIs, Zenon
  <2> QED
    BY <1>4, <2>1, Zenon
<1>7. PICK x1 \in Seq(Int) : x1 = Append(x, c)
  BY AppendIs, Zenon
<1>8. PICK o1 \in Seq(Seq(Int)) : o1 = <<x1>> /\ Len(o1) = 1 /\ o1[1] = x1
  BY OneIs, Zenon
<1>9. PICK b2 : b2 = o1 \o v
  OBVIOUS
<1>10. /\ b2 \in Seq(Seq(Int)) /\ Len(b2) = 1 + m /\ b2[1] = x1
       /\ \A i \in 1 .. m : b2[1 + i] = v[i]
  <2>1. JoinedIs(b2, o1, v, Seq(Int))
    BY <1>9, ConcatIs
  <2>2. /\ b2 \in Seq(Seq(Int)) /\ Len(b2) = 1 + m
        /\ \A i \in 1 .. 1 : b2[i] = o1[i]
        /\ \A i \in 1 .. m : b2[1 + i] = v[i]
    BY <1>5, <1>8, <2>1, Zenon DEF JoinedIs
  <2> QED
    BY <1>8, <2>2
<1>11. ASSUME NEW i \in 1 .. 1 + m PROVE b1[i] = b2[i]
  <2>1. CASE i = 1
    <3>1. 1 \in 1 .. 1 + m /\ 1 < 1 + m
      OBVIOUS
    <3>2. b1[1] = Append(y[1], c)
      BY <1>6, <3>1, Zenon
    <3> QED
      BY <1>4, <1>7, <1>10, <2>1, <3>2, Zenon
  <2>2. CASE i # 1
    <3>1. PICK k \in 1 .. m : i = 1 + k
      <4>1. i - 1 \in 1 .. m /\ i = 1 + (i - 1)
        BY <2>2
      <4> QED
        BY <4>1
    <3>2. y[i] = w[k] /\ b2[i] = v[k]
      BY <1>4, <1>10, <3>1, Zenon
    <3>5. i < 1 + m <=> k < m
      BY <3>1
    <3>3. b1[i] = IF i < 1 + m THEN Append(y[i], c) ELSE y[i]
      BY <1>6
    <3>4. v[k] = IF k < m THEN Append(w[k], c) ELSE w[k]
      BY <1>5
    <3> QED
      BY <3>2, <3>3, <3>4, <3>5, Zenon
  <2> QED
    BY <2>1, <2>2
<1>12. b1 = b2
  BY <1>6, <1>10, <1>11, SameSequence, Zenon
<1>13. StrJoin(w, c) = FlattenSeq(v) /\ StrJoin(y, c) = FlattenSeq(b1)
  BY <1>5, <1>6, Zenon DEF StrJoin, Separated
<1>14. FlattenSeq(v) \in Seq(Int) /\ FlattenSeq(o1 \o v) = x1 \o FlattenSeq(v)
  BY <1>8, FlattenFirst
<1> QED
  BY <1>2, <1>3, <1>7, <1>9, <1>12, <1>13, <1>14

LEMMA JoinOfOne ==
  ASSUME NEW x \in Seq(Int), NEW c \in Int
  PROVE  StrJoin(<<x>>, c) = x /\ StrJoin(<<>>, c) = <<>>
<1>1. StrJoin(<<>>, c) = <<>>
  <2>1. [i \in DOMAIN <<>> |-> IF i < Len(<<>>) THEN Append(<<>>[i], c) ELSE <<>>[i]] = <<>>
    OBVIOUS
  <2> QED
    BY <2>1, FlattenNone, Zenon DEF StrJoin
<1>2. PICK o \in Seq(Seq(Int)) : o = <<x>> /\ Len(o) = 1 /\ o[1] = x
  BY OneIs, Zenon
<1>3. PICK v \in Seq(Seq(Int)) : /\ v = Separated(o, c) /\ Len(v) = 1
                                 /\ \A i \in 1 .. 1 : v[i] = IF i < 1 THEN Append(o[i], c) ELSE o[i]
  BY <1>2, SeparatedIs
<1>4. v = o
  <2>1. \A i \in 1 .. 1 : v[i] = o[i]
    BY <1>3
  <2> QED
    BY <1>2, <1>3, <2>1, SameSequence, Zenon
<1>5. StrJoin(o, c) = FlattenSeq(o)
  BY <1>3, <1>4, Zenon DEF StrJoin, Separated
<1>6. FlattenSeq(o) = x
  <2>1. <<>> \in Seq(Seq(Int)) /\ o \o <<>> = o /\ x \o <<>> = x
    OBVIOUS
  <2>2. FlattenSeq(<<x>> \o <<>>) = x \o FlattenSeq(<<>>)
    BY <2>1, FlattenFirst, Zenon
  <2> QED
    BY <1>2, <2>1, <2>2, FlattenNone
<1> QED
  BY <1>1, <1>2, <1>5, <1>6

(* What StrSplit at one character has found from each place on.            *)
SplitsAt(f, s, c) ==
  /\ f \in [1 .. Len(s) + 1 -> Seq(Seq(Int))]
  /\ f[Len(s) + 1] = <<>>
  /\ \A i \in 1 .. Len(s) :
       LET next == Find(s, <<c>>, i)
       IN  f[i] = IF next = 0 THEN <<SubSeq(s, i, Len(s))>>
                  ELSE <<SubSeq(s, i, next - 1)>> \o f[next + 1]

LEMMA SplitIs ==
  ASSUME NEW src, NEW s \in Seq(Int), s = Trim(src), NEW c \in Int
  PROVE  \E f : SplitsAt(f, s, c) /\ StrSplit(src, <<c>>) = f[1]
<1> DEFINE V == Seq(Seq(Int))
           D == 1 .. Len(s) + 1
           At(i) == Find(s, <<c>>, i)
           Of(i, g) == IF i > Len(s) THEN <<>>
                       ELSE IF At(i) = 0 THEN <<SubSeq(s, i, Len(s))>>
                       ELSE <<SubSeq(s, i, At(i) - 1)>> \o g[At(i) + 1]
           F == [i \in D |-> [g \in [D -> V] |-> Of(i, g)]]
           rank == [i \in D |-> Len(s) + 1 - i]
<1>1. PICK n \in Nat : n = Len(s)
  OBVIOUS
<1>2. ASSUME NEW i \in 1 .. n
      PROVE  At(i) = 0 \/ At(i) \in i .. n
  <2>1. FindsFirst(At(i), s, c, i)
    <3>1. i \in 1 .. Len(s) + 1
      BY <1>1
    <3> QED
      BY <3>1, FindIs
  <2> HIDE DEF At
  <2> QED
    BY <1>1, <2>1 DEF FindsFirst
<1>3. ASSUME NEW i \in D, NEW g \in [D -> V] PROVE Of(i, g) \in V
  <2>1. CASE i > Len(s)
    BY <2>1
  <2>2. CASE ~(i > Len(s)) /\ At(i) = 0
    <3>1. PICK w : w = SubSeq(s, i, n) /\ w \in Seq(Int)
      <4>1. i \in 1 .. Len(s) + 1 /\ n \in i - 1 .. Len(s)
        BY <1>1, <2>2
      <4>2. IsCut(SubSeq(s, i, n), s, i, n, Int)
        BY <4>1, CutIs
      <4> QED
        BY <4>2, Zenon DEF IsCut
    <3>2. <<w>> \in V
      BY <3>1, OneIs, Zenon
    <3> HIDE DEF At, V
    <3> QED
      BY <1>1, <2>2, <3>1, <3>2
  <2>3. CASE ~(i > Len(s)) /\ At(i) # 0
    <3> HIDE DEF At
    <3>1. At(i) \in i .. n /\ i \in 1 .. n /\ At(i) + 1 \in D
      <4>1. i \in 1 .. n
        BY <1>1, <2>3
      <4>2. At(i) \in i .. n
        BY <1>2, <2>3, <4>1
      <4> QED
        BY <1>1, <4>1, <4>2
    <3>2. PICK w : w = SubSeq(s, i, At(i) - 1) /\ w \in Seq(Int)
      <4>1. i \in 1 .. Len(s) + 1 /\ At(i) - 1 \in i - 1 .. Len(s)
        BY <1>1, <3>1
      <4>2. IsCut(SubSeq(s, i, At(i) - 1), s, i, At(i) - 1, Int)
        BY <4>1, CutIs
      <4> QED
        BY <4>2, Zenon DEF IsCut
    <3>3. PICK r \in V : r = g[At(i) + 1]
      <4> HIDE DEF V, D
      <4> QED
        BY <3>1
    <3>4. <<w>> \o r \in V
      <4>1. <<w>> \in Seq(Seq(Int))
        BY <3>2, OneIs, Zenon
      <4>2. ASSUME NEW x \in Seq(Seq(Int)), NEW y \in Seq(Seq(Int)) PROVE x \o y \in Seq(Seq(Int))
        OBVIOUS
      <4> QED
        BY <4>1, <4>2, Zenon
    <3> HIDE DEF V
    <3> QED
      BY <2>3, <3>2, <3>3, <3>4
  <2> HIDE DEF At, V, Of
  <2> QED
    BY <2>1, <2>2, <2>3
<1>4. ASSUME NEW i \in D, NEW g, NEW h, \A j \in i + 1 .. n + 1 : g[j] = h[j]
      PROVE  Of(i, g) = Of(i, h)
  <2>1. CASE i > Len(s) \/ At(i) = 0
    BY <2>1, Zenon
  <2>2. CASE ~(i > Len(s)) /\ At(i) # 0
    <3> HIDE DEF At
    <3>1. At(i) + 1 \in i + 1 .. n + 1
      <4>1. i \in 1 .. n
        BY <1>1, <2>2
      <4>2. At(i) \in i .. n
        BY <1>2, <2>2, <4>1
      <4> QED
        BY <4>1, <4>2
    <3>2. g[At(i) + 1] = h[At(i) + 1]
      BY <1>4, <3>1, Zenon
    <3> QED
      BY <3>2, Zenon
  <2> QED
    BY <2>1, <2>2, Zenon
<1> HIDE DEF At
<1>5. LooksDown(F, D, rank, V)
  <2>1. F \in [D -> [[D -> V] -> V]] /\ rank \in [D -> Nat]
    <3>1. rank \in [D -> Nat]
      BY <1>1
    <3> HIDE DEF V, D, Of
    <3> QED
      BY <1>3, <3>1
  <2>2. ASSUME NEW i \in D, NEW g \in [D -> V], NEW h \in [D -> V],
               \A j \in D : rank[j] < rank[i] => g[j] = h[j]
        PROVE  F[i][g] = F[i][h]
    <3>1. ASSUME NEW j \in i + 1 .. n + 1 PROVE g[j] = h[j]
      <4>1. j \in D /\ rank[j] < rank[i]
        BY <1>1
      <4> QED
        BY <2>2, <4>1
    <3>2. Of(i, g) = Of(i, h)
      <4> HIDE DEF V, D, Of
      <4> QED
        BY <1>4, <3>1
    <3> HIDE DEF V, D, Of
    <3> QED
      BY <3>2
  <2> HIDE DEF F, V, D, rank
  <2> QED
    BY <2>1, <2>2 DEF LooksDown
<1>6. PICK f : IsMadeBy(f, F, D, V)
  <2>1. <<>> \in V
    OBVIOUS
  <2> HIDE DEF F, V, D, rank
  <2> QED
    BY <1>5, <2>1, RankedRecursion
<1>7. f \in [D -> V] /\ f = [i \in D |-> Of(i, f)]
  <2>1. f \in [D -> V] /\ \A i \in D : f[i] = F[i][f]
    BY <1>6 DEF IsMadeBy
  <2>2. \A i \in D : F[i][f] = Of(i, f)
    <3> HIDE DEF Of, D, V
    <3> QED
      BY <2>1
  <2> HIDE DEF F, Of, D, V
  <2> QED
    BY <2>1, <2>2
<1> DEFINE From == CHOOSE g : g = [i \in D |-> Of(i, g)]
<1>8. From = [i \in D |-> Of(i, From)]
  <2> HIDE DEF Of, D
  <2> QED
    BY <1>7
<1>9. From = f
  <2>1. rank \in [D -> Nat]
    BY <1>1
  <2> DEFINE S == {i \in D : From[i] = f[i]}
  <2>2. ASSUME NEW i \in D, \A j \in D : rank[j] < rank[i] => j \in S PROVE i \in S
    <3>1. ASSUME NEW j \in i + 1 .. n + 1 PROVE From[j] = f[j]
      <4>1. j \in D /\ rank[j] < rank[i]
        BY <1>1
      <4> QED
        BY <2>2, <4>1
    <3>2. Of(i, From) = Of(i, f)
      <4> HIDE DEF V, D, Of, From
      <4> QED
        BY <1>4, <3>1
    <3> HIDE DEF V, D, Of, From
    <3> QED
      BY <1>7, <1>8, <3>2
  <2>3. \A i \in D : i \in S
    <3> HIDE DEF D, S, rank
    <3> QED
      BY <2>1, <2>2, RankedInduction
  <2> HIDE DEF Of, D, From
  <2> QED
    BY <1>7, <1>8, <2>3
<1>10. StrSplit(src, <<c>>) = f[1]
  <2>1. StrSplit(src, <<c>>) = From[1]
    BY DEF StrSplit, At
  <2> HIDE DEF From
  <2> QED
    BY <1>9, <2>1
<1>11. SplitsAt(f, s, c)
  <2>1. f \in [D -> V] /\ \A i \in D : f[i] = Of(i, f)
    <3> HIDE DEF Of, D
    <3> QED
      BY <1>7
  <2>2. \A i \in 1 .. Len(s) : i \in D /\ ~(i > Len(s))
    BY <1>1
  <2>3. Len(s) + 1 \in D /\ Len(s) + 1 > Len(s)
    BY <1>1
  <2>4. f[Len(s) + 1] = <<>>
    <3> HIDE DEF D
    <3> QED
      BY <2>1, <2>3
  <2>5. ASSUME NEW i \in 1 .. Len(s)
        PROVE  f[i] = IF At(i) = 0 THEN <<SubSeq(s, i, Len(s))>>
                      ELSE <<SubSeq(s, i, At(i) - 1)>> \o f[At(i) + 1]
    <3> HIDE DEF D
    <3> QED
      BY <2>1, <2>2
  <2> QED
    BY <2>1, <2>4, <2>5 DEF SplitsAt, At
<1> QED
  BY <1>10, <1>11

LEMMA CutsJoin ==
  ASSUME NEW V, NEW s \in Seq(V), NEW i \in 1 .. Len(s), NEW k \in i .. Len(s), NEW l \in k .. Len(s)
  PROVE  Append(SubSeq(s, i, k - 1), s[k]) \o SubSeq(s, k + 1, l) = SubSeq(s, i, l)
<1>1. PICK n \in Nat : n = Len(s)
  OBVIOUS
<1>2. PICK x \in Seq(V) : x = SubSeq(s, i, k - 1) /\ IsCut(x, s, i, k - 1, V)
  <2>1. i \in 1 .. Len(s) + 1 /\ k - 1 \in i - 1 .. Len(s)
    BY <1>1
  <2>2. IsCut(SubSeq(s, i, k - 1), s, i, k - 1, V)
    BY <2>1, CutIs
  <2> QED
    BY <2>2, Zenon DEF IsCut
<1>3. PICK y \in Seq(V) : y = SubSeq(s, k + 1, l) /\ IsCut(y, s, k + 1, l, V)
  <2>1. k + 1 \in 1 .. Len(s) + 1 /\ l \in (k + 1) - 1 .. Len(s)
    BY <1>1
  <2>2. IsCut(SubSeq(s, k + 1, l), s, k + 1, l, V)
    BY <2>1, CutIs
  <2> QED
    BY <2>2, Zenon DEF IsCut
<1>4. PICK w \in Seq(V) : w = SubSeq(s, i, l) /\ IsCut(w, s, i, l, V)
  <2>1. i \in 1 .. Len(s) + 1 /\ l \in i - 1 .. Len(s)
    BY <1>1
  <2>2. IsCut(SubSeq(s, i, l), s, i, l, V)
    BY <2>1, CutIs
  <2> QED
    BY <2>2, Zenon DEF IsCut
<1>5. s[k] \in V
  BY <1>1
<1>6. PICK e \in Seq(V) : /\ e = Append(x, s[k]) /\ Len(e) = k - i + 1
                          /\ \A j \in 1 .. k - i : e[j] = s[i + j - 1]
                          /\ e[k - i + 1] = s[k]
  <2>1. Len(x) = k - i /\ \A j \in 1 .. k - i : x[j] = s[i + j - 1]
    <3>1. (k - 1) - i + 1 = k - i
      BY <1>1
    <3> QED
      BY <1>2, <3>1, Zenon DEF IsCut
  <2>2. /\ Append(x, s[k]) \in Seq(V) /\ Len(Append(x, s[k])) = Len(x) + 1
        /\ \A j \in 1 .. Len(x) : Append(x, s[k])[j] = x[j]
        /\ Append(x, s[k])[Len(x) + 1] = s[k]
    BY <1>5, AppendIs, Zenon
  <2> QED
    BY <2>1, <2>2, Zenon
<1>7. PICK d : d = e \o y /\ JoinedIs(d, e, y, V)
  BY ConcatIs, Zenon
<1>8. /\ d \in Seq(V) /\ Len(d) = l - i + 1
      /\ \A j \in 1 .. k - i + 1 : d[j] = e[j]
      /\ \A j \in 1 .. l - k : d[(k - i + 1) + j] = y[j]
  <2>1. Len(y) = l - (k + 1) + 1
    BY <1>3, Zenon DEF IsCut
  <2>2. Len(y) = l - k
    BY <1>1, <2>1
  <2>3. /\ d \in Seq(V) /\ Len(d) = (k - i + 1) + (l - k)
        /\ \A j \in 1 .. k - i + 1 : d[j] = e[j]
        /\ \A j \in 1 .. l - k : d[(k - i + 1) + j] = y[j]
    BY <1>6, <1>7, <2>2, Zenon DEF JoinedIs
  <2>4. (k - i + 1) + (l - k) = l - i + 1
    BY <1>1
  <2> QED
    BY <2>3, <2>4, Zenon
<1>9. ASSUME NEW j \in 1 .. l - i + 1 PROVE d[j] = w[j]
  <2>1. w[j] = s[i + j - 1]
    BY <1>4, Zenon DEF IsCut
  <2>2. CASE j \in 1 .. k - i
    <3>1. j \in 1 .. k - i + 1
      BY <1>1, <2>2
    <3> QED
      BY <1>6, <1>8, <2>1, <2>2, <3>1, Zenon
  <2>3. CASE j = k - i + 1
    <3>1. j \in 1 .. k - i + 1 /\ i + j - 1 = k
      BY <1>1, <2>3
    <3> QED
      BY <1>6, <1>8, <2>1, <2>3, <3>1
  <2>4. CASE j \in k - i + 2 .. l - i + 1
    <3>1. PICK g \in 1 .. l - k : j = (k - i + 1) + g
      <4>1. j - (k - i + 1) \in 1 .. l - k /\ j = (k - i + 1) + (j - (k - i + 1))
        BY <1>1, <2>4
      <4> QED
        BY <4>1
    <3>2. y[g] = s[(k + 1) + g - 1]
      <4>1. g \in 1 .. l - (k + 1) + 1
        BY <1>1
      <4> QED
        BY <1>3, <4>1, Zenon DEF IsCut
    <3>3. (k + 1) + g - 1 = i + j - 1
      BY <1>1, <3>1
    <3> QED
      BY <1>8, <2>1, <3>1, <3>2, <3>3, Zenon
  <2> QED
    BY <1>1, <2>2, <2>3, <2>4
<1>10. Len(w) = l - i + 1
  BY <1>4, Zenon DEF IsCut
<1>11. d = w
  BY <1>8, <1>9, <1>10, SameSequence, Zenon
<1> QED
  BY <1>2, <1>3, <1>4, <1>6, <1>7, <1>11, Zenon

LEMMA CutAll ==
  ASSUME NEW V, NEW s \in Seq(V)
  PROVE  SubSeq(s, 1, Len(s)) = s
<1>1. PICK n \in Nat : n = Len(s)
  OBVIOUS
<1>2. PICK x : x = SubSeq(s, 1, n) /\ IsCut(x, s, 1, n, V)
  <2>1. 1 \in 1 .. Len(s) + 1 /\ n \in 1 - 1 .. Len(s)
    BY <1>1
  <2> QED
    BY <2>1, CutIs
<1>3. x \in Seq(V) /\ Len(x) = n /\ \A k \in 1 .. n : x[k] = s[k]
  BY <1>2 DEF IsCut
<1>4. x = s
  <2>1. x = [k \in 1 .. n |-> x[k]] /\ s = [k \in 1 .. n |-> s[k]]
    BY <1>1, <1>3
  <2> QED
    BY <1>3, <2>1, Zenon
<1> QED
  BY <1>1, <1>2, <1>4

(* The fields from i on, joined, are the text from i on, but for a         *)
(* separator at its end.                                                   *)
Rest(s, i, c) ==
  IF i <= Len(s) /\ s[Len(s)] = c THEN SubSeq(s, i, Len(s) - 1) ELSE SubSeq(s, i, Len(s))
Parted(w, s, i, c) ==
  /\ w \in Seq(Seq(Int))
  /\ w = <<>> <=> i = Len(s) + 1
  /\ \A k \in 1 .. Len(w) : ~Contains(w[k], c) /\ Len(w[k]) <= Len(s) - i + 1
  /\ StrJoin(w, c) = Rest(s, i, c)

LEMMA PartedAtEnd ==
  ASSUME NEW s \in Seq(Int), NEW c \in Int
  PROVE  Parted(<<>>, s, Len(s) + 1, c)
<1>1. PICK n \in Nat : n = Len(s)
  OBVIOUS
<1>2. SubSeq(s, n + 1, n) = <<>>
  BY <1>1
<1>3. Rest(s, n + 1, c) = <<>>
  <2>1. ~(n + 1 <= n)
    OBVIOUS
  <2> QED
    BY <1>1, <1>2, <2>1, Zenon DEF Rest
<1>4. StrJoin(<<>>, c) = <<>>
  BY JoinOfOne
<1>5. <<>> \in Seq(Seq(Int)) /\ 1 .. Len(<<>>) = {}
  OBVIOUS
<1> QED
  BY <1>1, <1>3, <1>4, <1>5, Zenon DEF Parted

(* No more separators.                                                     *)
LEMMA PartedAtLast ==
  ASSUME NEW s \in Seq(Int), NEW c \in Int, NEW i \in 1 .. Len(s), \A j \in i .. Len(s) : s[j] # c
  PROVE  Parted(<<SubSeq(s, i, Len(s))>>, s, i, c)
<1>1. PICK n \in Nat : n = Len(s)
  OBVIOUS
<1>2. PICK x \in Seq(Int) : x = SubSeq(s, i, n) /\ Len(x) = n - i + 1
                            /\ \A k \in 1 .. n - i + 1 : x[k] = s[i + k - 1]
  <2>1. i \in 1 .. Len(s) + 1 /\ n \in i - 1 .. Len(s)
    BY <1>1
  <2>2. IsCut(SubSeq(s, i, n), s, i, n, Int)
    BY <2>1, CutIs
  <2> QED
    BY <2>2, Zenon DEF IsCut
<1>3. ~Contains(x, c)
  <2>1. ASSUME NEW k \in 1 .. Len(x) PROVE x[k] # c
    <3>1. k \in 1 .. n - i + 1 /\ i + k - 1 \in i .. n
      BY <1>1, <1>2
    <3> QED
      BY <1>1, <1>2, <3>1
  <2> QED
    BY <2>1 DEF Contains
<1>4. PICK w \in Seq(Seq(Int)) : w = <<x>> /\ Len(w) = 1 /\ w[1] = x
  BY OneIs, Zenon
<1>5. w # <<>> /\ i # Len(s) + 1
  BY <1>1, <1>4
<1>6. StrJoin(w, c) = x
  BY <1>4, JoinOfOne, Zenon
<1>7. Rest(s, i, c) = x
  <2>1. s[n] # c
    BY <1>1
  <2> QED
    BY <1>1, <1>2, <2>1, Zenon DEF Rest
<1>8. \A k \in 1 .. Len(w) : ~Contains(w[k], c) /\ Len(w[k]) <= Len(s) - i + 1
  <2>1. \A k \in 1 .. 1 : k = 1
    OBVIOUS
  <2>2. Len(x) <= Len(s) - i + 1
    BY <1>1, <1>2
  <2> QED
    BY <1>3, <1>4, <2>1, <2>2, Zenon
<1> QED
  BY <1>1, <1>2, <1>4, <1>5, <1>6, <1>7, <1>8, Zenon DEF Parted

(* A separator at k.                                                       *)
LEMMA PartedAtNext ==
  ASSUME NEW s \in Seq(Int), NEW c \in Int, NEW i \in 1 .. Len(s), NEW k \in i .. Len(s),
         s[k] = c, \A j \in i .. k - 1 : s[j] # c, NEW r, Parted(r, s, k + 1, c)
  PROVE  Parted(<<SubSeq(s, i, k - 1)>> \o r, s, i, c)
<1>1. PICK n \in Nat : n = Len(s)
  OBVIOUS
<1>2. PICK x \in Seq(Int) : x = SubSeq(s, i, k - 1) /\ Len(x) = k - i
                            /\ \A j \in 1 .. k - i : x[j] = s[i + j - 1]
  <2>1. i \in 1 .. Len(s) + 1 /\ k - 1 \in i - 1 .. Len(s) /\ (k - 1) - i + 1 = k - i
    BY <1>1
  <2>2. IsCut(SubSeq(s, i, k - 1), s, i, k - 1, Int)
    BY <2>1, CutIs
  <2> QED
    BY <2>1, <2>2, Zenon DEF IsCut
<1>3. ~Contains(x, c)
  <2>1. ASSUME NEW j \in 1 .. Len(x) PROVE x[j] # c
    <3>1. j \in 1 .. k - i /\ i + j - 1 \in i .. k - 1
      BY <1>1, <1>2
    <3> QED
      BY <1>2, <3>1
  <2> QED
    BY <2>1 DEF Contains
<1>4. /\ r \in Seq(Seq(Int)) /\ (r = <<>> <=> k + 1 = n + 1)
      /\ \A j \in 1 .. Len(r) : ~Contains(r[j], c) /\ Len(r[j]) <= Len(s) - (k + 1) + 1
      /\ StrJoin(r, c) = Rest(s, k + 1, c)
  BY <1>1, Zenon DEF Parted
<1>5. PICK m \in Nat : m = Len(r)
  BY <1>4
<1>6. PICK o \in Seq(Seq(Int)) : o = <<x>> /\ Len(o) = 1 /\ o[1] = x
  BY OneIs, Zenon
<1>7. PICK w : w = o \o r /\ JoinedIs(w, o, r, Seq(Int))
  BY <1>4, ConcatIs, Zenon
<1>8. /\ w \in Seq(Seq(Int)) /\ Len(w) = 1 + m /\ (\A j \in 1 .. 1 : w[j] = o[j])
      /\ \A j \in 1 .. m : w[1 + j] = r[j]
  BY <1>5, <1>6, <1>7, Zenon DEF JoinedIs
<1>9. ASSUME NEW j \in 1 .. 1 + m PROVE ~Contains(w[j], c) /\ Len(w[j]) <= Len(s) - i + 1
  <2>1. CASE j = 1
    <3>1. Len(x) <= Len(s) - i + 1
      BY <1>1, <1>2
    <3> QED
      BY <1>3, <1>6, <1>8, <2>1, <3>1
  <2>2. CASE j # 1
    <3>1. PICK g \in 1 .. m : j = 1 + g
      <4>1. j - 1 \in 1 .. m /\ j = 1 + (j - 1)
        BY <2>2
      <4> QED
        BY <4>1
    <3>2. w[j] = r[g] /\ ~Contains(r[g], c) /\ Len(r[g]) <= Len(s) - (k + 1) + 1
      BY <1>4, <1>5, <1>8, <3>1, Zenon
    <3>3. Len(r[g]) \in Nat
      BY <1>4, <1>5
    <3>4. Len(r[g]) <= Len(s) - i + 1
      BY <1>1, <3>2, <3>3
    <3> QED
      BY <3>2, <3>4
  <2> QED
    BY <2>1, <2>2
<1>10. w # <<>> /\ i # n + 1
  BY <1>1, <1>8
<1>11. CASE k = n
  <2>1. w = <<x>>
    <3>1. r = <<>>
      BY <1>4, <1>11
    <3>2. o \o <<>> = o
      OBVIOUS
    <3> QED
      BY <1>6, <1>7, <3>1, <3>2, Zenon
  <2>2. StrJoin(w, c) = x
    BY <2>1, JoinOfOne, Zenon
  <2>3. Rest(s, i, c) = x
    <3>1. i <= n /\ s[n] = c
      BY <1>1, <1>11
    <3> QED
      BY <1>1, <1>2, <1>11, <3>1, Zenon DEF Rest
  <2> QED
    BY <1>1, <1>2, <1>6, <1>7, <1>8, <1>9, <1>10, <2>2, <2>3, Zenon DEF Parted
<1>12. CASE k # n
  <2>1. r # <<>> /\ k + 1 <= n /\ i <= n
    BY <1>1, <1>4, <1>12
  <2>2. StrJoin(w, c) = Append(x, s[k]) \o Rest(s, k + 1, c)
    <3>1. StrJoin(<<x>> \o r, c) = Append(x, c) \o StrJoin(r, c)
      BY <1>4, <2>1, JoinOfMore
    <3> QED
      BY <1>4, <1>6, <1>7, <3>1, Zenon
  <2>3. PICK l \in k .. n : /\ Rest(s, k + 1, c) = SubSeq(s, k + 1, l)
                            /\ Rest(s, i, c) = SubSeq(s, i, l)
    <3>1. CASE s[n] = c
      <4>1. n - 1 \in k .. n
        BY <1>1, <2>1
      <4>2. Rest(s, k + 1, c) = SubSeq(s, k + 1, n - 1) /\ Rest(s, i, c) = SubSeq(s, i, n - 1)
        BY <1>1, <2>1, <3>1, Zenon DEF Rest
      <4> QED
        BY <4>1, <4>2, Zenon
    <3>2. CASE s[n] # c
      <4>1. n \in k .. n
        BY <1>1, <2>1
      <4>2. Rest(s, k + 1, c) = SubSeq(s, k + 1, n) /\ Rest(s, i, c) = SubSeq(s, i, n)
        BY <1>1, <3>2, Zenon DEF Rest
      <4> QED
        BY <4>1, <4>2, Zenon
    <3> QED
      BY <3>1, <3>2
  <2>4. Append(x, s[k]) \o SubSeq(s, k + 1, l) = SubSeq(s, i, l)
    <3>1. l \in k .. Len(s)
      BY <1>1
    <3> QED
      BY <1>2, <3>1, CutsJoin
  <2>5. StrJoin(w, c) = Rest(s, i, c)
    BY <2>2, <2>3, <2>4, Zenon
  <2> QED
    BY <1>1, <1>2, <1>6, <1>7, <1>8, <1>9, <1>10, <2>5, Zenon DEF Parted
<1> QED
  BY <1>11, <1>12

LEMMA PartedFrom ==
  ASSUME NEW s \in Seq(Int), NEW c \in Int, NEW f, SplitsAt(f, s, c)
  PROVE  Parted(f[1], s, 1, c)
<1>1. PICK n \in Nat : n = Len(s)
  OBVIOUS
<1> DEFINE D == 1 .. n + 1
           rank == [i \in D |-> n + 1 - i]
           S == {i \in D : Parted(f[i], s, i, c)}
<1>2. ASSUME NEW i \in D, \A j \in D : rank[j] < rank[i] => j \in S PROVE i \in S
  <2>1. CASE i = n + 1
    <3>1. f[i] = <<>>
      BY <1>1, <2>1 DEF SplitsAt
    <3> QED
      BY <1>1, <2>1, <3>1, PartedAtEnd, Zenon
  <2>2. CASE i # n + 1
    <3>1. PICK k : k = Find(s, <<c>>, i) /\ FindsFirst(k, s, c, i)
      <4>1. i \in 1 .. Len(s) + 1
        BY <1>1
      <4> QED
        BY <4>1, FindIs
    <3>2. i \in 1 .. Len(s)
      BY <1>1, <2>2
    <3>3. f[i] = IF k = 0 THEN <<SubSeq(s, i, Len(s))>> ELSE <<SubSeq(s, i, k - 1)>> \o f[k + 1]
      BY <3>1, <3>2, Zenon DEF SplitsAt
    <3>4. CASE k = 0
      <4>1. \A j \in i .. Len(s) : s[j] # c
        BY <3>1, <3>2, <3>4 DEF FindsFirst
      <4>2. Parted(f[i], s, i, c)
        BY <3>2, <3>3, <3>4, <4>1, PartedAtLast
      <4> QED
        BY <4>2
    <3>5. CASE k # 0
      <4>1. k \in i .. Len(s) /\ s[k] = c /\ \A j \in i .. k - 1 : s[j] # c
        BY <3>1, <3>5 DEF FindsFirst
      <4>2. k + 1 \in D /\ rank[k + 1] < rank[i]
        BY <1>1, <4>1
      <4>3. Parted(f[k + 1], s, k + 1, c)
        BY <1>2, <4>2
      <4>4. Parted(<<SubSeq(s, i, k - 1)>> \o f[k + 1], s, i, c)
        BY <3>2, <4>1, <4>3, PartedAtNext
      <4>5. Parted(f[i], s, i, c)
        BY <3>3, <3>5, <4>4, Zenon
      <4> QED
        BY <4>5
    <3> QED
      BY <3>4, <3>5
  <2> QED
    BY <2>1, <2>2
<1>3. \A i \in D : i \in S
  <2>1. rank \in [D -> Nat]
    OBVIOUS
  <2> HIDE DEF D, S, rank
  <2> QED
    BY <1>2, <2>1, RankedInduction
<1> QED
  BY <1>3

(* StrJoin undoes StrSplit.                                                *)
LEMMA JoinUndoes ==
  ASSUME text \in Seq(Int), text # <<>>
  PROVE  /\ JoinUndoesSplit
         /\ Len(Trim(text)) + 1 < FieldLen => StrSplitFits(text, <<Separator>>)
<1>1. PICK c \in Int : c = Separator
  BY StringAssumption
<1>2. PICK s \in Seq(Int) : s = Trim(text)
  <2>1. PICK a, z : IsPart(Trim(text), text, a, z)
    BY TrimIsPart
  <2> QED
    BY <2>1, Zenon DEF IsPart
<1>3. PICK n \in Nat : n = Len(s)
  OBVIOUS
<1>4. PICK f : SplitsAt(f, s, c) /\ StrSplit(text, <<c>>) = f[1]
  BY <1>2, SplitIs
<1>5. PICK w : w = f[1] /\ Parted(w, s, 1, c)
  BY <1>4, PartedFrom
<1>6. w \in Seq(Seq(Int)) /\ DOMAIN w = 1 .. Len(w)
  <2>1. w \in Seq(Seq(Int))
    BY <1>5, Zenon DEF Parted
  <2> QED
    BY <2>1
<1>7. \A k \in DOMAIN w : ~Contains(w[k], c) /\ Len(w[k]) <= Len(s) - 1 + 1
  BY <1>5, <1>6, Zenon DEF Parted
<1>8. StrJoin(w, c) = IF s # <<>> /\ Last(s) = c THEN SubSeq(s, 1, Len(s) - 1) ELSE s
  <2>1. StrJoin(w, c) = Rest(s, 1, c)
    BY <1>5, Zenon DEF Parted
  <2>2. 1 <= Len(s) <=> s # <<>>
    BY <1>3
  <2>3. Last(s) = s[Len(s)]
    BY DEF Last
  <2>4. SubSeq(s, 1, Len(s)) = s
    BY CutAll
  <2>5. Rest(s, 1, c) = IF s # <<>> /\ Last(s) = c THEN SubSeq(s, 1, Len(s) - 1) ELSE s
    <3>1. CASE s # <<>> /\ Last(s) = c
      BY <2>2, <2>3, <3>1, Zenon DEF Rest
    <3>2. CASE ~(s # <<>> /\ Last(s) = c)
      BY <2>2, <2>3, <2>4, <3>2, Zenon DEF Rest
    <3> QED
      BY <3>1, <3>2
  <2> QED
    BY <2>1, <2>5, Zenon
<1>9. ASSUME Len(s) + 1 < FieldLen PROVE StrSplitFits(text, <<c>>)
  <2>1. ASSUME NEW k \in DOMAIN w PROVE Len(w[k]) + 1 < FieldLen
    <3>1. Len(w[k]) \in Nat /\ FieldLen \in Nat
      BY <1>6, StringAssumption
    <3>2. Len(w[k]) <= n
      BY <1>3, <1>7
    <3> QED
      BY <1>3, <1>9, <3>1, <3>2
  <2> QED
    BY <1>4, <1>5, <2>1, Zenon DEF StrSplitFits
<1>10. JoinUndoesSplit
  BY <1>1, <1>2, <1>4, <1>5, <1>7, <1>8, Zenon DEF JoinUndoesSplit
<1> QED
  BY <1>1, <1>2, <1>9, <1>10, Zenon

LEMMA ElementIs ==
  ASSUME NEW V, NEW s \in Seq(V), NEW i \in 1 .. Len(s)
  PROVE  s[i] \in V
OBVIOUS

LEMMA SeqOfMore ==
  ASSUME NEW V, NEW W, V \subseteq W, NEW s \in Seq(V)
  PROVE  s \in Seq(W)
<1>1. PICK n \in Nat : n = Len(s)
  OBVIOUS
<1>2. s \in [1 .. n -> W]
  BY <1>1
<1> QED
  BY <1>2, FunctionIsSeq, Zenon

StringTypeOK == text \in Seq(Characters) /\ datas \in Seq(Bytes)

LEMMA StringTypeStays == StringSpec => []StringTypeOK
<1>1. StringInit => StringTypeOK
  BY DEF StringInit, StringTypeOK
<1>2. StringTypeOK /\ [StringNext]_stringVars => StringTypeOK'
  <2> SUFFICES ASSUME StringTypeOK, [StringNext]_stringVars PROVE StringTypeOK'
    OBVIOUS
  <2>1. text \in Seq(Characters) /\ datas \in Seq(Bytes)
    BY DEF StringTypeOK
  <2>2. CASE LongerText
    <3>1. PICK c \in Characters : text' = Append(text, c) /\ datas' = datas
      BY <2>2 DEF LongerText
    <3>2. Append(text, c) \in Seq(Characters)
      BY <2>1, AppendIs, Zenon
    <3> QED
      BY <2>1, <3>1, <3>2, Zenon DEF StringTypeOK
  <2>3. CASE MoreBytes
    <3>1. PICK d \in Bytes : datas' = Append(datas, d) /\ text' = text
      BY <2>3 DEF MoreBytes
    <3>2. Append(datas, d) \in Seq(Bytes)
      BY <2>1, AppendIs, Zenon
    <3> QED
      BY <2>1, <3>1, <3>2, Zenon DEF StringTypeOK
  <2>4. CASE UNCHANGED stringVars
    BY <2>1, <2>4 DEF stringVars, StringTypeOK
  <2> QED
    BY <2>2, <2>3, <2>4 DEF StringNext
<1> QED
  BY <1>1, <1>2, PTL DEF StringSpec

(* StringUtility: what Trim, StrSplit, StrSplitBySpaces, StrJoin and       *)
(* GetField make of a text is right, however long it is, as far as the     *)
(* fields that the splits copy fit into their array; words shorter than    *)
(* the array fit, and every field of a text shorter by two.                *)
THEOREM SplitsAreAlwaysRight == StringSpec => []SplitsAreRight
<1>1. StringTypeOK => SplitsAreRight
  <2> SUFFICES ASSUME StringTypeOK, text # <<>>
               PROVE  /\ TrimTakesBlanks /\ FieldIsFound
                      /\ (\A i \in WordStarts(text) : Len(WordAt(text, i)) < FieldLen)
                           => StrSplitBySpacesFits(text) /\ SplitGivesWords
                      /\ Len(Trim(text)) + 1 < FieldLen => StrSplitFits(text, <<Separator>>)
                      /\ JoinUndoesSplit
    BY DEF SplitsAreRight
  <2>1. text \in Seq(Int)
    <3>1. Characters \subseteq Int
      BY StringAssumption
    <3>2. text \in Seq(Characters)
      BY DEF StringTypeOK
    <3> QED
      BY <3>1, <3>2, SeqOfMore, Zenon
  <2>2. /\ SplitGivesWords
        /\ \A n \in DOMAIN StrSplitBySpaces(text) :
             \E i \in WordStarts(text) : StrSplitBySpaces(text)[n] = WordAt(text, i)
    BY <2>1, SplitGives
  <2>3. ASSUME \A i \in WordStarts(text) : Len(WordAt(text, i)) < FieldLen
        PROVE  StrSplitBySpacesFits(text)
    BY <2>2, <2>3, Zenon DEF StrSplitBySpacesFits
  <2> QED
    BY <2>1, <2>2, <2>3, TrimTakes, JoinUndoes, FieldIs
<1> QED
  BY <1>1, StringTypeStays, PTL

------------------------------------------------------------------------------
LEMMA WithinSum ==
  \A a, d \in Nat : a <= a + d /\ \A j \in 1 .. d : a + j \in 1 .. a + d
OBVIOUS

LEMMA OneBefore ==
  \A m \in Nat : \A f \in [Nat -> Nat] : \A k \in 1 .. m + 1 : f[k - 1] + 1 \in Nat
OBVIOUS

(* Where each of a sequence of sequences lies when they are joined.        *)
Lies(x, t, at, V) ==
  /\ x \in Seq(V) /\ at \in [1 .. Len(t) + 1 -> Nat]
  /\ at[1] = 1 /\ at[Len(t) + 1] = Len(x) + 1
  /\ \A k \in 1 .. Len(t) :
       /\ at[k + 1] = at[k] + Len(t[k])
       /\ \A j \in 1 .. Len(t[k]) : x[at[k] + j - 1] = t[k][j]

LEMMA FlattenLies ==
  ASSUME NEW V, NEW t \in Seq(Seq(V))
  PROVE  \E at : Lies(FlattenSeq(t), t, at, V)
<1>1. PICK m \in Nat : m = Len(t)
  OBVIOUS
<1>2. PICK g : Joins(g, t, V)
  BY SomeJoins
<1>3. g \in [Nat -> Seq(V)] /\ g[0] = <<>> /\ \A i \in 1 .. m : g[i] = g[i - 1] \o t[i]
  BY <1>1, <1>2 DEF Joins
<1>4. FlattenSeq(t) = g[m] /\ g[m] \in Seq(V)
  BY <1>1, <1>2, <1>3, FlattenIs
<1>5. PICK len1 \in [Nat -> Nat] : \A i \in Nat : len1[i] = Len(g[i])
  <2>1. [i \in Nat |-> Len(g[i])] \in [Nat -> Nat]
    <3>1. ASSUME NEW i \in Nat PROVE Len(g[i]) \in Nat
      <4>1. g[i] \in Seq(V)
        BY <1>3
      <4> QED
        BY <4>1
    <3> QED
      BY <3>1
  <2> QED
    BY <2>1
<1>6. \A i \in 1 .. m : t[i] \in Seq(V) /\ Len(t[i]) \in Nat
  <2>1. ASSUME NEW i \in 1 .. m PROVE t[i] \in Seq(V) /\ Len(t[i]) \in Nat
    <3>1. t[i] \in Seq(V)
      BY <1>1, ElementIs, Zenon
    <3>2. ASSUME NEW x \in Seq(V) PROVE Len(x) \in Nat
      OBVIOUS
    <3> QED
      BY <3>1, <3>2, Zenon
  <2> QED
    BY <2>1
<1>14. PICK L \in [1 .. m -> Nat] : \A i \in 1 .. m : L[i] = Len(t[i])
  <2>1. [i \in 1 .. m |-> Len(t[i])] \in [1 .. m -> Nat]
    BY <1>6
  <2> QED
    BY <2>1
<1>15. \A i \in Nat : len1[i] \in Nat
  OBVIOUS
<1>7. ASSUME NEW i \in 1 .. m
      PROVE  /\ len1[i] = len1[i - 1] + L[i]
             /\ \A j \in 1 .. len1[i - 1] : g[i][j] = g[i - 1][j]
             /\ \A j \in 1 .. L[i] : g[i][len1[i - 1] + j] = t[i][j]
  <2>1. i \in Nat /\ i - 1 \in Nat
    OBVIOUS
  <2>2. JoinedIs(g[i], g[i - 1], t[i], V)
    <3>1. g[i] = g[i - 1] \o t[i] /\ g[i - 1] \in Seq(V) /\ t[i] \in Seq(V)
      BY <1>3, <1>6, <2>1
    <3> QED
      BY <3>1, ConcatIs
  <2>3. len1[i] = Len(g[i]) /\ len1[i - 1] = Len(g[i - 1])
    BY <1>5, <2>1
  <2> QED
    BY <1>14, <2>2, <2>3, Zenon DEF JoinedIs
<1> DEFINE at == [k \in 1 .. m + 1 |-> len1[k - 1] + 1]
           Holds(i) == \A k \in 1 .. i : \A j \in 1 .. L[k] :
                         at[k] + j - 1 \in 1 .. len1[i] /\ g[i][at[k] + j - 1] = t[k][j]
           S == {i \in Nat : i <= m => Holds(i)}
<1>8. \A i \in Nat : i \in S
  <2>1. 0 \in S
    OBVIOUS
  <2>2. ASSUME NEW i \in Nat, i \in S PROVE i + 1 \in S
    <3>1. ASSUME i + 1 <= m, NEW k \in 1 .. i + 1, NEW j \in 1 .. L[k]
          PROVE  at[k] + j - 1 \in 1 .. len1[i + 1] /\ g[i + 1][at[k] + j - 1] = t[k][j]
      <4>1. i + 1 \in 1 .. m /\ (i + 1) - 1 = i
        BY <3>1
      <4>2. /\ len1[i + 1] = len1[i] + L[i + 1]
            /\ \A l \in 1 .. len1[i] : g[i + 1][l] = g[i][l]
            /\ \A l \in 1 .. L[i + 1] : g[i + 1][len1[i] + l] = t[i + 1][l]
        <5>1. PICK e \in 1 .. m : e = i + 1 /\ e - 1 = i
          BY <4>1
        <5>2. /\ len1[e] = len1[e - 1] + L[e]
              /\ \A l \in 1 .. len1[e - 1] : g[e][l] = g[e - 1][l]
              /\ \A l \in 1 .. L[e] : g[e][len1[e - 1] + l] = t[e][l]
          BY <1>7, Zenon
        <5> QED
          BY <5>1, <5>2, Zenon
      <4>3. len1[i] \in Nat /\ len1[i + 1] \in Nat /\ L[i + 1] \in Nat
        <5>1. L[i + 1] \in Nat
          BY <4>1
        <5>2. i + 1 \in Nat
          OBVIOUS
        <5> QED
          BY <1>15, <5>1, <5>2, Zenon
      <4>4. CASE k = i + 1
        <5>1. at[k] = len1[i] + 1
          BY <3>1, <4>1, <4>4
        <5>2. at[k] + j - 1 = len1[i] + j /\ j \in 1 .. L[i + 1]
          BY <4>3, <4>4, <5>1
        <5> HIDE DEF at
        <5>3. g[i + 1][at[k] + j - 1] = t[k][j]
          BY <4>2, <4>4, <5>2
        <5>4. len1[i] + j \in 1 .. len1[i + 1]
          BY <4>2, <4>3, <5>2, WithinSum, Zenon
        <5> QED
          BY <5>2, <5>3, <5>4
      <4>5. CASE k # i + 1
        <5>1. k \in 1 .. i /\ i <= m
          BY <3>1, <4>5
        <5>2. at[k] + j - 1 \in 1 .. len1[i] /\ g[i][at[k] + j - 1] = t[k][j]
          BY <2>2, <5>1
        <5> HIDE DEF at
        <5>3. len1[i] <= len1[i + 1]
          BY <4>2, <4>3, WithinSum, Zenon
        <5>4. at[k] + j - 1 \in 1 .. len1[i + 1]
          BY <4>3, <5>2, <5>3
        <5> QED
          BY <4>2, <5>2, <5>4, Zenon
      <4> QED
        BY <4>4, <4>5
    <3> HIDE DEF at
    <3> QED
      BY <3>1
  <2> HIDE DEF S
  <2> QED
    BY <2>1, <2>2, SetInduction
<1>9. at \in [1 .. m + 1 -> Nat] /\ at[1] = 1 /\ at[m + 1] = len1[m] + 1
  <2>1. len1[0] = 0
    BY <1>3, <1>5
  <2>2. \A k \in 1 .. m + 1 : len1[k - 1] + 1 \in Nat
    BY OneBefore, Zenon
  <2>3. 1 - 1 = 0 /\ (m + 1) - 1 = m /\ 1 \in 1 .. m + 1 /\ m + 1 \in 1 .. m + 1
    OBVIOUS
  <2> QED
    BY <2>1, <2>2, <2>3
<1>10. ASSUME NEW k \in 1 .. m PROVE at[k + 1] = at[k] + L[k]
  <2>1. k \in 1 .. m + 1 /\ k + 1 \in 1 .. m + 1 /\ (k + 1) - 1 = k /\ k - 1 \in Nat /\ k \in Nat
    OBVIOUS
  <2>2. at[k + 1] = len1[k] + 1 /\ at[k] = len1[k - 1] + 1
    BY <2>1
  <2>3. len1[k] = len1[k - 1] + L[k] /\ len1[k - 1] \in Nat /\ L[k] \in Nat
    <3>1. L[k] \in Nat
      OBVIOUS
    <3>2. len1[k] = len1[k - 1] + L[k]
      BY <1>7, Zenon
    <3> QED
      BY <2>1, <3>1, <3>2
  <2> HIDE DEF at
  <2> QED
    BY <2>2, <2>3
<1>11. Holds(m)
  <2>1. m \in S /\ m <= m
    <3> HIDE DEF S
    <3> QED
      BY <1>8
  <2> HIDE DEF Holds
  <2> QED
    BY <2>1
<1>12. len1[m] = Len(g[m])
  BY <1>5
<1> HIDE DEF at
<1>13. Lies(g[m], t, at, V)
  BY <1>1, <1>4, <1>9, <1>10, <1>11, <1>12, <1>14, Zenon DEF Lies
<1> QED
  BY <1>4, <1>13

------------------------------------------------------------------------------
(* Numbers as strings.                                                     *)

(* The digits of a number, from the last on.                               *)
GivesDigits(f, n, radix) ==
  /\ f[0] = <<>>
  /\ \A m \in 1 .. n : f[m] = <<Digit2Hex(m % radix)>> \o f[m \div radix]

LEMMA DigitsUpIs ==
  ASSUME NEW n \in Nat, NEW radix,
         \A m \in 1 .. n : m % radix \in Int /\ m \div radix \in 0 .. m - 1
  PROVE  \E f : GivesDigits(f, n, radix) /\ DigitsUp(n, radix) = f[n]
<1> DEFINE V == Seq(Int)
           D == 0 .. n
           Of(m, g) == IF m = 0 THEN <<>> ELSE <<Digit2Hex(m % radix)>> \o g[m \div radix]
           F == [m \in D |-> [g \in [D -> V] |-> Of(m, g)]]
           rank == [m \in D |-> m]
<1>1. ASSUME NEW m \in D, m # 0 PROVE m \div radix \in D /\ m \div radix < m /\ Digit2Hex(m % radix) \in Int
  <2>1. m \in 1 .. n
    BY <1>1
  <2>2. PICK q \in 0 .. m - 1, r \in Int : q = m \div radix /\ r = m % radix
    BY <2>1
  <2>3. q \in D /\ q < m
    BY <2>1, <2>2
  <2>4. Digit2Hex(r) \in Int
    BY DEF Digit2Hex, Zero
  <2> QED
    BY <2>2, <2>3, <2>4
<1>2. ASSUME NEW m \in D, NEW g \in [D -> V] PROVE Of(m, g) \in V
  <2>1. CASE m = 0
    BY <2>1
  <2>2. CASE m # 0
    <3>1. PICK x \in Int, r \in V : x = Digit2Hex(m % radix) /\ r = g[m \div radix]
      <4> HIDE DEF V, D
      <4> QED
        BY <1>1, <2>2
    <3>2. <<x>> \o r \in V
      OBVIOUS
    <3> HIDE DEF V
    <3> QED
      BY <2>2, <3>1, <3>2, Zenon
  <2> HIDE DEF V, Of
  <2> QED
    BY <2>1, <2>2
<1>3. ASSUME NEW m \in D, NEW g, NEW h, \A j \in 0 .. m - 1 : g[j] = h[j]
      PROVE  Of(m, g) = Of(m, h)
  <2>1. CASE m = 0
    BY <2>1, Zenon
  <2>2. CASE m # 0
    <3>1. m \div radix \in 0 .. m - 1
      <4>1. m \in 1 .. n
        BY <2>2
      <4> QED
        BY <4>1
    <3>2. g[m \div radix] = h[m \div radix]
      BY <1>3, <3>1, Zenon
    <3> QED
      BY <3>2, Zenon
  <2> QED
    BY <2>1, <2>2, Zenon
<1>4. LooksDown(F, D, rank, V)
  <2>1. F \in [D -> [[D -> V] -> V]] /\ rank \in [D -> Nat]
    <3>1. rank \in [D -> Nat]
      OBVIOUS
    <3> HIDE DEF V, D, Of
    <3> QED
      BY <1>2, <3>1
  <2>2. ASSUME NEW m \in D, NEW g \in [D -> V], NEW h \in [D -> V],
               \A j \in D : rank[j] < rank[m] => g[j] = h[j]
        PROVE  F[m][g] = F[m][h]
    <3>1. ASSUME NEW j \in 0 .. m - 1 PROVE g[j] = h[j]
      <4>1. j \in D /\ rank[j] < rank[m]
        OBVIOUS
      <4> QED
        BY <2>2, <4>1
    <3>2. Of(m, g) = Of(m, h)
      <4> HIDE DEF V, D, Of
      <4> QED
        BY <1>3, <3>1
    <3> HIDE DEF V, D, Of
    <3> QED
      BY <3>2
  <2> HIDE DEF F, V, D, rank
  <2> QED
    BY <2>1, <2>2 DEF LooksDown
<1>5. PICK f : IsMadeBy(f, F, D, V)
  <2>1. <<>> \in V
    OBVIOUS
  <2> HIDE DEF F, V, D, rank
  <2> QED
    BY <1>4, <2>1, RankedRecursion
<1>6. f \in [D -> V] /\ f = [m \in D |-> Of(m, f)]
  <2>1. f \in [D -> V] /\ \A m \in D : f[m] = F[m][f]
    BY <1>5 DEF IsMadeBy
  <2>2. \A m \in D : F[m][f] = Of(m, f)
    <3> HIDE DEF Of, D, V
    <3> QED
      BY <2>1
  <2> HIDE DEF F, Of, D, V
  <2> QED
    BY <2>1, <2>2
<1> DEFINE From == CHOOSE g : g = [m \in D |-> Of(m, g)]
<1>7. From = [m \in D |-> Of(m, From)]
  <2> HIDE DEF Of, D
  <2> QED
    BY <1>6
<1>8. DigitsUp(n, radix) = From[n]
  BY DEF DigitsUp
<1>9. GivesDigits(From, n, radix)
  <2>1. \A m \in D : From[m] = Of(m, From)
    <3> HIDE DEF From, Of, D
    <3> QED
      BY <1>7
  <2>2. 0 \in D /\ \A m \in 1 .. n : m \in D /\ m # 0
    OBVIOUS
  <2> HIDE DEF From, D
  <2>3. From[0] = <<>>
    BY <2>1, <2>2, Zenon
  <2>4. \A m \in 1 .. n : From[m] = <<Digit2Hex(m % radix)>> \o From[m \div radix]
    BY <2>1, <2>2, Zenon
  <2> QED
    BY <2>3, <2>4, Zenon DEF GivesDigits
<1> HIDE DEF From
<1> QED
  BY <1>8, <1>9

(* The value of some digits, from the first on.                            *)
GivesValue(f, s, radix) ==
  /\ f[0] = 0
  /\ \A i \in 1 .. Len(s) : f[i] = f[i - 1] * radix + DigitValue(s[i])

LEMMA ValueIs ==
  ASSUME NEW s \in Seq(Int), NEW radix \in Nat, \A i \in 1 .. Len(s) : DigitValue(s[i]) \in Int
  PROVE  \E f : GivesValue(f, s, radix) /\ Value(s, radix) = f[Len(s)]
<1>0. PICK n \in Nat : n = Len(s)
  OBVIOUS
<1> DEFINE D == 0 .. n
           Of(i, g) == IF i = 0 THEN 0 ELSE g[i - 1] * radix + DigitValue(s[i])
           F == [i \in D |-> [g \in [D -> Int] |-> Of(i, g)]]
           rank == [i \in D |-> i]
<1>1. ASSUME NEW i \in D, NEW g \in [D -> Int] PROVE Of(i, g) \in Int
  <2>1. CASE i = 0
    BY <2>1
  <2>2. CASE i # 0
    <3>1. PICK x \in Int, d \in Int : x = g[i - 1] /\ d = DigitValue(s[i])
      <4>1. i - 1 \in D /\ i \in 1 .. Len(s)
        BY <1>0, <2>2
      <4> HIDE DEF D
      <4> QED
        BY <4>1
    <3>2. x * radix + d \in Int
      OBVIOUS
    <3> QED
      BY <2>2, <3>1, <3>2, Zenon
  <2> HIDE DEF Of
  <2> QED
    BY <2>1, <2>2
<1>2. LooksDown(F, D, rank, Int)
  <2>1. F \in [D -> [[D -> Int] -> Int]] /\ rank \in [D -> Nat]
    <3>1. rank \in [D -> Nat]
      OBVIOUS
    <3> HIDE DEF D, Of
    <3> QED
      BY <1>1, <3>1
  <2>2. ASSUME NEW i \in D, NEW g \in [D -> Int], NEW h \in [D -> Int],
               \A j \in D : rank[j] < rank[i] => g[j] = h[j]
        PROVE  F[i][g] = F[i][h]
    <3>1. Of(i, g) = Of(i, h)
      <4>1. CASE i = 0
        BY <4>1, Zenon
      <4>2. CASE i # 0
        <5>1. i - 1 \in D /\ rank[i - 1] < rank[i]
          BY <4>2
        <5>2. g[i - 1] = h[i - 1]
          <6> HIDE DEF rank, D
          <6> QED
            BY <2>2, <5>1, Zenon
        <5> QED
          BY <5>2, Zenon
      <4> QED
        BY <4>1, <4>2, Zenon
    <3> HIDE DEF D, Of
    <3> QED
      BY <3>1
  <2> HIDE DEF F, D, rank
  <2> QED
    BY <2>1, <2>2 DEF LooksDown
<1>3. PICK f : IsMadeBy(f, F, D, Int)
  <2>1. 0 \in Int
    OBVIOUS
  <2> HIDE DEF F, D, rank
  <2> QED
    BY <1>2, <2>1, RankedRecursion
<1>4. f = [i \in D |-> Of(i, f)]
  <2>1. f \in [D -> Int] /\ \A i \in D : f[i] = F[i][f]
    BY <1>3 DEF IsMadeBy
  <2>2. \A i \in D : F[i][f] = Of(i, f)
    <3> HIDE DEF Of, D
    <3> QED
      BY <2>1
  <2> HIDE DEF F, Of, D
  <2> QED
    BY <2>1, <2>2
<1> DEFINE From == CHOOSE g : g = [i \in D |-> Of(i, g)]
<1>5. From = [i \in D |-> Of(i, From)]
  <2> HIDE DEF Of, D
  <2> QED
    BY <1>4
<1>6. Value(s, radix) = From[n]
  BY <1>0 DEF Value
<1>7. GivesValue(From, s, radix)
  <2>1. \A i \in D : From[i] = Of(i, From)
    <3> HIDE DEF From, Of, D
    <3> QED
      BY <1>5
  <2>2. 0 \in D /\ \A i \in 1 .. Len(s) : i \in D /\ i # 0
    BY <1>0
  <2> HIDE DEF From, D
  <2>3. From[0] = 0
    BY <2>1, <2>2, Zenon
  <2>4. \A i \in 1 .. Len(s) : From[i] = From[i - 1] * radix + DigitValue(s[i])
    BY <2>1, <2>2, Zenon
  <2> QED
    BY <2>3, <2>4, Zenon DEF GivesValue
<1> HIDE DEF From
<1> QED
  BY <1>0, <1>6, <1>7

(* A digit has its value.                                                  *)
LEMMA DigitHasValue ==
  \A v \in 0 .. 15 : /\ Digit2Hex(v) \in Int /\ DigitValue(Digit2Hex(v)) = v
                     /\ v \in 0 .. 9 => Digit2Hex(v) \in Zero .. Zero + 9
                     /\ Digit2Hex(v) = Zero => v = 0
<1> SUFFICES ASSUME NEW v \in 0 .. 15
             PROVE  /\ Digit2Hex(v) \in Int /\ DigitValue(Digit2Hex(v)) = v
                    /\ v \in 0 .. 9 => Digit2Hex(v) \in Zero .. Zero + 9
                    /\ Digit2Hex(v) = Zero => v = 0
  OBVIOUS
<1>1. \A w \in 0 .. 15 : Digit2Hex(w) = Digit2Hex(v) => w = v
  BY DEF Digit2Hex, Zero
<1>2. PICK w : w = DigitValue(Digit2Hex(v))
  OBVIOUS
<1>3. w \in 0 .. 15 /\ Digit2Hex(w) = Digit2Hex(v)
  BY <1>2, Zenon DEF DigitValue
<1>4. w = v
  BY <1>1, <1>3
<1>5. /\ Digit2Hex(v) \in Int /\ (v \in 0 .. 9 => Digit2Hex(v) \in Zero .. Zero + 9)
      /\ (Digit2Hex(v) = Zero => v = 0)
  BY DEF Digit2Hex, Zero
<1> QED
  BY <1>2, <1>4, <1>5

LEMMA ReverseIs ==
  ASSUME NEW V, NEW s \in Seq(V)
  PROVE  /\ ReverseString(s) \in Seq(V) /\ Len(ReverseString(s)) = Len(s)
         /\ \A i \in 1 .. Len(s) : ReverseString(s)[i] = s[Len(s) + 1 - i]
<1>1. PICK n \in Nat : n = Len(s) /\ DOMAIN s = 1 .. n
  OBVIOUS
<1>2. ReverseString(s) = [i \in 1 .. n |-> s[n + 1 - i]]
  BY <1>1 DEF ReverseString
<1>3. \A i \in 1 .. n : s[n + 1 - i] \in V
  BY <1>1
<1>4. ReverseString(s) \in [1 .. n -> V]
  BY <1>2, <1>3
<1>5. ReverseString(s) \in Seq(V) /\ Len(ReverseString(s)) = n
  BY <1>4, FunctionIsSeq, Zenon
<1>6. \A i \in 1 .. n : ReverseString(s)[i] = s[n + 1 - i]
  BY <1>2
<1> QED
  BY <1>1, <1>5, <1>6, Zenon

IsTwo(y, a, c, V) == y \in Seq(V) /\ Len(y) = 2 /\ y[1] = a /\ y[2] = c
IsThree(y, a, c, d, V) ==
  y \in Seq(V) /\ Len(y) = 3 /\ y[1] = a /\ y[2] = c /\ y[3] = d
IsFour(y, a, c, d, e, V) ==
  y \in Seq(V) /\ Len(y) = 4 /\ y[1] = a /\ y[2] = c /\ y[3] = d /\ y[4] = e

LEMMA TwoAre ==
  ASSUME NEW V, NEW a \in V, NEW c \in V
  PROVE  IsTwo(<<a, c>>, a, c, V)
BY DEF IsTwo

LEMMA ThreeAre ==
  ASSUME NEW V, NEW a \in V, NEW c \in V, NEW d \in V
  PROVE  IsThree(<<a, c, d>>, a, c, d, V)
BY DEF IsThree

LEMMA FourAre ==
  ASSUME NEW V, NEW a \in V, NEW c \in V, NEW d \in V, NEW e \in V
  PROVE  IsFour(<<a, c, d, e>>, a, c, d, e, V)
BY DEF IsFour

LEMMA OneMore ==
  ASSUME NEW V, NEW a \in V, NEW c \in V
  PROVE  <<a>> \o <<>> = <<a>> /\ <<a>> \o <<c>> = <<a, c>> /\ Append(<<a>>, c) = <<a, c>>
<1>1. <<a>> \o <<>> = <<a>>
  OBVIOUS
<1>2. PICK o \in Seq(V) : o = <<a>> /\ Len(o) = 1 /\ o[1] = a
  BY OneIs, Zenon
<1>3. PICK w \in Seq(V) : w = <<c>> /\ Len(w) = 1 /\ w[1] = c
  BY OneIs, Zenon
<1>4. PICK y : y = <<a, c>> /\ IsTwo(y, a, c, V)
  BY TwoAre
<1>5. PICK x : x = o \o w /\ JoinedIs(x, o, w, V)
  BY ConcatIs, Zenon
<1>6. /\ x \in Seq(V) /\ Len(x) = 1 + 1 /\ (\A i \in 1 .. 1 : x[i] = o[i])
      /\ \A i \in 1 .. 1 : x[1 + i] = w[i]
  BY <1>2, <1>3, <1>5, Zenon DEF JoinedIs
<1>7. x = y
  <2>1. y \in Seq(V) /\ Len(x) = 2 /\ Len(y) = 2 /\ \A i \in 1 .. 2 : x[i] = y[i]
    <3>1. x[1 + 1] = c /\ x[1] = a
      BY <1>2, <1>3, <1>6
    <3> QED
      BY <1>4, <1>6, <3>1 DEF IsTwo
  <2> QED
    BY <1>6, <2>1, SameSequence, Zenon
<1>8. PICK z : z = Append(o, c)
  OBVIOUS
<1>9. z = y
  <2>1. /\ z \in Seq(V) /\ Len(z) = Len(o) + 1
        /\ (\A i \in 1 .. Len(o) : z[i] = o[i]) /\ z[Len(o) + 1] = c
    BY <1>8, AppendIs
  <2>2. y \in Seq(V) /\ Len(z) = 2 /\ Len(y) = 2 /\ \A i \in 1 .. 2 : z[i] = y[i]
    <3>1. Len(z) = 1 + 1 /\ (\A i \in 1 .. 1 : z[i] = o[i]) /\ z[1 + 1] = c
      BY <1>2, <2>1, Zenon
    <3> QED
      BY <1>2, <1>4, <2>1, <3>1 DEF IsTwo
  <2> QED
    BY <2>1, <2>2, SameSequence, Zenon
<1> QED
  BY <1>1, <1>2, <1>3, <1>4, <1>5, <1>7, <1>8, <1>9, Zenon

LEMMA TwoMore ==
  ASSUME NEW V, NEW a \in V, NEW c \in V, NEW d \in V
  PROVE  <<a>> \o <<c, d>> = <<a, c, d>>
<1>1. PICK o \in Seq(V) : o = <<a>> /\ Len(o) = 1 /\ o[1] = a
  BY OneIs, Zenon
<1>2. PICK w : w = <<c, d>> /\ IsTwo(w, c, d, V)
  BY TwoAre
<1>3. PICK y : y = <<a, c, d>> /\ IsThree(y, a, c, d, V)
  BY ThreeAre
<1>4. PICK x : x = o \o w /\ JoinedIs(x, o, w, V)
  <2>1. w \in Seq(V)
    BY <1>2 DEF IsTwo
  <2> QED
    BY <2>1, ConcatIs, Zenon
<1>5. /\ x \in Seq(V) /\ Len(x) = 1 + 2 /\ (\A i \in 1 .. 1 : x[i] = o[i])
      /\ \A i \in 1 .. 2 : x[1 + i] = w[i]
  <2>1. Len(w) = 2
    BY <1>2 DEF IsTwo
  <2> QED
    BY <1>1, <1>4, <2>1, Zenon DEF JoinedIs
<1>6. y \in Seq(V) /\ Len(x) = 3 /\ Len(y) = 3 /\ \A i \in 1 .. 3 : x[i] = y[i]
  <2>1. x[1 + 1] = c /\ x[1 + 2] = d /\ x[1] = a
    BY <1>1, <1>2, <1>5 DEF IsTwo
  <2> QED
    BY <1>3, <1>5, <2>1 DEF IsThree
<1>7. x = y
  BY <1>5, <1>6, SameSequence, Zenon
<1> QED
  BY <1>1, <1>2, <1>3, <1>4, <1>7, Zenon

LEMMA TwoAndTwo ==
  ASSUME NEW V, NEW a \in V, NEW c \in V, NEW d \in V, NEW e \in V
  PROVE  <<a, c>> \o <<d, e>> = <<a, c, d, e>>
<1>1. PICK o : o = <<a, c>> /\ IsTwo(o, a, c, V)
  BY TwoAre
<1>2. PICK w : w = <<d, e>> /\ IsTwo(w, d, e, V)
  BY TwoAre
<1>3. PICK y : y = <<a, c, d, e>> /\ IsFour(y, a, c, d, e, V)
  BY FourAre
<1>4. PICK x : x = o \o w /\ JoinedIs(x, o, w, V)
  <2>1. o \in Seq(V) /\ w \in Seq(V)
    BY <1>1, <1>2 DEF IsTwo
  <2> QED
    BY <2>1, ConcatIs, Zenon
<1>5. /\ x \in Seq(V) /\ Len(x) = 2 + 2 /\ (\A i \in 1 .. 2 : x[i] = o[i])
      /\ \A i \in 1 .. 2 : x[2 + i] = w[i]
  <2>1. Len(o) = 2 /\ Len(w) = 2
    BY <1>1, <1>2 DEF IsTwo
  <2> QED
    BY <1>4, <2>1, Zenon DEF JoinedIs
<1>6. y \in Seq(V) /\ Len(x) = 4 /\ Len(y) = 4 /\ \A i \in 1 .. 4 : x[i] = y[i]
  <2>1. x[2 + 1] = d /\ x[2 + 2] = e /\ x[1] = a /\ x[2] = c
    BY <1>1, <1>2, <1>5 DEF IsTwo
  <2> QED
    BY <1>3, <1>5, <2>1 DEF IsFour
<1>7. x = y
  BY <1>5, <1>6, SameSequence, Zenon
<1> QED
  BY <1>1, <1>2, <1>3, <1>4, <1>7, Zenon

(* What a byte is in hexadecimal.                                          *)
IsHex(x, d) ==
  /\ x \in Seq(Int) /\ Len(x) = 4
  /\ x[1] = Zero /\ x[2] = LetterX
  /\ x[3] = Digit2Hex(d \div 16) /\ x[4] = Digit2Hex(d % 16)

LEMMA HexIs ==
  ASSUME NEW d \in 0 .. 255
  PROVE  IsHex(Oct2HexString(d), d)
<1>1. PICK hi \in 0 .. 15, lo \in 0 .. 15 : hi = d \div 16 /\ lo = d % 16 /\ d = 16 * hi + lo
  OBVIOUS
<1>2. PICK h \in Int, l \in Int : h = Digit2Hex(hi) /\ l = Digit2Hex(lo) /\ (hi = 0 => h = Zero)
  BY DEF Digit2Hex, Zero
<1>3. Zero \in Int /\ LetterX \in Int
  BY DEF Zero, LetterX
<1>4. CASE d = 0
  <2>1. hi = 0 /\ lo = 0
    BY <1>1, <1>4
  <2>2. Digit2Hex(0) = Zero
    BY DEF Digit2Hex, Zero
  <2>3. Oct2HexString(d) = <<Zero, LetterX, Zero, Zero>>
    BY <1>4, Zenon DEF Oct2HexString
  <2>4. IsFour(<<Zero, LetterX, Zero, Zero>>, Zero, LetterX, Zero, Zero, Int)
    BY <1>3, FourAre
  <2>5. Digit2Hex(d \div 16) = Zero /\ Digit2Hex(d % 16) = Zero
    BY <1>1, <2>1, <2>2, Zenon
  <2>6. PICK x : x = Oct2HexString(d) /\ IsFour(x, Zero, LetterX, Zero, Zero, Int)
    BY <2>3, <2>4, Zenon
  <2> QED
    BY <2>5, <2>6, Zenon DEF IsHex, IsFour
<1>5. CASE d # 0
  <2>1. PICK f : GivesDigits(f, d, 16) /\ DigitsUp(d, 16) = f[d]
    <3>1. \A m \in 1 .. d : m % 16 \in Int /\ m \div 16 \in 0 .. m - 1
      OBVIOUS
    <3>2. d \in Nat
      OBVIOUS
    <3> QED
      BY <3>1, <3>2, DigitsUpIs
  <2>2. f[0] = <<>> /\ \A m \in 1 .. d : f[m] = <<Digit2Hex(m % 16)>> \o f[m \div 16]
    BY <2>1, Zenon DEF GivesDigits
  <2>3. f[d] = <<l>> \o f[hi]
    <3>1. d \in 1 .. d
      BY <1>5
    <3> QED
      BY <1>1, <1>2, <2>2, <3>1, Zenon
  <2>4. Padded(DigitsUp(d, 16)) = <<l, h>>
    <3>1. CASE hi = 0
      <4>1. f[d] = <<l>>
        BY <2>2, <2>3, <3>1, OneMore, Zenon
      <4>2. Len(<<l>>) % 2 = 1
        OBVIOUS
      <4>3. Padded(<<l>>) = Append(<<l>>, Zero)
        BY <4>2, Zenon DEF Padded
      <4> QED
        <5>1. Append(<<l>>, h) = <<l, h>>
          BY OneMore, Zenon
        <5> QED
          BY <1>2, <2>1, <3>1, <4>1, <4>3, <5>1, Zenon
    <3>2. CASE hi # 0
      <4>1. hi \in 1 .. d /\ hi % 16 = hi /\ hi \div 16 = 0
        BY <1>1, <3>2
      <4>2. f[hi] = <<h>> \o <<>>
        BY <1>2, <2>2, <4>1, Zenon
      <4>3. f[d] = <<l, h>>
        <5>1. <<h>> \o <<>> = <<h>> /\ <<l>> \o <<h>> = <<l, h>>
          BY OneMore, Zenon
        <5> QED
          BY <2>3, <4>2, <5>1, Zenon
      <4>4. ~(Len(<<l, h>>) % 2 = 1)
        OBVIOUS
      <4> QED
        BY <2>1, <4>3, <4>4, Zenon DEF Padded
    <3> QED
      BY <3>1, <3>2
  <2>5. Padded(DigitsUp(d, 16)) \o <<LetterX, Zero>> = <<l, h, LetterX, Zero>>
    <3>1. PICK e \in Int, z \in Int : e = LetterX /\ z = Zero
      BY <1>3
    <3>2. <<l, h>> \o <<e, z>> = <<l, h, e, z>>
      BY TwoAndTwo, Zenon
    <3>3. <<l, h>> \o <<LetterX, Zero>> = <<l, h, LetterX, Zero>>
      BY <3>1, <3>2, Zenon
    <3> QED
      BY <2>4, <3>3, Zenon
  <2>6. PICK s \in Seq(Int) : /\ s = <<l, h, LetterX, Zero>> /\ Len(s) = 4
                              /\ s[1] = l /\ s[2] = h /\ s[3] = LetterX /\ s[4] = Zero
    <3>1. PICK s : s = <<l, h, LetterX, Zero>> /\ IsFour(s, l, h, LetterX, Zero, Int)
      BY <1>3, FourAre
    <3> QED
      BY <3>1 DEF IsFour
  <2>7. PICK x : x = ReverseString(s)
    OBVIOUS
  <2>8. Oct2HexString(d) = x
    BY <1>5, <2>5, <2>6, <2>7, Zenon DEF Oct2HexString
  <2>9. x \in Seq(Int) /\ Len(x) = 4 /\ \A i \in 1 .. 4 : x[i] = s[4 + 1 - i]
    BY <2>6, <2>7, ReverseIs, Zenon
  <2>10. x[1] = Zero /\ x[2] = LetterX /\ x[3] = h /\ x[4] = l
    BY <2>6, <2>9
  <2> QED
    BY <1>1, <1>2, <2>8, <2>9, <2>10, Zenon DEF IsHex
<1> QED
  BY <1>4, <1>5

(* What a byte is in decimal.                                              *)
IsDecimal(x, d) ==
  /\ x \in Seq(Int) /\ Len(x) \in 1 .. 3
  /\ \A i \in 1 .. Len(x) : x[i] \in Zero .. Zero + 9
  /\ Value(x, 10) = d
  /\ Len(x) > 1 => x[1] # Zero

(* x shows the digits v, which make the number d.                          *)
Shows(x, v, d) ==
  /\ x \in Seq(Int) /\ v \in Seq(0 .. 9) /\ Len(v) = Len(x) /\ Len(x) \in 1 .. 3
  /\ \A i \in 1 .. Len(x) : x[i] = Digit2Hex(v[i])
  /\ Len(x) = 1 => d = v[1]
  /\ Len(x) = 2 => d = 10 * v[1] + v[2]
  /\ Len(x) = 3 => d = 100 * v[1] + 10 * v[2] + v[3]
  /\ Len(x) > 1 => v[1] # 0

LEMMA ValueOfDigits ==
  ASSUME NEW d \in Int, NEW x, NEW v, Shows(x, v, d)
  PROVE  (\A i \in 1 .. Len(x) : x[i] \in Zero .. Zero + 9) /\ Value(x, 10) = d
<1> USE DEF Shows
<1>1. PICK n \in 1 .. 3 : n = Len(x) /\ n = Len(v)
  OBVIOUS
<1>2. ASSUME NEW i \in 1 .. n
      PROVE  v[i] \in 0 .. 9 /\ x[i] \in Zero .. Zero + 9 /\ DigitValue(x[i]) = v[i]
  <2>1. v[i] \in 0 .. 9 /\ x[i] = Digit2Hex(v[i])
    BY <1>1
  <2>2. v[i] \in 0 .. 15
    BY <2>1
  <2> QED
    BY <2>1, <2>2, DigitHasValue, Zenon
<1>3. PICK f : GivesValue(f, x, 10) /\ Value(x, 10) = f[n]
  <2>1. ASSUME NEW i \in 1 .. Len(x) PROVE DigitValue(x[i]) \in Int
    <3>1. v[i] \in 0 .. 9 /\ DigitValue(x[i]) = v[i]
      BY <1>1, <1>2, Zenon
    <3>2. \A j \in 0 .. 9 : j \in Int
      OBVIOUS
    <3> QED
      BY <3>1, <3>2, Zenon
  <2>2. 10 \in Nat
    OBVIOUS
  <2> QED
    BY <1>1, <2>1, <2>2, ValueIs
<1>4. f[0] = 0 /\ \A i \in 1 .. n : f[i] = f[i - 1] * 10 + v[i]
  <2>1. f[0] = 0 /\ \A i \in 1 .. n : f[i] = f[i - 1] * 10 + DigitValue(x[i])
    BY <1>1, <1>3, Zenon DEF GivesValue
  <2> QED
    BY <1>2, <2>1
<1>5. v[1] \in 0 .. 9 /\ f[1] = v[1]
  BY <1>2, <1>4
<1>6. n > 1 => v[2] \in 0 .. 9 /\ f[2] = 10 * v[1] + v[2]
  <2>1. ASSUME n > 1 PROVE v[2] \in 0 .. 9 /\ f[2] = f[1] * 10 + v[2]
    <3>1. 2 \in 1 .. n /\ 2 - 1 = 1
      BY <2>1
    <3>2. f[2] = f[2 - 1] * 10 + v[2]
      BY <1>4, <3>1, Zenon
    <3> QED
      BY <1>2, <3>1, <3>2, Zenon
  <2> QED
    BY <1>5, <2>1
<1>7. n > 2 => f[3] = d
  <2>1. ASSUME n > 2 PROVE v[3] \in 0 .. 9 /\ f[3] = f[2] * 10 + v[3]
    <3>1. 3 \in 1 .. n /\ 3 - 1 = 2
      BY <2>1
    <3>2. f[3] = f[3 - 1] * 10 + v[3]
      BY <1>4, <3>1, Zenon
    <3> QED
      BY <1>2, <3>1, <3>2, Zenon
  <2>2. n > 2 => n = 3
    OBVIOUS
  <2>3. n = 3 => d = 100 * v[1] + 10 * v[2] + v[3]
    BY <1>1, Zenon
  <2>4. \A x1, x2, x3 \in 0 .. 9 : (10 * x1 + x2) * 10 + x3 = 100 * x1 + 10 * x2 + x3
    OBVIOUS
  <2>5. n > 2 => n > 1
    OBVIOUS
  <2>6. ASSUME n > 2 PROVE f[3] = d
    <3>1. /\ v[1] \in 0 .. 9 /\ v[2] \in 0 .. 9 /\ v[3] \in 0 .. 9
          /\ f[2] = 10 * v[1] + v[2] /\ f[3] = f[2] * 10 + v[3]
          /\ d = 100 * v[1] + 10 * v[2] + v[3]
      BY <1>5, <1>6, <2>1, <2>2, <2>3, <2>5, <2>6, Zenon
    <3>2. (10 * v[1] + v[2]) * 10 + v[3] = 100 * v[1] + 10 * v[2] + v[3]
      BY <2>4, <3>1, Zenon
    <3>3. f[2] * 10 + v[3] = d
      BY <3>1, <3>2, Zenon
    <3> QED
      BY <3>1, <3>3, Zenon
  <2> QED
    BY <2>6
<1>8. \A i \in 1 .. Len(x) : x[i] \in Zero .. Zero + 9
  BY <1>1, <1>2
<1>9. f[n] = d
  <2>1. n = 1 \/ n = 2 \/ n = 3
    OBVIOUS
  <2>2. n = 1 => d = v[1]
    BY <1>1, Zenon
  <2>3. n = 2 => d = 10 * v[1] + v[2] /\ n > 1
    BY <1>1
  <2>4. n = 3 => n > 2
    OBVIOUS
  <2> QED
    BY <1>5, <1>6, <1>7, <2>1, <2>2, <2>3, <2>4, Zenon
<1> QED
  BY <1>3, <1>8, <1>9, Zenon

LEMMA DecimalIs ==
  ASSUME NEW d \in 0 .. 255
  PROVE  IsDecimal(Oct2OctString(d), d)
<1>1. PICK x : x = Oct2OctString(d)
  OBVIOUS
<1> SUFFICES \E v : Shows(x, v, d)
  <2>1. PICK v : Shows(x, v, d)
    OBVIOUS
  <2>2. (\A i \in 1 .. Len(x) : x[i] \in Zero .. Zero + 9) /\ Value(x, 10) = d
    <3>1. d \in Int
      OBVIOUS
    <3> QED
      BY <2>1, <3>1, ValueOfDigits, Zenon
  <2>3. Len(x) > 1 => x[1] # Zero
    <3>1. 1 \in 1 .. Len(x) /\ v[1] \in 0 .. 15
      BY <2>1 DEF Shows
    <3>2. x[1] = Digit2Hex(v[1])
      BY <2>1, <3>1, Zenon DEF Shows
    <3>3. x[1] = Zero => v[1] = 0
      BY <3>1, <3>2, DigitHasValue, Zenon
    <3> QED
      BY <2>1, <3>3, Zenon DEF Shows
  <2>4. x \in Seq(Int) /\ Len(x) \in 1 .. 3
    BY <2>1, Zenon DEF Shows
  <2> QED
    BY <1>1, <2>2, <2>3, <2>4, Zenon DEF IsDecimal
<1>2. \A v \in 0 .. 9 : Digit2Hex(v) \in Int
  BY DEF Digit2Hex, Zero
<1>3. CASE d = 0
  <2>1. x = <<Zero>> /\ Digit2Hex(0) = Zero /\ Zero \in Int
    <3>1. x = <<Zero>>
      BY <1>1, <1>3, Zenon DEF Oct2OctString
    <3> QED
      BY <3>1 DEF Digit2Hex, Zero
  <2>2. PICK v \in Seq(0 .. 9) : Len(v) = 1 /\ v[1] = 0
    <3>1. <<0>> \in Seq(0 .. 9) /\ Len(<<0>>) = 1 /\ <<0>>[1] = 0
      OBVIOUS
    <3> QED
      BY <3>1
  <2>3. x \in Seq(Int) /\ Len(x) = 1 /\ x[1] = Digit2Hex(v[1])
    BY <2>1, <2>2
  <2>4. Shows(x, v, d)
    BY <1>3, <2>2, <2>3 DEF Shows
  <2> QED
    BY <2>4
<1>4. CASE d # 0
  <2>1. PICK f : GivesDigits(f, d, 10) /\ DigitsUp(d, 10) = f[d]
    <3>1. \A m \in 1 .. d : m % 10 \in Int /\ m \div 10 \in 0 .. m - 1
      OBVIOUS
    <3>2. d \in Nat
      OBVIOUS
    <3> QED
      BY <3>1, <3>2, DigitsUpIs
  <2>2. f[0] = <<>> /\ \A m \in 1 .. d : f[m] = <<Digit2Hex(m % 10)>> \o f[m \div 10]
    BY <2>1, Zenon DEF GivesDigits
  <2>3. x = ReverseString(f[d])
    BY <1>1, <1>4, <2>1, Zenon DEF Oct2OctString
  <2>4. PICK q \in 0 .. 25, r \in 0 .. 9 : q = d \div 10 /\ r = d % 10 /\ d = 10 * q + r
    OBVIOUS
  <2>5. PICK a \in 0 .. 2, c \in 0 .. 9 : a = q \div 10 /\ c = q % 10 /\ q = 10 * a + c
    OBVIOUS
  <2>6. PICK ha \in Int, hc \in Int, hr \in Int :
          ha = Digit2Hex(a) /\ hc = Digit2Hex(c) /\ hr = Digit2Hex(r)
    <3>1. a \in 0 .. 9
      OBVIOUS
    <3> QED
      BY <1>2, <3>1
  <2>7. f[d] = <<hr>> \o f[q]
    <3>1. d \in 1 .. d
      BY <1>4
    <3> QED
      BY <2>2, <2>4, <2>6, <3>1, Zenon
  <2>8. q # 0 => f[q] = <<hc>> \o f[a]
    <3>1. q # 0 => q \in 1 .. d
      BY <2>4
    <3> QED
      BY <2>2, <2>5, <2>6, <3>1, Zenon
  <2>9. a # 0 => f[a] = <<ha>>
    <3>1. a # 0 => a \in 1 .. d /\ a % 10 = a /\ a \div 10 = 0
      BY <2>4, <2>5
    <3>2. <<ha>> \o <<>> = <<ha>>
      BY OneMore, Zenon
    <3> QED
      BY <2>2, <2>6, <3>1, <3>2, Zenon
  <2>10. CASE q = 0
    <3>1. f[d] = <<hr>>
      BY <2>2, <2>7, <2>10, OneMore, Zenon
    <3>2. PICK s \in Seq(Int) : s = <<hr>> /\ Len(s) = 1 /\ s[1] = hr
      BY OneIs, Zenon
    <3>3. x \in Seq(Int) /\ Len(x) = 1 /\ x[1] = s[1 + 1 - 1]
      <4>1. 1 \in 1 .. 1
        OBVIOUS
      <4>2. /\ ReverseString(s) \in Seq(Int) /\ Len(ReverseString(s)) = Len(s)
            /\ \A i \in 1 .. Len(s) : ReverseString(s)[i] = s[Len(s) + 1 - i]
        BY ReverseIs, Zenon
      <4> QED
        BY <2>3, <3>1, <3>2, <4>1, <4>2, Zenon
    <3>4. PICK v \in Seq(0 .. 9) : Len(v) = 1 /\ v[1] = r
      BY OneIs, Zenon
    <3>5. d = r /\ x[1] = hr
      BY <2>4, <2>10, <3>2, <3>3
    <3>6. Shows(x, v, d)
      BY <2>6, <3>3, <3>4, <3>5 DEF Shows
    <3> QED
      BY <3>6
  <2>11. CASE q # 0 /\ a = 0
    <3>1. f[d] = <<hr, hc>>
      <4>1. <<hc>> \o <<>> = <<hc>> /\ <<hr>> \o <<hc>> = <<hr, hc>>
        BY OneMore, Zenon
      <4> QED
        BY <2>2, <2>7, <2>8, <2>11, <4>1, Zenon
    <3>2. PICK s \in Seq(Int) : s = <<hr, hc>> /\ Len(s) = 2 /\ s[1] = hr /\ s[2] = hc
      <4>1. PICK s : s = <<hr, hc>> /\ IsTwo(s, hr, hc, Int)
        BY TwoAre
      <4> QED
        BY <4>1 DEF IsTwo
    <3>3. x \in Seq(Int) /\ Len(x) = 2 /\ \A i \in 1 .. 2 : x[i] = s[2 + 1 - i]
      <4>1. /\ ReverseString(s) \in Seq(Int) /\ Len(ReverseString(s)) = Len(s)
            /\ \A i \in 1 .. Len(s) : ReverseString(s)[i] = s[Len(s) + 1 - i]
        BY ReverseIs, Zenon
      <4> QED
        BY <2>3, <3>1, <3>2, <4>1, Zenon
    <3>4. x[1] = hc /\ x[2] = hr
      BY <3>2, <3>3
    <3>5. PICK v \in Seq(0 .. 9) : Len(v) = 2 /\ v[1] = c /\ v[2] = r
      <4>1. IsTwo(<<c, r>>, c, r, 0 .. 9)
        BY TwoAre
      <4> QED
        BY <4>1, Zenon DEF IsTwo
    <3>6. d = 10 * c + r /\ c # 0
      BY <2>4, <2>5, <2>11
    <3>7. \A i \in 1 .. Len(x) : x[i] = Digit2Hex(v[i])
      BY <2>6, <3>3, <3>4, <3>5
    <3>8. Len(x) = 2 /\ Len(v) = 2 /\ d = 10 * v[1] + v[2] /\ v[1] # 0
      BY <3>3, <3>5, <3>6
    <3>9. Shows(x, v, d)
      BY <3>3, <3>5, <3>7, <3>8 DEF Shows
    <3> QED
      BY <3>9, Zenon
  <2>12. CASE q # 0 /\ a # 0
    <3>1. f[d] = <<hr, hc, ha>>
      <4>1. <<hc>> \o <<ha>> = <<hc, ha>> /\ <<hr>> \o <<hc, ha>> = <<hr, hc, ha>>
        BY OneMore, TwoMore, Zenon
      <4> QED
        BY <2>7, <2>8, <2>9, <2>12, <4>1, Zenon
    <3>2. PICK s \in Seq(Int) : /\ s = <<hr, hc, ha>> /\ Len(s) = 3
                                /\ s[1] = hr /\ s[2] = hc /\ s[3] = ha
      <4>1. PICK s : s = <<hr, hc, ha>> /\ IsThree(s, hr, hc, ha, Int)
        BY ThreeAre
      <4> QED
        BY <4>1 DEF IsThree
    <3>3. x \in Seq(Int) /\ Len(x) = 3 /\ \A i \in 1 .. 3 : x[i] = s[3 + 1 - i]
      <4>1. /\ ReverseString(s) \in Seq(Int) /\ Len(ReverseString(s)) = Len(s)
            /\ \A i \in 1 .. Len(s) : ReverseString(s)[i] = s[Len(s) + 1 - i]
        BY ReverseIs, Zenon
      <4> QED
        BY <2>3, <3>1, <3>2, <4>1, Zenon
    <3>4. x[1] = ha /\ x[2] = hc /\ x[3] = hr
      BY <3>2, <3>3
    <3>5. PICK v \in Seq(0 .. 9) : Len(v) = 3 /\ v[1] = a /\ v[2] = c /\ v[3] = r
      <4>1. a \in 0 .. 9
        OBVIOUS
      <4>2. IsThree(<<a, c, r>>, a, c, r, 0 .. 9)
        BY <4>1, ThreeAre
      <4> QED
        BY <4>2, Zenon DEF IsThree
    <3>6. d = 100 * a + 10 * c + r
      BY <2>4, <2>5
    <3>7. \A i \in 1 .. Len(x) : x[i] = Digit2Hex(v[i])
      BY <2>6, <3>3, <3>4, <3>5
    <3>8. Len(x) = 3 /\ Len(v) = 3 /\ d = 100 * v[1] + 10 * v[2] + v[3] /\ v[1] # 0
      BY <2>12, <3>3, <3>5, <3>6
    <3>9. Shows(x, v, d)
      BY <3>3, <3>5, <3>7, <3>8 DEF Shows
    <3> QED
      BY <3>9, Zenon
  <2> QED
    BY <2>10, <2>11, <2>12
<1> QED
  BY <1>3, <1>4

LEMMA NothingBehind ==
  ASSUME NEW V, NEW x \in Seq(V)
  PROVE  x \o <<>> = x
<1>1. PICK o \in Seq(V) : o = <<>> /\ Len(o) = 0
  <2>1. <<>> \in Seq(V) /\ Len(<<>>) = 0
    OBVIOUS
  <2> QED
    BY <2>1, Zenon
<1>2. PICK y : y = x \o o /\ JoinedIs(y, x, o, V)
  BY ConcatIs, Zenon
<1>3. PICK n \in Nat : n = Len(x)
  OBVIOUS
<1>4. y \in Seq(V) /\ Len(y) = n /\ \A i \in 1 .. n : y[i] = x[i]
  <2>1. y \in Seq(V) /\ Len(y) = n + 0 /\ \A i \in 1 .. n : y[i] = x[i]
    BY <1>1, <1>2, <1>3, Zenon DEF JoinedIs
  <2> QED
    BY <2>1
<1>5. y = x
  <2>1. Len(x) = n
    BY <1>3
  <2> QED
    BY <1>4, <2>1, SameSequence
<1> QED
  BY <1>1, <1>2, <1>5, Zenon

(* The value of two hexadecimal digits.                                    *)
LEMMA TwoHexDigits ==
  ASSUME NEW x \in Seq(Int), Len(x) = 2, NEW hi \in 0 .. 15, NEW lo \in 0 .. 15,
         x[1] = Digit2Hex(hi), x[2] = Digit2Hex(lo)
  PROVE  Value(x, 16) = 16 * hi + lo
<1>1. DigitValue(x[1]) = hi /\ DigitValue(x[2]) = lo
  BY DigitHasValue, Zenon
<1>2. PICK f : GivesValue(f, x, 16) /\ Value(x, 16) = f[2]
  <2>1. \A i \in 1 .. Len(x) : DigitValue(x[i]) \in Int
    BY <1>1
  <2>2. 16 \in Nat
    OBVIOUS
  <2>3. PICK f : GivesValue(f, x, 16) /\ Value(x, 16) = f[Len(x)]
    BY <2>1, <2>2, ValueIs
  <2> QED
    BY <2>3, Zenon
<1>3. f[0] = 0 /\ \A i \in 1 .. 2 : f[i] = f[i - 1] * 16 + DigitValue(x[i])
  BY <1>2, Zenon DEF GivesValue
<1>4. f[1] = hi /\ f[2] = f[1] * 16 + lo
  <2>1. f[1] = f[1 - 1] * 16 + hi /\ f[2] = f[2 - 1] * 16 + lo
    BY <1>1, <1>3
  <2> QED
    BY <1>3, <2>1
<1>5. hi * 16 + lo = 16 * hi + lo
  OBVIOUS
<1> QED
  BY <1>2, <1>4, <1>5, Zenon

(* The bytes behind each other in hexadecimal.                             *)
HexReadBack(s, x) ==
  /\ Len(x) = 4 * Len(s)
  /\ \A i \in DOMAIN s :
       SubSeq(x, 4 * i - 3, 4 * i - 2) = <<Zero, LetterX>> /\ HexByte(x, i) = s[i]

LEMMA HexIsReadBack ==
  ASSUME NEW s \in Seq(0 .. 255)
  PROVE  HexReadBack(s, Byte2HexString(s, <<>>))
<1>1. PICK n \in Nat : n = Len(s) /\ DOMAIN s = 1 .. n
  OBVIOUS
<1>2. PICK t : t = [i \in 1 .. n |-> Oct2HexString(s[i]) \o <<>>]
  OBVIOUS
<1>3. ASSUME NEW i \in 1 .. n PROVE s[i] \in 0 .. 255 /\ IsHex(t[i], s[i])
  <2>1. s[i] \in 0 .. 255
    BY <1>1
  <2>2. IsHex(Oct2HexString(s[i]), s[i])
    BY <2>1, HexIs
  <2>3. Oct2HexString(s[i]) \o <<>> = Oct2HexString(s[i])
    BY <2>2, NothingBehind, Zenon DEF IsHex
  <2>4. t[i] = Oct2HexString(s[i]) \o <<>>
    BY <1>2, Zenon
  <2> QED
    BY <2>1, <2>2, <2>3, <2>4, Zenon
<1>4. t \in Seq(Seq(Int)) /\ Len(t) = n
  <2>1. \A i \in 1 .. n : t[i] \in Seq(Int)
    BY <1>3, Zenon DEF IsHex
  <2>2. \A i \in 1 .. n : Oct2HexString(s[i]) \o <<>> \in Seq(Int)
    BY <1>2, <2>1, Zenon
  <2> HIDE <1>3
  <2> QED
    BY <1>2, <2>2
<1>5. PICK x, at : x = Byte2HexString(s, <<>>) /\ Lies(x, t, at, Int)
  <2>1. Byte2HexString(s, <<>>) = FlattenSeq(t)
    BY <1>1, <1>2 DEF Byte2HexString, ByteString
  <2> QED
    BY <1>4, <2>1, FlattenLies, Zenon
<1>6. x \in Seq(Int) /\ at[1] = 1 /\ at[n + 1] = Len(x) + 1
  BY <1>4, <1>5, Zenon DEF Lies
<1>7. ASSUME NEW k \in 1 .. n
      PROVE  at[k + 1] = at[k] + 4 /\ \A j \in 1 .. 4 : x[at[k] + j - 1] = t[k][j]
  <2>1. Len(t[k]) = 4
    BY <1>3, Zenon DEF IsHex
  <2> QED
    BY <1>4, <1>5, <2>1, Zenon DEF Lies
<1>8. \A i \in Nat : i <= n => at[i + 1] = 4 * i + 1
  <2> DEFINE S == {i \in Nat : i <= n => at[i + 1] = 4 * i + 1}
  <2>1. 0 \in S
    BY <1>6
  <2>2. ASSUME NEW i \in Nat, i \in S PROVE i + 1 \in S
    <3>1. ASSUME i + 1 <= n PROVE at[(i + 1) + 1] = 4 * (i + 1) + 1
      <4>1. i + 1 \in 1 .. n /\ at[i + 1] = 4 * i + 1
        BY <2>2, <3>1
      <4>2. at[(i + 1) + 1] = at[i + 1] + 4
        BY <1>7, <4>1, Zenon
      <4> QED
        BY <4>1, <4>2
    <3> QED
      BY <3>1
  <2> HIDE DEF S
  <2>3. \A i \in Nat : i \in S
    BY <2>1, <2>2, SetInduction, Zenon
  <2> QED
    BY <2>3 DEF S
<1>9. Len(x) = 4 * n
  <2>1. n <= n /\ Len(x) \in Nat
    BY <1>6
  <2>2. at[n + 1] = 4 * n + 1
    BY <1>8, <2>1, Zenon
  <2> QED
    BY <1>6, <2>1, <2>2
<1>10. ASSUME NEW i \in 1 .. n
       PROVE  SubSeq(x, 4 * i - 3, 4 * i - 2) = <<Zero, LetterX>> /\ HexByte(x, i) = s[i]
  <2>1. at[i] = 4 * i - 3
    <3>1. i - 1 \in Nat /\ i - 1 <= n /\ (i - 1) + 1 = i /\ 4 * (i - 1) + 1 = 4 * i - 3
      OBVIOUS
    <3> QED
      BY <1>8, <3>1, Zenon
  <2>2. PICK hi \in 0 .. 15, lo \in 0 .. 15 : /\ hi = s[i] \div 16 /\ lo = s[i] % 16
                                              /\ s[i] = 16 * hi + lo
    <3>1. \A d \in 0 .. 255 : d \div 16 \in 0 .. 15 /\ d % 16 \in 0 .. 15
                              /\ d = 16 * (d \div 16) + (d % 16)
      OBVIOUS
    <3> QED
      BY <1>3, <3>1, Zenon
  <2>3. /\ t[i][1] = Zero /\ t[i][2] = LetterX
        /\ t[i][3] = Digit2Hex(hi) /\ t[i][4] = Digit2Hex(lo)
    BY <1>3, <2>2, Zenon DEF IsHex
  <2>4. /\ x[4 * i - 3] = Zero /\ x[4 * i - 2] = LetterX
        /\ x[4 * i - 1] = Digit2Hex(hi) /\ x[4 * i] = Digit2Hex(lo)
    <3>1. 1 \in 1 .. 4 /\ 2 \in 1 .. 4 /\ 3 \in 1 .. 4 /\ 4 \in 1 .. 4
      OBVIOUS
    <3>2. /\ x[at[i] + 1 - 1] = t[i][1] /\ x[at[i] + 2 - 1] = t[i][2]
          /\ x[at[i] + 3 - 1] = t[i][3] /\ x[at[i] + 4 - 1] = t[i][4]
      BY <1>7, <3>1, Zenon
    <3>3. /\ at[i] + 1 - 1 = 4 * i - 3 /\ at[i] + 2 - 1 = 4 * i - 2
          /\ at[i] + 3 - 1 = 4 * i - 1 /\ at[i] + 4 - 1 = 4 * i
      BY <2>1
    <3> QED
      BY <2>3, <3>2, <3>3, Zenon
  <2>5. SubSeq(x, 4 * i - 3, 4 * i - 2) = <<Zero, LetterX>>
    <3>1. PICK w : w = SubSeq(x, 4 * i - 3, 4 * i - 2) /\ IsCut(w, x, 4 * i - 3, 4 * i - 2, Int)
      <4>1. 4 * i - 3 \in 1 .. Len(x) + 1 /\ 4 * i - 2 \in (4 * i - 3) - 1 .. Len(x)
        BY <1>9
      <4> QED
        BY <1>6, <4>1, CutIs
    <3>2. w \in Seq(Int) /\ Len(w) = 2 /\ w[1] = Zero /\ w[2] = LetterX
      <4>1. (4 * i - 2) - (4 * i - 3) + 1 = 2 /\ (4 * i - 3) + 1 - 1 = 4 * i - 3
            /\ (4 * i - 3) + 2 - 1 = 4 * i - 2 /\ 1 \in 1 .. 2 /\ 2 \in 1 .. 2
        OBVIOUS
      <4>2. /\ w \in Seq(Int) /\ Len(w) = 2
            /\ w[1] = x[(4 * i - 3) + 1 - 1] /\ w[2] = x[(4 * i - 3) + 2 - 1]
        BY <3>1, <4>1, Zenon DEF IsCut
      <4> QED
        BY <2>4, <4>1, <4>2, Zenon
    <3>3. PICK y : y = <<Zero, LetterX>> /\ IsTwo(y, Zero, LetterX, Int)
      <4>1. Zero \in Int /\ LetterX \in Int
        BY DEF Zero, LetterX
      <4> QED
        BY <4>1, TwoAre, Zenon
    <3>4. y \in Seq(Int) /\ Len(y) = 2 /\ y[1] = Zero /\ y[2] = LetterX
      BY <3>3, Zenon DEF IsTwo
    <3>5. \A j \in 1 .. 2 : w[j] = y[j]
      <4>1. \A j \in 1 .. 2 : j = 1 \/ j = 2
        OBVIOUS
      <4> QED
        BY <3>2, <3>4, <4>1, Zenon
    <3>6. w = y
      BY <3>2, <3>4, <3>5, SameSequence, Zenon
    <3> QED
      BY <3>1, <3>3, <3>6, Zenon
  <2>6. HexByte(x, i) = s[i]
    <3>1. PICK w : w = SubSeq(x, 4 * i - 1, 4 * i) /\ IsCut(w, x, 4 * i - 1, 4 * i, Int)
      <4>1. 4 * i - 1 \in 1 .. Len(x) + 1 /\ 4 * i \in (4 * i - 1) - 1 .. Len(x)
        BY <1>9
      <4> QED
        BY <1>6, <4>1, CutIs
    <3>2. w \in Seq(Int) /\ Len(w) = 2 /\ w[1] = Digit2Hex(hi) /\ w[2] = Digit2Hex(lo)
      <4>1. (4 * i) - (4 * i - 1) + 1 = 2 /\ (4 * i - 1) + 1 - 1 = 4 * i - 1
            /\ (4 * i - 1) + 2 - 1 = 4 * i /\ 1 \in 1 .. 2 /\ 2 \in 1 .. 2
        OBVIOUS
      <4>2. /\ w \in Seq(Int) /\ Len(w) = 2
            /\ w[1] = x[(4 * i - 1) + 1 - 1] /\ w[2] = x[(4 * i - 1) + 2 - 1]
        BY <3>1, <4>1, Zenon DEF IsCut
      <4> QED
        BY <2>4, <4>1, <4>2, Zenon
    <3>3. Value(w, 16) = 16 * hi + lo
      BY <3>2, TwoHexDigits, Zenon
    <3> QED
      BY <2>2, <3>1, <3>3, Zenon DEF HexByte
  <2> QED
    BY <2>5, <2>6
<1> QED
  BY <1>1, <1>5, <1>9, <1>10, Zenon DEF HexReadBack

LEMMA OneAndRest ==
  ASSUME NEW V, NEW s \in Seq(V), NEW k \in 1 .. Len(s)
  PROVE  <<s[k]>> \o SubSeq(s, k + 1, Len(s)) = SubSeq(s, k, Len(s))
<1>1. PICK n \in Nat : n = Len(s)
  OBVIOUS
<1>2. s[k] \in V
  BY ElementIs, Zenon
<1>3. PICK o : o = <<s[k]>> /\ o \in Seq(V) /\ Len(o) = 1 /\ o[1] = s[k]
  BY <1>2, OneIs, Zenon
<1>4. PICK y : y = SubSeq(s, k + 1, n) /\ IsCut(y, s, k + 1, n, V)
  <2>1. k + 1 \in 1 .. Len(s) + 1 /\ n \in (k + 1) - 1 .. Len(s)
    BY <1>1
  <2> QED
    BY <2>1, CutIs
<1>5. PICK w : w = SubSeq(s, k, n) /\ IsCut(w, s, k, n, V)
  <2>1. k \in 1 .. Len(s) + 1 /\ n \in k - 1 .. Len(s)
    BY <1>1
  <2> QED
    BY <2>1, CutIs
<1>6. /\ y \in Seq(V) /\ Len(y) = n - k /\ \A j \in 1 .. n - k : y[j] = s[k + j]
  <2>1. n - (k + 1) + 1 = n - k /\ \A j \in 1 .. n - k : (k + 1) + j - 1 = k + j
    BY <1>1
  <2> QED
    BY <1>4, <2>1, Zenon DEF IsCut
<1>7. w \in Seq(V) /\ Len(w) = 1 + (n - k) /\ \A j \in 1 .. 1 + (n - k) : w[j] = s[k + j - 1]
  <2>1. n - k + 1 = 1 + (n - k)
    BY <1>1
  <2> QED
    BY <1>5, <2>1, Zenon DEF IsCut
<1>8. PICK x : x = o \o y /\ JoinedIs(x, o, y, V)
  BY <1>3, <1>6, ConcatIs, Zenon
<1>9. /\ x \in Seq(V) /\ Len(x) = 1 + (n - k) /\ (\A j \in 1 .. 1 : x[j] = o[j])
      /\ \A j \in 1 .. n - k : x[1 + j] = y[j]
  BY <1>3, <1>6, <1>8, Zenon DEF JoinedIs
<1>10. ASSUME NEW j \in 1 .. 1 + (n - k) PROVE x[j] = w[j]
  <2>1. CASE j = 1
    BY <1>1, <1>3, <1>7, <1>9, <2>1
  <2>2. CASE j # 1
    <3>1. j - 1 \in 1 .. n - k /\ 1 + (j - 1) = j /\ k + (j - 1) = k + j - 1
      BY <1>1, <2>2
    <3> QED
      BY <1>6, <1>7, <1>9, <3>1, Zenon
  <2> QED
    BY <2>1, <2>2
<1>11. x = w
  <2>1. PICK l : l = 1 + (n - k)
    OBVIOUS
  <2> QED
    BY <1>7, <1>9, <1>10, <2>1, SameSequence, Zenon
<1> QED
  BY <1>1, <1>3, <1>4, <1>5, <1>8, <1>11, Zenon

(* A string in which each of the words w is followed by the character c.   *)
Follows(x, w, at, c) ==
  /\ x \in Seq(Int) /\ at \in [1 .. Len(w) + 1 -> Nat]
  /\ at[1] = 1 /\ at[Len(w) + 1] = Len(x) + 1
  /\ \A k \in 1 .. Len(w) :
       /\ Len(w[k]) \in Nat /\ at[k + 1] = at[k] + Len(w[k]) + 1
       /\ at[k] \in 1 .. Len(x) /\ at[k] + Len(w[k]) \in 1 .. Len(x)
       /\ x[at[k] + Len(w[k])] = c
       /\ \A j \in 1 .. Len(w[k]) : x[at[k] + j - 1] = w[k][j] /\ w[k][j] # c

LEMMA SplitFindsWords ==
  ASSUME NEW w \in Seq(Seq(Int)), NEW c \in Int, NEW x, NEW at, Follows(x, w, at, c),
         NEW f, SplitsAt(f, x, c)
  PROVE  f[1] = w
<1>1. PICK n \in Nat : n = Len(w)
  OBVIOUS
<1>2. /\ x \in Seq(Int) /\ at[1] = 1 /\ at[n + 1] = Len(x) + 1
      /\ \A k \in 1 .. n :
           /\ Len(w[k]) \in Nat /\ at[k + 1] = at[k] + Len(w[k]) + 1
           /\ at[k] \in 1 .. Len(x) /\ at[k] + Len(w[k]) \in 1 .. Len(x)
           /\ x[at[k] + Len(w[k])] = c
           /\ \A j \in 1 .. Len(w[k]) : x[at[k] + j - 1] = w[k][j] /\ w[k][j] # c
  BY <1>1, Zenon DEF Follows
<1>3. /\ f[Len(x) + 1] = <<>>
      /\ \A i \in 1 .. Len(x) :
           LET next == Find(x, <<c>>, i)
           IN  f[i] = IF next = 0 THEN <<SubSeq(x, i, Len(x))>>
                      ELSE <<SubSeq(x, i, next - 1)>> \o f[next + 1]
  BY Zenon DEF SplitsAt
<1>4. ASSUME NEW k \in 1 .. n
      PROVE  f[at[k]] = <<w[k]>> \o f[at[k + 1]]
  <2>1. PICK o \in 1 .. Len(x), l \in Nat : o = at[k] /\ l = Len(w[k])
    BY <1>2
  <2>2. /\ o + l \in 1 .. Len(x) /\ x[o + l] = c /\ at[k + 1] = o + l + 1
        /\ \A j \in 1 .. l : x[o + j - 1] = w[k][j] /\ w[k][j] # c
    BY <1>2, <2>1, Zenon
  <2>3. PICK q : q = Find(x, <<c>>, o) /\ FindsFirst(q, x, c, o)
    <3>1. o \in 1 .. Len(x) + 1
      BY <1>2
    <3> QED
      BY <1>2, <3>1, FindIs, Zenon
  <2>4. \A i \in o .. o + l - 1 : x[i] # c
    <3>1. ASSUME NEW i \in o .. o + l - 1 PROVE x[i] # c
      <4>1. i - o + 1 \in 1 .. l /\ o + (i - o + 1) - 1 = i
        OBVIOUS
      <4> QED
        BY <2>2, <4>1, Zenon
    <3> QED
      BY <3>1
  <2>5. q = o + l
    <3>1. Len(x) \in Nat
      BY <1>2
    <3>2. CASE q = 0 /\ \A j \in o .. Len(x) : x[j] # c
      <4>1. o + l \in o .. Len(x)
        BY <2>2, <3>1
      <4> QED
        BY <2>2, <3>2, <4>1, Zenon
    <3>3. CASE q \in o .. Len(x) /\ x[q] = c /\ \A j \in o .. q - 1 : x[j] # c
      <4>1. ~(q < o + l)
        <5>1. q < o + l => q \in o .. o + l - 1
          BY <3>1, <3>3
        <5> QED
          BY <2>4, <3>3, <5>1, Zenon
      <4>2. ~(q > o + l)
        <5>1. q > o + l => o + l \in o .. q - 1
          BY <3>1, <3>3
        <5> QED
          BY <2>2, <3>3, <5>1, Zenon
      <4>3. q \in Int /\ o + l \in Int
        BY <3>1, <3>3
      <4> QED
        BY <4>1, <4>2, <4>3
    <3> QED
      BY <2>3, <3>2, <3>3, Zenon DEF FindsFirst
  <2>6. f[o] = <<SubSeq(x, o, q - 1)>> \o f[q + 1]
    <3>1. q # 0
      BY <2>5
    <3> QED
      BY <1>3, <2>3, <3>1, Zenon
  <2>7. SubSeq(x, o, q - 1) = w[k]
    <3>1. w[k] \in Seq(Int)
      BY <1>1, ElementIs, Zenon
    <3>2. PICK y : y = SubSeq(x, o, o + l - 1) /\ IsCut(y, x, o, o + l - 1, Int)
      <4>1. o \in 1 .. Len(x) + 1 /\ o + l - 1 \in o - 1 .. Len(x)
        <5>1. Len(x) \in Nat
          BY <1>2
        <5> QED
          BY <2>2, <5>1
      <4> QED
        BY <1>2, <4>1, CutIs
    <3>3. y \in Seq(Int) /\ Len(y) = l /\ \A j \in 1 .. l : y[j] = x[o + j - 1]
      <4>1. (o + l - 1) - o + 1 = l
        OBVIOUS
      <4> QED
        BY <3>2, <4>1, Zenon DEF IsCut
    <3>4. \A j \in 1 .. l : y[j] = w[k][j]
      BY <2>2, <3>3, Zenon
    <3>5. y = w[k]
      BY <2>1, <3>1, <3>3, <3>4, SameSequence, Zenon
    <3>6. q - 1 = o + l - 1
      BY <2>5
    <3> QED
      BY <3>2, <3>5, <3>6, Zenon
  <2> QED
    BY <2>1, <2>2, <2>5, <2>6, <2>7, Zenon
<1>5. \A i \in Nat : i <= n => f[at[n + 1 - i]] = SubSeq(w, n + 1 - i, n)
  <2> DEFINE S == {i \in Nat : i <= n => f[at[n + 1 - i]] = SubSeq(w, n + 1 - i, n)}
  <2>1. 0 \in S
    <3>1. SubSeq(w, n + 1, n) = <<>>
      OBVIOUS
    <3>2. f[at[n + 1]] = SubSeq(w, n + 1, n)
      BY <1>2, <1>3, <3>1, Zenon
    <3>3. n + 1 - 0 = n + 1 /\ 0 \in Nat
      OBVIOUS
    <3> QED
      BY <3>2, <3>3, Zenon
  <2>2. ASSUME NEW i \in Nat, i \in S PROVE i + 1 \in S
    <3>1. ASSUME i + 1 <= n
          PROVE  f[at[n + 1 - (i + 1)]] = SubSeq(w, n + 1 - (i + 1), n)
      <4>1. PICK k \in 1 .. n : k = n + 1 - (i + 1) /\ k + 1 = n + 1 - i /\ i <= n
        BY <3>1
      <4>2. f[at[k + 1]] = SubSeq(w, k + 1, n)
        BY <2>2, <4>1, Zenon
      <4>3. <<w[k]>> \o SubSeq(w, k + 1, n) = SubSeq(w, k, n)
        BY <1>1, OneAndRest, Zenon
      <4> QED
        BY <1>4, <4>1, <4>2, <4>3, Zenon
    <3>2. i + 1 \in Nat
      OBVIOUS
    <3> QED
      BY <3>1, <3>2, Zenon
  <2> HIDE DEF S
  <2>3. \A i \in Nat : i \in S
    BY <2>1, <2>2, SetInduction, Zenon
  <2> QED
    BY <2>3 DEF S
<1>6. f[at[1]] = SubSeq(w, 1, n)
  <2>1. n <= n /\ n + 1 - n = 1
    OBVIOUS
  <2> QED
    BY <1>5, <2>1, Zenon
<1>7. SubSeq(w, 1, n) = w
  BY <1>1, CutAll, Zenon
<1> QED
  BY <1>2, <1>6, <1>7, Zenon

------------------------------------------------------------------------------
(* What ends in a character that is no blank, and begins with one, is not  *)
(* trimmed.                                                                *)
LEMMA NothingTrimmed ==
  ASSUME NEW x \in Seq(Int), Len(x) > 0, x[1] # Blank, x[Len(x)] # Blank
  PROVE  Trim(x) = x
<1>1. PICK n \in Nat \ {0} : n = Len(x) /\ DOMAIN x = 1 .. n
  OBVIOUS
<1>2. NonBlank(x) # {}
  <2>1. 1 \in 1 .. n
    OBVIOUS
  <2> QED
    BY <1>1, <2>1 DEF NonBlank
<1>3. x # <<>>
  OBVIOUS
<1>4. PICK a, z : IsMiddle(x, a, z) /\ Trim(x) = SubSeq(x, a, z)
  BY <1>2, <1>3, TrimIs, Zenon DEF TrimsTo
<1>5. /\ a \in 1 .. n /\ z \in a .. n
      /\ \A i \in 1 .. a - 1 : x[i] = Blank
      /\ \A i \in z + 1 .. n : x[i] = Blank
  BY <1>1, <1>4, Zenon DEF IsMiddle
<1>6. a = 1
  <2>1. a # 1 => 1 \in 1 .. a - 1
    BY <1>5
  <2> QED
    BY <1>5, <2>1, Zenon
<1>7. z = n
  <2>1. z # n => n \in z + 1 .. n
    BY <1>5
  <2> QED
    BY <1>1, <1>5, <2>1, Zenon
<1> QED
  BY <1>1, <1>4, <1>6, <1>7, CutAll, Zenon

DecimalReadBack(s) ==
  (s # <<>> /\ Separator \notin Zero .. Zero + 9) =>
     DecimalBytes(Byte2OctString(s, <<Separator>>)) = s

LEMMA DecimalIsReadBack ==
  ASSUME NEW s \in Seq(0 .. 255)
  PROVE  DecimalReadBack(s)
<1> SUFFICES ASSUME s # <<>>, Separator \notin Zero .. Zero + 9
             PROVE  DecimalBytes(Byte2OctString(s, <<Separator>>)) = s
  BY Zenon DEF DecimalReadBack
<1>1. PICK n \in Nat \ {0} : n = Len(s) /\ DOMAIN s = 1 .. n
  OBVIOUS
<1>2. PICK c \in Int : c = Separator /\ c # Blank
  BY StringAssumption DEF Blank
<1>3. PICK w : w = [i \in 1 .. n |-> Oct2OctString(s[i])]
  OBVIOUS
<1>4. PICK t : t = [i \in 1 .. n |-> Oct2OctString(s[i]) \o <<c>>]
  OBVIOUS
<1>5. PICK o : o = <<c>> /\ o \in Seq(Int) /\ Len(o) = 1 /\ o[1] = c
  BY OneIs, Zenon
<1>6. ASSUME NEW i \in 1 .. n
      PROVE  /\ s[i] \in 0 .. 255 /\ IsDecimal(w[i], s[i])
             /\ t[i] = w[i] \o o /\ JoinedIs(t[i], w[i], o, Int)
  <2>1. s[i] \in 0 .. 255
    BY <1>1
  <2>2. IsDecimal(Oct2OctString(s[i]), s[i])
    BY <2>1, DecimalIs
  <2>3. w[i] = Oct2OctString(s[i]) /\ t[i] = Oct2OctString(s[i]) \o <<c>>
    BY <1>3, <1>4, Zenon
  <2>4. w[i] \in Seq(Int)
    BY <2>2, <2>3, Zenon DEF IsDecimal
  <2>5. JoinedIs(w[i] \o o, w[i], o, Int)
    BY <1>5, <2>4, ConcatIs, Zenon
  <2> QED
    BY <1>5, <2>1, <2>2, <2>3, <2>5, Zenon
<1>7. w \in Seq(Seq(Int)) /\ Len(w) = n
  <2>1. \A i \in 1 .. n : Oct2OctString(s[i]) \in Seq(Int)
    BY <1>3, <1>6, Zenon DEF IsDecimal
  <2> HIDE <1>6
  <2> QED
    BY <1>3, <2>1
<1>8. t \in Seq(Seq(Int)) /\ Len(t) = n
  <2>1. \A i \in 1 .. n : Oct2OctString(s[i]) \o <<c>> \in Seq(Int)
    BY <1>4, <1>6, Zenon DEF JoinedIs
  <2> HIDE <1>6
  <2> QED
    BY <1>4, <2>1
<1>9. PICK x, at : x = Byte2OctString(s, <<Separator>>) /\ Lies(x, t, at, Int)
  <2>1. Byte2OctString(s, <<Separator>>) = FlattenSeq(t)
    BY <1>1, <1>2, <1>4 DEF Byte2OctString, ByteString
  <2> QED
    BY <1>8, <2>1, FlattenLies, Zenon
<1>10. /\ x \in Seq(Int) /\ at \in [1 .. n + 1 -> Nat]
       /\ at[1] = 1 /\ at[n + 1] = Len(x) + 1
       /\ \A k \in 1 .. n :
            /\ at[k + 1] = at[k] + Len(t[k])
            /\ \A j \in 1 .. Len(t[k]) : x[at[k] + j - 1] = t[k][j]
  BY <1>8, <1>9, Zenon DEF Lies
<1>11. ASSUME NEW k \in 1 .. n
       PROVE  /\ Len(w[k]) \in 1 .. 3 /\ at[k + 1] = at[k] + Len(w[k]) + 1
              /\ x[at[k] + Len(w[k])] = c
              /\ \A j \in 1 .. Len(w[k]) :
                   /\ x[at[k] + j - 1] = w[k][j]
                   /\ w[k][j] \in Zero .. Zero + 9 /\ w[k][j] # c
  <2>1. PICK l \in 1 .. 3 : l = Len(w[k])
    BY <1>6, Zenon DEF IsDecimal
  <2>2. \A j \in 1 .. l : w[k][j] \in Zero .. Zero + 9
    BY <1>6, <2>1, Zenon DEF IsDecimal
  <2>3. /\ Len(t[k]) = l + 1 /\ t[k][l + 1] = c
        /\ \A j \in 1 .. l : t[k][j] = w[k][j]
    <3>1. 1 \in 1 .. 1
      OBVIOUS
    <3> QED
      BY <1>5, <1>6, <2>1, <3>1, Zenon DEF JoinedIs
  <2>4. at[k] \in Nat
    BY <1>10
  <2>5. at[k + 1] = at[k] + l + 1
    <3>1. at[k + 1] = at[k] + (l + 1)
      BY <1>10, <2>3, Zenon
    <3> QED
      BY <2>4, <3>1
  <2>6. x[at[k] + l] = c
    <3>1. l + 1 \in 1 .. l + 1
      OBVIOUS
    <3>2. at[k] + (l + 1) - 1 = at[k] + l
      BY <2>4
    <3>3. x[at[k] + (l + 1) - 1] = t[k][l + 1]
      BY <1>10, <2>3, <3>1, Zenon
    <3> QED
      BY <2>3, <3>2, <3>3, Zenon
  <2>7. \A j \in 1 .. l : x[at[k] + j - 1] = w[k][j]
    <3>1. \A j \in 1 .. l : j \in 1 .. l + 1
      OBVIOUS
    <3> QED
      BY <1>10, <2>3, <3>1, Zenon
  <2> QED
    BY <1>2, <2>1, <2>2, <2>5, <2>6, <2>7, Zenon
<1>12. ASSUME NEW k \in 1 .. n + 1 PROVE at[k] \in 1 .. Len(x) + 1
  <2>1. \A i \in Nat : i <= n => at[i + 1] > 0 /\ at[n + 1 - i] <= Len(x) + 1
    <3> DEFINE S == {i \in Nat : i <= n => at[i + 1] > 0 /\ at[n + 1 - i] <= Len(x) + 1}
    <3>1. 0 \in S
      BY <1>10
    <3>2. ASSUME NEW i \in Nat, i \in S PROVE i + 1 \in S
      <4>1. ASSUME i + 1 <= n
            PROVE  at[(i + 1) + 1] > 0 /\ at[n + 1 - (i + 1)] <= Len(x) + 1
        <5>1. PICK k1 \in 1 .. n, l1 \in 1 .. n : /\ k1 = i + 1 /\ l1 = n - i
                                                /\ n + 1 - (i + 1) = l1 /\ n + 1 - i = l1 + 1
          BY <4>1
        <5>2. PICK d \in 1 .. 3, e \in 1 .. 3 :
                at[k1 + 1] = at[k1] + d + 1 /\ at[l1 + 1] = at[l1] + e + 1
          BY <1>11, Zenon
        <5>3. at[k1] > 0 /\ at[l1 + 1] <= Len(x) + 1
          BY <3>2, <4>1, <5>1
        <5>4. at[k1] \in Nat /\ at[l1] \in Nat
          BY <1>10
        <5>5. at[k1 + 1] > 0 /\ at[l1] <= Len(x) + 1
          <6>1. PICK a \in Nat, z \in Nat, m \in Nat :
                  a = at[k1] /\ z = at[l1] /\ m = Len(x)
            <7>1. Len(x) \in Nat
              BY <1>10
            <7> QED
              BY <5>4, <7>1, Zenon
          <6>2. at[k1 + 1] = a + d + 1 /\ at[l1 + 1] = z + e + 1 /\ at[l1 + 1] <= m + 1
            BY <5>2, <5>3, <6>1, Zenon
          <6>3. at[k1 + 1] > 0
            BY <6>2
          <6>4. z <= m + 1
            BY <6>2
          <6> QED
            BY <6>1, <6>3, <6>4, Zenon
        <5> QED
          BY <5>1, <5>5, Zenon
      <4>2. i + 1 \in Nat
        OBVIOUS
      <4> QED
        BY <4>1, <4>2, Zenon
    <3> HIDE DEF S
    <3>3. \A i \in Nat : i \in S
      BY <3>1, <3>2, SetInduction, Zenon
    <3> QED
      BY <3>3 DEF S
  <2>2. /\ k - 1 \in Nat /\ k - 1 <= n /\ (k - 1) + 1 = k
        /\ n + 1 - k \in Nat /\ n + 1 - k <= n /\ n + 1 - (n + 1 - k) = k
    OBVIOUS
  <2>3. at[k] > 0 /\ at[k] <= Len(x) + 1
    BY <2>1, <2>2, Zenon
  <2>4. at[k] \in Nat /\ Len(x) \in Nat
    BY <1>10
  <2> QED
    BY <2>3, <2>4
<1>13. Follows(x, w, at, c)
  <2>1. ASSUME NEW k \in 1 .. n
        PROVE  /\ Len(w[k]) \in Nat /\ at[k] \in 1 .. Len(x)
               /\ at[k] + Len(w[k]) \in 1 .. Len(x)
    <3>1. k \in 1 .. n + 1 /\ k + 1 \in 1 .. n + 1
      OBVIOUS
    <3>2. at[k] \in 1 .. Len(x) + 1 /\ at[k + 1] \in 1 .. Len(x) + 1
      BY <1>12, <3>1, Zenon
    <3>3. Len(w[k]) \in 1 .. 3 /\ at[k + 1] = at[k] + Len(w[k]) + 1
      BY <1>11, Zenon
    <3>4. Len(x) \in Nat
      BY <1>10
    <3> QED
      BY <3>2, <3>3, <3>4
  <2> QED
    BY <1>7, <1>10, <1>11, <2>1, Zenon DEF Follows
<1>14. Trim(x) = x
  <2>1. 1 \in 1 .. n /\ n \in 1 .. n /\ Len(x) \in Nat
    BY <1>10
  <2>2. Len(x) > 0
    <3>1. at[1] \in 1 .. Len(x)
      BY <1>7, <1>13, <2>1, Zenon DEF Follows
    <3> QED
      BY <2>1, <3>1
  <2>3. x[1] # Blank
    <3>1. 1 \in 1 .. Len(w[1])
      <4>1. PICK l \in 1 .. 3 : l = Len(w[1])
        BY <1>11, <2>1, Zenon
      <4>2. 1 \in 1 .. l
        OBVIOUS
      <4> QED
        BY <4>1, <4>2, Zenon
    <3>2. x[at[1] + 1 - 1] = w[1][1] /\ w[1][1] \in Zero .. Zero + 9
      BY <1>11, <2>1, <3>1, Zenon
    <3>3. at[1] + 1 - 1 = 1
      BY <1>10
    <3>4. Blank \notin Zero .. Zero + 9
      BY DEF Blank, Zero
    <3> QED
      BY <3>2, <3>3, <3>4, Zenon
  <2>4. x[Len(x)] = c
    <3>1. /\ Len(w[n]) \in 1 .. 3 /\ at[n + 1] = at[n] + Len(w[n]) + 1
          /\ x[at[n] + Len(w[n])] = c
      BY <1>11, <2>1, Zenon
    <3>2. at[n] \in Nat
      BY <1>10, <2>1
    <3>3. at[n] + Len(w[n]) = Len(x)
      BY <1>10, <2>1, <3>1, <3>2
    <3> QED
      BY <3>1, <3>3, Zenon
  <2> QED
    BY <1>2, <1>10, <2>2, <2>3, <2>4, NothingTrimmed, Zenon
<1>15. StrSplit(x, <<c>>) = w
  <2>1. PICK f : SplitsAt(f, x, c) /\ StrSplit(x, <<c>>) = f[1]
    <3>1. x \in Seq(Int) /\ x = Trim(x)
      BY <1>10, <1>14, Zenon
    <3> QED
      BY <1>2, <3>1, SplitIs
  <2>2. f[1] = w
    BY <1>2, <1>7, <1>13, <2>1, SplitFindsWords, Zenon
  <2> QED
    BY <2>1, <2>2, Zenon
<1>16. DecimalBytes(x) = [i \in DOMAIN w |-> Value(w[i], 10)]
  BY <1>2, <1>15, Zenon DEF DecimalBytes
<1>17. DOMAIN w = 1 .. n
  BY <1>3, Zenon
<1>18. \A i \in 1 .. n : Value(w[i], 10) = s[i]
  BY <1>6, Zenon DEF IsDecimal
<1>19. s = [i \in 1 .. n |-> s[i]]
  BY <1>1
<1>20. [i \in 1 .. n |-> Value(w[i], 10)] = [i \in 1 .. n |-> s[i]]
  BY <1>18, Zenon
<1> QED
  BY <1>9, <1>16, <1>17, <1>19, <1>20, Zenon

(* Numbers can be read back, whatever the bytes: a byte is two hexadecimal *)
(* digits behind 0x, its decimal digits have its value, and a separator    *)
(* that is no digit lets the bytes be split again.                         *)
THEOREM NumbersAlwaysReadBack == StringSpec => []NumbersReadBack
<1>1. StringTypeOK => NumbersReadBack
  <2> SUFFICES ASSUME StringTypeOK PROVE NumbersReadBack
    OBVIOUS
  <2>1. datas \in Seq(0 .. 255)
    <3>1. Bytes \subseteq 0 .. 255
      BY StringAssumption, Zenon
    <3>2. datas \in Seq(Bytes)
      BY Zenon DEF StringTypeOK
    <3> QED
      BY <3>1, <3>2, SeqOfMore, Zenon
  <2>2. HexReadBack(datas, Byte2HexString(datas, <<>>))
    BY <2>1, HexIsReadBack, Zenon
  <2>3. ASSUME NEW i \in DOMAIN datas
        PROVE  IsDecimal(Oct2OctString(datas[i]), datas[i])
    <3>1. datas[i] \in 0 .. 255
      <4>1. i \in 1 .. Len(datas)
        BY <2>1
      <4> QED
        BY <2>1, <4>1, ElementIs, Zenon
    <3> QED
      BY <3>1, DecimalIs, Zenon
  <2>4. DecimalReadBack(datas)
    BY <2>1, DecimalIsReadBack, Zenon
  <2> QED
    BY <2>2, <2>3, <2>4, Zenon DEF NumbersReadBack, HexReadBack, DecimalReadBack, IsDecimal
<1> QED
  BY <1>1, StringTypeStays, PTL
==============================================================================
