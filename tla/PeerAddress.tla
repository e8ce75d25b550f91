---------------------------- MODULE PeerAddress -----------------------------
(* SockaddrToString, the key of the map of connections and what the epoll  *)
(* threads put on the readers' queue: "ip:port".  The port is formatted by *)
(* Itoa(int) in one static buffer, which the epoll threads of server and   *)
(* client, the application's threads and the writers use without a lock.   *)
(* The ip comes from inet_ntoa, whose buffer the library keeps per thread, *)
(* and is left out.                                                        *)
EXTENDS Naturals, Sequences, SequencesExt

CONSTANTS
  Formatters,   \* threads that format an address
  Ports,        \* the ports of the peers
  BuffLen,      \* length of the static buffer, 32 in the code
  MaxCalls      \* bound: addresses formatted in all

ASSUME AddressAssumption ==
  Ports \subseteq Nat /\ Ports # {} /\ BuffLen \in Nat /\ MaxCalls \in Nat

Radix == 10
NUL == Radix      \* the character 0; digits stand for themselves

VARIABLES
  buff,       \* Itoa's static buffer, its first character at 1
  step,       \* where each thread is in Itoa
  port,       \* its argument
  u, p, b,    \* Itoa's variables: what is left of val, and the two pointers
  address,    \* the string each thread has made of the buffer
  disturbed,  \* history: another thread wrote to the buffer meanwhile
  calls       \* number of calls

addressVars == <<buff, step, port, u, p, b, address, disturbed, calls>>

Digits[n \in Nat] ==    \* what Itoa should make of n
  IF n < Radix THEN <<n>> ELSE Append(Digits[n \div Radix], n % Radix)

(* A port has five digits at most, and the buffer is made for any int.     *)
ASSUME BufferAssumption == \A n \in Ports : Len(Digits[n]) < BuffLen

AddressInit ==
  /\ buff = [i \in 1 .. BuffLen |-> NUL]
  /\ step = [t \in Formatters |-> "idle"]
  /\ port = [t \in Formatters |-> 0]
  /\ u = [t \in Formatters |-> 0]
  /\ p = [t \in Formatters |-> 1]
  /\ b = [t \in Formatters |-> 1]
  /\ address = [t \in Formatters |-> <<>>]
  /\ disturbed = [t \in Formatters |-> FALSE]
  /\ calls = 0

StepTo(t, s) == step' = [step EXCEPT ![t] = s]
Disturbs(t) ==    \* t writes: every other thread in Itoa is disturbed
  disturbed' = [v \in Formatters |-> disturbed[v] \/ (v # t /\ step[v] # "idle")]

(* memset                                                                  *)
Begin(t, n) ==
  /\ step[t] = "idle"
  /\ calls < MaxCalls
  /\ calls' = calls + 1
  /\ buff' = [i \in 1 .. BuffLen |-> NUL]
  /\ port' = [port EXCEPT ![t] = n]
  /\ u' = [u EXCEPT ![t] = n]
  /\ p' = [p EXCEPT ![t] = 1]
  /\ b' = [b EXCEPT ![t] = 1]
  /\ disturbed' = [v \in Formatters |-> v # t /\ (disturbed[v] \/ step[v] # "idle")]
  /\ StepTo(t, "digit")
  /\ UNCHANGED address

(* The digits, the last one first.                                         *)
Digit(t) ==
  /\ step[t] = "digit"
  /\ buff' = [buff EXCEPT ![p[t]] = u[t] % Radix]
  /\ u' = [u EXCEPT ![t] = @ \div Radix]
  /\ p' = [p EXCEPT ![t] = @ + 1]
  /\ Disturbs(t)
  /\ StepTo(t, IF u'[t] > 0 THEN "digit" ELSE "terminate")
  /\ UNCHANGED <<port, b, address, calls>>

Terminate(t) ==
  /\ step[t] = "terminate"
  /\ buff' = [buff EXCEPT ![p[t]] = NUL]
  /\ p' = [p EXCEPT ![t] = @ - 1]
  /\ Disturbs(t)
  /\ StepTo(t, "swap")
  /\ UNCHANGED <<port, u, b, address, calls>>

MutantSwap(t) ==    \* stops one round too early
  /\ step[t] = "swap"
  /\ buff' = [buff EXCEPT ![p[t]] = buff[b[t]], ![b[t]] = buff[p[t]]]
  /\ p' = [p EXCEPT ![t] = @ - 1]
  /\ b' = [b EXCEPT ![t] = @ + 1]
  /\ Disturbs(t)
  /\ StepTo(t, IF b'[t] + 1 < p'[t] THEN "swap" ELSE "copy")
  /\ UNCHANGED <<port, u, address, calls>>

(* One round of the loop that reverses them.                               *)
Swap(t) ==
  /\ step[t] = "swap"
  /\ buff' = [buff EXCEPT ![p[t]] = buff[b[t]], ![b[t]] = buff[p[t]]]
  /\ p' = [p EXCEPT ![t] = @ - 1]
  /\ b' = [b EXCEPT ![t] = @ + 1]
  /\ Disturbs(t)
  /\ StepTo(t, IF b'[t] < p'[t] THEN "swap" ELSE "copy")
  /\ UNCHANGED <<port, u, address, calls>>

(* The caller's string: the characters before the first 0.                 *)
Text == SubSeq(buff, 1, SelectInSeq(buff, LAMBDA c : c = NUL) - 1)

Copy(t) ==
  /\ step[t] = "copy"
  /\ address' = [address EXCEPT ![t] = Text]
  /\ StepTo(t, "idle")
  /\ UNCHANGED <<buff, port, u, p, b, disturbed, calls>>

AddressNext ==
  \E t \in Formatters :
    \/ \E n \in Ports : Begin(t, n)
    \/ Digit(t) \/ Terminate(t) \/ Swap(t) \/ Copy(t)

AddressSpec == AddressInit /\ [][AddressNext]_addressVars

------------------------------------------------------------------------------
(* Properties *)

(* An address is right unless another thread has written to the static     *)
(* buffer between the first and the last use that this thread made of it;  *)
(* and also then the string ends within the digits of the longest port.    *)
Finished(t) == step[t] = "idle" /\ address[t] # <<>>

AddressIsRight ==
  /\ \A t \in Formatters :
       (Finished(t) /\ ~disturbed[t]) => address[t] = Digits[port[t]]
  /\ \A t \in Formatters : \E n \in Ports : Len(address[t]) <= Len(Digits[n])
=============================================================================
