---------------------------- MODULE MCReadBuffer ----------------------------
(***************************************************************************)
(* ReadBuffer at a scale TLC can enumerate: a header of 2 units, a trailer *)
(* of 1, packets of at most 5 and a buffer of twice that, as in the code.  *)
(* Plain messages are without data, of the two lengths that fit, and one   *)
(* too long; flagged ones hold an end flag, or start flags behind lengths  *)
(* that are negative, beyond a packet, and beyond the buffer.              *)
(***************************************************************************)
EXTENDS ReadBuffer, TLC

NoSpells == [place \in {} |-> 0]
PlainMessage(n) == [len |-> n, spells |-> NoSpells, ends |-> {}]

PlainMessages == {PlainMessage(n) : n \in 0..3}
FlaggedMessages ==
  {PlainMessage(0),
   [len |-> 2, spells |-> (1 :> 12 @@ 2 :> -7), ends |-> {2}],
   [len |-> 1, spells |-> (1 :> 6), ends |-> {}]}
AllMessages == PlainMessages \cup FlaggedMessages
=============================================================================
