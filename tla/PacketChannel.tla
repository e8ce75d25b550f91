---------------------------- MODULE PacketChannel ----------------------------
(***************************************************************************)
(* What the sending half of a node promises to its callers: one FIFO of    *)
(* packets per connected peer.  A packet handed over for a peer joins that *)
(* peer's queue, and the wire of that peer receives whole packets, each    *)
(* once, in the order in which they were handed over.                      *)
(***************************************************************************)
EXTENDS Naturals, Sequences

CONSTANT Peers        \* the peers a node may be connected to

VARIABLES connected,  \* the peers there is a connection to
          queued,     \* per peer, the packets accepted and not yet on the wire
          sent,       \* per peer, the packets that are on the wire, in order
          used        \* how many packets exist; packets are numbered 1..used

cvars == <<connected, queued, sent, used>>

ChannelInit ==
  /\ connected = {}
  /\ queued = [p \in Peers |-> <<>>]
  /\ sent = [p \in Peers |-> <<>>]
  /\ used = 0

(* A connection to p comes up; a new connection has an empty history.      *)
Connect(p) ==
  /\ p \notin connected
  /\ connected' = connected \cup {p}
  /\ queued' = [queued EXCEPT ![p] = <<>>]
  /\ sent' = [sent EXCEPT ![p] = <<>>]
  /\ UNCHANGED used

(* A new packet is accepted for p, which joins p's queue.                  *)
Accept(p) ==
  /\ p \in connected
  /\ used' = used + 1
  /\ queued' = [queued EXCEPT ![p] = Append(@, used + 1)]
  /\ UNCHANGED <<connected, sent>>

(* A new packet is dropped.  Its peer is not connected, or a connection to *)
(* another peer comes up at that moment: never when all are connected.     *)
Refuse ==
  /\ connected # Peers
  /\ used' = used + 1
  /\ UNCHANGED <<connected, queued, sent>>

(* The oldest packet accepted for p gets on the wire.                      *)
Deliver(p) ==
  /\ queued[p] # <<>>
  /\ sent' = [sent EXCEPT ![p] = Append(@, Head(queued[p]))]
  /\ queued' = [queued EXCEPT ![p] = Tail(@)]
  /\ UNCHANGED <<connected, used>>

ChannelNext == Refuse \/ \E p \in Peers : Connect(p) \/ Accept(p) \/ Deliver(p)

Spec == ChannelInit /\ [][ChannelNext]_cvars
=============================================================================
