----------------------------- MODULE MCUtilities -----------------------------
(* The utilities beside the node on small instances.  They share no state: *)
(* a behaviour chooses one of them, and the others stay as they began.     *)
EXTENDS MaloneLog, BufferedFile, CircleArray, MaloneTimer, PacketFields,
        StringUtility, PeerAddress

VARIABLE component

utilityVars ==
  <<component, logVars, fileVars, ringVars, timerVars, packetVars, stringVars, addressVars>>

UtilitiesInit ==
  /\ component \in {"log", "file", "ring", "timer", "packet", "string", "address"}
  /\ LogInit /\ FileInit /\ RingInit /\ TimerInit /\ PacketInit /\ StringInit /\ AddressInit

Log == component = "log" /\ LogNext
         /\ UNCHANGED <<fileVars, ringVars, timerVars, packetVars, stringVars, addressVars>>
File == component = "file" /\ FileNext
         /\ UNCHANGED <<logVars, ringVars, timerVars, packetVars, stringVars, addressVars>>
Ring == component = "ring" /\ RingNext
         /\ UNCHANGED <<logVars, fileVars, timerVars, packetVars, stringVars, addressVars>>
Timer == component = "timer" /\ TimerNext
         /\ UNCHANGED <<logVars, fileVars, ringVars, packetVars, stringVars, addressVars>>
Packet == component = "packet" /\ PacketNext
         /\ UNCHANGED <<logVars, fileVars, ringVars, timerVars, stringVars, addressVars>>
String == component = "string" /\ StringNext
         /\ UNCHANGED <<logVars, fileVars, ringVars, timerVars, packetVars, addressVars>>
Address == component = "address" /\ AddressNext
         /\ UNCHANGED <<logVars, fileVars, ringVars, timerVars, packetVars, stringVars>>

UtilitiesNext ==
  /\ Log \/ File \/ Ring \/ Timer \/ Packet \/ String \/ Address
  /\ UNCHANGED component

(* The fairness of LogSpec and of FileSpec.                                *)
UtilitiesSpec ==
  /\ UtilitiesInit /\ [][UtilitiesNext]_utilityVars
  /\ WF_logVars(WriteThread) /\ WF_logVars(DestroyCloses) /\ WF_fileVars(InCall)
=============================================================================
