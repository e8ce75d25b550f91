----------------------------- MODULE ObjectStore -----------------------------
(***************************************************************************)
(* What an object pool promises: an object is given to one owner at a time *)
(* until it is given back, and a request is refused only when all objects  *)
(* are out.                                                                *)
(***************************************************************************)
CONSTANTS Objects, NoResult

VARIABLES inUse,   \* the objects that have been allocated and not released
          result   \* what the last Allocate returned

StoreInit == inUse = {} /\ result = NoResult

Take ==
  \E o \in Objects \ inUse :
    /\ inUse' = inUse \cup {o}
    /\ result' = o

Refuse ==
  /\ inUse = Objects
  /\ result' = NoResult
  /\ UNCHANGED inUse

GiveBack ==
  \E o \in inUse :
    /\ inUse' = inUse \ {o}
    /\ UNCHANGED result

Spec == StoreInit /\ [][Take \/ Refuse \/ GiveBack]_<<inUse, result>>
=============================================================================
