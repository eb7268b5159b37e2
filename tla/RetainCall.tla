----------------------------- MODULE RetainCall -----------------------------
(***************************************************************************)
(* What ProcessBuild takes Indexer.Retain to be: one call that succeeds or *)
(* fails.  Extraction starts and lands piece by piece behind it; a call    *)
(* that succeeded has everything in the bank, nothing was lost, and no     *)
(* piece comes after it.  A call that failed promises nothing: pieces may  *)
(* still come.  HindsightRetain is shown to implement this module.         *)
(***************************************************************************)
CONSTANT Pieces

VARIABLES
  result,  \* "none" while the call lasts, then "ok" or "error"
  coming,  \* the pieces of extraction that have begun
  landed,  \* those that are in the bank
  lost     \* those that never will be

callVars == <<result, coming, landed, lost>>

Init == result = "none" /\ coming = {} /\ landed = {} /\ lost = {}

New == SUBSET (Pieces \ (coming \cup landed \cup lost))

Begin(new) ==
  /\ result = "none"
  /\ coming' = coming \cup new
  /\ UNCHANGED <<result, landed, lost>>

Land(p, new) ==
  /\ result # "ok"
  /\ p \in coming
  /\ coming' = (coming \ {p}) \cup new
  /\ landed' = landed \cup {p}
  /\ UNCHANGED <<result, lost>>

Lose(p) ==
  /\ result # "ok"
  /\ p \in coming
  /\ coming' = coming \ {p}
  /\ lost' = lost \cup {p}
  /\ UNCHANGED <<result, landed>>

Succeed ==
  /\ result = "none"
  /\ coming = {} /\ lost = {}
  /\ result' = "ok"
  /\ UNCHANGED <<coming, landed, lost>>

(* A call that fails may have begun what it does not know of. *)
GiveUp(new) ==
  /\ result = "none"
  /\ result' = "error"
  /\ coming' = coming \cup new
  /\ UNCHANGED <<landed, lost>>

Next ==
  \/ \E new \in New : Begin(new) \/ GiveUp(new)
  \/ \E p \in coming : Lose(p) \/ \E new \in New : Land(p, new)
  \/ Succeed

Spec == Init /\ [][Next]_callVars
=============================================================================
