-------------------------- MODULE SnapshotService --------------------------
(***************************************************************************)
(* What superkb promises of its knowledge bases, without queue, workers,   *)
(* requests, banks or columns: a knowledge base is a place for snapshots,  *)
(* a snapshot is built once and then published or discarded for good, and  *)
(* at any moment at most one published snapshot of the knowledge base's    *)
(* own serves its searches.  Closing a knowledge base takes all of it away *)
(* in one step.  KnowledgeBase is shown to implement this module.          *)
(***************************************************************************)
CONSTANTS KBs, Builds, NoKB, NoBuild

VARIABLES
  open,       \* knowledge bases that exist: "new", "open" or "closed"
  snapshot,   \* "none", "building", "published", "discarded" or "dropped"
  home,       \* the knowledge base a snapshot was begun for
  serving     \* the snapshot that answers searches, or NoBuild

snapshotVars == <<open, snapshot, home, serving>>

Init ==
  /\ open = [k \in KBs |-> "new"]
  /\ snapshot = [b \in Builds |-> "none"]
  /\ home = [b \in Builds |-> NoKB]
  /\ serving = [k \in KBs |-> NoBuild]

Open(k) ==
  /\ open[k] = "new"
  /\ open' = [open EXCEPT ![k] = "open"]
  /\ UNCHANGED <<snapshot, home, serving>>

Begin(k, b) ==
  /\ open[k] = "open"
  /\ snapshot[b] = "none"
  /\ snapshot' = [snapshot EXCEPT ![b] = "building"]
  /\ home' = [home EXCEPT ![b] = k]
  /\ UNCHANGED <<open, serving>>

Settle(b, outcome) ==
  /\ snapshot[b] = "building"
  /\ snapshot' = [snapshot EXCEPT ![b] = outcome]
  /\ UNCHANGED <<open, home, serving>>

Publish(b) == Settle(b, "published")
Discard(b) == Settle(b, "discarded")

(* The switch: no other snapshot is touched, so any may be served again. *)
Serve(k, b) ==
  /\ open[k] = "open"
  /\ home[b] = k
  /\ snapshot[b] = "published"
  /\ serving' = [serving EXCEPT ![k] = b]
  /\ UNCHANGED <<open, snapshot, home>>

Stop(k) ==
  /\ serving' = [serving EXCEPT ![k] = NoBuild]
  /\ UNCHANGED <<open, snapshot, home>>

Close(k) ==
  /\ open[k] = "open"
  /\ open' = [open EXCEPT ![k] = "closed"]
  /\ snapshot' = [b \in Builds |-> IF home[b] = k THEN "dropped" ELSE snapshot[b]]
  /\ serving' = [serving EXCEPT ![k] = NoBuild]
  /\ UNCHANGED home

Next ==
  \/ \E k \in KBs : Open(k) \/ Stop(k) \/ Close(k)
  \/ \E k \in KBs, b \in Builds : Begin(k, b) \/ Serve(k, b)
  \/ \E b \in Builds : Publish(b) \/ Discard(b)

Spec == Init /\ [][Next]_snapshotVars
=============================================================================
