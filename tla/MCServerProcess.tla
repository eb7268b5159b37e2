--------------------------- MODULE MCServerProcess ---------------------------
(* ServerProcess on a few builds, workers and settings.                     *)
EXTENDS ServerProcess

(* Credentials and sizes are read, checked and used apart from each other: *)
(* every setting of the ones, beside defaults and one name for the others. *)
OneAtATime ==
  {e \in Environments :
     \/ e.WORKER_CONCURRENCY = Unset /\ e.WORKER_QUEUE_SIZE = 1
     \/ /\ e.AUTH_ENABLED = Unset
        /\ e.AUTH_USERNAME \in Names /\ e.AUTH_PASSWORD \in Names}

InstanceInit == environ \in OneAtATime /\ Init

FairInstance == InstanceInit /\ [][Next]_vars /\ Fairness
=============================================================================
