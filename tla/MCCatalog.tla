------------------------------ MODULE MCCatalog ------------------------------
(* Instances of Catalog for TLC: where the threads run and what may fail. *)
EXTENDS Catalog, TLC

OnTask == CHOOSE k \in Task : TRUE
\* Every thread in the only task.
Together == [t \in Thread |-> OnTask]
\* One thread in each task.
Apart == CHOOSE f \in [Thread -> Task] : \A t, u \in Thread : f[t] = f[u] => t = u

\* With an empty bundled catalog the collections are alike.
Alike == Permutations(Collection)

\* A stop that fails is ignored, and the workers keep the mapfile they have.
EveryStepButStop == Fallible \ {"stop"}
SyncFails == {"sync"}
DownloadFails == {"download"}
NothingFails == {}
=============================================================================
