------------------------ MODULE DurableJobsRefinement ------------------------
(***************************************************************************)
(* The engine of DurableJobs implements the promise of JobLifecycle.  The  *)
(* row's state is the state; the history of an attempt's outcomes is what  *)
(* the events table says of it.                                            *)
(***************************************************************************)
EXTENDS DurableJobs, Sequences, FiniteSets

OutcomesOf(j) == {e \in events : e[1] = j /\ e[2] \in Outcomes}

\* The outcomes of j in the order of their attempts.
HistoryOf(j) ==
  [n \in 1 .. Cardinality(OutcomesOf(j)) |->
     CHOOSE o \in Outcomes : <<j, o, n>> \in events]

Lifecycle == INSTANCE JobLifecycle WITH history <- [j \in Jobs |-> HistoryOf(j)]

\* Every step of the workers and of the reconciler is one move of the frozen
\* job graph, or none; each closed attempt adds one outcome at the end of the
\* history; a finished job never moves (ALLOWED, honor_lifecycle_guard).
ImplementsLifecycle == Lifecycle!LSpec
=============================================================================
