---------------------------- MODULE MCTransactions -----------------------------
(* TursoTransactions on small instances: work and savepoints are few, and the   *)
(* pieces of work are interchangeable.                                          *)
EXTENDS TransactionInvariant, TLC

WorkSymmetry == Permutations(Work)

Setting(memory, auto, checked) ==
  [in_memory |-> memory, autocommit |-> auto, health_checks |-> checked]

\* A database in memory with Django's defaults.
InMemoryDefaults == {Setting(TRUE, TRUE, FALSE)}

\* Databases in memory and in files, with and without AUTOCOMMIT, checked for health.
AnyDatabase == {Setting(memory, auto, TRUE) : memory, auto \in BOOLEAN}
================================================================================
