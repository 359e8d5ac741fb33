------------------------------- MODULE MCDatabases -----------------------------
(* Databases with two aliases: a primary in a file or in memory with every mix  *)
(* of modes, tested in a file or in memory, and a replica that may mirror it.   *)
EXTENDS Databases

Default ==
  [name : {"app.db", Memory}, test : {"test_app.db", Memory},
   journal_mode : {"unset", "MVCC"}, transaction_mode : {"DEFERRED", "CONCURRENT"}]

Replica ==
  [name : {Memory}, test : {Memory}, journal_mode : {"WAL", "MVCC"}, transaction_mode : {"DEFERRED"}]

TestConfigurations ==
  {[a \in {"default", "replica"} |-> IF a = "default" THEN d ELSE r] : d \in Default, r \in Replica}
================================================================================
