-------------------------------- MODULE MCRemake -------------------------------
(* TableRemake with two columns, every kind of field that the remake tells      *)
(* apart, and one row in each table.                                            *)
EXTENDS TableRemake

Plain == [pk |-> FALSE, auto |-> FALSE, null |-> FALSE, index |-> FALSE, unique |-> FALSE,
          db_default |-> FALSE, to |-> "none"]

TestFields ==
  { Plain,
    [Plain EXCEPT !.null = TRUE, !.index = TRUE],
    [Plain EXCEPT !.db_default = TRUE],
    [Plain EXCEPT !.unique = TRUE, !.index = TRUE],
    [Plain EXCEPT !.pk = TRUE, !.unique = TRUE] }
================================================================================
