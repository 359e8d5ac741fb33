------------------------------ MODULE MCTemporal ------------------------------
(***************************************************************************)
(* The days and times on which TLC evaluates the lookups: the ends of a    *)
(* leap year and of years whose first days belong to the ISO week of the   *)
(* year before, the ends of quarters, and times with and without           *)
(* fractions, on both sides of midnight in the other time zone.            *)
(***************************************************************************)
EXTENDS TemporalLookups

TestDays ==
  {FirstOf(2024, 2) + 28, FirstOf(2025, 1) - 1, FirstOf(2027, 1), FirstOf(2026, 4) - 1,
   FirstOf(2026, 7) + 12}
TestClocks == {<<0, 0>>, <<0, 100000>>, <<25199, 999999>>, <<67351, 0>>}
TestYears == 2020 .. 2030

\* tests/core/test_temporal_queries.py: 2026-07-13 is the Monday of week 29.
ASSUME KnownMoment ==
  LET text == Date(FirstOf(2026, 7) + 12)
  IN  strftime("%u", text) = 1 /\ strftime("%V", text) = 29

=============================================================================
