---------------------------- MODULE MC_Migrator -----------------------------
(* Migrator on a small instance.                                           *)
EXTENDS Migrator

CONSTANTS a1, a2, a3

MCAdapters == {a1, a2, a3}
=============================================================================
