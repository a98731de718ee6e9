---------------------------- MODULE MCSQLiteStore ---------------------------
(* SQLiteStore over the sample units.                                      *)
EXTENDS SQLiteStore, SampleUnits
=============================================================================
