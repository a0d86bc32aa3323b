---------------------------- MODULE MCAliasTable ----------------------------
(* The TLC instance of AliasTable: only numbers. *)
EXTENDS AliasTable
=============================================================================
