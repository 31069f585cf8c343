------------------------------- MODULE MCSdk -------------------------------
(***************************************************************************)
(* Sdk for TLC.                                                            *)
(***************************************************************************)
EXTENDS Sdk
=============================================================================
