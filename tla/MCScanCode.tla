----------------------------- MODULE MCScanCode -----------------------------
(***************************************************************************)
(* Instances of ScanCode for TLC.                                          *)
(***************************************************************************)
EXTENDS ScanCode
=============================================================================
