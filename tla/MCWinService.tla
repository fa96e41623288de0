---------------------------- MODULE MCWinService ----------------------------
(* Instances of WinService for TLC.                                        *)
EXTENDS WinService
=============================================================================
