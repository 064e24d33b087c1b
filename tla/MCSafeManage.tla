---------------------------- MODULE MCSafeManage ----------------------------
(***************************************************************************)
(* Instance of SafeManage for TLC.                                         *)
(***************************************************************************)
EXTENDS SafeManage

CONSTANTS p1, p2, i1, i2

=============================================================================
