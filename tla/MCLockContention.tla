--------------------------- MODULE MCLockContention ---------------------------
(***************************************************************************)
(* LockContention with a small counter.                                    *)
(***************************************************************************)
EXTENDS LockContention
=============================================================================
