----------------------------- MODULE MCDiskUtils -----------------------------
(***************************************************************************)
(* DiskUtils with lists for its filter: one of two names, one that is      *)
(* refused, and one that has more names than the table has slots.          *)
(***************************************************************************)
EXTENDS DiskUtils

CONSTANTS sda, sdb, bad

Written == {<<sda, sdb>>, <<sdb>>, <<sdb, bad>>, <<sda, sdb, sda>>}

=============================================================================
