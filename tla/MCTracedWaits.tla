---------------------------- MODULE MCTracedWaits ----------------------------
(***************************************************************************)
(* TracedWaits with threads 1 and 2 that are analysed and 3 that is not.   *)
(***************************************************************************)
EXTENDS TracedWaits, TLC

TwoThreads == <<1, 2>>
NamesOfThree == (1 :> "a" @@ 2 :> "b" @@ 3 :> "c")

=============================================================================
