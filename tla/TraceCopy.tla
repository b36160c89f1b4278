------------------------------ MODULE TraceCopy ------------------------------
(***************************************************************************)
(* What recording one trace promises, whatever the recorder does inside:   *)
(* every trace instance is a growing log of records 1, 2, 3 ..., and the   *)
(* output file of the instance is a part of that log in log order.  A      *)
(* record is never written before it is produced, never written after a    *)
(* later one, never written twice, and nothing is written once the copy of *)
(* an instance is over.                                                    *)
(*                                                                         *)
(* The copy may leave records out: trace buffers overwrite their oldest    *)
(* records and a write may fail.                                           *)
(***************************************************************************)
EXTENDS Integers, Sequences, Functions

CONSTANT Instances      \* the trace instances that are copied

VARIABLES
  produced,             \* how many records the log of an instance has
  file,                 \* the output file of an instance, record by record
  over                  \* the instances whose copy has ended

vars == <<produced, file, over>>

TypeOK ==
  /\ produced \in [Instances -> Nat]
  /\ file \in [Instances -> Seq(Nat)]
  /\ over \subseteq Instances

\* Records left from before the first run may be in the log already.
Init ==
  /\ produced \in [Instances -> Nat]
  /\ file = [i \in Instances |-> <<>>]
  /\ over = {}

\* The kernel appends a record to the log of i.
Produce(i) ==
  /\ produced' = [produced EXCEPT ![i] = @ + 1]
  /\ UNCHANGED <<file, over>>

InLogOrder(s) == \A m, n \in 1 .. Len(s) : m < n => s[m] < s[n]

\* The file grows at its end, by records of the log, and stays in log order.
Copy(i) ==
  /\ i \notin over
  /\ file' = [file EXCEPT ![i] = file'[i]]
  /\ Len(file[i]) <= Len(file'[i])
  /\ \A n \in 1 .. Len(file[i]) : file'[i][n] = file[i][n]
  /\ InLogOrder(file'[i])
  /\ Range(file'[i]) \subseteq 1 .. produced[i]
  /\ UNCHANGED <<produced, over>>

Finish(i) ==
  /\ over' = over \cup {i}
  /\ UNCHANGED <<produced, file>>

\* A new recorder starts on empty output files.
NewRun ==
  /\ file' = [i \in Instances |-> <<>>]
  /\ over' = {}
  /\ UNCHANGED produced

Next ==
  \/ \E i \in Instances : Produce(i) \/ Copy(i) \/ Finish(i)
  \/ NewRun

Spec == Init /\ [][Next]_vars

=============================================================================
