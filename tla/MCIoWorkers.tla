----------------------------- MODULE MCIoWorkers -----------------------------
(***************************************************************************)
(* IoWorkers with command lines.                                           *)
(***************************************************************************)
EXTENDS IoWorkers

(* Those of recorder.py, with each list or without, and two that are wrong. *)
Usual ==
  {<<"-f">> \o d \o n \o <<"-o", "-P">> : d \in {<<>>, <<"-d">>}, n \in {<<>>, <<"-n">>}}
  \cup {<<"-h">>, <<"-P bad", "-b">>}

=============================================================================
