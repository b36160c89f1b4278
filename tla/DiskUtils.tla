------------------------------ MODULE DiskUtils ------------------------------
(***************************************************************************)
(* The files enable, filter and output of disk_utils in                    *)
(* module/trace_wperf_events.c, and the probe they control.                *)
(*                                                                         *)
(* While the probe of part_round_stats is armed, its handler adds to the   *)
(* time of the disk it was called for, if the table dnames has the disk.   *)
(* Threads write and read the files at will.  event_mutex is held while    *)
(* the filter is written and the output read; the write of enable takes    *)
(* it only to look the file up.  disable_jprobe and enable_jprobe are      *)
(* atomic, may be repeated, and do not wait for handlers that run.         *)
(*                                                                         *)
(* Nothing in the code keeps a list of names within the table.  A name too *)
(* many is copied past its end; the model ends there.                      *)
(*                                                                         *)
(* A time is represented by the set of disks that were added to it.        *)
(***************************************************************************)
EXTENDS Naturals, Sequences

CONSTANTS
  Enablers, Filterers, Readers,   \* threads, by the file they use
  CPUs,                           \* where handlers run
  Names, Bad,                     \* names of disks, and one that is too long
  Lists,                          \* what is written to the filter
  MaxDisk,                        \* MAX_DISK_NUM
  Unnamed, Nobody

Holders == Filterers \cup Readers
Threads == Enablers \cup Holders

ASSUME ThreadsAssumption ==
  Enablers \cap Holders = {} /\ Filterers \cap Readers = {} /\ Nobody \notin Threads
ASSUME NamesAssumption == Bad \notin Names /\ Unnamed \notin Names \cup {Bad}
ASSUME ListsAssumption ==
  MaxDisk \in Nat /\ \A list \in Lists : list \in Seq(Names \cup {Bad})

VARIABLES
  denabled, didx, dnames, dutils,
  armed,                \* the probe is armed
  mutex,                \* the thread that holds event_mutex, or Nobody
  call,                 \* what each thread is doing
  hit                   \* what the handler on each CPU is doing

VARIABLES
  written,              \* history: the list last written to the filter
  halted,               \* history: the last write of the filter failed, and
                        \* nothing has armed the probe since
  orderly               \* history: the filter was written only when enable
                        \* said 0, no handler was at work then nor when the
                        \* probe was switched off, and no calls overlapped in
                        \* a way that armed the probe over a changing table

vars == <<denabled, didx, dnames, dutils, armed, mutex, call, hit,
          written, halted, orderly>>
history == <<written, halted, orderly>>

Slots == 0 .. MaxDisk - 1
Idle == [at |-> "idle", on |-> FALSE, i |-> 0, rest |-> <<>>]
NoHit == [at |-> "idle", disk |-> Unnamed, i |-> 0, time |-> {}]

TypeOK ==
  /\ denabled \in BOOLEAN /\ armed \in BOOLEAN /\ halted \in BOOLEAN
  /\ didx \in 0 .. MaxDisk
  /\ dnames \in [Slots -> Names \cup {Unnamed}]
  /\ dutils \in [Slots -> SUBSET Names]
  /\ mutex \in Holders \cup {Nobody}
  /\ call \in [Threads -> [at : {"idle", "store", "switch", "zero", "disarm", "next",
                                 "bump", "copy", "overrun", "test", "rearm"},
                           on : BOOLEAN, i : 0 .. MaxDisk, rest : Seq(Names \cup {Bad})]]
  /\ hit \in [CPUs -> [at : {"idle", "entered", "found", "add"},
                       disk : Names \cup {Unnamed}, i : 0 .. MaxDisk, time : SUBSET Names]]
  /\ written \in Lists \cup {<<>>}
  /\ orderly \in BOOLEAN

Fresh(flag, idx, names, times, arm, lock, calls, hits, last, off, good) ==
  /\ flag = FALSE /\ arm = FALSE /\ idx = 0
  /\ names = [i \in Slots |-> Unnamed]
  /\ times = [i \in Slots |-> {}]
  /\ lock = Nobody
  /\ calls = [t \in Threads |-> Idle]
  /\ hits = [c \in CPUs |-> NoHit]
  /\ last = <<>> /\ off = FALSE /\ good = TRUE

Init == Fresh(denabled, didx, dnames, dutils, armed, mutex, call, hit, written, halted, orderly)

AllDone == \A c \in CPUs : hit[c].at = "idle"
Rewriting == \E t \in Filterers : call[t].at \in {"disarm", "next", "bump", "copy", "overrun"}

At(t, place) == call[t].at = place
Goto(t, place) == call' = [call EXCEPT ![t].at = place]
Done(t) == call' = [call EXCEPT ![t] = Idle]
Release(t) == mutex' = Nobody /\ Done(t)
Acquire(t) == mutex = Nobody /\ mutex' = t

-----------------------------------------------------------------------------
(* Writing 0 or 1 to enable.                                               *)

EnableWrite(t, on) ==
  /\ At(t, "idle") /\ mutex = Nobody
  /\ call' = [call EXCEPT ![t].at = "store", ![t].on = on]
  /\ UNCHANGED <<denabled, didx, dnames, dutils, armed, mutex, hit, history>>

StoreEnable(t) ==
  /\ At(t, "store")
  /\ denabled' = call[t].on
  /\ Goto(t, "switch")
  /\ UNCHANGED <<didx, dnames, dutils, armed, mutex, hit, history>>

(* The switch may read the flag again, or go by what it has just stored. *)
Switched(t, on) == At(t, "switch") /\ on \in {call[t].on, denabled}

SwitchOn(t) ==
  /\ Switched(t, TRUE)
  /\ armed' = TRUE
  /\ halted' = FALSE
  /\ Done(t)
  /\ orderly' = (orderly /\ ~Rewriting)
  /\ UNCHANGED <<denabled, didx, dnames, dutils, mutex, hit, written>>

SwitchOff(t) ==
  /\ Switched(t, FALSE)
  /\ armed' = FALSE
  /\ call' = [call EXCEPT ![t].at = "zero", ![t].i = 0]
  /\ orderly' = (orderly /\ AllDone)
  /\ UNCHANGED <<denabled, didx, dnames, dutils, mutex, hit, written, halted>>

\* Slip: the times are kept.
ZeroNothing(t) ==
  /\ At(t, "zero") /\ call[t].i < didx
  /\ call' = [call EXCEPT ![t].i = @ + 1]
  /\ UNCHANGED <<denabled, didx, dnames, dutils, armed, mutex, hit, history>>

ZeroSlot(t) ==
  /\ At(t, "zero") /\ call[t].i < didx
  /\ dutils' = [dutils EXCEPT ![call[t].i] = {}]
  /\ call' = [call EXCEPT ![t].i = @ + 1]
  /\ UNCHANGED <<denabled, didx, dnames, armed, mutex, hit, history>>

\* Slip: the table keeps its disks.
KeepTable(t) ==
  /\ At(t, "zero") /\ call[t].i >= didx
  /\ Done(t)
  /\ UNCHANGED <<denabled, didx, dnames, dutils, armed, mutex, hit, history>>

ResetTable(t) ==
  /\ At(t, "zero") /\ call[t].i >= didx
  /\ didx' = 0
  /\ Done(t)
  /\ UNCHANGED <<denabled, dnames, dutils, armed, mutex, hit, history>>

-----------------------------------------------------------------------------
(* Writing a list of names to filter.  didx++ is a read and a write of its *)
(* own, and the name is copied after both.                                 *)

\* Slip: the new names follow those of the table.
FilterWriteAppends(t, list) ==
  /\ At(t, "idle") /\ Acquire(t)
  /\ written' = list
  /\ call' = [call EXCEPT ![t].at = "disarm", ![t].rest = list]
  /\ UNCHANGED <<denabled, didx, dnames, dutils, armed, hit, halted, orderly>>

\* Slip: event_mutex is not taken.
FilterWriteUnlocked(t, list) ==
  /\ At(t, "idle")
  /\ didx' = 0 /\ written' = list
  /\ call' = [call EXCEPT ![t].at = "disarm", ![t].rest = list]
  /\ UNCHANGED <<denabled, dnames, dutils, armed, mutex, hit, halted, orderly>>

FilterWrite(t, list) ==
  /\ At(t, "idle") /\ Acquire(t)
  /\ didx' = 0 /\ written' = list
  /\ call' = [call EXCEPT ![t].at = "disarm", ![t].rest = list]
  /\ orderly' = (orderly /\ AllDone /\ ~denabled /\ \A e \in Enablers : At(e, "idle"))
  /\ UNCHANGED <<denabled, dnames, dutils, armed, hit, halted>>

FilterDisarm(t) ==
  /\ At(t, "disarm") /\ t \in Filterers
  /\ armed' = FALSE
  /\ Goto(t, "next")
  /\ UNCHANGED <<denabled, didx, dnames, dutils, mutex, hit, history>>

\* Slip: the length of the name is not looked at.
TakeSlotAnyLength(t) ==
  /\ At(t, "next") /\ call[t].rest # <<>> /\ didx < MaxDisk
  /\ call' = [call EXCEPT ![t].at = "bump", ![t].i = didx]
  /\ UNCHANGED <<denabled, didx, dnames, dutils, armed, mutex, hit, history>>

TakeSlot(t) ==
  /\ At(t, "next") /\ call[t].rest # <<>> /\ Head(call[t].rest) # Bad /\ didx < MaxDisk
  /\ call' = [call EXCEPT ![t].at = "bump", ![t].i = didx]
  /\ UNCHANGED <<denabled, didx, dnames, dutils, armed, mutex, hit, history>>

BumpIndex(t) ==
  /\ At(t, "bump")
  /\ didx' = call[t].i + 1
  /\ Goto(t, "copy")
  /\ UNCHANGED <<denabled, dnames, dutils, armed, mutex, hit, history>>

CopyName(t) ==
  /\ At(t, "copy")
  /\ dnames' = [dnames EXCEPT ![call[t].i] = Head(call[t].rest)]
  /\ call' = [call EXCEPT ![t].at = "next", ![t].rest = Tail(@)]
  /\ UNCHANGED <<denabled, didx, dutils, armed, mutex, hit, history>>

(* The table is full, which the code does not look at. *)
Overrun(t) ==
  /\ At(t, "next") /\ call[t].rest # <<>> /\ Head(call[t].rest) # Bad /\ didx >= MaxDisk
  /\ Goto(t, "overrun")
  /\ UNCHANGED <<denabled, didx, dnames, dutils, armed, mutex, hit, history>>

(* A name that is too long ends the write with -EINVAL, and the probe off. *)
FilterFails(t) ==
  /\ At(t, "next") /\ call[t].rest # <<>> /\ Head(call[t].rest) = Bad
  /\ halted' = TRUE
  /\ Release(t)
  /\ UNCHANGED <<denabled, didx, dnames, dutils, armed, hit, written, orderly>>

-----------------------------------------------------------------------------
(* Reading output; what it prints is left out.                             *)

OutputRead(t) ==
  /\ At(t, "idle") /\ Acquire(t)
  /\ Goto(t, "disarm")
  /\ UNCHANGED <<denabled, didx, dnames, dutils, armed, hit, history>>

OutputDisarm(t) ==
  /\ At(t, "disarm") /\ t \in Readers
  /\ armed' = FALSE
  /\ Goto(t, "test")
  /\ UNCHANGED <<denabled, didx, dnames, dutils, mutex, hit, history>>

-----------------------------------------------------------------------------
(* Both end with the probe armed again if the flag says so.                *)

Ended(t) == At(t, "test") \/ (At(t, "next") /\ call[t].rest = <<>>)

\* Slip: with an empty table there seems to be nothing to arm the probe for.
TestEnabledAndUsed(t) ==
  /\ Ended(t)
  /\ IF denabled /\ didx > 0 THEN Goto(t, "rearm") /\ UNCHANGED mutex ELSE Release(t)
  /\ UNCHANGED <<denabled, didx, dnames, dutils, armed, hit, history>>

TestEnabled(t) ==
  /\ Ended(t)
  /\ IF denabled THEN Goto(t, "rearm") /\ UNCHANGED mutex ELSE Release(t)
  /\ UNCHANGED <<denabled, didx, dnames, dutils, armed, hit, history>>

Rearm(t) ==
  /\ At(t, "rearm")
  /\ armed' = TRUE
  /\ halted' = FALSE
  /\ Release(t)
  /\ orderly' = (orderly /\ denabled)
  /\ UNCHANGED <<denabled, didx, dnames, dutils, hit, written>>

-----------------------------------------------------------------------------
(* on_part_round_stats_ent.  dutils[idx] += ... is a read and a write.     *)

Hit(c, disk) ==
  /\ hit[c].at = "idle" /\ armed
  /\ hit' = [hit EXCEPT ![c].at = "entered", ![c].disk = disk]
  /\ UNCHANGED <<denabled, didx, dnames, dutils, armed, mutex, call, history>>

(* dev_idx: the first slot that has the name, if there is one. *)
Indexes(disk) ==
  {i \in 0 .. didx - 1 : dnames[i] = disk /\ \A j \in 0 .. i - 1 : dnames[j] # disk}

LookUp(c) ==
  /\ hit[c].at = "entered"
  /\ LET found == Indexes(hit[c].disk) IN
       \/ found = {} /\ hit' = [hit EXCEPT ![c] = NoHit]
       \/ \E i \in found : hit' = [hit EXCEPT ![c].at = "found", ![c].i = i]
  /\ UNCHANGED <<denabled, didx, dnames, dutils, armed, mutex, call, history>>

(* Nothing is added when the disk was idle or its stamp is of this jiffy. *)
ReadTime(c) ==
  /\ hit[c].at = "found"
  /\ hit' \in {[hit EXCEPT ![c] = NoHit],
               [hit EXCEPT ![c].at = "add", ![c].time = dutils[hit[c].i]]}
  /\ UNCHANGED <<denabled, didx, dnames, dutils, armed, mutex, call, history>>

AddTime(c) ==
  /\ hit[c].at = "add"
  /\ dutils' = [dutils EXCEPT ![hit[c].i] = hit[c].time \cup {hit[c].disk}]
  /\ hit' = [hit EXCEPT ![c] = NoHit]
  /\ UNCHANGED <<denabled, didx, dnames, armed, mutex, call, history>>

-----------------------------------------------------------------------------
EnableStep(t) ==
  \/ \E on \in BOOLEAN : EnableWrite(t, on)
  \/ StoreEnable(t) \/ SwitchOn(t) \/ SwitchOff(t) \/ ZeroSlot(t) \/ ResetTable(t)

FilterStep(t) ==
  \/ \E list \in Lists : FilterWrite(t, list)
  \/ FilterDisarm(t) \/ TakeSlot(t) \/ BumpIndex(t) \/ CopyName(t)
  \/ Overrun(t) \/ FilterFails(t)

ReadStep(t) == OutputRead(t) \/ OutputDisarm(t)

Handler(c) ==
  \/ \E disk \in Names : Hit(c, disk)
  \/ LookUp(c) \/ ReadTime(c) \/ AddTime(c)

ThreadStep(t) ==
  \/ t \in Enablers /\ EnableStep(t)
  \/ t \in Filterers /\ FilterStep(t)
  \/ t \in Readers /\ ReadStep(t)
  \/ t \in Holders /\ (TestEnabled(t) \/ Rearm(t))

Sane == \A t \in Threads : ~At(t, "overrun")

Next == Sane /\ ((\E t \in Threads : ThreadStep(t)) \/ (\E c \in CPUs : Handler(c)))

Spec == Init /\ [][Next]_vars

-----------------------------------------------------------------------------
(* Properties, for one thread that writes enable.                          *)

Quiet == \A t \in Threads : At(t, "idle")

(* When enable says 1 the probe is armed, however its writes fell between  *)
(* the disarming and the test of a filter write or an output read; only a  *)
(* filter that was refused leaves it off.                                  *)
EnabledMeansArmed == Quiet /\ denabled /\ ~halted => armed

(* An output read or a filter write that overlaps a write of 0 may arm the *)
(* probe after it.  The table is empty then, so that no disk is counted    *)
(* although enable says 0.                                                 *)
StrayProbeHarmless == Quiet /\ armed /\ ~denabled => didx = 0

(* The table holds consecutive names of the list that was written last,    *)
(* never a mixture of two lists: what the mutex of filter_write_generic is *)
(* for, even though writes of 0 to enable empty the table without it.      *)
TableFromOneWrite ==
  Quiet => \E from \in 0 .. Len(written) - didx :
             \A i \in 0 .. didx - 1 : dnames[i] = written[from + i + 1]

(* Over any number of sessions the time of a slot is that of the disk it   *)
(* names, if the filter is written only after a write of 0 that was        *)
(* through and nothing overlapped.  Otherwise it may be another disk's.    *)
TimesBelong == orderly => \A i \in 0 .. didx - 1 : dutils[i] \subseteq {dnames[i]}

(* Only a single list with more names than the table has slots is copied   *)
(* past its end.  However many lists are written, and wherever a write of  *)
(* 0 to enable empties the table between two names of one, they do not add *)
(* up.                                                                     *)
OverrunByOneList == (\E t \in Threads : At(t, "overrun")) => Len(written) > MaxDisk

=============================================================================
