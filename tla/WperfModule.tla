----------------------------- MODULE WperfModule -----------------------------
(***************************************************************************)
(* The kernel module from trace_wperf_events_init to                       *)
(* trace_wperf_events_exit: DiskUtils and TxStat behind one event_mutex,   *)
(* on probes that are all armed while they are being registered.           *)
(*                                                                         *)
(* Control files appear one after the other, and from then on threads use  *)
(* them while init goes on.  They go away with the directory of the trace  *)
(* events, after exit.                                                     *)
(***************************************************************************)
EXTENDS Naturals, Sequences

CONSTANTS
  DiskEnablers, DiskFilterers, DiskReaders, CPUs, Names, DiskLists, MaxDisk, Unnamed,
  TxEnablers, TxFilterers, TxReaders, ProbeList, Pids, PidLists, Paths, MaxSends,
  Bad, Nobody

TxThreads == TxEnablers \cup TxFilterers \cup TxReaders
Probes == {ProbeList[n] : n \in 1 .. Len(ProbeList)}

ASSUME TxThreadsAssumption ==
  /\ TxEnablers \cap (TxFilterers \cup TxReaders) = {} /\ TxFilterers \cap TxReaders = {}
  /\ Nobody \notin TxThreads
  /\ TxThreads \cap (DiskEnablers \cup DiskFilterers \cup DiskReaders) = {}
ASSUME PidListsAssumption ==
  Bad \notin Pids /\ \A list \in PidLists : list \in Seq(Pids \cup {Bad})
ASSUME ProbesAssumption ==
  ProbeList \in Seq(Probes) /\ ProbeList # <<>> /\ Paths \subseteq Seq(Probes)
ASSUME DiskAssumption ==      \* those of DiskUtils
  /\ DiskEnablers \cap (DiskFilterers \cup DiskReaders) = {}
  /\ DiskFilterers \cap DiskReaders = {}
  /\ Nobody \notin DiskEnablers \cup DiskFilterers \cup DiskReaders
  /\ Bad \notin Names /\ Unnamed \notin Names \cup {Bad} /\ MaxDisk \in Nat
  /\ \A list \in DiskLists : list \in Seq(Names \cup {Bad})

VARIABLES
  denabled, didx, dnames, dutils, diskArmed, diskCall, hit,
  written, diskHalted, orderly,                               \* of DiskUtils
  tx_enabled, filter, bytes, txArmed, txCall, send, sends, txHalted,  \* of TxStat
  mutex,                                                      \* of both
  phase,                \* how far the module is loaded
  files,                \* how many of the six control files there are
  asked                 \* history: a thread has begun to write 1 to enable of
                        \* tx_stat since the module was loaded

Disk == INSTANCE DiskUtils WITH
  Enablers <- DiskEnablers, Filterers <- DiskFilterers, Readers <- DiskReaders,
  Lists <- DiskLists, armed <- diskArmed, call <- diskCall, halted <- diskHalted

Tx == INSTANCE TxStat WITH
  Enablers <- TxEnablers, Filterers <- TxFilterers, Readers <- TxReaders,
  Lists <- PidLists, armed <- txArmed, call <- txCall, halted <- txHalted

diskOwn == <<denabled, didx, dnames, dutils, diskCall, hit, written, diskHalted, orderly>>
txOwn == <<tx_enabled, filter, bytes, txCall, send, sends, txHalted>>
vars == <<diskOwn, diskArmed, txOwn, txArmed, mutex, phase, files, asked>>

(* The file a thread uses, in the order the files are created. *)
DiskFile(t) == CASE t \in DiskEnablers -> 1 [] t \in DiskFilterers -> 2 [] t \in DiskReaders -> 3
TxFile(t)   == CASE t \in TxEnablers   -> 4 [] t \in TxFilterers   -> 5 [] t \in TxReaders   -> 6

Init == Disk!Init /\ Tx!Init /\ phase = "out" /\ files = 0 /\ asked = FALSE

-----------------------------------------------------------------------------
(* trace_wperf_events_init.                                                *)

InitStep(from, to) ==
  phase = from /\ phase' = to /\ UNCHANGED <<diskOwn, txOwn, mutex, asked>>

(* register_jprobes registers all or none.  A probe is armed when it is    *)
(* registered.                                                             *)
RegisterJprobes ==
  /\ InitStep("out", "jprobes")
  /\ diskArmed' = TRUE /\ txArmed' = Tx!Probes
  /\ UNCHANGED files

RegisterKretprobes ==
  /\ InitStep("jprobes", "kretprobes")
  /\ UNCHANGED <<diskArmed, txArmed, files>>

(* Init gives up and leaves the jprobes registered. *)
KretprobesFail ==
  /\ InitStep("jprobes", "failed")
  /\ UNCHANGED <<diskArmed, txArmed, files>>

DisableProbes ==
  /\ InitStep("kretprobes", "files")
  /\ diskArmed' = FALSE /\ txArmed' = {}
  /\ UNCHANGED files

CreateFile ==
  /\ phase = "files" /\ Disk!Sane
  /\ files' = files + 1
  /\ phase' = IF files' = 6 THEN "loaded" ELSE "files"
  /\ UNCHANGED <<diskOwn, diskArmed, txOwn, txArmed, mutex, asked>>

\* Slip: the files are created first, and the probes disarmed at the end.
CreateFilesFirst ==
  \/ /\ phase = "kretprobes"
     /\ files' = files + 1
     /\ phase' = IF files' = 6 THEN "quieten" ELSE "kretprobes"
     /\ UNCHANGED <<diskOwn, diskArmed, txOwn, txArmed, mutex, asked>>
  \/ /\ InitStep("quieten", "loaded")
     /\ diskArmed' = FALSE /\ txArmed' = {}
     /\ UNCHANGED files

CreateFiles == DisableProbes \/ CreateFile

(* trace_wperf_events_exit waits for the handlers; the next load begins    *)
(* with fresh data.  A thread that is inside a control file is outside the *)
(* model.                                                                  *)
Exit ==
  /\ phase = "loaded" /\ Disk!Quiet /\ Tx!Quiet
  /\ Disk!AllDone /\ \A p \in Pids : ~send[p].tested
  /\ Disk!Fresh(denabled', didx', dnames', dutils', diskArmed', mutex', diskCall', hit',
                written', diskHalted', orderly')
  /\ Tx!Fresh(tx_enabled', filter', bytes', txArmed', mutex', txCall', send', sends', txHalted')
  /\ phase' = "out" /\ files' = 0 /\ asked' = FALSE

-----------------------------------------------------------------------------
(* The control files, once they are there, and the handlers.               *)

Loaded == phase \notin {"out", "failed"}

DiskStep ==
  /\ Loaded /\ Disk!Sane
  /\ \/ \E t \in Disk!Threads : files >= DiskFile(t) /\ Disk!ThreadStep(t)
     \/ \E c \in CPUs : Disk!Handler(c)
  /\ UNCHANGED <<txOwn, txArmed, phase, files, asked>>

TxStep ==
  /\ Loaded /\ Disk!Sane
  /\ \/ \E t \in Tx!Threads : files >= TxFile(t) /\ Tx!ThreadStep(t)
     \/ \E p \in Pids : Tx!Sender(p)
  /\ asked' = (asked \/ \E t \in TxEnablers : txCall'[t].on)
  /\ UNCHANGED <<diskOwn, diskArmed, phase, files>>

Next ==
  \/ RegisterJprobes \/ RegisterKretprobes \/ KretprobesFail
  \/ CreateFiles \/ Exit
  \/ DiskStep \/ TxStep

Spec == Init /\ [][Next]_vars

-----------------------------------------------------------------------------
(* Properties.                                                             *)

(* What enable says of either event is true of its probes from the moment  *)
(* its file is there: init never takes back what a thread has switched on. *)
EnabledMeansArmed == Loaded => Disk!EnabledMeansArmed /\ Tx!EnabledMeansArmed

(* Until somebody writes 1 to enable of tx_stat nothing is counted, though  *)
(* init arms the probes and takes them down again, and though its filter   *)
(* is written and its output read, which switch the probes as well.        *)
NothingBeforeEnable == ~asked => \A p \in Pids : bytes[p] = 0

(* When enable of tx_stat says 0 and nobody is at its files, nothing that  *)
(* is sent is counted, though some of the probes may have stayed armed.    *)
DisabledCountsNothing ==
  [][Tx!Quiet /\ ~tx_enabled => \A p \in Pids : ~send'[p].tested \/ send[p].tested]_vars

=============================================================================
