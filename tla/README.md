# wPerf in TLA+

wPerf records what the threads of a process wait for and computes from that a
wait-for graph. A kernel module (`module/`) puts probes into the scheduler and
the softirq code and writes trace records; a recorder (`recorder/`) switches
the events on, copies the ring buffers of two trace instances to files and
switches the events off again; scripts turn the files into JSON; an analyzer
(`analyzer/`) breaks the time of each thread into segments and adds the waits up.

This directory models the recorder (`EventPump`, `Recorder`, `IoWorkers`), the
kernel module (`DiskUtils`, `TxStat`, `WperfModule`, `SoftirqContext`), the
analyzer (`Segments`, `Cascade`, with the traced threads around them in
`TracedThread` and `TracedWaits`) and the two programs the repository records as
examples (`LockContention`). Paths below are those of the repository.

## 1. Inventory

| Component | State | Operations | What makes it correct |
|---|---|---|---|
| event pump, `recorder/event.c` | per instance an `event_ctx`: two descriptors, a 4096-byte `iov`, one union of requests, a retry timer; the flag `expired` | `record_events`, `on_open`, `on_read`, `on_write`, `on_retry`, close | no request overwrites another; nothing is lost between a read and a write; nothing is closed before the expiry, nor with anything left of the last read; output in log order |
| recorder control, `recorder/recorder.c`, `main.c` | signal handle, expiry timer, place in the set-up; in the kernel the `enable` and `filter` files | `recorder_run`, `cleanup`, `sig_ignore`, `sig_cleanup`, `timer_expire` | an event is never enabled unfiltered; a run whose loop returns leaves the kernel clean; the run ends |
| io workers, `recorder/ioworker.c`, `main.c` | process handles, argument lists, output descriptors | `parse_opts`, `setup_ioworkers`, `record_ioworkers`, exit callback | a child runs the program of its worker; its output is closed once, after it; the run ends |
| kernel control files, `module/trace_wperf_events.c` | `denabled`, `didx`, `dnames`, `dutils`, `tx_enabled`, `filter`, `tx_stats`, state of the probes | read and write of `enable`, `filter`, `output` | probes are on exactly when enabled; the table is from one write; counters belong to the names they are printed with |
| softirq labelling, module `.c`/`.h` | per CPU `softirqs_nr`, `softirq_btime` | entry and return of each softirq handler; the records | a record names the context it was made in |
| module init and exit | registered probes, debugfs files | init, exit | init counts nothing and takes back nothing that was enabled meanwhile |
| analyzer segments, `process.go` | `prevStateMap`, exit and creation times, a sorted map of segments per thread, a sorted map of softirqs per CPU | `InitPrevStates`, `BreakIntoSegments` | segments tell what the thread did, do not overlap, and name what it waited for |
| analyzer cascade, `process.go` | the wait-for graph | `Cascade`, `findAllWaitingSegments`, `addWeight` | a wait counts once, for its waker, and is passed on to the waits of the waker that overlap; the search for these ends |
| loaders, `main.go` | the sorted lists | `LoadSwitch`, `LoadSoft`, main | order by time stamp |
| example workloads, `cases/` | a counter, a mutex, two conditions | `dec_counter`, `inc_counter`, `thread_wait` | no wake-up is lost, the counter does not pass zero |
| scripts | output directory | `recorder.py`, `encorder.py` | one run at a time on an empty directory |

How they interact: the loop thread of the recorder writes the control files the
probes obey; the kernel fills the ring buffers while libuv's pool threads read
them; callbacks and pool threads share the `event_ctx`; a run inherits from the
one before it whatever that left in the kernel. The analyzer shares nothing
with a running system: all it knows is the order and the stamps of records.
Within the module, threads at the control files share flags, a table, a bitmap
and the probes with each other and with the handlers on every CPU, and only some
of them take `event_mutex`.

What is hard: the flag `expired` changes between a read and the callback that
looks at its result; SIGINT and the timer become due together; a run dies half
way through the control files; requests fail or are short; wake-ups are
recorded at the entry of `try_to_wake_up` whether or not they wake; records
carry stale stamps; segments that start together replace each other; writes of
`enable` fall between the steps of a filter write; process handles are used
twice. `hazards`
in `PROJECT.json` lists these with their lines.

## 2. Modules

| Module | Models | Role |
|---|---|---|
| `TraceCopy` | what recording a trace promises | abstract specification |
| `EventPump` | `recorder/event.c`, the chain of callbacks | implements `TraceCopy` |
| `EventPumpProofs` | | proofs about `EventPump` |
| `Recorder` | `recorder/recorder.c`, set-up and stop | composes `EventPump` (`Pump`) |
| `MCRecorder` | the lists of instances and events | values for TLC |
| `RecorderProofs` | | proofs about `Recorder` |
| `Segments` | `process.go`, up to `BreakIntoSegments` | the analyzer, for any trace |
| `TracedThread` | probes of the module, scheduler, `main.go` | composes `Segments` (`Analyzer`) with a thread whose history is known |
| `MCTracedThread`, `TracedThreadProofs` | | symmetry for TLC; proofs about both modules |
| `Cascade` | `process.go` from `Cascade` on, and `main` | the second half of the analyzer, for any segments |
| `TracedWaits` | scheduler and wake-ups of several threads | composes `Cascade` (`Analyzer`) with segments that can be |
| `MCTracedWaits`, `TracedWaitsProofs` | | threads and names for TLC; proofs about both modules |
| `DiskUtils` | control files and probe of `disk_utils` | |
| `MCDiskUtils`, `DiskUtilsProofs` | | lists for TLC; proofs |
| `TxStat` | control files and probes of `tx_stat` | |
| `WperfModule`, `MCWperfModule` | init and exit of the module | composes `DiskUtils` (`Disk`) and `TxStat` (`Tx`) behind one mutex |
| `WperfModuleProofs` | | proofs about it and `TxStat` |
| `SoftirqContext` | per-CPU data of the module, kretprobes, labels | |
| `MCSoftirqContext` | | softirqs for TLC |
| `IoWorkers` | `ioworker.c`, `parse_opts`, the calls in `recorder.c` | |
| `MCIoWorkers`, `IoWorkersProofs` | | command lines for TLC; proofs |
| `LockContention` | `cases/*/main.c` | |
| `MCLockContention` | | a small counter for TLC |
| `SoftirqAndLockProofs` | | proofs about `SoftirqContext` and about `LockContention` |

A definition that begins with the comment `Slip:` is not part of any
specification. It is a plausible mistake in the operator that follows it; with
the mistake in its place, the property named for it in `PROJECT.json`
(`mutants`) is violated. That is how each property is known to say something.

### EventPump

Records are numbered in the order the kernel makes them. `produced` and `head`
describe the ring buffer (a full one drops its oldest record), `lo`, `hi` and
`iovLen` the buffer and the length in `event->iov`, `file` the output, `reqs`
the submitted requests and their results, `retry` the retry timer, `fdIn` and
`fdOut` the two descriptors. `base`, `lost`, `lastRead` and `failed` are
history and no action looks at them.

There is an action per callback (`OnOpen`, `OnRead`, `OnWrite`, `OnRetry`),
enabled when the result is there (`Deliver`), and one per thing a pool thread
does (`PerformOpen`, `PerformReadData`, `PerformReadNothing`, `PerformWrite`).
The two are separate steps because they run in different threads. `Expire`
stands for the assignment in `cleanup`, `NewRun` for the end of the process, for
whatever reason, and a new one on an emptied directory. A write that fails or
is short drops records; they are counted in `lost`, so that `NoSilentLoss`
tells them from records that vanish.

### Recorder

`pc` is the place of the loop thread in `recorder_run`, `k` the index of the loop
it is in, `enabled` and `filtered` the kernel's files, `sigCb` the callback that
is installed, `sigPending` a SIGINT that waits, `timer` the expiry timer,
`caller` the callback inside `cleanup`. `write_debugfs` takes a step per file, so
that records are produced, requests performed and signals received between
them. Any step on a control file may end the process (`exit(1)`), and so may an
allocation of a context (`assert`). `recorder_run` returns -1 (`GiveUp`) when
there is no memory for the array of contexts (`event.c:138`) or
`record_ioworkers` fails (`recorder.c:75`); both come after `set_filter_and_enable`,
and nothing is switched off again. `Restart` begins again on what is left in the
kernel. Every step is a step of `Pump` or leaves its variables alone.

The model is of the command line `recorder.py` builds for the example in
`README.md`: neither `-d` nor `-n`, hence no io workers. That `record_ioworkers`
fails is there all the same, since what it leaves behind is the same with them.

### Segments and TracedThread

`Segments` has an action per branch of the loop of `BreakIntoSegments`
(`SwitchOut`, `SwitchIn`, `WakeUp`, `Skip`) and one for what follows the loop
(`Finish`). `segs` is the sorted map: a function from the start of a segment,
where `Put` replaces what started at the same time. `Floor` and
`GetCeilingSoft` return sets of at most one element, empty where the map returns
nil. `pc = "crashed"` is a Go panic: an index into an empty slice, or a nil
segment that is dereferenced. In `Finish` the branches for a thread that is
RUNNING or RUNNABLE are absent because `prevStateMap` is written only by
`Init`, with the state -1 (`GetPrevState`).

`TracedThread` runs a thread through its life. Each step of the kernel takes one
tick of the clock, so stamps are distinct, and `truth` keeps what the thread did
in each moment between ticks. Records are inserted where their stamp belongs
(`Log`), which is what `sort.Sort` in `LoadSwitch` does; a record with the stamp
of another may come before or after it. Three facts of the kernel code matter:

- the wake-up probe sits at the entry of `try_to_wake_up`: the thread may be
  awake (`NeedlessWakeUp`), or on its way to sleep (`doing = "leaving"`), in which
  case the record precedes the switch it answers, or sleep on
  (`MisleadingWakeUp`, "failed");
- the assignments of the `do_exit` record (`trace_wperf_events.h:236`) leave the
  stamp out, so its value comes from `StaleStamps`;
- no thread is switched on a CPU that serves a softirq (`MaySwitch`).

The label of a wake-up from a softirq is taken to be right; `SoftirqContext` says
when it is.

### Cascade and TracedWaits

`Cascade` has an action for each round of the inner and of the outer loop of
`main` (`Call`, `NextPid`), the early return (`NotWaiting`), `addWeight` and the start of the search (`Waiting`), each round of
the loop of `findAllWaitingSegments` (`Find`), and the recursion (`Recurse`, a
stack of calls). `graph` has the weights under pairs of names, modulo `Word`.
`Returned` is the empty list, as in the code: the stack never grows, although
the model would go on with whatever was returned. `nth` and `pos` say where `main` is:
at which thread, and how far in its map. `pc = "crashed"` is the panic
of `Ceiling`, which converts a nil key.

What `Cascade` is given matters more than what it does, so `TracedWaits` makes
segments the way threads do: it runs them, lets them sleep and wake each other,
and writes down at each change what `BreakIntoSegments` would make of it
(`Changes`), the empty last segment included (`Empty`). An exit (`Exit`) is no
moment of its own, and its stamp is any of `Stamps`: before the trace, after it,
or within it, where it cuts the segment that begins at it to nothing (`Ended`). That
this is what `Segments` makes of a trace is what `traced_thread` checks, for one
thread. `TracedWaits` leaves out softirqs, so that a stretch on a CPU is always one
segment, and wake-ups that are recorded without effect.

### DiskUtils, TxStat and WperfModule

Threads are divided by the file they use. `call[t].at` is the place of a thread
in the handler; the steps are the accesses to what they share. So
`enable` is stored (`StoreEnable`) before the switch on it, which may read the
flag again (`Switched`); the table is emptied after the loop that zeroes the
times; `dnames[didx++]` reads the index, writes it and copies the name in
three steps; `dutils[idx] +=` and `bitmap_set` are a read and a write. `mutex` is
`event_mutex`, held where `filter_write_generic` and `DEF_READ_GENERIC` hold it,
and only looked at by `EnableWrite`, which takes and releases it before the
handler runs. `enable_jprobe` and `disable_jprobe` are atomic and may be
repeated (as in the kernel), and do not wait for handlers under way. A name that
is too long or not a number is `Bad`; the code does not compare a pid with the size
of the bitmap, and the pids of the model are in range. Nor does it compare `didx` with the
size of the table: a name for which there is no slot ends the model (`Overrun`), as
what it overwrites is up to the compiler and the linker. Times are represented by the set of disks
they were added for, bytes by the number of times a send was counted.

`WperfModule` instantiates both on one `mutex` and one run of init: the
probes are all armed when they have been registered (`RegisterJprobes`), and
disarmed before the files are created (`DisableProbes`), one after the other
(`CreateFile`); threads use a file as soon as it is there.

### SoftirqContext

Each CPU runs hard interrupts over softirqs over processes. `softirqs_nr` and
`softirq_btime` are the fields of `wperf_cpu_data`; `handler`, `serving` and
`since` are what the CPU really does. A kretprobe that was not registered
when the function was entered does not see its return: `registered` counts them
while init goes on.

### IoWorkers

The part of a run that `Recorder` leaves out: options, workers and children.
`children` has every process that was started; a handle has the pid of the
last one it was used for. libuv forbids a second `uv_spawn` on an active handle
and does not say what becomes of it; the model lets the exit of a child on such
a handle be reported or not (`Reported` has no fairness there).

### LockContention

One module for both programs, at the level of the pthread calls: a mutex whose
holder is chosen freely, a condition whose waiters may wake without a signal. Its
`Init`, `Next`, `Spec` and `TypeOK` are called `LockInit` and so on, since one module
of proofs extends it and `SoftirqContext`.

## 3. Runs

`copy_faults` (`EventPumpFaults.cfg`, 10 452 states). One instance, every request
may fail, expiry and restart at any moment. A buffer of 2 records and a ring of
3 are the smallest where a read is partial, a write is short in the middle and
the ring overruns while a read is under way; 6 records let one run meet
them one after the other and wrap the ring twice. Instances share no state but `expired`, so one is enough here
and the proofs cover the rest.
Properties: at most one request per context (`OneOutstanding`); every read gets
the whole buffer and every write what was read, once (`BufferDiscipline`);
accounted losses only (`NoSilentLoss`); no early close (`DrainedAtClose`);
refinement of `TraceCopy` (`CopySpec`).

`recorder_full` (`RecorderFull.cfg`, 440 116 states). Both instances and three of
the five events of `event.c`, two of one instance and one of the other, control
files that fail anywhere, returns of -1, instances that cannot be opened, SIGINT at
any time, restarts. The copy is kept small (one record) since `copy_faults` covers it.
Properties: `FilteredWhileEnabled`; `CleanReturn`, which is about runs whose
`uv_run` returns: one that ends with -1 leaves every event on, and the runs after it
begin with them; `OneStopper`; liveness: an
armed timer ends the recording (`RecordingEnds`), and a run the timer stopped
returns (`ExpiryReturns`).

`traced_thread` (`TracedThread.cfg`, 4 060 959 states up to symmetry). A thread on
two CPUs for six ticks: enough for two softirqs between a switch-in and a
switch-out, and for a wait between two stretches on different CPUs. Stale
stamps lie before or after the trace only; one within it may equal the start of a
segment, which it then empties. Between its first and its last switch,
every moment of the thread is in exactly one segment (`SegmentsPartition`),
the segment has the state the thread was in (`SegmentsAreTrue`; a moment a
softirq took may be told as RUNNING or RUNNABLE), the first softirq of a stretch
is told to the moment (`FirstSoftirqTold`), waits end at the wake-up and
name the waker (`WaitsNameWakers`), and the analyzer panics on an empty trace
and on one other, described trace only (`CrashesKnown`).

`disk_utils` (`DiskUtils.cfg`, 1 050 801 states). A thread for `enable`, two for
`filter`, one for `output`, a CPU with handlers, two disks, a table of two slots,
a list that fails, and one that is longer than the table. Two writers are what the
mutex is for; the second list is shorter than the first and overlaps it, so that
remains of the first would show. Properties: `EnabledMeansArmed`,
`StrayProbeHarmless`, `TableFromOneWrite`, `TimesBelong`, `OverrunByOneList`. The
last says that only a single list with too many names runs over the table: lists
do not add up, wherever `enable` sets the index back between two names of one. The first two are stated for one writer of `enable`: with two, one
may store 1, the other store 0 and switch off, and the first switch on last.
`StrayProbeHarmless` is what remains of exactness in the other direction: a
filter write that tests the flag just before it becomes 0 arms the probe after
it, over a table that is empty by then. `TimesBelong` holds for sessions that
do not overlap (`orderly`): the times are zeroed before a slot gets another disk. A
filter that is rewritten while `enable` says 1 passes the times of a slot on to
another disk, and a handler at work when the probe is switched off may add to
a slot that was zeroed: neither is caught, nor does any document forbid it.

`wperf_module` (`WperfModule.cfg`, 1 745 035 states). `tx_stat` with its five
probes, a thread per file, one pid and a list that fails half way; a send passes
two probed functions. Beside it a thread that writes `enable` of `disk_utils`,
which has a run of its own; here it is init, exit and the shared mutex that
matter. `EnabledMeansArmed` for both events while init goes on (for one writer of
each `enable`); `NothingBeforeEnable`, no byte is counted until somebody has begun to
write 1 to `enable` of `tx_stat` (`asked`): init arms the probes when it registers
them, and filters are written and outputs read while it goes on, which test the
flag and switch the probes too; and `DisabledCountsNothing`, though some probes may stay armed with
`enable` at 0.

`softirq_context` (`SoftirqContext.cfg`, 142 412 states). Two CPUs, two softirqs
with a probe and one without, six begins or ends of `__do_softirq`, and
the module loaded in between: `LabelTrue`, `SpanTrue`. On a CPU where no handler
with a probe has begun since the module was loaded, a wake-up in a softirq is
labelled 0, which is also the number of HI_SOFTIRQ; `MayName` describes that and
does not call it wrong.

`io_workers` (`IoWorkers.cfg`, 393 states). All four combinations of `-d` and `-n`,
which is all there is, and files and children that fail: `OwnProgram`,
`ClosedOnce`, and that a run ends when no handle was used twice (`RunEnds`).

`lock_contention` (`LockContention.cfg`, 318 states). The counter starts again at
3 instead of 10000, and two waits end without a signal. Deadlock is checked.
`NothingLost`; liveness: `WaiterWoken`, `ProducerRuns`. The converse of the
latter is false: C may keep B from the mutex for ever.

`traced_waits` (`TracedWaits.cfg`, 1 276 275 states). Two threads that are analysed,
a third that is not, seven switches and wake-ups: enough for a wait that overlaps
two waits of its waker, one of which began before it. The stamp of an exit is 0,
before the trace, or 4, which is within a trace that goes on beyond it and after
one that does not. `DirectWaitsCounted` says that the weight of two names is how many
moments the threads of the one have waited for those of the other, each moment of a
thread once, and that it may only be more where the wait of another thread overlaps
one of these: what a cascade would add, if it added anything. `CrashesKnown` describes
the panics of `Ceiling`: a waker that exited, with a stamp from before the end of the
wait, and that either was still on its way out when the trace ended or has no segment
told that begins after the stamp (the stamp has cut its last segment, or it has
none but its last switch). Liveness: `AnalysisEnds`.

Three runs end in a counterexample on purpose; each checks what a comment or a
document says.

| Run | Says | Does |
|---|---|---|
| `sigint_exit` | `recorder.c:37` "cleanup and exit" | `sig_cleanup` leaves its own handle active: `uv_run` never returns |
| `failed_wake_up` | `process.go:294` "blocked => runnable" | a wake-up that failed ends the wait and is named as the waker |
| `redistribution` | `README.md:10` "uses cascaded re-distribution", `process.go:361` "Find all waiting segments" | the segments that were found are not returned (:393), so no wait is passed on to the waits of its waker |

`redistribution` (`TracedRedistribution.cfg`) is `traced_waits` with the stamp 0 and
six switches and wake-ups. That the property asks for no more than the code
means to do can be seen by returning the list: with `Returned(list) == list`
`WaitsPassedOn` holds in all of its states, and `traced_waits` passes as well. It asks
for nothing where the waker has no segment at or before the start of the wait, for
there the search returns early (:366).

Three more places where the code does not do what it says, without a run: a
SIGINT that arrives while `sig_ignore` is installed (`recorder.c:26`, "Ignore sig")
is dispatched in `uv_run`, after `sig_cleanup` has replaced it, and stops the run
(`OnSignal` with an early `sigPending`); the message of `usage` (`main.c:75`) names
`-p`, which `getopt` (:42) does not know; of the time `BreakIntoSegments` is to
break into segments (`process.go:252`), that before the first switch of a thread and
after its last is in none, as `Init` overwrites the start (:165-170) and :311 reads
the state of before the loop again (`SegmentsPartition` is about the time between).

Not in a passing run, since the code as it is would fail, and not listed as a
disagreement, since no document says otherwise: a stale stamp equal to the
start of one of the thread's own segments empties that segment; a second
wake-up of a thread that was woken before its switch-out ends a wait that never
was (`WakeUpRaces = {"second"}`); with two writers of `enable`, the flag and
the probe may differ for good.

`CHECK_DEADLOCK FALSE` is set where the system stops: the analysis or a run of
the recorder has ended, an init has failed, a name has no slot in the table, or the
bounded clock has run out.

### Fairness

`Recorder!Fairness` has weak fairness on the loop thread's own steps, on the
timer and the signal becoming due, and per instance on the callbacks and on the
pool. A thread that can run does run; `uv_run` serves every due timer and every
finished request in each iteration, so no callback is passed over for ever; the
pool has four threads and at most one request per instance waits. There is no
fairness on the kernel producing records, on SIGINT, and on a restart: nothing
obliges them. In `IoWorkers` the loop thread runs, the timer becomes due, a child
that was sent SIGTERM ends (neither program ignores it), and libuv reports the
exit of a child on a handle that was used once. In `LockContention` every
thread is scheduled, with weak fairness only: nothing says that a mutex goes to
who has waited longest. In `TracedWaits` the analyzer runs on; the threads it
analyses owe nothing. The other modules state safety only.

## 4. Proofs

TLAPS checks the theorems of eight modules. Each holds for all values of the
constants that satisfy the named assumptions of its module (for `EventPump` and
`Recorder`: at least one record fits in the buffer and in the ring; the lists are
not empty and name every instance once).

`EventPumpProofs`. `OneOutstanding`, `BufferDiscipline`, `NoSilentLoss` and
`DrainedAtClose` are not inductive. `IInv` adds:
`ChainInv`, which phase of its chain an instance is in and what that says of its
request, timer and descriptors; `LengthInv`, the length in `iov` in each phase;
`OrderInv`, that the file is in log order and ends before the buffer, which ends
before the ring; `KeepInv`, where each record is; `DrainInv`, what was true of
the ring at the last read (what `DrainedAtClose` can promise: that read may be one
from before the expiry which found the ring empty, and what was recorded since stays
in the ring). `Invariance` proves `Spec => []IInv`, action by action,
and from it follow `TypeCorrect`, `OneOutstandingHolds`, `BufferDisciplineHolds`,
`NoSilentLossHolds` and `DrainedAtCloseHolds`. `CopyImplementsTraceCopy` proves
that the copy implements `TraceCopy` under `over <- {i : fdIn[i] = "closed"}`:
initial states map to initial states, a write that succeeds to `Copy`, a close
to `Finish`, and `OrderInv` is what makes the file grow in order.

`RecorderProofs`. `RInv` adds to the properties how far `write_debugfs` has come
(`ControlInv`), who stopped the run and what may stop it again (`StopInv`), that
a chain of callbacks with nothing under way has closed its files or failed
(`EndInv`), and which instances have been started (`StartInv`).
`RecorderInvariance` proves it inductive; `FilteredWhileEnabledHolds`,
`OneStopperHolds` and `CleanReturnHolds` follow, the last for returns of `uv_run` and
not those of -1. `RecorderImplementsPump` proves
`Spec => Pump!Spec`, and `CopyInsideRecorder` draws the conclusion: the
properties of the copy hold of each instance inside the recorder. `TypeCorrect`
gives the types of both.

`DiskUtilsProofs`. The assumptions are that a thread uses one file and that names
differ from what stands for no name; lists may have any length. `TableIInv` adds to `TypeOK` the place of
each thread (`Roles`), that a filter write or an output read holds the mutex
throughout (`MutexHeld`), what handlers at work have found (`HandlersInv`), and
how much of its list a filter write has put into the table (`FilterInv`): the
names before what is left of the list, in order, up to a slot that may be ahead of
`didx` because a write of 0 to `enable` empties the table without the mutex.
`TableInductive` proves it, and `TypeCorrect`, `OneWriteOnly` and
`OverrunOnlyByOneList` follow: as long as there is a slot for each name the index stays
within the table, and there is one for each name of a list that is no longer than the
table, since `FilterInv` says that the index is never ahead of what the holder of
the mutex has taken from its own list. `FlagInv` says of each state in which flag and probe
differ who is about to put it right: a write of `enable` that has not switched
yet, or the holder of the mutex that has still to test. It needs `OneEnabler`, and
gives `EnabledIsArmed` and `StrayIsHarmless`. `TimesInv` is about sessions that do
not overlap (`orderly`), again for one writer of `enable`: the times of a slot, and
what a handler is about to store there, are of the name in that slot; what
is not in use yet is clean while `enable` says 0, and as far as the loop that
zeroes the times has come. `TimesAreOwn` follows.

`WperfModuleProofs`. `disk_utils` needs no second proof. A step of the module that
concerns it is a step of `DiskUtils`, once the mutex is read as that module reads
it (`DiskMutex`: a holder from `tx_stat` is nobody it knows), so `TableIInv` and
`FlagInv` hold within the module by the lemmas of `DiskUtilsProofs`. For `tx_stat`
the counterparts of `FlagInv` speak of one probe at a time, as a switch arms or
disarms them one after the other. `TxArmInv`: whoever finds `enable` at 1 and a
probe off has somebody who will still arm it. `TxOffInv`: with `enable` at 0 a probe
is off when the writer of `enable` is past it and the holder of the mutex has not
come to it. `TxCleanInv`: after a write of 0 the filter is empty or no probe is
armed. From these come `EnabledIsArmed` and `DisabledIsQuiet`, an action property,
for one writer of each `enable` file (`OneDiskEnabler`, `OneTxEnabler`).
`QuietBeforeEnable` needs no such hypothesis: until 1 is written (`AskedInv`) `tx_enabled`
is 0 and nobody who tests it arms a probe, and the probes that init armed are off again
before there is a file to write the filter with. The module must have at least one
probe in `ProbeList`.

`TracedThreadProofs` is about `Segments` on the trace of any one thread: any
number of CPUs, softirqs, ticks, any stale stamps and, unless said otherwise,
wake-ups that mislead. One half relates the trace to the truth. `KernelInv` says what
each record of a switch or softirq tells of the thread since its switch before;
`WakeInv` does so for wake-ups, if none misleads (`NoRaces`). The other half relates
the analyzer to the trace. `PlaceInv` ties `prevStateMap` and the time in it to the
last record the analyzer noticed, and `HonestInv` says that each segment tells
the truth except the one at `First`, the stamp where `BreakIntoSegments` began: that
one stands for nothing, and is empty in the end. `PartInv` says that the segments
from the first switch on are laid end to end, up to the place of the analyzer.
The properties of the run follow, each under the hypothesis it needs and no other:

| Theorem | Hypothesis |
|---|---|
| `TypeCorrect`, `CrashesAreKnown`, `FirstSoftirqIsTold` | none |
| `SegmentsTellTheTruth`, `WaitsAreTheWakers` | `NoRaces`: no record of a wake-up that failed or came second |
| `SegmentsArePartition` | `StaleOutside`: no stale stamp of an exit lies within the trace |

Neither hypothesis can go: `failed_wake_up` is the counterexample without the first,
and with `StaleStamps = {2, 3}` TLC finds one without the second (a segment that
starts at the stamp is emptied). The code guarantees neither, so they are the
conditions under which the output of the analyzer can be relied on.

`TracedWaitsProofs` is about `Cascade` on the segments of any list of threads, with
any names, wakers and stamps of exits, and a trace of any length. `KernelInv` says
what the segments are before the analysis begins: each ends where the next begins or
where its thread changed last (`ToldInv`), and a wait that an analysed thread ended
was ended by a thread on a CPU (`WakerInv`, `WasRunning`). To these the load adds for each
thread one segment that is empty, at the end of the trace, which is after all switches
and stamps (`EndIs`), or at the stamp of its exit, where it may be one of the thread's own
that was cut (`Segments`); segments that are not empty stay apart (`SegmentsApart`).
`WalkInv` says where `main` is: the segment `Cascade` was called for is the one before
`pos` in the map of the `nth` thread. `FindInv` says that the search is at a segment of the
waker. `CrashesAreKnown` follows with no hypothesis: a waker that ran at the end of the
wait has a segment that reaches to it, or had not been switched out when the trace
ended, unless a stamp has cut that segment (`GivesUp`, when there is no next segment).
`AnalysisAdvances` is an action property from the same invariant: each step goes
forward, from thread to thread, from start to start, and in a search from a segment of
the waker to a later one. As maps are finite, that is the safety half of `AnalysisEnds`.
`GraphInv` says that the graph has the waits of the segments `main` has come past
(`Counted`). It holds because segments do not overlap, so that one more adds its whole
length (`TimeGrows`). `DirectWaitsAreCounted` is the property of the run;
`GraphIsTheWaits` says how far the code is from its README: on no trace is anything passed
on. Both have two hypotheses: `PidsOnce`, no thread is listed twice (`recorder.py` lists
ksoftirqds, kworkers and the threads of one process; of a thread given twice each wait
would count twice), and `NoWrap`, the time of all threads together is less than the
2^64 of a weight.

`SoftirqAndLockProofs`. For `SoftirqContext`, `IInv` ties the per-CPU data to what the
CPU does: the number to the handler that was seen to begin (`NumberMeansHandler`), the
begin time to the `__do_softirq` that was seen (`TimeKept`). `TypeCorrect`,
`LabelsAreTrue` and `SpansAreTrue` follow; `LabelsAreTrue` allows the label 0 on a CPU
where no handler with a probe has begun yet (`MayName`). For `LockContention`, `LockInv` adds to the
properties who holds the mutex in each place of either thread, and that the counter is
zero while C works. `LockTypeCorrect` (the counter never passes zero, for any
number of spurious wake-ups) and `NoWakeUpLost` follow.

`IoWorkersProofs`. The command lines may be any, and so may the faults: nothing
is assumed. `WInv` counts workers and children up to each place of the run
(`CountInv`), says that a worker holds the list of its own type and the
program that goes with it (`ArgvInv`, `ArgsInv`), and how a handle, its last child
and the output agree (`HandleInv`). `TypeCorrect` (two workers and four children
at most), `ProgramIsOwn` and `OutputClosedOnce` follow.

Every invariant and every action property of the passing runs is a theorem, and so is
the refinement. Only model-checked are the liveness properties `RecordingEnds`,
`ExpiryReturns`, `RunEnds`, `WaiterWoken`, `ProducerRuns` and `AnalysisEnds` (fairness
and ENABLED are out of the prover's reach), and the three disagreements, which are
counterexamples.

## 5. Not modelled

JSON, text processing, file names, and printing are left out: no property is about
them. Of the scripts, only that `recorder.py` empties the output directory
before each run is part of a model (`EventPump!NewRun`). The vendored containers
are represented by what the code uses of them, a sorted map. The probes of
`futex_wait_queue_me`, `do_futex`, `journal_end_buffer_io_sync` and `__lock_sock`
write a record each, which the recorder does not switch on and the analyzer does
not read. In `Recorder`, the steps that may end the process are those on
directories and control files, the allocations of `record_events` and the start of
the workers; assertions on libuv's init calls are left out.
Buffer contents are whole records: the kernel returns whole lines from
`trace_pipe`. Allocations that fail in the control files return before anything is
changed. What becomes of a freed module whose probes are still registered, or
of a thread inside a control file of a module that is being removed, is up to the
kernel. `wait_lock` in the examples is left out: A alone uses it, and waits
the first time without holding it.

## 6. Plan

1. `TracedWaits` on `Segments` itself instead of on what `Segments` is known to
   make, with stale wake-ups between the threads.
2. `Recorder` with the children of `IoWorkers` as further handles of its loop.
