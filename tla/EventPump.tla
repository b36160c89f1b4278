------------------------------ MODULE EventPump ------------------------------
(***************************************************************************)
(* recorder/event.c: the chain of libuv callbacks that copies the          *)
(* trace_pipe of each trace instance ("switch", "softirq") to its output   *)
(* file.                                                                   *)
(*                                                                         *)
(* Three actors interleave.  The kernel appends records to the ring buffer *)
(* of an instance.  The threads of libuv's pool perform the file requests  *)
(* that were submitted with a callback.  The loop thread runs the          *)
(* callbacks on_open, on_read, on_write and on_retry, one at a time, and   *)
(* each of them submits the next request.  The thread that performs a read *)
(* and the callback that looks at its result run at different times, so    *)
(* `expired' can change in between.                                        *)
(*                                                                         *)
(* Records are numbered 1, 2, 3 ... in the order the kernel produced them. *)
(* The ring buffer always holds a consecutive stretch of them, and so does *)
(* event->iov, the 4096-byte buffer.                                       *)
(***************************************************************************)
EXTENDS Integers, Sequences, Functions

CONSTANTS
  Instances,            \* the trace instances
  BufRecords,           \* how many records fit in the 4096 bytes of event->iov
  RingRecords,          \* how many records fit in the ring buffer of an instance
  MaxRecords,           \* bound: records produced per instance
  Faults                \* which requests may fail, a part of FaultKinds

FaultKinds == {"open", "read", "write", "short"}

ASSUME BufAssumption     == BufRecords \in Nat \ {0}
ASSUME RingAssumption    == RingRecords \in Nat \ {0}
ASSUME RecordsAssumption == MaxRecords \in Nat
ASSUME FaultsAssumption  == Faults \subseteq FaultKinds

VARIABLES
  produced,             \* records the kernel has produced so far
  head,                 \* records that have left the ring buffer
  lo, hi,               \* event->iov holds the records lo+1 .. hi
  iovLen,               \* event->iov.len, in records
  file,                 \* the output file, record by record
  reqs,                 \* submitted requests and their results, event->req
  retry,                \* event->retry_handler is started
  fdIn, fdOut,          \* event->fd[0] and event->fd[1]
  expired               \* recorder->expired

(***************************************************************************)
(* History of the run, read by the properties only.                        *)
(***************************************************************************)
VARIABLES
  base,                 \* records that had left the ring when the run began
  lost,                 \* records overwritten in the ring, or not written by a
                        \* write that was short or failed
  lastRead,             \* `produced' when the latest read was performed
  failed                \* instances with a request that reported an error

kernelVars  == <<produced, head>>
iovVars     == <<lo, hi, iovLen>>
fdVars      == <<fdIn, fdOut>>
historyVars == <<base, lost, lastRead, failed>>
vars == <<kernelVars, iovVars, file, reqs, retry, fdVars, expired, historyVars>>

Ring(i)    == head[i] + 1 .. produced[i]
Iov(i)     == lo[i] + 1 .. hi[i]
Written(i) == Range(file[i])

(* The n records that follow record l. *)
Stretch(l, n) == [m \in 1 .. n |-> l + m]

Ops     == {"open", "read", "write"}
Results == {"queued", "ok", "short", "eagain", "error"}
Files   == Seq(Nat)
FdState == {"none", "open", "error", "closed"}

Request(op, res) == [op |-> op, res |-> res]

TypeOK ==
  /\ produced \in [Instances -> Nat]
  /\ head \in [Instances -> Nat]
  /\ lo \in [Instances -> Nat]
  /\ hi \in [Instances -> Nat]
  /\ iovLen \in [Instances -> Nat]
  /\ file \in [Instances -> Files]
  /\ reqs \in [Instances -> SUBSET [op : Ops, res : Results]]
  /\ retry \in [Instances -> BOOLEAN]
  /\ fdIn \in [Instances -> FdState]
  /\ fdOut \in [Instances -> FdState]
  /\ expired \in BOOLEAN
  /\ base \in [Instances -> Nat]
  /\ lost \in [Instances -> SUBSET Nat]
  /\ lastRead \in [Instances -> Nat]
  /\ failed \subseteq Instances

(* What init_event_ctx gives a context before record_events opens its files. *)
FreshContexts(reqs_, retry_, lo_, hi_, iovLen_, fdIn_, fdOut_, expired_) ==
  /\ reqs_   = [i \in Instances |-> {}]
  /\ retry_  = [i \in Instances |-> FALSE]
  /\ lo_     = [i \in Instances |-> 0]
  /\ hi_     = [i \in Instances |-> 0]
  /\ iovLen_ = [i \in Instances |-> BufRecords]
  /\ fdIn_   = [i \in Instances |-> "none"]
  /\ fdOut_  = [i \in Instances |-> "none"]
  /\ expired_ = FALSE

Init ==
  /\ FreshContexts(reqs, retry, lo, hi, iovLen, fdIn, fdOut, expired)
  /\ produced = [i \in Instances |-> 0]
  /\ head     = [i \in Instances |-> 0]
  /\ file     = [i \in Instances |-> <<>>]
  /\ base     = [i \in Instances |-> 0]
  /\ lost     = [i \in Instances |-> {}]
  /\ lastRead = [i \in Instances |-> 0]
  /\ failed   = {}

-----------------------------------------------------------------------------
(* The kernel: an enabled event of instance i fires.  A full ring buffer   *)
(* drops its oldest record to make room.                                   *)

Produce(i) ==
  LET full == produced[i] - head[i] >= RingRecords IN
  /\ produced[i] < MaxRecords
  /\ produced' = [produced EXCEPT ![i] = @ + 1]
  /\ head' = IF full THEN [head EXCEPT ![i] = @ + 1] ELSE head
  /\ lost' = IF full THEN [lost EXCEPT ![i] = @ \cup {head[i] + 1}] ELSE lost
  /\ UNCHANGED <<iovVars, file, reqs, retry, fdVars, expired,
                 base, lastRead, failed>>

-----------------------------------------------------------------------------
(* libuv: submitting a request, and a pool thread performing it.           *)

Submit(i, op)     == reqs' = [reqs EXCEPT ![i] = @ \cup {Request(op, "queued")}]
Answer(i, op, res) ==
  /\ Request(op, "queued") \in reqs[i]
  /\ reqs' = [reqs EXCEPT ![i] = (@ \ {Request(op, "queued")}) \cup {Request(op, res)}]

PerformOpen(i, res) ==
  /\ res \in {"ok"} \cup (IF "open" \in Faults THEN {"error"} ELSE {})
  /\ Answer(i, "open", res)
  /\ UNCHANGED <<kernelVars, iovVars, file, retry, fdVars, expired, historyVars>>

(* A read of trace_pipe takes the oldest records, as many whole ones as    *)
(* the caller's buffer admits; O_NONBLOCK makes it fail with EAGAIN when   *)
(* there are none.                                                         *)
PerformReadData(i, n) ==
  /\ n \in 1 .. iovLen[i]
  /\ n <= produced[i] - head[i]
  /\ Answer(i, "read", "ok")
  /\ lo' = [lo EXCEPT ![i] = head[i]]
  /\ hi' = [hi EXCEPT ![i] = head[i] + n]
  /\ head' = [head EXCEPT ![i] = @ + n]
  /\ lastRead' = [lastRead EXCEPT ![i] = produced[i]]
  /\ UNCHANGED <<produced, iovLen, file, retry, fdVars, expired, base, lost, failed>>

PerformReadNothing(i, res) ==
  /\ \/ res = "eagain" /\ Ring(i) = {}
     \/ res = "error" /\ "read" \in Faults
  /\ Answer(i, "read", res)
  /\ lastRead' = [lastRead EXCEPT ![i] = produced[i]]
  /\ UNCHANGED <<kernelVars, iovVars, file, retry, fdVars, expired, base, lost, failed>>

(* The first n records of the buffer reach the file.  Less than iov.len is *)
(* a short write; a write to a descriptor that did not open fails.         *)
PerformWrite(i, n, res) ==
  LET written == Stretch(lo[i], n) IN
  /\ \/ res = "ok" /\ n = iovLen[i] /\ fdOut[i] = "open"
     \/ res = "short" /\ n \in 1 .. iovLen[i] - 1 /\ fdOut[i] = "open" /\ "short" \in Faults
     \/ res = "error" /\ n = 0 /\ (fdOut[i] # "open" \/ "write" \in Faults)
  /\ Answer(i, "write", res)
  /\ file' = [file EXCEPT ![i] = @ \o written]
  /\ lost' = [lost EXCEPT ![i] = @ \cup (Iov(i) \ Range(written))]
  /\ UNCHANGED <<kernelVars, iovVars, retry, fdVars, expired, base, lastRead, failed>>

-----------------------------------------------------------------------------
(* The loop thread.                                                        *)

(* The result `res' of request `op' is handed to its callback. *)
Deliver(i, op, res) == res # "queued" /\ Request(op, res) \in reqs[i]

Consume(i, op, res) == reqs' = [reqs EXCEPT ![i] = @ \ {Request(op, res)}]

(* The callback ends by submitting `next'. *)
ConsumeAndSubmit(i, op, res, next) ==
  reqs' = [reqs EXCEPT ![i] = (@ \ {Request(op, res)}) \cup {Request(next, "queued")}]

(* record_events for one instance: the output is opened synchronously and  *)
(* its result is not looked at, the input is opened with a callback.       *)
RecordEvents(i, out) ==
  /\ out \in {"open"} \cup (IF "open" \in Faults THEN {"error"} ELSE {})
  /\ fdOut[i] = "none"
  /\ fdOut' = [fdOut EXCEPT ![i] = out]
  /\ Submit(i, "open")
  /\ UNCHANGED <<kernelVars, iovVars, file, retry, fdIn, expired, historyVars>>

OnOpen(i, res) ==
  /\ Deliver(i, "open", res)
  /\ \/ /\ res = "error"
        /\ Consume(i, "open", res)
        /\ failed' = failed \cup {i}
        /\ UNCHANGED fdIn
     \/ /\ res # "error"
        /\ fdIn' = [fdIn EXCEPT ![i] = "open"]
        /\ ConsumeAndSubmit(i, "open", res, "read")
        /\ UNCHANGED failed
  /\ UNCHANGED <<kernelVars, iovVars, file, retry, fdOut, expired, base, lost, lastRead>>

(* cleanup(event): both descriptors are closed and no request follows. *)
CloseFiles(i) ==
  /\ fdIn'  = [fdIn EXCEPT ![i] = "closed"]
  /\ fdOut' = [fdOut EXCEPT ![i] = "closed"]

(* Slip: the expiry ends the copy at once. *)
StopsReadingAtOnce(res) == expired \/ res \notin {"ok", "eagain"}

(* `expired' is looked at only when the read brought no data. *)
StopsReading(res) == res \notin {"ok"} /\ (expired \/ res # "eagain")

(* Slip: a buffer that is not full is read into again instead of written. *)
GatherFirst(i) ==
  IF hi[i] - lo[i] < BufRecords
    THEN ConsumeAndSubmit(i, "read", "ok", "read") /\ UNCHANGED iovLen
    ELSE /\ iovLen' = [iovLen EXCEPT ![i] = hi[i] - lo[i]]
         /\ ConsumeAndSubmit(i, "read", "ok", "write")

(* Slip: the length is computed the wrong way round. *)
WriteOutSwapped(i) ==
  /\ iovLen' = [iovLen EXCEPT ![i] = lo[i] - hi[i]]
  /\ ConsumeAndSubmit(i, "read", "ok", "write")

(* What was read is handed to a write of just that length. *)
WriteOut(i) ==
  /\ iovLen' = [iovLen EXCEPT ![i] = hi[i] - lo[i]]
  /\ ConsumeAndSubmit(i, "read", "ok", "write")

OnRead(i, res) ==
  /\ Deliver(i, "read", res)
  /\ \/ /\ StopsReading(res)
        /\ CloseFiles(i)
        /\ Consume(i, "read", res)
        /\ failed' = IF res = "error" THEN failed \cup {i} ELSE failed
        /\ UNCHANGED <<iovLen, retry>>
     \/ /\ res = "eagain" /\ ~StopsReading(res)
        /\ Consume(i, "read", res)
        /\ retry' = [retry EXCEPT ![i] = TRUE]
        /\ UNCHANGED <<iovLen, fdVars, failed>>
     \/ /\ res = "ok" /\ ~StopsReading(res)
        /\ WriteOut(i)
        /\ UNCHANGED <<retry, fdVars, failed>>
  /\ UNCHANGED <<kernelVars, lo, hi, file, expired, base, lost, lastRead>>

(* Slip: the length is not restored after the write. *)
ReadOnUnrestored(i, res) == ConsumeAndSubmit(i, "write", res, "read") /\ UNCHANGED iovLen

(* Slip: a short write is repeated from the start of the buffer. *)
WriteAgain(i, res) ==
  IF res = "short"
    THEN ConsumeAndSubmit(i, "write", res, "write") /\ UNCHANGED iovLen
    ELSE /\ iovLen' = [iovLen EXCEPT ![i] = BufRecords]
         /\ ConsumeAndSubmit(i, "write", res, "read")

(* A short write is a positive result: on_write goes on to the next read. *)
ReadOn(i, res) ==
  /\ iovLen' = [iovLen EXCEPT ![i] = BufRecords]
  /\ ConsumeAndSubmit(i, "write", res, "read")

OnWrite(i, res) ==
  /\ Deliver(i, "write", res)
  /\ \/ /\ res = "error"
        /\ CloseFiles(i)
        /\ Consume(i, "write", res)
        /\ failed' = failed \cup {i}
        /\ UNCHANGED iovLen
     \/ /\ res # "error"
        /\ ReadOn(i, res)
        /\ UNCHANGED <<fdVars, failed>>
  /\ UNCHANGED <<kernelVars, lo, hi, file, retry, expired, base, lost, lastRead>>

(* Slip: the retry timer repeats. *)
OnRetryRepeats(i) ==
  /\ retry[i]
  /\ Submit(i, "read")
  /\ UNCHANGED <<kernelVars, iovVars, file, retry, fdVars, expired, historyVars>>

(* The retry timer fires once, a millisecond after it was started. *)
OnRetry(i) ==
  /\ retry[i]
  /\ retry' = [retry EXCEPT ![i] = FALSE]
  /\ Submit(i, "read")
  /\ UNCHANGED <<kernelVars, iovVars, file, fdVars, expired, historyVars>>

-----------------------------------------------------------------------------
(* The rest of the recorder, as the copy sees it.                          *)

(* cleanup(recorder) sets the flag. *)
Expire ==
  /\ expired' = TRUE
  /\ UNCHANGED <<kernelVars, iovVars, file, reqs, retry, fdVars, historyVars>>

(* The process is gone, for whatever reason, and scripts/recorder.py starts *)
(* another one on an emptied output directory.  The ring buffers stay.      *)
NewRun ==
  /\ FreshContexts(reqs', retry', lo', hi', iovLen', fdIn', fdOut', expired')
  /\ file'     = [i \in Instances |-> <<>>]
  /\ base'     = head
  /\ lost'     = [i \in Instances |-> {}]
  /\ lastRead' = [i \in Instances |-> 0]
  /\ failed'   = {}
  /\ UNCHANGED kernelVars

(* The steps of the pool and of the callbacks. *)
PoolStep(i) ==
  \/ \E res \in Results : PerformOpen(i, res) \/ PerformReadNothing(i, res)
  \/ \E n \in 0 .. BufRecords :
       PerformReadData(i, n) \/ \E res \in Results : PerformWrite(i, n, res)

Callback(i) ==
  \/ \E res \in Results : OnOpen(i, res) \/ OnRead(i, res) \/ OnWrite(i, res)
  \/ OnRetry(i)

Next ==
  \/ \E i \in Instances :
       \/ Produce(i)
       \/ PoolStep(i)
       \/ Callback(i)
       \/ \E out \in {"open", "error"} : RecordEvents(i, out)
  \/ Expire
  \/ NewRun

Spec == Init /\ [][Next]_vars

-----------------------------------------------------------------------------
(* Properties.                                                             *)

(* An event_ctx has one union `req' and one retry timer, shared by the     *)
(* whole chain of callbacks, so never two of them may be under way: at     *)
(* most one request is submitted, none while the retry timer runs, none on *)
(* a descriptor that is closed.                                            *)
OneOutstanding ==
  \A i \in Instances :
    /\ \A r, s \in reqs[i] : r = s
    /\ retry[i] => reqs[i] = {}
    /\ fdIn[i] = "closed" => reqs[i] = {} /\ ~retry[i]
    /\ fdIn[i] # "open" => \A r \in reqs[i] : r.op = "open"

(* on_read shrinks event->iov.len to what was read and on_write restores   *)
(* it: every read is submitted with the whole 4096 bytes, and every write  *)
(* with exactly the records of the read before it, none of which has been  *)
(* written yet.                                                            *)
BufferDiscipline ==
  \A i \in Instances :
    /\ (retry[i] \/ Request("read", "queued") \in reqs[i]) => iovLen[i] = BufRecords
    /\ Request("write", "queued") \in reqs[i] =>
         /\ iovLen[i] = hi[i] - lo[i]
         /\ Iov(i) # {}
         /\ Iov(i) \cap Written(i) = {}

(* Every record the run could see is in the file, in the buffer or still   *)
(* in the ring, unless the ring overwrote it or a write left it out: the   *)
(* callbacks themselves lose nothing between a read and a write.           *)
NoSilentLoss ==
  \A i \in Instances :
    base[i] + 1 .. produced[i] \subseteq Written(i) \cup Iov(i) \cup Ring(i) \cup lost[i]

(* The expiry does not cut the copy short: when a context is closed with no *)
(* error, the recorder had expired, what the buffer held is in the file,    *)
(* and everything still in the ring was produced after the last read.       *)
DrainedAtClose ==
  \A i \in Instances :
    fdIn[i] = "closed" /\ i \notin failed =>
      /\ expired
      /\ Iov(i) \subseteq Written(i) \cup lost[i]
      /\ head[i] >= lastRead[i]

(* The copy implements what TraceCopy promises; it is over once the files  *)
(* of an instance are closed.                                              *)
Copied == INSTANCE TraceCopy
            WITH over <- {i \in Instances : fdIn[i] = "closed"}
CopySpec == Copied!Spec

=============================================================================
