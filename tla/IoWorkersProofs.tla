---------------------------- MODULE IoWorkersProofs ----------------------------
(***************************************************************************)
(* IoWorkers for every set of command lines and of faults.                 *)
(***************************************************************************)
EXTENDS IoWorkers, SequenceTheorems, TLAPS

ChildType == [worker : 1 .. 2, program : {"iostat", "ifstat"},
              state : {"runs", "told", "exited", "reaped"}]
Parsing == {"parse", "usage", "args", "disk"}

WorkerCount == Len(workers)
ChildCount == Len(children)

Typed ==
  /\ pc \in {"parse", "usage", "args", "disk", "nic", "enable", "record", "loop", "failed",
            "returned"}
  /\ lists \subseteq {"disk", "nic"}
  /\ argv \in [{"disk", "nic"} -> {"iostat", "ifstat", "none"}]
  /\ workers \in Seq(Worker) /\ WorkerCount <= 2
  /\ children \in Seq(ChildType) /\ ChildCount <= 4
  /\ enabled \in BOOLEAN /\ expired \in BOOLEAN /\ k \in 0 .. 2

(* How many workers and children there are at most.                        *)
CountInv ==
  /\ pc \in Parsing => WorkerCount = 0
  /\ pc = "nic" => WorkerCount <= 1
  /\ pc \in Parsing \cup {"nic", "enable"} => ChildCount <= WorkerCount
  /\ pc = "record" => k <= WorkerCount /\ ChildCount + k <= 2 * WorkerCount
  /\ ChildCount <= 2 * WorkerCount

(* Every argument list that is given is that of its type.                  *)
ArgvInv == pc \in {"disk", "nic"} => \A t \in lists : argv[t] = Program[t]

(* A worker has the arguments of its type, whatever its number, and its    *)
(* children run them.                                                      *)
ArgsInv ==
  /\ \A w \in 1 .. WorkerCount : workers[w].args = Program[workers[w].type]
  /\ \A c \in 1 .. ChildCount :
       /\ children[c].worker <= WorkerCount
       /\ children[c].program = workers[children[c].worker].args

(* A handle that is in use has the pid of a child; one that is closed was  *)
(* closed once, in the event loop, for a child that had been reaped.       *)
HandleInv ==
  \A w \in 1 .. WorkerCount :
    /\ workers[w].closes = (IF workers[w].handle = "closed" THEN 1 ELSE 0)
    /\ workers[w].handle # "unused" => workers[w].pid \in 1 .. ChildCount
    /\ workers[w].handle = "closed" =>
         /\ pc \in {"loop", "returned"}
         /\ children[workers[w].pid].state = "reaped"

WInv == Typed /\ CountInv /\ ArgvInv /\ ArgsInv /\ HandleInv

-----------------------------------------------------------------------------
LEMMA TypedIs == TypeOK <=> Typed
  BY Zenon DEF TypeOK, Typed, ChildType, WorkerCount, ChildCount

(* Workers and children are sequences of records.                          *)
LEMMA Records ==
  ASSUME Typed
  PROVE  /\ WorkerCount \in 0 .. 2 /\ ChildCount \in 0 .. 4
         /\ \A w \in 1 .. WorkerCount : workers[w] \in Worker
         /\ \A c \in 1 .. ChildCount : children[c] \in ChildType
  <1>1. WorkerCount \in Nat /\ ChildCount \in Nat
    BY LenProperties DEF Typed, WorkerCount, ChildCount
  <1>2. \A w \in 1 .. WorkerCount : workers[w] \in Worker
    BY ElementOfSeq DEF Typed, WorkerCount
  <1>3. \A c \in 1 .. ChildCount : children[c] \in ChildType
    BY ElementOfSeq DEF Typed, ChildCount
  <1> QED BY <1>1, <1>2, <1>3 DEF Typed

LEMMA Counts ==
  /\ workers' = workers => WorkerCount' = WorkerCount
  /\ children' = children => ChildCount' = ChildCount
  BY DEF WorkerCount, ChildCount

(* A worker or a child that is added, or changed.                          *)
LEMMA AddWorker ==
  ASSUME workers \in Seq(Worker), NEW r \in Worker, workers' = Append(workers, r)
  PROVE  /\ workers' \in Seq(Worker) /\ WorkerCount' = WorkerCount + 1
         /\ \A w \in 1 .. WorkerCount : workers'[w] = workers[w]
         /\ workers'[WorkerCount + 1] = r
  BY AppendProperties DEF WorkerCount

LEMMA ChangeWorker ==
  ASSUME workers \in Seq(Worker), NEW w \in 1 .. WorkerCount, NEW r \in Worker,
         workers' = [workers EXCEPT ![w] = r]
  PROVE  /\ workers' \in Seq(Worker) /\ WorkerCount' = WorkerCount
         /\ \A v \in 1 .. WorkerCount : workers'[v] = IF v = w THEN r ELSE workers[v]
  BY ExceptSeq DEF WorkerCount

LEMMA AddChild ==
  ASSUME children \in Seq(ChildType), NEW r \in ChildType, children' = Append(children, r)
  PROVE  /\ children' \in Seq(ChildType) /\ ChildCount' = ChildCount + 1
         /\ \A c \in 1 .. ChildCount : children'[c] = children[c]
         /\ children'[ChildCount + 1] = r
  BY AppendProperties DEF ChildCount

LEMMA ChangeChild ==
  ASSUME children \in Seq(ChildType), NEW c \in 1 .. ChildCount, NEW r \in ChildType,
         children' = [children EXCEPT ![c] = r]
  PROVE  /\ children' \in Seq(ChildType) /\ ChildCount' = ChildCount
         /\ \A d \in 1 .. ChildCount : children'[d] = IF d = c THEN r ELSE children[d]
  BY ExceptSeq DEF ChildCount

LEMMA InitWorkers == Init => WInv
  <1> SUFFICES ASSUME Init PROVE WInv
    OBVIOUS
  <1>1. /\ workers \in Seq(Worker) /\ WorkerCount = 0
        /\ children \in Seq(ChildType) /\ ChildCount = 0
    BY EmptySeq DEF Init, WorkerCount, ChildCount
  <1>2. argv \in [{"disk", "nic"} -> {"iostat", "ifstat", "none"}]
    BY DEF Init
  <1>3. Typed
    <2>1. enabled \in BOOLEAN /\ expired \in BOOLEAN
      BY Zenon DEF Init
    <2>2. k \in 0 .. 2 /\ WorkerCount <= 2 /\ ChildCount <= 4
      BY <1>1 DEF Init
    <2>3. lists \subseteq {"disk", "nic"} /\ pc = "parse"
      BY DEF Init
    <2> QED BY <1>1, <1>2, <2>1, <2>2, <2>3, Zenon DEF Typed
  <1> QED BY <1>1, <1>3 DEF Init, WInv, CountInv, ArgvInv, ArgsInv, HandleInv

(* Steps that start no child and close no file.                            *)
LEMMA NoWorkerChanges ==
  ASSUME ArgsInv, HandleInv, UNCHANGED <<workers, children>>,
         pc \in {"loop", "returned"} => pc' \in {"loop", "returned"}
  PROVE  ArgsInv' /\ HandleInv'
  BY Counts DEF ArgsInv, HandleInv

LEMMA ParseKeeps == WInv /\ (ParseOption \/ ParseEnd \/ BuildArgs) => WInv'
  <1> SUFFICES ASSUME WInv, ParseOption \/ ParseEnd \/ BuildArgs PROVE WInv'
    OBVIOUS
  <1>1. /\ UNCHANGED <<workers, children, k, enabled, expired>>
        /\ pc \in Parsing \ {"disk"} /\ pc' \in Parsing
    BY DEF ParseOption, ParseEnd, BuildArgs, Parsing
  <1>2. lists' \subseteq {"disk", "nic"}
    BY DEF ParseOption, ParseEnd, BuildArgs, WInv, Typed, config
  <1>3. /\ argv' \in [{"disk", "nic"} -> {"iostat", "ifstat", "none"}]
        /\ ArgvInv'
    BY <1>2 DEF ParseOption, ParseEnd, BuildArgs, WInv, Typed, ArgvInv, Program, config
  <1>4. Typed' /\ CountInv'
    BY <1>1, <1>2, <1>3, Counts DEF WInv, Typed, CountInv, Parsing
  <1> QED BY <1>1, <1>3, <1>4, NoWorkerChanges DEF WInv, Parsing

LEMMA PassKeeps ==
  ASSUME WInv, NEW t \in {"disk", "nic"}, SkipWorker(t) \/ OpenFails(t)
  PROVE  WInv'
  <1>1. /\ UNCHANGED <<lists, argv, workers, children, k, enabled, expired>>
        /\ pc = t /\ pc' \in {"failed", After(t)}
        /\ After(t) \in {"nic", "enable"} /\ (After(t) = "nic" => t = "disk")
    BY DEF SkipWorker, OpenFails, After, config
  <1>2. Typed'
    BY <1>1, Counts DEF WInv, Typed
  <1>3. CountInv' /\ ArgvInv'
    BY <1>1, Counts, Records DEF WInv, CountInv, ArgvInv, Parsing
  <1> QED BY <1>1, <1>2, <1>3, NoWorkerChanges DEF WInv

(* What uv_spawn makes of a worker, and the first one of a new worker.     *)
OnHandle(r, pid) ==
  [r EXCEPT !.pid = pid, !.handle = IF @ = "unused" THEN "active" ELSE "reused"]

LEMMA FirstSpawn ==
  ASSUME NEW t, NEW a, NEW p,
         NEW r, r = [type |-> t, args |-> a, handle |-> "unused", pid |-> 0, closes |-> 0]
  PROVE  OnHandle(r, p) = [type |-> t, args |-> a, handle |-> "active", pid |-> p, closes |-> 0]
  <1> DEFINE of(h, q) == [type : {t}, args : {a}, handle : {h}, pid : {q}, closes : {0}]
  <1>1. r \in of("unused", 0)
    OBVIOUS
  <1>2. OnHandle(r, p) \in of("active", p)
    BY <1>1 DEF OnHandle
  <1> QED BY <1>2

LEMMA SetupKeeps ==
  ASSUME WInv, NEW t \in {"disk", "nic"}, SetupWorker(t)
  PROVE  WInv'
  <1> DEFINE new(handle, pid) ==
               [type |-> t, args |-> argv[t], handle |-> handle, pid |-> pid, closes |-> 0]
             child == Child(WorkerCount + 1, argv[t])
  <1>1. /\ pc = t /\ t \in lists /\ pc' = After(t)
        /\ argv[t] = Program[t] /\ argv[t] \in {"iostat", "ifstat"}
        /\ UNCHANGED <<lists, argv, enabled, expired, k>>
        /\ After(t) \in {"nic", "enable"} /\ (After(t) = "nic" => t = "disk")
    BY DEF SetupWorker, WInv, ArgvInv, Program, After, config
  <1>2. /\ WorkerCount \in 0 .. 1 /\ ChildCount \in 0 .. WorkerCount
        /\ t = "disk" => WorkerCount = 0
    BY <1>1, Records DEF WInv, CountInv, Parsing
  <1>3. /\ new("unused", 0) \in Worker /\ new("active", ChildCount + 1) \in Worker
        /\ child \in ChildType
    <2>1. ChildCount + 1 \in 0 .. 4 /\ WorkerCount + 1 \in 1 .. 2
      BY <1>2
    <2> QED BY <1>1, <2>1 DEF Worker, Child, ChildType
  <1>4. workers \in Seq(Worker) /\ children \in Seq(ChildType)
    BY DEF WInv, Typed
  <1>5. ASSUME NEW handle, NEW pid,
               workers' \in Seq(Worker), WorkerCount' = WorkerCount + 1,
               \A w \in 1 .. WorkerCount : workers'[w] = workers[w],
               workers'[WorkerCount + 1] = new(handle, pid),
               \/ /\ handle = "active" /\ pid = ChildCount + 1
                  /\ children' = Append(children, child)
               \/ handle = "unused" /\ pid = 0 /\ children' = children
        PROVE  WInv'
    <2>1. /\ children' \in Seq(ChildType)
          /\ \A c \in 1 .. ChildCount : children'[c] = children[c]
          /\ \/ /\ handle = "active" /\ pid = ChildCount + 1 /\ ChildCount' = ChildCount + 1
                /\ children'[ChildCount + 1] = child
             \/ handle = "unused" /\ pid = 0 /\ ChildCount' = ChildCount
      BY <1>3, <1>4, <1>5, AddChild, Counts
    <2>2. Typed' /\ CountInv' /\ ArgvInv'
      <3>1. Typed'
        BY <1>1, <1>2, <1>5, <2>1 DEF WInv, Typed
      <3>2. CountInv' /\ ArgvInv'
        BY <1>1, <1>2, <1>5, <2>1 DEF WInv, CountInv, ArgvInv, Parsing
      <3> QED BY <3>1, <3>2
    <2>3. ArgsInv'
      <3>1. \A w \in 1 .. WorkerCount' : workers'[w].args = Program[workers'[w].type]
        BY <1>1, <1>2, <1>5 DEF WInv, ArgsInv
      <3>2. ASSUME NEW c \in 1 .. ChildCount
            PROVE  /\ children'[c].worker <= WorkerCount'
                   /\ children'[c].program = workers'[children'[c].worker].args
        <4>1. children[c].worker \in 1 .. WorkerCount
          BY <1>2, Records DEF WInv, ArgsInv, ChildType
        <4> QED BY <1>2, <1>5, <2>1, <4>1 DEF WInv, ArgsInv
      <3>3. /\ child.worker <= WorkerCount'
            /\ child.program = workers'[child.worker].args
        BY <1>2, <1>5 DEF Child
      <3> QED BY <1>2, <2>1, <3>1, <3>2, <3>3 DEF ArgsInv
    <2>4. HandleInv'
      <3>1. ASSUME NEW w \in 1 .. WorkerCount
            PROVE  /\ workers'[w].closes = 0 /\ workers'[w].handle # "closed"
                   /\ workers'[w].handle # "unused" => workers'[w].pid \in 1 .. ChildCount'
        BY <1>1, <1>2, <1>5, <2>1 DEF WInv, HandleInv
      <3>2. /\ workers'[WorkerCount + 1].closes = 0
            /\ workers'[WorkerCount + 1].handle # "closed"
            /\ workers'[WorkerCount + 1].handle # "unused" =>
                 workers'[WorkerCount + 1].pid \in 1 .. ChildCount'
        BY <1>2, <1>5, <2>1
      <3>3. \A w \in 1 .. WorkerCount' : w \in 1 .. WorkerCount \/ w = WorkerCount + 1
        BY <1>2, <1>5
      <3> QED BY <3>1, <3>2, <3>3 DEF HandleInv
    <2> QED BY <2>2, <2>3, <2>4 DEF WInv
  <1>6. CASE workers' = Append(workers, new("unused", 0)) /\ children' = children
    BY <1>3, <1>4, <1>5, <1>6, AddWorker
  <1>7. CASE /\ children' = Append(children, child)
             /\ workers' = Spawned(Append(workers, new("unused", 0)), WorkerCount + 1,
                                   ChildCount + 1)
    <2> DEFINE ws == Append(workers, new("unused", 0))
    <2>1. /\ ws \in Seq(Worker) /\ Len(ws) = WorkerCount + 1
          /\ \A w \in 1 .. WorkerCount : ws[w] = workers[w]
          /\ ws[WorkerCount + 1] = new("unused", 0)
      BY <1>3, <1>4, AppendProperties DEF WorkerCount
    <2>2. WorkerCount + 1 \in 1 .. Len(ws) /\ WorkerCount \in Nat
      BY <1>2, <2>1
    <2> HIDE DEF ws
    <2>3. workers' = [ws EXCEPT ![WorkerCount + 1] = new("active", ChildCount + 1)]
      <3>1. DOMAIN ws = 1 .. Len(ws)
        BY <2>1, LenProperties
      <3>2. OnHandle(ws[WorkerCount + 1], ChildCount + 1) = new("active", ChildCount + 1)
        BY <2>1, FirstSpawn
      <3>3. workers' = [ws EXCEPT ![WorkerCount + 1] =
                          OnHandle(ws[WorkerCount + 1], ChildCount + 1)]
        BY <1>7, <2>2, <3>1 DEF Spawned, OnHandle, ws
      <3> QED BY <3>2, <3>3
    <2>4. /\ workers' \in Seq(Worker) /\ Len(workers') = WorkerCount + 1
          /\ \A w \in 1 .. WorkerCount : workers'[w] = ws[w]
          /\ workers'[WorkerCount + 1] = new("active", ChildCount + 1)
      BY <1>3, <2>1, <2>2, <2>3, ExceptSeq
    <2> QED BY <1>5, <1>7, <2>1, <2>4 DEF WorkerCount
  <1> QED
    <2>1. children' = Append(children, child) => Len(children') = ChildCount + 1
      BY <1>3, <1>4, AppendProperties DEF ChildCount
    <2> QED BY <1>6, <1>7, <2>1 DEF SetupWorker, ArgsOf, WorkerCount

LEMMA RestKeeps == WInv /\ (Enable \/ SpawnFails \/ StartLoop \/ Returns) => WInv'
  <1> SUFFICES ASSUME WInv, Enable \/ SpawnFails \/ StartLoop \/ Returns PROVE WInv'
    OBVIOUS
  <1>1. /\ UNCHANGED <<lists, argv, workers, children, expired>>
        /\ pc' \in {"record", "failed", "loop", "returned"}
        /\ pc \in {"loop", "returned"} => pc' \in {"loop", "returned"}
        /\ enabled' \in BOOLEAN
    BY Zenon DEF Enable, SpawnFails, StartLoop, Returns, WInv, Typed, config
  <1>2. /\ k' \in 0 .. 2
        /\ pc' = "record" => k' <= WorkerCount /\ ChildCount + k' <= 2 * WorkerCount
    <2>1. CASE Enable
      <3>1. k' = WorkerCount /\ pc = "enable"
        BY <2>1 DEF Enable, WorkerCount
      <3> QED BY <3>1, Records DEF WInv, CountInv
    <2>2. CASE SpawnFails \/ StartLoop \/ Returns
      BY <2>2 DEF SpawnFails, StartLoop, Returns, WInv, Typed
    <2> QED BY <2>1, <2>2
  <1>3. Typed'
    BY <1>1, <1>2, Counts DEF WInv, Typed
  <1>4. CountInv' /\ ArgvInv'
    BY <1>1, <1>2, Counts DEF WInv, CountInv, ArgvInv, Parsing
  <1> QED BY <1>1, <1>3, <1>4, NoWorkerChanges DEF WInv

LEMMA RecordKeeps == WInv /\ RecordWorker => WInv'
  <1> SUFFICES ASSUME WInv, RecordWorker PROVE WInv'
    OBVIOUS
  <1> DEFINE child == Child(k, workers[k].args)
             worker == [workers[k] EXCEPT !.pid = ChildCount + 1,
                          !.handle = IF @ = "unused" THEN "active" ELSE "reused"]
  <1>1. /\ pc = "record" /\ pc' = pc /\ k' = k - 1
        /\ UNCHANGED <<lists, argv, enabled, expired>>
        /\ children' = Append(children, child)
        /\ workers' = Spawned(workers, k, Len(children'))
        /\ k > 0
    BY DEF RecordWorker, config
  <1>2. /\ WorkerCount \in 0 .. 2 /\ k \in 1 .. WorkerCount /\ k \in 1 .. 2
        /\ ChildCount \in 0 .. 3 /\ ChildCount + k <= 2 * WorkerCount
        /\ workers[k] \in Worker
        /\ workers \in Seq(Worker) /\ children \in Seq(ChildType)
    BY <1>1, Records DEF WInv, Typed, CountInv
  <1>3. child \in ChildType
    BY <1>2 DEF Child, ChildType, Worker
  <1>4. worker \in Worker
    <2>1. ChildCount + 1 \in 0 .. 4
      BY <1>2
    <2> QED BY <1>2, <2>1 DEF Worker
  <1>5. /\ children' \in Seq(ChildType) /\ ChildCount' = ChildCount + 1
        /\ \A c \in 1 .. ChildCount : children'[c] = children[c]
        /\ children'[ChildCount + 1] = child
    BY <1>1, <1>2, <1>3, AddChild
  <1>6. workers' = [workers EXCEPT ![k] = worker]
    <2>1. Len(children') = ChildCount + 1
      BY <1>5 DEF ChildCount
    <2> QED BY <1>1, <2>1 DEF Spawned
  <1>7. /\ workers' \in Seq(Worker) /\ WorkerCount' = WorkerCount
        /\ \A w \in 1 .. WorkerCount : workers'[w] = IF w = k THEN worker ELSE workers[w]
    BY <1>2, <1>4, <1>6, ChangeWorker
  <1>8. /\ worker.args = workers[k].args /\ worker.type = workers[k].type
        /\ worker.closes = 0 /\ worker.pid = ChildCount + 1
        /\ worker.handle \in {"active", "reused"}
        /\ child.worker = k /\ child.program = workers[k].args
    BY <1>1, <1>2 DEF Worker, WInv, HandleInv, Child
  <1> HIDE DEF worker, child
  <1>9. Typed' /\ CountInv' /\ ArgvInv'
    <2>1. Typed'
      BY <1>1, <1>2, <1>5, <1>7 DEF WInv, Typed
    <2>2. CountInv' /\ ArgvInv'
      BY <1>1, <1>2, <1>5, <1>7 DEF WInv, CountInv, ArgvInv, Parsing
    <2> QED BY <2>1, <2>2
  <1>10. ArgsInv'
    <2>1. \A w \in 1 .. WorkerCount : /\ workers'[w].args = workers[w].args
                                      /\ workers'[w].type = workers[w].type
      BY <1>7, <1>8
    <2>2. \A c \in 1 .. ChildCount : children[c].worker \in 1 .. WorkerCount
      BY <1>2, Records DEF WInv, ArgsInv, ChildType
    <2>3. \A w \in 1 .. WorkerCount' : workers'[w].args = Program[workers'[w].type]
      BY <1>7, <2>1 DEF WInv, ArgsInv
    <2>4. ASSUME NEW c \in 1 .. ChildCount
          PROVE  /\ children'[c].worker <= WorkerCount'
                 /\ children'[c].program = workers'[children'[c].worker].args
      BY <1>5, <1>7, <2>1, <2>2 DEF WInv, ArgsInv
    <2>5. child.worker <= WorkerCount' /\ child.program = workers'[child.worker].args
      BY <1>2, <1>7, <1>8, <2>1
    <2>6. \A c \in 1 .. ChildCount' : c \in 1 .. ChildCount \/ c = ChildCount + 1
      BY <1>2, <1>5
    <2> QED BY <1>5, <2>3, <2>4, <2>5, <2>6 DEF ArgsInv
  <1>11. HandleInv'
    <2>1. ASSUME NEW w \in 1 .. WorkerCount, w # k
          PROVE  /\ workers'[w].closes = 0 /\ workers'[w].handle # "closed"
                 /\ workers'[w].handle # "unused" => workers'[w].pid \in 1 .. ChildCount'
      <3>1. /\ workers[w].closes = 0 /\ workers[w].handle # "closed"
            /\ workers[w].handle # "unused" => workers[w].pid \in 1 .. ChildCount
        BY <1>1 DEF WInv, HandleInv
      <3>2. workers'[w] = workers[w]
        BY <1>7, <2>1
      <3> QED BY <1>2, <1>5, <3>1, <3>2
    <2>2. /\ workers'[k].closes = 0 /\ workers'[k].handle # "closed"
          /\ workers'[k].pid \in 1 .. ChildCount'
      BY <1>2, <1>5, <1>7, <1>8
    <2> QED BY <1>7, <2>1, <2>2 DEF HandleInv
  <1> QED BY <1>9, <1>10, <1>11 DEF WInv

(* A child's state changes, and nothing else of it.                        *)
LEMMA StatesChange ==
  ASSUME WInv, UNCHANGED <<pc, lists, argv, workers, k>>,
         enabled' \in BOOLEAN, expired' \in BOOLEAN,
         children' \in Seq(ChildType), ChildCount' = ChildCount,
         \A c \in 1 .. ChildCount :
           /\ children'[c].worker = children[c].worker
           /\ children'[c].program = children[c].program
           /\ children[c].state = "reaped" => children'[c].state = "reaped"
  PROVE  WInv'
  <1>1. Typed'
    BY Counts, Zenon DEF WInv, Typed
  <1>2. CountInv' /\ ArgvInv'
    BY Counts DEF WInv, CountInv, ArgvInv
  <1>3. ArgsInv' /\ HandleInv'
    BY Counts DEF WInv, ArgsInv, HandleInv
  <1> QED BY <1>1, <1>2, <1>3 DEF WInv

LEMMA ExpireKeeps == WInv /\ Expire => WInv'
  <1> SUFFICES ASSUME WInv, Expire PROVE WInv'
    OBVIOUS
  <1>1. /\ ChildCount \in Nat /\ \A c \in 1 .. ChildCount : children[c] \in ChildType
    BY Records DEF WInv
  <1>2. ASSUME NEW c \in 1 .. ChildCount
        PROVE  /\ Signalled[c] \in ChildType
               /\ Signalled[c].worker = children[c].worker
               /\ Signalled[c].program = children[c].program
               /\ children[c].state = "reaped" => Signalled[c].state = "reaped"
    <2>1. Signalled[c] \in {children[c], [children[c] EXCEPT !.state = "told"]}
      BY DEF Signalled, ChildCount
    <2>2. children[c].state = "reaped" => Signalled[c] = children[c]
      BY DEF Signalled, ChildCount
    <2> QED BY <1>1, <2>1, <2>2 DEF ChildType
  <1>3. Signalled \in Seq(ChildType) /\ Len(Signalled) = ChildCount
    <2>1. Signalled \in [1 .. ChildCount -> ChildType]
      <3>1. Signalled = [c \in 1 .. ChildCount |-> Signalled[c]]
        BY DEF Signalled, ChildCount
      <3> QED BY <1>2, <3>1
    <2> QED BY <1>1, <2>1
  <1>4. /\ UNCHANGED <<pc, lists, argv, workers, k>> /\ children' = Signalled
        /\ enabled' \in BOOLEAN /\ expired' \in BOOLEAN
    BY Zenon DEF Expire, config
  <1>5. ChildCount' = ChildCount
    BY <1>3, <1>4 DEF ChildCount
  <1> QED BY <1>2, <1>3, <1>4, <1>5, StatesChange

LEMMA ExitKeeps ==
  ASSUME WInv, NEW c \in 1 .. Len(children), Exits(c)
  PROVE  WInv'
  <1> DEFINE child == [children[c] EXCEPT !.state = "exited"]
  <1>1. c \in 1 .. ChildCount /\ children \in Seq(ChildType)
    BY DEF ChildCount, WInv, Typed
  <1>2. /\ child \in ChildType /\ children[c].state # "reaped"
        /\ child.worker = children[c].worker /\ child.program = children[c].program
    BY <1>1, Records DEF WInv, ChildType, Exits
  <1>3. /\ children' = [children EXCEPT ![c] = child]
        /\ UNCHANGED <<pc, lists, argv, workers, k>>
        /\ enabled' \in BOOLEAN /\ expired' \in BOOLEAN
    BY DEF Exits, WInv, Typed, config
  <1> HIDE DEF child
  <1>4. /\ children' \in Seq(ChildType) /\ ChildCount' = ChildCount
        /\ \A d \in 1 .. ChildCount : children'[d] = IF d = c THEN child ELSE children[d]
    BY <1>1, <1>2, <1>3, ChangeChild
  <1> QED BY <1>2, <1>3, <1>4, StatesChange

(* The exit callback closes a handle that is in use, so not a second time. *)
LEMMA ReportKeeps ==
  ASSUME WInv, NEW w \in 1 .. Len(workers), Reported(w)
  PROVE  WInv'
  <1> DEFINE c == workers[w].pid
             child == [children[c] EXCEPT !.state = "reaped"]
             worker == [workers[w] EXCEPT !.closes = @ + 1, !.handle = "closed"]
  <1>1. /\ pc = "loop" /\ workers[w].handle \in {"active", "reused"}
        /\ UNCHANGED <<pc, lists, argv, enabled, expired, k>>
        /\ workers' = [workers EXCEPT ![w] = worker]
        /\ children' = [children EXCEPT ![c] = child]
    BY DEF Reported, CloseProcessHandle, config
  <1>2. /\ w \in 1 .. WorkerCount /\ c \in 1 .. ChildCount /\ workers[w].closes = 0
        /\ workers \in Seq(Worker) /\ children \in Seq(ChildType)
    BY <1>1 DEF WInv, HandleInv, WorkerCount, Typed
  <1>3. workers[w] \in Worker /\ children[c] \in ChildType
    BY <1>2, Records DEF WInv
  <1>4. worker \in Worker /\ child \in ChildType
    <2>1. workers[w].closes + 1 \in Nat
      BY <1>2
    <2> QED BY <1>3, <2>1 DEF Worker, ChildType
  <1>5. /\ worker.closes = 1 /\ worker.handle = "closed" /\ worker.pid = c
        /\ worker.args = workers[w].args /\ worker.type = workers[w].type
        /\ child.state = "reaped" /\ child.worker = children[c].worker
        /\ child.program = children[c].program
    BY <1>2, <1>3 DEF Worker, ChildType
  <1> HIDE DEF worker, child, c
  <1>6. /\ workers' \in Seq(Worker) /\ WorkerCount' = WorkerCount
        /\ \A v \in 1 .. WorkerCount : workers'[v] = IF v = w THEN worker ELSE workers[v]
    BY <1>1, <1>2, <1>4, ChangeWorker
  <1>7. /\ children' \in Seq(ChildType) /\ ChildCount' = ChildCount
        /\ \A d \in 1 .. ChildCount : children'[d] = IF d = c THEN child ELSE children[d]
    BY <1>1, <1>2, <1>4, ChangeChild
  <1>8. Typed'
    BY <1>1, <1>6, <1>7, Zenon DEF WInv, Typed
  <1>9. CountInv' /\ ArgvInv'
    BY <1>1, <1>6, <1>7 DEF WInv, CountInv, ArgvInv
  <1>10. ArgsInv'
    <2>1. \A v \in 1 .. WorkerCount : /\ workers'[v].args = workers[v].args
                                      /\ workers'[v].type = workers[v].type
      BY <1>5, <1>6
    <2>2. \A d \in 1 .. ChildCount : /\ children'[d].worker = children[d].worker
                                     /\ children'[d].program = children[d].program
                                     /\ children[d].worker \in 1 .. WorkerCount
      BY <1>5, <1>7, Records DEF WInv, ArgsInv, ChildType
    <2>3. \A v \in 1 .. WorkerCount' : workers'[v].args = Program[workers'[v].type]
      BY <1>6, <2>1 DEF WInv, ArgsInv
    <2>4. ASSUME NEW d \in 1 .. ChildCount
          PROVE  /\ children'[d].worker <= WorkerCount'
                 /\ children'[d].program = workers'[children'[d].worker].args
      BY <1>6, <2>1, <2>2 DEF WInv, ArgsInv
    <2> QED BY <1>7, <2>3, <2>4 DEF ArgsInv
  <1>11. HandleInv'
    BY <1>1, <1>2, <1>5, <1>6, <1>7 DEF WInv, HandleInv
  <1> QED BY <1>8, <1>9, <1>10, <1>11 DEF WInv

LEMMA StepWorkers == WInv /\ [Next]_vars => WInv'
  <1> SUFFICES ASSUME WInv, [Next]_vars PROVE WInv'
    OBVIOUS
  <1>1. CASE UNCHANGED vars
    <2>1. Typed' /\ CountInv' /\ ArgvInv'
      BY <1>1, Counts, Zenon DEF vars, WInv, Typed, CountInv, ArgvInv
    <2> QED BY <1>1, <2>1, NoWorkerChanges DEF vars, WInv
  <1>2. CASE Next
    BY <1>2, ParseKeeps, PassKeeps, SetupKeeps, RestKeeps, RecordKeeps, ExpireKeeps, ExitKeeps,
       ReportKeeps DEF Next
  <1> QED BY <1>1, <1>2

(* The invariant that the next theorems are read from.                     *)
THEOREM WorkersInductive == Spec => []WInv
  BY InitWorkers, StepWorkers, PTL DEF Spec

(* There are never more than two workers and four children, which is what  *)
(* the arrays of the recorder have room for.                               *)
THEOREM TypeCorrect == Spec => []TypeOK
  <1>1. WInv => TypeOK
    BY TypedIs DEF WInv
  <1> QED BY <1>1, WorkersInductive, PTL

(* A child runs the program of its worker's type, whichever lists are      *)
(* given and in whatever order the options come, both times it is started. *)
THEOREM ProgramIsOwn == Spec => []OwnProgram
  <1>1. ASSUME WInv PROVE OwnProgram
    <2>1. \A c \in 1 .. ChildCount : children[c].worker \in 1 .. WorkerCount
      BY <1>1, Records DEF WInv, ArgsInv, ChildType
    <2> QED BY <1>1, <2>1 DEF WInv, ArgsInv, OwnProgram, ChildCount
  <1> QED BY <1>1, WorkersInductive, PTL

(* close_process_handle closes the output of a worker once, when the child *)
(* that was started last has been reaped.                                  *)
THEOREM OutputClosedOnce == Spec => []ClosedOnce
  <1>1. WInv => ClosedOnce
    BY DEF WInv, HandleInv, ClosedOnce, WorkerCount
  <1> QED BY <1>1, WorkersInductive, PTL

=============================================================================
