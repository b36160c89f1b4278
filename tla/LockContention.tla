---------------------------- MODULE LockContention ----------------------------
(***************************************************************************)
(* The example workloads: cases/lock-contention-with-spin/main.c and       *)
(* cases/lock-contention-with-sleep/main.c, which differ only in what C    *)
(* does while it holds the lock.  B takes from a counter that C adds to,   *)
(* and waits while it is zero; C wakes B, and B wakes A.                   *)
(*                                                                         *)
(* wait_lock is left out: A alone uses it, and waits the first time        *)
(* without holding it, which POSIX leaves undefined; the build's library   *)
(* goes on as if it were held.                                             *)
(***************************************************************************)
EXTENDS Naturals

CONSTANTS
  Max,                  \* the value at which C starts again, 10000
  Word,                 \* the values of an unsigned
  MaxSpurious           \* bound: wake-ups of waits that nobody signalled

ASSUME MaxAssumption == Max \in Nat \ {0}
ASSUME WordAssumption == Word \in Nat /\ Word > Max
ASSUME SpuriousAssumption == MaxSpurious \in Nat

VARIABLES
  counter,
  holder,               \* who holds counter_lock: "B", "C" or "nobody"
  a,                    \* thread_wait: "new", "running", "waiting"
  b,                    \* dec_counter
  c,                    \* inc_counter
  spurious              \* how many waits have ended without a signal

lockVars == <<counter, holder, a, b, c, spurious>>

LockTypeOK ==
  /\ counter \in 0 .. Max
  /\ holder \in {"nobody", "B", "C"}
  /\ a \in {"new", "running", "waiting"}
  /\ b \in {"new", "lock", "test", "waiting", "woken", "signal"}
  /\ c \in {"new", "lock", "test", "work", "add"}
  /\ spurious \in 0 .. MaxSpurious

LockInit ==
  /\ counter = 0
  /\ holder = "nobody"
  /\ a = "new" /\ b = "new" /\ c = "new"
  /\ spurious = 0

-----------------------------------------------------------------------------
(* main starts B, C and A, in this order, and waits for them for ever.     *)

CreateB == b = "new" /\ b' = "lock" /\ UNCHANGED <<counter, holder, a, c, spurious>>
CreateC == b # "new" /\ c = "new" /\ c' = "lock" /\ UNCHANGED <<counter, holder, a, b, spurious>>
CreateA == c # "new" /\ a = "new" /\ a' = "running" /\ UNCHANGED <<counter, holder, b, c, spurious>>

-----------------------------------------------------------------------------
(* thread_wait: a signal that comes while A runs is lost.                  *)

WaitA ==
  /\ a = "running"
  /\ a' = "waiting"
  /\ UNCHANGED <<counter, holder, b, c, spurious>>

SpuriousA ==
  /\ a = "waiting" /\ spurious < MaxSpurious
  /\ a' = "running" /\ spurious' = spurious + 1
  /\ UNCHANGED <<counter, holder, b, c>>

-----------------------------------------------------------------------------
(* dec_counter.                                                            *)

LockB ==
  /\ b = "lock" /\ holder = "nobody"
  /\ holder' = "B" /\ b' = "test"
  /\ UNCHANGED <<counter, a, c, spurious>>

(* pthread_cond_wait: the lock is free once B is a waiter. *)
WaitB ==
  /\ b = "test" /\ counter = 0
  /\ holder' = "nobody" /\ b' = "waiting"
  /\ UNCHANGED <<counter, a, c, spurious>>

SpuriousB ==
  /\ b = "waiting" /\ spurious < MaxSpurious
  /\ b' = "woken" /\ spurious' = spurious + 1
  /\ UNCHANGED <<counter, holder, a, c>>

(* pthread_cond_wait returns with the lock. *)
RelockB ==
  /\ b = "woken" /\ holder = "nobody"
  /\ holder' = "B" /\ b' = "signal"
  /\ UNCHANGED <<counter, a, c, spurious>>

\* Slip: "if" for "while", B takes what may not be there.
SignalAndTake ==
  /\ b = "signal"
  /\ a' = IF a = "waiting" THEN "running" ELSE a
  /\ counter' = (counter + Word - 1) % Word
  /\ holder' = "nobody" /\ b' = "lock"
  /\ UNCHANGED <<c, spurious>>

SignalA ==
  /\ b = "signal"
  /\ a' = IF a = "waiting" THEN "running" ELSE a
  /\ b' = "test"
  /\ UNCHANGED <<counter, holder, c, spurious>>

\* Slip: B only looks, and the counter stays.
Peek ==
  /\ b = "test" /\ counter # 0
  /\ holder' = "nobody" /\ b' = "lock"
  /\ UNCHANGED <<counter, a, c, spurious>>

Take ==
  /\ b = "test" /\ counter # 0
  /\ counter' = (counter + Word - 1) % Word
  /\ holder' = "nobody" /\ b' = "lock"
  /\ UNCHANGED <<a, c, spurious>>

-----------------------------------------------------------------------------
(* inc_counter.                                                            *)

LockC ==
  /\ c = "lock" /\ holder = "nobody"
  /\ holder' = "C" /\ c' = "test"
  /\ UNCHANGED <<counter, a, b, spurious>>

(* The counter starts again when it is full; C works only when it is zero. *)
TestC ==
  /\ c = "test"
  /\ counter' = IF counter = Max THEN 0 ELSE counter
  /\ c' = IF counter' = 0 THEN "work" ELSE "add"
  /\ UNCHANGED <<holder, a, b, spurious>>

\* Slip: nobody is told.
WorkOnly ==
  /\ c = "work" /\ c' = "add"
  /\ UNCHANGED <<counter, holder, a, b, spurious>>

(* The loop that spins, or the usleep, and the signal to B. *)
WorkAndSignalB ==
  /\ c = "work" /\ c' = "add"
  /\ b' = IF b = "waiting" THEN "woken" ELSE b
  /\ UNCHANGED <<counter, holder, a, spurious>>

Add ==
  /\ c = "add"
  /\ counter' = (counter + 1) % Word
  /\ holder' = "nobody" /\ c' = "lock"
  /\ UNCHANGED <<a, b, spurious>>

-----------------------------------------------------------------------------
Main == CreateB \/ CreateC \/ CreateA
ThreadA == WaitA \/ SpuriousA
ThreadB == LockB \/ WaitB \/ SpuriousB \/ RelockB \/ SignalA \/ Take
ThreadC == LockC \/ TestC \/ WorkAndSignalB \/ Add

LockNext == Main \/ ThreadA \/ ThreadB \/ ThreadC

(* The threads are scheduled.  A mutex is not fair: nothing says that who  *)
(* waits for it gets it when others keep taking it.                        *)
Fairness ==
  /\ WF_lockVars(Main) /\ WF_lockVars(WaitA)
  /\ WF_lockVars(LockB \/ WaitB \/ RelockB \/ SignalA \/ Take)
  /\ WF_lockVars(ThreadC)

LockSpec == LockInit /\ [][LockNext]_lockVars /\ Fairness

-----------------------------------------------------------------------------
(* Properties.                                                             *)

(* No wake-up is lost: while B waits for a signal there is nothing to      *)
(* take, so C is still to find zero and to send it.                        *)
NothingLost == b = "waiting" => counter = 0 /\ c # "add"

(* B does not wait for ever: C wakes it.                                   *)
WaiterWoken == (b = "waiting") ~> (b # "waiting")

(* C is never starved, although the lock is not fair: B gives way when it  *)
(* has taken all there is.  (The converse is false: C may keep B out, and  *)
(* start the counter again at Max without B having taken any.)             *)
ProducerRuns == (c = "lock") ~> (c = "add")

=============================================================================
