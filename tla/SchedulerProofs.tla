---------------------------- MODULE SchedulerProofs ----------------------------
(***************************************************************************)
(* Proofs about Scheduler, for every set of jobs, every set of delays and  *)
(* every horizon.  IInv is the inductive invariant: the safety invariants  *)
(* of Scheduler together with ConsumerShape.  One step per action shows    *)
(* that it is preserved; the theorems at the end read it off.              *)
(***************************************************************************)
EXTENDS Scheduler, Timespec, TLAPS

\* How the program point, the references to the State and the entry in hand hang
\* together; with the safety invariants it is inductive.  Only a blocked or
\* timed-out consumer has an entry in hand, and a timed-out one has the entry that
\* is due and the earliest: whatever is pushed after the deadline is due later.
ConsumerShape ==
    /\ m_state <=> m_consumer = "thread"
    /\ m_state => pc \notin {"none", "exited"}
    /\ ~m_state /\ ~HoldsState => queue = {}
    /\ pc \notin {"timed", "expired"} => hand = {}
    /\ pc \in {"timed", "expired"} => \E e \in hand : hand = {e}
    /\ pc = "expired" => \A e \in hand : e.due <= now /\ Earliest(e)
    /\ join = "joining" => m_consumer = "none" /\ pc # "none"
    /\ join = "joined" => pc = "exited"

IInv == TypeOK /\ ConsumerShape /\ EachJobOnce /\ NoLostWakeup

-------------------------------------------------------------------------------
(* Sets of entries and the jobs in them.                                   *)

\* The jobs of a union of sets of entries.
LEMMA IdsUnion ==
    ASSUME NEW A, NEW B
    PROVE  Ids(A \cup B) = Ids(A) \cup Ids(B)
  BY DEF Ids

\* No entry, no job.
LEMMA IdsEmpty == Ids({}) = {}
  BY DEF Ids

\* The jobs of entries are jobs.
LEMMA IdsType ==
    ASSUME NEW A \in SUBSET Entry
    PROVE  Ids(A) \subseteq Jobs
  BY DEF Ids, Entry


-------------------------------------------------------------------------------
(* The inductive invariant.                                                *)

\* The fresh agent satisfies the invariant.
LEMMA InitIInv == Init => IInv
  <1> SUFFICES ASSUME Init PROVE IInv
    OBVIOUS
  <1>1. TypeOK /\ ConsumerShape /\ NoLostWakeup
    BY DEF Init, TypeOK, ConsumerShape, NoLostWakeup, HoldsState
  <1>2. EachJobOnce
    BY DEF Init, EachJobOnce, Ids
  <1>3. QED
    BY <1>1, <1>2 DEF IInv

\* go(), whether the thread is created or not, and the crash after a failed go().
LEMMA GoIInv == IInv /\ (Go \/ GoFails \/ Crash) => IInv'
  <1> SUFFICES ASSUME IInv, Go \/ GoFails \/ Crash PROVE IInv'
    OBVIOUS
  <1> USE DEF IInv, Go, GoFails, Crash, history
  <1>1. TypeOK'
    BY DEF TypeOK
  <1>2. ConsumerShape'
    BY DEF ConsumerShape, HoldsState, Earliest
  <1>3. NoLostWakeup'
    BY DEF NoLostWakeup, Earliest
  <1>4. EachJobOnce'
    BY DEF EachJobOnce
  <1>5. QED
    BY <1>1, <1>2, <1>3, <1>4

\* push() adds one entry with a fresh job and wakes a blocked consumer; an entry
\* pushed after a deadline has passed is due no earlier than that deadline.
LEMMA PushIInv ==
    ASSUME IInv, NEW j \in Jobs, NEW d \in Delays, Push(j, d)
    PROVE  IInv'
  <1> DEFINE n == [job |-> j, due |-> now + d]
  <1> USE SchedulerAssumption DEF IInv
  <1>1. n \in Entry /\ n.job = j /\ n.due = now + d /\ now + d >= now
    BY DEF TypeOK, Entry
  <1>2. /\ queue' = queue \cup {n}
        /\ accepted' = accepted \cup {j}
        /\ j \notin accepted
        /\ m_consumer = "thread"
        /\ woken' = (woken \/ pc \in {"wait", "timed"})
        /\ UNCHANGED <<m_consumer, m_state, pc, hand, now, join, ran, dropped>>
    BY DEF Push, Signal
  <1> HIDE DEF n
  <1>3. TypeOK'
    BY <1>1, <1>2 DEF TypeOK
  <1>4. ConsumerShape'
    <2>1. (pc = "expired" => \A e \in hand : e.due <= now /\ Earliest(e))'
      BY <1>1, <1>2 DEF TypeOK, ConsumerShape, Earliest, Entry
    <2>2. m_state /\ m_state'
      BY <1>2 DEF ConsumerShape
    <2>3. QED
      BY <1>2, <2>1, <2>2 DEF ConsumerShape
  <1>5. Ids(queue') = Ids(queue) \cup {j}
    BY <1>1, <1>2 DEF Ids
  <1>6. n \notin queue \cup hand /\ \A e \in queue \cup hand : e.job # j
    BY <1>1, <1>2 DEF EachJobOnce, Ids
  <1>7. Ids((queue \cup hand)') = Ids(queue \cup hand) \cup {j}
    BY <1>1, <1>2, <1>5, IdsUnion
  <1>8. EachJobOnce'
    <2>1. accepted' = (Ids(queue) \cup Ids(hand) \cup ran \cup dropped)'
      BY <1>2, <1>5 DEF EachJobOnce
    <2>2. (queue \cap hand = {})'
      BY <1>2, <1>6 DEF EachJobOnce
    <2>3. (\A e, f \in queue \cup hand : e.job = f.job => e = f)'
      BY <1>1, <1>2, <1>6 DEF EachJobOnce
    <2>4. (Ids(queue \cup hand) \cap (ran \cup dropped) = {})'
      BY <1>2, <1>7 DEF EachJobOnce
    <2>5. QED
      BY <1>2, <2>1, <2>2, <2>3, <2>4 DEF EachJobOnce
  <1>9. NoLostWakeup'
    BY <1>2 DEF NoLostWakeup
  <1>10. QED
    BY <1>3, <1>4, <1>8, <1>9

\* What the last reference to the State takes with it is accounted for: the jobs
\* of the queue move to the dropped ones, and nothing else changes.
LEMMA ForgetQueue ==
    ASSUME EachJobOnce, queue' = {}, dropped' = dropped \cup Ids(queue),
           UNCHANGED <<hand, accepted, ran>>
    PROVE  EachJobOnce'
  BY DEF EachJobOnce, Ids

\* stop(), from another thread or from a job, and pthread_join.
LEMMA StopIInv == IInv /\ (Stop \/ StopSelf \/ Joined) => IInv'
  <1> SUFFICES ASSUME IInv, Stop \/ StopSelf \/ Joined PROVE IInv'
    OBVIOUS
  <1> USE DEF IInv
  <1>1. CASE Joined
    BY <1>1 DEF Joined, history, TypeOK, ConsumerShape, EachJobOnce, NoLostWakeup,
         HoldsState, Earliest
  <1>2. CASE Stop \/ StopSelf
    <2>1. UNCHANGED <<hand, accepted, ran, pc, now>> /\ m_state' = FALSE
      BY <1>2 DEF Stop, StopSelf, DropState
    <2>2. Ids(queue) \subseteq Jobs
      BY IdsType DEF TypeOK
    <2>3. TypeOK'
      BY <1>2, <2>2 DEF TypeOK, Stop, StopSelf, DropState, Signal
    <2>4. ConsumerShape'
      BY <1>2 DEF TypeOK, ConsumerShape, HoldsState, Earliest, Stop, StopSelf,
           DropState, Signal
    <2>5. EachJobOnce'
      <3>1. CASE HoldsState
        BY <1>2, <2>1, <3>1 DEF Stop, StopSelf, DropState, EachJobOnce
      <3>2. CASE ~HoldsState
        BY <1>2, <2>1, <3>2, ForgetQueue DEF Stop, StopSelf, DropState, EachJobOnce
      <3>3. QED
        BY <3>1, <3>2
    <2>6. NoLostWakeup'
      BY <1>2, <2>1 DEF NoLostWakeup, Stop, StopSelf, Signal
    <2>7. QED
      BY <2>3, <2>4, <2>5, <2>6
  <1>3. QED
    BY <1>1, <1>2

\* At the end of an iteration the entry in hand is back in the queue; the queue is
\* kept or, if the Unit is gone, its jobs become dropped ones.
LEMMA ReleaseKeepsJobs ==
    ASSUME TypeOK, EachJobOnce, Release(queue \cup hand), hand' = {},
           UNCHANGED <<m_state, accepted, ran>>
    PROVE  /\ EachJobOnce'
           /\ queue' \subseteq Entry /\ dropped' \subseteq Jobs
           /\ ~m_state => queue' = {}
  <1>1. Ids(queue \cup hand) \subseteq Jobs
    BY IdsType DEF TypeOK
  <1>2. CASE m_state
    BY <1>2, IdsUnion, IdsEmpty DEF Release, EachJobOnce, TypeOK
  <1>3. CASE ~m_state
    BY <1>1, <1>3, IdsUnion, IdsEmpty DEF Release, EachJobOnce, TypeOK
  <1>4. QED
    BY <1>2, <1>3

\* The iterations of the consumer that end without running a job.
LEMMA EndIInv ==
    IInv /\ (ExitUnique \/ WakeEmpty \/ Requeue \/ ExitExpired \/ Finish) => IInv'
  <1> SUFFICES ASSUME IInv,
                      ExitUnique \/ WakeEmpty \/ Requeue \/ ExitExpired \/ Finish
               PROVE  IInv'
    OBVIOUS
  <1> USE DEF IInv
  <1>1. /\ pc' \in {"lock", "exited"}
        /\ pc' = "exited" => ~m_state
        /\ pc \notin {"none", "exited"}
        /\ UNCHANGED <<m_consumer, m_state, now, join, accepted, ran>>
        /\ hand' = {}
    BY DEF ConsumerShape, ExitUnique, WakeEmpty, Requeue, ExitExpired, Finish
  <1>2. Release(queue \cup hand)
    <2>1. CASE Requeue \/ ExitExpired
      BY <2>1 DEF Requeue, ExitExpired
    <2>2. CASE ExitUnique \/ WakeEmpty \/ Finish
      <3>1. Release(queue) /\ hand = {}
        BY <2>2 DEF ExitUnique, WakeEmpty, Finish, ConsumerShape
      <3>2. queue \cup hand = queue
        BY <3>1
      <3>3. QED
        BY <3>1, <3>2
    <2>3. QED
      BY <2>1, <2>2
  <1>3. /\ EachJobOnce'
        /\ queue' \subseteq Entry /\ dropped' \subseteq Jobs
        /\ ~m_state => queue' = {}
    BY <1>1, <1>2, ReleaseKeepsJobs
  <1>4. TypeOK'
    <2>1. woken' \in BOOLEAN
      BY DEF TypeOK, ExitUnique, WakeEmpty, Requeue, ExitExpired, Finish
    <2>2. QED
      BY <1>1, <1>3, <2>1 DEF TypeOK
  <1>5. ConsumerShape'
    <2>1. ~m_state' => queue' = {}
      BY <1>1, <1>3
    <2>2. (m_state <=> m_consumer = "thread")' /\ (m_state => pc \notin {"none", "exited"})'
      BY <1>1 DEF ConsumerShape
    <2>3. (join = "joining" => m_consumer = "none" /\ pc # "none")'
      BY <1>1 DEF ConsumerShape
    <2>4. (join = "joined" => pc = "exited")'
      BY <1>1 DEF ConsumerShape
    <2>5. QED
      BY <1>1, <2>1, <2>2, <2>3, <2>4 DEF ConsumerShape
  <1>6. NoLostWakeup'
    BY <1>1 DEF NoLostWakeup
  <1>7. QED
    BY <1>3, <1>4, <1>5, <1>6

\* The steps of the consumer that begin an iteration or a wait, and the clock.
LEMMA BeginIInv == IInv /\ (LockState \/ WaitEmpty \/ Expire \/ Tick) => IInv'
  <1> SUFFICES ASSUME IInv, LockState \/ WaitEmpty \/ Expire \/ Tick PROVE IInv'
    OBVIOUS
  <1> USE SchedulerAssumption DEF IInv, LockState, WaitEmpty, Expire, Tick, history
  <1>1. TypeOK'
    <2>1. woken' \in BOOLEAN /\ m_state' \in BOOLEAN
      BY DEF TypeOK
    <2>2. QED
      BY <2>1 DEF TypeOK
  <1>2. ConsumerShape'
    <2>1. (pc = "expired" => \A e \in hand : e.due <= now /\ Earliest(e))'
      BY DEF TypeOK, ConsumerShape, Earliest, NoLostWakeup, Entry
    <2>2. (~m_state /\ ~HoldsState => queue = {})'
      BY DEF ConsumerShape, HoldsState, NoLostWakeup
    <2>3. (m_state => pc \notin {"none", "exited"})' /\ (join = "joined" => pc = "exited")'
      BY DEF ConsumerShape
    <2>4. CASE Expire
      BY <2>1, <2>2, <2>3, <2>4 DEF ConsumerShape
    <2>5. CASE LockState \/ WaitEmpty
      <3>1. pc \in {"lock", "enter"} /\ hand = {} /\ pc' \notin {"timed", "expired", "none"}
        BY <2>5 DEF ConsumerShape
      <3>2. QED
        BY <2>1, <2>2, <2>3, <2>5, <3>1 DEF ConsumerShape
    <2>6. CASE Tick
      BY <2>1, <2>2, <2>3, <2>6 DEF ConsumerShape
    <2>7. QED
      BY <2>4, <2>5, <2>6
  <1>3. EachJobOnce'
    BY DEF EachJobOnce
  <1>4. NoLostWakeup'
    BY DEF NoLostWakeup, Earliest
  <1>5. QED
    BY <1>1, <1>2, <1>3, <1>4

\* The consumer takes the earliest entry off the queue.
LEMMA TakeIInv == IInv /\ Take => IInv'
  <1> SUFFICES ASSUME IInv, Take PROVE IInv'
    OBVIOUS
  <1> USE DEF IInv
  <1>1. PICK e \in queue : Earliest(e) /\ hand' = {e} /\ queue' = queue \ {e}
    BY DEF Take
  <1>2. /\ pc = "enter" /\ pc' = "timed" /\ m_state /\ woken' = FALSE /\ hand = {}
        /\ UNCHANGED <<m_consumer, m_state, now, join, accepted, ran, dropped>>
    BY DEF Take, ConsumerShape, history
  <1>3. TypeOK'
    BY <1>1, <1>2 DEF TypeOK
  <1>4. ConsumerShape'
    BY <1>1, <1>2 DEF ConsumerShape, HoldsState
  <1>5. EachJobOnce'
    <2>1. queue \cup hand = queue /\ (queue \cup hand)' = queue
      BY <1>1, <1>2
    <2>2. Ids(queue) = Ids(queue') \cup Ids(hand')
      BY <1>1 DEF Ids
    <2>3. QED
      BY <1>1, <1>2, <2>1, <2>2, IdsEmpty DEF EachJobOnce
  <1>6. NoLostWakeup'
    BY <1>1, <1>2 DEF NoLostWakeup, Earliest
  <1>7. QED
    BY <1>3, <1>4, <1>5, <1>6

\* The job in hand begins.
LEMMA RunIInv == IInv /\ Run => IInv'
  <1> SUFFICES ASSUME IInv, Run PROVE IInv'
    OBVIOUS
  <1> USE DEF IInv, Run
  <1>1. Ids(hand) \subseteq Jobs
    BY IdsType DEF TypeOK
  <1>2. TypeOK'
    BY <1>1 DEF TypeOK
  <1>3. ConsumerShape'
    BY DEF ConsumerShape, HoldsState
  <1>4. EachJobOnce'
    <2>1. Ids(queue \cup hand) = Ids(queue) \cup Ids(hand) /\ Ids(queue) \cap Ids(hand) = {}
      BY DEF EachJobOnce, Ids
    <2>2. QED
      BY <2>1, IdsEmpty DEF EachJobOnce
  <1>5. NoLostWakeup'
    BY DEF NoLostWakeup
  <1>6. QED
    BY <1>2, <1>3, <1>4, <1>5

\* Every step preserves the invariant.
LEMMA NextIInv == IInv /\ [Next]_vars => IInv'
  <1> SUFFICES ASSUME IInv, [Next]_vars PROVE IInv'
    OBVIOUS
  <1>1. CASE UNCHANGED vars
    BY <1>1 DEF vars, history, IInv, TypeOK, ConsumerShape, EachJobOnce, NoLostWakeup,
         HoldsState, Earliest
  <1>2. CASE Owner
    BY <1>2, GoIInv, StopIInv DEF Owner
  <1>3. ASSUME NEW j \in Jobs, NEW d \in Delays, Push(j, d) PROVE IInv'
    BY <1>3, PushIInv
  <1>4. CASE Consumer
    BY <1>4, BeginIInv, EndIInv, TakeIInv, RunIInv DEF Consumer
  <1>5. CASE Tick
    BY <1>5, BeginIInv
  <1>6. QED
    BY <1>1, <1>2, <1>3, <1>4, <1>5 DEF Next, Halted

\* The invariant holds in every reachable state.
THEOREM SchedulerInvariant == Spec => []IInv
  <1>1. QED
    BY InitIInv, NextIInv, PTL DEF Spec

-------------------------------------------------------------------------------
(* The properties of Scheduler.                                            *)

\* Every variable keeps its type, with any jobs, delays and horizon.
THEOREM SchedulerTypeCorrect == Spec => []TypeOK
  BY SchedulerInvariant, PTL DEF IInv

\* Conservation: an accepted job is in the queue, in hand, begun or dropped, in
\* exactly one of these.
THEOREM SchedulerConservation == Spec => []EachJobOnce
  BY SchedulerInvariant, PTL DEF IInv

\* A consumer blocked in a wait that no broadcast has reached has nothing better
\* to do.
THEOREM SchedulerWakeups == Spec => []NoLostWakeup
  BY SchedulerInvariant, PTL DEF IInv

\* When stop() has returned, no job runs or is left to run.
THEOREM SchedulerStopIsFinal == Spec => []StopIsFinal
  <1>1. IInv => StopIsFinal
    BY DEF IInv, ConsumerShape, StopIsFinal, HoldsState
  <1>2. QED
    BY <1>1, SchedulerInvariant, PTL

\* A job begins at or after its due time, and no job due earlier is waiting.
THEOREM SchedulerDueOrder == Spec => StartsInDueOrder
  <1> DEFINE A == \A e \in hand : e.job \in ran' \ ran => e.due <= now /\ Earliest(e)
  <1>1. ASSUME IInv, [Next]_vars PROVE [A]_vars
    <2>1. CASE Run
      BY <1>1, <2>1 DEF IInv, ConsumerShape, Run
    <2>2. CASE ~Run
      <3>1. ran' = ran
        BY <1>1, <2>2 DEF Next, vars, history, Owner, Consumer, Halted, Go, GoFails,
             Crash, Stop, StopSelf, Joined, Push, LockState, ExitUnique, WaitEmpty,
             Take, WakeEmpty, Requeue, Expire, ExitExpired, Finish, Tick
      <3>2. QED
        BY <3>1
    <2>3. QED
      BY <2>1, <2>2
  <1>2. QED
    BY <1>1, SchedulerInvariant, PTL DEF Spec, StartsInDueOrder

\* A job that will not run was dropped by a Unit that had been stopped.
THEOREM SchedulerDrops == Spec => DropsOnlyAfterStop
  <1>1. ASSUME [Next]_vars PROVE [dropped' # dropped => ~m_state']_vars
    BY <1>1 DEF Next, vars, history, Owner, Consumer, Halted, Go, GoFails, Crash, Stop,
         StopSelf, DropState, Joined, Push, LockState, ExitUnique, WaitEmpty, Take,
         WakeEmpty, Requeue, Expire, ExitExpired, Run, Finish, Tick, Release
  <1>2. QED
    BY <1>1, PTL DEF Spec, DropsOnlyAfterStop

-------------------------------------------------------------------------------
(* The refinement of JobQueue.                                             *)

\* A step of the scheduler is a step of the abstract timed queue, or leaves it
\* alone: go() opens it, stop() closes it, push() submits, Run starts the job in
\* hand, and the clock passes; taking, reinserting and waiting do not show.
LEMMA StepRefines == IInv /\ [Next]_vars => [Promise!Next]_Promise!abstractVars
  <1> SUFFICES ASSUME IInv, [Next]_vars
               PROVE  Promise!Next \/ UNCHANGED Promise!abstractVars
    BY DEF Promise!abstractVars
  <1> USE DEF IInv, Promise!abstractVars, history
  <1>1. CASE UNCHANGED vars \/ Halted
    BY <1>1 DEF vars, Pending, Halted
  <1>2. CASE Go
    <2>1. Pending = {} /\ Pending' = {}
      BY <1>2 DEF Go, ConsumerShape, Pending, HoldsState
    <2>2. Promise!Open
      BY <1>2, <2>1 DEF Go, ConsumerShape, Promise!Open
    <2>3. QED
      BY <2>2 DEF Promise!Next
  <1>3. CASE GoFails \/ Crash \/ Joined
    BY <1>3 DEF GoFails, Crash, Joined, Pending
  <1>4. CASE Stop \/ StopSelf
    <2>1. m_state /\ ~m_state' /\ Pending' = {}
      BY <1>4 DEF Stop, StopSelf, DropState, ConsumerShape, Pending
    <2>2. Promise!Close
      BY <1>4, <2>1 DEF Stop, StopSelf, DropState, Promise!Close
    <2>3. QED
      BY <2>2 DEF Promise!Next
  <1>5. ASSUME NEW j \in Jobs, NEW d \in Delays, Push(j, d)
        PROVE  Promise!Next
    <2>1. m_state /\ Pending' = Pending \cup {[job |-> j, due |-> now + d]}
      BY <1>5 DEF Push, ConsumerShape, Pending
    <2>2. Promise!Submit(j, d)
      BY <1>5, <2>1 DEF Push, Promise!Submit
    <2>3. QED
      BY <2>2 DEF Promise!Next
  <1>6. CASE Tick
    BY <1>6 DEF Tick, Pending, Promise!Pass, Promise!Next
  <1>7. CASE Run
    <2>1. PICK e \in hand : hand = {e}
      BY <1>7 DEF Run, ConsumerShape
    <2>2. e \in Pending /\ Pending = queue \cup {e} /\ Pending' = Pending \ {e}
      BY <1>7, <2>1 DEF Run, Pending, EachJobOnce
    <2>3. e.due <= now /\ \A f \in Pending : e.due <= f.due
      BY <1>7, <2>1, <2>2 DEF Run, ConsumerShape, Earliest, TypeOK, Entry
    <2>4. e.job \notin ran /\ ran' = ran \cup {e.job}
      BY <1>7, <2>1 DEF Run, EachJobOnce, Ids
    <2>5. Promise!Start(e)
      BY <1>7, <2>2, <2>3, <2>4 DEF Run, Promise!Start
    <2>6. QED
      BY <2>2, <2>5 DEF Promise!Next
  <1>8. CASE LockState \/ WaitEmpty \/ Expire
    BY <1>8 DEF LockState, WaitEmpty, Expire, Pending
  <1>9. CASE Take
    <2>1. (queue \cup hand)' = queue \cup hand
      BY <1>9 DEF Take, ConsumerShape
    <2>2. QED
      BY <1>9, <2>1 DEF Take, Pending
  <1>10. CASE ExitUnique \/ WakeEmpty \/ Requeue \/ ExitExpired \/ Finish
    <2>1. m_state => (queue \cup hand)' = queue \cup hand
      BY <1>10 DEF ExitUnique, WakeEmpty, Requeue, ExitExpired, Finish, Release,
           ConsumerShape
    <2>2. QED
      BY <1>10, <2>1 DEF ExitUnique, WakeEmpty, Requeue, ExitExpired, Finish, Pending
  <1>11. QED
    BY <1>1, <1>2, <1>3, <1>4, <1>5, <1>6, <1>7, <1>8, <1>9, <1>10
    DEF Next, Owner, Consumer

\* The scheduler implements JobQueue.
THEOREM SchedulerRefinement == Spec => ImplementsJobQueue
  <1>1. Init => Promise!Init
    BY DEF Init, Promise!Init, Pending
  <1>2. QED
    BY <1>1, StepRefines, SchedulerInvariant, PTL
    DEF Spec, ImplementsJobQueue, Promise!Spec

-------------------------------------------------------------------------------
(* The key of the multimap, and the due time.                              *)

\* The fields of a normalised timespec.
LEMMA Fields ==
    ASSUME NEW t \in TimespecSet
    PROVE  /\ t.tv_sec \in Nat /\ t.tv_nsec \in Nat
           /\ t.tv_nsec < NanosPerSecond
           /\ t = [tv_sec |-> t.tv_sec, tv_nsec |-> t.tv_nsec]
  BY DEF TimespecSet

\* A second outweighs any number of nanoseconds a normalised timespec may have.
LEMMA EarlierSecond ==
    ASSUME NEW a \in Nat, NEW b \in Nat, NEW c \in Nat, NEW d \in Nat,
           c < NanosPerSecond, a < b
    PROVE  a * NanosPerSecond + c < b * NanosPerSecond + d
  BY Z3 DEF NanosPerSecond

\* The comparison the code writes with two early exits is the chronological one,
\* hence a strict weak ordering, which std::multimap requires of its key.
THEOREM LessIsChronological ==
    \A l, r \in TimespecSet : Less(l, r) <=> Instant(l) < Instant(r)
  <1> SUFFICES ASSUME NEW l \in TimespecSet, NEW r \in TimespecSet
               PROVE  Less(l, r) <=> Instant(l) < Instant(r)
    OBVIOUS
  <1> DEFINE a == l.tv_sec  b == r.tv_sec  c == l.tv_nsec  d == r.tv_nsec
  <1>1. a \in Nat /\ b \in Nat /\ c \in Nat /\ d \in Nat
    BY Fields
  <1>2. c < NanosPerSecond /\ d < NanosPerSecond
    BY Fields
  <1>3. /\ Less(l, r) <=> ~(a > b) /\ (a < b \/ c < d)
        /\ Instant(l) = a * NanosPerSecond + c
        /\ Instant(r) = b * NanosPerSecond + d
    BY DEF Less, Instant
  <1> HIDE DEF a, b, c, d
  <1>4. CASE a < b
    BY <1>1, <1>2, <1>3, <1>4, EarlierSecond, SMT
  <1>5. CASE b < a
    <2>1. b * NanosPerSecond + d < a * NanosPerSecond + c
      BY <1>1, <1>2, <1>5, EarlierSecond
    <2>2. QED
      BY <1>1, <1>3, <1>5, <2>1, SMT DEF NanosPerSecond
  <1>6. CASE a = b
    BY <1>1, <1>3, <1>6, SMT DEF NanosPerSecond
  <1>7. QED
    BY <1>1, <1>4, <1>5, <1>6, SMT

\* Two keys that the multimap takes for equivalent are the same instant: no entry
\* hides another with a different due time.
THEOREM EquivalentKeysAreEqual ==
    \A l, r \in TimespecSet : ~Less(l, r) /\ ~Less(r, l) => l = r
  <1> SUFFICES ASSUME NEW l \in TimespecSet, NEW r \in TimespecSet,
                      ~Less(l, r), ~Less(r, l)
               PROVE  l = r
    OBVIOUS
  <1>1. l.tv_sec = r.tv_sec /\ l.tv_nsec = r.tv_nsec
    BY Fields, SMT DEF Less
  <1>2. QED
    BY <1>1, Fields

\* A due time is normalised, lies exactly when seconds ahead, and is never before
\* the clock it was computed from: the fact the due order of the jobs rests on.
THEOREM DueIsAhead ==
    \A clock \in TimespecSet, when \in Nat :
        /\ Due(clock, when) \in TimespecSet
        /\ Instant(Due(clock, when)) = Instant(clock) + when * NanosPerSecond
        /\ ~Less(Due(clock, when), clock)
  <1> SUFFICES ASSUME NEW clock \in TimespecSet, NEW when \in Nat
               PROVE  /\ Due(clock, when) \in TimespecSet
                      /\ Instant(Due(clock, when)) = Instant(clock) + when * NanosPerSecond
                      /\ ~Less(Due(clock, when), clock)
    OBVIOUS
  <1> DEFINE s == clock.tv_sec  n == clock.tv_nsec
  <1>1. s \in Nat /\ n \in Nat /\ n < NanosPerSecond
    BY Fields
  <1>2. Due(clock, when).tv_sec = s + when /\ Due(clock, when).tv_nsec = n
    BY DEF Due
  <1>3. Due(clock, when) \in TimespecSet
    BY SMT DEF Due, TimespecSet
  <1>4. Instant(Due(clock, when)) = (s + when) * NanosPerSecond + n
    BY <1>2 DEF Instant
  <1>5. Instant(clock) = s * NanosPerSecond + n
    BY DEF Instant
  <1>6. ~Less(Due(clock, when), clock)
    BY <1>1, <1>2, SMT DEF Less
  <1> HIDE DEF s, n
  <1>7. (s + when) * NanosPerSecond + n = s * NanosPerSecond + n + when * NanosPerSecond
    BY <1>1, Z3 DEF NanosPerSecond
  <1>8. QED
    BY <1>3, <1>4, <1>5, <1>6, <1>7

===============================================================================
