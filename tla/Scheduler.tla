------------------------------- MODULE Scheduler -------------------------------
(***************************************************************************)
(* The timed job queue of src/scheduler.cpp: one Scheduler::Unit, the      *)
(* thread that runs Unit::consume, and the threads that call go(), push()  *)
(* and stop().                                                             *)
(*                                                                         *)
(* Every critical section of s_mutex is one action.  The consumer leaves   *)
(* the mutex in three places, and these are its program points: blocked on *)
(* the condition variable ("wait", "timed"), inside a job ("run"), and     *)
(* between two iterations ("lock" before w.lock(), "enter" before the      *)
(* mutex).  "expired" is a timed wait that has already ended with          *)
(* ETIMEDOUT but has not got the mutex back: a broadcast no longer         *)
(* reaches it.                                                             *)
(*                                                                         *)
(* A job is the occurrence of one push, so each is pushed at most once.    *)
(* The multimap is a set of entries: entries with equal due times are      *)
(* taken in any order.  A new Unit is made for every Central::init(), so   *)
(* Go restarts only after the previous consumer thread is gone.            *)
(***************************************************************************)
EXTENDS Naturals

CONSTANTS
    Jobs,       \* the jobs that may be pushed
    Delays,     \* the values of push()'s when_
    Horizon     \* bound of the clock and of the due times

ASSUME SchedulerAssumption == Horizon \in Nat /\ Delays \subseteq Nat

VARIABLES
    m_consumer, \* "none" (0), "thread", "stale" (left non-zero by a failed
                \* pthread_create) or "crashed" (a null State was dereferenced)
    m_state,    \* the Unit holds its reference to the State
    queue,      \* State::queue
    pc,         \* where the consumer thread is
    hand,       \* x: the entry taken off the queue, as a set of at most one
    woken,      \* a broadcast has reached the blocked consumer
    now,        \* CLOCK_MONOTONIC
    join,       \* the caller of stop(): "no", "joining" or "joined"
    accepted,   \* history: the jobs push() accepted
    ran,        \* history: the jobs whose execution has begun
    dropped     \* history: the jobs destroyed without being run

vars == <<m_consumer, m_state, queue, pc, hand, woken, now, join,
          accepted, ran, dropped>>

history == <<accepted, ran, dropped>>

Entry == [job : Jobs, due : Nat]

Ids(entries) == {e.job : e \in entries}

Earliest(e) == \A f \in queue : e.due <= f.due

\* The consumer owns a reference (z) to the State from w.lock() to the end of
\* the iteration; z.unique() is then ~m_state.
HoldsState == pc \in {"enter", "wait", "timed", "expired", "run"}

Init ==
    /\ m_consumer = "none"
    /\ m_state = FALSE
    /\ queue = {}
    /\ pc = "none"
    /\ hand = {}
    /\ woken = FALSE
    /\ now = 0
    /\ join = "no"
    /\ accepted = {}
    /\ ran = {}
    /\ dropped = {}

-------------------------------------------------------------------------------
(* The threads that own the Unit.                                          *)

\* A consumer that waits on the condition variable is woken by a broadcast.
Signal == woken' = (woken \/ pc \in {"wait", "timed"})

\* Unit::go: any other state of m_consumer makes go() return true at once.
Go ==
    /\ m_consumer = "none"
    /\ join # "joining"
    /\ pc \in {"none", "exited"}
    /\ m_consumer' = "thread"
    /\ m_state' = TRUE
    /\ pc' = "lock"
    /\ join' = "no"
    /\ UNCHANGED <<queue, hand, woken, now, history>>

\* pthread_create fails: POSIX leaves the contents of m_consumer undefined.
GoFails ==
    /\ m_consumer = "none"
    /\ join # "joining"
    /\ pc \in {"none", "exited"}
    /\ m_consumer' = "stale"
    /\ UNCHANGED <<m_state, queue, pc, hand, woken, now, join, history>>

\* stop() and push() trust m_consumer and dereference the null m_state.
Crash ==
    /\ m_consumer = "stale"
    /\ m_consumer' = "crashed"
    /\ UNCHANGED <<m_state, queue, pc, hand, woken, now, join, history>>

\* Mutant of Push: the broadcast is forgotten.
PushQuietly(j, d) ==
    /\ m_consumer = "thread"
    /\ j \notin accepted
    /\ now + d <= Horizon
    /\ queue' = queue \cup {[job |-> j, due |-> now + d]}
    /\ accepted' = accepted \cup {j}
    /\ UNCHANGED <<m_consumer, m_state, pc, hand, woken, now, join, ran, dropped>>

\* Unit::push: refused (it returns true) unless the consumer is there.
Push(j, d) ==
    /\ m_consumer = "thread"
    /\ j \notin accepted
    /\ now + d <= Horizon
    /\ queue' = queue \cup {[job |-> j, due |-> now + d]}
    /\ accepted' = accepted \cup {j}
    /\ Signal
    /\ UNCHANGED <<m_consumer, m_state, pc, hand, now, join, ran, dropped>>

\* m_state.reset(): the State and its queue die with their last reference.
DropState ==
    /\ m_state' = FALSE
    /\ IF HoldsState
         THEN UNCHANGED <<queue, dropped>>
         ELSE queue' = {} /\ dropped' = dropped \cup Ids(queue)

\* Mutant of Stop: the consumer is not told.
StopQuietly ==
    /\ m_consumer = "thread"
    /\ m_consumer' = "none"
    /\ DropState
    /\ join' = "joining"
    /\ UNCHANGED <<pc, hand, woken, now, accepted, ran>>

\* Unit::stop called by another thread, up to pthread_join.
Stop ==
    /\ m_consumer = "thread"
    /\ m_consumer' = "none"
    /\ Signal
    /\ DropState
    /\ join' = "joining"
    /\ UNCHANGED <<pc, hand, now, accepted, ran>>

\* pthread_join returns, and with it stop().
Joined ==
    /\ join = "joining"
    /\ pc = "exited"
    /\ join' = "joined"
    /\ UNCHANGED <<m_consumer, m_state, queue, pc, hand, woken, now, history>>

\* Unit::stop called by a job (the job dropped the last reference to the Unit):
\* the thread is detached.
StopSelf ==
    /\ m_consumer = "thread"
    /\ pc = "run"
    /\ m_consumer' = "none"
    /\ DropState
    /\ UNCHANGED <<pc, hand, woken, now, join, accepted, ran>>

Tick ==
    /\ now < Horizon
    /\ now' = now + 1
    /\ UNCHANGED <<m_consumer, m_state, queue, pc, hand, woken, join, history>>

-------------------------------------------------------------------------------
(* The consumer thread: Unit::consume.                                     *)

\* The end of an iteration destroys z; if it was the last reference, the State
\* goes with it, and the jobs that q still holds are destroyed.
Release(q) ==
    IF m_state
      THEN queue' = q /\ UNCHANGED dropped
      ELSE queue' = {} /\ dropped' = dropped \cup Ids(q)

\* z = w.lock(): NULL once the Unit has reset its reference.
LockState ==
    /\ pc = "lock"
    /\ pc' = IF m_state THEN "enter" ELSE "exited"
    /\ UNCHANGED <<m_consumer, m_state, queue, hand, woken, now, join, history>>

\* Under the mutex: leave if the Unit is gone, block if there is no job, or take
\* the earliest entry and block until its time.
ExitUnique ==
    /\ pc = "enter"
    /\ ~m_state
    /\ pc' = "exited"
    /\ Release(queue)
    /\ UNCHANGED <<m_consumer, m_state, hand, woken, now, join, accepted, ran>>

WaitEmpty ==
    /\ pc = "enter"
    /\ m_state
    /\ queue = {}
    /\ pc' = "wait"
    /\ woken' = FALSE
    /\ UNCHANGED <<m_consumer, m_state, queue, hand, now, join, history>>

\* Mutant of Take: the entry is copied but not erased from the queue.
TakeCopy ==
    /\ pc = "enter"
    /\ m_state
    /\ \E e \in queue :
         /\ Earliest(e)
         /\ hand' = {e}
    /\ pc' = "timed"
    /\ woken' = FALSE
    /\ UNCHANGED <<m_consumer, m_state, queue, now, join, history>>

Take ==
    /\ pc = "enter"
    /\ m_state
    /\ \E e \in queue :
         /\ Earliest(e)
         /\ hand' = {e}
         /\ queue' = queue \ {e}
    /\ pc' = "timed"
    /\ woken' = FALSE
    /\ UNCHANGED <<m_consumer, m_state, now, join, history>>

\* condvar.wait(s_mutex) returns, with or without a broadcast: next iteration.
WakeEmpty ==
    /\ pc = "wait"
    /\ pc' = "lock"
    /\ woken' = FALSE
    /\ Release(queue)
    /\ UNCHANGED <<m_consumer, m_state, hand, now, join, accepted, ran>>

\* Mutant of Requeue: the entry in hand is not put back.
Forget ==
    /\ pc = "timed"
    /\ pc' = "lock"
    /\ woken' = FALSE
    /\ hand' = {}
    /\ Release(queue)
    /\ UNCHANGED <<m_consumer, m_state, now, join, accepted, ran>>

\* The timed wait ends for another reason than ETIMEDOUT: the entry goes back.
Requeue ==
    /\ pc = "timed"
    /\ pc' = "lock"
    /\ woken' = FALSE
    /\ hand' = {}
    /\ Release(queue \cup hand)
    /\ UNCHANGED <<m_consumer, m_state, now, join, accepted, ran>>

\* Mutant of Expire: any return of the wait counts as a timeout.
ExpireAnyhow ==
    /\ pc = "timed"
    /\ pc' = "expired"
    /\ UNCHANGED <<m_consumer, m_state, queue, hand, woken, now, join, history>>

\* The deadline passes before a broadcast.
Expire ==
    /\ pc = "timed"
    /\ ~woken
    /\ \A e \in hand : e.due <= now
    /\ pc' = "expired"
    /\ UNCHANGED <<m_consumer, m_state, queue, hand, woken, now, join, history>>

\* After the timeout, under the mutex again: break if the Unit is gone (x dies).
ExitExpired ==
    /\ pc = "expired"
    /\ ~m_state
    /\ pc' = "exited"
    /\ hand' = {}
    /\ Release(queue \cup hand)
    /\ UNCHANGED <<m_consumer, m_state, woken, now, join, accepted, ran>>

\* ... or leave the mutex and run the job.
Run ==
    /\ pc = "expired"
    /\ m_state
    /\ pc' = "run"
    /\ hand' = {}
    /\ ran' = ran \cup Ids(hand)
    /\ UNCHANGED <<m_consumer, m_state, queue, woken, now, join, accepted, dropped>>

\* The job returns; g.enter(), and the iteration ends.
Finish ==
    /\ pc = "run"
    /\ pc' = "lock"
    /\ Release(queue)
    /\ UNCHANGED <<m_consumer, m_state, hand, woken, now, join, accepted, ran>>

\* A crashed process does nothing more.
Halted == m_consumer = "crashed" /\ UNCHANGED vars

Owner == Go \/ GoFails \/ Crash \/ Stop \/ Joined \/ StopSelf

Consumer ==
    \/ LockState \/ ExitUnique \/ WaitEmpty \/ Take \/ WakeEmpty \/ Requeue
    \/ Expire \/ ExitExpired \/ Run \/ Finish

Next ==
    \/ Owner
    \/ \E j \in Jobs, d \in Delays : Push(j, d)
    \/ Consumer
    \/ Tick
    \/ Halted

Spec == Init /\ [][Next]_vars

(***************************************************************************)
(* The consumer thread is scheduled whenever it can run; a blocked wait    *)
(* ends once a broadcast has reached it, and a deadline that has passed    *)
(* ends it in spite of spurious wakeups; time passes.  Nothing obliges the *)
(* owner to call go() or stop(), a caller to push, a wait to end           *)
(* spuriously, or a job to return: one may block for ever in the read of a *)
(* guest's output (ve.cpp:324), in PrlJob_Wait without a timeout           *)
(* (ve.cpp:471) or over the output of a program (host.cpp:301, ve.cpp:541).*)
(***************************************************************************)
Fairness ==
    /\ WF_vars(LockState)
    /\ WF_vars(ExitUnique \/ WaitEmpty \/ Take)
    /\ WF_vars(woken /\ (WakeEmpty \/ Requeue))
    /\ SF_vars(Expire)
    /\ WF_vars(ExitExpired \/ Run)
    /\ WF_vars(Joined)
    /\ WF_vars(Tick)

FairSpec == Spec /\ Fairness

-------------------------------------------------------------------------------
(* Properties.                                                             *)

TypeOK ==
    /\ m_consumer \in {"none", "thread", "stale", "crashed"}
    /\ m_state \in BOOLEAN
    /\ queue \subseteq Entry
    /\ pc \in {"none", "lock", "enter", "wait", "timed", "expired", "run", "exited"}
    /\ hand \subseteq Entry
    /\ woken \in BOOLEAN
    /\ now \in Nat
    /\ join \in {"no", "joining", "joined"}
    /\ accepted \subseteq Jobs
    /\ ran \subseteq Jobs
    /\ dropped \subseteq Jobs

\* Every job that push() accepted is in exactly one place: in the queue, in the
\* consumer's hand, begun, or destroyed with the State.  None is lost and none is
\* there twice, whatever the order of pushes, wakeups, reinsertions and stop().
EachJobOnce ==
    /\ accepted = Ids(queue) \cup Ids(hand) \cup ran \cup dropped
    /\ queue \cap hand = {}
    /\ \A e, f \in queue \cup hand : e.job = f.job => e = f
    /\ Ids(queue \cup hand) \cap (ran \cup dropped) = {}
    /\ ran \cap dropped = {}

\* No lost wakeup: a consumer that is blocked and has not been woken has nothing
\* better to do.  The Unit still refers to its State, an untimed wait means an
\* empty queue, and a timed one is for the earliest job of all.
NoLostWakeup ==
    /\ pc = "wait" /\ ~woken => m_state /\ queue = {}
    /\ pc = "timed" /\ ~woken => m_state /\ \A e \in hand : Earliest(e)

\* Once stop() has returned to its caller the consumer thread is gone and no job
\* is left anywhere: what a job refers to may be torn down (Central::fini).
StopIsFinal ==
    join = "joined" => pc = "exited" /\ queue = {} /\ hand = {}

\* A job begins no earlier than it was asked to, and never while a job due before
\* it is waiting in the queue: push() and the timed wait read the same clock.
StartsInDueOrder ==
    [][\A e \in hand : e.job \in ran' \ ran => e.due <= now /\ Earliest(e)]_vars

\* A job is destroyed without having run only when the Unit has been stopped.
DropsOnlyAfterStop == [][dropped' # dropped => ~m_state']_vars

\* No job blocks its thread for ever.
JobsReturn == []<>(pc # "run")

\* If jobs return, every accepted job is settled: it eventually runs, or is destroyed
\* because the Unit was stopped (DropsOnlyAfterStop).  It does not stay in a queue for
\* ever, whatever is pushed before it and whatever wakes the consumer.
AcceptedJobSettles ==
    JobsReturn => \A j \in Jobs : j \in accepted ~> j \in ran \cup dropped

\* If jobs return, stop() does: the consumer sees that the Unit is gone, between two jobs,
\* blocked on the condition variable, or on its way there.
StopReturns == JobsReturn => (join = "joining" ~> join = "joined")

\* The scheduler implements the abstract timed queue: the entry in the hand of
\* the consumer is still pending, and what is left when the Unit lets go of the
\* State is forgotten.
Pending == IF m_state THEN queue \cup hand ELSE {}

Promise == INSTANCE JobQueue WITH
    open <- m_state, pending <- Pending, submitted <- accepted, started <- ran

ImplementsJobQueue == Promise!Spec

===============================================================================
