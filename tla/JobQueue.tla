------------------------------- MODULE JobQueue -------------------------------
(***************************************************************************)
(* What the scheduler promises to the rest of the agent, without threads,  *)
(* mutexes or condition variables: a queue of timed jobs that is open or   *)
(* closed.  A submitted job starts once its due time has come and no       *)
(* pending job is due before it; closing the queue forgets what is         *)
(* pending.  Module Scheduler is shown to implement this specification.    *)
(***************************************************************************)
EXTENDS Naturals

CONSTANTS Jobs, Delays, Horizon

VARIABLES
    open,       \* jobs are accepted and started
    now,        \* the monotonic clock
    pending,    \* the submitted jobs that have not started, with their due time
    submitted,  \* every job that was ever accepted
    started     \* every job whose execution has begun

abstractVars == <<open, now, pending, submitted, started>>

Init ==
    /\ open = FALSE
    /\ now = 0
    /\ pending = {}
    /\ submitted = {}
    /\ started = {}

Open ==
    /\ ~open
    /\ open' = TRUE
    /\ UNCHANGED <<now, pending, submitted, started>>

Submit(j, d) ==
    /\ open
    /\ j \notin submitted
    /\ now + d <= Horizon
    /\ submitted' = submitted \cup {j}
    /\ pending' = pending \cup {[job |-> j, due |-> now + d]}
    /\ UNCHANGED <<open, now, started>>

Start(e) ==
    /\ open
    /\ e.due <= now
    /\ \A f \in pending : e.due <= f.due
    /\ e.job \notin started
    /\ pending' = pending \ {e}
    /\ started' = started \cup {e.job}
    /\ UNCHANGED <<open, now, submitted>>

Close ==
    /\ open
    /\ open' = FALSE
    /\ pending' = {}
    /\ UNCHANGED <<now, submitted, started>>

Pass ==
    /\ now < Horizon
    /\ now' = now + 1
    /\ UNCHANGED <<open, pending, submitted, started>>

Next ==
    \/ Open
    \/ \E j \in Jobs, d \in Delays : Submit(j, d)
    \/ \E e \in pending : Start(e)
    \/ Close
    \/ Pass

Spec == Init /\ [][Next]_abstractVars

===============================================================================
