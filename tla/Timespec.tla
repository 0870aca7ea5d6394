------------------------------- MODULE Timespec -------------------------------
(***************************************************************************)
(* The key of the scheduler's multimap: std::less<timespec> as the code    *)
(* writes it, and the due time that Unit::push computes.  Module Scheduler *)
(* takes a due time to be a number of seconds; the theorems about these    *)
(* operators, in SchedulerProofs, are what entitles it to.                 *)
(***************************************************************************)
EXTENDS Naturals

NanosPerSecond == 1000000000

\* A normalised timespec, as clock_gettime returns it.
TimespecSet == [tv_sec : Nat, tv_nsec : {n \in Nat : n < NanosPerSecond}]

\* std::less<timespec>::operator()
Less(left, right) ==
    /\ ~(left.tv_sec > right.tv_sec)
    /\ left.tv_sec < right.tv_sec \/ left.tv_nsec < right.tv_nsec

\* The due time of a job: the clock plus when_ seconds (Unit::push).
Due(clock, when) == [tv_sec |-> clock.tv_sec + when, tv_nsec |-> clock.tv_nsec]

\* The instant a timespec stands for.
Instant(t) == t.tv_sec * NanosPerSecond + t.tv_nsec

===============================================================================
