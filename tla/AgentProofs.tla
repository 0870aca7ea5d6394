------------------------------- MODULE AgentProofs ------------------------------
(***************************************************************************)
(* Proofs about Agent, for any number of threads of the SDK.               *)
(*                                                                         *)
(* The locks (LInv).  Where each lock is held is a property of the code    *)
(* (HoldsCallback, HoldsBig, HoldsVes), and the owner of a lock is the     *)
(* thread that is at such a place (OwnersAreThere).  Who holds g_big waits *)
(* for nothing, only the scheduler thread takes g_ves, and only the main   *)
(* thread holds the lock of the callbacks; so no circle can close.         *)
(*                                                                         *)
(* The life (LifeInv).  Each step of the main thread has a state of        *)
(* Central, the SDK and the scheduler that belongs to it.  The other       *)
(* threads do not leave it: before s_scheduler is set no job gets past     *)
(* g_big, and from then on each chain of jobs is queued or carried by the  *)
(* thread that will push it again.                                         *)
(***************************************************************************)
EXTENDS Agent, TLAPS

\* The operations of each thread.
MainOps ==
    {"Idle", "Ended", "Trap", "InitRest", "Again", "Undo", "After",
     "Fini", "FiniNothing", "FiniRest", "Commit"}
WorkerOps == JobOps \cup {"Idle", "Done"}
EventOps == {"Idle", "Event", "Detach", "PullKnown", "PullNew", "Update"}

\* Is the lock held before step i of operation o?
HoldsCallback(o, i) ==
    \/ o \in {"InitRest", "Again", "Undo", "After"}
    \/ o = "Trap" /\ i > 1

HoldsBig(o, i) ==
    \/ o \in {"Again", "FiniNothing"}
    \/ o \in {"InitRest", "Fini"} /\ i > 1
    \/ o = "Undo" /\ i < 3
    \/ o = "FiniRest" /\ i < 2
    \/ o \in {"LinkAttaches", "PullKnown"} /\ i > 2
    \/ o \in {"Inform", "Detach"} /\ i \in {2, 3}
    \/ o = "PullNew" /\ i > 3

HoldsVes(o, i) == o = "PullUsage" /\ i > 1

Holds(l, o, i) ==
    \/ l = "callback" /\ HoldsCallback(o, i)
    \/ l = "big" /\ HoldsBig(o, i)
    \/ l = "ves" /\ HoldsVes(o, i)

\* Step i of o changes what is held as it says, if s is where the code goes on.
Changes(o, i, p, j) ==
    \A l \in Locks :
        Holds(l, p, j) <=> \/ Code[o][i] = Take(l)
                           \/ Holds(l, o, i) /\ Code[o][i] # Drop(l)

\* A lock is left only where it is held.
DropsHeld(o, i) == \A l \in Locks : Code[o][i] = Drop(l) => Holds(l, o, i)

\* What is taken at a step, with what is held there.
Ordered(o, i) ==
    /\ HoldsBig(o, i) =>
          /\ LockOf(Code[o][i]) \notin {"callback", "big", "sinks"}
          /\ Code[o][i].do \notin {"join", "awaitSdk"}
    /\ HoldsVes(o, i) => LockOf(Code[o][i]) # "ves"
    /\ HoldsCallback(o, i) => LockOf(Code[o][i]) # "callback" /\ Code[o][i].do # "join"

\* Which thread takes which lock, by its operations.
Takers(o, i) ==
    /\ LockOf(Code[o][i]) = "ves" => o \in WorkerOps
    /\ LockOf(Code[o][i]) = "callback" => o \notin EventOps

\* The steps that jump, and those that are never the last.
Places(o, i) ==
    /\ Code[o][i].do = "openSdk" => o = "Trap" /\ i = 3
    /\ Code[o][i].do \in {"inject", "attachVes", "attachSinks", "go"} => o = "InitRest" /\ i < 9
    /\ Code[o][i].do \in {"attachVes", "attachSinks", "go"} => i > 1
    /\ Code[o][i].do = "inject" => i > 1
    /\ Code[o][i].do = "retract" => o = "Fini" /\ i = 2
    /\ Code[o][i].do = "lookOrLeave" => o = "LinkAttaches" /\ i = 1
    /\ Code[o][i].do = "handle" => o = "Event" /\ i = 1
    /\ Code[o][i].do = "look" => i < Len(Code[o])

Shape(o, i) ==
    /\ Code[o][i].do \in {"take", "drop"} => Code[o][i].of \in {"callback", "big", "ves"}
    /\ Code[o][i].do = "take" => Code[o][i] = Take(Code[o][i].of)
    /\ Code[o][i].do = "drop" => Code[o][i] = Drop(Code[o][i].of)
    /\ Code[o][i].do \notin {"take", "drop"} =>
            \A l \in Locks : Code[o][i] # Take(l) /\ Code[o][i] # Drop(l)

\* Where the code goes on is in an operation of the same thread.
SameThread(o) ==
    /\ o \in MainOps => Follow(o) \in MainOps
    /\ o \in WorkerOps => Follow(o) \in WorkerOps
    /\ o \in EventOps => Follow(o) \in EventOps

Good(o, i) ==
    /\ Code[o][i].do \notin {"openSdk", "retract", "handle"} =>
          IF i = Len(Code[o]) THEN Changes(o, i, Follow(o), 1) ELSE Changes(o, i, o, i + 1)
    /\ DropsHeld(o, i)
    /\ Ordered(o, i)
    /\ Takers(o, i)
    /\ Places(o, i)
    /\ Shape(o, i)

RightThread ==
    /\ op[Main] \in MainOps
    /\ op[Worker] \in WorkerOps
    /\ \A t \in Callbacks : op[t] \in EventOps

\* The owner of a lock is the thread whose code holds it where the thread is.
OwnersAreThere ==
    \A t \in Threads, l \in Locks : (owner[l] = t) <=> Holds(l, op[t], at[t])

\* The inductive invariant, but for the types of the rest of the state.
LInv == ThreadsTyped /\ RightThread /\ OwnersAreThere

-------------------------------------------------------------------------------
(* The code.                                                               *)
-------------------------------------------------------------------------------

\* Every operation of Code is one of the main thread, of the worker or of an SDK
\* thread.
LEMMA OpsAre == Ops = MainOps \cup WorkerOps \cup EventOps
BY DEF Ops, Code, MainOps, WorkerOps, EventOps, JobOps

\* What follows an operation is an operation of the same thread.
LEMMA FollowIsSameThread == \A o \in Ops : Follow(o) \in Ops /\ SameThread(o)
BY OpsAre DEF SameThread, Follow, MainOps, WorkerOps, EventOps, JobOps

\* Every step of every operation is what Good says.
LEMMA CodeIsGood ==
    \A o \in Ops :
        /\ Len(Code[o]) \in 0 .. 9
        /\ DOMAIN Code[o] = 1 .. Len(Code[o])
        /\ \A i \in 1 .. Len(Code[o]) : Good(o, i)
<1> DEFINE Fine(o) ==
        /\ Len(Code[o]) \in 0 .. 9
        /\ DOMAIN Code[o] = 1 .. Len(Code[o])
        /\ \A i \in 1 .. Len(Code[o]) : Good(o, i)
<1> SUFFICES ASSUME NEW o \in Ops PROVE Fine(o)
  OBVIOUS
<1> USE DEF Code, Good, Changes, DropsHeld, Ordered, Takers, Places, Shape, Follow, JobOps,
    Locks, Holds, HoldsCallback, HoldsBig, HoldsVes, LockOf, Take, Drop, Visit, Do, Submit,
    WorkerOps, EventOps
<1>1. Fine("Idle")
  OBVIOUS
<1>2. Fine("Ended")
  OBVIOUS
<1>3. Fine("Trap")
  BY DEF Trap
<1>4. Fine("InitRest")
  BY DEF InitRest
<1>5. Fine("Again")
  BY DEF Again
<1>6. Fine("Undo")
  BY DEF Undo
<1>7. Fine("After")
  BY DEF After
<1>8. Fine("Fini")
  BY DEF Fini
<1>9. Fine("FiniNothing")
  BY DEF FiniNothing
<1>10. Fine("FiniRest")
  BY DEF FiniRest
<1>11. Fine("Commit")
  BY DEF Commit
<1>12. Fine("LinkFails")
  BY DEF LinkFails
<1>13. Fine("LinkAttaches")
  BY DEF LinkAttaches
<1>14. Fine("PullState")
  BY DEF PullState
<1>15. Fine("PullUsage")
  BY DEF PullUsage
<1>16. Fine("Inform")
  BY DEF Inform
<1>17. Fine("Reap")
  BY DEF Reap
<1>18. Fine("Eject")
  BY DEF Eject
<1>19. Fine("Done")
  BY DEF Done
<1>20. Fine("Event")
  BY DEF Event
<1>21. Fine("Detach")
  BY DEF Detach
<1>22. Fine("PullKnown")
  BY DEF PullKnown
<1>23. Fine("PullNew")
  BY DEF PullNew
<1>24. Fine("Update")
  BY DEF Update
<1> HIDE DEF Fine, Code
<1> QED
  BY OpsAre, <1>1, <1>2, <1>3, <1>4, <1>5, <1>6, <1>7, <1>8, <1>9, <1>10, <1>11, <1>12,
    <1>13, <1>14, <1>15, <1>16, <1>17, <1>18, <1>19, <1>20, <1>21, <1>22, <1>23, <1>24
    DEF MainOps

-------------------------------------------------------------------------------
(* The steps.                                                              *)

\* A thread that moves takes and leaves the locks that its code says.
LEMMA Moves ==
    ASSUME LInv, NEW t \in Threads, NEW o \in Ops, NEW i \in 1 .. 9,
           op' = [op EXCEPT ![t] = o], at' = [at EXCEPT ![t] = i],
           knows' \in [Threads -> BOOLEAN],
           owner' \in [Locks -> Threads \cup {Nobody}],
           t = Main => o \in MainOps,
           t = Worker => o \in WorkerOps,
           t \in Callbacks => o \in EventOps,
           \A l \in Locks : (owner'[l] = t) <=> Holds(l, o, i),
           \A l \in Locks, u \in Threads \ {t} : (owner'[l] = u) <=> (owner[l] = u)
    PROVE  LInv'
<1>1. ThreadsTyped'
  BY DEF LInv, ThreadsTyped
<1>2. RightThread'
  BY AgentAssumption DEF LInv, ThreadsTyped, RightThread, Threads
<1>3. OwnersAreThere'
  <2> SUFFICES ASSUME NEW u \in Threads, NEW l \in Locks
               PROVE  (owner'[l] = u) <=> Holds(l, op'[u], at'[u])
    BY DEF OwnersAreThere
  <2>1. CASE u = t
    BY <2>1 DEF LInv, ThreadsTyped
  <2>2. CASE u # t
    BY <2>2 DEF LInv, ThreadsTyped, OwnersAreThere
  <2> QED
    BY <2>1, <2>2
<1> QED
  BY <1>1, <1>2, <1>3 DEF LInv

\* Where GoOn goes.
LEMMA GoesOn ==
    ASSUME LInv, NEW t \in Threads, at[t] \in DOMAIN Code[op[t]], GoOn(t),
           Here(t).do \notin {"openSdk", "retract", "handle"}
    PROVE  \E o \in Ops, i \in 1 .. 9 :
              /\ op' = [op EXCEPT ![t] = o] /\ at' = [at EXCEPT ![t] = i]
              /\ knows' \in [Threads -> BOOLEAN]
              /\ t = Main => o \in MainOps
              /\ t = Worker => o \in WorkerOps
              /\ t \in Callbacks => o \in EventOps
              /\ Changes(op[t], at[t], o, i)
<1>1. op[t] \in Ops /\ at[t] \in 1 .. Len(Code[op[t]]) /\ Len(Code[op[t]]) \in 0 .. 9
  BY CodeIsGood DEF LInv, ThreadsTyped
<1>2. Good(op[t], at[t])
  BY <1>1, CodeIsGood
<1>3. CASE Last(t) /\ Jump(t, Follow(op[t]))
  <2>1. Follow(op[t]) \in Ops /\ SameThread(op[t])
    BY <1>1, FollowIsSameThread
  <2>2. Changes(op[t], at[t], Follow(op[t]), 1)
    BY <1>2, <1>3 DEF Good, Here, Last
  <2>7. /\ t = Main => Follow(op[t]) \in MainOps
        /\ t = Worker => Follow(op[t]) \in WorkerOps
        /\ t \in Callbacks => Follow(op[t]) \in EventOps
    BY <2>1 DEF SameThread, LInv, RightThread
  <2>3. /\ op' = [op EXCEPT ![t] = Follow(op[t])] /\ at' = [at EXCEPT ![t] = 1]
        /\ knows' = [knows EXCEPT ![t] = FALSE]
    BY <1>3 DEF Jump
  <2>4. knows' \in [Threads -> BOOLEAN] /\ 1 \in 1 .. 9
    BY <2>3 DEF LInv, ThreadsTyped
  <2> USE <2>1, <2>4
  <2>5. WITNESS Follow(op[t]) \in Ops
  <2>6. WITNESS 1 \in 1 .. 9
  <2> QED
    BY <2>1, <2>2, <2>3, <2>4, <2>7
<1>4. CASE ~Last(t) /\ at' = [at EXCEPT ![t] = @ + 1] /\ UNCHANGED <<op, knows>>
  <2>1. Changes(op[t], at[t], op[t], at[t] + 1)
    BY <1>2, <1>4 DEF Good, Here, Last
  <2>2. at[t] + 1 \in 1 .. 9
    <3> DEFINE n == Len(Code[op[t]])
    <3>1. at[t] # n
      BY <1>4 DEF Last
    <3>2. n \in 0 .. 9 /\ at[t] \in 1 .. n
      BY <1>1
    <3> HIDE DEF n
    <3> QED
      BY <3>1, <3>2
  <2>3. op' = [op EXCEPT ![t] = op[t]]
    BY <1>4 DEF LInv, ThreadsTyped
  <2>4. at' = [at EXCEPT ![t] = at[t] + 1]
    BY <1>4
  <2> QED
    BY <1>1, <1>4, <2>1, <2>2, <2>3, <2>4 DEF LInv, ThreadsTyped, RightThread
<1> QED
  BY <1>3, <1>4 DEF GoOn

\* A step that neither takes nor leaves a lock.
LEMMA QuietStep ==
    ASSUME LInv, NEW t \in Threads, at[t] \in DOMAIN Code[op[t]], GoOn(t), UNCHANGED owner,
           Here(t).do \notin {"openSdk", "retract", "handle", "take", "drop"}
    PROVE  LInv'
<1>1. PICK o \in Ops, i \in 1 .. 9 :
              /\ op' = [op EXCEPT ![t] = o] /\ at' = [at EXCEPT ![t] = i]
              /\ knows' \in [Threads -> BOOLEAN]
              /\ t = Main => o \in MainOps
              /\ t = Worker => o \in WorkerOps
              /\ t \in Callbacks => o \in EventOps
              /\ Changes(op[t], at[t], o, i)
  BY GoesOn
<1>2. Good(op[t], at[t])
  BY CodeIsGood DEF LInv, ThreadsTyped
<1>3. \A l \in Locks : Holds(l, o, i) <=> Holds(l, op[t], at[t])
  BY <1>1, <1>2 DEF Good, Shape, Changes, Here
<1>4. \A l \in Locks : (owner'[l] = t) <=> Holds(l, o, i)
  BY <1>3 DEF LInv, OwnersAreThere
<1>5. owner' \in [Locks -> Threads \cup {Nobody}]
  BY DEF LInv, ThreadsTyped
<1> QED
  BY <1>1, <1>4, <1>5, Moves

\* A jump to an operation that begins with what is held.
LEMMA JumpStep ==
    ASSUME LInv, NEW t \in Threads, NEW o \in Ops, Jump(t, o), UNCHANGED owner,
           t = Main => o \in MainOps,
           t = Worker => o \in WorkerOps,
           t \in Callbacks => o \in EventOps,
           \A l \in Locks : Holds(l, o, 1) <=> Holds(l, op[t], at[t])
    PROVE  LInv'
<1>1. owner' \in [Locks -> Threads \cup {Nobody}] /\ knows' \in [Threads -> BOOLEAN]
  BY DEF LInv, ThreadsTyped, Jump
<1>2. \A l \in Locks : (owner'[l] = t) <=> Holds(l, o, 1)
  BY DEF LInv, OwnersAreThere
<1>3. op' = [op EXCEPT ![t] = o] /\ at' = [at EXCEPT ![t] = 1] /\ 1 \in 1 .. 9
  BY DEF Jump
<1>4. \A l \in Locks, u \in Threads \ {t} : (owner'[l] = u) <=> (owner[l] = u)
  OBVIOUS
<1> QED
  BY <1>1, <1>2, <1>3, <1>4, Moves

\* A step to the next one, with a look at the scheduler.
LEMMA NextStep ==
    ASSUME LInv, NEW t \in Threads, at[t] \in DOMAIN Code[op[t]],
           Here(t).do \in {"look", "lookOrLeave", "go"},
           op' = op, at' = [at EXCEPT ![t] = @ + 1], UNCHANGED owner,
           knows' \in [Threads -> BOOLEAN]
    PROVE  LInv'
<1> DEFINE n == Len(Code[op[t]])
<1>1. op[t] \in Ops /\ at[t] \in 1 .. n /\ n \in 0 .. 9
  BY CodeIsGood DEF LInv, ThreadsTyped
<1>2. Good(op[t], at[t])
  BY <1>1, CodeIsGood
<1>3. at[t] # n
  <2>1. Len(Code["InitRest"]) = 9 /\ Len(Code["LinkAttaches"]) = 5
    BY DEF Code, InitRest, LinkAttaches
  <2>2. Places(op[t], at[t])
    BY <1>2 DEF Good
  <2>3. CASE Here(t).do = "look"
    BY <1>1, <2>2, <2>3 DEF Places, Here
  <2>4. CASE Here(t).do = "lookOrLeave"
    <3>1. op[t] = "LinkAttaches" /\ at[t] = 1
      BY <2>2, <2>4 DEF Places, Here
    <3>2. n = 5
      BY <2>1, <3>1
    <3> QED
      BY <3>1, <3>2
  <2>5. CASE Here(t).do = "go"
    <3>1. op[t] = "InitRest" /\ at[t] < 9
      BY <2>2, <2>5 DEF Places, Here
    <3>2. n = 9
      BY <2>1, <3>1
    <3> QED
      BY <1>1, <3>1, <3>2
  <2> QED
    BY <2>3, <2>4, <2>5
<1>4. Changes(op[t], at[t], op[t], at[t] + 1)
  BY <1>2, <1>3 DEF Good, Here
<1>5. at[t] + 1 \in 1 .. 9
  <2> HIDE DEF n
  <2> QED
    BY <1>1, <1>3
<1>6. op' = [op EXCEPT ![t] = op[t]] /\ at' = [at EXCEPT ![t] = at[t] + 1]
  BY DEF LInv, ThreadsTyped
<1>7. \A l \in Locks : Holds(l, op[t], at[t] + 1) <=> Holds(l, op[t], at[t])
  BY <1>2, <1>4 DEF Good, Shape, Changes, Here
<1>8. \A l \in Locks : (owner'[l] = t) <=> Holds(l, op[t], at[t] + 1)
  BY <1>7 DEF LInv, OwnersAreThere
<1>9. owner' \in [Locks -> Threads \cup {Nobody}]
  BY DEF LInv, ThreadsTyped
<1> QED
  BY <1>1, <1>5, <1>6, <1>8, <1>9, Moves DEF LInv, RightThread

\* A thread that takes a lock keeps LInv: it becomes the owner, and its code holds
\* the lock where the thread goes on.
LEMMA TakeStep ==
    ASSUME LInv, NEW t \in Threads, TakeLock(t)
    PROVE  LInv'
<1> DEFINE l0 == Here(t).of
<1>1. at[t] \in DOMAIN Code[op[t]] /\ Here(t).do = "take" /\ GoOn(t)
  BY DEF TakeLock, Does, Before
<1>2. PICK o \in Ops, i \in 1 .. 9 :
              /\ op' = [op EXCEPT ![t] = o] /\ at' = [at EXCEPT ![t] = i]
              /\ knows' \in [Threads -> BOOLEAN]
              /\ t = Main => o \in MainOps
              /\ t = Worker => o \in WorkerOps
              /\ t \in Callbacks => o \in EventOps
              /\ Changes(op[t], at[t], o, i)
  BY <1>1, GoesOn
<1>3. Good(op[t], at[t])
  BY <1>1, CodeIsGood DEF LInv, ThreadsTyped
<1>4. l0 \in Locks /\ Code[op[t]][at[t]] = Take(l0)
  BY <1>1, <1>3 DEF Good, Shape, Here, Locks
<1>5. owner[l0] = Nobody /\ owner' = [owner EXCEPT ![l0] = t]
  BY <1>1, <1>4 DEF TakeLock, Does, LockOf, Free
<1> HIDE DEF l0
<1>6. \A l \in Locks : (owner'[l] = t) <=> Holds(l, o, i)
  <2> SUFFICES ASSUME NEW l \in Locks PROVE (owner'[l] = t) <=> Holds(l, o, i)
    OBVIOUS
  <2>1. CASE l = l0
    BY <1>2, <1>4, <1>5, <2>1 DEF Changes, LInv, ThreadsTyped
  <2>2. CASE l # l0
    <3>1. Take(l0) # Take(l) /\ Take(l0) # Drop(l)
      BY <2>2 DEF Take, Drop
    <3> QED
      BY <1>2, <1>4, <1>5, <2>2, <3>1 DEF Changes, LInv, OwnersAreThere, ThreadsTyped
  <2> QED
    BY <2>1, <2>2
<1>7. \A l \in Locks, u \in Threads \ {t} : (owner'[l] = u) <=> (owner[l] = u)
  BY <1>4, <1>5, AgentAssumption DEF LInv, ThreadsTyped
<1>8. owner' \in [Locks -> Threads \cup {Nobody}]
  BY <1>4, <1>5 DEF LInv, ThreadsTyped
<1> QED
  BY <1>2, <1>6, <1>7, <1>8, Moves

\* A thread that drops a lock keeps LInv: it was the owner, and its code does not
\* hold the lock where the thread goes on.
LEMMA DropStep ==
    ASSUME LInv, NEW t \in Threads, DropLock(t)
    PROVE  LInv'
<1> DEFINE l0 == Here(t).of
<1>1. at[t] \in DOMAIN Code[op[t]] /\ Here(t).do = "drop" /\ GoOn(t)
  BY DEF DropLock, Does, Before
<1>2. PICK o \in Ops, i \in 1 .. 9 :
              /\ op' = [op EXCEPT ![t] = o] /\ at' = [at EXCEPT ![t] = i]
              /\ knows' \in [Threads -> BOOLEAN]
              /\ t = Main => o \in MainOps
              /\ t = Worker => o \in WorkerOps
              /\ t \in Callbacks => o \in EventOps
              /\ Changes(op[t], at[t], o, i)
  BY <1>1, GoesOn
<1>3. Good(op[t], at[t])
  BY <1>1, CodeIsGood DEF LInv, ThreadsTyped
<1>4. l0 \in Locks /\ Code[op[t]][at[t]] = Drop(l0)
  BY <1>1, <1>3 DEF Good, Shape, Here, Locks
<1>5. owner' = [owner EXCEPT ![l0] = Nobody]
  BY DEF DropLock
<1>6. owner[l0] = t
  BY <1>3, <1>4 DEF Good, DropsHeld, LInv, OwnersAreThere
<1> HIDE DEF l0
<1>7. \A l \in Locks : (owner'[l] = t) <=> Holds(l, o, i)
  <2> SUFFICES ASSUME NEW l \in Locks PROVE (owner'[l] = t) <=> Holds(l, o, i)
    OBVIOUS
  <2>1. CASE l = l0
    <3>1. Drop(l0) # Take(l0)
      BY DEF Take, Drop
    <3> QED
      BY <1>2, <1>4, <1>5, <2>1, <3>1, AgentAssumption DEF Changes, LInv, ThreadsTyped
  <2>2. CASE l # l0
    <3>1. Drop(l0) # Take(l) /\ Drop(l0) # Drop(l)
      BY <2>2 DEF Take, Drop
    <3> QED
      BY <1>2, <1>4, <1>5, <2>2, <3>1 DEF Changes, LInv, OwnersAreThere, ThreadsTyped
  <2> QED
    BY <2>1, <2>2
<1>8. \A l \in Locks, u \in Threads \ {t} : (owner'[l] = u) <=> (owner[l] = u)
  BY <1>4, <1>5, <1>6, AgentAssumption DEF LInv, ThreadsTyped
<1>9. owner' \in [Locks -> Threads \cup {Nobody}]
  BY <1>4, <1>5 DEF LInv, ThreadsTyped
<1> QED
  BY <1>2, <1>7, <1>8, <1>9, Moves

\* The steps that any thread may have.
LEMMA AnyStep ==
    ASSUME LInv, StateTyped, NEW t \in Threads, Step(t)
    PROVE  LInv'
<1>1. CASE TakeLock(t)
  BY <1>1, TakeStep
<1>2. CASE DropLock(t)
  BY <1>2, DropStep
<1>3. CASE VisitLock(t) \/ Push(t) \/ PushNowhere(t)
  BY <1>3, QuietStep DEF VisitLock, Push, PushNowhere, Does, Before
<1>4. CASE Look(t)
  <2>1. knows' \in [Threads -> BOOLEAN]
    BY <1>4 DEF Look, LInv, ThreadsTyped, StateTyped
  <2> QED
    BY <1>4, <2>1, NextStep DEF Look, Does, Before
<1>5. CASE LookOrLeave(t)
  <2>1. at[t] \in DOMAIN Code[op[t]] /\ Here(t).do = "lookOrLeave" /\ UNCHANGED owner
    BY <1>5 DEF LookOrLeave, Does, Before
  <2>2. CASE scheduler /\ at' = [at EXCEPT ![t] = @ + 1] /\ UNCHANGED op
                       /\ knows' = [knows EXCEPT ![t] = TRUE]
    <3>1. knows' \in [Threads -> BOOLEAN]
      BY <2>2 DEF LInv, ThreadsTyped
    <3> QED
      BY <2>1, <2>2, <3>1, NextStep
  <2>3. CASE Jump(t, Follow(op[t]))
    <3>1. op[t] = "LinkAttaches" /\ at[t] = 1
      BY <2>1, CodeIsGood DEF LInv, ThreadsTyped, Good, Places, Here
    <3>2. Follow(op[t]) = "Done"
      BY <3>1 DEF Follow, JobOps
    <3>3. \A l \in Locks : Holds(l, "Done", 1) <=> Holds(l, op[t], at[t])
      BY <3>1 DEF Holds, HoldsCallback, HoldsBig, HoldsVes
    <3>4. t = Worker
      BY <3>1 DEF LInv, RightThread, Threads, MainOps, EventOps
    <3>5. "Done" \in Ops /\ "Done" \in WorkerOps /\ t # Main /\ t \notin Callbacks
      BY <3>4, OpsAre, AgentAssumption DEF WorkerOps
    <3> QED
      BY <2>1, <2>3, <3>2, <3>3, <3>5, JumpStep
  <2> QED
    BY <1>5, <2>2, <2>3 DEF LookOrLeave
<1> QED
  BY <1>1, <1>2, <1>3, <1>4, <1>5 DEF Step

\* The jumps of the main thread.
LEMMA MainJumps ==
    ASSUME LInv, NEW o \in MainOps, Jump(Main, o), UNCHANGED owner,
           \/ op[Main] = "Idle" /\ o \in {"Trap", "Fini", "Commit"}
           \/ Before(Main, "openSdk") /\ o \in {"InitRest", "After"}
           \/ Before(Main, "inject") /\ o = "Again"
           \/ Before(Main, "attachVes") /\ o = "Undo"
           \/ Before(Main, "attachSinks") /\ o = "Undo"
           \/ Before(Main, "go") /\ o = "Undo"
           \/ Before(Main, "retract") /\ o \in {"FiniRest", "FiniNothing"}
    PROVE  LInv'
<1>1. Main \in Threads /\ op[Main] \in Ops /\ at[Main] \in 1 .. 9
  BY DEF LInv, ThreadsTyped, Threads
<1>2. \A l \in Locks : Holds(l, o, 1) <=> Holds(l, op[Main], at[Main])
  <2>1. CASE op[Main] = "Idle" /\ o \in {"Trap", "Fini", "Commit"}
    BY <2>1 DEF Holds, HoldsCallback, HoldsBig, HoldsVes
  <2>2. CASE op[Main] # "Idle"
    <3>1. at[Main] \in DOMAIN Code[op[Main]]
      BY <2>2 DEF Before
    <3>2. Places(op[Main], at[Main])
      BY <1>1, <3>1, CodeIsGood DEF Good
    <3> QED
      BY <1>1, <2>2, <3>2 DEF Before, Here, Places, Holds, HoldsCallback, HoldsBig, HoldsVes
  <2>3. CASE op[Main] = "Idle" /\ o \notin {"Trap", "Fini", "Commit"}
    <3>1. Code["Idle"] = <<>> /\ DOMAIN Code["Idle"] = {}
      BY DEF Code
    <3> QED
      BY <2>3, <3>1 DEF Before
  <2> QED
    BY <2>1, <2>2, <2>3
<1>3. o \in Ops /\ Main \notin Callbacks /\ Main # Worker
  BY OpsAre, AgentAssumption
<1> QED
  BY <1>1, <1>2, <1>3, JumpStep

\* The steps of the main thread that are its own.
LEMMA MainsOwnStep ==
    ASSUME LInv, StateTyped,
           \/ SendTrap \/ BeginCommit \/ Deinit
           \/ Mask \/ Unmask \/ OpenSdk \/ Inject \/ AttachVes \/ AttachSinks \/ Go \/ Publish
           \/ Destroy \/ CloseSdk \/ AwaitSdk \/ Retract \/ Stop \/ Join
    PROVE  LInv'
<1>1. CASE SendTrap \/ BeginCommit \/ Deinit
  BY <1>1, MainJumps DEF SendTrap, BeginCommit, Deinit, MainOps
<1>2. CASE Mask \/ Unmask \/ Publish \/ Destroy \/ CloseSdk \/ AwaitSdk \/ Stop \/ Join
  BY <1>2, QuietStep DEF Mask, Unmask, Publish, Destroy, CloseSdk, AwaitSdk, Stop, Join, Does,
    Before, Threads
<1>3. CASE OpenSdk
  BY <1>3, MainJumps DEF OpenSdk, Does, MainOps
<1>4. CASE Inject
  BY <1>4, MainJumps, QuietStep DEF Inject, Does, Before, MainOps, Threads
<1>5. CASE AttachVes
  BY <1>5, MainJumps, QuietStep DEF AttachVes, Does, Before, MainOps, Threads
<1>6. CASE AttachSinks
  BY <1>6, MainJumps, QuietStep DEF AttachSinks, Does, Before, MainOps, Threads
<1>7. CASE Go
  <2>1. Main \in Threads /\ Before(Main, "go") /\ UNCHANGED owner
    BY <1>7 DEF Go, Does, Threads
  <2>2. CASE Jump(Main, "Undo")
    BY <2>1, <2>2, MainJumps DEF MainOps
  <2>3. CASE at' = [at EXCEPT ![Main] = @ + 1] /\ knows' = [knows EXCEPT ![Main] = TRUE]
             /\ UNCHANGED op
    <3>1. knows' \in [Threads -> BOOLEAN]
      BY <2>3 DEF LInv, ThreadsTyped
    <3> QED
      BY <2>1, <2>3, <3>1, NextStep DEF Before
  <2> QED
    BY <1>7, <2>2, <2>3 DEF Go
<1>8. CASE Retract
  BY <1>8, MainJumps DEF Retract, Does, MainOps
<1> QED
  BY <1>1, <1>2, <1>3, <1>4, <1>5, <1>6, <1>7, <1>8

\* Those of the scheduler thread.
LEMMA WorkersOwnStep ==
    ASSUME LInv, StateTyped,
           RunAny \/ Finish \/ Exit \/ Read \/ Activate \/ Unregister
    PROVE  LInv'
<1>0. Worker \in Threads
  BY DEF Threads
<1>1. CASE RunAny
  <2>1. PICK j \in Kept \cup {"Snatch", "Inform"} : Run(j)
    BY <1>1 DEF RunAny
  <2>2. PICK o \in BodyOf(j) : Jump(Worker, o)
    BY <2>1 DEF Run
  <2>3. o \in JobOps
    BY <2>2 DEF BodyOf, JobOps, Kept
  <2>4. \A l \in Locks : Holds(l, o, 1) <=> Holds(l, "Idle", at[Worker])
    BY <2>3 DEF JobOps, Holds, HoldsCallback, HoldsBig, HoldsVes
  <2>5. op[Worker] = "Idle" /\ UNCHANGED owner
    BY <2>1 DEF Run
  <2>6. o \in Ops /\ o \in WorkerOps /\ Worker # Main /\ Worker \notin Callbacks
    BY <2>3, OpsAre, AgentAssumption DEF WorkerOps
  <2> QED
    BY <1>0, <2>2, <2>4, <2>5, <2>6, JumpStep
<1>2. CASE Finish \/ Read \/ Activate
  BY <1>0, <1>2, QuietStep DEF Finish, Read, Activate, Does, Before
<1>3. CASE Unregister
  BY <1>0, <1>3, QuietStep DEF Unregister, Does, Before
<1>4. CASE Exit
  BY <1>4 DEF Exit, threads, LInv, ThreadsTyped, RightThread, OwnersAreThere
<1> QED
  BY <1>1, <1>2, <1>3, <1>4

\* And those of a thread of the SDK.
LEMMA EventStep ==
    ASSUME LInv, StateTyped, NEW t \in Callbacks, Deliver(t) \/ Handle(t) \/ Deactivate(t)
    PROVE  LInv'
<1>0. t \in Threads /\ t # Main /\ t # Worker
  BY AgentAssumption DEF Threads
<1>1. CASE Deliver(t)
  <2>1. \A l \in Locks : Holds(l, "Event", 1) <=> Holds(l, "Idle", at[t])
    BY DEF Holds, HoldsCallback, HoldsBig, HoldsVes
  <2> QED
    BY <1>0, <1>1, <2>1, OpsAre, JumpStep DEF Deliver, EventOps
<1>2. CASE Handle(t)
  <2>1. PICK o \in {"Idle", "Detach", "PullKnown", "PullNew", "Update"} : Jump(t, o)
    BY <1>2 DEF Handle
  <2>2. op[t] = "Event" /\ at[t] = 1 /\ UNCHANGED owner
    BY <1>0, <1>2, CodeIsGood DEF Handle, Does, Before, Good, Places, Here, LInv, ThreadsTyped
  <2>3. \A l \in Locks : Holds(l, o, 1) <=> Holds(l, "Event", 1)
    BY <2>1 DEF Holds, HoldsCallback, HoldsBig, HoldsVes
  <2>4. o \in Ops /\ o \in EventOps
    BY <2>1, OpsAre DEF EventOps
  <2> QED
    BY <1>0, <2>1, <2>2, <2>3, <2>4, JumpStep
<1>3. CASE Deactivate(t)
  BY <1>0, <1>3, QuietStep DEF Deactivate, Does, Before
<1> QED
  BY <1>1, <1>2, <1>3

\* Every step of the specification keeps LInv.
LEMMA LocksStep ==
    ASSUME LInv, StateTyped, [Next]_vars
    PROVE  LInv'
<1>1. CASE Step(Main) \/ Step(Worker) \/ (\E t \in Callbacks : Step(t))
  BY <1>1, AnyStep DEF Threads
<1>2. CASE FallSilent \/ Speak \/ Terminated \/ UNCHANGED vars
  BY <1>2 DEF FallSilent, Speak, Terminated, vars, threads, LInv, ThreadsTyped, RightThread,
    OwnersAreThere
<1> QED
  BY <1>1, <1>2, MainsOwnStep, WorkersOwnStep, EventStep
    DEF Next, MainStep, WorkerStep, CallbackStep

\* The rest of the state keeps its types.
LEMMA StateTypedStep ==
    ASSUME StateTyped, [Next]_vars
    PROVE  StateTyped'
<1> USE DEF StateTyped, process, central, sched
<1>1. ASSUME NEW t \in Threads, Step(t)
      PROVE  StateTyped'
  <2>1. CASE TakeLock(t) \/ DropLock(t) \/ VisitLock(t)
    BY <2>1 DEF TakeLock, DropLock, VisitLock
  <2>2. CASE Look(t) \/ LookOrLeave(t) \/ PushNowhere(t)
    BY <2>2 DEF Look, LookOrLeave, PushNowhere
  <2>3. CASE Push(t)
    BY <2>3 DEF Push, Kept
  <2> QED
    BY <1>1, <2>1, <2>2, <2>3 DEF Step
<1>2. CASE SendTrap \/ BeginCommit \/ Deinit
  BY <1>2 DEF SendTrap, BeginCommit, Deinit
<1>3. CASE Mask \/ Unmask
  BY <1>3 DEF Mask, Unmask
<1>4. CASE OpenSdk
  BY <1>4 DEF OpenSdk
<1>5. CASE Inject
  BY <1>5 DEF Inject
<1>6. CASE AttachVes \/ AttachSinks
  BY <1>6 DEF AttachVes, AttachSinks
<1>7. CASE Go
  BY <1>7 DEF Go
<1>8. CASE Publish \/ Destroy
  BY <1>8 DEF Publish, Destroy
<1>9. CASE CloseSdk \/ AwaitSdk
  BY <1>9 DEF CloseSdk, AwaitSdk
<1>10. CASE Retract \/ Stop \/ Join
  BY <1>10 DEF Retract, Stop, Join
<1>11. CASE RunAny
  <2>1. PICK j \in Kept \cup {"Snatch", "Inform"} : Run(j)
    BY <1>11 DEF RunAny
  <2>2. queue' = queue \ {j} /\ hand' \in Kept \cup {"none"}
    BY <2>1 DEF Run
  <2>3. UNCHANGED <<process, central, consumer, mute>>
    BY <2>1 DEF Run
  <2> QED
    BY <2>2, <2>3
<1>12. CASE Finish \/ Exit
  <2>1. CASE Finish
    BY <2>1 DEF Finish
  <2>2. CASE Exit
    BY <2>2 DEF Exit
  <2> QED
    BY <1>12, <2>1, <2>2
<1>13. CASE Read \/ Activate \/ Unregister
  <2>1. CASE Read
    BY <2>1 DEF Read
  <2>2. CASE Activate
    BY <2>2 DEF Activate
  <2>3. CASE Unregister
    <3>1. subscribed' \in {subscribed \ {1}, subscribed \ {2}}
      BY <2>3 DEF Unregister
    <3>2. UNCHANGED <<owner, sdk, masked, exposed, scalars, central, sched, mute>>
      BY <2>3 DEF Unregister
    <3> QED
      BY <3>1, <3>2
  <2> QED
    BY <1>13, <2>1, <2>2, <2>3
<1>14. ASSUME NEW t \in Callbacks, Deliver(t) \/ Handle(t) \/ Deactivate(t)
       PROVE  StateTyped'
  BY <1>14 DEF Deliver, Handle, Deactivate
<1>15. CASE FallSilent \/ Speak \/ Terminated \/ UNCHANGED vars
  <2>1. CASE UNCHANGED vars
    BY <2>1 DEF vars
  <2>2. CASE FallSilent
    BY <2>2 DEF FallSilent
  <2>3. CASE Speak
    BY <2>3 DEF Speak
  <2> QED
    BY <1>15, <2>1, <2>2, <2>3 DEF Terminated
<1>16. Main \in Threads /\ Worker \in Threads /\ Callbacks \subseteq Threads
  BY DEF Threads
<1> HIDE DEF StateTyped, process, central, sched
<1> QED
  BY <1>1, <1>2, <1>3, <1>4, <1>5, <1>6, <1>7, <1>8, <1>9, <1>10, <1>11, <1>12, <1>13, <1>14,
    <1>15, <1>16 DEF Next, MainStep, WorkerStep, CallbackStep

\* LInv and the types of the rest of the state hold in the initial states, where
\* no lock is held.
LEMMA AgentInit == Init => LInv /\ StateTyped
<1> SUFFICES ASSUME Init PROVE LInv /\ StateTyped
  OBVIOUS
<1>1. ThreadsTyped
  BY OpsAre DEF Init, ThreadsTyped, Threadless, MainOps
<1>2. RightThread
  BY DEF Init, RightThread, MainOps, WorkerOps, EventOps, Threads
<1>3. OwnersAreThere
  BY AgentAssumption DEF Init, OwnersAreThere, Holds, HoldsCallback, HoldsBig, HoldsVes
<1>4. StateTyped
  BY DEF Init, StateTyped, Kept
<1> QED
  BY <1>1, <1>2, <1>3, <1>4 DEF LInv

\* The variables have their types, and the owner of a lock is the thread whose code holds
\* it where the thread is: a lock is left by who took it, and no lock is left held.
THEOREM AgentTypeCorrect == Spec => [](TypeOK /\ OwnersAreThere)
<1>1. LInv /\ StateTyped /\ [Next]_vars => (LInv /\ StateTyped)'
  BY LocksStep, StateTypedStep
<1>2. LInv /\ StateTyped => TypeOK /\ OwnersAreThere
  BY DEF LInv, TypeOK
<1> QED
  BY AgentInit, <1>1, <1>2, PTL DEF Spec

-------------------------------------------------------------------------------
(* No circle.                                                              *)

\* A thread that waits for a lock is before a step that takes it, where something else may
\* be held, and the owner is where it holds it.
LEMMA WaitingForLock ==
    ASSUME LInv, NEW t \in Threads, NEW u \in Threads, WaitsForLock(t, u)
    PROVE  /\ LockOf(Here(t)) \in {"callback", "big", "ves"}
           /\ Good(op[t], at[t])
           /\ Holds(LockOf(Here(t)), op[u], at[u])
<1>1. Good(op[t], at[t])
  BY CodeIsGood DEF WaitsForLock, LInv, ThreadsTyped
<1>2. LockOf(Here(t)) \in Locks /\ owner[LockOf(Here(t))] = u
  BY DEF WaitsForLock
<1>3. Holds(LockOf(Here(t)), op[u], at[u])
  BY <1>2 DEF LInv, OwnersAreThere
<1> QED
  BY <1>1, <1>3 DEF Holds

\* The thread that holds g_big waits for nothing but g_ves.
LEMMA BigWaitsForVes ==
    ASSUME LInv, NEW t \in Threads, NEW u \in Threads, HoldsBig(op[t], at[t]), WaitsFor(t, u)
    PROVE  WaitsForLock(t, u) /\ LockOf(Here(t)) = "ves"
<1>1. op[t] # "Idle" /\ op[t] \in Ops
  BY DEF HoldsBig, LInv, ThreadsTyped
<1>2. CASE WaitsForLock(t, u)
  BY <1>2, WaitingForLock DEF Good, Ordered, Here
<1>3. ASSUME Before(t, "join") \/ Before(t, "awaitSdk") PROVE FALSE
  BY <1>1, <1>3, CodeIsGood DEF Before, Good, Ordered, Here
<1> QED
  BY <1>1, <1>2, <1>3 DEF WaitsFor, WaitsInConsume, WaitsInJoin, WaitsForEvents

\* Nobody waits for g_ves: the scheduler thread alone takes it, and not twice.
LEMMA NobodyWaitsForVes ==
    ASSUME LInv, NEW t \in Threads, NEW u \in Threads, WaitsForLock(t, u)
    PROVE  LockOf(Here(t)) \in {"callback", "big"}
<1> SUFFICES ASSUME LockOf(Here(t)) = "ves" PROVE FALSE
  BY WaitingForLock
<1>1. Good(op[t], at[t]) /\ HoldsVes(op[u], at[u])
  BY WaitingForLock DEF Holds
<1>2. op[t] \in WorkerOps /\ op[t] # "Idle"
  <2>1. op[t] \in WorkerOps
    BY <1>1 DEF Good, Takers, Here
  <2>2. Code["Idle"] = <<>> /\ DOMAIN Code["Idle"] = {}
    BY DEF Code
  <2> QED
    BY <2>1, <2>2 DEF WaitsForLock
<1>3. t = Worker
  BY <1>2 DEF LInv, RightThread, Threads, MainOps, WorkerOps, EventOps, JobOps
<1>4. u = Worker
  BY <1>1 DEF HoldsVes, LInv, RightThread, Threads, MainOps, EventOps
<1> QED
  BY <1>1, <1>3, <1>4 DEF Good, Ordered, Here

\* So who holds g_big waits for nothing.
LEMMA BigGoesOn ==
    ASSUME LInv, NEW t \in Threads, NEW u \in Threads, HoldsBig(op[t], at[t])
    PROVE  ~WaitsFor(t, u)
BY BigWaitsForVes, NobodyWaitsForVes

\* What is left of the waits when none of g_big is possible: of the scheduler thread for the
\* lock of the callbacks, of the main thread for the scheduler thread in stop, and for an event.
LEMMA OtherWaits ==
    ASSUME LInv, NEW t \in Threads, NEW u \in Threads, WaitsFor(t, u), ~HoldsBig(op[u], at[u])
    PROVE  \/ t = Worker /\ u = Main /\ HoldsCallback(op[Main], at[Main])
           \/ t = Main /\ u = Worker /\ ~HoldsCallback(op[Main], at[Main])
           \/ t = Main /\ u \in Callbacks
<1>1. CASE WaitsForLock(t, u)
  <2>1. LockOf(Here(t)) = "callback" /\ HoldsCallback(op[u], at[u])
    BY <1>1, WaitingForLock, NobodyWaitsForVes DEF Holds
  <2>2. u = Main
    BY <2>1 DEF HoldsCallback, LInv, RightThread, Threads, WorkerOps, EventOps, JobOps
  <2>3. Good(op[t], at[t])
    BY <1>1, WaitingForLock
  <2>4. t # Main
    BY <2>1, <2>2, <2>3 DEF Good, Ordered, Here
  <2>5. t \notin Callbacks
    BY <2>1, <2>3 DEF Good, Takers, Here, LInv, RightThread
  <2> QED
    BY <2>1, <2>2, <2>4, <2>5 DEF Threads
<1>2. CASE WaitsInConsume(t, u)
  <2>1. Holds("mutex", op[u], at[u])
    BY <1>2 DEF WaitsInConsume, LInv, OwnersAreThere, Locks
  <2> QED
    BY <2>1 DEF Holds
<1>3. CASE WaitsInJoin(t, u)
  <2>1. op[Main] \in Ops /\ at[Main] \in DOMAIN Code[op[Main]] /\ Here(Main).do = "join"
    BY <1>3 DEF WaitsInJoin, Before, LInv, ThreadsTyped, Threads
  <2>2. Good(op[Main], at[Main])
    BY <2>1, CodeIsGood
  <2> QED
    BY <1>3, <2>1, <2>2 DEF WaitsInJoin, Good, Ordered, Here
<1>4. CASE WaitsForEvents(t, u)
  BY <1>4 DEF WaitsForEvents
<1> QED
  BY <1>1, <1>2, <1>3, <1>4 DEF WaitsFor

\* With LInv no set of threads has each of them waiting for one of the set: the
\* holder of g_big and the SDK threads wait for none of it, and the worker waits for the
\* main thread only under the lock of the callbacks, where that one does not wait for it.
LEMMA NoCircle == ASSUME LInv PROVE NoCircularWait
<1> SUFFICES ASSUME NEW S \in (SUBSET Threads) \ {{}},
                    \A t \in S : \E u \in S : WaitsFor(t, u)
             PROVE  FALSE
  BY DEF NoCircularWait
<1>1. \A u \in S : ~HoldsBig(op[u], at[u])
  BY BigGoesOn
<1>2. ASSUME NEW t \in S
      PROVE  \E u \in S :
                \/ t = Worker /\ u = Main /\ HoldsCallback(op[Main], at[Main])
                \/ t = Main /\ u = Worker /\ ~HoldsCallback(op[Main], at[Main])
                \/ t = Main /\ u \in Callbacks
  BY <1>1, OtherWaits
<1>3. S \cap Callbacks = {}
  BY <1>2, AgentAssumption
<1>4. Worker \notin S
  BY <1>2, <1>3, AgentAssumption
<1>5. Main \notin S
  BY <1>2, <1>3, <1>4, AgentAssumption
<1> QED
  BY <1>3, <1>4, <1>5 DEF Threads

\* For any number of threads of the SDK no threads wait for each other in a circle: in each
\* set of threads there is one that waits for none of them, so that it can go on.
THEOREM AgentNoCircularWait == Spec => []NoCircularWait
<1>1. LInv /\ StateTyped /\ [Next]_vars => (LInv /\ StateTyped)'
  BY LocksStep, StateTypedStep
<1>2. LInv /\ StateTyped => NoCircularWait
  BY NoCircle
<1> QED
  BY AgentInit, <1>1, <1>2, PTL DEF Spec

-------------------------------------------------------------------------------
(* The life of the agent.                                                  *)
(*                                                                         *)
(* Each step of the main thread has a state of the agent that belongs to   *)
(* it (PhaseIs), from which the threads that it has made take nothing away *)
(* (FreshIs, ChainsAreCarried, TablesAreOwned).                            *)

\* All of it is there, or nothing.
Up == scheduler /\ sdk = "up" /\ consumer = "running" /\ tables
Down == ~scheduler /\ sdk = "down" /\ consumer = "none" /\ ~tables

\* Step i of InitRest, of Undo and of FiniRest; and all other steps.
InitPhase(i) ==
    /\ sdk = "up"
    /\ i <= 2 => Up \/ (~scheduler /\ consumer = "none" /\ ~tables)
    /\ i \in 3 .. 5 => ~scheduler /\ consumer = "none" /\ (tables <=> i = 5)
    /\ i \in 6 .. 8 => ~scheduler /\ consumer = "running" /\ tables /\ knows[Main]
    /\ i = 9 => Up

UndoPhase(i) ==
    /\ ~scheduler /\ consumer = "none" /\ (i > 1 => ~tables)
    /\ sdk = IF i = 4 THEN "closing" ELSE "up"

FiniPhase(i) ==
    /\ ~scheduler
    /\ sdk = IF i < 3 THEN "up" ELSE IF i = 3 THEN "closing" ELSE "down"
    /\ IF i < 5 THEN consumer = "running" ELSE consumer \in {"stopped", "ended"}

PhaseIs ==
    /\ op[Main] \in {"Idle", "Commit", "Trap", "After", "Fini"} => Up \/ Down
    /\ op[Main] = "After" /\ at[Main] = 3 /\ scheduler => knows[Main]
    /\ op[Main] = "InitRest" => InitPhase(at[Main])
    /\ op[Main] = "Again" => Up
    /\ op[Main] = "Undo" => UndoPhase(at[Main])
    /\ op[Main] = "FiniNothing" => Down
    /\ op[Main] = "FiniRest" => FiniPhase(at[Main])
    /\ op[Main] = "Ended" =>
          ~scheduler /\ sdk = "down" /\ consumer \in {"none", "ended"} /\ ~tables
    /\ consumer = "ended" => ~tables

\* The main thread has the signals blocked from the callback to the end of init.
MaskIs ==
    /\ masked <=> \/ op[Main] \in {"InitRest", "Again", "Undo"}
                  \/ op[Main] = "Trap" /\ at[Main] = 3
                  \/ op[Main] = "After" /\ at[Main] = 1
    /\ ~exposed

\* The job that the scheduler thread runs is the one in its hand.
HandIs ==
    /\ op[Worker] \in {"LinkFails", "LinkAttaches"} => hand = "Link"
    /\ op[Worker] \in {"Reap", "Eject"} => hand = op[Worker]
    /\ op[Worker] \in {"PullState", "PullUsage", "Inform", "Idle"} => hand = "none"

\* There has been no scheduler yet: no job has got past its look at it.
Fresh == ~scheduler /\ op[Main] \notin {"FiniRest", "Ended"}
FreshIs ==
    Fresh =>
        /\ ~active /\ subscribed = {1, 2} /\ queue \subseteq {"Link", "Reap"}
        /\ \A t \in Callbacks : op[t] # "Detach"
        /\ op[Worker] # "Eject"
        /\ op[Worker] \in {"LinkFails", "LinkAttaches"} => at[Worker] = 1
        /\ op[Worker] = "Reap" => at[Worker] <= 2
        /\ op[Worker] = "Done" => hand = "none"
        /\ consumer = "none" => queue = {} /\ op[Worker] = "Idle"

\* A job that is to be pushed again, and a thread that is to push a Link.
CarriesReap == op[Worker] = "Reap" /\ (at[Worker] = 3 => knows[Worker])
CarriesLink ==
    \/ op[Worker] = "LinkFails" /\ (at[Worker] = 2 => knows[Worker])
    \/ op[Worker] = "LinkAttaches" /\ at[Worker] <= 4
CarriesEject == op[Worker] = "Eject" /\ (at[Worker] = 2 => 1 \notin subscribed)
Detaches(t) == op[t] = "Detach" /\ (at[t] = 5 => knows[t])

\* From the push of each job on, it is queued or carried; and no Link is needed while the
\* Server is attached.
Pushed(n) == op[Main] = "InitRest" /\ at[Main] \in n .. 8
Ejects == op[Main] \in {"Idle", "Commit"} \/ (op[Main] = "After" /\ at[Main] = 4)

ChainsAreCarried ==
    /\ scheduler \/ Pushed(8) => "Reap" \in queue \/ CarriesReap
    /\ scheduler \/ Pushed(7) => \/ active \/ "Link" \in queue \/ CarriesLink
                                 \/ \E t \in Callbacks : Detaches(t)
    /\ scheduler /\ Ejects => subscribed = {} \/ "Eject" \in queue \/ CarriesEject

\* The Reaper's job has the tables, when it has been pushed.
TablesAreOwned ==
    tables => \/ "Reap" \in queue \/ hand = "Reap"
              \/ op[Main] = "InitRest" /\ at[Main] \in 5 .. 7
              \/ op[Main] = "Undo" /\ at[Main] = 1

\* The inductive invariant of the agent's life, beside that of the locks.
LifeInv ==
    /\ PhaseIs /\ MaskIs /\ HandIs /\ FreshIs /\ ChainsAreCarried /\ TablesAreOwned

\* Where the main thread has each kind of step.
MainPlaces(o, i, d) ==
    /\ d = "take" => o \in {"Trap", "InitRest", "Fini"} /\ i = 1
    /\ d = "drop" => \/ o \in {"Again", "FiniNothing", "FiniRest"} /\ i = 1
                     \/ o = "InitRest" /\ i = 9
                     \/ o = "Undo" /\ i = 2
                     \/ o = "After" /\ i = 4
    /\ d = "visit" => o = "Commit" /\ i = 1
    /\ d = "look" => o \in {"Commit", "After"} /\ i = 2
    /\ d = "submit" => \/ o = "InitRest" /\ i \in {6, 7}
                       \/ o \in {"Commit", "After"} /\ i = 3
    /\ d = "mask" => o = "Trap" /\ i = 2
    /\ d = "openSdk" => o = "Trap" /\ i = 3
    /\ d = "unmask" => o = "After" /\ i = 1
    /\ d = "inject" => o = "InitRest" /\ i = 2
    /\ d = "attachVes" => o = "InitRest" /\ i = 3
    /\ d = "attachSinks" => o = "InitRest" /\ i = 4
    /\ d = "go" => o = "InitRest" /\ i = 5
    /\ d = "publish" => o = "InitRest" /\ i = 8
    /\ d = "destroy" => o = "Undo" /\ i = 1
    /\ d = "closeSdk" => (o = "Undo" /\ i = 3) \/ (o = "FiniRest" /\ i = 2)
    /\ d = "awaitSdk" => (o = "Undo" /\ i = 4) \/ (o = "FiniRest" /\ i = 3)
    /\ d = "retract" => o = "Fini" /\ i = 2
    /\ d = "stop" => o = "FiniRest" /\ i = 4
    /\ d = "join" => o = "FiniRest" /\ i = 5
    /\ d \notin {"lookOrLeave", "finish", "read", "activate", "eject1", "eject2", "handle",
                 "deactivate"}

\* The length of each operation of the main thread.
MainLength(o) ==
    CASE o = "InitRest" -> 9
      [] o = "FiniRest" -> 5
      [] o \in {"Undo", "After"} -> 4
      [] o \in {"Trap", "Commit"} -> 3
      [] o = "Fini" -> 2
      [] o \in {"Again", "FiniNothing"} -> 1
      [] OTHER -> 0

\* The main thread's code has these places and lengths.
LEMMA MainCode ==
    ASSUME NEW o \in MainOps
    PROVE  /\ Len(Code[o]) = MainLength(o) /\ DOMAIN Code[o] = 1 .. MainLength(o)
           /\ \A i \in DOMAIN Code[o] : MainPlaces(o, i, Code[o][i].do)
<1> DEFINE Fine(q) ==
        /\ Len(Code[q]) = MainLength(q) /\ DOMAIN Code[q] = 1 .. MainLength(q)
        /\ \A i \in DOMAIN Code[q] : MainPlaces(q, i, Code[q][i].do)
<1> SUFFICES Fine(o)
  OBVIOUS
<1> USE DEF Code, MainPlaces, MainLength, Take, Drop, Visit, Do, Submit
<1>1. Fine("Idle")
  OBVIOUS
<1>2. Fine("Ended")
  OBVIOUS
<1>3. Fine("Trap")
  BY DEF Trap
<1>4. Fine("InitRest")
  BY DEF InitRest
<1>5. Fine("Again")
  BY DEF Again
<1>6. Fine("Undo")
  BY DEF Undo
<1>7. Fine("After")
  BY DEF After
<1>8. Fine("Fini")
  BY DEF Fini
<1>9. Fine("FiniNothing")
  BY DEF FiniNothing
<1>10. Fine("FiniRest")
  BY DEF FiniRest
<1>11. Fine("Commit")
  BY DEF Commit
<1> HIDE DEF Fine, Code
<1> QED
  BY <1>1, <1>2, <1>3, <1>4, <1>5, <1>6, <1>7, <1>8, <1>9, <1>10, <1>11 DEF MainOps

\* Where the scheduler thread has the steps that matter here, and the threads of the SDK.
WorkerPlaces(o, i, d) ==
    /\ d = "finish" => o = "Done" /\ i = 1
    /\ d = "lookOrLeave" => o = "LinkAttaches" /\ i = 1
    /\ d = "activate" => o = "LinkAttaches" /\ i = 4
    /\ d = "eject1" => o = "Eject" /\ i = 1
    /\ d = "eject2" => o = "Eject" /\ i = 2
    /\ o = "LinkFails" => \/ i = 1 /\ d = "look"
                          \/ i = 2 /\ Code[o][i] = Submit("Link")
    /\ o = "Reap" => \/ i = 1 /\ d = "visit"
                     \/ i = 2 /\ d = "look"
                     \/ i = 3 /\ Code[o][i] = Submit("Reap")
    /\ o = "Eject" => \/ i = 1 /\ d = "eject1"
                      \/ i = 2 /\ d = "eject2"
    /\ o = "LinkAttaches" => \/ i = 1 /\ d = "lookOrLeave"
                             \/ i = 2 /\ d = "take"
                             \/ i = 3 /\ Code[o][i] = Submit("Snatch")
                             \/ i = 4 /\ d = "activate"
                             \/ i = 5 /\ d = "drop"
    /\ d = "submit" /\ Code[o][i].of \in Kept => \/ o = "LinkFails" /\ i = 2
                                                 \/ o = "Reap" /\ i = 3

WorkerLength(o) ==
    CASE o = "LinkAttaches" -> 5 [] o = "Reap" -> 3 [] o \in {"LinkFails", "Eject"} -> 2
      [] o = "Done" -> 1 [] o = "Idle" -> 0

\* The scheduler thread's code has them.
LEMMA WorkerCode ==
    ASSUME NEW o \in WorkerOps
    PROVE  /\ o \notin {"PullState", "PullUsage", "Inform"} => Len(Code[o]) = WorkerLength(o)
           /\ DOMAIN Code[o] = 1 .. Len(Code[o])
           /\ \A i \in DOMAIN Code[o] : WorkerPlaces(o, i, Code[o][i].do)
<1> DEFINE Fine(q) ==
        /\ q \notin {"PullState", "PullUsage", "Inform"} => Len(Code[q]) = WorkerLength(q)
        /\ DOMAIN Code[q] = 1 .. Len(Code[q])
        /\ \A i \in DOMAIN Code[q] : WorkerPlaces(q, i, Code[q][i].do)
<1> SUFFICES Fine(o)
  OBVIOUS
<1> USE DEF Code, WorkerPlaces, WorkerLength, Take, Drop, Visit, Do, Submit, Kept
<1>1. Fine("Idle")
  OBVIOUS
<1>2. Fine("LinkFails")
  BY DEF LinkFails
<1>3. Fine("LinkAttaches")
  BY DEF LinkAttaches
<1>4. Fine("PullState")
  BY DEF PullState
<1>5. Fine("PullUsage")
  BY DEF PullUsage
<1>6. Fine("Inform")
  BY DEF Inform
<1>7. Fine("Reap")
  BY DEF Reap
<1>8. Fine("Eject")
  BY DEF Eject
<1>9. Fine("Done")
  BY DEF Done
<1> HIDE DEF Fine, Code
<1> QED
  BY <1>1, <1>2, <1>3, <1>4, <1>5, <1>6, <1>7, <1>8, <1>9 DEF WorkerOps, JobOps

EventPlaces(o, i, d) ==
    /\ d = "deactivate" => o = "Detach" /\ i = 2
    /\ d = "handle" => o = "Event" /\ i = 1
    /\ o = "Detach" => \/ i = 1 /\ d = "take"
                       \/ i = 2 /\ d = "deactivate"
                       \/ i = 3 /\ d = "drop"
                       \/ i = 4 /\ d = "look"
                       \/ i = 5 /\ Code[o][i] = Submit("Link")
    /\ d = "submit" /\ Code[o][i].of \in Kept => o = "Detach" /\ i = 5
    /\ d # "lookOrLeave"

\* And that of the threads of the SDK.
LEMMA EventCode ==
    ASSUME NEW o \in EventOps
    PROVE  /\ o = "Detach" => Len(Code[o]) = 5
           /\ DOMAIN Code[o] = 1 .. Len(Code[o])
           /\ \A i \in DOMAIN Code[o] : EventPlaces(o, i, Code[o][i].do)
<1> DEFINE Fine(q) ==
        /\ q = "Detach" => Len(Code[q]) = 5
        /\ DOMAIN Code[q] = 1 .. Len(Code[q])
        /\ \A i \in DOMAIN Code[q] : EventPlaces(q, i, Code[q][i].do)
<1> SUFFICES Fine(o)
  OBVIOUS
<1> USE DEF Code, EventPlaces, Take, Drop, Visit, Do, Submit, Kept
<1>1. Fine("Idle")
  OBVIOUS
<1>2. Fine("Event")
  BY DEF Event
<1>3. Fine("Detach")
  BY DEF Detach
<1>4. Fine("PullKnown")
  BY DEF PullKnown
<1>5. Fine("PullNew")
  BY DEF PullNew
<1>6. Fine("Update")
  BY DEF Update
<1> HIDE DEF Fine, Code
<1> QED
  BY <1>1, <1>2, <1>3, <1>4, <1>5, <1>6 DEF EventOps

\* The threads but t stay where they are.
OthersStay(t) ==
    \A u \in Threads \ {t} : op'[u] = op[u] /\ at'[u] = at[u] /\ knows'[u] = knows[u]

\* Where a thread goes.
LEMMA GoesTo ==
    ASSUME LInv, NEW t \in Threads
    PROVE  /\ \A o : Jump(t, o) => /\ op'[t] = o /\ at'[t] = 1 /\ knows'[t] = FALSE
                                   /\ OthersStay(t)
           /\ GoOn(t) =>
                /\ OthersStay(t)
                /\ IF at[t] = Len(Code[op[t]])
                     THEN op'[t] = Follow(op[t]) /\ at'[t] = 1
                     ELSE op'[t] = op[t] /\ at'[t] = at[t] + 1 /\ knows'[t] = knows[t]
<1>1. ASSUME NEW o, Jump(t, o)
      PROVE  op'[t] = o /\ at'[t] = 1 /\ knows'[t] = FALSE /\ OthersStay(t)
  BY <1>1 DEF Jump, LInv, ThreadsTyped, OthersStay
<1>2. CASE Last(t) /\ Jump(t, Follow(op[t]))
  BY <1>1, <1>2 DEF Last
<1>3. CASE ~Last(t) /\ at' = [at EXCEPT ![t] = at[t] + 1] /\ UNCHANGED <<op, knows>>
  <2>1. at'[t] = at[t] + 1 /\ \A u \in Threads \ {t} : at'[u] = at[u]
    BY <1>3 DEF LInv, ThreadsTyped
  <2>2. at[t] # Len(Code[op[t]]) /\ op' = op /\ knows' = knows
    BY <1>3 DEF Last
  <2>3. OthersStay(t)
    BY <2>1, <2>2 DEF OthersStay
  <2>4. \A o : Jump(t, o) => op'[t] = o /\ at'[t] = 1 /\ knows'[t] = FALSE /\ OthersStay(t)
    BY <1>1
  <2> HIDE DEF OthersStay
  <2> QED
    BY <2>1, <2>2, <2>3, <2>4
<1> QED
  BY <1>1, <1>2, <1>3 DEF GoOn

-------------------------------------------------------------------------------
(* The life: the main thread.                                              *)

\* Before a step the main thread is where its code has that step, and goes on from there.
LEMMA MainGoes ==
    ASSUME LInv, at[Main] \in DOMAIN Code[op[Main]]
    PROVE  /\ op[Main] \in MainOps /\ at[Main] \in 1 .. MainLength(op[Main])
           /\ MainPlaces(op[Main], at[Main], Here(Main).do)
           /\ GoOn(Main) =>
                /\ OthersStay(Main)
                /\ IF at[Main] = MainLength(op[Main])
                     THEN op'[Main] = Follow(op[Main]) /\ at'[Main] = 1
                     ELSE op'[Main] = op[Main] /\ at'[Main] = at[Main] + 1
                          /\ knows'[Main] = knows[Main]
<1>1. op[Main] \in MainOps /\ Main \in Threads
  BY DEF LInv, RightThread, Threads
<1>2. /\ Len(Code[op[Main]]) = MainLength(op[Main])
      /\ DOMAIN Code[op[Main]] = 1 .. MainLength(op[Main])
      /\ MainPlaces(op[Main], at[Main], Here(Main).do)
  BY <1>1, MainCode DEF Here
<1> QED
  BY <1>1, <1>2, GoesTo

\* The ends of the operations of the main thread, and what follows them.
LEMMA MainEnds ==
    /\ Follow("InitRest") = "After" /\ Follow("Again") = "After" /\ Follow("Undo") = "After"
    /\ Follow("FiniNothing") = "Ended" /\ Follow("FiniRest") = "Ended"
    /\ Follow("After") = "Idle" /\ Follow("Commit") = "Idle"
    /\ MainLength("InitRest") = 9 /\ MainLength("FiniRest") = 5 /\ MainLength("Undo") = 4
    /\ MainLength("After") = 4 /\ MainLength("Commit") = 3 /\ MainLength("Again") = 1
    /\ MainLength("FiniNothing") = 1
BY DEF Follow, JobOps, MainLength

\* The other threads carry their jobs when the main thread moves, and takes none away.
LEMMA MainLife ==
    ASSUME LInv, LifeInv, OthersStay(Main), PhaseIs', MaskIs',
           UNCHANGED <<hand, subscribed>>, queue \subseteq queue',
           Fresh' => /\ Fresh /\ active' = active /\ queue' \subseteq {"Link", "Reap"}
                     /\ consumer' = "none" => consumer = "none" /\ queue' = queue,
           scheduler' \/ Pushed(8)' => scheduler \/ Pushed(8) \/ "Reap" \in queue',
           scheduler' \/ Pushed(7)' =>
             \/ (scheduler \/ Pushed(7)) /\ active' = active
             \/ "Link" \in queue',
           scheduler' /\ Ejects' => (scheduler /\ Ejects) \/ "Eject" \in queue',
           tables' => \/ "Reap" \in queue'
                      \/ op'[Main] = "InitRest" /\ at'[Main] \in 5 .. 7
                      \/ op'[Main] = "Undo" /\ at'[Main] = 1
                      \/ /\ tables
                         /\ ~(op[Main] = "InitRest" /\ at[Main] \in 5 .. 7)
                         /\ ~(op[Main] = "Undo" /\ at[Main] = 1)
    PROVE  LifeInv'
<1>1. /\ op'[Worker] = op[Worker] /\ at'[Worker] = at[Worker] /\ knows'[Worker] = knows[Worker]
      /\ \A t \in Callbacks : op'[t] = op[t] /\ at'[t] = at[t] /\ knows'[t] = knows[t]
  BY AgentAssumption DEF OthersStay, Threads
<1>2. HandIs'
  BY <1>1 DEF LifeInv, HandIs
<1>3. FreshIs'
  BY <1>1 DEF LifeInv, FreshIs
<1>4. /\ CarriesReap' = CarriesReap /\ CarriesLink' = CarriesLink
      /\ CarriesEject' = CarriesEject /\ \A t \in Callbacks : Detaches(t)' = Detaches(t)
  BY <1>1 DEF CarriesReap, CarriesLink, CarriesEject, Detaches
<1>5. ChainsAreCarried'
  BY <1>4 DEF LifeInv, ChainsAreCarried
<1>6. TablesAreOwned'
  BY DEF LifeInv, TablesAreOwned
<1> QED
  BY <1>2, <1>3, <1>5, <1>6 DEF LifeInv

\* A move of the main thread that changes nothing of Central and of the scheduler.
LEMMA MainQuiet ==
    ASSUME LInv, LifeInv, OthersStay(Main), PhaseIs', MaskIs',
           UNCHANGED <<hand, subscribed, queue, scheduler, active, consumer, tables>>,
           Fresh' => Fresh,
           Pushed(8)' => scheduler \/ Pushed(8),
           Pushed(7)' => scheduler \/ Pushed(7),
           scheduler /\ Ejects' => Ejects,
           tables => \/ op'[Main] = "InitRest" /\ at'[Main] \in 5 .. 7
                     \/ op'[Main] = "Undo" /\ at'[Main] = 1
                     \/ /\ ~(op[Main] = "InitRest" /\ at[Main] \in 5 .. 7)
                        /\ ~(op[Main] = "Undo" /\ at[Main] = 1)
    PROVE  LifeInv'
<1>1. queue \subseteq queue'
  OBVIOUS
<1>2. Fresh' => /\ Fresh /\ active' = active /\ queue' \subseteq {"Link", "Reap"}
                /\ consumer' = "none" => consumer = "none" /\ queue' = queue
  BY DEF LifeInv, FreshIs
<1>3. scheduler' \/ Pushed(8)' => scheduler \/ Pushed(8) \/ "Reap" \in queue'
  OBVIOUS
<1>4. scheduler' \/ Pushed(7)' => \/ (scheduler \/ Pushed(7)) /\ active' = active
                                  \/ "Link" \in queue'
  OBVIOUS
<1>5. scheduler' /\ Ejects' => (scheduler /\ Ejects) \/ "Eject" \in queue'
  OBVIOUS
<1>6. tables' => \/ "Reap" \in queue'
                 \/ op'[Main] = "InitRest" /\ at'[Main] \in 5 .. 7
                 \/ op'[Main] = "Undo" /\ at'[Main] = 1
                 \/ /\ tables
                    /\ ~(op[Main] = "InitRest" /\ at[Main] \in 5 .. 7)
                    /\ ~(op[Main] = "Undo" /\ at[Main] = 1)
  OBVIOUS
<1> QED
  BY <1>1, <1>2, <1>3, <1>4, <1>5, <1>6, MainLife

\* The steps of MainQuiet in the code that any thread may have: locks and looks.
LEMMA MainLocksLife ==
    ASSUME LInv, LifeInv, TakeLock(Main) \/ DropLock(Main) \/ VisitLock(Main) \/ Look(Main)
    PROVE  LifeInv'
<1> DEFINE o == op[Main]
           i == at[Main]
<1>1. /\ at[Main] \in DOMAIN Code[op[Main]]
      /\ UNCHANGED <<process, central, sched>>
  BY DEF TakeLock, DropLock, VisitLock, Look, Does, Before
<1>2. /\ UNCHANGED <<sdk, masked, exposed, subscribed, scheduler, active, tables>>
      /\ UNCHANGED <<consumer, queue, hand>>
  BY <1>1 DEF process, central, sched
<1>3. PhaseIs /\ MaskIs
  BY DEF LifeInv
<1>4. CASE TakeLock(Main)
  <2>1. /\ o \in {"Trap", "InitRest", "Fini"} /\ i = 1
        /\ op'[Main] = o /\ at'[Main] = 2 /\ OthersStay(Main)
    BY <1>1, <1>4, MainGoes DEF TakeLock, Does, Before, MainPlaces, MainLength
  <2>2. PhaseIs'
    BY <1>2, <1>3, <2>1 DEF PhaseIs, InitPhase, FiniPhase, UndoPhase, Up, Down
  <2>3. MaskIs'
    BY <1>2, <1>3, <2>1 DEF MaskIs
  <2> QED
    BY <1>2, <2>1, <2>2, <2>3, MainQuiet DEF Fresh, Pushed, Ejects
<1>5. CASE DropLock(Main)
  <2>1. /\ \/ o \in {"Again", "InitRest"} /\ op'[Main] = "After" /\ at'[Main] = 1
             /\ (o = "InitRest" => i = 9)
           \/ o = "FiniNothing" /\ op'[Main] = "Ended" /\ at'[Main] = 1
           \/ o = "FiniRest" /\ i = 1 /\ op'[Main] = "FiniRest" /\ at'[Main] = 2
           \/ o = "Undo" /\ i = 2 /\ op'[Main] = "Undo" /\ at'[Main] = 3
           \/ o = "After" /\ i = 4 /\ op'[Main] = "Idle" /\ at'[Main] = 1
        /\ OthersStay(Main)
    <3>1. /\ GoOn(Main)
          /\ \/ o \in {"Again", "FiniNothing", "FiniRest"} /\ i = 1
             \/ o = "InitRest" /\ i = 9
             \/ o = "Undo" /\ i = 2
             \/ o = "After" /\ i = 4
      BY <1>1, <1>5, MainGoes DEF DropLock, Does, Before, MainPlaces
    <3> QED
      BY <1>1, <3>1, MainEnds, MainGoes
  <2>2. PhaseIs'
    BY <1>2, <1>3, <2>1 DEF PhaseIs, InitPhase, FiniPhase, UndoPhase, Up, Down
  <2>3. MaskIs'
    BY <1>2, <1>3, <2>1 DEF MaskIs
  <2> QED
    BY <1>2, <2>1, <2>2, <2>3, MainQuiet DEF Fresh, Pushed, Ejects
<1>6. CASE VisitLock(Main)
  <2>1. o = "Commit" /\ i = 1 /\ op'[Main] = o /\ at'[Main] = 2 /\ OthersStay(Main)
    BY <1>1, <1>6, MainGoes DEF VisitLock, Does, Before, MainPlaces, MainLength
  <2>2. PhaseIs'
    BY <1>2, <1>3, <2>1 DEF PhaseIs, InitPhase, FiniPhase, UndoPhase, Up, Down
  <2>3. MaskIs'
    BY <1>2, <1>3, <2>1 DEF MaskIs
  <2> QED
    BY <1>2, <2>1, <2>2, <2>3, MainQuiet DEF Fresh, Pushed, Ejects
<1>7. CASE Look(Main)
  <2>1. o \in {"Commit", "After"} /\ i = 2
    BY <1>1, <1>7, MainGoes DEF Look, Does, Before, MainPlaces
  <2>2. /\ op'[Main] = o /\ at'[Main] = 3 /\ knows'[Main] = scheduler /\ OthersStay(Main)
    BY <1>7, <2>1 DEF Look, LInv, ThreadsTyped, Threads, OthersStay
  <2>3. PhaseIs'
    BY <1>2, <1>3, <2>1, <2>2 DEF PhaseIs, InitPhase, FiniPhase, UndoPhase, Up, Down
  <2>4. MaskIs'
    BY <1>2, <1>3, <2>1, <2>2 DEF MaskIs
  <2> QED
    BY <1>2, <2>1, <2>2, <2>3, <2>4, MainQuiet DEF Fresh, Pushed, Ejects
<1> QED
  BY <1>4, <1>5, <1>6, <1>7

\* The steps of its own that change nothing of Central and of the scheduler.
LEMMA MainOwnQuiet ==
    ASSUME LInv, LifeInv, StateTyped,
           \/ SendTrap \/ BeginCommit \/ Deinit \/ Mask \/ Unmask \/ OpenSdk \/ Inject
           \/ AttachVes \/ CloseSdk \/ AwaitSdk \/ Join
    PROVE  LifeInv'
<1> DEFINE o == op[Main]
           i == at[Main]
<1>1. PhaseIs /\ MaskIs /\ sdk \in {"down", "up", "closing"} /\ Main \in Threads
  BY DEF LifeInv, StateTyped, Threads
<1>2. UNCHANGED <<subscribed, scheduler, active, tables, consumer, queue, hand>>
  BY DEF SendTrap, BeginCommit, Deinit, Mask, Unmask, OpenSdk, Inject, AttachVes, CloseSdk,
     AwaitSdk, Join, process, central, sched
<1>3. CASE SendTrap \/ BeginCommit \/ Deinit
  <2>1. /\ o = "Idle" /\ op'[Main] \in {"Trap", "Commit", "Fini"} /\ at'[Main] = 1
        /\ OthersStay(Main)
        /\ op'[Main] \in {"Trap", "Commit", "Fini"}
        /\ UNCHANGED <<sdk, masked, exposed>>
    BY <1>1, <1>3, GoesTo DEF SendTrap, BeginCommit, Deinit, process
  <2>2. PhaseIs'
    BY <1>1, <1>2, <2>1 DEF PhaseIs, InitPhase, FiniPhase, UndoPhase, Up, Down
  <2>3. MaskIs'
    BY <1>1, <2>1 DEF MaskIs
  <2> QED
    BY <1>2, <2>1, <2>2, <2>3, MainQuiet DEF Fresh, Pushed, Ejects
<1>4. CASE Mask
  <2>1. /\ o = "Trap" /\ i = 2 /\ op'[Main] = "Trap" /\ at'[Main] = 3 /\ OthersStay(Main)
        /\ masked' = TRUE /\ UNCHANGED <<sdk, exposed>>
    BY <1>4, MainGoes DEF Mask, Does, Before, MainPlaces, MainLength
  <2>2. PhaseIs'
    BY <1>1, <1>2, <2>1 DEF PhaseIs, InitPhase, FiniPhase, UndoPhase, Up, Down
  <2>3. MaskIs'
    BY <1>1, <2>1 DEF MaskIs
  <2> QED
    BY <1>2, <2>1, <2>2, <2>3, MainQuiet DEF Fresh, Pushed, Ejects
<1>5. CASE Unmask
  <2>1. /\ o = "After" /\ i = 1 /\ op'[Main] = "After" /\ at'[Main] = 2 /\ OthersStay(Main)
        /\ masked' = FALSE /\ UNCHANGED <<sdk, exposed>>
    BY <1>5, MainGoes DEF Unmask, Does, Before, MainPlaces, MainLength
  <2>2. PhaseIs'
    BY <1>1, <1>2, <2>1 DEF PhaseIs, InitPhase, FiniPhase, UndoPhase, Up, Down
  <2>3. MaskIs'
    BY <1>1, <2>1 DEF MaskIs
  <2> QED
    BY <1>2, <2>1, <2>2, <2>3, MainQuiet DEF Fresh, Pushed, Ejects
<1>6. CASE OpenSdk
  <2>1. o = "Trap" /\ i = 3 /\ masked' = masked
    BY <1>6, MainGoes DEF OpenSdk, Does, Before, MainPlaces
  <2>2. /\ \/ op'[Main] = "InitRest" /\ sdk' = "up"
           \/ op'[Main] = "After" /\ sdk' = sdk
        /\ at'[Main] = 1 /\ OthersStay(Main) /\ ~exposed'
    <3>1. masked /\ ~exposed
      BY <1>1, <2>1 DEF MaskIs
    <3>2. \A p : Jump(Main, p) => op'[Main] = p /\ at'[Main] = 1 /\ OthersStay(Main)
      BY <1>1, GoesTo
    <3>3. CASE /\ sdk' = "up" /\ exposed' = (exposed \/ (sdk = "down" /\ ~masked))
               /\ Jump(Main, "InitRest")
      <4>1. ~exposed'
        BY <3>1, <3>3
      <4> QED
        BY <3>2, <3>3, <4>1
    <3>4. CASE UNCHANGED <<sdk, exposed>> /\ Jump(Main, "After")
      BY <3>1, <3>2, <3>4
    <3> QED
      BY <1>6, <3>3, <3>4 DEF OpenSdk
  <2>3. PhaseIs'
    BY <1>1, <1>2, <2>1, <2>2 DEF PhaseIs, InitPhase, FiniPhase, UndoPhase, Up, Down
  <2>4. MaskIs'
    BY <1>1, <2>1, <2>2 DEF MaskIs
  <2> QED
    BY <1>2, <2>1, <2>2, <2>3, <2>4, MainQuiet DEF Fresh, Pushed, Ejects
<1>7. CASE Inject
  <2>1. o = "InitRest" /\ i = 2 /\ UNCHANGED <<sdk, masked, exposed>>
    BY <1>7, MainGoes DEF Inject, Does, Before, MainPlaces
  <2>2. /\ \/ op'[Main] = "Again" /\ at'[Main] = 1 /\ scheduler
           \/ op'[Main] = "InitRest" /\ at'[Main] = 3 /\ ~scheduler
        /\ OthersStay(Main)
    <3>1. at[Main] \in DOMAIN Code[o]
      BY <1>7 DEF Inject, Does, Before
    <3>2. GoOn(Main) => op'[Main] = o /\ at'[Main] = i + 1 /\ OthersStay(Main)
      BY <2>1, <3>1, MainGoes, MainEnds
    <3>3. \A p : Jump(Main, p) => op'[Main] = p /\ at'[Main] = 1 /\ OthersStay(Main)
      BY <1>1, GoesTo
    <3> QED
      BY <1>7, <2>1, <3>2, <3>3 DEF Inject
  <2>3. PhaseIs'
    BY <1>1, <1>2, <2>1, <2>2 DEF PhaseIs, InitPhase, FiniPhase, UndoPhase, Up, Down
  <2>4. MaskIs'
    BY <1>1, <2>1, <2>2 DEF MaskIs
  <2> QED
    BY <1>2, <2>1, <2>2, <2>3, <2>4, MainQuiet DEF Fresh, Pushed, Ejects
<1>8. CASE AttachVes
  <2>1. o = "InitRest" /\ i = 3 /\ UNCHANGED <<sdk, masked, exposed>>
    BY <1>8, MainGoes DEF AttachVes, Does, Before, MainPlaces, process
  <2>2. /\ \/ op'[Main] = "Undo" /\ at'[Main] = 1
           \/ op'[Main] = "InitRest" /\ at'[Main] = 4
        /\ OthersStay(Main)
    <3>1. at[Main] \in DOMAIN Code[o]
      BY <1>8 DEF AttachVes, Does, Before
    <3>2. GoOn(Main) => op'[Main] = o /\ at'[Main] = i + 1 /\ OthersStay(Main)
      BY <2>1, <3>1, MainGoes, MainEnds
    <3>3. \A p : Jump(Main, p) => op'[Main] = p /\ at'[Main] = 1 /\ OthersStay(Main)
      BY <1>1, GoesTo
    <3> QED
      BY <1>8, <2>1, <3>2, <3>3 DEF AttachVes
  <2>3. PhaseIs'
    BY <1>1, <1>2, <2>1, <2>2 DEF PhaseIs, InitPhase, FiniPhase, UndoPhase, Up, Down
  <2>4. MaskIs'
    BY <1>1, <2>1, <2>2 DEF MaskIs
  <2> QED
    BY <1>2, <2>1, <2>2, <2>3, <2>4, MainQuiet DEF Fresh, Pushed, Ejects
<1>9. CASE CloseSdk
  <2>1. /\ \/ o = "Undo" /\ i = 3 /\ op'[Main] = "Undo" /\ at'[Main] = 4
           \/ o = "FiniRest" /\ i = 2 /\ op'[Main] = "FiniRest" /\ at'[Main] = 3
        /\ OthersStay(Main) /\ sdk' = "closing" /\ UNCHANGED <<masked, exposed>>
    BY <1>9, MainGoes DEF CloseSdk, Does, Before, MainPlaces, MainLength
  <2>2. PhaseIs'
    BY <1>1, <1>2, <2>1 DEF PhaseIs, InitPhase, FiniPhase, UndoPhase, Up, Down
  <2>3. MaskIs'
    BY <1>1, <2>1 DEF MaskIs
  <2> QED
    BY <1>2, <2>1, <2>2, <2>3, MainQuiet DEF Fresh, Pushed, Ejects
<1>10. CASE AwaitSdk
  <2>1. /\ \/ o = "Undo" /\ i = 4 /\ op'[Main] = "After" /\ at'[Main] = 1
           \/ o = "FiniRest" /\ i = 3 /\ op'[Main] = "FiniRest" /\ at'[Main] = 4
        /\ OthersStay(Main) /\ sdk' = "down" /\ UNCHANGED <<masked, exposed>>
    <3>1. at[Main] \in DOMAIN Code[o] /\ Here(Main).do = "awaitSdk" /\ GoOn(Main)
      BY <1>10 DEF AwaitSdk, Does, Before
    <3>2. (o = "Undo" /\ i = 4) \/ (o = "FiniRest" /\ i = 3)
      BY <3>1, MainGoes DEF MainPlaces
    <3> QED
      BY <1>10, <3>1, <3>2, MainGoes, MainEnds DEF AwaitSdk
  <2>2. PhaseIs'
    BY <1>1, <1>2, <2>1 DEF PhaseIs, InitPhase, FiniPhase, UndoPhase, Up, Down
  <2>3. MaskIs'
    BY <1>1, <2>1 DEF MaskIs
  <2> QED
    BY <1>2, <2>1, <2>2, <2>3, MainQuiet DEF Fresh, Pushed, Ejects
<1>11. CASE Join
  <2>1. /\ o = "FiniRest" /\ i = 5 /\ op'[Main] = "Ended" /\ at'[Main] = 1
        /\ OthersStay(Main) /\ consumer = "ended" /\ UNCHANGED <<sdk, masked, exposed>>
    <3>1. at[Main] \in DOMAIN Code[o] /\ Here(Main).do = "join" /\ GoOn(Main)
      BY <1>11 DEF Join, Does, Before
    <3>2. o = "FiniRest" /\ i = 5
      BY <3>1, MainGoes DEF MainPlaces
    <3> QED
      BY <1>11, <3>1, <3>2, MainGoes, MainEnds DEF Join, process
  <2>2. PhaseIs'
    BY <1>1, <1>2, <2>1 DEF PhaseIs, InitPhase, FiniPhase, UndoPhase, Up, Down
  <2>3. MaskIs'
    BY <1>1, <2>1 DEF MaskIs
  <2> QED
    BY <1>2, <2>1, <2>2, <2>3, MainQuiet DEF Fresh, Pushed, Ejects
<1> QED
  BY <1>3, <1>4, <1>5, <1>6, <1>7, <1>8, <1>9, <1>10, <1>11

\* A push of the main thread: of the Link and of the Reaper's job before s_scheduler is
\* set, and of Eject if it has seen it.
LEMMA MainPushLife ==
    ASSUME LInv, LifeInv, Push(Main) \/ PushNowhere(Main)
    PROVE  LifeInv'
<1> DEFINE o == op[Main]
           i == at[Main]
<1>1. /\ PhaseIs /\ MaskIs /\ at[Main] \in DOMAIN Code[o] /\ Here(Main).do = "submit"
      /\ GoOn(Main) /\ Main \in Threads
      /\ UNCHANGED <<sdk, masked, exposed, subscribed, scheduler, active, tables, consumer, hand>>
  BY DEF LifeInv, Push, PushNowhere, Does, Before, process, central, sched, Threads
<1>2. (o = "InitRest" /\ i \in {6, 7}) \/ (o \in {"Commit", "After"} /\ i = 3)
  BY <1>1, MainGoes DEF MainPlaces
<1>3. /\ Code["InitRest"][6] = Submit("Link") /\ Code["InitRest"][7] = Submit("Reap")
      /\ Code["After"][3] = Submit("Eject") /\ Code["Commit"][3] = Submit("Inform")
  BY DEF Code, InitRest, After, Commit, Do, Take, Drop, Visit, Submit
<1>4. /\ knows[Main] => queue' = IF consumer = "running" THEN queue \cup ({Here(Main).of} \cap Kept)
                                                         ELSE queue
      /\ ~knows[Main] => queue' = queue
  BY DEF Push, PushNowhere, sched
<1>5. queue \subseteq queue'
  BY <1>4
<1>6. CASE o = "InitRest"
  <2>1. ~scheduler /\ consumer = "running" /\ tables /\ knows[Main] /\ sdk = "up"
    BY <1>1, <1>2, <1>6 DEF PhaseIs, InitPhase
  <2>2. /\ op'[Main] = o /\ at'[Main] = i + 1 /\ knows'[Main] = knows[Main] /\ OthersStay(Main)
    BY <1>1, <1>2, <1>6, MainGoes, MainEnds
  <2>3. /\ i = 6 => queue' = queue \cup {"Link"}
        /\ i = 7 => queue' = queue \cup {"Reap"}
    <3>1. /\ i = 6 => Here(Main).of = "Link"
          /\ i = 7 => Here(Main).of = "Reap"
      BY <1>3, <1>6 DEF Here, Submit
    <3>2. {"Link"} \cap Kept = {"Link"} /\ {"Reap"} \cap Kept = {"Reap"}
      BY DEF Kept
    <3>3. queue' = queue \cup ({Here(Main).of} \cap Kept)
      BY <1>4, <2>1
    <3> QED
      BY <3>1, <3>2, <3>3
  <2>4. PhaseIs'
    BY <1>1, <1>2, <1>6, <2>1, <2>2 DEF PhaseIs, InitPhase
  <2>5. MaskIs'
    BY <1>1, <1>6, <2>2 DEF MaskIs
  <2>6. Fresh' => /\ Fresh /\ active' = active /\ queue' \subseteq {"Link", "Reap"}
                  /\ consumer' = "none" => consumer = "none" /\ queue' = queue
    BY <1>1, <1>2, <1>6, <2>1, <2>2, <2>3 DEF Fresh, LifeInv, FreshIs
  <2>7. scheduler' \/ Pushed(8)' => scheduler \/ Pushed(8) \/ "Reap" \in queue'
    BY <1>1, <1>2, <1>6, <2>1, <2>2, <2>3 DEF Pushed
  <2>8. scheduler' \/ Pushed(7)' => \/ (scheduler \/ Pushed(7)) /\ active' = active
                                    \/ "Link" \in queue'
    BY <1>1, <1>2, <1>6, <2>1, <2>2, <2>3 DEF Pushed
  <2>9. ~(scheduler' /\ Ejects')
    BY <1>1, <2>1
  <2>10. \/ "Reap" \in queue'
         \/ op'[Main] = "InitRest" /\ at'[Main] \in 5 .. 7
    BY <1>2, <1>6, <2>2, <2>3
  <2> QED
    BY <1>1, <1>5, <2>2, <2>4, <2>5, <2>6, <2>7, <2>8, <2>9, <2>10, MainLife
<1>7. CASE o \in {"Commit", "After"}
  <2>1. /\ o = "Commit" => op'[Main] = "Idle" /\ at'[Main] = 1
        /\ o = "After" => op'[Main] = "After" /\ at'[Main] = 4
        /\ OthersStay(Main)
    BY <1>1, <1>2, <1>7, MainGoes, MainEnds
  <2>2. /\ o = "Commit" => queue' = queue
        /\ o = "After" /\ scheduler => "Eject" \in queue'
        /\ ~scheduler => queue' = queue
    <3>1. /\ o = "Commit" => {Here(Main).of} \cap Kept = {}
          /\ o = "After" => {Here(Main).of} \cap Kept = {"Eject"}
      <4>1. /\ o = "Commit" => Here(Main).of = "Inform"
            /\ o = "After" => Here(Main).of = "Eject"
        BY <1>2, <1>3, <1>7 DEF Here, Submit
      <4>2. {"Inform"} \cap Kept = {} /\ {"Eject"} \cap Kept = {"Eject"}
        BY DEF Kept
      <4> QED
        BY <4>1, <4>2
    <3>2. scheduler => consumer = "running"
      BY <1>1, <1>7 DEF PhaseIs, Up, Down
    <3>3. ~scheduler => consumer = "none"
      BY <1>1, <1>7 DEF PhaseIs, Up, Down
    <3>4. o = "After" /\ scheduler => knows[Main]
      BY <1>1, <1>2, <1>7 DEF PhaseIs
    <3> QED
      BY <1>4, <3>1, <3>2, <3>3, <3>4
  <2>3. PhaseIs'
    BY <1>1, <1>7, <2>1 DEF PhaseIs, Up, Down
  <2>4. MaskIs'
    BY <1>1, <1>2, <1>7, <2>1 DEF MaskIs
  <2>5. Fresh' => /\ Fresh /\ active' = active /\ queue' \subseteq {"Link", "Reap"}
                  /\ consumer' = "none" => consumer = "none" /\ queue' = queue
    BY <1>1, <1>7, <2>1, <2>2 DEF Fresh, LifeInv, FreshIs
  <2>6. /\ scheduler' \/ Pushed(8)' => scheduler
        /\ scheduler' \/ Pushed(7)' => scheduler /\ active' = active
    BY <1>1, <1>7, <2>1 DEF Pushed
  <2>7. scheduler' /\ Ejects' => (scheduler /\ Ejects) \/ "Eject" \in queue'
    BY <1>1, <1>7, <2>1, <2>2 DEF Ejects
  <2>8. /\ ~(op[Main] = "InitRest" /\ at[Main] \in 5 .. 7)
        /\ ~(op[Main] = "Undo" /\ at[Main] = 1)
    BY <1>7
  <2> QED
    BY <1>1, <1>5, <2>1, <2>3, <2>4, <2>5, <2>6, <2>7, <2>8, MainLife
<1> QED
  BY <1>2, <1>6, <1>7

\* Its steps that make Central and the scheduler, and take them away.
LEMMA MainMakesLife ==
    ASSUME LInv, LifeInv, AttachSinks \/ Go \/ Publish \/ Destroy \/ Retract \/ Stop
    PROVE  LifeInv'
<1> DEFINE o == op[Main]
           i == at[Main]
<1>1. /\ PhaseIs /\ MaskIs /\ at[Main] \in DOMAIN Code[o] /\ Main \in Threads
      /\ UNCHANGED <<sdk, masked, subscribed, hand, queue>>
  BY DEF LifeInv, Threads, AttachSinks, Go, Publish, Destroy, Retract, Stop, Does, Before,
     process, sched
<1>2. MainPlaces(o, i, Here(Main).do)
  BY <1>1, MainGoes
<1>3. \A p : Jump(Main, p) => op'[Main] = p /\ at'[Main] = 1 /\ OthersStay(Main)
  BY <1>1, GoesTo
<1>4. GoOn(Main) /\ i < MainLength(o) =>
        /\ op'[Main] = o /\ at'[Main] = i + 1 /\ knows'[Main] = knows[Main] /\ OthersStay(Main)
  BY <1>1, MainGoes
<1>5. queue \subseteq queue'
  BY <1>1
<1>6. Fresh => queue \subseteq {"Link", "Reap"}
  BY DEF LifeInv, FreshIs
<1>7. CASE AttachSinks
  <2>1. o = "InitRest" /\ i = 4 /\ UNCHANGED <<exposed, scheduler, active, consumer>>
    BY <1>2, <1>7 DEF AttachSinks, Does, Before, MainPlaces, process, sched
  <2>2. /\ \/ op'[Main] = "InitRest" /\ at'[Main] = 5 /\ tables'
           \/ op'[Main] = "Undo" /\ at'[Main] = 1 /\ tables' = tables
        /\ OthersStay(Main)
    BY <1>3, <1>4, <1>7, <2>1, MainEnds DEF AttachSinks
  <2>3. PhaseIs'
    BY <1>1, <2>1, <2>2 DEF PhaseIs, InitPhase, UndoPhase
  <2>4. MaskIs'
    BY <1>1, <2>1, <2>2 DEF MaskIs
  <2>5. ~scheduler /\ ~Pushed(8)' /\ ~Pushed(7)' /\ Fresh
    BY <1>1, <2>1, <2>2 DEF PhaseIs, InitPhase, Pushed, Fresh
  <2> QED
    BY <1>1, <1>5, <1>6, <2>1, <2>2, <2>3, <2>4, <2>5, MainLife
<1>8. CASE Go
  <2>1. o = "InitRest" /\ i = 5 /\ UNCHANGED <<scheduler, active, tables>>
    BY <1>2, <1>8 DEF Go, Does, Before, MainPlaces, central
  <2>2. masked /\ ~exposed
    BY <1>1, <2>1 DEF MaskIs
  <2>3. /\ \/ /\ op'[Main] = "InitRest" /\ at'[Main] = 6 /\ knows'[Main]
              /\ consumer' = "running"
           \/ op'[Main] = "Undo" /\ at'[Main] = 1 /\ consumer' = consumer
        /\ OthersStay(Main) /\ ~exposed'
    <3>1. CASE Jump(Main, "Undo") /\ UNCHANGED <<consumer, exposed>>
      BY <1>3, <2>2, <3>1
    <3>2. CASE /\ consumer' = "running" /\ exposed' = (exposed \/ ~masked) /\ UNCHANGED op
               /\ at' = [at EXCEPT ![Main] = @ + 1] /\ knows' = [knows EXCEPT ![Main] = TRUE]
      <4>1. op'[Main] = "InitRest" /\ at'[Main] = 6 /\ knows'[Main] = TRUE
        BY <1>1, <2>1, <3>2 DEF LInv, ThreadsTyped
      <4>2. OthersStay(Main)
        BY <1>1, <3>2 DEF LInv, ThreadsTyped, OthersStay
      <4>3. ~exposed'
        BY <2>2, <3>2
      <4> QED
        BY <3>2, <4>1, <4>2, <4>3
    <3> QED
      BY <1>8, <3>1, <3>2 DEF Go
  <2>4. PhaseIs'
    BY <1>1, <2>1, <2>3 DEF PhaseIs, InitPhase, UndoPhase
  <2>5. MaskIs'
    BY <1>1, <2>1, <2>3 DEF MaskIs
  <2>6. ~scheduler /\ ~Pushed(8)' /\ ~Pushed(7)' /\ Fresh
    BY <1>1, <2>1, <2>3 DEF PhaseIs, InitPhase, Pushed, Fresh
  <2> QED
    BY <1>1, <1>5, <1>6, <2>1, <2>3, <2>4, <2>5, <2>6, MainLife
<1>9. CASE Publish
  <2>1. o = "InitRest" /\ i = 8 /\ UNCHANGED <<exposed, active, tables, consumer>> /\ scheduler'
    BY <1>2, <1>9 DEF Publish, Does, Before, MainPlaces, process, sched
  <2>2. op'[Main] = "InitRest" /\ at'[Main] = 9 /\ OthersStay(Main)
    BY <1>4, <1>9, <2>1, MainEnds DEF Publish
  <2>3. PhaseIs'
    BY <1>1, <2>1, <2>2 DEF PhaseIs, InitPhase, Up
  <2>4. MaskIs'
    BY <1>1, <2>1, <2>2 DEF MaskIs
  <2>5. Pushed(8) /\ Pushed(7) /\ ~Fresh' /\ ~Ejects'
    BY <2>1, <2>2 DEF Pushed, Fresh, Ejects
  <2> QED
    BY <1>1, <1>5, <2>1, <2>2, <2>3, <2>4, <2>5, MainLife
<1>10. CASE Destroy
  <2>1. /\ o = "Undo" /\ i = 1 /\ ~tables'
        /\ UNCHANGED <<exposed, scheduler, active, consumer>>
    BY <1>2, <1>10 DEF Destroy, Does, Before, MainPlaces, sched
  <2>2. op'[Main] = "Undo" /\ at'[Main] = 2 /\ OthersStay(Main)
    BY <1>4, <1>10, <2>1, MainEnds DEF Destroy
  <2>3. PhaseIs'
    BY <1>1, <2>1, <2>2 DEF PhaseIs, UndoPhase
  <2>4. MaskIs'
    BY <1>1, <2>1, <2>2 DEF MaskIs
  <2>5. ~scheduler /\ ~Pushed(8)' /\ ~Pushed(7)' /\ Fresh
    BY <1>1, <2>1, <2>2 DEF PhaseIs, UndoPhase, Pushed, Fresh
  <2> QED
    BY <1>1, <1>5, <1>6, <2>1, <2>2, <2>3, <2>4, <2>5, MainLife
<1>11. CASE Retract
  <2>1. o = "Fini" /\ i = 2 /\ UNCHANGED <<exposed, tables, consumer>>
    BY <1>2, <1>11 DEF Retract, Does, Before, MainPlaces, process, sched
  <2>2. /\ \/ op'[Main] = "FiniRest" /\ scheduler
           \/ op'[Main] = "FiniNothing" /\ ~scheduler /\ active' = active
        /\ at'[Main] = 1 /\ OthersStay(Main) /\ ~scheduler'
    BY <1>3, <1>11 DEF Retract
  <2>3. PhaseIs'
    BY <1>1, <2>1, <2>2 DEF PhaseIs, FiniPhase, Up, Down
  <2>4. MaskIs'
    BY <1>1, <2>1, <2>2 DEF MaskIs
  <2>5. ~Pushed(8)' /\ ~Pushed(7)' /\ (Fresh' => Fresh /\ active' = active)
    BY <1>1, <2>1, <2>2 DEF Pushed, Fresh
  <2> QED
    BY <1>1, <1>5, <1>6, <2>1, <2>2, <2>3, <2>4, <2>5, MainLife
<1>12. CASE Stop
  <2>1. /\ o = "FiniRest" /\ i = 4 /\ consumer' = "stopped"
        /\ UNCHANGED <<exposed, scheduler, active, tables>>
    BY <1>2, <1>12 DEF Stop, Does, Before, MainPlaces, process, central
  <2>2. op'[Main] = "FiniRest" /\ at'[Main] = 5 /\ OthersStay(Main)
    BY <1>4, <1>12, <2>1, MainEnds DEF Stop
  <2>3. PhaseIs'
    BY <1>1, <2>1, <2>2 DEF PhaseIs, FiniPhase
  <2>4. MaskIs'
    BY <1>1, <2>1, <2>2 DEF MaskIs
  <2>5. ~scheduler /\ ~Pushed(8)' /\ ~Pushed(7)' /\ ~Fresh'
    BY <1>1, <2>1, <2>2 DEF PhaseIs, FiniPhase, Pushed, Fresh
  <2> QED
    BY <1>1, <1>5, <2>1, <2>2, <2>3, <2>4, <2>5, MainLife
<1> QED
  BY <1>7, <1>8, <1>9, <1>10, <1>11, <1>12

-------------------------------------------------------------------------------
(* The life: the scheduler thread.                                         *)

\* While the main thread stays, and with it what only it changes, PhaseIs and MaskIs stay.
LEMMA MainStays ==
    ASSUME PhaseIs, MaskIs,
           op'[Main] = op[Main], at'[Main] = at[Main], knows'[Main] = knows[Main],
           UNCHANGED <<sdk, masked, exposed, scheduler, consumer, tables>>
    PROVE  /\ PhaseIs' /\ MaskIs' /\ Fresh' = Fresh /\ Ejects' = Ejects
           /\ Pushed(7)' = Pushed(7) /\ Pushed(8)' = Pushed(8)
<1>1. PhaseIs'
  BY DEF PhaseIs, InitPhase, UndoPhase, FiniPhase, Up, Down
<1>2. MaskIs'
  BY DEF MaskIs
<1>3. Fresh' = Fresh /\ Ejects' = Ejects /\ Pushed(7)' = Pushed(7) /\ Pushed(8)' = Pushed(8)
  BY DEF Fresh, Ejects, Pushed
<1> QED
  BY <1>1, <1>2, <1>3

\* There is a running scheduler when s_scheduler is set.
LEMMA SchedulerRuns ==
    ASSUME LInv, LifeInv, scheduler
    PROVE  consumer = "running" /\ ~Fresh
<1>1. op[Main] \in MainOps /\ at[Main] \in 1 .. 9
  BY DEF LInv, RightThread, ThreadsTyped, Threads
<1> QED
  BY <1>1 DEF LifeInv, PhaseIs, InitPhase, UndoPhase, FiniPhase, Up, Down, Fresh, MainOps

\* A job that runs before s_scheduler is set runs while the main thread is in init with
\* g_big, which no step of the job that takes it can pass.
LEMMA FreshJobsWait ==
    ASSUME LInv, LifeInv, Fresh, op[Worker] # "Idle" \/ consumer = "running"
    PROVE  /\ consumer = "running" /\ op[Main] = "InitRest" /\ at[Main] \in 6 .. 8
           /\ ~Free("big")
<1>1. consumer # "none"
  BY DEF LifeInv, FreshIs
<1>2. op[Main] \in MainOps
  BY DEF LInv, RightThread
<1>3. at[Main] \in 1 .. 9
  BY DEF LInv, ThreadsTyped, Threads
<1>4. consumer = "running" /\ op[Main] = "InitRest" /\ at[Main] \in 6 .. 8
  BY <1>1, <1>2, <1>3 DEF LifeInv, PhaseIs, InitPhase, UndoPhase, Up, Down, Fresh, MainOps
<1>5. owner["big"] = Main
  BY <1>4 DEF LInv, OwnersAreThere, Holds, HoldsBig, Threads, Locks
<1> QED
  BY <1>4, <1>5, AgentAssumption DEF Free, Threads

\* Where the scheduler thread is before a step, and where it goes from there.
LEMMA WorkerGoes ==
    ASSUME LInv, at[Worker] \in DOMAIN Code[op[Worker]]
    PROVE  /\ op[Worker] \in WorkerOps \ {"Idle"} /\ at[Worker] \in 1 .. 9
           /\ WorkerPlaces(op[Worker], at[Worker], Here(Worker).do)
           /\ op[Worker] \notin {"PullState", "PullUsage", "Inform"} =>
                at[Worker] \in 1 .. WorkerLength(op[Worker])
           /\ GoOn(Worker) =>
                /\ OthersStay(Worker)
                /\ IF op[Worker] \in {"PullState", "PullUsage", "Inform"}
                     THEN op'[Worker] \in {op[Worker], "Done"}
                   ELSE IF at[Worker] = WorkerLength(op[Worker])
                     THEN op'[Worker] = (IF op[Worker] = "Done" THEN "Idle" ELSE "Done")
                   ELSE op'[Worker] = op[Worker] /\ at'[Worker] = at[Worker] + 1
                        /\ knows'[Worker] = knows[Worker]
<1>1. op[Worker] \in WorkerOps /\ Worker \in Threads
  BY DEF LInv, RightThread, Threads
<1>2. /\ op[Worker] \notin {"PullState", "PullUsage", "Inform"} =>
           Len(Code[op[Worker]]) = WorkerLength(op[Worker])
      /\ DOMAIN Code[op[Worker]] = 1 .. Len(Code[op[Worker]])
      /\ WorkerPlaces(op[Worker], at[Worker], Here(Worker).do)
  BY <1>1, WorkerCode DEF Here
<1>3. op[Worker] # "Idle"
  <2>1. DOMAIN Code["Idle"] = {}
    BY DEF Code
  <2> QED
    BY <2>1
<1>4. Follow(op[Worker]) = IF op[Worker] = "Done" THEN "Idle" ELSE "Done"
  BY <1>1, <1>3 DEF Follow, WorkerOps, JobOps
<1>5. at[Worker] \in 1 .. 9
  BY <1>1 DEF LInv, ThreadsTyped
<1> QED
  BY <1>1, <1>2, <1>3, <1>4, <1>5, GoesTo

\* The main thread and those of the SDK stay where they are when the scheduler thread moves.
LEMMA WorkerMovesAlone ==
    ASSUME OthersStay(Worker)
    PROVE  /\ op'[Main] = op[Main] /\ at'[Main] = at[Main] /\ knows'[Main] = knows[Main]
           /\ \A t \in Callbacks : op'[t] = op[t] /\ Detaches(t)' = Detaches(t)
<1>1. \A t \in Callbacks \cup {Main} : op'[t] = op[t] /\ at'[t] = at[t] /\ knows'[t] = knows[t]
  BY AgentAssumption DEF OthersStay, Threads
<1> QED
  BY <1>1 DEF Detaches

\* The steps of the scheduler thread that change nothing but where it is, or that make
\* the Server active, or push the job again.
LEMMA WorkerLife ==
    ASSUME LInv, LifeInv, OthersStay(Worker), HandIs',
           UNCHANGED <<sdk, masked, exposed, scheduler, consumer, tables, hand, subscribed>>,
           queue \subseteq queue', op[Worker] # "Idle",
           active => active',
           Fresh => /\ active' = active /\ queue' = queue
                    /\ op'[Worker] # "Eject"
                    /\ op'[Worker] \in {"LinkFails", "LinkAttaches"} => at'[Worker] = 1
                    /\ op'[Worker] = "Reap" => at'[Worker] <= 2
                    /\ op'[Worker] = "Done" => hand = "none",
           Fresh \/ scheduler => /\ CarriesReap => CarriesReap' \/ "Reap" \in queue'
                                 /\ CarriesLink => CarriesLink' \/ "Link" \in queue' \/ active',
           CarriesEject => CarriesEject'
    PROVE  LifeInv'
<1>1. /\ PhaseIs' /\ MaskIs' /\ Fresh' = Fresh /\ Ejects' = Ejects
      /\ Pushed(7)' = Pushed(7) /\ Pushed(8)' = Pushed(8)
  BY WorkerMovesAlone, MainStays DEF LifeInv
<1>2. \A t \in Callbacks : op'[t] = op[t] /\ Detaches(t)' = Detaches(t)
  BY WorkerMovesAlone
<1>3. Pushed(7) \/ Pushed(8) => Fresh \/ scheduler
  BY DEF Pushed, Fresh
<1>4. FreshIs'
  <2> SUFFICES ASSUME Fresh PROVE FreshIs'
    BY <1>1 DEF FreshIs
  <2>1. consumer = "running"
    BY FreshJobsWait
  <2> QED
    BY <1>2, <2>1 DEF LifeInv, FreshIs
<1>5. ChainsAreCarried'
  BY <1>1, <1>2, <1>3 DEF LifeInv, ChainsAreCarried
<1>6. TablesAreOwned'
  BY WorkerMovesAlone DEF LifeInv, TablesAreOwned
<1> QED
  BY <1>1, <1>4, <1>5, <1>6 DEF LifeInv

\* So do its locks and the read of a guest.
LEMMA WorkerLocksLife ==
    ASSUME LInv, LifeInv, TakeLock(Worker) \/ DropLock(Worker) \/ VisitLock(Worker) \/ Read
    PROVE  LifeInv'
<1> DEFINE o == op[Worker]
           i == at[Worker]
           d == Here(Worker).do
<1>1. /\ at[Worker] \in DOMAIN Code[op[Worker]] /\ d \in {"take", "drop", "visit", "read"}
      /\ GoOn(Worker) /\ UNCHANGED <<process, central, sched>>
  BY DEF TakeLock, DropLock, VisitLock, Read, Does, Before
<1>2. /\ UNCHANGED <<sdk, masked, exposed, subscribed, scheduler, active, tables>>
      /\ UNCHANGED <<consumer, queue, hand>>
  BY <1>1 DEF process, central, sched
<1>3. /\ o \in WorkerOps \ {"Idle"} /\ i \in 1 .. 9 /\ WorkerPlaces(o, i, d)
      /\ OthersStay(Worker)
  BY <1>1, WorkerGoes
<1>4. /\ HandIs /\ FreshIs
  BY DEF LifeInv
<1>5. CASE o \in {"PullState", "PullUsage", "Inform"}
  <2>1. op'[Worker] \in {o, "Done"}
    BY <1>1, <1>5, WorkerGoes
  <2>2. HandIs'
    BY <1>2, <1>4, <1>5, <2>1 DEF HandIs
  <2>3. hand = "none" /\ ~CarriesReap /\ ~CarriesLink /\ ~CarriesEject
    BY <1>4, <1>5 DEF HandIs, CarriesReap, CarriesLink, CarriesEject
  <2> QED
    BY <1>2, <1>3, <1>5, <2>1, <2>2, <2>3, WorkerLife
<1>6. CASE o = "LinkAttaches"
  <2>1. (i = 2 /\ d = "take") \/ (i = 5 /\ d = "drop")
    <3>1. Submit("Snatch").do = "submit"
      BY DEF Submit
    <3> QED
      BY <1>1, <1>3, <1>6, <3>1 DEF WorkerPlaces, Here
  <2>2. ~Fresh
    BY <1>4, <1>6, <2>1 DEF FreshIs
  <2>3. IF i = 2 THEN op'[Worker] = o /\ at'[Worker] = 3 ELSE op'[Worker] = "Done"
    BY <1>1, <1>6, <2>1, WorkerGoes DEF WorkerLength
  <2>4. HandIs'
    BY <1>2, <1>4, <1>6, <2>3 DEF HandIs
  <2>5. ~CarriesReap /\ ~CarriesEject /\ (CarriesLink => CarriesLink')
    BY <1>6, <2>1, <2>3 DEF CarriesReap, CarriesLink, CarriesEject
  <2> QED
    BY <1>2, <1>3, <1>6, <2>2, <2>4, <2>5, WorkerLife
<1>7. CASE o = "Reap"
  <2>1. i = 1
    <3>1. Submit("Reap").do = "submit"
      BY DEF Submit
    <3> QED
      BY <1>1, <1>3, <1>7, <3>1 DEF WorkerPlaces, Here
  <2>2. op'[Worker] = "Reap" /\ at'[Worker] = 2
    BY <1>1, <1>7, <2>1, WorkerGoes DEF WorkerLength
  <2>3. HandIs'
    BY <1>2, <1>4, <1>7, <2>2 DEF HandIs
  <2>4. CarriesReap' /\ ~CarriesEject /\ ~CarriesLink
    BY <1>7, <2>1, <2>2 DEF CarriesReap, CarriesLink, CarriesEject
  <2> QED
    BY <1>2, <1>3, <1>7, <2>2, <2>3, <2>4, WorkerLife
<1>8. o \in {"PullState", "PullUsage", "Inform", "LinkAttaches", "Reap"}
  <2>1. o # "LinkFails" /\ o # "Eject"
    <3>1. Submit("Link").do = "submit"
      BY DEF Submit
    <3> QED
      BY <1>1, <1>3, <3>1 DEF WorkerPlaces, Here
  <2>2. o # "Done"
    <3>1. Code["Done"][1].do = "finish" /\ DOMAIN Code["Done"] = {1}
      BY DEF Code, Done, Do
    <3> QED
      BY <1>1, <3>1 DEF Here
  <2> QED
    BY <1>3, <2>1, <2>2 DEF WorkerOps, JobOps
<1> QED
  BY <1>5, <1>6, <1>7, <1>8

\* A look at s_scheduler finds it when the chains need it, and no job looks before it is set.
LEMMA WorkerLooksLife ==
    ASSUME LInv, LifeInv, StateTyped, Look(Worker) \/ LookOrLeave(Worker)
    PROVE  LifeInv'
<1> DEFINE o == op[Worker]
           i == at[Worker]
           d == Here(Worker).do
<1>1. /\ at[Worker] \in DOMAIN Code[op[Worker]] /\ d \in {"look", "lookOrLeave"}
      /\ Free("big") /\ Worker \in Threads
      /\ UNCHANGED <<process, central, sched>>
  BY DEF Look, LookOrLeave, Does, Before, LockOf, Locks, Threads
<1>2. /\ UNCHANGED <<sdk, masked, exposed, subscribed, scheduler, active, tables>>
      /\ UNCHANGED <<consumer, queue, hand>>
  BY <1>1 DEF process, central, sched
<1>3. o \in WorkerOps \ {"Idle"} /\ i \in 1 .. 9 /\ WorkerPlaces(o, i, d)
  BY <1>1, WorkerGoes
<1>4. ~Fresh /\ HandIs /\ scheduler \in BOOLEAN
  BY <1>1, <1>3, FreshJobsWait DEF LifeInv, StateTyped
<1>5. CASE Look(Worker)
  <2>1. /\ op'[Worker] = o /\ at'[Worker] = i + 1 /\ knows'[Worker] = scheduler
        /\ OthersStay(Worker)
    BY <1>1, <1>3, <1>5 DEF Look, LInv, ThreadsTyped, OthersStay
  <2>2. HandIs'
    BY <1>2, <1>4, <2>1 DEF HandIs
  <2>3. /\ scheduler /\ CarriesReap => CarriesReap'
        /\ scheduler /\ CarriesLink => CarriesLink'
    <3>1. CASE o = "Reap"
      BY <1>3, <2>1, <3>1 DEF CarriesReap, CarriesLink
    <3>2. CASE o = "LinkFails"
      BY <1>3, <2>1, <3>2 DEF CarriesReap, CarriesLink
    <3>3. CASE o = "LinkAttaches"
      <4>1. i # 4
        BY <1>3, <1>5, <3>3 DEF WorkerPlaces, Look, Does, Before
      <4> QED
        BY <1>3, <2>1, <3>3, <4>1 DEF CarriesReap, CarriesLink
    <3> QED
      BY <3>1, <3>2, <3>3 DEF CarriesReap, CarriesLink
  <2>4. ~CarriesEject
    BY <1>1, <1>3 DEF CarriesEject, WorkerPlaces
  <2> QED
    BY <1>2, <1>3, <1>4, <2>1, <2>2, <2>3, <2>4, WorkerLife
<1>6. CASE LookOrLeave(Worker)
  <2>1. o = "LinkAttaches" /\ i = 1 /\ ~CarriesReap /\ ~CarriesEject
    BY <1>3, <1>6 DEF LookOrLeave, Does, Before, WorkerPlaces, CarriesReap, CarriesEject
  <2>2. CASE scheduler /\ at' = [at EXCEPT ![Worker] = @ + 1] /\ UNCHANGED op
             /\ knows' = [knows EXCEPT ![Worker] = TRUE]
    <3>1. op'[Worker] = o /\ at'[Worker] = 2 /\ OthersStay(Worker)
      BY <1>1, <2>1, <2>2 DEF LInv, ThreadsTyped, OthersStay
    <3>2. HandIs' /\ CarriesLink'
      BY <1>2, <1>4, <2>1, <3>1 DEF HandIs, CarriesLink
    <3> QED
      BY <1>2, <1>3, <1>4, <2>1, <3>1, <3>2, WorkerLife
  <2>3. CASE ~scheduler /\ Jump(Worker, Follow(op[Worker]))
    <3>1. op'[Worker] = "Done" /\ OthersStay(Worker)
      BY <1>1, <2>1, <2>3, GoesTo DEF Follow, JobOps
    <3>2. HandIs'
      BY <1>2, <3>1 DEF HandIs
    <3> QED
      BY <1>2, <1>3, <1>4, <2>1, <2>3, <3>1, <3>2, WorkerLife
  <2> QED
    BY <1>6, <2>2, <2>3 DEF LookOrLeave
<1> QED
  BY <1>5, <1>6

\* A job that pushes itself again is queued when it is over, if the chains need it.
LEMMA WorkerPushLife ==
    ASSUME LInv, LifeInv, Push(Worker) \/ PushNowhere(Worker)
    PROVE  LifeInv'
<1> DEFINE o == op[Worker]
           i == at[Worker]
           d == Here(Worker).do
<1>1. /\ at[Worker] \in DOMAIN Code[op[Worker]] /\ d = "submit" /\ GoOn(Worker)
      /\ UNCHANGED <<sdk, masked, exposed, subscribed, scheduler, active, tables, consumer, hand>>
      /\ HandIs /\ FreshIs
  BY DEF Push, PushNowhere, Does, Before, process, central, sched, LifeInv
<1>2. o \in WorkerOps \ {"Idle"} /\ i \in 1 .. 9 /\ WorkerPlaces(o, i, d) /\ OthersStay(Worker)
  BY <1>1, WorkerGoes
<1>3. /\ knows[Worker] => queue' = IF consumer = "running"
                                     THEN queue \cup ({Here(Worker).of} \cap Kept) ELSE queue
      /\ ~knows[Worker] => queue' = queue
  BY DEF Push, PushNowhere, sched
<1>4. queue \subseteq queue'
  BY <1>3
<1>5. ~CarriesEject
  BY <1>1, <1>2 DEF CarriesEject, WorkerPlaces
<1>6. ASSUME o \notin {"LinkFails", "Reap"}
      PROVE  queue' = queue
  <2>1. Here(Worker).of \notin Kept
    BY <1>1, <1>2, <1>6 DEF WorkerPlaces, Here
  <2> QED
    BY <1>3, <2>1
<1>7. CASE o \in {"PullState", "PullUsage", "Inform"}
  <2>1. op'[Worker] \in {o, "Done"}
    BY <1>1, <1>7, WorkerGoes
  <2>2. HandIs'
    BY <1>1, <1>7, <2>1 DEF HandIs
  <2>3. hand = "none" /\ ~CarriesReap /\ ~CarriesLink
    BY <1>1, <1>7 DEF HandIs, CarriesReap, CarriesLink
  <2> QED
    BY <1>1, <1>2, <1>4, <1>5, <1>6, <1>7, <2>1, <2>2, <2>3, WorkerLife
<1>8. CASE o = "LinkAttaches"
  <2>1. i = 3
    BY <1>1, <1>2, <1>8 DEF WorkerPlaces
  <2>2. ~Fresh
    BY <1>1, <1>8, <2>1 DEF FreshIs
  <2>3. op'[Worker] = o /\ at'[Worker] = 4
    BY <1>1, <1>8, <2>1, WorkerGoes DEF WorkerLength
  <2>4. HandIs'
    BY <1>1, <1>8, <2>3 DEF HandIs
  <2>5. CarriesLink' /\ ~CarriesReap
    BY <1>8, <2>3 DEF CarriesReap, CarriesLink
  <2> QED
    BY <1>1, <1>2, <1>4, <1>5, <1>8, <2>2, <2>4, <2>5, WorkerLife
<1>9. CASE o \in {"LinkFails", "Reap"}
  <2>1. /\ o = "LinkFails" => i = 2 /\ Here(Worker).of = "Link"
        /\ o = "Reap" => i = 3 /\ Here(Worker).of = "Reap"
    BY <1>1, <1>2, <1>9 DEF WorkerPlaces, Here, Submit
  <2>2. ~Fresh
    BY <1>1, <1>9, <2>1 DEF FreshIs
  <2>3. op'[Worker] = "Done"
    BY <1>1, <1>9, <2>1, WorkerGoes DEF WorkerLength
  <2>4. HandIs'
    BY <2>3 DEF HandIs
  <2>5. scheduler => /\ CarriesReap => "Reap" \in queue'
                     /\ CarriesLink => "Link" \in queue'
    <3> SUFFICES ASSUME scheduler
                 PROVE  /\ CarriesReap => "Reap" \in queue'
                        /\ CarriesLink => "Link" \in queue'
      OBVIOUS
    <3>1. consumer = "running"
      BY SchedulerRuns
    <3>2. ASSUME CarriesReap PROVE "Reap" \in queue'
      <4>1. knows[Worker] /\ Here(Worker).of = "Reap"
        BY <2>1, <3>2 DEF CarriesReap
      <4> QED
        BY <1>3, <3>1, <4>1 DEF Kept
    <3>3. ASSUME CarriesLink PROVE "Link" \in queue'
      <4>1. knows[Worker] /\ Here(Worker).of = "Link"
        BY <1>9, <2>1, <3>3 DEF CarriesLink
      <4> QED
        BY <1>3, <3>1, <4>1 DEF Kept
    <3> QED
      BY <3>2, <3>3
  <2> QED
    BY <1>1, <1>2, <1>4, <1>5, <2>2, <2>4, <2>5, WorkerLife
<1>10. o \in {"PullState", "PullUsage", "Inform", "LinkAttaches", "LinkFails", "Reap"}
  <2>1. o # "Eject"
    BY <1>1, <1>2 DEF WorkerPlaces
  <2>2. o # "Done"
    <3>1. Code["Done"][1].do = "finish" /\ DOMAIN Code["Done"] = {1}
      BY DEF Code, Done, Do
    <3> QED
      BY <1>1, <3>1 DEF Here
  <2> QED
    BY <1>2, <2>1, <2>2 DEF WorkerOps, JobOps
<1> QED
  BY <1>7, <1>8, <1>9, <1>10

\* The Server is attached when its Link is over.
LEMMA ActivateLife ==
    ASSUME LInv, LifeInv, Activate
    PROVE  LifeInv'
<1>1. /\ at[Worker] \in DOMAIN Code[op[Worker]] /\ Here(Worker).do = "activate"
      /\ GoOn(Worker) /\ active' = TRUE
      /\ UNCHANGED <<sdk, masked, exposed, subscribed, scheduler, tables, consumer, hand, queue>>
  BY DEF Activate, Does, Before, process, sched
<1>2. op[Worker] = "LinkAttaches" /\ at[Worker] = 4 /\ OthersStay(Worker)
  BY <1>1, WorkerGoes DEF WorkerPlaces
<1>3. op'[Worker] = "LinkAttaches" /\ at'[Worker] = 5
  BY <1>1, <1>2, WorkerGoes DEF WorkerLength
<1>4. HandIs'
  BY <1>1, <1>2, <1>3 DEF LifeInv, HandIs
<1>5. ~Fresh
  BY <1>2 DEF LifeInv, FreshIs
<1>6. ~CarriesReap /\ ~CarriesEject
  BY <1>2 DEF CarriesReap, CarriesEject
<1> QED
  BY <1>1, <1>2, <1>4, <1>5, <1>6, WorkerLife

\* Eject takes the callbacks away one after the other.
LEMMA UnregisterLife ==
    ASSUME LInv, LifeInv, StateTyped, Unregister
    PROVE  LifeInv'
<1>1. /\ at[Worker] \in DOMAIN Code[op[Worker]]
      /\ GoOn(Worker)
      /\ UNCHANGED <<sdk, masked, exposed, scheduler, active, tables, consumer, hand, queue>>
  BY DEF Unregister, Does, Before, central, sched
<1>2. OthersStay(Worker) /\ op[Worker] \in WorkerOps
  BY <1>1, WorkerGoes
<1>3. /\ op[Worker] = "Eject"
      /\ \/ /\ at[Worker] = 1 /\ op'[Worker] = "Eject" /\ at'[Worker] = 2
            /\ subscribed' = subscribed \ {1}
         \/ at[Worker] = 2 /\ op'[Worker] = "Done" /\ subscribed' = subscribed \ {2}
  BY <1>1, WorkerGoes DEF Unregister, Does, Before, WorkerPlaces, WorkerLength
<1>4. HandIs'
  BY <1>1, <1>3 DEF LifeInv, HandIs
<1>5. ~Fresh
  BY <1>3 DEF LifeInv, FreshIs
<1>6. /\ PhaseIs' /\ MaskIs' /\ Fresh' = Fresh /\ Ejects' = Ejects
      /\ Pushed(7)' = Pushed(7) /\ Pushed(8)' = Pushed(8)
  BY <1>1, <1>2, WorkerMovesAlone, MainStays DEF LifeInv
<1>7. \A t \in Callbacks : Detaches(t)' = Detaches(t)
  BY <1>2, WorkerMovesAlone
<1>8. ~CarriesReap /\ ~CarriesLink
  BY <1>3 DEF CarriesReap, CarriesLink
<1>9. subscribed = {} \/ "Eject" \in queue \/ CarriesEject =>
        subscribed' = {} \/ "Eject" \in queue' \/ CarriesEject'
  <2>1. subscribed \subseteq {1, 2}
    BY DEF StateTyped
  <2>2. CASE at[Worker] = 1
    BY <1>3, <2>2 DEF CarriesEject
  <2>3. CASE at[Worker] = 2
    BY <1>1, <1>3, <2>1, <2>3 DEF CarriesEject
  <2> QED
    BY <1>3, <2>2, <2>3
<1>10. ChainsAreCarried'
  BY <1>1, <1>6, <1>7, <1>8, <1>9 DEF LifeInv, ChainsAreCarried
<1>11. TablesAreOwned'
  BY <1>1, <1>2, WorkerMovesAlone DEF LifeInv, TablesAreOwned
<1>12. FreshIs'
  BY <1>5, <1>6 DEF FreshIs
<1> QED
  BY <1>4, <1>6, <1>10, <1>11, <1>12 DEF LifeInv

\* consume takes a job into its hand, which is what goes on from there.
LEMMA RunLife ==
    ASSUME LInv, LifeInv, NEW j \in Kept \cup {"Snatch", "Inform"}, Run(j)
    PROVE  LifeInv'
<1>1. /\ op[Worker] = "Idle" /\ consumer = "running"
      /\ j \in Kept => j \in queue
      /\ hand' = IF j \in Kept THEN j ELSE "none"
      /\ queue' = queue \ {j}
      /\ UNCHANGED <<sdk, masked, exposed, subscribed, scheduler, active, tables, consumer>>
      /\ Worker \in Threads
  BY DEF Run, process, central, Threads
<1>2. PICK o \in BodyOf(j) : Jump(Worker, o)
  BY DEF Run
<1>3. op'[Worker] = o /\ at'[Worker] = 1 /\ OthersStay(Worker)
  BY <1>1, <1>2, GoesTo
<1>4. /\ o \in JobOps
      /\ o \in {"LinkFails", "LinkAttaches"} <=> j = "Link"
      /\ o \in {"Reap", "Eject"} => j = o
      /\ j = "Reap" => o = "Reap"
      /\ j = "Eject" => o = "Eject"
      /\ o \in {"PullState", "PullUsage", "Inform"} => j \notin Kept
  BY DEF BodyOf, Kept, JobOps
<1>5. HandIs'
  BY <1>1, <1>3, <1>4 DEF HandIs, JobOps, Kept
<1>6. /\ PhaseIs' /\ MaskIs' /\ Fresh' = Fresh /\ Ejects' = Ejects
      /\ Pushed(7)' = Pushed(7) /\ Pushed(8)' = Pushed(8)
  BY <1>1, <1>3, WorkerMovesAlone, MainStays DEF LifeInv
<1>7. \A t \in Callbacks : op'[t] = op[t] /\ Detaches(t)' = Detaches(t)
  BY <1>3, WorkerMovesAlone
<1>8. /\ hand = "none" /\ ~CarriesReap /\ ~CarriesLink /\ ~CarriesEject
  BY <1>1 DEF LifeInv, HandIs, CarriesReap, CarriesLink, CarriesEject
<1>9. FreshIs'
  <2> SUFFICES ASSUME Fresh PROVE FreshIs'
    BY <1>6 DEF FreshIs
  <2>1. queue \subseteq {"Link", "Reap"}
    BY DEF LifeInv, FreshIs
  <2>2. o # "Eject" /\ o # "Done"
    BY <1>1, <1>4, <2>1 DEF Kept, JobOps
  <2>3. ~active /\ subscribed = {1, 2} /\ \A t \in Callbacks : op[t] # "Detach"
    BY DEF LifeInv, FreshIs
  <2>4. /\ ~active' /\ subscribed' = {1, 2} /\ queue' \subseteq {"Link", "Reap"}
        /\ consumer' # "none" /\ \A t \in Callbacks : op'[t] # "Detach"
    BY <1>1, <1>7, <2>1, <2>3
  <2>5. op'[Worker] # "Eject" /\ op'[Worker] # "Done" /\ at'[Worker] = 1
    BY <1>3, <2>2
  <2> QED
    BY <2>4, <2>5 DEF FreshIs
<1>10. ChainsAreCarried'
  <2>1. "Reap" \in queue => "Reap" \in queue' \/ CarriesReap'
    BY <1>1, <1>3, <1>4 DEF CarriesReap
  <2>2. "Link" \in queue => "Link" \in queue' \/ CarriesLink'
    <3>1. CASE j = "Link"
      BY <1>3, <1>4, <3>1 DEF CarriesLink
    <3> QED
      BY <1>1, <3>1
  <2>3. "Eject" \in queue => "Eject" \in queue' \/ CarriesEject'
    BY <1>1, <1>3, <1>4 DEF CarriesEject
  <2> QED
    BY <1>1, <1>6, <1>7, <1>8, <2>1, <2>2, <2>3 DEF LifeInv, ChainsAreCarried
<1>11. TablesAreOwned'
  <2>1. "Reap" \in queue => "Reap" \in queue' \/ hand' = "Reap"
    BY <1>1
  <2> QED
    BY <1>1, <1>3, <1>8, <2>1, WorkerMovesAlone DEF LifeInv, TablesAreOwned
<1> QED
  BY <1>5, <1>6, <1>9, <1>10, <1>11 DEF LifeInv

\* A job that is over has been pushed again where the tables and the chains need it.
LEMMA FinishLife ==
    ASSUME LInv, LifeInv, StateTyped, Finish
    PROVE  LifeInv'
<1>1. /\ at[Worker] \in DOMAIN Code[op[Worker]] /\ Here(Worker).do = "finish" /\ GoOn(Worker)
      /\ hand' = "none" /\ tables' = (tables /\ (hand = "Reap" => "Reap" \in queue))
      /\ UNCHANGED <<sdk, masked, exposed, subscribed, scheduler, active, consumer, queue>>
      /\ tables \in BOOLEAN
  BY DEF Finish, Does, Before, process, StateTyped
<1>2. op[Worker] = "Done" /\ at[Worker] = 1 /\ OthersStay(Worker)
  BY <1>1, WorkerGoes DEF WorkerPlaces
<1>3. op'[Worker] = "Idle"
  BY <1>1, <1>2, WorkerGoes DEF WorkerLength
<1>4. /\ op'[Main] = op[Main] /\ at'[Main] = at[Main] /\ knows'[Main] = knows[Main]
      /\ \A t \in Callbacks : op'[t] = op[t] /\ Detaches(t)' = Detaches(t)
  BY <1>2, WorkerMovesAlone
<1>5. ~CarriesReap /\ ~CarriesLink /\ ~CarriesEject
  BY <1>2 DEF CarriesReap, CarriesLink, CarriesEject
<1>6. ASSUME scheduler
      PROVE  tables' = tables
  <2>1. "Reap" \in queue
    BY <1>5, <1>6 DEF LifeInv, ChainsAreCarried
  <2> QED
    BY <1>1, <2>1
<1>7. ASSUME Fresh
      PROVE  tables' = tables /\ op[Main] = "InitRest" /\ at[Main] \in 6 .. 8
  <2>1. hand = "none"
    BY <1>2, <1>7 DEF LifeInv, FreshIs
  <2>2. op[Main] = "InitRest" /\ at[Main] \in 6 .. 8
    BY <1>2, <1>7, FreshJobsWait
  <2> QED
    BY <1>1, <2>1, <2>2
<1>8. PhaseIs'
  <2>1. CASE tables' = tables
    BY <1>1, <1>4, <2>1, MainStays DEF LifeInv
  <2>2. CASE ~scheduler /\ op[Main] \in {"FiniRest", "Ended"}
    <3>1. PhaseIs /\ (tables' => tables)
      BY <1>1 DEF LifeInv
    <3> QED
      BY <1>1, <1>4, <2>2, <3>1 DEF PhaseIs, FiniPhase
  <2> QED
    BY <1>6, <1>7, <2>1, <2>2 DEF Fresh
<1>9. MaskIs' /\ HandIs'
  BY <1>1, <1>3, <1>4 DEF LifeInv, MaskIs, HandIs
<1>10. FreshIs'
  <2> SUFFICES ASSUME Fresh PROVE FreshIs'
    BY <1>1, <1>4 DEF FreshIs, Fresh
  <2>1. consumer = "running"
    BY <1>2, FreshJobsWait
  <2> QED
    BY <1>1, <1>3, <1>4, <2>1 DEF LifeInv, FreshIs
<1>11. ChainsAreCarried'
  BY <1>1, <1>4, <1>5 DEF LifeInv, ChainsAreCarried, Pushed, Ejects
<1>12. TablesAreOwned'
  BY <1>1, <1>4 DEF LifeInv, TablesAreOwned
<1> QED
  BY <1>8, <1>9, <1>10, <1>11, <1>12 DEF LifeInv

\* The queue goes with the scheduler, and the tables with the queue.
LEMMA ExitLife ==
    ASSUME LInv, LifeInv, Exit
    PROVE  LifeInv'
<1>1. /\ op[Worker] = "Idle" /\ consumer = "stopped" /\ consumer' = "ended" /\ queue' = {}
      /\ tables' = (tables /\ "Reap" \notin queue)
      /\ UNCHANGED <<op, at, knows, sdk, masked, exposed, subscribed, scheduler, active, hand>>
  BY DEF Exit, process, threads
<1>2. op[Main] \in MainOps /\ at[Main] \in 1 .. 9
  BY DEF LInv, RightThread, ThreadsTyped, Threads
<1>3. op[Main] = "FiniRest" /\ at[Main] >= 5 /\ ~scheduler
  BY <1>1, <1>2 DEF LifeInv, PhaseIs, InitPhase, UndoPhase, FiniPhase, Up, Down, MainOps
<1>4. ~tables'
  BY <1>1, <1>3 DEF LifeInv, TablesAreOwned, HandIs
<1>5. PhaseIs'
  BY <1>1, <1>2, <1>3, <1>4 DEF LifeInv, PhaseIs, FiniPhase
<1>6. MaskIs' /\ HandIs'
  BY <1>1 DEF LifeInv, MaskIs, HandIs
<1>7. FreshIs' /\ ChainsAreCarried' /\ TablesAreOwned'
  BY <1>1, <1>3, <1>4 DEF FreshIs, Fresh, ChainsAreCarried, Pushed, TablesAreOwned
<1> QED
  BY <1>5, <1>6, <1>7 DEF LifeInv

-------------------------------------------------------------------------------
(* The life: the threads of the SDK.                                       *)

\* Where a thread of the SDK is before a step, and where it goes from there.
LEMMA EventGoes ==
    ASSUME LInv, NEW t \in Callbacks, at[t] \in DOMAIN Code[op[t]]
    PROVE  /\ EventPlaces(op[t], at[t], Here(t).do) /\ at[t] \in 1 .. 9
           /\ GoOn(t) =>
                /\ OthersStay(t)
                /\ IF op[t] # "Detach" THEN op'[t] \in {op[t], "Idle"}
                   ELSE IF at[t] = 5 THEN op'[t] = "Idle"
                   ELSE op'[t] = op[t] /\ at'[t] = at[t] + 1 /\ knows'[t] = knows[t]
<1>1. op[t] \in EventOps /\ t \in Threads
  BY DEF LInv, RightThread, Threads
<1>2. /\ op[t] = "Detach" => Len(Code[op[t]]) = 5
      /\ EventPlaces(op[t], at[t], Here(t).do)
  BY <1>1, EventCode DEF Here
<1>3. Follow(op[t]) = "Idle"
  BY <1>1 DEF Follow, EventOps, JobOps
<1>4. at[t] \in 1 .. 9
  BY <1>1 DEF LInv, ThreadsTyped
<1> QED
  BY <1>1, <1>2, <1>3, <1>4, GoesTo

\* The other threads stay where they are when a thread of the SDK moves.
LEMMA EventMovesAlone ==
    ASSUME NEW t \in Callbacks, OthersStay(t), UNCHANGED subscribed
    PROVE  /\ op'[Main] = op[Main] /\ at'[Main] = at[Main] /\ knows'[Main] = knows[Main]
           /\ op'[Worker] = op[Worker] /\ at'[Worker] = at[Worker]
           /\ CarriesReap' = CarriesReap /\ CarriesLink' = CarriesLink
           /\ CarriesEject' = CarriesEject
           /\ \A u \in Callbacks \ {t} : op'[u] = op[u] /\ Detaches(u)' = Detaches(u)
<1>1. \A u \in (Callbacks \ {t}) \cup {Main, Worker} :
        op'[u] = op[u] /\ at'[u] = at[u] /\ knows'[u] = knows[u]
  BY AgentAssumption DEF OthersStay, Threads
<1> QED
  BY <1>1 DEF Detaches, CarriesReap, CarriesLink, CarriesEject

\* A step of a thread of the SDK that leaves a Link on its way, if there was need of one,
\* and does nothing before s_scheduler is set.
LEMMA EventLife ==
    ASSUME LInv, LifeInv, NEW t \in Callbacks, OthersStay(t),
           UNCHANGED <<sdk, masked, exposed, scheduler, consumer, tables, hand, subscribed>>,
           queue \subseteq queue',
           Fresh => active' = active /\ queue' = queue /\ op'[t] # "Detach",
           scheduler /\ (active \/ Detaches(t)) =>
                active' \/ "Link" \in queue' \/ Detaches(t)'
    PROVE  LifeInv'
<1>1. /\ op'[Main] = op[Main] /\ at'[Main] = at[Main] /\ knows'[Main] = knows[Main]
      /\ op'[Worker] = op[Worker] /\ at'[Worker] = at[Worker]
      /\ CarriesReap' = CarriesReap /\ CarriesLink' = CarriesLink
      /\ CarriesEject' = CarriesEject
      /\ \A u \in Callbacks \ {t} : op'[u] = op[u] /\ Detaches(u)' = Detaches(u)
  BY EventMovesAlone
<1>2. /\ PhaseIs' /\ MaskIs' /\ Fresh' = Fresh /\ Ejects' = Ejects
      /\ Pushed(7)' = Pushed(7) /\ Pushed(8)' = Pushed(8)
  BY <1>1, MainStays DEF LifeInv
<1>3. HandIs'
  BY <1>1 DEF LifeInv, HandIs
<1>4. FreshIs'
  BY <1>1, <1>2 DEF LifeInv, FreshIs
<1>5. (scheduler \/ Pushed(7)) /\ (active \/ \E u \in Callbacks : Detaches(u)) =>
        active' \/ "Link" \in queue' \/ \E u \in Callbacks : Detaches(u)'
  <2>1. CASE scheduler
    BY <1>1, <2>1
  <2>2. CASE ~scheduler /\ Pushed(7)
    <3>1. ~active /\ \A u \in Callbacks : op[u] # "Detach"
      BY <2>2 DEF Pushed, Fresh, LifeInv, FreshIs
    <3> QED
      BY <3>1 DEF Detaches
  <2> QED
    BY <2>1, <2>2
<1>6. ChainsAreCarried'
  BY <1>1, <1>2, <1>5 DEF LifeInv, ChainsAreCarried
<1>7. TablesAreOwned'
  BY <1>1 DEF LifeInv, TablesAreOwned
<1> QED
  BY <1>2, <1>3, <1>4, <1>6, <1>7 DEF LifeInv

\* What every step of the threads of the SDK does.
LEMMA EventStepLife ==
    ASSUME LInv, LifeInv, StateTyped, NEW t \in Callbacks, Deliver(t) \/ CallbackStep(t)
    PROVE  LifeInv'
<1> DEFINE o == op[t]
           i == at[t]
           d == Here(t).do
<1>1. /\ UNCHANGED <<sdk, masked, exposed, scheduler, consumer, tables, hand, subscribed>>
      /\ FreshIs /\ t \in Threads
      /\ Fresh => ~active /\ o # "Detach"
  BY DEF Deliver, CallbackStep, Step, TakeLock, DropLock, VisitLock, Look, LookOrLeave, Push,
     PushNowhere, Handle, Deactivate, process, central, sched, LifeInv, FreshIs, Threads
<1>2. CASE TakeLock(t) \/ DropLock(t) \/ VisitLock(t)
  <2>1. at[t] \in DOMAIN Code[op[t]] /\ GoOn(t) /\ d \in {"take", "drop", "visit"}
        /\ UNCHANGED <<active, queue>>
    BY <1>2 DEF TakeLock, DropLock, VisitLock, Does, Before, central, sched
  <2>2. OthersStay(t) /\ EventPlaces(o, i, d)
    BY <2>1, EventGoes
  <2>3. o # "Detach" => op'[t] # "Detach" /\ ~Detaches(t)
    BY <2>1, EventGoes DEF Detaches
  <2>4. o = "Detach" => Detaches(t)'
    <3> SUFFICES ASSUME o = "Detach" PROVE Detaches(t)'
      OBVIOUS
    <3>1. i \in {1, 3}
      BY <2>1, <2>2 DEF EventPlaces, Here, Submit
    <3>2. op'[t] = "Detach" /\ at'[t] = i + 1
      BY <2>1, <3>1, EventGoes
    <3> QED
      BY <3>1, <3>2 DEF Detaches
  <2> QED
    BY <1>1, <2>1, <2>2, <2>3, <2>4, EventLife
<1>3. CASE Look(t)
  <2>1. /\ at[t] \in DOMAIN Code[op[t]] /\ d = "look" /\ UNCHANGED <<active, queue>>
        /\ scheduler \in BOOLEAN
    BY <1>3 DEF Look, Does, Before, central, sched, StateTyped
  <2>2. op'[t] = o /\ at'[t] = i + 1 /\ knows'[t] = scheduler /\ OthersStay(t)
    BY <1>1, <1>3 DEF Look, LInv, ThreadsTyped, OthersStay
  <2>3. scheduler /\ Detaches(t) => Detaches(t)'
    BY <2>2 DEF Detaches
  <2> QED
    BY <1>1, <2>1, <2>2, <2>3, EventLife
<1>4. ~LookOrLeave(t)
  BY EventGoes DEF LookOrLeave, Does, Before, EventPlaces
<1>5. CASE Push(t) \/ PushNowhere(t)
  <2>1. /\ at[t] \in DOMAIN Code[op[t]] /\ GoOn(t) /\ d = "submit" /\ UNCHANGED active
        /\ knows[t] => queue' = IF consumer = "running"
                                  THEN queue \cup ({Here(t).of} \cap Kept) ELSE queue
        /\ ~knows[t] => queue' = queue
    BY <1>5 DEF Push, PushNowhere, Does, Before, central, sched
  <2>2. OthersStay(t) /\ EventPlaces(o, i, d)
    BY <2>1, EventGoes
  <2>3. queue \subseteq queue'
    BY <2>1
  <2>4. CASE o # "Detach"
    <3>1. op'[t] # "Detach" /\ ~Detaches(t)
      BY <2>1, <2>4, EventGoes DEF Detaches
    <3>2. Here(t).of \notin Kept
      BY <2>1, <2>2, <2>4 DEF EventPlaces, Here
    <3>3. queue' = queue
      BY <2>1, <3>2
    <3> QED
      BY <1>1, <2>1, <2>2, <3>1, <3>3, EventLife
  <2>5. CASE o = "Detach"
    <3>1. i = 5 /\ Here(t).of = "Link"
      BY <2>1, <2>2, <2>5 DEF EventPlaces, Here, Submit
    <3>2. ASSUME scheduler, Detaches(t) PROVE "Link" \in queue'
      <4>1. knows[t] /\ consumer = "running"
        BY <3>1, <3>2, SchedulerRuns DEF Detaches
      <4> QED
        BY <2>1, <3>1, <4>1 DEF Kept
    <3> QED
      BY <1>1, <2>1, <2>2, <2>3, <2>5, <3>2, EventLife
  <2> QED
    BY <2>4, <2>5
<1>6. CASE Deliver(t)
  <2>1. /\ o = "Idle" /\ op'[t] = "Event" /\ OthersStay(t) /\ UNCHANGED <<active, queue>>
    BY <1>1, <1>6, GoesTo DEF Deliver, central, sched
  <2>2. ~Detaches(t)
    BY <2>1 DEF Detaches
  <2> QED
    BY <1>1, <2>1, <2>2, EventLife
<1>7. CASE Handle(t)
  <2>1. at[t] \in DOMAIN Code[op[t]] /\ d = "handle" /\ UNCHANGED <<active, queue>>
    BY <1>7 DEF Handle, Does, Before, central, sched
  <2>2. o = "Event" /\ ~Detaches(t)
    BY <2>1, EventGoes DEF EventPlaces, Detaches
  <2>3. OthersStay(t) /\ (~active => op'[t] # "Detach")
    <3>1. \A p : Jump(t, p) => op'[t] = p /\ OthersStay(t)
      BY <1>1, GoesTo
    <3>2. CASE active /\ \E p \in {"Detach", "PullKnown", "PullNew", "Update"} : Jump(t, p)
      BY <3>1, <3>2
    <3>3. CASE ~active /\ Jump(t, "Idle")
      BY <3>1, <3>3
    <3> QED
      BY <1>7, <3>2, <3>3 DEF Handle
  <2> QED
    BY <1>1, <2>1, <2>2, <2>3, EventLife
<1>8. CASE Deactivate(t)
  <2>1. /\ at[t] \in DOMAIN Code[op[t]] /\ d = "deactivate" /\ GoOn(t) /\ queue' = queue
    BY <1>8 DEF Deactivate, Does, Before, sched
  <2>2. o = "Detach" /\ i = 2 /\ OthersStay(t)
    BY <2>1, EventGoes DEF EventPlaces
  <2>3. op'[t] = "Detach" /\ at'[t] = 3
    BY <2>1, <2>2, EventGoes
  <2>4. Detaches(t)'
    BY <2>3 DEF Detaches
  <2> QED
    BY <1>1, <2>1, <2>2, <2>4, EventLife
<1> QED
  BY <1>2, <1>3, <1>4, <1>5, <1>6, <1>7, <1>8 DEF CallbackStep, Step

-------------------------------------------------------------------------------
(* The life: all together.                                                 *)

\* No step of the agent, of the guests, or of none of them breaks it.
LEMMA LifeStep ==
    ASSUME LInv, LifeInv, StateTyped, [Next]_vars
    PROVE  LifeInv'
<1>1. CASE \/ SendTrap \/ BeginCommit \/ Deinit \/ Mask \/ Unmask \/ OpenSdk \/ Inject
           \/ AttachVes \/ CloseSdk \/ AwaitSdk \/ Join
  BY <1>1, MainOwnQuiet
<1>2. CASE AttachSinks \/ Go \/ Publish \/ Destroy \/ Retract \/ Stop
  BY <1>2, MainMakesLife
<1>3. ~LookOrLeave(Main)
  BY MainGoes DEF LookOrLeave, Does, Before, MainPlaces
<1>4. CASE Step(Main)
  BY <1>3, <1>4, MainLocksLife, MainPushLife DEF Step
<1>5. CASE Step(Worker) \/ Read
  BY <1>5, WorkerLocksLife, WorkerLooksLife, WorkerPushLife DEF Step
<1>6. CASE RunAny
  BY <1>6, RunLife DEF RunAny
<1>7. CASE Finish \/ Exit \/ Activate \/ Unregister
  BY <1>7, FinishLife, ExitLife, ActivateLife, UnregisterLife
<1>8. CASE \E t \in Callbacks : Deliver(t) \/ CallbackStep(t)
  BY <1>8, EventStepLife
<1>9. CASE FallSilent \/ Speak \/ Terminated \/ UNCHANGED vars
  <2>1. UNCHANGED <<threads, process, central, sched>>
    BY <1>9 DEF FallSilent, Speak, Terminated, vars
  <2>2. /\ UNCHANGED <<op, at, knows>>
        /\ UNCHANGED <<sdk, masked, exposed, subscribed, scheduler, active, tables>>
        /\ UNCHANGED <<consumer, queue, hand>>
    BY <2>1 DEF threads, process, central, sched
  <2>3. /\ op'[Main] = op[Main] /\ at'[Main] = at[Main] /\ knows'[Main] = knows[Main]
        /\ op'[Worker] = op[Worker] /\ at'[Worker] = at[Worker]
        /\ knows'[Worker] = knows[Worker]
        /\ \A t \in Callbacks : op'[t] = op[t] /\ Detaches(t)' = Detaches(t)
    BY <2>2 DEF Detaches
  <2>4. /\ PhaseIs' /\ MaskIs' /\ Fresh' = Fresh /\ Ejects' = Ejects
        /\ Pushed(7)' = Pushed(7) /\ Pushed(8)' = Pushed(8)
    BY <2>2, <2>3, MainStays DEF LifeInv
  <2>5. HandIs' /\ TablesAreOwned'
    BY <2>2, <2>3 DEF LifeInv, HandIs, TablesAreOwned
  <2>6. FreshIs'
    BY <2>2, <2>3, <2>4 DEF LifeInv, FreshIs
  <2>7. ChainsAreCarried'
    BY <2>2, <2>3, <2>4 DEF LifeInv, ChainsAreCarried, CarriesReap, CarriesLink, CarriesEject
  <2> QED
    BY <2>4, <2>5, <2>6, <2>7 DEF LifeInv
<1> QED
  BY <1>1, <1>2, <1>4, <1>5, <1>6, <1>7, <1>8, <1>9 DEF Next, MainStep, WorkerStep

\* At the beginning nothing is there, and nothing has been pushed.
LEMMA LifeInit == Init => LifeInv
<1> SUFFICES ASSUME Init PROVE LifeInv
  OBVIOUS
<1>1. /\ op[Main] = "Idle" /\ op[Worker] = "Idle" /\ \A t \in Callbacks : op[t] = "Idle"
      /\ sdk = "down" /\ ~masked /\ ~exposed /\ subscribed = {1, 2}
      /\ ~scheduler /\ ~active /\ ~tables
      /\ consumer = "none" /\ queue = {} /\ hand = "none"
  BY DEF Init, Threads
<1>2. PhaseIs /\ MaskIs /\ HandIs
  BY <1>1 DEF PhaseIs, Up, Down, MaskIs, HandIs
<1>3. FreshIs
  BY <1>1 DEF FreshIs
<1>4. ChainsAreCarried /\ TablesAreOwned
  BY <1>1 DEF ChainsAreCarried, Pushed, TablesAreOwned
<1> QED
  BY <1>2, <1>3, <1>4 DEF LifeInv

\* In every state the agent is in the phase that the step of its main thread belongs to,
\* and what the other threads carry is what that phase needs.
THEOREM AgentLife == Spec => [](LInv /\ StateTyped /\ LifeInv)
<1>1. LInv /\ StateTyped /\ LifeInv /\ [Next]_vars => (LInv /\ StateTyped /\ LifeInv)'
  BY LocksStep, StateTypedStep, LifeStep
<1>2. Init => LInv /\ StateTyped /\ LifeInv
  BY AgentInit, LifeInit
<1> QED
  BY <1>1, <1>2, PTL DEF Spec

\* When Central::init or fini has returned, all of it is there or nothing, whichever step
\* failed and whatever the jobs and the events did in between.
THEOREM AgentUpOrNothing == Spec => []UpOrNothing
<1>1. LInv /\ StateTyped /\ LifeInv => UpOrNothing
  BY DEF LifeInv, PhaseIs, TablesAreOwned, Up, Down, UpOrNothing
<1> QED
  BY <1>1, AgentLife, PTL

\* While the agent is up the Reaper's job is queued or runs, and so is a Link or the Server
\* is attached or a detach is about to push one.
THEOREM AgentChainsGoOn == Spec => []ChainsGoOn
<1>1. LInv /\ StateTyped /\ LifeInv => ChainsGoOn
  <2> SUFFICES ASSUME LInv, LifeInv, scheduler PROVE ChainsGoOn
    BY DEF ChainsGoOn
  <2>1. /\ "Reap" \in queue \/ CarriesReap
        /\ active \/ "Link" \in queue \/ CarriesLink \/ \E t \in Callbacks : Detaches(t)
    BY DEF LifeInv, ChainsAreCarried
  <2>2. (CarriesReap => hand = "Reap") /\ (CarriesLink => hand = "Link")
    BY DEF LifeInv, HandIs, CarriesReap, CarriesLink
  <2> QED
    BY <2>1, <2>2 DEF ChainsGoOn, Detaches
<1> QED
  BY <1>1, AgentLife, PTL

\* The callbacks stay registered until an init has succeeded, and then Eject is on its way
\* until both are gone.
THEOREM AgentStillSubscribed == Spec => []StillSubscribed
<1>1. LInv /\ StateTyped /\ LifeInv => StillSubscribed
  <2> SUFFICES ASSUME StateTyped, LifeInv, op[Main] = "Idle" PROVE StillSubscribed
    BY DEF StillSubscribed
  <2>1. CASE scheduler
    <3>1. subscribed = {} \/ "Eject" \in queue \/ CarriesEject
      BY <2>1 DEF LifeInv, ChainsAreCarried, Ejects
    <3>2. CarriesEject => hand = "Eject"
      BY DEF LifeInv, HandIs, CarriesEject
    <3> QED
      BY <2>1, <3>1, <3>2 DEF StillSubscribed
  <2>2. CASE ~scheduler
    BY <2>2 DEF LifeInv, FreshIs, Fresh, StillSubscribed
  <2> QED
    BY <2>1, <2>2
<1> QED
  BY <1>1, AgentLife, PTL

\* No thread but the main one is made with the signals open, and that one has them open
\* outside of the callback.
THEOREM AgentSignalsStayInMain == Spec => []SignalsStayInMain
<1>1. LInv /\ StateTyped /\ LifeInv => SignalsStayInMain
  BY DEF LifeInv, MaskIs, SignalsStayInMain
<1> QED
  BY <1>1, AgentLife, PTL
=============================================================================
