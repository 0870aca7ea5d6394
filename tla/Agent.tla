---------------------------------- MODULE Agent ---------------------------------
(***************************************************************************)
(* The threads of the agent and the locks that they share: the main thread *)
(* of snmpd with the entry of the module (rmond-drs.cpp, Central::init and *)
(* Central::fini of mib.cpp), the scheduler thread with its jobs, and the  *)
(* threads on which the PrlSDK delivers events.                            *)
(*                                                                         *)
(* An operation is a sequence of steps, which is its code with all but the *)
(* locks and the state of this module left out.  What a job does to the    *)
(* tables is in Sinks, Server, SubTables and Reports, the scheduler from   *)
(* inside is in Scheduler, and the read of a guest in Guest.               *)
(*                                                                         *)
(* The lock of a container (container.cpp) is not here: it is taken for    *)
(* one call of a std::set, in which no other lock is taken.                *)
(***************************************************************************)
EXTENDS Naturals, Sequences

CONSTANTS
    Main,       \* the thread of snmpd
    Worker,     \* the scheduler thread
    Callbacks,  \* the threads of the SDK
    Nobody

Threads == {Main, Worker} \cup Callbacks

ASSUME AgentAssumption ==
    /\ Main # Worker /\ Main \notin Callbacks /\ Worker \notin Callbacks
    /\ Nobody \notin Threads

\* callback is the lock of net-snmp's callbacks, big and ves are g_big and g_ves, mutex
\* is Unit::s_mutex of the scheduler and sinks is m_lock of the Reaper.
Locks == {"callback", "big", "ves", "mutex", "sinks"}

VARIABLES
    \* the threads
    op, at,     \* the operation of each, and the step that is next in it
    knows,      \* the thread has a Scheduler::Unit in a local variable
    owner,      \* the thread that holds a lock
    \* the process
    sdk,        \* the PrlSDK: down, up or closing
    masked,     \* does the main thread block the signals?
    exposed,    \* is there a thread that was made with the signals open?
    subscribed, \* the two callbacks that are registered with snmpd
    scalars,    \* the tuple that the scalars of the host show: none, that of this
                \* Server, or that of one that init made before and dropped
    \* Central
    scheduler,  \* s_scheduler is not NULL
    active,     \* g_active has the Server
    tables,     \* the tables of the subscriptions are registered
    \* the scheduler
    consumer,   \* its thread: none, running, stopped (m_consumer is 0) or ended
    queue,      \* the jobs Link, Reap and Eject that are queued
    hand,       \* the one of these that runs
    \* a guest
    mute        \* it has been asked for counters, and prints nothing

threads == <<op, at, knows>>
process == <<sdk, masked, exposed, subscribed, scalars>>
central == <<scheduler, active, tables>>
sched == <<consumer, queue, hand>>
vars == <<threads, owner, process, central, sched, mute>>

-------------------------------------------------------------------------------
(* The steps.                                                              *)

\* Lock::enter and Lock::leave (system.cpp).
Take(l) == [do |-> "take", of |-> l]
Drop(l) == [do |-> "drop", of |-> l]

\* A lock that is taken and left with no other lock, and no wait, in between.
Visit(l) == [do |-> "visit", of |-> l]

\* A push, by a thread that knows the scheduler.
Submit(j) == [do |-> "submit", of |-> j]

Do(x) == [do |-> x, of |-> "none"]

(* The main thread.                                                        *)

\* Mutant of Trap: the signals are not blocked.
TrapUnmasked == <<Take("callback"), Do("openSdk")>>

\* Callback::do_ up to Central::init, which is called with the lock of the callbacks held.
Trap == <<Take("callback"), Do("mask"), Do("openSdk")>>

\* Mutant of InitRest: s_scheduler is set when the lock has been left.
InitRestLate == <<Take("big"), Do("inject"), Do("attachVes"), Do("attachSinks"), Do("go"),
                  Submit("Link"), Submit("Reap"), Drop("big"), Do("publish")>>

\* Central::init after PrlApi_Init; the two jobs are those of lines 446 and 449.
InitRest == <<Take("big"), Do("inject"), Do("attachVes"), Do("attachSinks"), Do("go"),
              Submit("Link"), Submit("Reap"), Do("publish"), Drop("big")>>

\* It has been done already.
Again == <<Drop("big")>>

\* Mutant of Undo: the SDK stays open.
UndoLeavesSdk == <<Do("destroy"), Drop("big")>>

\* It fails: what was made goes, the lock is left, and the SDK is closed.
Undo == <<Do("destroy"), Drop("big"), Do("closeSdk"), Do("awaitSdk")>>

\* Mutant of After: the scheduler has been looked up before init.
AfterStale == <<Do("unmask"), Submit("Eject"), Drop("callback")>>

\* The rest of Callback::do_.
After == <<Do("unmask"), Do("look"), Submit("Eject"), Drop("callback")>>

\* Mutant of FiniRest: the thread is joined before it is told to stop.
FiniRestJoinsFirst == <<Drop("big"), Do("closeSdk"), Do("awaitSdk"), Do("join"), Do("stop")>>

\* Central::fini, in three parts.
Fini == <<Take("big"), Do("retract")>>
FiniNothing == <<Drop("big")>>
FiniRest == <<Drop("big"), Do("closeSdk"), Do("awaitSdk"), Do("stop"), Do("join")>>

\* Actor::commit.
Commit == <<Visit("sinks"), Do("look"), Submit("Inform")>>

(* The scheduler thread.                                                   *)

\* Handler::Link, when the login or the list of the VEs fails, and when it is attached.
LinkFails == <<Do("look"), Submit("Link")>>
LinkAttaches == <<Do("lookOrLeave"), Take("big"), Submit("Snatch"), Do("activate"), Drop("big")>>

\* Mutant of PullUsage: it takes g_big as snapshot does.
PullUsageUnderBig == <<Take("big"), Take("ves"), Do("read"), Drop("ves"), Drop("big"),
                       Do("look"), Submit("Snatch")>>

\* Snatch::pullState and Snatch::pullUsage.
PullState == <<Visit("ves")>>
PullUsage == <<Take("ves"), Do("read"), Do("look"), Submit("Snatch"), Drop("ves")>>

\* Inform, with Server::snapshot.
Inform == <<Take("big"), Visit("ves"), Drop("big"), Do("look"), Submit("Inform")>>

\* Handler::Reaper.
Reap == <<Visit("sinks"), Do("look"), Submit("Reap")>>

\* Mutant of Eject: one of the two callbacks is forgotten.
EjectOne == <<Do("eject1")>>

\* Callback::eject.
Eject == <<Do("eject1"), Do("eject2")>>

\* The end of each job in consume.
Done == <<Do("finish")>>

(* The threads of the SDK.                                                 *)

\* Server::handle.
Event == <<Do("handle")>>

Detach == <<Take("big"), Do("deactivate"), Drop("big"), Do("look"), Submit("Link")>>

\* Server::pull of a VE that is in the map, and of one that is asked for.
PullKnown == <<Do("look"), Take("big"), Submit("Snatch"), Drop("big")>>
PullNew == <<Do("look"), Visit("big"), Take("big"), Submit("Snatch"), Drop("big")>>

\* Mutant of Update: it takes g_ves, as snapshot does.
UpdateUnderVes == <<Take("big"), Visit("ves"), Drop("big")>>

\* Server::state, performance and erase.
Update == <<Visit("big")>>

Code == [
    Idle |-> <<>>, Ended |-> <<>>,
    Trap |-> Trap, InitRest |-> InitRest, Again |-> Again, Undo |-> Undo, After |-> After,
    Fini |-> Fini, FiniNothing |-> FiniNothing, FiniRest |-> FiniRest, Commit |-> Commit,
    LinkFails |-> LinkFails, LinkAttaches |-> LinkAttaches, PullState |-> PullState,
    PullUsage |-> PullUsage, Inform |-> Inform, Reap |-> Reap, Eject |-> Eject, Done |-> Done,
    Event |-> Event, Detach |-> Detach, PullKnown |-> PullKnown, PullNew |-> PullNew,
    Update |-> Update]

Ops == DOMAIN Code
JobOps == {"LinkFails", "LinkAttaches", "PullState", "PullUsage", "Inform", "Reap", "Eject"}

\* What follows the last step of an operation.
Follow(o) ==
    CASE o \in {"InitRest", "Again", "Undo"} -> "After"
      [] o \in {"FiniNothing", "FiniRest"} -> "Ended"
      [] o \in JobOps -> "Done"
      [] OTHER -> "Idle"

Threadless == [t \in Threads |-> FALSE]

Init ==
    /\ op = [t \in Threads |-> "Idle"]
    /\ at = [t \in Threads |-> 1]
    /\ knows = Threadless
    /\ owner = [l \in Locks |-> Nobody]
    /\ sdk = "down" /\ masked = FALSE /\ exposed = FALSE
    /\ subscribed = {1, 2}
    /\ scalars = "none"
    /\ scheduler = FALSE /\ active = FALSE /\ tables = FALSE
    /\ consumer = "none" /\ queue = {} /\ hand = "none"
    /\ mute = FALSE

-------------------------------------------------------------------------------
(* How a thread goes through its code.                                     *)

Here(t) == Code[op[t]][at[t]]

\* Thread t is before the step x.
Before(t, x) == at[t] \in DOMAIN Code[op[t]] /\ Here(t).do = x

Jump(t, o) ==
    /\ op' = [op EXCEPT ![t] = o]
    /\ at' = [at EXCEPT ![t] = 1]
    /\ knows' = [knows EXCEPT ![t] = FALSE]

Last(t) == at[t] = Len(Code[op[t]])

\* t goes on to the next step of its code.
GoOn(t) ==
    \/ Last(t) /\ Jump(t, Follow(op[t]))
    \/ ~Last(t) /\ at' = [at EXCEPT ![t] = @ + 1] /\ UNCHANGED <<op, knows>>

Free(l) == owner[l] = Nobody

\* The lock that a step takes, for itself or, as all but take do, for a moment.
LockOf(s) ==
    CASE s.do \in {"take", "visit"} -> s.of
      [] s.do \in {"look", "lookOrLeave", "handle"} -> "big"
      [] s.do \in {"submit", "go", "stop", "finish"} -> "mutex"
      [] s.do \in {"eject1", "eject2"} -> "callback"
      [] OTHER -> "none"

\* t is before the step x and gets the lock that it takes.
Does(t, x) ==
    /\ Before(t, x)
    /\ LockOf(Here(t)) \in Locks => Free(LockOf(Here(t)))

TakeLock(t) ==
    /\ Does(t, "take")
    /\ owner' = [owner EXCEPT ![Here(t).of] = t]
    /\ GoOn(t)
    /\ UNCHANGED <<process, central, sched, mute>>

DropLock(t) ==
    /\ Does(t, "drop")
    /\ owner' = [owner EXCEPT ![Here(t).of] = Nobody]
    /\ GoOn(t)
    /\ UNCHANGED <<process, central, sched, mute>>

VisitLock(t) ==
    /\ Does(t, "visit")
    /\ GoOn(t)
    /\ UNCHANGED <<owner, process, central, sched, mute>>

\* Central::scheduler.
Look(t) ==
    /\ Does(t, "look")
    /\ at' = [at EXCEPT ![t] = @ + 1]
    /\ knows' = [knows EXCEPT ![t] = scheduler]
    /\ UNCHANGED <<op, owner, process, central, sched, mute>>

\* Central::scheduler in Server::attach, which returns without one.
LookOrLeave(t) ==
    /\ Does(t, "lookOrLeave")
    /\ \/ /\ scheduler
          /\ at' = [at EXCEPT ![t] = @ + 1]
          /\ knows' = [knows EXCEPT ![t] = TRUE]
          /\ UNCHANGED op
       \/ ~scheduler /\ Jump(t, Follow(op[t]))
    /\ UNCHANGED <<owner, process, central, sched, mute>>

\* The jobs of which it matters whether they are queued.  There may be any number of
\* Snatch and Inform jobs at any time, and two Eject jobs do what one does.
Kept == {"Link", "Reap", "Eject"}

\* Unit::push, which fails once the scheduler is stopped.
Push(t) ==
    /\ Does(t, "submit")
    /\ knows[t]
    /\ queue' = IF consumer = "running" THEN queue \cup ({Here(t).of} \cap Kept) ELSE queue
    /\ GoOn(t)
    /\ UNCHANGED <<owner, process, central, consumer, hand, mute>>

\* There is no scheduler to push to.
PushNowhere(t) ==
    /\ Before(t, "submit")
    /\ ~knows[t]
    /\ GoOn(t)
    /\ UNCHANGED <<owner, process, central, sched, mute>>

-------------------------------------------------------------------------------
(* The main thread.                                                        *)

\* snmpd sends a trap and calls who has registered for it; init_RmondMIB has done so.
SendTrap ==
    /\ op[Main] = "Idle"
    /\ subscribed # {}
    /\ Jump(Main, "Trap")
    /\ UNCHANGED <<owner, process, central, sched, mute>>

\* A manager makes a subscription.
BeginCommit ==
    /\ op[Main] = "Idle"
    /\ tables
    /\ Jump(Main, "Commit")
    /\ UNCHANGED <<owner, process, central, sched, mute>>

\* deinit_RmondMIB.
Deinit ==
    /\ op[Main] = "Idle"
    /\ Jump(Main, "Fini")
    /\ UNCHANGED <<owner, process, central, sched, mute>>

Mask ==
    /\ Does(Main, "mask")
    /\ masked' = TRUE
    /\ GoOn(Main)
    /\ UNCHANGED <<owner, sdk, exposed, subscribed, scalars, central, sched, mute>>

Unmask ==
    /\ Does(Main, "unmask")
    /\ masked' = FALSE
    /\ GoOn(Main)
    /\ UNCHANGED <<owner, sdk, exposed, subscribed, scalars, central, sched, mute>>

\* PrlApi_Init makes the threads of the SDK, or fails, or has been called before.
OpenSdk ==
    /\ Does(Main, "openSdk")
    /\ \/ /\ sdk' = "up"
          /\ exposed' = (exposed \/ (sdk = "down" /\ ~masked))
          /\ Jump(Main, "InitRest")
       \/ UNCHANGED <<sdk, exposed>> /\ Jump(Main, "After")
    /\ UNCHANGED <<owner, masked, subscribed, scalars, central, sched, mute>>

\* The look at s_scheduler, and Host::Unit::inject, which does not say that a scalar
\* was not registered; net-snmp refuses one that is registered, and nobody takes one
\* away.
Inject ==
    /\ Does(Main, "inject")
    /\ \/ scheduler /\ Jump(Main, "Again") /\ UNCHANGED scalars
       \/ /\ ~scheduler
          /\ scalars' = IF scalars = "none" THEN "shown" ELSE scalars
          /\ GoOn(Main)
    /\ UNCHANGED <<owner, sdk, masked, exposed, subscribed, central, sched, mute>>

\* VE::Unit::inject.
AttachVes ==
    /\ Does(Main, "attachVes")
    /\ GoOn(Main) \/ Jump(Main, "Undo")
    /\ UNCHANGED <<owner, process, central, sched, mute>>

\* Sink::Unit::inject.
AttachSinks ==
    /\ Does(Main, "attachSinks")
    /\ \/ tables' = TRUE /\ GoOn(Main)
       \/ Jump(Main, "Undo") /\ UNCHANGED tables
    /\ UNCHANGED <<owner, process, scheduler, active, sched, mute>>

\* Unit::go, with a fresh unit.  A thread has the mask of its maker.  If pthread_create
\* fails it leaves m_consumer as it was here, and init undoes what it has done; a
\* m_consumer that it has set would end the process in ~Unit (Crash of Scheduler), and
\* there is no agent of which anything could be said.
Go ==
    /\ Does(Main, "go")
    /\ \/ /\ consumer' = "running"
          /\ exposed' = (exposed \/ ~masked)
          /\ at' = [at EXCEPT ![Main] = @ + 1]
          /\ knows' = [knows EXCEPT ![Main] = TRUE]
          /\ UNCHANGED op
       \/ Jump(Main, "Undo") /\ UNCHANGED <<consumer, exposed>>
    /\ UNCHANGED <<owner, sdk, masked, subscribed, scalars, central, queue, hand, mute>>

Publish ==
    /\ Does(Main, "publish")
    /\ scheduler' = TRUE
    /\ GoOn(Main)
    /\ UNCHANGED <<owner, process, active, tables, sched, mute>>

\* The Server and the Reaper go, and their tables with them; the scalars stay.
Destroy ==
    /\ Does(Main, "destroy")
    /\ tables' = FALSE
    /\ scalars' = "old"
    /\ GoOn(Main)
    /\ UNCHANGED <<owner, sdk, masked, exposed, subscribed, scheduler, active, sched, mute>>

\* PrlApi_Deinit: no event comes any more, and those that came are waited for.
CloseSdk ==
    /\ Does(Main, "closeSdk")
    /\ sdk' = "closing"
    /\ GoOn(Main)
    /\ UNCHANGED <<owner, masked, exposed, subscribed, scalars, central, sched, mute>>

AwaitSdk ==
    /\ Does(Main, "awaitSdk")
    /\ \A t \in Callbacks : op[t] = "Idle"
    /\ sdk' = "down"
    /\ GoOn(Main)
    /\ UNCHANGED <<owner, masked, exposed, subscribed, scalars, central, sched, mute>>

\* Central::fini under g_big.
Retract ==
    /\ Does(Main, "retract")
    /\ \/ /\ scheduler
          /\ scheduler' = FALSE /\ active' = FALSE
          /\ Jump(Main, "FiniRest")
       \/ ~scheduler /\ Jump(Main, "FiniNothing") /\ UNCHANGED <<scheduler, active>>
    /\ UNCHANGED <<owner, process, tables, sched, mute>>

\* Unit::stop, up to pthread_join.
Stop ==
    /\ Does(Main, "stop")
    /\ consumer' = "stopped"
    /\ GoOn(Main)
    /\ UNCHANGED <<owner, process, central, queue, hand, mute>>

Join ==
    /\ Does(Main, "join")
    /\ consumer = "ended"
    /\ GoOn(Main)
    /\ UNCHANGED <<owner, process, central, sched, mute>>

-------------------------------------------------------------------------------
(* The scheduler thread.                                                   *)

\* The code that a job runs.
BodyOf(j) ==
    CASE j = "Link" -> {"LinkFails", "LinkAttaches"}
      [] j = "Snatch" -> {"PullState", "PullUsage"}
      [] OTHER -> {j}

\* consume takes a job from the queue and lets go of the mutex.
Run(j) ==
    /\ op[Worker] = "Idle" /\ consumer = "running"
    /\ Free("mutex")
    /\ j \in Kept => j \in queue
    /\ hand' = IF j \in Kept THEN j ELSE "none"
    /\ queue' = queue \ {j}
    /\ \E o \in BodyOf(j) : Jump(Worker, o)
    /\ UNCHANGED <<owner, process, central, consumer, mute>>

\* It takes the mutex again and drops the job.  The Reaper's job owns the tables of the
\* subscriptions.
Finish ==
    /\ Does(Worker, "finish")
    /\ hand' = "none"
    /\ tables' = (tables /\ (hand = "Reap" => "Reap" \in queue))
    /\ GoOn(Worker)
    /\ UNCHANGED <<owner, process, scheduler, active, consumer, queue, mute>>

\* It is the last to have the State, and the queue goes with it.
Exit ==
    /\ op[Worker] = "Idle" /\ consumer = "stopped"
    /\ Free("mutex")
    /\ consumer' = "ended"
    /\ queue' = {}
    /\ tables' = (tables /\ "Reap" \notin queue)
    /\ UNCHANGED <<threads, owner, process, scheduler, active, hand, mute>>

\* The read of ConnectionToVM::getLastLine.
Read ==
    /\ Does(Worker, "read")
    /\ ~mute
    /\ GoOn(Worker)
    /\ UNCHANGED <<owner, process, central, sched, mute>>

\* Server::attach after the look at m_host.second.
Activate ==
    /\ Does(Worker, "activate")
    /\ active' = TRUE
    /\ GoOn(Worker)
    /\ UNCHANGED <<owner, process, scheduler, tables, sched, mute>>

\* snmp_unregister_callback, twice.
Unregister ==
    /\ \/ Does(Worker, "eject1") /\ subscribed' = subscribed \ {1}
       \/ Does(Worker, "eject2") /\ subscribed' = subscribed \ {2}
    /\ GoOn(Worker)
    /\ UNCHANGED <<owner, sdk, masked, exposed, scalars, central, sched, mute>>

-------------------------------------------------------------------------------
(* The threads of the SDK.                                                 *)

Deliver(t) ==
    /\ op[t] = "Idle" /\ sdk = "up"
    /\ Jump(t, "Event")
    /\ UNCHANGED <<owner, process, central, sched, mute>>

\* Server::handle looks the Server up in g_active.
Handle(t) ==
    /\ Does(t, "handle")
    /\ \/ active /\ \E o \in {"Detach", "PullKnown", "PullNew", "Update"} : Jump(t, o)
       \/ ~active /\ Jump(t, "Idle")
    /\ UNCHANGED <<owner, process, central, sched, mute>>

\* Server::detach under g_big.
Deactivate(t) ==
    /\ Does(t, "deactivate")
    /\ active' = FALSE
    /\ GoOn(t)
    /\ UNCHANGED <<owner, process, scheduler, tables, sched, mute>>

-------------------------------------------------------------------------------
(* The guests, and all together.                                           *)

\* The guest that is asked falls silent, or prints something after all.
FallSilent ==
    /\ Before(Worker, "read") /\ ~mute
    /\ mute' = TRUE
    /\ UNCHANGED <<threads, owner, process, central, sched>>

Speak ==
    /\ mute
    /\ mute' = FALSE
    /\ UNCHANGED <<threads, owner, process, central, sched>>

\* Nothing is left to do.
Terminated ==
    /\ op[Main] = "Ended" /\ consumer \in {"none", "ended"}
    /\ \A t \in Callbacks : op[t] = "Idle"
    /\ UNCHANGED vars

\* A step that any thread may have in its code.
Step(t) ==
    \/ TakeLock(t) \/ DropLock(t) \/ VisitLock(t)
    \/ Look(t) \/ LookOrLeave(t) \/ Push(t) \/ PushNowhere(t)

MainStep ==
    \/ Step(Main)
    \/ Mask \/ Unmask \/ OpenSdk \/ Inject \/ AttachVes \/ AttachSinks \/ Go \/ Publish
    \/ Destroy \/ CloseSdk \/ AwaitSdk \/ Retract \/ Stop \/ Join

RunAny == \E j \in Kept \cup {"Snatch", "Inform"} : Run(j)

WorkerStep ==
    \/ Step(Worker)
    \/ RunAny \/ Finish \/ Exit \/ Read \/ Activate \/ Unregister

CallbackStep(t) == Step(t) \/ Handle(t) \/ Deactivate(t)

Next ==
    \/ SendTrap \/ BeginCommit \/ Deinit \/ MainStep
    \/ WorkerStep
    \/ \E t \in Callbacks : Deliver(t) \/ CallbackStep(t)
    \/ FallSilent \/ Speak \/ Terminated

\* A thread that has begun goes on, and gets a lock that is free again and again; a
\* queued job is started (AcceptedJobSettles of Scheduler: only if no job blocks for ever,
\* so a queued job need not be while the read of a guest lasts).  Nothing else must happen:
\* no trap, no request, no event, and no line of a guest.
Fairness ==
    /\ SF_vars(MainStep)
    /\ SF_vars(WorkerStep)
    /\ SF_vars(Run("Eject"))
    /\ \A t \in Callbacks : SF_vars(CallbackStep(t))

Spec == Init /\ [][Next]_vars /\ Fairness

-------------------------------------------------------------------------------
(* Properties.                                                             *)

ThreadsTyped ==
    /\ op \in [Threads -> Ops]
    /\ at \in [Threads -> 1 .. 9]
    /\ knows \in [Threads -> BOOLEAN]
    /\ owner \in [Locks -> Threads \cup {Nobody}]

StateTyped ==
    /\ sdk \in {"down", "up", "closing"}
    /\ masked \in BOOLEAN /\ exposed \in BOOLEAN
    /\ subscribed \subseteq {1, 2}
    /\ scalars \in {"none", "shown", "old"}
    /\ scheduler \in BOOLEAN /\ active \in BOOLEAN /\ tables \in BOOLEAN
    /\ consumer \in {"none", "running", "stopped", "ended"}
    /\ queue \subseteq Kept
    /\ hand \in Kept \cup {"none"}
    /\ mute \in BOOLEAN

TypeOK == ThreadsTyped /\ StateTyped

\* Thread t cannot go on before thread u does something.
WaitsForLock(t, u) ==
    /\ at[t] \in DOMAIN Code[op[t]]
    /\ LockOf(Here(t)) \in Locks
    /\ owner[LockOf(Here(t))] = u

WaitsInConsume(t, u) == t = Worker /\ op[t] = "Idle" /\ owner["mutex"] = u
WaitsInJoin(t, u) == t = Main /\ Before(t, "join") /\ u = Worker
WaitsForEvents(t, u) == t = Main /\ Before(t, "awaitSdk") /\ u \in Callbacks /\ op[u] # "Idle"

WaitsFor(t, u) ==
    WaitsForLock(t, u) \/ WaitsInConsume(t, u) \/ WaitsInJoin(t, u) \/ WaitsForEvents(t, u)

\* No threads wait for each other in a circle, over locks (one that a thread takes
\* twice included), over the join of Unit::stop, or over PrlApi_Deinit: in each set of
\* threads there is one that waits for none of them.
NoCircularWait ==
    \A S \in (SUBSET Threads) \ {{}} : \E t \in S : \A u \in S : ~WaitsFor(t, u)

\* When Central::init or fini has returned, all of it is there or nothing: no SDK, no
\* thread and no table is left of an init that failed half way, or after fini.
UpOrNothing ==
    op[Main] \in {"Idle", "Ended"} =>
        \/ scheduler /\ sdk = "up" /\ consumer = "running" /\ tables
        \/ ~scheduler /\ sdk = "down" /\ consumer \in {"none", "ended"} /\ ~tables

\* While the agent is up, the jobs that keep it so go on: the Reaper's, which owns the
\* tables of the subscriptions, and a Link unless the Server is attached or a detach
\* is about to push one.  They are pushed before s_scheduler is set, and a job that found
\* it NULL would be the last of its chain.
ChainsGoOn ==
    scheduler =>
        /\ "Reap" \in queue \/ hand = "Reap"
        /\ \/ active \/ "Link" \in queue \/ hand = "Link"
           \/ \E t \in Callbacks : op[t] = "Detach"

\* The callbacks stay registered until an init has succeeded, and then the job that
\* unregisters them is on its way.
StillSubscribed ==
    op[Main] = "Idle" =>
        \/ ~scheduler /\ subscribed = {1, 2}
        \/ scheduler /\ (subscribed = {} \/ "Eject" \in queue \/ hand = "Eject")

\* The main thread is the one for the signals (the comment in Callback::do_): no other
\* thread is made with them open, and it has them open after the callback.
SignalsStayInMain ==
    /\ ~exposed
    /\ op[Main] \in {"Idle", "Commit", "Fini", "Ended"} => ~masked

MainBusy == op[Main] \notin {"Idle", "Ended"} /\ ~Before(Main, "join")

\* A guest that prints nothing stops the scheduler thread, in the read under g_ves, and
\* no other: events and requests are handled, and startup and the end of the agent go as
\* far as the join.
OthersGoOn ==
    /\ MainBusy ~> (~MainBusy)
    /\ \A t \in Callbacks : (op[t] # "Idle") ~> (op[t] = "Idle")

\* fini comes to its end unless a guest is silent for ever.
DeinitReturns == <>[]~mute => ((op[Main] = "Fini") ~> (op[Main] = "Ended"))

\* Once the agent is up it leaves snmpd's callbacks, or is taken down.
EjectsOnceUp == <>[]~mute => (scheduler ~> (~scheduler \/ subscribed = {}))
=============================================================================
