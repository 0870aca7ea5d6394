--------------------------------- MODULE Server ---------------------------------
(***************************************************************************)
(* The Server of src/mib.cpp: how the table of VEs follows the dispatcher, *)
(* and how the connection to it is made, lost and made again.              *)
(*                                                                         *)
(* The scheduler thread runs the jobs: Link, which logs in and attaches    *)
(* the Server, and for each unit pullState and pullUsage.  It runs any     *)
(* queued job next (module Scheduler has the order, and time).  The        *)
(* callback threads of PrlSDK run Server::handle.  The main thread runs    *)
(* Central::fini.                                                          *)
(*                                                                         *)
(* A unit is what a boost::shared_ptr to a Host::Unit or a VE::Unit points *)
(* to.  It is destroyed by the step that drops the last such pointer.  The *)
(* code under g_big is one step unless it lets go of the lock; g_ves is    *)
(* taken by the scheduler thread only and is not a variable.               *)
(***************************************************************************)
EXTENDS Integers, Sequences, FiniteSets

CONSTANTS
    VEs,        \* the identities of VEs
    States,     \* the states that a VE may be in
    Units,      \* the units; a destroyed one is used again
    Callbacks,  \* the threads of PrlSDK that deliver events
    Echo,       \* does another event of the VE follow VM_STATE_CHANGED?
    Changes,    \* bound of the number of changes on the host
    NoUnit, NoVE, Unknown

ASSUME ServerAssumption ==
    /\ VEs # {} /\ States # {} /\ Callbacks # {} /\ IsFiniteSet(VEs) /\ IsFiniteSet(Units)
    /\ NoVE \notin VEs /\ NoUnit \notin Units /\ Unknown \notin States
    /\ Echo \in BOOLEAN /\ Changes \in Nat

VARIABLES
    \* the dispatcher
    exists,     \* the VEs that are registered on the host
    actual,     \* the state of each VE
    session,    \* the connection: "none", "live" or "lost"
    registered, \* is Server::handle registered for its events?
    events,     \* the events to be delivered
    changesLeft,
    \* the agent
    central,    \* s_scheduler is set ("up"), reset ("released"), or stopped
    active,     \* is the Server in g_active?
    host,       \* m_host.second
    count,      \* LOCAL_VES
    ves,        \* m_ves.second
    row,        \* the unit of each row of the VE table, whose index is the VE
    unit,       \* the VE of each unit, and the STATE column of its tuple
    links,      \* the Link jobs queued
    stateJobs,  \* the pullState jobs queued for each unit
    usageJobs,  \* the pullUsage jobs queued for each unit
    job,        \* the job that the scheduler thread runs
    callback,   \* the event that each callback thread handles
    missed,     \* history: VEs that changed where no event tells of it
    unanswered  \* history: VEs whose last pullState has got no answer

dispatcher == <<exists, actual, session, registered, events, changesLeft>>
tables == <<count, ves, row, unit>>
queue == <<links, stateJobs, usageJobs>>
vars == <<dispatcher, central, active, host, tables, queue, job, callback, missed, unanswered>>

IdleJob == [pc |-> "idle", unit |-> NoUnit, state |-> Unknown,
            listed |-> [v \in VEs |-> NoUnit]]
IdleCallback == [pc |-> "idle", ve |-> NoVE, state |-> Unknown,
                 unit |-> NoUnit, host |-> NoUnit, pushes |-> FALSE]

NewUnit(v) == [ve |-> v, shown |-> Unknown]

Init ==
    /\ exists \in SUBSET VEs
    /\ actual = [v \in VEs |-> CHOOSE s \in States : TRUE]
    /\ session = "none" /\ registered = FALSE
    /\ events = <<>>
    /\ changesLeft = Changes
    /\ central = "up"
    /\ active = FALSE
    /\ host = NoUnit
    /\ count = 0
    /\ ves = [v \in VEs |-> NoUnit]
    /\ row = [v \in VEs |-> NoUnit]
    /\ unit = [u \in Units |-> NewUnit(NoVE)]
    /\ links = 1
    /\ stateJobs = [u \in Units |-> 0]
    /\ usageJobs = [u \in Units |-> 0]
    /\ job = IdleJob
    /\ callback = [c \in Callbacks |-> IdleCallback]
    /\ missed = {} /\ unanswered = {}

-------------------------------------------------------------------------------
(* Units and the jobs of the scheduler.                                    *)

\* The units that a shared_ptr points to.
Owned ==
    {host, job.unit} \cup {ves[v] : v \in VEs} \cup {job.listed[v] : v \in VEs}
        \cup {callback[c].unit : c \in Callbacks} \cup {callback[c].host : c \in Callbacks}

\* The units that may be made: nothing points to them, weakly or not.
Free == {u \in Units \ Owned : stateJobs[u] = 0 /\ usageJobs[u] = 0}

Listed == {v \in VEs : ves[v] # NoUnit}

\* Mutant of Destroy: the destructor leaves the row.
DestroyKeepsRows(now) ==
    /\ unit' = [u \in Units |-> IF u \in Owned \ Owned' THEN NewUnit(NoVE) ELSE now[u]]
    /\ UNCHANGED row

\* The units that the step drops are destroyed, and the others are as in now.
\* VE::Unit::~Unit erases the row that has the index of the unit, whichever tuple it
\* holds.
Destroy(now) ==
    LET gone == Owned \ Owned'
    IN  /\ row' = [v \in VEs |-> IF \E u \in gone : u # NoUnit /\ now[u].ve = v
                                   THEN NoUnit ELSE row[v]]
        /\ unit' = [u \in Units |-> IF u \in gone THEN NewUnit(NoVE) ELSE now[u]]

\* VE::Unit::Unit inserts its tuple.  The container keeps what it had for the
\* index, and reports no error.
Insert(made) ==
    row' = [v \in VEs |-> IF row[v] = NoUnit THEN made[v] ELSE row[v]]

\* Central::scheduler() gives a scheduler, and push() puts the job on its queue.
CanSchedule == central = "up"
CanPush == central # "closed"

\* The first half of any job of a unit: the weak_ptr is locked.
Snatched(u) == u \in Owned

-------------------------------------------------------------------------------
(* The dispatcher.                                                         *)

Event(pc, v, s) == [pc |-> pc, ve |-> v, state |-> s]

\* An event of a registered connection is queued.  That a VE comes or goes between
\* the list and the registration is not told.
Tell(es, come) ==
    /\ changesLeft > 0
    /\ changesLeft' = changesLeft - 1
    /\ events' = IF registered /\ session = "live" THEN events \o es ELSE events
    /\ missed' = IF registered THEN missed ELSE missed \cup come
    /\ UNCHANGED <<session, registered, central, active, host, tables, queue, job,
                   callback, unanswered>>

AddVe(v) ==
    /\ v \notin exists
    /\ exists' = exists \cup {v}
    /\ Tell(<<Event("pull", v, Unknown)>>, {v})
    /\ UNCHANGED actual

RemoveVe(v) ==
    /\ v \in exists
    /\ exists' = exists \ {v}
    /\ Tell(<<Event("erase", v, Unknown)>>, {v})
    /\ UNCHANGED actual

ChangeState(v, s) ==
    /\ v \in exists
    /\ actual[v] # s
    /\ actual' = [actual EXCEPT ![v] = s]
    /\ Tell(<<Event("state", v, s)>>
              \o IF Echo THEN <<Event("pull", v, Unknown)>> ELSE <<>>, {})
    /\ UNCHANGED exists

\* The connection is lost; a dispatcher that shuts down may tell of that first.
CloseConnection ==
    /\ session = "live"
    /\ changesLeft > 0
    /\ changesLeft' = changesLeft - 1
    /\ session' = "lost"
    /\ \E n \in {1, 2} :
         events' = IF registered
                     THEN events \o [i \in 1 .. n |-> Event("detach", NoVE, Unknown)]
                     ELSE events
    /\ UNCHANGED <<exists, actual, registered, central, active, host, tables, queue,
                   job, callback, missed, unanswered>>

Dispatcher ==
    \/ \E v \in VEs : AddVe(v) \/ RemoveVe(v) \/ \E s \in States : ChangeState(v, s)
    \/ CloseConnection

-------------------------------------------------------------------------------
(* The scheduler thread.                                                   *)

\* Link::operator(): the login or the list fails, and the job is scheduled again.
LinkFails ==
    /\ job.pc = "idle"
    /\ CanPush
    /\ links > 0
    /\ links' = IF CanSchedule THEN links ELSE links - 1
    /\ UNCHANGED <<dispatcher, central, active, host, tables, stateJobs, usageJobs,
                   job, callback, missed, unanswered>>

\* ... or both succeed: Host::Unit::list has made a unit for each VE.
LinkLists ==
    /\ job.pc = "idle"
    /\ CanPush
    /\ links > 0
    /\ Cardinality(Free) > Cardinality(exists)
    /\ links' = links - 1
    /\ session' = "live"
    /\ LET h == CHOOSE u \in Free : TRUE
           made == CHOOSE f \in [VEs -> (Free \ {h}) \cup {NoUnit}] :
                     /\ \A v \in VEs : f[v] # NoUnit <=> v \in exists
                     /\ \A v, w \in exists : f[v] = f[w] => v = w
       IN  /\ job' = [IdleJob EXCEPT !.pc = "check", !.unit = h, !.listed = made]
           /\ unit' = [u \in Units |->
                IF u = h THEN NewUnit(NoVE)
                ELSE IF \E v \in VEs : made[v] = u
                  THEN NewUnit(CHOOSE v \in VEs : made[v] = u)
                ELSE unit[u]]
           /\ Insert(made)
    /\ missed' = IF registered THEN missed ELSE {}
    /\ UNCHANGED <<exists, actual, registered, events, changesLeft, central, active,
                   host, count, ves, stateJobs, usageJobs, callback, unanswered>>

\* Server::attach asks for the scheduler first.
AttachChecks ==
    /\ job.pc = "check"
    /\ job' = IF CanSchedule THEN [job EXCEPT !.pc = "attach"] ELSE IdleJob
    /\ UNCHANGED <<dispatcher, central, active, host, count, ves, queue, callback,
                   missed, unanswered>>
    /\ Destroy(unit)

\* ... then, under g_big, there is a host already, and what was listed is dropped,
Unattached ==
    /\ host # NoUnit
    /\ UNCHANGED <<registered, active, host, count, ves, stateJobs, usageJobs>>

\* or the Server takes it all, starts the jobs of each unit, and registers.  What
\* the registration returns is not looked at.
Attached ==
    LET of(u) == u # NoUnit /\ (u = job.unit \/ \E v \in VEs : job.listed[v] = u)
    IN  /\ host = NoUnit
        /\ host' = job.unit
        /\ ves' = [v \in VEs |-> IF job.listed[v] # NoUnit THEN job.listed[v] ELSE ves[v]]
        /\ stateJobs' = [u \in Units |-> stateJobs[u] + IF CanPush /\ of(u) THEN 1 ELSE 0]
        /\ usageJobs' = [u \in Units |-> usageJobs[u] + IF CanPush /\ of(u) THEN 1 ELSE 0]
        /\ count' = Cardinality({v \in VEs : ves'[v] # NoUnit})
        /\ active' = TRUE
        /\ registered' = (session = "live")

Attach ==
    /\ job.pc = "attach"
    /\ Unattached \/ Attached
    /\ job' = IdleJob
    /\ UNCHANGED <<exists, actual, session, events, changesLeft, central, links,
                   callback, missed, unanswered>>
    /\ Destroy(unit)

\* Snatch::Unit of a unit that is gone.
SnatchEnds(u) ==
    /\ job.pc = "idle"
    /\ CanPush
    /\ ~Snatched(u)
    /\ \/ stateJobs[u] > 0 /\ stateJobs' = [stateJobs EXCEPT ![u] = @ - 1]
                           /\ UNCHANGED usageJobs
       \/ usageJobs[u] > 0 /\ usageJobs' = [usageJobs EXCEPT ![u] = @ - 1]
                           /\ UNCHANGED stateJobs
    /\ UNCHANGED <<dispatcher, central, active, host, tables, links, job, callback,
                   missed, unanswered>>

\* What the dispatcher answers when it is asked for the state of a VE.
Answer(v) == IF session = "live" /\ v \in exists THEN actual[v] ELSE Unknown

\* pullState: the configuration is refreshed and State::refresh asks.  Either may fail or
\* time out, and nothing repeats the job;
StateAsks(u) ==
    /\ job.pc = "idle"
    /\ CanPush
    /\ stateJobs[u] > 0
    /\ Snatched(u)
    /\ stateJobs' = [stateJobs EXCEPT ![u] = @ - 1]
    /\ \E s \in {Answer(unit[u].ve), Unknown} :
         /\ job' = [IdleJob EXCEPT !.pc = "state", !.unit = u, !.state = s]
         /\ unanswered' = IF s = Unknown THEN unanswered \cup ({unit[u].ve} \cap VEs)
                                         ELSE unanswered \ {unit[u].ve}
    /\ UNCHANGED <<dispatcher, central, active, host, tables, links, usageJobs, callback,
                   missed>>

\* and the answer is put.
StatePuts ==
    /\ job.pc = "state"
    /\ job' = IdleJob
    /\ UNCHANGED <<dispatcher, central, active, host, count, ves, queue, callback,
                   missed, unanswered>>
    /\ Destroy(IF job.state = Unknown THEN unit
               ELSE [unit EXCEPT ![job.unit].shown = job.state])

\* pullUsage: the statistics are collected,
UsageAsks(u) ==
    /\ job.pc = "idle"
    /\ CanPush
    /\ usageJobs[u] > 0
    /\ Snatched(u)
    /\ usageJobs' = [usageJobs EXCEPT ![u] = @ - 1]
    /\ job' = [IdleJob EXCEPT !.pc = "usage", !.unit = u]
    /\ UNCHANGED <<dispatcher, central, active, host, tables, links, stateJobs, callback,
                   missed, unanswered>>

\* and the job is scheduled again.
UsageReschedules ==
    /\ job.pc = "usage"
    /\ usageJobs' = [usageJobs EXCEPT ![job.unit] = @ + IF CanSchedule THEN 1 ELSE 0]
    /\ job' = IdleJob
    /\ UNCHANGED <<dispatcher, central, active, host, count, ves, links, stateJobs,
                   callback, missed, unanswered>>
    /\ Destroy(unit)

-------------------------------------------------------------------------------
(* The callback threads.                                                   *)

Returns(c) == callback' = [callback EXCEPT ![c] = IdleCallback]

\* Server::handle looks the Server up in g_active; pull() asks for the scheduler.
Handle(c) ==
    /\ callback[c].pc = "idle"
    /\ events # <<>>
    /\ events' = Tail(events)
    /\ callback' = IF active
         THEN [callback EXCEPT ![c] = [IdleCallback EXCEPT
                 !.pc = Head(events).pc, !.ve = Head(events).ve,
                 !.state = Head(events).state, !.pushes = CanSchedule]]
         ELSE callback
    /\ UNCHANGED <<exists, actual, session, registered, changesLeft, central, active, host,
                   tables, queue, job, missed, unanswered>>

\* Server::state
StateEvent(c) ==
    /\ callback[c].pc = "state"
    /\ LET u == ves[callback[c].ve]
       IN  unit' = IF u = NoUnit THEN unit
                   ELSE [unit EXCEPT ![u].shown = callback[c].state]
    /\ Returns(c)
    /\ UNCHANGED <<dispatcher, central, active, host, count, ves, row, queue, job,
                   missed, unanswered>>


\* Server::pull of a VE that is known: its state is to be pulled.
PullKnown(c) ==
    /\ callback[c].pc = "pull"
    /\ LET u == ves[callback[c].ve]
       IN  /\ u # NoUnit
           /\ stateJobs' = [stateJobs EXCEPT ![u] =
                              @ + IF callback[c].pushes /\ CanPush THEN 1 ELSE 0]
    /\ Returns(c)
    /\ UNCHANGED <<dispatcher, central, active, host, tables, links, usageJobs, job,
                   missed, unanswered>>

\* ... of another: the host is kept, and g_big is released.
PullUnknown(c) ==
    /\ callback[c].pc = "pull"
    /\ ves[callback[c].ve] = NoUnit
    /\ IF host = NoUnit THEN Returns(c)
       ELSE callback' = [callback EXCEPT ![c].pc = "lookup", ![c].host = host]
    /\ UNCHANGED <<dispatcher, central, active, host, tables, queue, job, missed, unanswered>>

\* Host::Unit::find makes a unit, and its state is pulled before anyone sees it;
PullFinds(c) ==
    /\ callback[c].pc = "lookup"
    /\ LET v == callback[c].ve
           u == CHOOSE n \in Units : n \in Free
       IN  /\ v \in exists
           /\ session = "live"
           /\ Free # {}
           /\ unit' = [unit EXCEPT ![u] = [ve |-> v, shown |-> Answer(v)]]
           /\ Insert([w \in VEs |-> IF w = v THEN u ELSE NoUnit])
           /\ callback' = [callback EXCEPT ![c].pc = "publish", ![c].unit = u]
    /\ UNCHANGED <<dispatcher, central, active, host, count, ves, queue, job, missed, unanswered>>

\* or there is no answer.
PullGivesUp(c) ==
    /\ callback[c].pc = "lookup"
    /\ missed' = missed \cup ({callback[c].ve} \cap exists)
    /\ Returns(c)
    /\ UNCHANGED <<dispatcher, central, active, host, count, ves, queue, job, unanswered>>
    /\ Destroy(unit)

\* Mutant of PullPublishes: the usage is pulled when the VE is pulled again.
PublishQuietly(c) ==
    /\ callback[c].pc = "publish"
    /\ host # NoUnit
    /\ ves' = [ves EXCEPT ![callback[c].ve] = callback[c].unit]
    /\ count' = Cardinality({v \in VEs : ves'[v] # NoUnit})
    /\ Returns(c)
    /\ UNCHANGED <<dispatcher, central, active, host, queue, job, missed, unanswered>>
    /\ Destroy(unit)

\* With g_big again, the unit goes into the map, whatever has become of the Server
\* since.
PullPublishes(c) ==
    /\ callback[c].pc = "publish"
    /\ host # NoUnit
    /\ LET u == callback[c].unit
       IN  /\ ves' = [ves EXCEPT ![callback[c].ve] = u]
           /\ usageJobs' = [usageJobs EXCEPT ![u] =
                              @ + IF callback[c].pushes /\ CanPush THEN 1 ELSE 0]
    /\ count' = Cardinality({v \in VEs : ves'[v] # NoUnit})
    /\ Returns(c)
    /\ UNCHANGED <<dispatcher, central, active, host, links, stateJobs, job, missed, unanswered>>
    /\ Destroy(unit)

\* Mutant of EraseEvent: the count is not put.
EraseUncounted(c) ==
    /\ callback[c].pc = "erase"
    /\ host # NoUnit
    /\ ves' = [ves EXCEPT ![callback[c].ve] = NoUnit]
    /\ Returns(c)
    /\ UNCHANGED <<dispatcher, central, active, host, count, queue, job, missed, unanswered>>
    /\ Destroy(unit)

\* Mutant of EraseEvent: nothing is erased.
EraseNothing(c) ==
    /\ callback[c].pc = "erase"
    /\ host # NoUnit
    /\ Returns(c)
    /\ UNCHANGED <<dispatcher, central, active, host, tables, queue, job, missed, unanswered>>

\* Server::erase.  It ends in m_host.second->ves(), as pull() does: where there is no host
\* (NoNullHost says that there is) the model goes no further.
EraseEvent(c) ==
    /\ callback[c].pc = "erase"
    /\ host # NoUnit
    /\ ves' = [ves EXCEPT ![callback[c].ve] = NoUnit]
    /\ count' = Cardinality({v \in VEs : ves'[v] # NoUnit})
    /\ Returns(c)
    /\ UNCHANGED <<dispatcher, central, active, host, queue, job, missed, unanswered>>
    /\ Destroy(unit)

\* Mutant of Detach: the Server stays in g_active.
DetachActive(c) ==
    /\ callback[c].pc = "detach"
    /\ registered' = (registered /\ ~active)
    /\ events' = IF active THEN <<>> ELSE events
    /\ host' = NoUnit
    /\ ves' = [v \in VEs |-> NoUnit]
    /\ callback' = [callback EXCEPT ![c].pc = "relink"]
    /\ UNCHANGED <<exists, actual, session, changesLeft, central, active, count, queue, job,
                   missed, unanswered>>
    /\ Destroy(unit)

\* Mutant of Detach: the Link is left to attach().
DetachForGood(c) ==
    /\ callback[c].pc = "detach"
    /\ active' = FALSE
    /\ registered' = (registered /\ ~active)
    /\ events' = IF active THEN <<>> ELSE events
    /\ host' = NoUnit
    /\ ves' = [v \in VEs |-> NoUnit]
    /\ Returns(c)
    /\ UNCHANGED <<exists, actual, session, changesLeft, central, count, queue, job,
                   missed, unanswered>>
    /\ Destroy(unit)

\* Server::detach
Detach(c) ==
    /\ callback[c].pc = "detach"
    /\ active' = FALSE
    /\ registered' = (registered /\ ~active)
    /\ events' = IF active THEN <<>> ELSE events
    /\ host' = NoUnit
    /\ ves' = [v \in VEs |-> NoUnit]
    /\ callback' = [callback EXCEPT ![c].pc = "relink"]
    /\ UNCHANGED <<exists, actual, session, changesLeft, central, count, queue, job,
                   missed, unanswered>>
    /\ Destroy(unit)

\* ... schedules a Link when it has left g_big.
Relink(c) ==
    /\ callback[c].pc = "relink"
    /\ links' = links + IF CanSchedule THEN 1 ELSE 0
    /\ Returns(c)
    /\ UNCHANGED <<dispatcher, central, active, host, tables, stateJobs, usageJobs, job,
                   missed, unanswered>>

Called(c) ==
    \/ StateEvent(c) \/ PullKnown(c) \/ PullUnknown(c) \/ PullFinds(c) \/ PullGivesUp(c)
    \/ PullPublishes(c) \/ EraseEvent(c) \/ Detach(c) \/ Relink(c)

-------------------------------------------------------------------------------
(* The main thread: Central::fini.                                         *)

FiniReleases ==
    /\ central = "up"
    /\ central' = "released"
    /\ active' = FALSE
    /\ UNCHANGED <<dispatcher, host, tables, queue, job, callback, missed, unanswered>>

\* Scheduler::Unit::stop drops the queue; the job that runs goes on.
FiniStops ==
    /\ central = "released"
    /\ central' = "closed"
    /\ links' = 0
    /\ stateJobs' = [u \in Units |-> 0]
    /\ usageJobs' = [u \in Units |-> 0]
    /\ UNCHANGED <<dispatcher, active, host, tables, job, callback, missed, unanswered>>

Finished == central = "closed" /\ job.pc = "idle" /\ UNCHANGED vars

-------------------------------------------------------------------------------

Begins(u) == SnatchEnds(u) \/ StateAsks(u) \/ UsageAsks(u)
Continues == AttachChecks \/ Attach \/ StatePuts \/ UsageReschedules

Next ==
    \/ Dispatcher
    \/ LinkFails \/ LinkLists
    \/ \E u \in Units : Begins(u)
    \/ Continues
    \/ \E c \in Callbacks : Handle(c) \/ Called(c)
    \/ FiniReleases \/ FiniStops
    \/ Finished

Spec == Init /\ [][Next]_vars

(***************************************************************************)
(* The threads run when they can.  A job gets its turn, though others run  *)
(* in between (AcceptedJobSettles of Scheduler, with its premise: no job   *)
(* blocks for ever, so no guest is silent for ever): here it is enough     *)
(* that the jobs that do not come back are not put off for ever by the     *)
(* pullUsage jobs, which do.  A login that is tried again and again        *)
(* succeeds at last.  A query may fail whenever it is asked.  The host is  *)
(* free to change or not.                                                  *)
(***************************************************************************)
Fairness ==
    /\ WF_vars(Continues)
    /\ WF_vars(FiniStops)
    /\ SF_vars(LinkLists)
    /\ SF_vars(\E u \in Units : SnatchEnds(u) \/ StateAsks(u))
    /\ \A c \in Callbacks : WF_vars((Handle(c) \/ Called(c)))

FairSpec == Spec /\ Fairness

-------------------------------------------------------------------------------
(* Properties.                                                             *)

UnitOrNone == Units \cup {NoUnit}
Answers == States \cup {Unknown}

UnitTypes == [ve : VEs \cup {NoVE}, shown : Answers]
JobTypes ==
    [pc : {"idle", "check", "attach", "state", "usage"}, unit : UnitOrNone,
     state : Answers, listed : [VEs -> UnitOrNone]]
CallbackTypes ==
    [pc : {"idle", "state", "pull", "lookup", "publish", "erase", "detach", "relink"},
     ve : VEs \cup {NoVE}, state : Answers, unit : UnitOrNone, host : UnitOrNone,
     pushes : BOOLEAN]

\* An event that is not of the connection names a VE.
EventTypes ==
    [pc : {"state", "pull", "erase"}, ve : VEs, state : Answers]
        \cup [pc : {"detach"}, ve : {NoVE}, state : Answers]

\* Types of the variables.
TypeOK ==
    /\ exists \subseteq VEs /\ actual \in [VEs -> States]
    /\ session \in {"none", "live", "lost"} /\ registered \in BOOLEAN
    /\ events \in Seq(EventTypes) /\ changesLeft \in 0 .. Changes
    /\ central \in {"up", "released", "closed"} /\ active \in BOOLEAN
    /\ host \in UnitOrNone /\ count \in 0 .. Cardinality(VEs)
    /\ ves \in [VEs -> UnitOrNone] /\ row \in [VEs -> UnitOrNone]
    /\ unit \in [Units -> UnitTypes]
    /\ links \in Nat /\ stateJobs \in [Units -> Nat] /\ usageJobs \in [Units -> Nat]
    /\ job \in JobTypes /\ callback \in [Callbacks -> CallbackTypes]
    /\ missed \subseteq VEs /\ unanswered \subseteq VEs

\* With one callback thread, an event is only handled while there is a host: pull()
\* and erase() put the number of VEs without looking, and a detach or a reconnection
\* in between must not leave them a null pointer.
NoNullHost ==
    /\ active => host # NoUnit
    /\ \A c \in Callbacks : callback[c].pc \in {"publish", "erase"} => host # NoUnit

\* LOCAL_VES is the size of the map of VEs whenever g_big is free and there is a
\* host, also after a reconnection, whose detach does not put it.
CountIsCurrent == host # NoUnit => count = Cardinality(Listed)

\* Until fini() the agent is connected, or there is exactly one Link that will try:
\* a lost connection is never forgotten, nor linked twice.
Linked == IF host # NoUnit THEN 1 ELSE 0
Linking ==
    links + (IF job.pc \in {"check", "attach"} THEN 1 ELSE 0)
          + Cardinality({c \in Callbacks : callback[c].pc = "relink"})
OneLink == central = "up" => Linked + Linking = 1

\* Each unit of the host and of its VEs is sampled by one chain of pullUsage jobs,
\* however often it was pulled, lost and found.
Chains(u) == usageJobs[u] + IF job.pc = "usage" /\ job.unit = u THEN 1 ELSE 0
OneChainPerUnit ==
    central = "up" => \A u \in Units :
        /\ Chains(u) <= 1
        /\ u = host \/ u \in {ves[v] : v \in VEs} => Chains(u) = 1

\* A unit is in the map under one identity, its own, and the row that the VE table
\* has for a VE belongs to a unit that lives.
RowsAreOfLivingUnits ==
    \A v \in VEs :
        /\ ves[v] # NoUnit => unit[ves[v]].ve = v
        /\ row[v] # NoUnit => row[v] \in Owned /\ unit[row[v]].ve = v

\* A session that is lost while events are registered for is replaced, unless fini()
\* comes first.
SessionsRecover ==
    (session = "lost" /\ registered) ~> (session = "live" \/ central # "up")

\* No session tells of anything, or nobody listens.
Unconnected == session # "live" \/ ~registered \/ central # "up"

VesMatch ==
    \A v \in VEs \ missed :
        /\ v \in exists <=> ves[v] # NoUnit
        /\ v \notin exists => row[v] = NoUnit

StatesMatch ==
    \A v \in exists \ (missed \cup unanswered) :
        ves[v] # NoUnit /\ unit[ves[v]].shown = actual[v]

\* When the host stops changing, the map holds the VEs of the host, and no row stays
\* for a VE that is gone; but for those that came or went where no event tells of it.
VesSettle == <>[](VesMatch \/ Unconnected)


-------------------------------------------------------------------------------
(* What the MIB says of the VE table, and the code does not keep.          *)

\* LOCAL_VES is the number of the VEs at the host, when those stop changing.
CountSettles == <>[](count = Cardinality(exists) \/ Unconnected)

\* The VE table has a row for each VE of the map.
EveryVeHasItsRow == \A v \in Listed : row[v] # NoUnit

===============================================================================
