------------------------------ MODULE ServerProofs ------------------------------
(***************************************************************************)
(* Proofs about Server: for any VEs and states, any number of units and of *)
(* changes on the host, with an echo of events or without.  IInv is the    *)
(* inductive invariant for any number of callback threads; OneThreadInv    *)
(* adds what one callback thread gives, and two do not.                    *)
(***************************************************************************)
EXTENDS Server, FiniteSetTheorems, TLAPS

\* What the scheduler thread holds: nothing between two jobs, and what was listed from
\* the list to attach().
JobHolds ==
    /\ job.pc = "idle" => job = IdleJob
    /\ job.pc # "idle" => job.unit # NoUnit
    /\ job.pc \notin {"check", "attach"} => \A v \in VEs : job.listed[v] = NoUnit

\* What a callback thread holds: the host while it looks a VE up, and the unit that it
\* has found until that is in the map.
CallbacksHold ==
    \A c \in Callbacks :
        /\ callback[c].pc = "idle" => callback[c] = IdleCallback
        /\ callback[c].pc \notin {"lookup", "publish"} => callback[c].host = NoUnit
        /\ callback[c].pc # "publish" => callback[c].unit = NoUnit
        /\ callback[c].pc = "publish" => callback[c].unit # NoUnit
        /\ callback[c].pc \in {"state", "pull", "lookup", "publish", "erase"}
             => callback[c].ve \in VEs

\* Each unit is kept under its own identity.
UnitsHaveTheirVe ==
    /\ \A v \in VEs : /\ ves[v] # NoUnit => unit[ves[v]].ve = v
                      /\ job.listed[v] # NoUnit => unit[job.listed[v]].ve = v
    /\ \A c \in Callbacks :
         callback[c].unit # NoUnit => unit[callback[c].unit].ve = callback[c].ve

\* The row of a VE is of a unit that lives.
RowsLive ==
    \A v \in VEs : row[v] # NoUnit => row[v] \in Owned /\ unit[row[v]].ve = v

\* The units that are not in the map yet: of the list,
OfList(u) == job.pc \in {"check", "attach"} /\ (u = job.unit \/ \E v \in VEs : job.listed[v] = u)

\* and of the callback threads, each of which has found one of its own.
FoundAreTheirOwn ==
    \A c \in Callbacks : callback[c].unit # NoUnit =>
        /\ ~OfList(callback[c].unit)
        /\ \A d \in Callbacks \ {c} : callback[d].unit # callback[c].unit

\* A unit gets its chain when it goes into the map, which the Server asked the scheduler
\* for when it had the event.
ChainsAreCounted ==
    central = "up" =>
        /\ \A u \in Units :
             /\ Chains(u) <= 1
             /\ u = host \/ u \in {ves[v] : v \in VEs} => Chains(u) = 1
             /\ OfList(u) \/ u \in {callback[c].unit : c \in Callbacks} => Chains(u) = 0
        /\ \A c \in Callbacks : callback[c].pc # "idle" => callback[c].pushes

IInv ==
    /\ TypeOK /\ JobHolds /\ CallbacksHold /\ UnitsHaveTheirVe /\ RowsLive
    /\ FoundAreTheirOwn /\ ChainsAreCounted /\ CountIsCurrent

\* One callback thread: there is a host from the event to the end of its handler.
HostStays ==
    \A c \in Callbacks :
        callback[c].pc \in {"state", "pull", "lookup", "publish", "erase", "detach"}
            => host # NoUnit

OneThreadInv == NoNullHost /\ OneLink /\ HostStays

-------------------------------------------------------------------------------
(* Units.                                                                  *)

\* Who owns a unit, before a step and after it.
LEMMA OwnedHas ==
    /\ host \in Owned /\ job.unit \in Owned
    /\ \A v \in VEs : ves[v] \in Owned /\ job.listed[v] \in Owned
    /\ \A c \in Callbacks : callback[c].unit \in Owned /\ callback[c].host \in Owned
    /\ host' \in Owned' /\ job'.unit \in Owned'
    /\ \A v \in VEs : ves'[v] \in Owned' /\ job'.listed[v] \in Owned'
    /\ \A c \in Callbacks : callback'[c].unit \in Owned' /\ callback'[c].host \in Owned'
  BY DEF Owned

\* What the step drops is destroyed with its row; what lives keeps its identity.
LEMMA DestroyIs ==
    ASSUME IInv, NEW now \in [Units -> UnitTypes], \A u \in Units : now[u].ve = unit[u].ve,
           Destroy(now)
    PROVE  /\ row' \in [VEs -> UnitOrNone] /\ unit' \in [Units -> UnitTypes]
           /\ \A u \in Units : u \in Owned' => unit'[u].ve = unit[u].ve
           /\ RowsLive'
  <1> DEFINE gone == Owned \ Owned'
  <1>1. /\ row' = [v \in VEs |-> IF \E u \in gone : u # NoUnit /\ now[u].ve = v
                                  THEN NoUnit ELSE row[v]]
        /\ unit' = [u \in Units |-> IF u \in gone THEN NewUnit(NoVE) ELSE now[u]]
    BY DEF Destroy
  <1>2. row \in [VEs -> UnitOrNone]
    BY DEF IInv, TypeOK
  <1>3. NewUnit(NoVE) \in UnitTypes
    BY DEF NewUnit, UnitTypes, Answers
  <1>4. gone = Owned \ Owned'
    OBVIOUS
  <1> HIDE DEF gone
  <1>5. row' \in [VEs -> UnitOrNone] /\ unit' \in [Units -> UnitTypes]
    BY <1>1, <1>2, <1>3 DEF UnitOrNone
  <1>6. \A u \in Units : u \in Owned' => unit'[u].ve = unit[u].ve
    BY <1>1, <1>4
  <1>7. RowsLive'
    <2> SUFFICES ASSUME NEW v \in VEs, row'[v] # NoUnit
                 PROVE  row'[v] \in Owned' /\ unit'[row'[v]].ve = v
      BY DEF RowsLive
    <2>1. row'[v] = row[v] /\ row[v] \in Units /\ ~ \E u \in gone : u # NoUnit /\ now[u].ve = v
      BY <1>1, <1>2 DEF UnitOrNone
    <2>2. row[v] \in Owned /\ unit[row[v]].ve = v /\ row[v] # NoUnit
      BY <2>1, ServerAssumption DEF IInv, RowsLive
    <2>3. now[row[v]].ve = v
      BY <2>1, <2>2
    <2>4. row[v] \notin gone
      BY <2>1, <2>2, <2>3
    <2>5. row[v] \in Owned'
      BY <1>4, <2>2, <2>4
    <2> QED
      BY <1>6, <2>1, <2>2, <2>5
  <1> QED
    BY <1>5, <1>6, <1>7

\* Where nothing is dropped, the rows are as good as they were.
LEMMA RowsStay ==
    ASSUME IInv, UNCHANGED row,
           \A u \in Units : u \in Owned => u \in Owned' /\ unit'[u].ve = unit[u].ve
    PROVE  RowsLive'
  <1> SUFFICES ASSUME NEW v \in VEs, row[v] # NoUnit
               PROVE  row[v] \in Owned' /\ unit'[row[v]].ve = v
    BY DEF RowsLive
  <1>1. row[v] \in Units
    BY DEF IInv, TypeOK, UnitOrNone
  <1> QED
    BY <1>1 DEF IInv, RowsLive

\* Where each pointer is the one that it was, or null now, and no chain of a unit that is
\* pointed to begins or ends, the units and the chains are as good as they were.
LEMMA PointersStay ==
    ASSUME IInv, TypeOK',
           \A u \in Units : u \in Owned /\ u \in Owned' => unit'[u].ve = unit[u].ve,
           host' \in {NoUnit, host},
           \A v \in VEs : /\ ves'[v] \in {NoUnit, ves[v]}
                         /\ job'.listed[v] \in {NoUnit, job.listed[v]},
           \A c \in Callbacks : /\ callback'[c].unit \in {NoUnit, callback[c].unit}
                                /\ callback'[c].unit # NoUnit => callback'[c].ve = callback[c].ve,
           \A u \in Units : OfList(u)' => OfList(u),
           central' = "up" =>
             /\ central = "up"
             /\ \A u \in Units : Chains(u)' = Chains(u) \/ (u \notin Owned' /\ Chains(u)' <= 1)
             /\ \A c \in Callbacks : callback'[c].pc # "idle" => callback'[c].pushes
    PROVE  UnitsHaveTheirVe' /\ FoundAreTheirOwn' /\ ChainsAreCounted'
  <1>1. /\ \A v \in VEs : ves[v] \in UnitOrNone /\ job.listed[v] \in UnitOrNone
        /\ \A c \in Callbacks : callback[c].unit \in UnitOrNone
    BY DEF IInv, TypeOK, JobTypes, CallbackTypes
  <1>2. \A v \in VEs : /\ ves'[v] # NoUnit => unit'[ves'[v]].ve = v
                       /\ job'.listed[v] # NoUnit => unit'[job'.listed[v]].ve = v
    BY <1>1, OwnedHas DEF IInv, UnitsHaveTheirVe, UnitOrNone
  <1>3. \A c \in Callbacks :
          callback'[c].unit # NoUnit => unit'[callback'[c].unit].ve = callback'[c].ve
    BY <1>1, OwnedHas DEF IInv, UnitsHaveTheirVe, UnitOrNone
  <1>4. FoundAreTheirOwn'
    BY <1>1 DEF IInv, FoundAreTheirOwn, UnitOrNone
  <1>5. ChainsAreCounted'
    <2> SUFFICES ASSUME central' = "up"
                 PROVE  \A u \in Units :
                          /\ Chains(u)' <= 1
                          /\ u = host' \/ u \in {ves'[v] : v \in VEs} => Chains(u)' = 1
                          /\ OfList(u)' \/ u \in {callback'[c].unit : c \in Callbacks}
                               => Chains(u)' = 0
      BY DEF ChainsAreCounted
    <2> TAKE u \in Units
    <2>1. u # NoUnit
      BY ServerAssumption
    <2>2. /\ Chains(u) <= 1
          /\ u = host \/ u \in {ves[v] : v \in VEs} => Chains(u) = 1
          /\ OfList(u) \/ u \in {callback[c].unit : c \in Callbacks} => Chains(u) = 0
      BY DEF IInv, ChainsAreCounted
    <2>3. OfList(u)' => u \in Owned'
      BY OwnedHas DEF OfList
    <2>4. /\ u = host' => u \in Owned' /\ u = host
          /\ u \in {ves'[v] : v \in VEs} => u \in Owned' /\ u \in {ves[v] : v \in VEs}
          /\ u \in {callback'[c].unit : c \in Callbacks}
               => u \in Owned' /\ u \in {callback[c].unit : c \in Callbacks}
      BY <2>1, OwnedHas
    <2> QED
      BY <2>2, <2>3, <2>4
  <1> QED
    BY <1>2, <1>3, <1>4, <1>5 DEF UnitsHaveTheirVe

\* A number of VEs is a number up to that of all.
LEMMA CountTyped == \A S \in SUBSET VEs : Cardinality(S) \in 0 .. Cardinality(VEs)
  BY ServerAssumption, FS_Subset, FS_CardinalityType

\* Where the jobs and the callback threads are what they were, and so are the map and the
\* chains, nothing is lost; nor where the scheduler is being stopped.
LEMMA AgentStays ==
    ASSUME IInv, UNCHANGED <<host, tables, job, callback>>,
           central' = "up" => central = "up" /\ usageJobs' = usageJobs, TypeOK'
    PROVE  IInv'
  <1>1. UNCHANGED <<host, count, ves, row, unit, job, callback>> /\ Owned' = Owned
    BY DEF tables, Owned
  <1>2. JobHolds' /\ CallbacksHold' /\ UnitsHaveTheirVe' /\ RowsLive'
    BY <1>1 DEF IInv, JobHolds, CallbacksHold, UnitsHaveTheirVe, RowsLive
  <1>3. FoundAreTheirOwn' /\ CountIsCurrent'
    BY <1>1 DEF IInv, FoundAreTheirOwn, OfList, CountIsCurrent, Listed
  <1>4. ChainsAreCounted'
    BY <1>1 DEF IInv, ChainsAreCounted, OfList, Chains
  <1> QED
    BY <1>2, <1>3, <1>4 DEF IInv

-------------------------------------------------------------------------------
(* The dispatcher and fini().                                              *)

\* Events that name their VE are told.
LEMMA TellTyped ==
    ASSUME TypeOK, NEW es \in Seq(EventTypes), NEW come \in SUBSET VEs, Tell(es, come)
    PROVE  /\ events' \in Seq(EventTypes) /\ changesLeft' \in 0 .. Changes
           /\ missed' \subseteq VEs
           /\ UNCHANGED <<session, registered, central, active, host, tables, queue, job,
                          callback, unanswered>>
  <1>1. changesLeft' \in 0 .. Changes
    BY ServerAssumption DEF Tell, TypeOK
  <1>2. events' \in Seq(EventTypes)
    BY DEF Tell, TypeOK
  <1> QED
    BY <1>1, <1>2 DEF Tell, TypeOK

\* The host changes: the agent has not heard of it.
LEMMA DispatcherStep ==
    ASSUME IInv, Dispatcher
    PROVE  IInv' /\ UNCHANGED <<central, active, host, links, job, callback>>
  <1>1. ASSUME NEW v \in VEs, NEW s \in Answers
        PROVE  /\ Event("pull", v, s) \in EventTypes /\ Event("erase", v, s) \in EventTypes
               /\ Event("state", v, s) \in EventTypes
    BY DEF Event, EventTypes
  <1>2. Event("detach", NoVE, Unknown) \in EventTypes
    BY DEF Event, EventTypes, Answers
  <1>3. Unknown \in Answers /\ States \subseteq Answers
    BY DEF Answers
  <1>4. ASSUME NEW v \in VEs, AddVe(v) \/ RemoveVe(v) \/ \E s \in States : ChangeState(v, s)
        PROVE  /\ TypeOK'
               /\ UNCHANGED <<central, active, host, tables, queue, job, callback, unanswered>>
    <2>1. PICK es \in Seq(EventTypes), come \in SUBSET VEs : Tell(es, come)
      <3>1. CASE AddVe(v)
        <4>1. Tell(<<Event("pull", v, Unknown)>>, {v})
          BY <3>1 DEF AddVe
        <4>2. <<Event("pull", v, Unknown)>> \in Seq(EventTypes) /\ {v} \in SUBSET VEs
          BY <1>1, <1>3
        <4> QED
          BY <4>1, <4>2
      <3>2. CASE RemoveVe(v)
        <4>1. Tell(<<Event("erase", v, Unknown)>>, {v})
          BY <3>2 DEF RemoveVe
        <4>2. <<Event("erase", v, Unknown)>> \in Seq(EventTypes) /\ {v} \in SUBSET VEs
          BY <1>1, <1>3
        <4> QED
          BY <4>1, <4>2
      <3>3. ASSUME NEW s \in States, ChangeState(v, s)
            PROVE  \E es \in Seq(EventTypes), come \in SUBSET VEs : Tell(es, come)
        <4> DEFINE es == <<Event("state", v, s)>>
                           \o IF Echo THEN <<Event("pull", v, Unknown)>> ELSE <<>>
        <4>1. es \in Seq(EventTypes)
          BY <1>1, <1>3
        <4>2. Tell(es, {})
          BY <3>3 DEF ChangeState
        <4> QED
          BY <4>1, <4>2
      <3> QED
        BY <1>4, <3>1, <3>2, <3>3
    <2>2. exists' \subseteq VEs /\ actual' \in [VEs -> States]
      BY <1>4 DEF IInv, TypeOK, AddVe, RemoveVe, ChangeState
    <2> QED
      BY <2>1, <2>2, TellTyped DEF IInv, TypeOK, tables, queue
  <1>5. CASE CloseConnection
    <2>1. /\ TypeOK /\ changesLeft' = changesLeft - 1 /\ changesLeft > 0 /\ session' = "lost"
          /\ UNCHANGED <<exists, actual, registered, central, active, host, tables, queue,
                         job, callback, missed, unanswered>>
      BY <1>5 DEF IInv, CloseConnection
    <2>2. changesLeft' \in 0 .. Changes
      BY <2>1, ServerAssumption DEF TypeOK
    <2>3. events' \in Seq(EventTypes)
      <3>1. PICK n \in {1, 2} : events' = IF registered
               THEN events \o [i \in 1 .. n |-> Event("detach", NoVE, Unknown)] ELSE events
        BY <1>5 DEF CloseConnection
      <3>2. [i \in 1 .. n |-> Event("detach", NoVE, Unknown)] \in Seq(EventTypes)
        BY <1>2
      <3> QED
        BY <2>1, <3>1, <3>2 DEF TypeOK
    <2>4. TypeOK'
      BY <2>1, <2>2, <2>3 DEF TypeOK, tables, queue
    <2> QED
      BY <2>1, <2>4, AgentStays DEF queue
  <1> QED
    BY <1>4, <1>5, AgentStays DEF Dispatcher, queue

\* fini() stops what it stops; the chains are counted no more.
LEMMA FiniStep ==
    ASSUME IInv, FiniReleases \/ FiniStops
    PROVE  IInv'
  <1>1. central' # "up" /\ UNCHANGED <<host, tables, job, callback>>
    BY DEF FiniReleases, FiniStops
  <1>2. TypeOK'
    <2>1. CASE FiniReleases
      BY <2>1 DEF IInv, TypeOK, FiniReleases, dispatcher, tables, queue
    <2>2. CASE FiniStops
      <3>1. /\ central' = "closed" /\ links' = 0 /\ stateJobs' \in [Units -> Nat]
            /\ usageJobs' \in [Units -> Nat]
            /\ UNCHANGED <<dispatcher, active, host, tables, job, callback, missed, unanswered>>
        BY <2>2 DEF FiniStops
      <3> QED
        BY <3>1 DEF IInv, TypeOK, dispatcher, tables
    <2> QED
      BY <2>1, <2>2
  <1> QED
    BY <1>1, <1>2, AgentStays

-------------------------------------------------------------------------------
(* The scheduler thread.                                                   *)

\* A job ends, or is put off, and its pointers are dropped.
LEMMA JobEnds ==
    ASSUME IInv, NEW now \in [Units -> UnitTypes], \A u \in Units : now[u].ve = unit[u].ve,
           Destroy(now), job' = IdleJob, UNCHANGED <<host, ves, count, callback>>,
           central' = "up" => central = "up" /\ \A u \in Units : Chains(u)' = Chains(u),
           unit' \in [Units -> UnitTypes] /\ row' \in [VEs -> UnitOrNone] => TypeOK'
    PROVE  IInv'
  <1>1. /\ unit' \in [Units -> UnitTypes] /\ RowsLive' /\ TypeOK'
        /\ \A u \in Units : u \in Owned' => unit'[u].ve = unit[u].ve
    BY DestroyIs
  <1>2. job'.pc = "idle" /\ \A v \in VEs : job'.listed[v] = NoUnit
    BY DEF IdleJob
  <1>3. JobHolds'
    BY <1>2 DEF JobHolds, IdleJob
  <1>4. CallbacksHold' /\ CountIsCurrent'
    BY DEF IInv, CallbacksHold, CountIsCurrent, Listed
  <1>5. \A u \in Units : OfList(u)' => OfList(u)
    BY <1>2 DEF OfList
  <1>6. central' = "up" => \A c \in Callbacks : callback'[c].pc # "idle" => callback'[c].pushes
    BY DEF IInv, ChainsAreCounted
  <1>7. UnitsHaveTheirVe' /\ FoundAreTheirOwn' /\ ChainsAreCounted'
    BY <1>1, <1>2, <1>5, <1>6, PointersStay
  <1> QED
    BY <1>1, <1>3, <1>4, <1>7 DEF IInv

\* A job begins with the unit that it has locked, or ends at once.
LEMMA JobBegins ==
    ASSUME IInv, job.pc = "idle", NEW u \in Units, u \in Owned,
           job'.pc \in {"state", "usage"}, job'.unit = u,
           \A v \in VEs : job'.listed[v] = NoUnit,
           UNCHANGED <<host, tables, callback, central>>,
           \A r \in Units : Chains(r)' = Chains(r), TypeOK'
    PROVE  IInv'
  <1>1. UNCHANGED <<host, count, ves, row, unit, callback, central>>
    BY DEF tables
  <1>2. job.unit = NoUnit /\ \A v \in VEs : job.listed[v] = NoUnit
    BY DEF IInv, JobHolds, IdleJob
  <1>3. \A r \in Units : r \in Owned' <=> r \in Owned
    <2>1. NoUnit \notin Units
      BY ServerAssumption
    <2> QED
      BY <1>1, <1>2, <2>1 DEF Owned
  <1>4. RowsLive'
    BY <1>1, <1>3, RowsStay
  <1>5. JobHolds'
    BY ServerAssumption DEF JobHolds
  <1>6. CallbacksHold' /\ CountIsCurrent'
    BY <1>1 DEF IInv, CallbacksHold, CountIsCurrent, Listed
  <1>7. \A r \in Units : OfList(r)' => OfList(r)
    BY DEF OfList
  <1>8. central' = "up" => \A c \in Callbacks : callback'[c].pc # "idle" => callback'[c].pushes
    BY <1>1 DEF IInv, ChainsAreCounted
  <1>9. UnitsHaveTheirVe' /\ FoundAreTheirOwn' /\ ChainsAreCounted'
    BY <1>1, <1>7, <1>8, PointersStay
  <1> QED
    BY <1>4, <1>5, <1>6, <1>9 DEF IInv

\* The login or the list fails.
LEMMA LinkFailsStep == ASSUME IInv, LinkFails PROVE IInv'
  <1>1. TypeOK'
    BY DEF IInv, TypeOK, LinkFails, dispatcher, tables, CanSchedule
  <1> QED
    BY <1>1, AgentStays DEF LinkFails

\* A job whose unit is gone ends.
LEMMA SnatchEndsStep == ASSUME IInv, NEW u \in Units, SnatchEnds(u) PROVE IInv'
  <1>1. /\ job.pc = "idle" /\ u \notin Owned
        /\ UNCHANGED <<dispatcher, central, active, host, tables, links, job, callback,
                       missed, unanswered>>
        /\ stateJobs' \in [Units -> Nat]
        /\ \/ usageJobs' = usageJobs
           \/ usageJobs[u] > 0 /\ usageJobs' = [usageJobs EXCEPT ![u] = usageJobs[u] - 1]
    BY DEF SnatchEnds, Snatched, IInv, TypeOK
  <1>2. usageJobs' \in [Units -> Nat]
    <2>1. usageJobs \in [Units -> Nat] /\ (usageJobs[u] > 0 => usageJobs[u] - 1 \in Nat)
      BY DEF IInv, TypeOK
    <2> QED
      BY <1>1, <2>1
  <1>3. TypeOK'
    BY <1>1, <1>2 DEF IInv, TypeOK, dispatcher, tables
  <1>4. CASE usageJobs' = usageJobs
    BY <1>1, <1>3, <1>4, AgentStays
  <1>5. CASE usageJobs[u] > 0 /\ usageJobs' = [usageJobs EXCEPT ![u] = usageJobs[u] - 1]
    <2>1. UNCHANGED <<host, count, ves, row, unit, job, callback, central>> /\ Owned' = Owned
      BY <1>1 DEF tables, Owned
    <2>2. JobHolds' /\ CallbacksHold' /\ RowsLive' /\ CountIsCurrent'
      BY <2>1 DEF IInv, JobHolds, CallbacksHold, RowsLive, CountIsCurrent, Listed
    <2>3. central = "up" => \A r \in Units : \/ Chains(r)' = Chains(r)
                                             \/ r \notin Owned' /\ Chains(r)' <= 1
      <3> SUFFICES ASSUME central = "up", NEW r \in Units
                   PROVE  Chains(r)' = Chains(r) \/ (r \notin Owned' /\ Chains(r)' <= 1)
        OBVIOUS
      <3>1. CASE r # u
        BY <1>5, <2>1, <3>1 DEF Chains, IInv, TypeOK
      <3>2. CASE r = u
        <4>1. usageJobs[u] <= 1 /\ Chains(u)' = usageJobs[u] - 1 /\ usageJobs[u] \in Nat
          BY <1>1, <1>5, <2>1 DEF IInv, ChainsAreCounted, Chains, TypeOK
        <4> QED
          BY <1>1, <2>1, <3>2, <4>1
      <3> QED
        BY <3>1, <3>2
    <2>4. \A r \in Units : OfList(r)' => OfList(r)
      BY <2>1 DEF OfList
    <2>5. central' = "up" => \A c \in Callbacks : callback'[c].pc # "idle" => callback'[c].pushes
      BY <2>1 DEF IInv, ChainsAreCounted
    <2>6. UnitsHaveTheirVe' /\ FoundAreTheirOwn' /\ ChainsAreCounted'
      BY <1>3, <2>1, <2>3, <2>4, <2>5, PointersStay
    <2> QED
      BY <1>3, <2>2, <2>6 DEF IInv
  <1> QED
    BY <1>1, <1>4, <1>5

\* pullState asks for the state,
LEMMA StateAsksStep == ASSUME IInv, NEW u \in Units, StateAsks(u) PROVE IInv'
  <1>1. PICK a \in {Answer(unit[u].ve), Unknown} :
             job' = [IdleJob EXCEPT !.pc = "state", !.unit = u, !.state = a]
    BY DEF StateAsks
  <1>2. a \in Answers
    BY DEF IInv, TypeOK, UnitTypes, Answers, Answer
  <1>3. /\ job.pc = "idle" /\ u \in Owned
        /\ stateJobs' \in [Units -> Nat] /\ unanswered' \subseteq VEs
        /\ UNCHANGED <<dispatcher, central, active, host, tables, links, usageJobs, callback,
                       missed>>
    BY DEF StateAsks, Snatched, IInv, TypeOK
  <1>4. /\ job' \in JobTypes /\ job'.pc = "state" /\ job'.unit = u
        /\ \A v \in VEs : job'.listed[v] = NoUnit
    BY <1>1, <1>2 DEF IdleJob, JobTypes, UnitOrNone, Answers
  <1>5. TypeOK'
    BY <1>3, <1>4 DEF IInv, TypeOK, dispatcher, tables
  <1>6. \A r \in Units : Chains(r)' = Chains(r)
    BY <1>3, <1>4 DEF Chains
  <1> QED
    BY <1>3, <1>4, <1>5, <1>6, JobBegins

\* and puts it;
LEMMA StatePutsStep == ASSUME IInv, StatePuts PROVE IInv'
  <1> DEFINE now == IF job.state = Unknown THEN unit
                    ELSE [unit EXCEPT ![job.unit].shown = job.state]
  <1>1. /\ job.pc = "state" /\ job' = IdleJob /\ Destroy(now)
        /\ UNCHANGED <<dispatcher, central, active, host, count, ves, queue, callback,
                       missed, unanswered>>
    BY DEF StatePuts
  <1>2. job.unit \in Units /\ job.state \in Answers
    BY <1>1 DEF IInv, TypeOK, JobHolds, JobTypes, UnitOrNone
  <1>3. now \in [Units -> UnitTypes] /\ \A u \in Units : now[u].ve = unit[u].ve
    BY <1>2 DEF IInv, TypeOK, UnitTypes
  <1> HIDE DEF now
  <1>4. IdleJob \in JobTypes /\ IdleJob.pc = "idle"
    BY DEF IdleJob, JobTypes, UnitOrNone, Answers
  <1>5. unit' \in [Units -> UnitTypes] /\ row' \in [VEs -> UnitOrNone] => TypeOK'
    BY <1>1, <1>4 DEF IInv, TypeOK, dispatcher, queue
  <1>6. \A u \in Units : Chains(u)' = Chains(u)
    BY <1>1, <1>4 DEF Chains, queue
  <1>7. UNCHANGED <<host, ves, count, callback, central>>
    BY <1>1
  <1> QED
    BY <1>1, <1>3, <1>5, <1>6, <1>7, JobEnds

\* pullUsage collects,
LEMMA UsageAsksStep == ASSUME IInv, NEW u \in Units, UsageAsks(u) PROVE IInv'
  <1>1. /\ job.pc = "idle" /\ u \in Owned /\ usageJobs[u] > 0
        /\ usageJobs' = [usageJobs EXCEPT ![u] = usageJobs[u] - 1]
        /\ job' = [IdleJob EXCEPT !.pc = "usage", !.unit = u]
        /\ UNCHANGED <<dispatcher, central, active, host, tables, links, stateJobs, callback,
                       missed, unanswered>>
    BY DEF UsageAsks, Snatched
  <1>2. usageJobs' \in [Units -> Nat]
    <2>1. usageJobs \in [Units -> Nat] /\ usageJobs[u] - 1 \in Nat
      BY <1>1 DEF IInv, TypeOK
    <2> QED
      BY <1>1, <2>1
  <1>3. /\ job' \in JobTypes /\ job'.pc = "usage" /\ job'.unit = u
        /\ \A v \in VEs : job'.listed[v] = NoUnit
    BY <1>1 DEF IdleJob, JobTypes, UnitOrNone, Answers
  <1>4. TypeOK'
    BY <1>1, <1>2, <1>3 DEF IInv, TypeOK, dispatcher, tables
  <1>5. \A r \in Units : Chains(r)' = Chains(r)
    BY <1>1, <1>3 DEF Chains, IInv, TypeOK
  <1> QED
    BY <1>1, <1>3, <1>4, <1>5, JobBegins

\* and is scheduled again.
LEMMA UsageReschedulesStep == ASSUME IInv, UsageReschedules PROVE IInv'
  <1>1. PICK u \in Units : u = job.unit
    BY DEF UsageReschedules, IInv, TypeOK, JobHolds, JobTypes, UnitOrNone
  <1>2. /\ job.pc = "usage" /\ job' = IdleJob /\ Destroy(unit)
        /\ usageJobs' = [usageJobs EXCEPT ![u] = usageJobs[u] + IF CanSchedule THEN 1 ELSE 0]
        /\ UNCHANGED <<dispatcher, central, active, host, count, ves, links, stateJobs,
                       callback, missed, unanswered>>
    BY <1>1 DEF UsageReschedules
  <1>3. usageJobs' \in [Units -> Nat]
    BY <1>2 DEF IInv, TypeOK
  <1>4. IdleJob \in JobTypes /\ IdleJob.pc = "idle"
    BY DEF IdleJob, JobTypes, UnitOrNone, Answers
  <1>5. unit' \in [Units -> UnitTypes] /\ row' \in [VEs -> UnitOrNone] => TypeOK'
    BY <1>2, <1>3, <1>4 DEF IInv, TypeOK, dispatcher
  <1>6. central' = "up" => central = "up" /\ \A r \in Units : Chains(r)' = Chains(r)
    BY <1>1, <1>2, <1>4 DEF Chains, CanSchedule, IInv, TypeOK
  <1>7. unit \in [Units -> UnitTypes]
    BY DEF IInv, TypeOK
  <1> QED
    BY <1>2, <1>5, <1>6, <1>7, JobEnds

\* attach() asks for the scheduler, and drops the list if there is none;
LEMMA AttachChecksStep == ASSUME IInv, AttachChecks PROVE IInv'
  <1>1. /\ job.pc = "check" /\ Destroy(unit) /\ unit \in [Units -> UnitTypes]
        /\ UNCHANGED <<dispatcher, central, active, host, count, ves, queue, callback,
                       missed, unanswered>>
    BY DEF AttachChecks, IInv, TypeOK
  <1>2. CASE ~CanSchedule
    <2>1. job' = IdleJob
      BY <1>2 DEF AttachChecks
    <2>2. IdleJob \in JobTypes /\ IdleJob.pc = "idle"
      BY DEF IdleJob, JobTypes, UnitOrNone, Answers
    <2>3. unit' \in [Units -> UnitTypes] /\ row' \in [VEs -> UnitOrNone] => TypeOK'
      BY <1>1, <2>1, <2>2 DEF IInv, TypeOK, dispatcher, queue
    <2>4. \A u \in Units : Chains(u)' = Chains(u)
      BY <1>1, <2>1, <2>2 DEF Chains, queue
    <2> QED
      BY <1>1, <2>1, <2>3, <2>4, JobEnds
  <1>3. CASE CanSchedule
    <2>1. job' = [job EXCEPT !.pc = "attach"]
      BY <1>3 DEF AttachChecks
    <2>2. /\ job' \in JobTypes /\ job'.pc = "attach" /\ job'.unit = job.unit
          /\ job'.listed = job.listed
      BY <2>1 DEF IInv, TypeOK, JobTypes
    <2>3. /\ row' \in [VEs -> UnitOrNone] /\ unit' \in [Units -> UnitTypes] /\ RowsLive'
          /\ \A u \in Units : u \in Owned' => unit'[u].ve = unit[u].ve
      BY <1>1, DestroyIs
    <2>4. TypeOK'
      BY <1>1, <2>2, <2>3 DEF IInv, TypeOK, dispatcher, queue
    <2>5. JobHolds' /\ CallbacksHold' /\ CountIsCurrent'
      BY <1>1, <2>2 DEF IInv, JobHolds, CallbacksHold, CountIsCurrent, Listed
    <2>6. \A u \in Units : OfList(u)' => OfList(u)
      BY <1>1, <2>2 DEF OfList
    <2>7. \A u \in Units : Chains(u)' = Chains(u)
      BY <1>1, <2>2 DEF Chains, queue
    <2>8. central' = "up" => \A c \in Callbacks : callback'[c].pc # "idle" => callback'[c].pushes
      BY <1>1 DEF IInv, ChainsAreCounted
    <2>9. UnitsHaveTheirVe' /\ FoundAreTheirOwn' /\ ChainsAreCounted'
      BY <1>1, <2>2, <2>3, <2>4, <2>6, <2>7, <2>8, PointersStay
    <2> QED
      BY <2>3, <2>4, <2>5, <2>9 DEF IInv
  <1> QED
    BY <1>2, <1>3

\* or drops it because there is a host,
LEMMA UnattachedStep == ASSUME IInv, Attach, Unattached PROVE IInv'
  <1>1. /\ job.pc = "attach" /\ job' = IdleJob /\ Destroy(unit) /\ unit \in [Units -> UnitTypes]
        /\ UNCHANGED <<exists, actual, session, events, changesLeft, central, links, callback,
                       missed, unanswered, registered, active, host, count, ves, stateJobs,
                       usageJobs>>
    BY DEF Attach, Unattached, IInv, TypeOK
  <1>2. IdleJob \in JobTypes /\ IdleJob.pc = "idle"
    BY DEF IdleJob, JobTypes, UnitOrNone, Answers
  <1>3. unit' \in [Units -> UnitTypes] /\ row' \in [VEs -> UnitOrNone] => TypeOK'
    BY <1>1, <1>2 DEF IInv, TypeOK
  <1>4. \A u \in Units : Chains(u)' = Chains(u)
    BY <1>1, <1>2 DEF Chains
  <1> QED
    BY <1>1, <1>3, <1>4, JobEnds

\* or takes the list: each unit of it gets its chain, and none had one.
LEMMA AttachedStep == ASSUME IInv, Attach, Attached PROVE IInv'
  <1>1. /\ job.pc = "attach" /\ job' = IdleJob /\ Destroy(unit) /\ unit \in [Units -> UnitTypes]
        /\ UNCHANGED <<exists, actual, session, events, changesLeft, central, links, callback,
                       missed, unanswered>>
        /\ host' = job.unit /\ active' = TRUE /\ registered' \in BOOLEAN
        /\ count' = Cardinality({v \in VEs : ves'[v] # NoUnit})
    BY DEF Attach, Attached, IInv, TypeOK
  <1>2. job.unit \in Units /\ \A v \in VEs : job.listed[v] \in UnitOrNone
    BY <1>1 DEF IInv, TypeOK, JobHolds, JobTypes, UnitOrNone
  <1>3. ves' = [v \in VEs |-> IF job.listed[v] # NoUnit THEN job.listed[v] ELSE ves[v]]
    BY DEF Attached
  <1>4. /\ stateJobs' = [u \in Units |-> stateJobs[u] + IF CanPush /\ OfList(u) THEN 1 ELSE 0]
        /\ usageJobs' = [u \in Units |-> usageJobs[u] + IF CanPush /\ OfList(u) THEN 1 ELSE 0]
    BY <1>1, ServerAssumption DEF Attached, OfList
  <1>5. /\ row' \in [VEs -> UnitOrNone] /\ unit' \in [Units -> UnitTypes] /\ RowsLive'
        /\ \A u \in Units : u \in Owned' => unit'[u].ve = unit[u].ve
    BY <1>1, DestroyIs
  <1>6. job'.pc = "idle" /\ job' \in JobTypes /\ \A v \in VEs : job'.listed[v] = NoUnit
    BY <1>1 DEF IdleJob, JobTypes, UnitOrNone, Answers
  <1>7. TypeOK'
    <2>1. ves' \in [VEs -> UnitOrNone] /\ host' \in UnitOrNone
      BY <1>1, <1>2, <1>3 DEF IInv, TypeOK, UnitOrNone
    <2>2. count' \in 0 .. Cardinality(VEs)
      BY <1>1, CountTyped
    <2>3. stateJobs' \in [Units -> Nat] /\ usageJobs' \in [Units -> Nat]
      BY <1>4 DEF IInv, TypeOK
    <2> QED
      BY <1>1, <1>5, <1>6, <2>1, <2>2, <2>3 DEF IInv, TypeOK
  <1>8. JobHolds' /\ CallbacksHold' /\ CountIsCurrent'
    BY <1>1, <1>6 DEF IInv, JobHolds, CallbacksHold, CountIsCurrent, Listed
  <1>9. UnitsHaveTheirVe'
    <2>1. ASSUME NEW v \in VEs, ves'[v] # NoUnit PROVE unit'[ves'[v]].ve = v
      <3>1. ves'[v] \in Owned' /\ ves'[v] \in Units
        BY <1>7, <2>1, OwnedHas DEF TypeOK, UnitOrNone
      <3>2. unit[ves'[v]].ve = v
        BY <1>3, <2>1 DEF IInv, UnitsHaveTheirVe
      <3> QED
        BY <1>5, <3>1, <3>2
    <2>2. ASSUME NEW c \in Callbacks, callback[c].unit # NoUnit
          PROVE  unit'[callback[c].unit].ve = callback[c].ve
      <3>1. callback[c].unit \in Owned' /\ callback[c].unit \in Units
        BY <1>1, <2>2, OwnedHas DEF IInv, TypeOK, CallbackTypes, UnitOrNone
      <3> QED
        BY <1>5, <2>2, <3>1 DEF IInv, UnitsHaveTheirVe
    <2> QED
      BY <1>1, <1>6, <2>1, <2>2 DEF UnitsHaveTheirVe
  <1>10. FoundAreTheirOwn'
    BY <1>1, <1>6 DEF IInv, FoundAreTheirOwn, OfList
  <1>11. ChainsAreCounted'
    <2> SUFFICES ASSUME central = "up", NEW u \in Units
                 PROVE  /\ Chains(u)' <= 1
                        /\ u = host' \/ u \in {ves'[v] : v \in VEs} => Chains(u)' = 1
                        /\ u \in {callback[c].unit : c \in Callbacks} => Chains(u)' = 0
      BY <1>1, <1>6 DEF IInv, ChainsAreCounted, OfList
    <2>1. /\ Chains(u) = usageJobs[u] /\ usageJobs[u] \in Nat
          /\ Chains(u)' = usageJobs[u] + IF OfList(u) THEN 1 ELSE 0
      BY <1>1, <1>4, <1>6 DEF Chains, CanPush, IInv, TypeOK
    <2>2. /\ Chains(u) <= 1
          /\ u \in {ves[v] : v \in VEs} => Chains(u) = 1
          /\ OfList(u) \/ u \in {callback[c].unit : c \in Callbacks} => Chains(u) = 0
      BY DEF IInv, ChainsAreCounted
    <2>3. u = host' => OfList(u)
      BY <1>1 DEF OfList
    <2>4. u \in {ves'[v] : v \in VEs} => OfList(u) \/ u \in {ves[v] : v \in VEs}
      BY <1>1, <1>3 DEF OfList
    <2>5. u \in {callback[c].unit : c \in Callbacks} => ~OfList(u)
      BY ServerAssumption DEF IInv, FoundAreTheirOwn
    <2> QED
      BY <2>1, <2>2, <2>3, <2>4, <2>5
  <1> QED
    BY <1>5, <1>7, <1>8, <1>9, <1>10, <1>11 DEF IInv

\* There are units enough: a set goes into one that has as many elements.
LEMMA InjectionExists ==
    ASSUME NEW S, NEW T, IsFiniteSet(S), IsFiniteSet(T), Cardinality(S) <= Cardinality(T)
    PROVE  \E f \in [S -> T] : \A v, w \in S : f[v] = f[w] => v = w
  <1> DEFINE m == Cardinality(S)
             n == Cardinality(T)
  <1>1. /\ m \in Nat /\ n \in Nat /\ m <= n
        /\ ExistsBijection(1 .. m, S) /\ ExistsBijection(1 .. n, T)
    BY FS_CardinalityType
  <1> HIDE DEF m, n
  <1>2. PICK p \in Bijection(1 .. m, S) : TRUE
    BY <1>1 DEF ExistsBijection
  <1>3. PICK q \in Bijection(1 .. n, T) : TRUE
    BY <1>1 DEF ExistsBijection
  <1>4. /\ p \in [1 .. m -> S] /\ \A s \in S : \E i \in 1 .. m : p[i] = s
    BY <1>2 DEF Bijection, Injection, Surjection
  <1>5. /\ q \in [1 .. n -> T] /\ \A i, j \in 1 .. n : q[i] = q[j] => i = j
    <2>1. q \in Injection(1 .. n, T)
      BY <1>3 DEF Bijection
    <2> QED
      BY <2>1 DEF Injection, IsInjective
  <1> DEFINE at == [s \in S |-> CHOOSE i \in 1 .. m : p[i] = s]
             f == [s \in S |-> q[at[s]]]
  <1>6. \A s \in S : at[s] \in 1 .. m /\ p[at[s]] = s
    BY <1>4
  <1>7. \A s \in S : at[s] \in 1 .. n
    BY <1>1, <1>6
  <1> HIDE DEF at
  <1>8. f \in [S -> T]
    BY <1>5, <1>7
  <1>9. \A v, w \in S : f[v] = f[w] => v = w
    BY <1>5, <1>6, <1>7
  <1> QED
    BY <1>8, <1>9

\* Host::Unit::list makes the units out of free ones, each with its own VE.
LEMMA ListIsMade ==
    ASSUME IInv, LinkLists
    PROVE  \E h \in Free, made \in [VEs -> Free \cup {NoUnit}] :
             /\ \A v \in VEs : made[v] # h /\ (made[v] # NoUnit <=> v \in exists)
             /\ \A v, w \in exists : made[v] = made[w] => v = w
             /\ job' = [IdleJob EXCEPT !.pc = "check", !.unit = h, !.listed = made]
             /\ unit' = [u \in Units |->
                  IF u = h THEN NewUnit(NoVE)
                  ELSE IF \E v \in VEs : made[v] = u
                    THEN NewUnit(CHOOSE v \in VEs : made[v] = u)
                  ELSE unit[u]]
             /\ Insert(made)
  <1> DEFINE h == CHOOSE u \in Free : TRUE
             IsMade(f) == /\ \A v \in VEs : f[v] # NoUnit <=> v \in exists
                          /\ \A v, w \in exists : f[v] = f[w] => v = w
             made == CHOOSE f \in [VEs -> (Free \ {h}) \cup {NoUnit}] : IsMade(f)
  <1>1. /\ IsFiniteSet(Free) /\ IsFiniteSet(exists) /\ exists \subseteq VEs
        /\ Cardinality(Free) \in Nat /\ Cardinality(exists) \in Nat
        /\ Cardinality(Free) > Cardinality(exists)
    <2>1. Free \subseteq Units /\ exists \subseteq VEs
      BY DEF Free, IInv, TypeOK
    <2> QED
      BY <2>1, ServerAssumption, FS_Subset, FS_CardinalityType DEF LinkLists
  <1>2. h \in Free
    <2>1. Free # {}
      BY <1>1, FS_EmptySet
    <2> QED
      BY <2>1
  <1> HIDE DEF h
  <1>3. IsFiniteSet(Free \ {h}) /\ Cardinality(exists) <= Cardinality(Free \ {h})
    <2>1. IsFiniteSet(Free \ {h}) /\ Cardinality(Free \ {h}) = Cardinality(Free) - 1
      BY <1>1, <1>2, FS_RemoveElement
    <2> QED
      BY <1>1, <2>1
  <1>4. \E f \in [VEs -> (Free \ {h}) \cup {NoUnit}] : IsMade(f)
    <2>1. PICK g \in [exists -> Free \ {h}] : \A v, w \in exists : g[v] = g[w] => v = w
      BY <1>1, <1>3, InjectionExists
    <2> DEFINE f == [v \in VEs |-> IF v \in exists THEN g[v] ELSE NoUnit]
    <2>2. f \in [VEs -> (Free \ {h}) \cup {NoUnit}]
      BY <2>1
    <2>3. \A v \in exists : f[v] = g[v] /\ g[v] # NoUnit
      BY <1>1, <2>1, ServerAssumption DEF Free
    <2>4. \A v \in VEs \ exists : f[v] = NoUnit
      OBVIOUS
    <2> HIDE DEF f
    <2>5. IsMade(f)
      BY <1>1, <2>1, <2>3, <2>4
    <2> QED
      BY <2>2, <2>5
  <1>5. made \in [VEs -> (Free \ {h}) \cup {NoUnit}] /\ IsMade(made)
    <2> HIDE DEF IsMade
    <2> QED
      BY <1>4
  <1>6. /\ job' = [IdleJob EXCEPT !.pc = "check", !.unit = h, !.listed = made]
        /\ unit' = [u \in Units |->
             IF u = h THEN NewUnit(NoVE)
             ELSE IF \E v \in VEs : made[v] = u
               THEN NewUnit(CHOOSE v \in VEs : made[v] = u)
             ELSE unit[u]]
        /\ Insert(made)
    BY DEF LinkLists, h
  <1> HIDE DEF made
  <1>7. \A v \in VEs : made[v] # h
    BY <1>2, <1>5, ServerAssumption DEF Free
  <1>8. made \in [VEs -> Free \cup {NoUnit}]
    BY <1>5
  <1> QED
    BY <1>2, <1>5, <1>6, <1>7, <1>8

\* The units of the list are new, and a row that is there keeps its unit.
LEMMA LinkListsStep == ASSUME IInv, LinkLists PROVE IInv'
  <1>1. /\ job.pc = "idle" /\ links' = links - 1 /\ links > 0 /\ session' = "live"
        /\ missed' \subseteq VEs
        /\ UNCHANGED <<exists, actual, registered, events, changesLeft, central, active,
                       host, count, ves, stateJobs, usageJobs, callback, unanswered>>
    BY DEF LinkLists, IInv, TypeOK
  <1>2. PICK h \in Free, made \in [VEs -> Free \cup {NoUnit}] :
             /\ \A v \in VEs : made[v] # h /\ (made[v] # NoUnit <=> v \in exists)
             /\ \A v, w \in exists : made[v] = made[w] => v = w
             /\ job' = [IdleJob EXCEPT !.pc = "check", !.unit = h, !.listed = made]
             /\ unit' = [u \in Units |->
                  IF u = h THEN NewUnit(NoVE)
                  ELSE IF \E v \in VEs : made[v] = u
                    THEN NewUnit(CHOOSE v \in VEs : made[v] = u)
                  ELSE unit[u]]
             /\ Insert(made)
    BY ListIsMade
  <1>3. /\ Free \subseteq Units /\ NoUnit \notin Units
        /\ \A u \in Free : u \notin Owned /\ usageJobs[u] = 0
    BY ServerAssumption DEF Free
  <1>4. job.unit = NoUnit /\ \A v \in VEs : job.listed[v] = NoUnit
    BY <1>1 DEF IInv, JobHolds, IdleJob
  <1>5. job' \in JobTypes /\ job'.pc = "check" /\ job'.unit = h /\ job'.listed = made
    BY <1>2, <1>3 DEF IdleJob, JobTypes, UnitOrNone, Answers
  <1>6. unit' \in [Units -> UnitTypes]
    <2>1. \A v \in VEs \cup {NoVE} : NewUnit(v) \in UnitTypes
      BY DEF NewUnit, UnitTypes, Answers
    <2> QED
      BY <1>2, <2>1 DEF IInv, TypeOK
  <1>7. \A v \in VEs : made[v] # NoUnit => unit'[made[v]].ve = v
    <2> SUFFICES ASSUME NEW v \in VEs, made[v] # NoUnit PROVE unit'[made[v]].ve = v
      OBVIOUS
    <2>1. made[v] \in Units /\ v \in exists /\ made[v] # h
      BY <1>2, <1>3
    <2>2. \A w \in VEs : made[w] = made[v] => w = v
      BY <1>2, <2>1
    <2>3. (CHOOSE w \in VEs : made[w] = made[v]) = v
      BY <2>2
    <2> QED
      BY <1>2, <2>1, <2>3 DEF NewUnit
  <1>8. \A u \in Units : u \in Owned => u \in Owned' /\ unit'[u] = unit[u]
    <2> SUFFICES ASSUME NEW u \in Units, u \in Owned PROVE u \in Owned' /\ unit'[u] = unit[u]
      OBVIOUS
    <2>1. u \in Owned'
      BY <1>1, <1>3, <1>4 DEF Owned
    <2>2. u # h /\ \A v \in VEs : made[v] # u
      BY <1>2, <1>3
    <2> QED
      BY <1>2, <2>1, <2>2
  <1>9. row' = [v \in VEs |-> IF row[v] = NoUnit THEN made[v] ELSE row[v]]
    BY <1>2 DEF Insert
  <1>10. TypeOK'
    <2>1. row' \in [VEs -> UnitOrNone]
      BY <1>3, <1>9 DEF IInv, TypeOK, UnitOrNone
    <2>2. links' \in Nat
      BY <1>1 DEF IInv, TypeOK
    <2> QED
      BY <1>1, <1>5, <1>6, <2>1, <2>2 DEF IInv, TypeOK
  <1>11. JobHolds' /\ CallbacksHold' /\ CountIsCurrent'
    BY <1>1, <1>3, <1>5 DEF IInv, JobHolds, CallbacksHold, CountIsCurrent, Listed
  <1>12. UnitsHaveTheirVe'
    <2>1. ASSUME NEW v \in VEs, ves[v] # NoUnit PROVE unit'[ves[v]].ve = v
      BY <1>8, <2>1, OwnedHas DEF IInv, TypeOK, UnitOrNone, UnitsHaveTheirVe
    <2>2. ASSUME NEW c \in Callbacks, callback[c].unit # NoUnit
          PROVE  unit'[callback[c].unit].ve = callback[c].ve
      <3>1. callback[c].unit \in Units /\ callback[c].unit \in Owned
        BY <2>2, OwnedHas DEF IInv, TypeOK, CallbackTypes, UnitOrNone
      <3> QED
        BY <1>8, <2>2, <3>1 DEF IInv, UnitsHaveTheirVe
    <2> QED
      BY <1>1, <1>5, <1>7, <2>1, <2>2 DEF UnitsHaveTheirVe
  <1>13. RowsLive'
    <2> SUFFICES ASSUME NEW v \in VEs, row'[v] # NoUnit
                 PROVE  row'[v] \in Owned' /\ unit'[row'[v]].ve = v
      BY DEF RowsLive
    <2>1. CASE row[v] = NoUnit
      BY <1>5, <1>7, <1>9, <2>1, OwnedHas
    <2>2. CASE row[v] # NoUnit
      <3>1. row[v] \in Units /\ row[v] \in Owned /\ unit[row[v]].ve = v
        BY <2>2 DEF IInv, TypeOK, UnitOrNone, RowsLive
      <3> QED
        BY <1>8, <1>9, <2>2, <3>1
    <2> QED
      BY <2>1, <2>2
  <1>14. \A u \in Units : OfList(u)' => u \in Free
    BY <1>2, <1>3, <1>5 DEF OfList
  <1>15. FoundAreTheirOwn'
    <2> SUFFICES ASSUME NEW c \in Callbacks, callback[c].unit # NoUnit
                 PROVE  ~OfList(callback[c].unit)'
      BY <1>1 DEF IInv, FoundAreTheirOwn
    <2>1. callback[c].unit \in Units /\ callback[c].unit \in Owned
      BY OwnedHas DEF IInv, TypeOK, CallbackTypes, UnitOrNone
    <2> QED
      BY <1>1, <1>3, <1>14, <2>1
  <1>16. ChainsAreCounted'
    <2>1. \A u \in Units : Chains(u)' = Chains(u)
      BY <1>1, <1>5 DEF Chains
    <2>2. \A u \in Units : OfList(u)' => Chains(u) = 0
      BY <1>1, <1>3, <1>14 DEF Chains
    <2>3. central = "up" =>
            /\ \A u \in Units :
                 /\ Chains(u) <= 1
                 /\ u = host \/ u \in {ves[v] : v \in VEs} => Chains(u) = 1
                 /\ u \in {callback[c].unit : c \in Callbacks} => Chains(u) = 0
            /\ \A c \in Callbacks : callback[c].pc # "idle" => callback[c].pushes
      BY DEF IInv, ChainsAreCounted
    <2> QED
      BY <1>1, <2>1, <2>2, <2>3 DEF ChainsAreCounted
  <1> QED
    BY <1>10, <1>11, <1>12, <1>13, <1>15, <1>16 DEF IInv

-------------------------------------------------------------------------------
(* The callback threads.                                                   *)

\* A thread returns, and holds nothing.
LEMMA ReturnsIs ==
    ASSUME IInv, NEW c \in Callbacks, Returns(c)
    PROVE  /\ callback' \in [Callbacks -> CallbackTypes]
           /\ callback'[c] = IdleCallback /\ callback'[c].pc = "idle"
           /\ callback'[c].unit = NoUnit
           /\ \A d \in Callbacks \ {c} : callback'[d] = callback[d]
           /\ CallbacksHold'
           /\ central = "up" => \A d \in Callbacks : callback'[d].pc # "idle" => callback'[d].pushes
           /\ \A d \in Callbacks :
                /\ callback'[d].unit \in {NoUnit, callback[d].unit}
                /\ callback'[d].unit # NoUnit => callback'[d].ve = callback[d].ve
  <1>1. IdleCallback \in CallbackTypes
    BY DEF IdleCallback, CallbackTypes, UnitOrNone, Answers
  <1>2. /\ callback' \in [Callbacks -> CallbackTypes]
        /\ callback'[c] = IdleCallback /\ \A d \in Callbacks \ {c} : callback'[d] = callback[d]
    BY <1>1 DEF Returns, IInv, TypeOK
  <1>3. /\ IdleCallback.pc = "idle" /\ IdleCallback.unit = NoUnit /\ IdleCallback.host = NoUnit
    BY DEF IdleCallback
  <1>4. CallbacksHold'
    <2> SUFFICES ASSUME NEW d \in Callbacks
                 PROVE  /\ callback'[d].pc = "idle" => callback'[d] = IdleCallback
                        /\ callback'[d].pc \notin {"lookup", "publish"}
                          => callback'[d].host = NoUnit
                        /\ callback'[d].pc # "publish" => callback'[d].unit = NoUnit
                        /\ callback'[d].pc = "publish" => callback'[d].unit # NoUnit
                        /\ callback'[d].pc \in {"state", "pull", "lookup", "publish", "erase"}
                             => callback'[d].ve \in VEs
      BY DEF CallbacksHold
    <2>1. CASE d = c
      BY <1>2, <1>3, <2>1
    <2>2. CASE d # c
      BY <1>2, <2>2 DEF IInv, CallbacksHold
    <2> QED
      BY <2>1, <2>2
  <1>5. central = "up" => \A d \in Callbacks : callback'[d].pc # "idle" => callback'[d].pushes
    BY <1>2, <1>3 DEF IInv, ChainsAreCounted
  <1>6. \A d \in Callbacks : /\ callback'[d].unit \in {NoUnit, callback[d].unit}
                             /\ callback'[d].unit # NoUnit => callback'[d].ve = callback[d].ve
    BY <1>2, <1>3
  <1> QED
    BY <1>2, <1>3, <1>4, <1>5, <1>6

\* A callback that has found no unit returns, and changes no pointer and no chain.
LEMMA ReturnsQuietly ==
    ASSUME IInv, NEW c \in Callbacks, Returns(c), callback[c].pc \notin {"lookup", "publish"},
           UNCHANGED <<central, host, count, ves, row, usageJobs, job>>,
           \A u \in Units : unit'[u].ve = unit[u].ve,
           callback' \in [Callbacks -> CallbackTypes] => TypeOK'
    PROVE  IInv'
  <1>1. /\ callback' \in [Callbacks -> CallbackTypes] /\ TypeOK' /\ CallbacksHold'
        /\ callback'[c] = IdleCallback
        /\ \A d \in Callbacks \ {c} : callback'[d] = callback[d]
        /\ central = "up" => \A d \in Callbacks : callback'[d].pc # "idle" => callback'[d].pushes
        /\ \A d \in Callbacks :
             /\ callback'[d].unit \in {NoUnit, callback[d].unit}
             /\ callback'[d].unit # NoUnit => callback'[d].ve = callback[d].ve
    BY ReturnsIs
  <1>2. callback[c].unit = NoUnit /\ callback[c].host = NoUnit
    BY DEF IInv, CallbacksHold
  <1>3. \A d \in Callbacks : /\ callback'[d].unit = callback[d].unit
                             /\ callback'[d].host = callback[d].host
    BY <1>1, <1>2 DEF IdleCallback
  <1>4. \A u \in Units : u \in Owned => u \in Owned'
    BY <1>3 DEF Owned
  <1>5. RowsLive'
    BY <1>4, RowsStay
  <1>6. JobHolds' /\ CountIsCurrent'
    BY DEF IInv, JobHolds, CountIsCurrent, Listed
  <1>7. \A u \in Units : Chains(u)' = Chains(u) /\ (OfList(u)' => OfList(u))
    BY DEF Chains, OfList
  <1>8. UnitsHaveTheirVe' /\ FoundAreTheirOwn' /\ ChainsAreCounted'
    <2>1. \A v \in VEs : /\ ves'[v] \in {NoUnit, ves[v]}
                         /\ job'.listed[v] \in {NoUnit, job.listed[v]}
      OBVIOUS
    <2> QED
      BY <1>1, <1>7, <2>1, PointersStay
  <1> QED
    BY <1>1, <1>5, <1>6, <1>8 DEF IInv

\* VM_STATE_CHANGED, and a pull of a VE that is known.
LEMMA StateEventStep == ASSUME IInv, NEW c \in Callbacks, StateEvent(c) PROVE IInv'
  <1> DEFINE u == ves[callback[c].ve]
  <1>1. /\ callback[c].pc = "state" /\ Returns(c)
        /\ unit' = IF u = NoUnit THEN unit ELSE [unit EXCEPT ![u].shown = callback[c].state]
        /\ UNCHANGED <<dispatcher, central, active, host, count, ves, row, queue, job,
                       missed, unanswered>>
    BY DEF StateEvent
  <1>2. u \in UnitOrNone /\ callback[c].state \in Answers
    BY <1>1 DEF IInv, TypeOK, CallbacksHold, CallbackTypes
  <1> HIDE DEF u
  <1>3. unit' \in [Units -> UnitTypes] /\ \A r \in Units : unit'[r].ve = unit[r].ve
    BY <1>1, <1>2 DEF IInv, TypeOK, UnitTypes, UnitOrNone
  <1>4. callback' \in [Callbacks -> CallbackTypes] => TypeOK'
    BY <1>1, <1>3 DEF IInv, TypeOK, dispatcher, queue
  <1> QED
    BY <1>1, <1>3, <1>4, ReturnsQuietly DEF queue

\* The state is to be pulled.
LEMMA PullKnownStep == ASSUME IInv, NEW c \in Callbacks, PullKnown(c) PROVE IInv'
  <1>1. /\ callback[c].pc = "pull" /\ Returns(c)
        /\ UNCHANGED <<dispatcher, central, active, host, tables, links, usageJobs, job,
                       missed, unanswered>>
    BY DEF PullKnown
  <1>2. stateJobs' \in [Units -> Nat]
    <2>1. PICK u \in Units : u = ves[callback[c].ve]
      BY <1>1 DEF PullKnown, IInv, TypeOK, CallbacksHold, UnitOrNone
    <2>2. stateJobs' = [stateJobs EXCEPT ![u] =
                          stateJobs[u] + IF callback[c].pushes /\ CanPush THEN 1 ELSE 0]
      BY <2>1 DEF PullKnown
    <2>3. stateJobs \in [Units -> Nat] /\ stateJobs[u] \in Nat /\ stateJobs[u] + 1 \in Nat
      BY DEF IInv, TypeOK
    <2> QED
      BY <2>2, <2>3
  <1>3. callback' \in [Callbacks -> CallbackTypes] => TypeOK'
    BY <1>1, <1>2 DEF IInv, TypeOK, dispatcher, tables
  <1> QED
    BY <1>1, <1>3, ReturnsQuietly DEF tables

\* The Link is scheduled.
LEMMA RelinkStep == ASSUME IInv, NEW c \in Callbacks, Relink(c) PROVE IInv'
  <1>1. /\ callback[c].pc = "relink" /\ Returns(c)
        /\ UNCHANGED <<dispatcher, central, active, host, tables, stateJobs, usageJobs, job,
                       missed, unanswered>>
    BY DEF Relink
  <1>2. links' \in Nat
    BY DEF Relink, IInv, TypeOK
  <1>3. callback' \in [Callbacks -> CallbackTypes] => TypeOK'
    BY <1>1, <1>2 DEF IInv, TypeOK, dispatcher, tables
  <1> QED
    BY <1>1, <1>3, ReturnsQuietly DEF tables

\* Server::handle takes the next event, and forgets it if the Server is not active.
LEMMA HandleStep == ASSUME IInv, NEW c \in Callbacks, Handle(c) PROVE IInv'
  <1> DEFINE e == Head(events)
             k == [IdleCallback EXCEPT !.pc = e.pc, !.ve = e.ve, !.state = e.state,
                                       !.pushes = CanSchedule]
  <1>1. /\ callback[c].pc = "idle" /\ events # <<>> /\ events' = Tail(events)
        /\ callback' = IF active THEN [callback EXCEPT ![c] = k] ELSE callback
        /\ UNCHANGED <<exists, actual, session, registered, changesLeft, central, active, host,
                       tables, queue, job, missed, unanswered>>
    BY DEF Handle
  <1>2. e \in EventTypes /\ events' \in Seq(EventTypes)
    BY <1>1 DEF IInv, TypeOK
  <1> HIDE DEF e
  <1>3. /\ e.pc \in {"state", "pull", "erase", "detach"} /\ e.ve \in VEs \cup {NoVE}
        /\ e.state \in Answers /\ (e.pc # "detach" => e.ve \in VEs)
    BY <1>2 DEF EventTypes
  <1>4. /\ k \in CallbackTypes /\ k.pc = e.pc /\ k.ve = e.ve /\ k.unit = NoUnit
        /\ k.host = NoUnit /\ (k.pushes <=> central = "up")
    BY <1>3 DEF IdleCallback, CallbackTypes, UnitOrNone, Answers, CanSchedule
  <1> HIDE DEF k
  <1>5. callback[c].unit = NoUnit /\ callback[c].host = NoUnit
    BY <1>1 DEF IInv, CallbacksHold
  <1>6. /\ callback' \in [Callbacks -> CallbackTypes]
        /\ \A d \in Callbacks : \/ callback'[d] = callback[d]
                                \/ d = c /\ callback'[d] = k
    BY <1>1, <1>4 DEF IInv, TypeOK
  <1>7. \A d \in Callbacks : /\ callback'[d].unit = callback[d].unit
                             /\ callback'[d].host = callback[d].host
                             /\ callback'[d].unit # NoUnit => callback'[d].ve = callback[d].ve
    BY <1>4, <1>5, <1>6
  <1>8. TypeOK'
    BY <1>1, <1>2, <1>6 DEF IInv, TypeOK, tables, queue
  <1>9. UNCHANGED <<host, count, ves, row, unit, usageJobs, job, central>>
    BY <1>1 DEF tables, queue
  <1>10. \A u \in Units : u \in Owned => u \in Owned' /\ unit'[u].ve = unit[u].ve
    BY <1>7, <1>9 DEF Owned
  <1>11. RowsLive'
    BY <1>9, <1>10, RowsStay
  <1>12. JobHolds' /\ CountIsCurrent'
    BY <1>9 DEF IInv, JobHolds, CountIsCurrent, Listed
  <1>13. CallbacksHold'
    <2> SUFFICES ASSUME NEW d \in Callbacks
                 PROVE  /\ callback'[d].pc = "idle" => callback'[d] = IdleCallback
                        /\ callback'[d].pc \notin {"lookup", "publish"}
                          => callback'[d].host = NoUnit
                        /\ callback'[d].pc # "publish" => callback'[d].unit = NoUnit
                        /\ callback'[d].pc = "publish" => callback'[d].unit # NoUnit
                        /\ callback'[d].pc \in {"state", "pull", "lookup", "publish", "erase"}
                             => callback'[d].ve \in VEs
      BY DEF CallbacksHold
    <2>1. CASE callback'[d] = callback[d]
      BY <2>1 DEF IInv, CallbacksHold
    <2>2. CASE d = c /\ callback'[d] = k
      BY <1>3, <1>4, <2>2
    <2> QED
      BY <1>6, <2>1, <2>2
  <1>14. central = "up" => \A d \in Callbacks : callback'[d].pc # "idle" => callback'[d].pushes
    BY <1>4, <1>6 DEF IInv, ChainsAreCounted
  <1>15. \A u \in Units : Chains(u)' = Chains(u) /\ (OfList(u)' => OfList(u))
    BY <1>9 DEF Chains, OfList
  <1>16. UnitsHaveTheirVe' /\ FoundAreTheirOwn' /\ ChainsAreCounted'
    BY <1>7, <1>8, <1>9, <1>14, <1>15, PointersStay
  <1> QED
    BY <1>8, <1>11, <1>12, <1>13, <1>16 DEF IInv

\* A pull of a VE that is not known gives up, or keeps the host and looks the VE up.
LEMMA PullUnknownStep == ASSUME IInv, NEW c \in Callbacks, PullUnknown(c) PROVE IInv'
  <1>1. /\ callback[c].pc = "pull"
        /\ UNCHANGED <<dispatcher, central, active, host, tables, queue, job, missed, unanswered>>
    BY DEF PullUnknown
  <1>2. UNCHANGED <<host, count, ves, row, unit, usageJobs, job, central>>
    BY <1>1 DEF tables, queue
  <1>3. callback' \in [Callbacks -> CallbackTypes] => TypeOK'
    BY <1>1 DEF IInv, TypeOK, dispatcher, tables, queue
  <1>4. CASE host = NoUnit
    BY <1>1, <1>2, <1>3, <1>4, ReturnsQuietly DEF PullUnknown
  <1>5. CASE host # NoUnit
    <2>1. callback' = [callback EXCEPT ![c].pc = "lookup", ![c].host = host]
      BY <1>5 DEF PullUnknown
    <2>2. callback[c].ve \in VEs /\ callback[c].unit = NoUnit /\ callback[c].host = NoUnit
      BY <1>1 DEF IInv, CallbacksHold
    <2>3. /\ callback' \in [Callbacks -> CallbackTypes]
          /\ callback'[c].pc = "lookup" /\ callback'[c].host = host
          /\ callback'[c].unit = callback[c].unit /\ callback'[c].ve = callback[c].ve
          /\ callback'[c].pushes = callback[c].pushes
          /\ \A d \in Callbacks \ {c} : callback'[d] = callback[d]
      BY <2>1 DEF IInv, TypeOK, CallbackTypes
    <2>4. \A d \in Callbacks : /\ callback'[d].unit = callback[d].unit
                               /\ callback'[d].ve = callback[d].ve
                               /\ callback'[d].pushes = callback[d].pushes
      BY <2>3
    <2>5. \A u \in Units : u \in Owned => u \in Owned' /\ unit'[u].ve = unit[u].ve
      <3>1. NoUnit \notin Units /\ \A d \in Callbacks \ {c} : callback'[d].host = callback[d].host
        BY <2>3, ServerAssumption
      <3> QED
        BY <1>2, <2>2, <2>4, <3>1 DEF Owned
    <2>6. RowsLive'
      BY <1>2, <2>5, RowsStay
    <2>7. JobHolds' /\ CountIsCurrent'
      BY <1>2 DEF IInv, JobHolds, CountIsCurrent, Listed
    <2>8. CallbacksHold'
      BY <2>2, <2>3 DEF IInv, CallbacksHold
    <2>9. central = "up" => \A d \in Callbacks : callback'[d].pc # "idle" => callback'[d].pushes
      BY <1>1, <2>3, <2>4 DEF IInv, ChainsAreCounted
    <2>10. \A u \in Units : Chains(u)' = Chains(u) /\ (OfList(u)' => OfList(u))
      BY <1>2 DEF Chains, OfList
    <2>11. UnitsHaveTheirVe' /\ FoundAreTheirOwn' /\ ChainsAreCounted'
      BY <1>2, <1>3, <2>3, <2>4, <2>9, <2>10, PointersStay
    <2> QED
      BY <1>3, <2>3, <2>6, <2>7, <2>8, <2>11 DEF IInv
  <1> QED
    BY <1>4, <1>5

\* Host::Unit::find makes a unit of a free one;
LEMMA PullFindsStep == ASSUME IInv, NEW c \in Callbacks, PullFinds(c) PROVE IInv'
  <1> DEFINE v == callback[c].ve
  <1>1. /\ callback[c].pc = "lookup" /\ Free # {} /\ v \in VEs /\ callback[c].unit = NoUnit
        /\ UNCHANGED <<dispatcher, central, active, host, count, ves, queue, job,
                       missed, unanswered>>
    BY DEF PullFinds, IInv, CallbacksHold
  <1>2. PICK u \in Units :
          /\ u \in Free
          /\ unit' = [unit EXCEPT ![u] = [ve |-> v, shown |-> Answer(v)]]
          /\ Insert([w \in VEs |-> IF w = v THEN u ELSE NoUnit])
          /\ callback' = [callback EXCEPT ![c].pc = "publish", ![c].unit = u]
    <2>1. (CHOOSE n \in Units : n \in Free) \in Free /\ Free \subseteq Units
      BY <1>1 DEF Free
    <2> QED
      BY <2>1 DEF PullFinds
  <1>3. u \notin Owned /\ usageJobs[u] = 0 /\ u # NoUnit
    BY <1>2, ServerAssumption DEF Free
  <1>4. Answer(v) \in Answers
    BY <1>1 DEF Answer, Answers, IInv, TypeOK
  <1>5. v = callback[c].ve
    OBVIOUS
  <1> HIDE DEF v
  <1>6. /\ callback' \in [Callbacks -> CallbackTypes]
        /\ callback'[c].pc = "publish" /\ callback'[c].unit = u /\ callback'[c].ve = v
        /\ callback'[c].host = callback[c].host /\ callback'[c].pushes = callback[c].pushes
        /\ \A d \in Callbacks \ {c} : callback'[d] = callback[d]
    BY <1>2, <1>5 DEF IInv, TypeOK, CallbackTypes, UnitOrNone
  <1>7. /\ unit' \in [Units -> UnitTypes] /\ unit'[u].ve = v
        /\ \A r \in Units \ {u} : unit'[r] = unit[r]
    BY <1>1, <1>2, <1>4 DEF IInv, TypeOK, UnitTypes
  <1>8. row' = [w \in VEs |-> IF row[w] = NoUnit /\ w = v THEN u ELSE row[w]]
    <2>1. row' = [w \in VEs |-> IF row[w] = NoUnit
                                  THEN [x \in VEs |-> IF x = v THEN u ELSE NoUnit][w]
                                  ELSE row[w]]
      BY <1>2 DEF Insert
    <2> QED
      BY <2>1
  <1>9. UNCHANGED <<host, count, ves, usageJobs, job, central>>
    BY <1>1 DEF queue
  <1>10. TypeOK'
    <2>1. row' \in [VEs -> UnitOrNone]
      BY <1>8 DEF IInv, TypeOK, UnitOrNone
    <2> QED
      BY <1>1, <1>6, <1>7, <2>1 DEF IInv, TypeOK, dispatcher, queue
  <1>11. \A r \in Units : r \in Owned => r \in Owned' /\ unit'[r] = unit[r]
    <2> SUFFICES ASSUME NEW r \in Units, r \in Owned PROVE r \in Owned' /\ unit'[r] = unit[r]
      OBVIOUS
    <2>1. r # NoUnit /\ r # u
      BY <1>3, ServerAssumption
    <2>2. \A d \in Callbacks : /\ callback'[d].host = callback[d].host
                               /\ callback[d].unit = r => callback'[d].unit = r
      BY <1>1, <1>6, <2>1
    <2>3. r \in Owned'
      BY <1>9, <2>2 DEF Owned
    <2> QED
      BY <1>7, <2>1, <2>3
  <1>12. JobHolds' /\ CountIsCurrent'
    BY <1>9 DEF IInv, JobHolds, CountIsCurrent, Listed
  <1>13. CallbacksHold'
    BY <1>1, <1>3, <1>6 DEF IInv, CallbacksHold
  <1>14. RowsLive'
    <2> SUFFICES ASSUME NEW w \in VEs, row'[w] # NoUnit
                 PROVE  row'[w] \in Owned' /\ unit'[row'[w]].ve = w
      BY DEF RowsLive
    <2>1. CASE row[w] = NoUnit
      BY <1>6, <1>7, <1>8, <2>1, OwnedHas
    <2>2. CASE row[w] # NoUnit
      <3>1. row[w] \in Units /\ row[w] \in Owned /\ unit[row[w]].ve = w
        BY <2>2 DEF IInv, TypeOK, UnitOrNone, RowsLive
      <3> QED
        BY <1>8, <1>11, <2>2, <3>1
    <2> QED
      BY <2>1, <2>2
  <1>15. UnitsHaveTheirVe'
    <2>1. ASSUME NEW w \in VEs
          PROVE  /\ ves[w] # NoUnit => unit'[ves[w]].ve = w
                 /\ job.listed[w] # NoUnit => unit'[job.listed[w]].ve = w
      BY <1>11, OwnedHas DEF IInv, TypeOK, JobTypes, UnitOrNone, UnitsHaveTheirVe
    <2>2. ASSUME NEW d \in Callbacks, callback'[d].unit # NoUnit
          PROVE  unit'[callback'[d].unit].ve = callback'[d].ve
      <3>1. CASE d = c
        BY <1>6, <1>7, <3>1
      <3>2. CASE d # c
        <4>1. /\ callback'[d] = callback[d] /\ callback[d].unit \in Units
              /\ callback[d].unit \in Owned
          BY <1>6, <2>2, <3>2, OwnedHas DEF IInv, TypeOK, CallbackTypes, UnitOrNone
        <4> QED
          BY <1>11, <2>2, <4>1 DEF IInv, UnitsHaveTheirVe
      <3> QED
        BY <3>1, <3>2
    <2> QED
      BY <1>9, <2>1, <2>2 DEF UnitsHaveTheirVe
  <1>16. FoundAreTheirOwn'
    <2>1. \A d \in Callbacks : callback[d].unit # u
      BY <1>3, OwnedHas
    <2>2. ~OfList(u)
      BY <1>3, OwnedHas DEF OfList
    <2> SUFFICES ASSUME NEW d \in Callbacks, callback'[d].unit # NoUnit
                 PROVE  /\ ~OfList(callback[d].unit)'
                        /\ \A e \in Callbacks \ {d} : callback'[e].unit # callback'[d].unit
      BY DEF FoundAreTheirOwn
    <2>3. CASE d = c
      BY <1>6, <1>9, <2>1, <2>2, <2>3 DEF OfList
    <2>4. CASE d # c
      <3>1. callback'[d] = callback[d]
        BY <1>6, <2>4
      <3>2. ~OfList(callback[d].unit)'
        BY <1>9, <3>1 DEF IInv, FoundAreTheirOwn, OfList
      <3>3. \A e \in Callbacks \ {d} : callback'[e].unit # callback'[d].unit
        BY <1>6, <2>1, <3>1 DEF IInv, FoundAreTheirOwn
      <3> QED
        BY <3>2, <3>3
    <2> QED
      BY <2>3, <2>4
  <1>17. ChainsAreCounted'
    <2> SUFFICES ASSUME central = "up"
                 PROVE  /\ \A r \in Units :
                             /\ Chains(r)' <= 1
                             /\ r = host' \/ r \in {ves'[w] : w \in VEs} => Chains(r)' = 1
                             /\ OfList(r)' \/ r \in {callback'[d].unit : d \in Callbacks}
                                  => Chains(r)' = 0
                        /\ \A d \in Callbacks : callback'[d].pc # "idle" => callback'[d].pushes
      BY <1>9 DEF ChainsAreCounted
    <2>1. ASSUME NEW r \in Units
          PROVE  /\ Chains(r)' <= 1
                 /\ r = host' \/ r \in {ves'[w] : w \in VEs} => Chains(r)' = 1
                 /\ OfList(r)' \/ r \in {callback'[d].unit : d \in Callbacks} => Chains(r)' = 0
      <3>1. /\ Chains(r)' = Chains(r) /\ (OfList(r)' <=> OfList(r))
            /\ host' = host /\ ves' = ves
        BY <1>9 DEF Chains, OfList
      <3>2. /\ Chains(r) <= 1
            /\ r = host \/ r \in {ves[w] : w \in VEs} => Chains(r) = 1
            /\ OfList(r) \/ r \in {callback[d].unit : d \in Callbacks} => Chains(r) = 0
        BY DEF IInv, ChainsAreCounted
      <3>3. r \in {callback'[d].unit : d \in Callbacks}
              => r = u \/ r \in {callback[d].unit : d \in Callbacks}
        BY <1>6
      <3>4. Chains(u) = 0
        BY <1>3, OwnedHas DEF Chains
      <3> QED
        BY <3>1, <3>2, <3>3, <3>4
    <2>2. \A d \in Callbacks : callback'[d].pc # "idle" => callback'[d].pushes
      BY <1>1, <1>6 DEF IInv, ChainsAreCounted
    <2> QED
      BY <2>1, <2>2
  <1> QED
    BY <1>10, <1>12, <1>13, <1>14, <1>15, <1>16, <1>17 DEF IInv

\* A callback that drops what it holds, and perhaps what the Server holds, adds no pointer.
LEMMA ReturnsDropping ==
    ASSUME IInv, NEW c \in Callbacks, Returns(c), Destroy(unit),
           host' \in {NoUnit, host}, \A v \in VEs : ves'[v] \in {NoUnit, ves[v]},
           UNCHANGED <<central, usageJobs, job>>, CountIsCurrent',
           unit' \in [Units -> UnitTypes] /\ row' \in [VEs -> UnitOrNone]
             /\ callback' \in [Callbacks -> CallbackTypes] => TypeOK'
    PROVE  IInv'
  <1>1. unit \in [Units -> UnitTypes]
    BY DEF IInv, TypeOK
  <1>2. /\ row' \in [VEs -> UnitOrNone] /\ unit' \in [Units -> UnitTypes] /\ RowsLive'
        /\ \A u \in Units : u \in Owned' => unit'[u].ve = unit[u].ve
    BY <1>1, DestroyIs
  <1>3. /\ callback' \in [Callbacks -> CallbackTypes] /\ CallbacksHold'
        /\ central = "up" => \A d \in Callbacks : callback'[d].pc # "idle" => callback'[d].pushes
        /\ \A d \in Callbacks :
             /\ callback'[d].unit \in {NoUnit, callback[d].unit}
             /\ callback'[d].unit # NoUnit => callback'[d].ve = callback[d].ve
    BY ReturnsIs
  <1>4. TypeOK' /\ JobHolds'
    BY <1>2, <1>3 DEF IInv, JobHolds
  <1>5. \A u \in Units : Chains(u)' = Chains(u) /\ (OfList(u)' => OfList(u))
    BY DEF Chains, OfList
  <1>6. UnitsHaveTheirVe' /\ FoundAreTheirOwn' /\ ChainsAreCounted'
    <2>1. \A v \in VEs : job'.listed[v] \in {NoUnit, job.listed[v]}
      OBVIOUS
    <2> QED
      BY <1>2, <1>3, <1>4, <1>5, <2>1, PointersStay
  <1> QED
    BY <1>2, <1>3, <1>4, <1>6 DEF IInv

\* or the lookup has no answer.
LEMMA PullGivesUpStep == ASSUME IInv, NEW c \in Callbacks, PullGivesUp(c) PROVE IInv'
  <1>1. /\ Returns(c) /\ Destroy(unit) /\ missed' \subseteq VEs
        /\ UNCHANGED <<dispatcher, central, active, host, count, ves, queue, job, unanswered>>
    BY DEF PullGivesUp, IInv, TypeOK
  <1>2. UNCHANGED <<usageJobs, stateJobs, links>> /\ CountIsCurrent'
    BY <1>1 DEF queue, IInv, CountIsCurrent, Listed
  <1>3. unit' \in [Units -> UnitTypes] /\ row' \in [VEs -> UnitOrNone]
          /\ callback' \in [Callbacks -> CallbackTypes] => TypeOK'
    BY <1>1, <1>2 DEF IInv, TypeOK, dispatcher
  <1> QED
    BY <1>1, <1>2, <1>3, ReturnsDropping

\* A VE that is gone leaves the map.
LEMMA EraseEventStep == ASSUME IInv, NEW c \in Callbacks, EraseEvent(c) PROVE IInv'
  <1>1. /\ Returns(c) /\ Destroy(unit) /\ ves' = [ves EXCEPT ![callback[c].ve] = NoUnit]
        /\ count' = Cardinality({v \in VEs : ves'[v] # NoUnit})
        /\ UNCHANGED <<dispatcher, central, active, host, queue, job, missed, unanswered>>
    BY DEF EraseEvent
  <1>2. ves' \in [VEs -> UnitOrNone] /\ \A v \in VEs : ves'[v] \in {NoUnit, ves[v]}
    BY <1>1 DEF IInv, TypeOK, UnitOrNone
  <1>3. count' \in 0 .. Cardinality(VEs) /\ CountIsCurrent'
    BY <1>1, CountTyped DEF CountIsCurrent, Listed
  <1>4. UNCHANGED <<usageJobs, stateJobs, links>>
    BY <1>1 DEF queue
  <1>5. unit' \in [Units -> UnitTypes] /\ row' \in [VEs -> UnitOrNone]
          /\ callback' \in [Callbacks -> CallbackTypes] => TypeOK'
    BY <1>1, <1>2, <1>3, <1>4 DEF IInv, TypeOK, dispatcher
  <1> QED
    BY <1>1, <1>2, <1>3, <1>4, <1>5, ReturnsDropping

\* What was found goes into the map, where it is known under its own VE, and gets its chain.
LEMMA PullPublishesStep == ASSUME IInv, NEW c \in Callbacks, PullPublishes(c) PROVE IInv'
  <1>1. /\ callback[c].pc = "publish" /\ Returns(c) /\ Destroy(unit)
        /\ count' = Cardinality({v \in VEs : ves'[v] # NoUnit})
        /\ UNCHANGED <<dispatcher, central, active, host, links, stateJobs, job,
                       missed, unanswered>>
    BY DEF PullPublishes
  <1>2. PICK u \in Units, v \in VEs : u = callback[c].unit /\ v = callback[c].ve
    <2>1. callback[c].unit # NoUnit /\ callback[c].ve \in VEs
      BY <1>1 DEF IInv, CallbacksHold
    <2> QED
      BY <2>1 DEF IInv, TypeOK, CallbackTypes, UnitOrNone
  <1>3. /\ ves' = [ves EXCEPT ![v] = u]
        /\ usageJobs' = [usageJobs EXCEPT ![u] =
                           usageJobs[u] + IF callback[c].pushes /\ CanPush THEN 1 ELSE 0]
    BY <1>2 DEF PullPublishes
  <1>4. u # NoUnit /\ unit[u].ve = v /\ ~OfList(u)
        /\ \A d \in Callbacks \ {c} : callback[d].unit # u
    BY <1>2, ServerAssumption DEF IInv, UnitsHaveTheirVe, FoundAreTheirOwn
  <1>5. /\ callback' \in [Callbacks -> CallbackTypes] /\ CallbacksHold'
        /\ callback'[c].unit = NoUnit /\ \A d \in Callbacks \ {c} : callback'[d] = callback[d]
        /\ central = "up" => \A d \in Callbacks : callback'[d].pc # "idle" => callback'[d].pushes
    BY <1>1, ReturnsIs
  <1>6. /\ row' \in [VEs -> UnitOrNone] /\ unit' \in [Units -> UnitTypes] /\ RowsLive'
        /\ \A r \in Units : r \in Owned' => unit'[r].ve = unit[r].ve
    <2>1. unit \in [Units -> UnitTypes]
      BY DEF IInv, TypeOK
    <2> QED
      BY <1>1, <2>1, DestroyIs
  <1>7. ves' \in [VEs -> UnitOrNone] /\ ves'[v] = u /\ \A w \in VEs \ {v} : ves'[w] = ves[w]
    BY <1>3 DEF IInv, TypeOK, UnitOrNone
  <1>8. /\ usageJobs' \in [Units -> Nat] /\ \A r \in Units \ {u} : usageJobs'[r] = usageJobs[r]
        /\ usageJobs'[u] = usageJobs[u] + IF callback[c].pushes /\ CanPush THEN 1 ELSE 0
    <2>1. usageJobs \in [Units -> Nat] /\ usageJobs[u] \in Nat /\ usageJobs[u] + 1 \in Nat
      BY DEF IInv, TypeOK
    <2> QED
      BY <1>3, <2>1
  <1>9. TypeOK'
    <2>1. count' \in 0 .. Cardinality(VEs)
      BY <1>1, CountTyped
    <2> QED
      BY <1>1, <1>5, <1>6, <1>7, <1>8, <2>1 DEF IInv, TypeOK, dispatcher
  <1>10. JobHolds' /\ CountIsCurrent'
    BY <1>1 DEF IInv, JobHolds, CountIsCurrent, Listed
  <1>11. UnitsHaveTheirVe'
    <2>1. ASSUME NEW w \in VEs, ves'[w] # NoUnit PROVE unit'[ves'[w]].ve = w
      <3>1. ves'[w] \in Owned' /\ ves'[w] \in Units
        BY <1>7, <2>1, OwnedHas DEF UnitOrNone
      <3>2. unit[ves'[w]].ve = w
        BY <1>4, <1>7, <2>1 DEF IInv, UnitsHaveTheirVe
      <3> QED
        BY <1>6, <3>1, <3>2
    <2>2. ASSUME NEW w \in VEs, job.listed[w] # NoUnit PROVE unit'[job.listed[w]].ve = w
      <3>1. job.listed[w] \in Owned' /\ job.listed[w] \in Units
        BY <1>1, <2>2, OwnedHas DEF IInv, TypeOK, JobTypes, UnitOrNone
      <3> QED
        BY <1>6, <2>2, <3>1 DEF IInv, UnitsHaveTheirVe
    <2>3. ASSUME NEW d \in Callbacks, callback'[d].unit # NoUnit
          PROVE  unit'[callback'[d].unit].ve = callback'[d].ve
      <3>1. callback'[d] = callback[d] /\ callback[d].unit \in Owned' /\ callback[d].unit \in Units
        BY <1>5, <2>3, OwnedHas DEF IInv, TypeOK, CallbackTypes, UnitOrNone
      <3> QED
        BY <1>6, <2>3, <3>1 DEF IInv, UnitsHaveTheirVe
    <2> QED
      BY <1>1, <2>1, <2>2, <2>3 DEF UnitsHaveTheirVe
  <1>12. FoundAreTheirOwn'
    <2> SUFFICES ASSUME NEW d \in Callbacks, callback'[d].unit # NoUnit
                 PROVE  /\ ~OfList(callback[d].unit)'
                        /\ \A e \in Callbacks \ {d} : callback'[e].unit # callback'[d].unit
      BY DEF FoundAreTheirOwn
    <2>1. d # c /\ callback'[d] = callback[d]
      BY <1>5
    <2>2. ~OfList(callback[d].unit)'
      BY <1>1, <2>1 DEF IInv, FoundAreTheirOwn, OfList
    <2>3. \A e \in Callbacks \ {d} : callback'[e].unit # callback'[d].unit
      BY <1>5, <2>1 DEF IInv, FoundAreTheirOwn
    <2> QED
      BY <2>2, <2>3
  <1>13. ChainsAreCounted'
    <2> SUFFICES ASSUME central = "up", NEW r \in Units
                 PROVE  /\ Chains(r)' <= 1
                        /\ r = host \/ r \in {ves'[w] : w \in VEs} => Chains(r)' = 1
                        /\ OfList(r) \/ r \in {callback'[d].unit : d \in Callbacks}
                            => Chains(r)' = 0
      BY <1>1, <1>5 DEF ChainsAreCounted, OfList
    <2>1. /\ Chains(r) <= 1
          /\ r = host \/ r \in {ves[w] : w \in VEs} => Chains(r) = 1
          /\ OfList(r) \/ r \in {callback[d].unit : d \in Callbacks} => Chains(r) = 0
          /\ callback[c].pushes
      BY <1>1 DEF IInv, ChainsAreCounted
    <2>2. CASE r = u
      <3>1. Chains(u) = 0
        BY <1>2, <2>1, <2>2
      <3>2. Chains(u)' = 1
        BY <1>1, <1>8, <2>1, <3>1 DEF Chains, CanPush, IInv, TypeOK
      <3>3. u \notin {callback'[d].unit : d \in Callbacks}
        BY <1>4, <1>5
      <3> QED
        BY <1>4, <2>2, <3>2, <3>3
    <2>3. CASE r # u
      <3>1. Chains(r)' = Chains(r)
        BY <1>1, <1>8, <2>3 DEF Chains
      <3>2. r \in {ves'[w] : w \in VEs} => r \in {ves[w] : w \in VEs}
        BY <1>7, <2>3
      <3>3. r \in {callback'[d].unit : d \in Callbacks}
            => r \in {callback[d].unit : d \in Callbacks}
        <4>1. r # NoUnit
          BY ServerAssumption
        <4> QED
          BY <1>5, <4>1
      <3> QED
        BY <2>1, <3>1, <3>2, <3>3
    <2> QED
      BY <2>2, <2>3
  <1> QED
    BY <1>5, <1>6, <1>9, <1>10, <1>11, <1>12, <1>13 DEF IInv

\* The connection is lost: the Server lets go of the host and of the VEs.
LEMMA DetachStep == ASSUME IInv, NEW c \in Callbacks, Detach(c) PROVE IInv'
  <1>1. /\ callback[c].pc = "detach" /\ active' = FALSE /\ registered' = (registered /\ ~active)
        /\ events' = (IF active THEN <<>> ELSE events)
        /\ host' = NoUnit /\ ves' = [v \in VEs |-> NoUnit]
        /\ callback' = [callback EXCEPT ![c].pc = "relink"] /\ Destroy(unit)
        /\ UNCHANGED <<exists, actual, session, changesLeft, central, count, links, stateJobs,
                       usageJobs, job, missed, unanswered>>
    BY DEF Detach, queue
  <1>2. callback[c].unit = NoUnit /\ callback[c].host = NoUnit
    BY <1>1 DEF IInv, CallbacksHold
  <1>3. /\ callback' \in [Callbacks -> CallbackTypes]
        /\ callback'[c].pc = "relink" /\ callback'[c].unit = NoUnit
        /\ callback'[c].host = NoUnit /\ callback'[c].pushes = callback[c].pushes
        /\ \A d \in Callbacks \ {c} : callback'[d] = callback[d]
    BY <1>1, <1>2 DEF IInv, TypeOK, CallbackTypes
  <1>4. /\ row' \in [VEs -> UnitOrNone] /\ unit' \in [Units -> UnitTypes] /\ RowsLive'
        /\ \A u \in Units : u \in Owned' => unit'[u].ve = unit[u].ve
    <2>1. unit \in [Units -> UnitTypes]
      BY DEF IInv, TypeOK
    <2> QED
      BY <1>1, <2>1, DestroyIs
  <1>5. TypeOK'
    <2>1. registered' \in BOOLEAN /\ events' \in Seq(EventTypes)
      BY <1>1 DEF IInv, TypeOK
    <2>2. host' \in UnitOrNone /\ ves' \in [VEs -> UnitOrNone]
      BY <1>1 DEF UnitOrNone
    <2> QED
      BY <1>1, <1>3, <1>4, <2>1, <2>2 DEF IInv, TypeOK
  <1>6. JobHolds' /\ CountIsCurrent'
    BY <1>1 DEF IInv, JobHolds, CountIsCurrent
  <1>7. CallbacksHold'
    BY <1>3 DEF IInv, CallbacksHold
  <1>8. \A d \in Callbacks : /\ callback'[d].unit \in {NoUnit, callback[d].unit}
                             /\ callback'[d].unit # NoUnit => callback'[d].ve = callback[d].ve
    BY <1>3
  <1>9. central = "up" => \A d \in Callbacks : callback'[d].pc # "idle" => callback'[d].pushes
    BY <1>1, <1>3 DEF IInv, ChainsAreCounted
  <1>10. \A u \in Units : Chains(u)' = Chains(u) /\ (OfList(u)' => OfList(u))
    BY <1>1 DEF Chains, OfList
  <1>11. \A v \in VEs : ves'[v] \in {NoUnit, ves[v]} /\ job'.listed[v] \in {NoUnit, job.listed[v]}
    BY <1>1
  <1>12. UnitsHaveTheirVe' /\ FoundAreTheirOwn' /\ ChainsAreCounted'
    BY <1>1, <1>4, <1>5, <1>8, <1>9, <1>10, <1>11, PointersStay
  <1> QED
    BY <1>4, <1>5, <1>6, <1>7, <1>12 DEF IInv

-------------------------------------------------------------------------------
(* The invariant, for any number of callback threads.                      *)

\* At first nothing is there but the dispatcher, and the Link that fini() would drop.
LEMMA InitInvariant == Init => IInv
  <1> SUFFICES ASSUME Init PROVE IInv
    OBVIOUS
  <1>1. IdleJob \in JobTypes /\ IdleCallback \in CallbackTypes /\ NewUnit(NoVE) \in UnitTypes
    BY DEF IdleJob, JobTypes, IdleCallback, CallbackTypes, NewUnit, UnitTypes, UnitOrNone, Answers
  <1>2. /\ IdleJob.pc = "idle" /\ IdleJob.unit = NoUnit
        /\ \A v \in VEs : IdleJob.listed[v] = NoUnit
        /\ IdleCallback.pc = "idle" /\ IdleCallback.unit = NoUnit /\ IdleCallback.host = NoUnit
    BY DEF IdleJob, IdleCallback
  <1>3. TypeOK
    <2>1. (CHOOSE s \in States : TRUE) \in States
      BY ServerAssumption
    <2>2. Cardinality({}) = 0 /\ Cardinality(VEs) \in Nat
      BY ServerAssumption, FS_EmptySet, FS_CardinalityType
    <2>3. /\ exists \subseteq VEs /\ actual \in [VEs -> States]
          /\ session \in {"none", "live", "lost"} /\ registered \in BOOLEAN
          /\ events \in Seq(EventTypes) /\ changesLeft \in 0 .. Changes
          /\ central \in {"up", "released", "closed"} /\ active \in BOOLEAN
      <3>1. exists \subseteq VEs /\ actual \in [VEs -> States]
        BY <2>1 DEF Init
      <3>2. events \in Seq(EventTypes) /\ changesLeft \in 0 .. Changes
        BY ServerAssumption DEF Init
      <3> QED
        BY <3>1, <3>2 DEF Init
    <2>4. /\ host \in UnitOrNone /\ count \in 0 .. Cardinality(VEs)
          /\ ves \in [VEs -> UnitOrNone] /\ row \in [VEs -> UnitOrNone]
          /\ unit \in [Units -> UnitTypes]
      BY <1>1, <2>2 DEF Init, UnitOrNone
    <2>5. /\ links \in Nat /\ stateJobs \in [Units -> Nat] /\ usageJobs \in [Units -> Nat]
          /\ job \in JobTypes /\ callback \in [Callbacks -> CallbackTypes]
          /\ missed \subseteq VEs /\ unanswered \subseteq VEs
      BY <1>1 DEF Init
    <2> QED
      BY <2>3, <2>4, <2>5 DEF TypeOK
  <1>4. JobHolds /\ CallbacksHold /\ UnitsHaveTheirVe
    BY <1>2 DEF Init, JobHolds, CallbacksHold, UnitsHaveTheirVe
  <1>5. RowsLive /\ FoundAreTheirOwn /\ CountIsCurrent
    BY <1>2 DEF Init, RowsLive, FoundAreTheirOwn, CountIsCurrent
  <1>6. ChainsAreCounted
    BY <1>2, ServerAssumption DEF Init, ChainsAreCounted, Chains, OfList
  <1> QED
    BY <1>3, <1>4, <1>5, <1>6 DEF IInv

\* A handler of a callback thread keeps the invariant.
LEMMA CalledStep == ASSUME IInv, NEW c \in Callbacks, Handle(c) \/ Called(c) PROVE IInv'
  BY HandleStep, StateEventStep, PullKnownStep, PullUnknownStep, PullFindsStep,
     PullGivesUpStep, PullPublishesStep, EraseEventStep, DetachStep, RelinkStep DEF Called

\* A job of the scheduler thread keeps it.
LEMMA JobStep ==
    ASSUME IInv, LinkFails \/ LinkLists \/ Continues \/ \E u \in Units : Begins(u)
    PROVE  IInv'
  <1>1. CASE LinkFails \/ LinkLists
    BY <1>1, LinkFailsStep, LinkListsStep
  <1>2. CASE Continues
    <2>1. CASE Attach
      BY <2>1, UnattachedStep, AttachedStep DEF Attach
    <2> QED
      BY <1>2, <2>1, AttachChecksStep, StatePutsStep, UsageReschedulesStep DEF Continues
  <1>3. ASSUME NEW u \in Units, Begins(u) PROVE IInv'
    BY <1>3, SnatchEndsStep, StateAsksStep, UsageAsksStep DEF Begins
  <1> QED
    BY <1>1, <1>2, <1>3

\* Every step keeps it.
LEMMA NextStep == IInv /\ [Next]_vars => IInv'
  <1> SUFFICES ASSUME IInv, [Next]_vars PROVE IInv'
    OBVIOUS
  <1>1. CASE Dispatcher
    BY <1>1, DispatcherStep
  <1>2. CASE LinkFails \/ LinkLists \/ Continues \/ \E u \in Units : Begins(u)
    BY <1>2, JobStep
  <1>3. CASE \E c \in Callbacks : Handle(c) \/ Called(c)
    BY <1>3, CalledStep
  <1>4. CASE FiniReleases \/ FiniStops
    BY <1>4, FiniStep
  <1>5. CASE UNCHANGED vars
    <2>1. /\ UNCHANGED <<dispatcher, central, active, host, tables, queue, job, callback,
                         missed, unanswered>>
          /\ UNCHANGED usageJobs
      BY <1>5 DEF vars, queue
    <2>2. TypeOK'
      BY <2>1 DEF IInv, TypeOK, dispatcher, tables, queue
    <2> QED
      BY <2>1, <2>2, AgentStays
  <1> QED
    BY <1>1, <1>2, <1>3, <1>4, <1>5 DEF Next, Finished

\* IInv holds in every state that the agent can reach.
THEOREM ServerInvariant == Spec => []IInv
  BY InitInvariant, NextStep, PTL DEF Spec

\* What the variables hold is of the types that the code gives them: the count is never
\* more than the VEs, and an event that is not of the connection names its VE.
THEOREM ServerTypeCorrect == Spec => []TypeOK
  <1>1. IInv => TypeOK
    BY DEF IInv
  <1> QED
    BY <1>1, ServerInvariant, PTL

\* LOCAL_VES is the size of the map while there is a host, for any number of callback
\* threads: Server::attach, pull() and erase() put it under g_big.
THEOREM ServerCountIsCurrent == Spec => []CountIsCurrent
  <1>1. IInv => CountIsCurrent
    BY DEF IInv
  <1> QED
    BY <1>1, ServerInvariant, PTL

\* A unit of the map is of the VE that it is mapped from, and the row of a VE is of a unit
\* that lives: VE::Unit::~Unit leaves no row behind, for any number of callback threads.
THEOREM ServerRowsAreOfLivingUnits == Spec => []RowsAreOfLivingUnits
  <1>1. IInv => RowsAreOfLivingUnits
    BY DEF IInv, UnitsHaveTheirVe, RowsLive, RowsAreOfLivingUnits
  <1> QED
    BY <1>1, ServerInvariant, PTL

\* Until fini() each unit of the host and of the map has exactly one chain of pullUsage
\* jobs, and no unit has more, for any number of callback threads.
THEOREM ServerOneChainPerUnit == Spec => []OneChainPerUnit
  <1>1. IInv => OneChainPerUnit
    BY DEF IInv, ChainsAreCounted, OneChainPerUnit
  <1> QED
    BY <1>1, ServerInvariant, PTL

-------------------------------------------------------------------------------
(* With one callback thread.                                               *)

\* What is on its way to a host: by the scheduler thread, and by a callback thread.
Attaching == IF job.pc \in {"check", "attach"} THEN 1 ELSE 0
Relinking(c) == IF callback[c].pc = "relink" THEN 1 ELSE 0

\* The one thread is counted.
LEMMA LinkingIs ==
    ASSUME NEW c, Callbacks = {c}
    PROVE  /\ Linking = links + Attaching + Relinking(c)
           /\ Linking' = links' + Attaching' + Relinking(c)'
  <1> DEFINE S == {d \in Callbacks : callback[d].pc = "relink"}
             T == {d \in Callbacks : callback'[d].pc = "relink"}
  <1>1. Cardinality({c}) = 1 /\ Cardinality({}) = 0
    BY FS_Singleton, FS_EmptySet
  <1>2. /\ callback[c].pc = "relink" => S = {c}
        /\ callback[c].pc # "relink" => S = {}
        /\ callback'[c].pc = "relink" => T = {c}
        /\ callback'[c].pc # "relink" => T = {}
    OBVIOUS
  <1>3. Linking = links + Attaching + Cardinality(S)
    BY DEF Linking, Attaching
  <1>4. Linking' = links' + Attaching' + Cardinality(T)
    BY DEF Linking, Attaching
  <1> HIDE DEF S, T
  <1>5. Cardinality(S) = Relinking(c) /\ Cardinality(T) = Relinking(c)'
    BY <1>1, <1>2 DEF Relinking
  <1> QED
    BY <1>3, <1>4, <1>5

\* The states of a callback thread in which it counts on a host.
NeedsHost(c) ==
    callback[c].pc \in {"state", "pull", "lookup", "publish", "erase", "detach"}

\* Nothing is lost by a step that leaves the host, makes no one need it who did not, and
\* keeps the number of the Links.
LEMMA OneThreadStays ==
    ASSUME NEW c, Callbacks = {c}, OneThreadInv, UNCHANGED host, active' => active,
           NeedsHost(c)' => host # NoUnit,
           central' = "up" => /\ central = "up"
                              /\ links' + Attaching' + Relinking(c)'
                                   = links + Attaching + Relinking(c)
    PROVE  OneThreadInv'
  <1>1. NoNullHost' /\ HostStays'
    BY DEF OneThreadInv, NoNullHost, HostStays, NeedsHost
  <1>2. OneLink'
    BY LinkingIs DEF OneThreadInv, OneLink, Linked
  <1> QED
    BY <1>1, <1>2 DEF OneThreadInv

\* attach() finds a host only when fini() has been, and else gives one.
LEMMA AttachOneThread ==
    ASSUME NEW c, Callbacks = {c}, IInv, OneThreadInv, Attach
    PROVE  OneThreadInv'
  <1>1. /\ job.pc = "attach" /\ job'.pc = "idle" /\ UNCHANGED <<central, links, callback>>
    BY DEF Attach, IdleJob
  <1>2. Attaching = 1 /\ Attaching' = 0 /\ Relinking(c)' = Relinking(c)
    BY <1>1 DEF Attaching, Relinking
  <1>3. links \in Nat /\ Relinking(c) \in {0, 1}
    BY DEF IInv, TypeOK, Relinking
  <1>4. CASE Unattached
    <2>1. host # NoUnit /\ UNCHANGED <<host, active>>
      BY <1>4 DEF Unattached
    <2>2. central # "up"
      BY <1>2, <1>3, <2>1, LinkingIs DEF OneThreadInv, OneLink, Linked
    <2> QED
      BY <1>1, <2>1, <2>2, OneThreadStays
  <1>5. CASE Attached
    <2>1. host = NoUnit /\ host' # NoUnit
      BY <1>1, <1>5 DEF Attached, IInv, JobHolds
    <2>2. NoNullHost' /\ HostStays'
      BY <2>1 DEF NoNullHost, HostStays
    <2>3. OneLink'
      BY <1>1, <1>2, <1>3, <2>1, LinkingIs DEF OneThreadInv, OneLink, Linked
    <2> QED
      BY <2>2, <2>3 DEF OneThreadInv
  <1> QED
    BY <1>4, <1>5 DEF Attach

\* detach() is called while there is a host, and puts a Link in its place.
LEMMA DetachOneThread ==
    ASSUME NEW c, Callbacks = {c}, IInv, OneThreadInv, Detach(c)
    PROVE  OneThreadInv'
  <1>1. /\ callback[c].pc = "detach" /\ callback'[c].pc = "relink" /\ active' = FALSE
        /\ host' = NoUnit /\ UNCHANGED <<central, links, job>>
    BY DEF Detach, queue, IInv, TypeOK, CallbackTypes
  <1>2. host # NoUnit
    BY <1>1 DEF OneThreadInv, HostStays
  <1>3. Attaching' = Attaching /\ Relinking(c) = 0 /\ Relinking(c)' = 1
    BY <1>1 DEF Attaching, Relinking
  <1>4. links \in Nat /\ Attaching \in {0, 1}
    BY DEF IInv, TypeOK, Attaching
  <1>5. NoNullHost' /\ HostStays'
    BY <1>1 DEF NoNullHost, HostStays
  <1>6. OneLink'
    BY <1>1, <1>2, <1>3, <1>4, LinkingIs DEF OneThreadInv, OneLink, Linked
  <1> QED
    BY <1>5, <1>6 DEF OneThreadInv

\* The other handlers leave the host to itself.
LEMMA CalledOneThread ==
    ASSUME NEW c, Callbacks = {c}, IInv, OneThreadInv, Handle(c) \/ Called(c)
    PROVE  OneThreadInv'
  <1> USE DEF IInv, TypeOK
  <1>1. CASE Detach(c)
    BY <1>1, DetachOneThread
  <1>2. CASE Handle(c)
    <2>1. /\ callback[c].pc = "idle" /\ UNCHANGED <<host, active, central, links, job>>
          /\ Head(events) \in EventTypes
      BY <1>2 DEF Handle, tables, queue
    <2>2. \/ callback' = callback
          \/ active /\ callback'[c].pc = Head(events).pc
      BY <1>2 DEF Handle, IdleCallback
    <2>3. callback'[c].pc # "relink"
      BY <2>1, <2>2 DEF EventTypes
    <2>4. NeedsHost(c)' => host # NoUnit
      BY <2>1, <2>2 DEF NeedsHost, OneThreadInv, NoNullHost
    <2>5. Attaching' = Attaching /\ Relinking(c)' = Relinking(c)
      BY <2>1, <2>3 DEF Attaching, Relinking
    <2> QED
      BY <2>1, <2>4, <2>5, OneThreadStays
  <1>3. CASE Relink(c)
    <2>1. /\ callback[c].pc = "relink" /\ callback'[c].pc = "idle"
          /\ links' = links + (IF CanSchedule THEN 1 ELSE 0)
          /\ UNCHANGED <<host, active, central, job>>
      BY <1>3 DEF Relink, Returns, IdleCallback
    <2>2. Attaching' = Attaching /\ Relinking(c) = 1 /\ Relinking(c)' = 0 /\ ~NeedsHost(c)'
      BY <2>1 DEF Attaching, Relinking, NeedsHost
    <2>3. links \in Nat /\ Attaching \in {0, 1}
      BY DEF Attaching
    <2> QED
      BY <2>1, <2>2, <2>3, OneThreadStays DEF CanSchedule
  <1>4. ASSUME callback[c].pc \in {"state", "pull", "lookup", "publish", "erase"},
               UNCHANGED <<host, active, central, links, job>>,
               callback'[c].pc \in {"idle", "lookup", "publish"}
        PROVE  OneThreadInv'
    <2>1. host # NoUnit
      BY <1>4 DEF OneThreadInv, HostStays
    <2>2. Attaching' = Attaching /\ Relinking(c) = 0 /\ Relinking(c)' = 0
      BY <1>4 DEF Attaching, Relinking
    <2> QED
      BY <1>4, <2>1, <2>2, OneThreadStays
  <1>5. ASSUME Returns(c) PROVE callback'[c].pc = "idle"
    BY <1>5 DEF Returns, IdleCallback
  <1>6. CASE StateEvent(c) \/ PullKnown(c)
    BY <1>4, <1>5, <1>6 DEF StateEvent, PullKnown, queue
  <1>7. CASE PullUnknown(c)
    <2>1. /\ callback[c].pc = "pull" /\ UNCHANGED <<host, active, central, links, job>>
      BY <1>7 DEF PullUnknown, queue
    <2>2. callback'[c].pc \in {"idle", "lookup"}
      BY <1>5, <1>7 DEF PullUnknown, CallbackTypes
    <2> QED
      BY <1>4, <2>1, <2>2
  <1>8. CASE PullFinds(c)
    <2>1. /\ callback[c].pc = "lookup" /\ UNCHANGED <<host, active, central, links, job>>
      BY <1>8 DEF PullFinds, queue
    <2>2. callback'[c].pc = "publish"
      BY <1>8 DEF PullFinds, CallbackTypes
    <2> QED
      BY <1>4, <2>1, <2>2
  <1>9. CASE PullGivesUp(c)
    BY <1>4, <1>5, <1>9 DEF PullGivesUp, queue
  <1>10. CASE PullPublishes(c)
    BY <1>4, <1>5, <1>10 DEF PullPublishes
  <1>11. CASE EraseEvent(c)
    BY <1>4, <1>5, <1>11 DEF EraseEvent, queue
  <1> QED
    BY <1>1, <1>2, <1>3, <1>6, <1>7, <1>8, <1>9, <1>10, <1>11 DEF Called

\* A job that is no attach() leaves the host to itself.
LEMMA JobOneThread ==
    ASSUME NEW c, Callbacks = {c}, IInv, OneThreadInv,
           LinkFails \/ LinkLists \/ Continues \/ \E u \in Units : Begins(u)
    PROVE  OneThreadInv'
  <1>1. links \in Nat /\ Relinking(c) \in {0, 1}
    BY DEF IInv, TypeOK, Relinking
  <1>2. NeedsHost(c) => host # NoUnit
    BY DEF OneThreadInv, HostStays, NeedsHost
  <1>3. ASSUME UNCHANGED <<host, active, central, callback, links>>, Attaching' = Attaching
        PROVE  OneThreadInv'
    BY <1>1, <1>2, <1>3, OneThreadStays DEF Relinking, NeedsHost
  <1>4. CASE Attach
    BY <1>4, AttachOneThread
  <1>5. CASE LinkFails
    <2>1. /\ UNCHANGED <<host, active, central, callback, job>>
          /\ central = "up" => links' = links
      BY <1>5 DEF LinkFails, CanSchedule
    <2> QED
      BY <1>1, <1>2, <2>1, OneThreadStays DEF Attaching, Relinking, NeedsHost
  <1>6. CASE LinkLists
    <2>1. /\ job.pc = "idle" /\ job'.pc = "check" /\ links' = links - 1
          /\ UNCHANGED <<host, active, central, callback>>
      BY <1>6 DEF LinkLists, IdleJob
    <2>2. Attaching = 0 /\ Attaching' = 1
      BY <2>1 DEF Attaching
    <2> QED
      BY <1>1, <1>2, <2>1, <2>2, OneThreadStays DEF Relinking, NeedsHost
  <1>7. CASE AttachChecks
    <2>1. /\ job.pc = "check" /\ UNCHANGED <<host, active, central, callback, links>>
      BY <1>7 DEF AttachChecks, queue
    <2>2. central = "up" => Attaching' = Attaching
      BY <1>7, <2>1 DEF AttachChecks, CanSchedule, Attaching, IInv, TypeOK, JobTypes
    <2> QED
      BY <1>1, <1>2, <2>1, <2>2, OneThreadStays DEF Relinking, NeedsHost
  <1>8. CASE StatePuts
    <2>1. /\ job.pc = "state" /\ job'.pc = "idle"
          /\ UNCHANGED <<host, active, central, callback, links>>
      BY <1>8 DEF StatePuts, IdleJob, queue
    <2> QED
      BY <1>3, <2>1 DEF Attaching
  <1>9. CASE UsageReschedules
    <2>1. /\ job.pc = "usage" /\ job'.pc = "idle"
          /\ UNCHANGED <<host, active, central, callback, links>>
      BY <1>9 DEF UsageReschedules, IdleJob
    <2> QED
      BY <1>3, <2>1 DEF Attaching
  <1>10. ASSUME NEW u \in Units, Begins(u) PROVE OneThreadInv'
    <2>1. /\ job.pc = "idle" /\ job'.pc \in {"idle", "state", "usage"}
          /\ UNCHANGED <<host, active, central, callback, links>>
      BY <1>10 DEF Begins, SnatchEnds, StateAsks, UsageAsks, IdleJob
    <2> QED
      BY <1>3, <2>1 DEF Attaching
  <1> QED
    BY <1>4, <1>5, <1>6, <1>7, <1>8, <1>9, <1>10 DEF Continues

\* Every step keeps what one callback thread gives.
LEMMA OneThreadStep ==
    ASSUME NEW c, Callbacks = {c}
    PROVE  IInv /\ OneThreadInv /\ [Next]_vars => OneThreadInv'
  <1> SUFFICES ASSUME IInv, OneThreadInv, [Next]_vars PROVE OneThreadInv'
    OBVIOUS
  <1>1. ASSUME UNCHANGED <<host, links, job, callback>>, active' => active,
               central' = "up" => central = "up"
        PROVE  OneThreadInv'
    BY <1>1, OneThreadStays DEF Attaching, Relinking, NeedsHost, OneThreadInv, HostStays
  <1>2. CASE Dispatcher
    BY <1>1, <1>2, DispatcherStep
  <1>3. CASE LinkFails \/ LinkLists \/ Continues \/ \E u \in Units : Begins(u)
    BY <1>3, JobOneThread
  <1>4. CASE \E d \in Callbacks : Handle(d) \/ Called(d)
    BY <1>4, CalledOneThread
  <1>5. CASE FiniReleases
    BY <1>1, <1>5 DEF FiniReleases, queue
  <1>6. CASE FiniStops
    BY <1>6, OneThreadStays DEF FiniStops, NeedsHost, OneThreadInv, HostStays
  <1>7. CASE UNCHANGED vars
    BY <1>1, <1>7 DEF vars, queue
  <1> QED
    BY <1>2, <1>3, <1>4, <1>5, <1>6, <1>7 DEF Next, Finished

\* The Link of the start is the one on its way.
LEMMA InitOneThread == ASSUME NEW c, Callbacks = {c} PROVE Init => OneThreadInv
  <1> SUFFICES ASSUME Init PROVE OneThreadInv
    OBVIOUS
  <1>1. callback[c].pc = "idle" /\ job.pc = "idle" /\ links = 1 /\ host = NoUnit /\ active = FALSE
    BY DEF Init, IdleCallback, IdleJob
  <1>2. OneLink
    BY <1>1, LinkingIs DEF OneLink, Linked, Attaching, Relinking
  <1> QED
    BY <1>1, <1>2 DEF OneThreadInv, NoNullHost, HostStays

\* With one callback thread, OneThreadInv holds in every state that the agent can reach.
THEOREM ServerOneThread == ASSUME NEW c, Callbacks = {c} PROVE Spec => []OneThreadInv
  <1>1. Init => OneThreadInv
    BY InitOneThread
  <1>2. IInv /\ OneThreadInv /\ [Next]_vars => OneThreadInv'
    BY OneThreadStep
  <1> QED
    BY <1>1, <1>2, ServerInvariant, PTL DEF Spec

\* With one callback thread, pull() and erase() never end in m_host.second->ves() of a null
\* pointer, whatever detach() and attach() did since g_big was released.
THEOREM ServerNoNullHost == ASSUME NEW c, Callbacks = {c} PROVE Spec => []NoNullHost
  <1>1. OneThreadInv => NoNullHost
    BY DEF OneThreadInv
  <1> QED
    BY <1>1, ServerOneThread, PTL

\* With one callback thread, until fini() the agent is connected or has exactly one Link on
\* its way: detach() schedules the only one, and attach() never meets a host.
THEOREM ServerOneLink == ASSUME NEW c, Callbacks = {c} PROVE Spec => []OneLink
  <1>1. OneThreadInv => OneLink
    BY DEF OneThreadInv
  <1> QED
    BY <1>1, ServerOneThread, PTL

===============================================================================
