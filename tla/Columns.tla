--------------------------------- MODULE Columns --------------------------------
(***************************************************************************)
(* The columns that jobs of the scheduler thread put into the row of the   *)
(* host (host.cpp) and into that of a VE (ve.cpp): the licence, which the  *)
(* program vzlicview prints, the configuration, the node that the program  *)
(* shaman prints, and the memory.  The reports are cut on the same thread, *)
(* between two jobs; an event puts a column from a thread of the SDK.      *)
(*                                                                         *)
(* The state of a VE is in Server, its devices are in SubTables.  The      *)
(* counters of the host that are read from /proc are not here: each is put *)
(* as it is read.  The VE is a machine: a container is asked for by its ID,*)
(* which never changes.                                                    *)
(***************************************************************************)
EXTENDS Integers, Sequences, FiniteSetsExt

CONSTANTS
    Unlimited, Combined,    \* what is printed in place of a number
    Licences,               \* what vzlicview may print: see LicencesAssumption
    NoLimit,                \* Counter::NOLIMIT
    Half,                   \* the number of negative ints: half of the words
    Names, Nodes, Nothing,
    Counts,                 \* of CPUs, and of memory in use
    Changes                 \* bound on the changes of the host

ASSUME ColumnsAssumption ==
    /\ Half \in Nat \ {0} /\ NoLimit \in 1 .. Half - 1 /\ Counts \subseteq Nat /\ Changes \in Nat
    /\ Nothing \notin Names \cup Nodes

\* The limits in the order of the columns LICENSE_CTS and LICENSE_VMS, and that of both.
Keys == {"ct_total", "nr_vms", "servers_total"}

\* A line has a key, a limit and a use, as strtoul reads them; a key may be missing.
ASSUME LicencesAssumption ==
    \A l \in Licences :
        /\ DOMAIN l \subseteq Keys
        /\ \A k \in DOMAIN l :
             l[k].used \in Nat /\ l[k].limit \in {Unlimited, Combined} \cup Nat

VARIABLES
    \* the host and its programs
    licence, works, config, memory, changes,
    \* what is in the columns
    host, ve,
    \* the scheduler thread: the job, its next step, and what it has in hand
    job, step, hand,
    due,        \* how many jobs of pullState are queued
    moved,      \* how many events of the configuration are on their way
    told,       \* the uses of memory that events on their way tell
    \* what has happened
    failed,     \* a query of the last pullState has failed
    asked       \* the name that shaman was last asked for, and what it printed

world == <<licence, works, config, memory, changes>>
thread == <<job, step, hand>>
vars == <<world, host, ve, thread, due, moved, told, failed, asked>>

-------------------------------------------------------------------------------
(* The licence.                                                            *)

\* A number in a PRL_UINT32, and such a word in a column, which is an int.
Word(n) == n % (2 * Half)
AsInt(w) == IF w < Half THEN w ELSE w - 2 * Half

\* Counter::parse.
Limit(l, k) ==
    CASE k \notin DOMAIN l -> 0
      [] l[k].limit = Unlimited -> NoLimit
      [] l[k].limit = Combined -> 0
      [] OTHER -> Word(l[k].limit)

Used(l, k) == IF k \in DOMAIN l THEN AsInt(Word(l[k].used)) ELSE 0

\* a ? : b, in a column
Or(a, b) == AsInt(IF a # 0 THEN a ELSE b)

\* The columns of the limits after a run of vzlicview that printed l.
Shown(l) ==
    LET all == Limit(l, "servers_total")
        sum == Word(Limit(l, "ct_total") + Limit(l, "nr_vms"))
    IN  [cts |-> Or(all, Limit(l, "ct_total")),
         vms |-> Or(all, Limit(l, "nr_vms")),
         ves |-> Or(all, Min({sum, NoLimit}))]

Idle == [name |-> Nothing, cpus |-> 0, memory |-> 0]

Zero == [cts |-> 0, vms |-> 0, ves |-> 0]

Init ==
    /\ licence \in Licences /\ works \in BOOLEAN /\ config \in [name : Names, cpus : Counts]
    /\ memory \in Counts /\ changes = 0
    /\ host = [limits |-> Zero, ctsUsage |-> 0, vmsUsage |-> 0]
    /\ ve = [name |-> Nothing, cpus |-> 0, node |-> Nothing, memory |-> 0]
    /\ job = "none" /\ step = 1 /\ hand = Idle
    /\ due = 1 /\ moved = 0 /\ told = {}
    /\ failed = FALSE /\ asked = [name |-> Nothing, node |-> Nothing]

-------------------------------------------------------------------------------
(* The licence: License::Unit::refresh, which pullUsage of the host runs   *)
(* for each of its two queries that is answered.                           *)

\* Mutant of ResetAll: one of the columns is left.
ResetTwo == [host.limits EXCEPT !.cts = 0, !.vms = 0]

ResetAll == Zero

ResetLimits ==
    /\ job = "none"
    /\ job' = "licence"
    /\ host' = [host EXCEPT !.limits = ResetAll]
    /\ UNCHANGED <<world, ve, step, hand, due, moved, told, failed, asked>>

\* Mutant of PutLicence: the uses are left.
PutLimitsOnly == [host EXCEPT !.limits = Shown(licence)]

PutLicence ==
    [limits |-> Shown(licence),
     ctsUsage |-> Used(licence, "ct_total"), vmsUsage |-> Used(licence, "nr_vms")]

\* The program does not start, or ends with a status that is not 0, unless it works.
ReadLicence ==
    /\ job = "licence"
    /\ host' = IF works THEN PutLicence ELSE host
    /\ job' = "none"
    /\ UNCHANGED <<world, ve, step, hand, due, moved, told, failed, asked>>

-------------------------------------------------------------------------------
(* The configuration: VE::Unit::pullState.                                 *)

\* Mutant of StateSteps: shaman is asked before the name is put.
StateStepsNodeFirst == <<"forget", "node", "name", "cpus">>

\* The order of the list of queries, of which those of the state and of the type are left
\* out; Provenance is forget and node.
StateSteps == <<"name", "forget", "node", "cpus">>

\* The next step, or the end of the job.
Advance ==
    IF step = Len(StateSteps) THEN job' = "none" /\ step' = 1 /\ hand' = Idle
                              ELSE step' = step + 1 /\ UNCHANGED <<job, hand>>

\* PrlVm_RefreshConfig, which has the handle show what the dispatcher knows.
BeginState ==
    /\ job = "none" /\ due > 0
    /\ due' = due - 1
    /\ \/ /\ job' = "state" /\ failed' = FALSE
          /\ hand' = [Idle EXCEPT !.name = config.name, !.cpus = config.cpus]
       \/ failed' = TRUE /\ UNCHANGED <<job, hand>>
    /\ UNCHANGED <<world, host, ve, step, moved, told, asked>>

StateStep(x) == job = "state" /\ StateSteps[step] = x /\ Advance

\* Name::refresh and CPU::Number::refresh leave the column if the query fails.
PutName ==
    /\ StateStep("name")
    /\ \/ ve' = [ve EXCEPT !.name = hand.name] /\ UNCHANGED failed
       \/ failed' = TRUE /\ UNCHANGED ve
    /\ UNCHANGED <<world, host, due, moved, told, asked>>

PutCpus ==
    /\ StateStep("cpus")
    /\ \/ ve' = [ve EXCEPT !.cpus = hand.cpus] /\ UNCHANGED failed
       \/ failed' = TRUE /\ UNCHANGED ve
    /\ UNCHANGED <<world, host, due, moved, told, asked>>

ForgetNode ==
    /\ StateStep("forget")
    /\ ve' = [ve EXCEPT !.node = Nothing]
    /\ UNCHANGED <<world, host, due, moved, told, failed, asked>>

\* Provenance::refresh: shaman is asked for the name that is in the row, an empty one too,
\* and prints a node or none; or it is not started.
AskNode ==
    /\ StateStep("node")
    /\ \/ \E n \in Nodes \cup {Nothing} :
            /\ ve' = [ve EXCEPT !.node = n]
            /\ asked' = [name |-> ve.name, node |-> n]
       \/ UNCHANGED <<ve, asked>>
    /\ UNCHANGED <<world, host, due, moved, told, failed>>

-------------------------------------------------------------------------------
(* The memory: VE::Unit::pullUsage and the event of the guest.             *)

BeginUsage ==
    /\ job = "none"
    /\ job' = "usage" /\ hand' = [Idle EXCEPT !.memory = memory]
    /\ UNCHANGED <<world, host, ve, step, due, moved, told, failed, asked>>

\* Mutant of Usage: what is in the row stays.
UsageStays(u) == ve.memory

Usage(u) == u

\* Memory::Query::refresh; an answer has all of its numbers.
PutMemory ==
    /\ job = "usage"
    /\ ve' = [ve EXCEPT !.memory = Usage(hand.memory)]
    /\ job' = "none" /\ hand' = Idle
    /\ UNCHANGED <<world, host, step, due, moved, told, failed, asked>>

\* Memory::Event, on a thread of the SDK.
MemoryEvent(u) ==
    /\ u \in told
    /\ told' = told \ {u}
    /\ ve' = IF u = 0 THEN ve ELSE [ve EXCEPT !.memory = u]
    /\ UNCHANGED <<world, host, thread, due, moved, failed, asked>>

\* Mutant of QueueState: the job is not pushed if one is under way.
QueueUnlessBusy == IF job = "state" THEN due ELSE due + 1

QueueState == due + 1

\* Server::pull of a VE that is in the map.
ConfigEvent ==
    /\ moved > 0
    /\ moved' = moved - 1
    /\ due' = QueueState
    /\ UNCHANGED <<world, host, ve, thread, told, failed, asked>>

-------------------------------------------------------------------------------
(* The host.                                                               *)

Counted == changes < Changes /\ changes' = changes + 1

ChangeLicence ==
    /\ Counted
    /\ licence' \in Licences /\ works' \in BOOLEAN
    /\ UNCHANGED <<config, memory, host, ve, thread, due, moved, told, failed, asked>>

ChangeConfig ==
    /\ Counted
    /\ config' \in [name : Names, cpus : Counts]
    /\ moved' = moved + 1
    /\ UNCHANGED <<licence, works, memory, host, ve, thread, due, told, failed, asked>>

ChangeMemory ==
    /\ Counted
    /\ memory' \in Counts
    /\ told' = told \cup {memory'}
    /\ UNCHANGED <<licence, works, config, host, ve, thread, due, moved, failed, asked>>

Work == ReadLicence \/ PutName \/ PutCpus \/ ForgetNode \/ AskNode \/ PutMemory
Events == ConfigEvent \/ (\E u \in Counts : MemoryEvent(u))

Next ==
    \/ ResetLimits \/ BeginState \/ BeginUsage \/ Work \/ Events
    \/ ChangeLicence \/ ChangeConfig \/ ChangeMemory

\* A job that has begun goes on, and each pullState that is queued is started
\* (AcceptedJobSettles of Scheduler, with its premise: no job blocks for ever); an event
\* that is told is delivered.  A query may fail whenever it is asked: nothing obliges the
\* host or the VE to answer those of a pullUsage, or to be there.
Fairness == WF_vars(Work) /\ WF_vars(Events) /\ SF_vars(BeginState)

Spec == Init /\ [][Next]_vars /\ Fairness

-------------------------------------------------------------------------------
(* Properties.                                                             *)

Ints == -Half .. Half - 1

\* Types of the variables: a row has nothing but what a query or an event has put, and any
\* number that is printed fits the column as an int.
TypeOK ==
    /\ licence \in Licences /\ works \in BOOLEAN /\ memory \in Counts
    /\ config \in [name : Names, cpus : Counts] /\ changes \in 0 .. Changes
    /\ host \in [limits : [cts : Ints, vms : Ints, ves : Ints],
                ctsUsage : Ints, vmsUsage : Ints]
    /\ ve \in [name : Names \cup {Nothing}, cpus : Counts \cup {0},
               node : Nodes \cup {Nothing}, memory : Counts \cup {0}]
    /\ job \in {"none", "licence", "state", "usage"} /\ step \in 1 .. Len(StateSteps)
    /\ hand \in [name : Names \cup {Nothing}, cpus : Counts \cup {0},
                 memory : Counts \cup {0}]
    /\ due \in Nat /\ moved \in Nat /\ told \subseteq Counts
    /\ failed \in BOOLEAN
    /\ asked \in [name : Names \cup {Nothing}, node : Nodes \cup {Nothing}]

\* A report never shows limits of two licences, nor some of one and some that were put to
\* 0: whenever the thread may cut one, the three columns are those of one run of
\* vzlicview, or 0 since the last run has failed.
ReportsShowOneLicence ==
    job # "licence" => host.limits \in {Shown(l) : l \in Licences} \cup {Zero}

\* The node in the row is what shaman has printed for the name in the row, and not for one
\* that the VE had before; or there is none.
NodeIsOfName ==
    job # "state" => ve.node = Nothing \/ asked = [name |-> ve.name, node |-> ve.node]

\* The name and the number of CPUs are at last those of the configuration, unless a query
\* of the last pullState has failed, which nothing repeats.
ConfigSettles == <>[]~failed => <>[](ve.name = config.name /\ ve.cpus = config.cpus)

\* The limit of all VEs is at most NOLIMIT, however large those of the two kinds are and
\* whether or not their sum overflows; unless one number was printed for both kinds, which
\* is then in all three columns.
SumIsCapped ==
    \/ host.limits.ves \in 0 .. NoLimit
    \/ host.limits.ves = host.limits.cts /\ host.limits.ves = host.limits.vms

\* If a query of the host is answered again and again, and vzlicview works, its numbers of
\* use stay right in the end, and the limits are right again and again: each run puts
\* them to 0 before.
LicenceSettles ==
    <>[]works /\ []<>(job = "licence") =>
        /\ []<>(host.limits = Shown(licence))
        /\ <>[](/\ host.ctsUsage = Used(licence, "ct_total")
                /\ host.vmsUsage = Used(licence, "nr_vms"))

\* If the query of the statistics is answered again and again, the memory in use is right
\* in the end, in whichever order the thread and the events have put it.
MemorySettles == []<>(job = "usage") => <>[](ve.memory = memory)
=============================================================================
