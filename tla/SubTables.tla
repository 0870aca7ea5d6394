-------------------------------- MODULE SubTables -------------------------------
(***************************************************************************)
(* The sub-tables of one VE, of src/ve.cpp: its disks, network interfaces, *)
(* virtual CPUs and the counters of its guest.                             *)
(*                                                                         *)
(* The scheduler thread runs VE::Unit::pullUsage under g_ves: it asks for  *)
(* a sample and merges it into each table (Perspective::merge).  The       *)
(* callback thread runs Server::performance under g_big: it puts the value *)
(* of an event into the row of its device, which it makes if there is none *)
(* (Perspective::tuple).  The tables have a lock for each operation.  A    *)
(* callback thread holds g_big from the event to the put, and so does what *)
(* changes the map of VEs: one callback is as good as many.                *)
(*                                                                         *)
(* A value stands for the time at which it was read.                       *)
(***************************************************************************)
EXTENDS Integers, Sequences, FiniteSets

CONSTANTS
    Slots,      \* the ordinals that the devices of each kind may have
    Most,       \* bound of the devices that the VE has at a time
    Readings,   \* bound of the time
    Changes     \* bound of the changes of the VE

Kinds == {"disk", "network", "cpu", "counters"}

ASSUME SubTablesAssumption ==
    /\ Slots \in [Kinds -> SUBSET (Nat \ {0})] /\ Slots["counters"] = {}
    /\ Most \in Nat /\ Readings \in Nat \ {0} /\ Changes \in Nat

Devices == UNION {Slots[k] : k \in Kinds}

\* The index of the row of the VE, and of a row of a device of it.
Parent == <<0>>
Of(d) == <<0, d>>
Index == {Parent} \cup {Of(d) : d \in Devices}

VARIABLES
    \* the dispatcher
    present,    \* is the VE in the map of the Server?
    devices,    \* the devices that the VE has of each kind
    time,
    changesLeft,
    \* the agent
    number,     \* the virtual CPUs that CPU_NUMBER of the VE counts
    table,      \* the row of each index, or NoRow
    job,        \* the scheduler thread: the pullUsage that it runs
    callback    \* the callback thread: the event that it handles

host == <<present, devices, time, changesLeft>>
vars == <<host, number, table, job, callback>>

Never == 0
NoRow == [query |-> Never, in |-> FALSE]

\* The columns of a row that queries fill.  Events fill the same ones of a network
\* interface, and others of a disk and of a CPU, which are left out.
Row(q) == [query |-> q, in |-> TRUE]
Shown(k, row, at) == IF k = "network" THEN [row EXCEPT !.query = at] ELSE row

EmptyMap == [x \in {} |-> Row(Never)]

Idle == [pc |-> "idle", kind |-> "disk", at |-> Never,
         sample |-> [k \in Kinds |-> {}], counted |-> {}, map |-> EmptyMap, range |-> {}]
IdleCallback == [pc |-> "idle", kind |-> "disk", device |-> 0, at |-> Never, bound |-> FALSE]

Total(D) == Cardinality({p \in Kinds \X Devices : p[2] \in D[p[1]]})

\* A VE that is new, with its devices.
Init ==
    /\ present = TRUE
    /\ devices \in {D \in [Kinds -> SUBSET Devices] :
                      /\ \A k \in Kinds : D[k] \subseteq Slots[k]
                      /\ \A d \in D["cpu"] : d <= Cardinality(D["cpu"])
                      /\ Total(D) <= Most}
    /\ time = 1
    /\ changesLeft = Changes
    /\ number \in {{}, devices["cpu"]}
    /\ table = [k \in Kinds |-> [x \in Index |-> NoRow]]
    /\ job = Idle
    /\ callback = IdleCallback

-------------------------------------------------------------------------------
(* The host.                                                               *)

Tick ==
    /\ time < Readings
    /\ time' = time + 1
    /\ UNCHANGED <<present, devices, changesLeft, number, table, job, callback>>

Changed ==
    /\ changesLeft > 0
    /\ changesLeft' = changesLeft - 1
    /\ UNCHANGED <<time, table, job, callback>>

\* Virtual CPUs are numbered without a gap.
Attach(k, d) ==
    /\ Changed
    /\ d \in Slots[k] \ devices[k] /\ Total(devices) < Most
    /\ k = "cpu" => d = Cardinality(devices[k]) + 1
    /\ devices' = [devices EXCEPT ![k] = @ \cup {d}]
    /\ UNCHANGED <<present, number>>

Detach(k, d) ==
    /\ Changed
    /\ d \in devices[k]
    /\ k = "cpu" => d = Cardinality(devices[k])
    /\ devices' = [devices EXCEPT ![k] = @ \ {d}]
    /\ UNCHANGED <<present, number>>

\* The VE is erased from the map.  Its unit is destroyed when no thread holds it, and
\* erases the row of the VE table and none of these.
Leave ==
    /\ Changed
    /\ present
    /\ callback = IdleCallback
    /\ present' = FALSE
    /\ UNCHANGED <<devices, number>>

\* The VE is back, with a unit of its own that has asked for the state, if it could.
Return ==
    /\ Changed
    /\ ~present
    /\ present' = TRUE
    /\ number' \in {{}, devices["cpu"]}
    /\ UNCHANGED devices

-------------------------------------------------------------------------------
(* The tables.                                                             *)

\* ThreadsafeContainer::Unit::getSubset: the rows whose index equals the key, since
\* the container orders whole indices; and its mutants, the rows whose index begins
\* with the key, and none.
RangeOfNothing(k, key) == {}
RangeOfPrefix(k, key) ==
    {x \in Index : table[k][x].in /\ SubSeq(x, 1, Len(key)) = key}
RangeOf(k, key) == {x \in Index : table[k][x].in /\ x = key}

\* ThreadsafeContainer::Unit::insert: what the container has for the index stays.
Inserted(k, x, row) == IF table[k][x].in THEN table ELSE [table EXCEPT ![k][x] = row]

-------------------------------------------------------------------------------
(* The scheduler thread.                                                   *)

\* VE::Unit::pullState: CPU::Number.
PullState ==
    /\ job.pc = "idle"
    /\ present
    /\ number' = devices["cpu"]
    /\ UNCHANGED <<host, table, job, callback>>

\* VE::Unit::pullUsage asks for the statistics.
Ask ==
    /\ job.pc = "idle"
    /\ present
    /\ job' = [Idle EXCEPT !.pc = "fill", !.at = time, !.sample = devices,
                          !.counted = number]
    /\ UNCHANGED <<host, number, table, callback>>

\* The interfaces of the sample that the configuration knows by name; the rest of
\* them count as one that it has.
Interfaces(first) ==
    LET known == job.sample["network"] \cap devices["network"]
    IN  IF job.sample["network"] \subseteq known \/ devices["network"] = {}
          THEN known ELSE known \cup {first}

Without(map, x) == [y \in DOMAIN map \ {x} |-> map[y]]
Map(S, q) == [x \in {Of(d) : d \in S} |-> Row(q)]

\* Update::fill and Table::Unit::range.
Fills(map) ==
    /\ job.pc = "fill"
    /\ job' = [job EXCEPT !.pc = "merge", !.map = map, !.range = RangeOf(job.kind, Parent)]
    /\ UNCHANGED <<host, number, table, callback>>

FillDisks == job.kind = "disk" /\ Fills(Map(job.sample["disk"], job.at))
FillInterfaces(first) ==
    /\ job.kind = "network"
    /\ first \in devices["network"] \/ devices["network"] = {}
    /\ Fills(Map(Interfaces(first), job.at))
FillCpus ==
    /\ job.kind = "cpu" /\ job.sample["cpu"] # {}
    /\ Fills(Map(job.counted, Never))
\* What the guest says (module Guest), if it does: else the counters are zero.
FillCounters(q) ==
    job.kind = "counters" /\ Fills([x \in {Parent} |-> Row(q)])

NextKind ==
    job' = CASE job.kind = "disk" -> [job EXCEPT !.pc = "fill", !.kind = "network"]
             [] job.kind = "network" -> [job EXCEPT !.pc = "fill", !.kind = "cpu"]
             [] job.kind = "cpu" -> [job EXCEPT !.pc = "fill", !.kind = "counters"]
             [] job.kind = "counters" -> [Idle EXCEPT !.kind = "counters", !.at = job.at]

\* CPU::Usage::refresh returns if the sample has no CPU.
SkipCpus ==
    /\ job.pc = "fill" /\ job.kind = "cpu" /\ job.sample["cpu"] = {}
    /\ NextKind
    /\ UNCHANGED <<host, number, table, callback>>

\* Update::apply on a row of the range: it takes what was sampled, or is erased.
Apply(x) ==
    /\ job.pc = "merge"
    /\ x \in job.range
    /\ table' = [table EXCEPT ![job.kind][x] =
                   IF x \in DOMAIN job.map THEN [@ EXCEPT !.query = job.map[x].query]
                                           ELSE NoRow]
    /\ job' = [job EXCEPT !.range = @ \ {x},
                          !.map = IF job.kind = "counters" THEN @ ELSE Without(@, x)]
    /\ UNCHANGED <<host, number, callback>>

\* Update::rest: each tuple that is left is inserted.
Insert(x) ==
    /\ job.pc = "merge" /\ job.range = {}
    /\ x \in DOMAIN job.map
    /\ table' = Inserted(job.kind, x, job.map[x])
    /\ job' = [job EXCEPT !.map = Without(@, x)]
    /\ UNCHANGED <<host, number, callback>>

\* Mutant of Merged: what is left of the map is forgotten.
MergedEarly ==
    /\ job.pc = "merge" /\ job.range = {}
    /\ NextKind
    /\ UNCHANGED <<host, number, table, callback>>

Merged ==
    /\ job.pc = "merge" /\ job.range = {}
    /\ DOMAIN job.map = {}
    /\ NextKind
    /\ UNCHANGED <<host, number, table, callback>>

SchedulerThread ==
    \/ Ask
    \/ FillDisks \/ FillCpus \/ SkipCpus
    \/ \E d \in Devices : FillInterfaces(d)
    \/ \E q \in {Never, job.at} : FillCounters(q)
    \/ \E x \in Index : Apply(x) \/ Insert(x)
    \/ Merged

-------------------------------------------------------------------------------
(* The callback thread.                                                    *)

\* Server::performance finds the unit, and holds it.
Event(k, d) ==
    /\ callback.pc = "idle"
    /\ present
    /\ k # "counters" /\ d \in devices[k]
    /\ callback' = [IdleCallback EXCEPT !.pc = "find", !.kind = k, !.device = d, !.at = time]
    /\ UNCHANGED <<host, number, table, job>>

\* The configuration has the disk or the interface no more.
Undetermined ==
    /\ callback.pc = "find"
    /\ callback.kind # "cpu" /\ callback.device \notin devices[callback.kind]
    /\ callback' = IdleCallback
    /\ UNCHANGED <<host, number, table, job>>

\* Perspective::tuple: Table::Unit::find.
Find ==
    /\ callback.pc = "find"
    /\ callback.kind = "cpu" \/ callback.device \in devices[callback.kind]
    /\ callback' =
         IF table[callback.kind][Of(callback.device)].in
           THEN [callback EXCEPT !.pc = "put", !.bound = TRUE]
           ELSE [callback EXCEPT !.pc = "insert"]
    /\ UNCHANGED <<host, number, table, job>>

\* Table::Unit::insert.  If a merge was quicker, the tuple is in no table, and
\* insert() does not tell.
InsertTuple ==
    /\ callback.pc = "insert"
    /\ LET k == callback.kind
           x == Of(callback.device)
       IN  /\ table' = Inserted(k, x, Row(Never))
           /\ callback' = [callback EXCEPT !.pc = "put", !.bound = ~table[k][x].in]
    /\ UNCHANGED <<host, number, job>>

\* The value of the event.
Put ==
    /\ callback.pc = "put"
    /\ LET k == callback.kind
           x == Of(callback.device)
       IN  table' = IF callback.bound
                      THEN [table EXCEPT ![k][x] = Shown(k, table[k][x], callback.at)]
                      ELSE table
    /\ callback' = IdleCallback
    /\ UNCHANGED <<host, number, job>>

CallbackThread == Undetermined \/ Find \/ InsertTuple \/ Put

-------------------------------------------------------------------------------

Next ==
    \/ Tick \/ Leave \/ Return
    \/ \E k \in Kinds \ {"counters"}, d \in Devices :
         Attach(k, d) \/ Detach(k, d) \/ Event(k, d)
    \/ PullState
    \/ SchedulerThread
    \/ CallbackThread

Spec == Init /\ [][Next]_vars

-------------------------------------------------------------------------------
(* Properties.                                                             *)

Times == 0 .. time
Rows == [query : Times, in : BOOLEAN]
Maps == UNION {[D -> Rows] : D \in SUBSET Index}

JobTypes ==
    [pc : {"idle", "fill", "merge"}, kind : Kinds, at : Times,
     sample : [Kinds -> SUBSET Devices], counted : SUBSET Devices,
     map : Maps, range : SUBSET Index]

CallbackTypes ==
    [pc : {"idle", "find", "insert", "put"}, kind : Kinds, device : Devices \cup {0},
     at : Times, bound : BOOLEAN]

\* Types of the variables: no reading is of a time to come, and no row of a device that
\* the VE cannot have.
TypeOK ==
    /\ present \in BOOLEAN
    /\ devices \in [Kinds -> SUBSET Devices]
    /\ time \in 1 .. Readings
    /\ changesLeft \in 0 .. Changes
    /\ number \subseteq Devices
    /\ table \in [Kinds -> [Index -> Rows]]
    /\ job \in JobTypes
    /\ callback \in CallbackTypes

\* What a pull has sampled is in the tables when the next table is turned to, whatever
\* the events of the same devices have inserted meanwhile: each disk, and each CPU
\* that CPU_NUMBER counted (Update::rest and Table::Unit::insert).
SampledHaveRows ==
    job.pc # "idle" =>
        /\ job.kind # "disk" =>
             \A d \in job.sample["disk"] : table["disk"][Of(d)].in
        /\ job.kind = "counters" /\ job.sample["cpu"] # {} =>
             \A d \in job.counted : table["cpu"][Of(d)].in

\* Between two pulls the counters are those of the last one, or what a silent guest
\* leaves, and never those of an earlier pull.
CountersFollow ==
    job.pc = "idle" /\ job.kind = "counters" =>
        table["counters"][Parent].query \in {Never, job.at}

\* The row that an event is about to write is in the table that managers read: no
\* merge takes away the row that Perspective::tuple has found or inserted.
EventsWriteLiveRows ==
    callback.pc = "put" /\ callback.bound =>
        table[callback.kind][Of(callback.device)].in

\* The MIB says of rmond_drsVeDiskUsage "The VE storage used space"
\* (mibs/PARALLELS-RMOND-DRS-SMI.txt:497): once a pull has turned from the disks to the
\* next table, it is what the pull sampled.
UsageIsCurrent ==
    job.pc # "idle" /\ job.kind # "disk" =>
        \A d \in job.sample["disk"] : table["disk"][Of(d)].query = job.at

===============================================================================
