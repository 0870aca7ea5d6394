--------------------------------- MODULE Sinks ---------------------------------
(***************************************************************************)
(* The life of a subscription: src/sink.cpp, and the SET protocol of the   *)
(* writable tables in src/handler.h and src/table.h.                       *)
(*                                                                         *)
(* Two threads meet here.  snmpd's main thread takes one SET PDU after     *)
(* another through RESERVE1, ACTION and COMMIT (or FREE), a varbind at a   *)
(* time.  The scheduler thread runs the Inform job of each subscription    *)
(* and the Reaper; it may run any queued job next, because module          *)
(* Scheduler orders jobs by time and time is left out here.                *)
(*                                                                         *)
(* A row is an incarnation: a key that is destroyed and created again gets *)
(* a new one, as the code makes a new tuple.  Table::Unit::erase is two    *)
(* steps, the lookup and the removal with the delete, and the other thread *)
(* may come in between.  When freed memory is used or a null row is        *)
(* dereferenced the model stops (fault): nothing is claimed of what        *)
(* follows.                                                                *)
(***************************************************************************)
EXTENDS Integers, Sequences, FiniteSets

CONSTANTS
    Keys,       \* the subscribers, an address and a port each
    Metrics,    \* the metrics a subscriber may filter by
    Rows,       \* the row incarnations; bounds how many are ever created
    NoRow,
    Pdus,       \* the SET PDUs that managers send: sequences of varbinds
    Sets,       \* bound of the number of PDUs
    Word        \* the width of an int, in bits

\* The index of a row of the sink table is a key, that of a row of the metric
\* table a key followed by a metric.
SinkIndex == {<<k>> : k \in Keys}
MetricIndex == Keys \X Metrics
Index == SinkIndex \cup MetricIndex

Modulus == 2 ^ Word
Words == 0 .. Modulus - 1

\* A PDU is about one of the two tables: each has a handler and a list of requests
\* of its own.  That 2 ^ Word is a number is for the prover, which does not know it.
ASSUME SinksAssumption ==
    /\ Keys # {} /\ Rows # {} /\ IsFiniteSet(Rows) /\ NoRow \notin Rows
    /\ Sets \in Nat /\ Word \in Nat \ {0} /\ Modulus \in Nat \ {0}
    /\ \A p \in Pdus :
         /\ Len(p) \in Nat \ {0} /\ DOMAIN p = 1 .. Len(p)
         /\ \E I \in {SinkIndex, MetricIndex} : \A i \in DOMAIN p : p[i].index \in I
         /\ \A i \in DOMAIN p : p[i].col = "acks" => p[i].value \in Words

VARIABLES
    table,      \* the two containers: the row of each index, or NoRow
    row,        \* the rows: index, ROW_STATUS, ACKS, and whether it was deleted
    main,       \* the main thread: the PDU in progress and the phase it is in
    thread,     \* the scheduler thread: the job that it runs
    jobs,       \* the Inform jobs queued for each row
    tracked,    \* Reaper::m_sinkList
    setsLeft,
    fault       \* undefined behaviour has happened

vars == <<table, row, main, thread, jobs, tracked, setsLeft, fault>>

\* A word, and the int that has the same bits.
Signed(w) == IF w >= Modulus \div 2 THEN w - Modulus ELSE w

IdleMain ==
    [phase |-> "idle", pdu |-> <<>>, pos |-> 1, errors |-> {}, cached |-> <<>>,
     backup |-> <<>>, held |-> NoRow, step |-> "start", ptr |-> NoRow]

IdleThread ==
    [pc |-> "idle", row |-> NoRow, acks |-> 0, todo |-> {}, keep |-> {},
     ptr |-> NoRow]

Unused == {r \in Rows : row[r].status = "unused"}

\* The tuple of a row lives as long as the row, or as Actor::commit holds it.
Alive(r) == ~row[r].freed \/ main.held = r

\* A row of the sink table whose creation was committed.
Committed(r) ==
    /\ row[r].index \in SinkIndex
    /\ table[row[r].index] = r
    /\ row[r].status \in {"active", "notReady"}

Init ==
    /\ table = [x \in Index |-> NoRow]
    /\ row = [r \in Rows |-> [index |-> CHOOSE x \in SinkIndex : TRUE,
                              status |-> "unused", acks |-> 0, freed |-> FALSE]]
    /\ main = IdleMain
    /\ thread = IdleThread
    /\ jobs = [r \in Rows |-> 0]
    /\ tracked = {}
    /\ setsLeft = Sets
    /\ fault = FALSE

-------------------------------------------------------------------------------
(* The main thread: one SET PDU.                                           *)

Varbind == main.pdu[main.pos]

\* Request::Unit::row: the row that the container helper found for the request
\* before RESERVE1, or else the one the table has now.
TheRow ==
    IF main.cached[main.pos] # NoRow THEN main.cached[main.pos]
                                     ELSE table[Varbind.index]

Dangling == TheRow # NoRow /\ row[TheRow].freed

\* Table::Unit::handle goes on to the next varbind, and snmpd to the next phase.
After(m) ==
    IF m.pos < Len(m.pdu) THEN [m EXCEPT !.pos = @ + 1, !.step = "start"]
    ELSE IF m.phase = "reserve1"
      THEN [m EXCEPT !.pos = 1,
                     !.phase = IF m.errors = {} THEN "action" ELSE "free"]
    ELSE IF m.phase = "action" THEN [m EXCEPT !.pos = 1, !.phase = "commit"]
    ELSE IdleMain

\* snmpd receives a SET; netsnmp's container_table helper looks every row up.
Receive(p) ==
    /\ main.phase = "idle"
    /\ setsLeft > 0
    /\ Cardinality(Unused) >= Len(p)
    /\ setsLeft' = setsLeft - 1
    /\ main' = [IdleMain EXCEPT
                  !.phase = "reserve1", !.pdu = p,
                  !.cached = [i \in DOMAIN p |-> table[p[i].index]],
                  !.backup = [i \in DOMAIN p |-> -1]]
    /\ UNCHANGED <<table, row, thread, jobs, tracked, fault>>

Creates(v) == v.col = "status" /\ v.value \in {"createAndGo", "createAndWait"}

\* Request::Unit::reserve for a new row.
ReserveInsert ==
    /\ main.phase = "reserve1"
    /\ Creates(Varbind)
    /\ TheRow = NoRow
    /\ LET n == CHOOSE r \in Rows : r \in Unused
       IN  /\ row' = [row EXCEPT ![n] = [index |-> Varbind.index, acks |-> 0,
                                         status |-> "notInService", freed |-> FALSE]]
           /\ table' = [table EXCEPT ![Varbind.index] = n]
    /\ main' = After(main)
    /\ UNCHANGED <<thread, jobs, tracked, setsLeft, fault>>

\* ... for the status of an existing row, or a value other than the three.
ReserveStatus ==
    /\ main.phase = "reserve1"
    /\ Varbind.col = "status"
    /\ ~Dangling
    /\ Creates(Varbind) => TheRow # NoRow
    /\ LET refused == \/ Creates(Varbind) /\ row[TheRow].status # "active"
                      \/ ~Creates(Varbind) /\ Varbind.value # "destroy"
       IN  main' = After([main EXCEPT !.errors = IF refused THEN @ \cup {main.pos} ELSE @])
    /\ UNCHANGED <<table, row, thread, jobs, tracked, setsLeft, fault>>

\* ... for another column: the value of an existing row is saved.
ReserveColumn ==
    /\ main.phase = "reserve1"
    /\ Varbind.col = "acks"
    /\ ~Dangling
    /\ main' = After([main EXCEPT !.backup[main.pos] =
                        IF TheRow = NoRow THEN -1 ELSE row[TheRow].acks])
    /\ UNCHANGED <<table, row, thread, jobs, tracked, setsLeft, fault>>

\* Request::Unit::put: no row, no effect, and no error either.
Put ==
    /\ main.phase = "action"
    /\ ~Dangling
    /\ IF Varbind.col = "acks" /\ TheRow # NoRow
         THEN row' = [row EXCEPT ![TheRow].acks = Varbind.value]
         ELSE UNCHANGED row
    /\ main' = After(main)
    /\ UNCHANGED <<table, thread, jobs, tracked, setsLeft, fault>>

\* Mutant of Inserted: any row that is there counts.
InsertedOrNot == Varbind.col = "status" /\ TheRow # NoRow

\* Request::Unit::inserted
Inserted ==
    /\ Varbind.col = "status"
    /\ TheRow # NoRow
    /\ row[TheRow].status = "notInService"

\* Table::Unit::handle stops at the varbind that failed; Request::Unit::rollback
\* puts the saved value back, or looks the inserted row up to erase it.
Rollback ==
    /\ main.phase = "free"
    /\ main.step = "start"
    /\ main.pos \in main.errors \/ ~Dangling
    /\ IF main.pos \in main.errors
         THEN main' = IdleMain /\ UNCHANGED row
         ELSE /\ row' = IF TheRow # NoRow /\ main.backup[main.pos] # -1
                          THEN [row EXCEPT ![TheRow].acks = main.backup[main.pos]]
                          ELSE row
              /\ main' = IF Inserted
                           THEN [main EXCEPT !.step = "delete", !.ptr = TheRow]
                           ELSE After(main)
    /\ UNCHANGED <<table, thread, jobs, tracked, setsLeft, fault>>

\* Mutant of Remove: the row is deleted and stays in the container.
RemoveNothing(ptr) ==
    /\ row' = [row EXCEPT ![ptr].freed = TRUE]
    /\ fault' = row[ptr].freed
    /\ UNCHANGED table

\* The second half of Table::Unit::erase: what the index has is removed, and the
\* row that was looked up is deleted; deleting it twice is undefined.
Remove(ptr) ==
    /\ table' = [table EXCEPT ![row[ptr].index] = NoRow]
    /\ row' = [row EXCEPT ![ptr].freed = TRUE]
    /\ fault' = row[ptr].freed

Delete ==
    /\ main.phase \in {"free", "commit"}
    /\ main.step = "delete"
    /\ Remove(main.ptr)
    /\ main' = After([main EXCEPT !.ptr = NoRow, !.held = NoRow])
    /\ UNCHANGED <<thread, jobs, tracked, setsLeft>>

\* Actor::commit of the sink table; the metric table has no actor, and the other
\* columns have nothing to commit.
CommitBegins ==
    /\ main.phase = "commit"
    /\ main.step = "start"
    /\ Varbind.col = "status" => ~Dangling
    /\ main' = IF Varbind.col # "status" THEN After(main)
               ELSE IF Inserted /\ Varbind.index \in SinkIndex
                 THEN [main EXCEPT !.step = "track", !.held = TheRow]
               ELSE [main EXCEPT !.step = "status"]
    /\ UNCHANGED <<table, row, thread, jobs, tracked, setsLeft, fault>>

\* The Reaper holds m_lock from the copy of its list to the swap.
ReaperHoldsLock == thread.pc \in {"reap", "find", "delete"}

\* Mutant of Track: without the lock.
TrackUnlocked ==
    /\ main.phase = "commit"
    /\ main.step = "track"
    /\ tracked' = tracked \cup {main.held}
    /\ main' = [main EXCEPT !.step = "schedule"]
    /\ UNCHANGED <<table, row, thread, jobs, setsLeft, fault>>

\* Reaper::track
Track ==
    /\ main.phase = "commit"
    /\ main.step = "track"
    /\ ~ReaperHoldsLock
    /\ tracked' = tracked \cup {main.held}
    /\ main' = [main EXCEPT !.step = "schedule"]
    /\ UNCHANGED <<table, row, thread, jobs, setsLeft, fault>>

\* Central::schedule(PERIOD, Inform)
Schedule ==
    /\ main.phase = "commit"
    /\ main.step = "schedule"
    /\ jobs' = [jobs EXCEPT ![main.held] = @ + 1]
    /\ main' = [main EXCEPT !.step = "status"]
    /\ UNCHANGED <<table, row, thread, tracked, setsLeft, fault>>

\* Request::Unit::commit
CommitStatus ==
    /\ main.phase = "commit"
    /\ main.step = "status"
    /\ ~Dangling
    /\ IF Creates(Varbind)
         THEN /\ TheRow # NoRow
              /\ row' = [row EXCEPT ![TheRow].status =
                   IF Varbind.value = "createAndGo" THEN "active" ELSE "notReady"]
              /\ main' = After([main EXCEPT !.held = NoRow])
         ELSE /\ UNCHANGED row
              /\ main' = IF TheRow = NoRow
                           THEN After([main EXCEPT !.held = NoRow])
                           ELSE [main EXCEPT !.step = "delete", !.ptr = TheRow]
    /\ UNCHANGED <<table, thread, jobs, tracked, setsLeft, fault>>

\* The row was erased under the PDU: the pointer that the helper cached is
\* dangling, or commit() puts the status of a null row.
MainFaults ==
    /\ \/ main.phase \in {"reserve1", "action"} /\ Dangling
       \/ /\ main.phase = "free" /\ main.step = "start" /\ main.pos \notin main.errors
          /\ Dangling
       \/ /\ main.phase = "commit" /\ main.step \in {"start", "status"}
          /\ Varbind.col = "status" /\ Dangling
       \/ /\ main.phase = "commit" /\ main.step = "status"
          /\ Creates(Varbind) /\ TheRow = NoRow
    /\ fault' = TRUE
    /\ UNCHANGED <<table, row, main, thread, jobs, tracked, setsLeft>>

MainThread ==
    \/ ReserveInsert \/ ReserveStatus \/ ReserveColumn \/ Put \/ Rollback \/ Delete
    \/ CommitBegins \/ Track \/ Schedule \/ CommitStatus \/ MainFaults

-------------------------------------------------------------------------------
(* The scheduler thread: Inform and Reaper jobs.                           *)

\* Inform::operator(): the tuple is gone or spent, and the chain of jobs ends.
InformEnds(r) ==
    /\ thread.pc = "idle"
    /\ jobs[r] > 0
    /\ Alive(r) => row[r].acks = 0
    /\ jobs' = [jobs EXCEPT ![r] = @ - 1]
    /\ UNCHANGED <<table, row, main, thread, tracked, setsLeft, fault>>

\* Mutant of InformSends: the job holds the tuple.
InformSendsAnyway(r) ==
    /\ thread.pc = "idle"
    /\ jobs[r] > 0
    /\ row[r].acks # 0
    /\ jobs' = [jobs EXCEPT ![r] = @ - 1]
    /\ thread' = [IdleThread EXCEPT !.pc = "inform", !.row = r, !.acks = row[r].acks]
    /\ UNCHANGED <<table, row, main, tracked, setsLeft, fault>>

\* ... or ACKS is read, and a report is collected and sent.
InformSends(r) ==
    /\ thread.pc = "idle"
    /\ jobs[r] > 0
    /\ Alive(r)
    /\ row[r].acks # 0
    /\ jobs' = [jobs EXCEPT ![r] = @ - 1]
    /\ thread' = [IdleThread EXCEPT !.pc = "inform", !.row = r, !.acks = row[r].acks]
    /\ UNCHANGED <<table, row, main, tracked, setsLeft, fault>>

\* put<ACKS>(a - 1), and the job is scheduled again.
InformReschedules ==
    /\ thread.pc = "inform"
    /\ row' = [row EXCEPT ![thread.row].acks = (thread.acks - 1) % Modulus]
    /\ jobs' = [jobs EXCEPT ![thread.row] = @ + 1]
    /\ thread' = IdleThread
    /\ UNCHANGED <<table, main, tracked, setsLeft, fault>>

\* Reaper::do_ has nothing to do if the list is empty.
ReapsNothing == thread.pc = "idle" /\ tracked = {} /\ UNCHANGED vars

ReapBegins ==
    /\ thread.pc = "idle"
    /\ tracked # {}
    /\ thread' = [IdleThread EXCEPT !.pc = "reap", !.todo = tracked]
    /\ UNCHANGED <<table, row, main, jobs, tracked, setsLeft, fault>>

\* Table::Unit::range: the rows that compare equal to an index.  The comparison of
\* the containers is of whole indices.
RangeOf(x) == {table[y] : y \in {z \in MetricIndex : z = x}} \ {NoRow}

\* Mutant of ReapChecks: a spent row is kept.
ReapKeeps(r) ==
    /\ thread.pc = "reap"
    /\ r \in thread.todo
    /\ thread' = [thread EXCEPT !.todo = @ \ {r},
                                !.keep = IF Alive(r) THEN @ \cup {r} ELSE @]
    /\ UNCHANGED <<table, row, main, jobs, tracked, setsLeft, fault>>

\* The next row of the list: forgotten if its tuple is gone, kept if reports are
\* left; else it is to be erased, after the metric rows in the range of its index.
\* No metric row is in the range of a sink, so that one step does for them.
ReapChecks(r) ==
    /\ thread.pc = "reap"
    /\ r \in thread.todo
    /\ LET spent == Alive(r) /\ ~(0 < Signed(row[r].acks))
           filters == IF spent THEN RangeOf(row[r].index) ELSE {}
       IN  /\ thread' = [thread EXCEPT
                           !.todo = @ \ {r},
                           !.keep = IF Alive(r) /\ ~spent THEN @ \cup {r} ELSE @,
                           !.pc = IF spent THEN "find" ELSE @,
                           !.row = IF spent THEN r ELSE NoRow]
           /\ table' = [x \in Index |-> IF table[x] \in filters THEN NoRow ELSE table[x]]
           /\ row' = [f \in Rows |-> [row[f] EXCEPT !.freed = @ \/ f \in filters]]
    /\ UNCHANGED <<main, jobs, tracked, setsLeft, fault>>

\* Table::Unit::erase looks the row up by its index, and finds the row that the
\* index has now.
ReapFinds ==
    /\ thread.pc = "find"
    /\ LET ptr == table[row[thread.row].index]
       IN  thread' = [thread EXCEPT !.ptr = ptr,
                                    !.pc = IF ptr # NoRow THEN "delete" ELSE "reap"]
    /\ UNCHANGED <<table, row, main, jobs, tracked, setsLeft, fault>>

ReapDeletes ==
    /\ thread.pc = "delete"
    /\ Remove(thread.ptr)
    /\ thread' = [thread EXCEPT !.ptr = NoRow, !.pc = "reap"]
    /\ UNCHANGED <<main, jobs, tracked, setsLeft>>

\* m_sinkList.swap(z); the job is scheduled again.
ReapEnds ==
    /\ thread.pc = "reap"
    /\ thread.todo = {}
    /\ tracked' = thread.keep
    /\ thread' = IdleThread
    /\ UNCHANGED <<table, row, main, jobs, setsLeft, fault>>

Halted == fault /\ UNCHANGED vars

SchedulerThread ==
    \/ \E r \in Rows :
         InformEnds(r) \/ InformSends(r) \/ ReapChecks(r)
    \/ InformReschedules \/ ReapsNothing \/ ReapBegins \/ ReapFinds \/ ReapDeletes \/ ReapEnds

Next ==
    \/ ~fault /\ \E p \in Pdus : Receive(p)
    \/ ~fault /\ MainThread
    \/ ~fault /\ SchedulerThread
    \/ Halted

Spec == Init /\ [][Next]_vars

(***************************************************************************)
(* Both threads run whenever they can.  Every queued job gets its turn,    *)
(* though others run in between: the scheduler takes the earliest, and     *)
(* time passes (AcceptedJobSettles of Scheduler, with its premise: no job  *)
(* blocks for ever).  No manager is obliged to send anything.              *)
(***************************************************************************)
Fairness ==
    /\ WF_vars(~fault /\ MainThread)
    /\ WF_vars(~fault /\ (InformReschedules \/ ReapFinds \/ ReapDeletes \/ ReapEnds))
    /\ WF_vars(~fault /\ \E r \in Rows : ReapChecks(r))
    /\ SF_vars(~fault /\ ReapBegins)
    /\ \A r \in Rows : SF_vars(~fault /\ (InformEnds(r) \/ InformSends(r)))

FairSpec == Spec /\ Fairness

-------------------------------------------------------------------------------
(* Properties.                                                             *)

RowOrNone == Rows \cup {NoRow}

RowTypes ==
    [index : Index, acks : Words, freed : BOOLEAN,
     status : {"unused", "notInService", "active", "notReady"}]
MainTypes ==
    [phase : {"idle", "reserve1", "free", "action", "commit"}, pdu : Pdus \cup {<<>>},
     pos : Nat, errors : SUBSET Nat, cached : Seq(RowOrNone), backup : Seq(Words \cup {-1}),
     held : RowOrNone, step : {"start", "track", "schedule", "status", "delete"},
     ptr : RowOrNone]
ThreadTypes ==
    [pc : {"idle", "inform", "reap", "find", "delete"}, row : RowOrNone, acks : Words,
     todo : SUBSET Rows, keep : SUBSET Rows, ptr : RowOrNone]

\* The thread that handles a SET has a PDU, a varbind of it, and what it keeps for each.
MainTyped(m) ==
    /\ m \in MainTypes
    /\ m.phase = "idle" => m = IdleMain
    /\ m.phase # "idle" =>
         /\ m.pdu \in Pdus /\ m.pos \in DOMAIN m.pdu
         /\ DOMAIN m.cached = DOMAIN m.pdu /\ DOMAIN m.backup = DOMAIN m.pdu

\* Types of the variables.
TypeOK ==
    /\ table \in [Index -> RowOrNone]
    /\ row \in [Rows -> RowTypes]
    /\ MainTyped(main)
    /\ thread \in ThreadTypes
    /\ jobs \in [Rows -> Nat]
    /\ tracked \subseteq Rows
    /\ setsLeft \in 0 .. Sets
    /\ fault \in BOOLEAN

Chains(r) == jobs[r] + IF thread.pc = "inform" /\ thread.row = r THEN 1 ELSE 0

\* However often a manager repeats createAndGo, and whatever else it sets, a row
\* has at most one chain of Inform jobs: Request::Unit::inserted() recognises the
\* one commit that follows the insertion.  Two chains would report at twice the
\* rate and race for ACKS.
OneChainPerRow == \A r \in Rows : Chains(r) <= 1

\* Every committed row is in the Reaper's list, also when it was committed while
\* the Reaper was walking the list it is about to replace: no subscription
\* outlives its reports for want of being tracked.
CommittedRowsAreTracked == \A r \in Rows : Committed(r) => r \in tracked

\* A container never holds a deleted row, though erase() looks up and removes in
\* two steps and both threads erase: what it holds under an index is live and has
\* that index.
ContainersHoldLiveRows ==
    ~fault => \A x \in Index : table[x] # NoRow =>
        /\ ~row[table[x]].freed
        /\ row[table[x]].index = x

\* The rows as subscriptions.  A row is gone when nobody holds its tuple: commit() may do
\* so while the Reaper deletes the row, and does not survive it.  It is started when its
\* job is pushed, a little before it is active.
Stage(r) ==
    IF row[r].status = "unused" \/ row[r].index \in MetricIndex THEN "none"
    ELSE IF ~Alive(r) THEN "gone"
    ELSE IF row[r].status # "notInService" THEN "started"
    ELSE IF main.held = r /\ main.step \in {"status", "delete"} THEN "started"
    ELSE "made"

\* The reports that a row has left, and the report under way.
Left(r) == IF Stage(r) \in {"none", "gone"} THEN 0 ELSE row[r].acks
UnderWay == IF thread.pc = "inform" THEN [of |-> thread.row, left |-> thread.acks]
                                    ELSE [of |-> NoRow, left |-> 0]

Subscriptions == INSTANCE Subscription WITH
    stage <- [r \in Rows |-> Stage(r)], left <- [r \in Rows |-> Left(r)],
    chain <- jobs, report <- UnderWay

\* However the two threads interleave, and whichever varbinds of a SET fail, each row is
\* what a manager may take it for: reports begin once, with the commit of its creation,
\* and not for a row that was refused; each takes one from the count that it has read;
\* and none begins when the row is gone, even if its job was queued before.
ImplementsSubscription == Subscriptions!Spec

\* A subscription whose reports are spent is removed in the end, unless a manager
\* renews it or destroys it first.
SpentRowsAreReaped ==
    \A r \in Rows : (Committed(r) /\ row[r].acks = 0)
                       ~> (~Committed(r) \/ row[r].acks # 0 \/ fault)

-------------------------------------------------------------------------------
(* What the MIB says of the sink table, and the code does not keep.        *)

\* A SET that failed has inserted no row.
FailedSetLeavesNoRow ==
    main.phase = "idle" =>
        \A x \in Index : table[x] # NoRow => row[table[x]].status # "notInService"

===============================================================================
