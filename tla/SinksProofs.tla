------------------------------ MODULE SinksProofs ------------------------------
(***************************************************************************)
(* Proofs about Sinks: for any keys and metrics, any SET PDUs of any       *)
(* length, any number of rows and of PDUs, and any width of an int.  IInv  *)
(* is the inductive invariant.  One lemma for each action shows that it is *)
(* preserved, and one that the step is one of Subscription.                *)
(***************************************************************************)
EXTENDS Sinks, FiniteSetTheorems, TLAPS

\* A row that a container has was inserted there, and is not deleted.
RowsHaveTheirIndex ==
    \A x \in Index : table[x] # NoRow =>
        /\ ~row[table[x]].freed
        /\ row[table[x]].index = x
        /\ row[table[x]].status # "unused"

\* A row that is not deleted is in its container, but for what a fault has left.
LiveRowsAreThere ==
    ~fault => \A r \in Rows :
        row[r].status # "unused" /\ ~row[r].freed => table[row[r].index] = r

\* A row that the PDU found before it began was inserted under the index of its varbind.
CachedHaveTheirIndex ==
    main.phase # "idle" =>
        \A i \in DOMAIN main.pdu : main.cached[i] # NoRow =>
            /\ row[main.cached[i]].index = main.pdu[i].index
            /\ row[main.cached[i]].status # "unused"

\* There are rows for the rest of the PDU.
RowsAreLeft == main.phase = "reserve1" => Cardinality(Unused) > Len(main.pdu) - main.pos

\* Actor::commit holds the row that the varbind has inserted, and goes on to erase that
\* one; if the Reaper was quicker there is none.
HeldIsInserted ==
    /\ main.step # "start" => main.phase \in {"free", "commit"}
    /\ main.step \in {"track", "schedule"} => main.held # NoRow
    /\ main.step = "delete" => main.ptr # NoRow /\ row[main.ptr].status # "unused"
    /\ main.held # NoRow =>
         /\ main.phase = "commit" /\ main.step # "start"
         /\ Varbind.index \in SinkIndex
         /\ row[main.held].index = Varbind.index
         /\ row[main.held].status = "notInService"
         /\ TheRow = main.held \/ (TheRow = NoRow /\ (row[main.held].freed \/ fault))
         /\ main.step = "delete" => main.ptr = main.held

\* What Request::Unit::commit makes active was tracked and scheduled just now, or earlier.
OthersWereInserted ==
    main.phase = "commit" /\ main.step = "status" /\ main.held = NoRow
      /\ Varbind.index \in SinkIndex /\ TheRow # NoRow
    => row[TheRow].status \in {"active", "notReady"}

\* The pointers and the list of the scheduler thread.
ThreadHasRows ==
    /\ thread.pc = "inform" => thread.row # NoRow /\ thread.acks # 0
    /\ thread.pc = "find" => thread.row # NoRow
    /\ thread.pc = "delete" => thread.ptr # NoRow /\ row[thread.ptr].status # "unused"
    /\ \A r \in tracked \cup thread.todo \cup thread.keep \cup ({thread.row} \ {NoRow}) :
         row[r].index \in SinkIndex /\ row[r].status # "unused"

\* A row has at most one chain, and none before it was started.
ChainsAreStarted ==
    \A r \in Rows :
        /\ Chains(r) <= 1
        /\ Chains(r) > 0 => Stage(r) \in {"started", "gone"}

\* A row that is committed, or is about to be: its tracking is behind it.
Known(r) ==
    /\ row[r].index \in SinkIndex
    /\ table[row[r].index] = r
    /\ \/ row[r].status \in {"active", "notReady"}
       \/ main.held = r /\ main.step \in {"schedule", "status"}

\* The Reaper does not forget such a row unless it is about to erase it.
KnownAreTracked ==
    \A r \in Rows : Known(r) =>
        /\ r \in tracked
        /\ ReaperHoldsLock => \/ r \in thread.todo \cup thread.keep
                              \/ thread.pc = "find" /\ r = thread.row
                              \/ thread.pc = "delete" /\ r = thread.ptr

IInv ==
    /\ TypeOK /\ RowsHaveTheirIndex /\ LiveRowsAreThere /\ CachedHaveTheirIndex
    /\ RowsAreLeft /\ HeldIsInserted /\ OthersWereInserted /\ ThreadHasRows
    /\ ChainsAreStarted /\ KnownAreTracked

\* A step of Subscription, or none.
Refines == [Subscriptions!Next]_Subscriptions!subscriptionVars

-------------------------------------------------------------------------------
(* The PDU.                                                                *)

\* A varbind has an index of one of the tables, and its value is a word if it is ACKS.
LEMMA VarbindTyped ==
    ASSUME MainTyped(main), main.phase # "idle"
    PROVE  /\ Varbind.index \in Index
           /\ Varbind.col = "acks" => Varbind.value \in Words
           /\ main.pos \in 1 .. Len(main.pdu)
           /\ main.cached[main.pos] \in RowOrNone
           /\ main.backup[main.pos] \in Words \cup {-1}
  <1>1. main.pdu \in Pdus /\ main.pos \in DOMAIN main.pdu
    BY DEF MainTyped
  <1>2. DOMAIN main.pdu = 1 .. Len(main.pdu) /\ Len(main.pdu) \in Nat \ {0}
    BY <1>1, SinksAssumption
  <1>3. /\ \A i \in DOMAIN main.pdu : main.pdu[i].index \in Index
        /\ \A i \in DOMAIN main.pdu : main.pdu[i].col = "acks" => main.pdu[i].value \in Words
    BY <1>1, SinksAssumption DEF Index
  <1>4. main.cached \in Seq(RowOrNone) /\ main.backup \in Seq(Words \cup {-1})
    BY DEF MainTyped, MainTypes
  <1>5. main.pos \in DOMAIN main.cached /\ main.pos \in DOMAIN main.backup
    BY <1>1 DEF MainTyped
  <1>6. main.cached[main.pos] \in RowOrNone /\ main.backup[main.pos] \in Words \cup {-1}
    BY <1>4, <1>5
  <1> QED
    BY <1>1, <1>2, <1>3, <1>6 DEF Varbind

\* The next varbind, or phase, or the end of the PDU.
LEMMA AfterIs ==
    ASSUME NEW m, MainTyped(m), m.phase # "idle", m.held = NoRow,
           m.phase \in {"reserve1", "action"} => m.step = "start"
    PROVE  /\ MainTyped(After(m))
           /\ After(m).held = NoRow /\ After(m).step = "start"
           /\ After(m).phase # "idle" => After(m).pdu = m.pdu /\ After(m).cached = m.cached
           /\ After(m).phase = "reserve1" => m.phase = "reserve1" /\ After(m).pos = m.pos + 1
  <1>1. m.pdu \in Pdus /\ m.pos \in DOMAIN m.pdu
    BY DEF MainTyped
  <1>2. DOMAIN m.pdu = 1 .. Len(m.pdu) /\ Len(m.pdu) \in Nat \ {0}
    BY <1>1, SinksAssumption
  <1>3. m.pos \in Nat /\ m.pos + 1 \in Nat
    BY DEF MainTyped, MainTypes
  <1>4. MainTyped(IdleMain)
    BY DEF IdleMain, MainTyped, MainTypes, RowOrNone
  <1>5. CASE m.pos < Len(m.pdu)
    <2> DEFINE a == [m EXCEPT !.pos = m.pos + 1, !.step = "start"]
    <2>1. a \in MainTypes
      BY <1>3 DEF MainTyped, MainTypes
    <2>2. /\ a.phase = m.phase /\ a.pdu = m.pdu /\ a.pos = m.pos + 1 /\ a.step = "start"
          /\ a.held = m.held /\ a.cached = m.cached /\ a.backup = m.backup
      BY DEF MainTyped, MainTypes
    <2>3. a.pos \in DOMAIN m.pdu
      BY <1>2, <1>3, <1>5, <2>2
    <2>4. After(m) = a
      BY <1>5 DEF After
    <2> QED
      BY <2>1, <2>2, <2>3, <2>4 DEF MainTyped
  <1>6. CASE ~(m.pos < Len(m.pdu)) /\ m.phase \in {"reserve1", "action"}
    <2>1. PICK q \in {"action", "commit", "free"} :
            After(m) = [m EXCEPT !.pos = 1, !.phase = q]
      BY <1>6 DEF After
    <2> DEFINE a == [m EXCEPT !.pos = 1, !.phase = q]
    <2>2. a \in MainTypes
      BY DEF MainTyped, MainTypes
    <2>3. /\ a.phase = q /\ a.pdu = m.pdu /\ a.pos = 1 /\ a.step = "start"
          /\ a.held = m.held /\ a.cached = m.cached /\ a.backup = m.backup
      BY <1>6 DEF MainTyped, MainTypes
    <2>4. a.pos \in DOMAIN m.pdu
      BY <1>2, <2>3
    <2> QED
      BY <2>1, <2>2, <2>3, <2>4 DEF MainTyped
  <1>7. CASE ~(m.pos < Len(m.pdu)) /\ m.phase \notin {"reserve1", "action"}
    BY <1>4, <1>7 DEF After, IdleMain
  <1> QED
    BY <1>5, <1>6, <1>7

-------------------------------------------------------------------------------
(* The rows.                                                               *)

\* The row of a varbind was inserted under its index.
LEMMA TheRowTyped ==
    ASSUME IInv, main.phase # "idle"
    PROVE  /\ TheRow \in RowOrNone
           /\ TheRow # NoRow => /\ TheRow \in Rows
                               /\ row[TheRow].index = Varbind.index
                               /\ row[TheRow].status # "unused"
  <1>1. MainTyped(main) /\ table \in [Index -> RowOrNone]
    BY DEF IInv, TypeOK
  <1>2. main.pos \in DOMAIN main.pdu
    BY <1>1 DEF MainTyped
  <1> QED
    BY <1>1, <1>2, VarbindTyped
    DEF TheRow, IInv, RowsHaveTheirIndex, CachedHaveTheirIndex, RowOrNone, Varbind

\* The rows keep all but their ACKS.
SameRows ==
    /\ row' \in [Rows -> RowTypes]
    /\ \A r \in Rows : /\ row'[r].index = row[r].index
                       /\ row'[r].status = row[r].status
                       /\ row'[r].freed = row[r].freed

\* A used row keeps its index and is used for ever.
UsedRowsStay ==
    /\ row' \in [Rows -> RowTypes]
    /\ \A r \in Rows : row[r].status # "unused" => /\ row'[r].index = row[r].index
                                                  /\ row'[r].status # "unused"

\* The main thread goes on to what follows a varbind: what the invariant says of it holds
\* of that, if it holds no row.
LEMMA MainGoesOn ==
    ASSUME IInv, UsedRowsStay, NEW m, MainTyped(m), main' = After(m),
           m.phase # "idle", m.phase = main.phase, m.pdu = main.pdu, m.pos = main.pos,
           m.cached = main.cached, m.held = NoRow,
           m.phase \in {"reserve1", "action"} => m.step = "start",
           main.phase = "reserve1" => Cardinality(Unused)' > Len(main.pdu) - (main.pos + 1)
    PROVE  /\ MainTyped(main)' /\ main'.held = NoRow /\ main'.step = "start"
           /\ CachedHaveTheirIndex' /\ RowsAreLeft' /\ HeldIsInserted' /\ OthersWereInserted'
  <1>1. /\ MainTyped(main') /\ main'.held = NoRow /\ main'.step = "start"
        /\ main'.phase # "idle" => main'.pdu = main.pdu /\ main'.cached = main.cached
        /\ main'.phase = "reserve1" => main.phase = "reserve1" /\ main'.pos = main.pos + 1
    BY AfterIs
  <1>2. CachedHaveTheirIndex'
    <2> SUFFICES ASSUME main'.phase # "idle", NEW i \in DOMAIN main.pdu, main.cached[i] # NoRow
                 PROVE  /\ row'[main.cached[i]].index = main.pdu[i].index
                        /\ row'[main.cached[i]].status # "unused"
      BY <1>1 DEF CachedHaveTheirIndex
    <2>1. main.cached[i] \in Rows
      BY DEF IInv, TypeOK, MainTyped, MainTypes, RowOrNone
    <2> QED
      BY <2>1 DEF IInv, CachedHaveTheirIndex, UsedRowsStay
  <1>3. RowsAreLeft'
    BY <1>1 DEF RowsAreLeft
  <1>4. HeldIsInserted' /\ OthersWereInserted'
    BY <1>1 DEF HeldIsInserted, OthersWereInserted
  <1> QED
    BY <1>1, <1>2, <1>3, <1>4

-------------------------------------------------------------------------------
(* Subscriptions.                                                          *)

\* Nothing has happened to the subscriptions.
LEMMA NothingHappens ==
    ASSUME \A r \in Rows : Stage(r)' = Stage(r) /\ Left(r)' = Left(r),
           UNCHANGED jobs, UnderWay' = UnderWay
    PROVE  Refines
  BY DEF Refines, Subscriptions!subscriptionVars

\* One of them was made.
LEMMA OneIsMade ==
    ASSUME NEW n \in Rows, Stage(n) = "none", Stage(n)' = "made", Left(n)' = Left(n),
           \A r \in Rows \ {n} : Stage(r)' = Stage(r) /\ Left(r)' = Left(r),
           UNCHANGED jobs, UnderWay' = UnderWay
    PROVE  Refines
  BY DEF Refines, Subscriptions!Next, Subscriptions!Make

\* It has another number of reports left.
LEMMA OneIsSet ==
    ASSUME NEW n \in Rows, Stage(n) \in {"made", "started"}, Left(n)' \in Words,
           \A r \in Rows : Stage(r)' = Stage(r),
           \A r \in Rows \ {n} : Left(r)' = Left(r),
           UNCHANGED jobs, UnderWay' = UnderWay
    PROVE  Refines
  BY DEF Refines, Subscriptions!Next, Subscriptions!Set, Words

\* Its first report is due.
LEMMA OneIsStarted ==
    ASSUME NEW n \in Rows, Stage(n) = "made", Stage(n)' = "started", jobs[n] = 0,
           \A r \in Rows \ {n} : Stage(r)' = Stage(r),
           \A r \in Rows : Left(r)' = Left(r),
           jobs' = [jobs EXCEPT ![n] = 1], UnderWay' = UnderWay
    PROVE  Refines
  BY DEF Refines, Subscriptions!Next, Subscriptions!Start

\* It is gone, with the reports that it had left.
LEMMA OneIsRemoved ==
    ASSUME NEW n \in Rows, Stage(n) \in {"made", "started"}, Stage(n)' = "gone",
           \A r \in Rows \ {n} : Stage(r)' = Stage(r) /\ Left(r)' = Left(r),
           UNCHANGED jobs, UnderWay' = UnderWay
    PROVE  Refines
  BY DEF Refines, Subscriptions!Next, Subscriptions!Remove, Left

\* Where no chain begins or ends, each is still one of a subscription that was started.
LEMMA ChainsStay ==
    ASSUME IInv, UNCHANGED <<jobs, thread>>,
           \A r \in Rows : Stage(r) \in {"started", "gone"} => Stage(r)' \in {"started", "gone"}
    PROVE  ChainsAreStarted'
  BY DEF IInv, ChainsAreStarted, Chains

\* The pointers of the scheduler thread are as good as they were.
LEMMA ThreadStays ==
    ASSUME IInv, UNCHANGED <<thread, tracked>>, UsedRowsStay
    PROVE  ThreadHasRows'
  BY DEF IInv, TypeOK, ThreadTypes, RowOrNone, ThreadHasRows, UsedRowsStay

-------------------------------------------------------------------------------
(* The main thread.                                                        *)

\* A step of the main thread that holds no row, and changes none but for its ACKS.
LEMMA RowlessStep ==
    ASSUME IInv, UNCHANGED <<table, thread, jobs, tracked, setsLeft, fault>>, SameRows,
           main.held = NoRow, main'.held = NoRow, MainTyped(main)',
           CachedHaveTheirIndex', RowsAreLeft', HeldIsInserted', OthersWereInserted'
    PROVE  IInv' /\ \A r \in Rows : Stage(r)' = Stage(r)
  <1>1. TypeOK'
    BY DEF IInv, TypeOK, SameRows
  <1>2. RowsHaveTheirIndex' /\ LiveRowsAreThere'
    BY DEF IInv, TypeOK, RowsHaveTheirIndex, LiveRowsAreThere, SameRows, RowOrNone
  <1>3. ThreadHasRows'
    BY ThreadStays DEF SameRows, UsedRowsStay
  <1>4. \A r \in Rows : Stage(r)' = Stage(r)
    BY SinksAssumption DEF Stage, Alive, SameRows
  <1>5. ChainsAreStarted'
    BY <1>4, ChainsStay
  <1>6. \A r \in Rows : Known(r)' => Known(r)
    BY SinksAssumption DEF Known, SameRows
  <1>7. KnownAreTracked'
    BY <1>6 DEF IInv, KnownAreTracked, ReaperHoldsLock
  <1> QED
    BY <1>1, <1>2, <1>3, <1>4, <1>5, <1>7 DEF IInv

\* What MainGoesOn asks of the rows, if all but ACKS stays.
LEMMA SameRowsStay ==
    ASSUME IInv, main.phase # "idle", SameRows
    PROVE  /\ UsedRowsStay
           /\ main.phase = "reserve1" => Cardinality(Unused)' > Len(main.pdu) - (main.pos + 1)
  <1>1. Unused' = Unused
    BY DEF SameRows, Unused
  <1>2. Cardinality(Unused) \in Nat
    BY SinksAssumption, FS_Subset, FS_CardinalityType DEF Unused
  <1>3. Len(main.pdu) \in Nat /\ main.pos \in Nat
    BY SinksAssumption DEF IInv, TypeOK, MainTyped, MainTypes
  <1>4. UsedRowsStay
    BY DEF SameRows, UsedRowsStay
  <1> QED
    BY <1>1, <1>2, <1>3, <1>4 DEF IInv, RowsAreLeft

\* Where nothing is held, no step of the main thread that leaves the rows is seen.
LEMMA QuietStep ==
    ASSUME IInv, UNCHANGED <<table, row, thread, jobs, tracked, setsLeft, fault>>,
           main.phase # "idle", main.held = NoRow,
           NEW m, MainTyped(m), main' = After(m), m.phase = main.phase, m.pdu = main.pdu,
           m.pos = main.pos, m.cached = main.cached, m.held = NoRow,
           m.phase \in {"reserve1", "action"} => m.step = "start"
    PROVE  IInv' /\ Refines
  <1>1. SameRows
    BY DEF IInv, TypeOK, SameRows
  <1>2. /\ UsedRowsStay
        /\ main.phase = "reserve1" => Cardinality(Unused)' > Len(main.pdu) - (main.pos + 1)
    BY <1>1, SameRowsStay
  <1>3. /\ MainTyped(main)' /\ main'.held = NoRow /\ main'.step = "start"
        /\ CachedHaveTheirIndex' /\ RowsAreLeft' /\ HeldIsInserted' /\ OthersWereInserted'
    BY <1>1, <1>2, MainGoesOn
  <1>4. IInv' /\ \A r \in Rows : Stage(r)' = Stage(r)
    BY <1>1, <1>3, RowlessStep
  <1>5. \A r \in Rows : Left(r)' = Left(r)
    BY <1>4 DEF Left
  <1> QED
    BY <1>4, <1>5, NothingHappens DEF UnderWay

\* Nothing is held before ACTION is over, nor in FREE.
LEMMA NothingHeld ==
    ASSUME IInv, main.phase # "commit" \/ main.step = "start"
    PROVE  main.held = NoRow
  BY DEF IInv, HeldIsInserted

\* RESERVE1 of a row that is there, or of another column, keeps what FREE needs.
LEMMA ReserveStatusStep ==
    ASSUME IInv, ReserveStatus PROVE IInv' /\ Refines
  <1> DEFINE refused == \/ Creates(Varbind) /\ row[TheRow].status # "active"
                        \/ ~Creates(Varbind) /\ Varbind.value # "destroy"
             errors == IF refused THEN main.errors \cup {main.pos} ELSE main.errors
             m == [main EXCEPT !.errors = errors]
  <1>1. MainTyped(main) /\ main.phase = "reserve1" /\ main.step = "start"
    BY DEF ReserveStatus, IInv, TypeOK, HeldIsInserted
  <1>2. errors \in SUBSET Nat
    BY <1>1 DEF MainTyped, MainTypes
  <1>3. MainTyped(m) /\ m.phase = "reserve1" /\ m.step = "start" /\ m.held = main.held
        /\ m.pdu = main.pdu /\ m.pos = main.pos /\ m.cached = main.cached
    <2> HIDE DEF errors
    <2> QED
      BY <1>1, <1>2 DEF MainTyped, MainTypes
  <1>4. main' = After(m)
    BY DEF ReserveStatus
  <1> HIDE DEF m
  <1> QED
    BY <1>1, <1>3, <1>4, NothingHeld, QuietStep DEF ReserveStatus

\* The value of another column is saved, and nothing is changed.
LEMMA ReserveColumnStep ==
    ASSUME IInv, ReserveColumn PROVE IInv' /\ Refines
  <1> DEFINE saved == IF TheRow = NoRow THEN -1 ELSE row[TheRow].acks
             m == [main EXCEPT !.backup[main.pos] = saved]
  <1>1. MainTyped(main) /\ main.phase = "reserve1" /\ main.step = "start"
    BY DEF ReserveColumn, IInv, TypeOK, HeldIsInserted
  <1>2. saved \in Words \cup {-1}
    BY <1>1, TheRowTyped DEF IInv, TypeOK, RowTypes
  <1>3. MainTyped(m) /\ m.phase = "reserve1" /\ m.step = "start" /\ m.held = main.held
        /\ m.pdu = main.pdu /\ m.pos = main.pos /\ m.cached = main.cached
    <2> HIDE DEF saved
    <2>1. main.backup \in Seq(Words \cup {-1}) /\ main.pos \in DOMAIN main.backup
      BY <1>1 DEF MainTyped, MainTypes
    <2>2. /\ [main.backup EXCEPT ![main.pos] = saved] \in Seq(Words \cup {-1})
          /\ DOMAIN [main.backup EXCEPT ![main.pos] = saved] = DOMAIN main.backup
      BY <1>2, <2>1
    <2> QED
      BY <1>1, <2>2 DEF MainTyped, MainTypes
  <1>4. main' = After(m)
    BY DEF ReserveColumn
  <1> HIDE DEF m
  <1> QED
    BY <1>1, <1>3, <1>4, NothingHeld, QuietStep DEF ReserveColumn

\* A row takes another number of ACKS: the step sets the reports that it has left.
LEMMA AcksStep ==
    ASSUME IInv, UNCHANGED <<table, thread, jobs, tracked, setsLeft, fault>>,
           NEW r \in Rows, NEW w \in Words, row' = [row EXCEPT ![r].acks = w],
           ~row[r].freed, row[r].status # "unused",
           main.held = NoRow, main'.held = NoRow, MainTyped(main)',
           CachedHaveTheirIndex', RowsAreLeft', HeldIsInserted', OthersWereInserted'
    PROVE  IInv' /\ Refines
  <1>1. SameRows
    BY DEF IInv, TypeOK, RowTypes, SameRows
  <1>2. IInv' /\ \A q \in Rows : Stage(q)' = Stage(q)
    BY <1>1, RowlessStep
  <1>3. \A q \in Rows \ {r} : Left(q)' = Left(q)
    BY <1>2 DEF Left, IInv, TypeOK
  <1>4. CASE Stage(r) = "none"
    BY <1>2, <1>3, <1>4, NothingHappens DEF Left, UnderWay
  <1>5. CASE Stage(r) # "none"
    <2>1. Stage(r) \in {"made", "started"}
      BY <1>5 DEF Stage, Alive
    <2>2. Left(r)' = w
      BY <1>2, <2>1 DEF Left, IInv, TypeOK, RowTypes
    <2> QED
      BY <1>2, <1>3, <2>1, <2>2, OneIsSet DEF UnderWay
  <1> QED
    BY <1>4, <1>5

\* ACTION puts a value into the row, if there is one.
LEMMA PutStep ==
    ASSUME IInv, Put PROVE IInv' /\ Refines
  <1>1. /\ MainTyped(main) /\ main.phase = "action" /\ main.step = "start" /\ main.held = NoRow
        /\ main' = After(main) /\ UNCHANGED <<table, thread, jobs, tracked, setsLeft, fault>>
    BY NothingHeld DEF Put, IInv, TypeOK, HeldIsInserted
  <1>2. CASE Varbind.col = "acks" /\ TheRow # NoRow
    <2>1. /\ TheRow \in Rows /\ ~row[TheRow].freed /\ row[TheRow].status # "unused"
          /\ row' = [row EXCEPT ![TheRow].acks = Varbind.value]
      BY <1>1, <1>2, TheRowTyped DEF Put, Dangling
    <2>2. Varbind.value \in Words
      BY <1>1, <1>2, VarbindTyped
    <2>3. SameRows
      BY <2>1, <2>2 DEF IInv, TypeOK, RowTypes, SameRows
    <2> QED
      BY <1>1, <2>1, <2>2, <2>3, SameRowsStay, MainGoesOn, AcksStep
  <1>3. CASE ~(Varbind.col = "acks" /\ TheRow # NoRow)
    BY <1>1, <1>3, QuietStep DEF Put
  <1> QED
    BY <1>2, <1>3

\* FREE ends at the varbind that failed; at another it puts the value back, and goes on to
\* the erasure of a row that was inserted.
LEMMA RollbackStep ==
    ASSUME IInv, Rollback PROVE IInv' /\ Refines
  <1>1. /\ MainTyped(main) /\ main.phase = "free" /\ main.step = "start" /\ main.held = NoRow
        /\ UNCHANGED <<table, thread, jobs, tracked, setsLeft, fault>>
    BY NothingHeld DEF Rollback, IInv, TypeOK
  <1>2. CASE main.pos \in main.errors
    <2>1. main' = IdleMain /\ UNCHANGED row
      BY <1>2 DEF Rollback
    <2>2. MainTyped(main)' /\ main'.held = NoRow
      BY <2>1 DEF MainTyped, MainTypes, IdleMain, RowOrNone
    <2>3. CachedHaveTheirIndex' /\ RowsAreLeft' /\ HeldIsInserted' /\ OthersWereInserted'
      BY <2>1 DEF IdleMain, CachedHaveTheirIndex, RowsAreLeft, HeldIsInserted, OthersWereInserted
    <2>4. SameRows
      BY <2>1 DEF SameRows, IInv, TypeOK
    <2>5. IInv' /\ \A r \in Rows : Stage(r)' = Stage(r)
      BY <1>1, <2>2, <2>3, <2>4, RowlessStep
    <2> QED
      BY <1>1, <2>1, <2>5, NothingHappens DEF UnderWay, Left
  <1>3. CASE main.pos \notin main.errors
    <2> DEFINE puts == TheRow # NoRow /\ main.backup[main.pos] # -1
    <2>1. TheRow # NoRow => TheRow \in Rows /\ ~row[TheRow].freed /\ row[TheRow].status # "unused"
      BY <1>1, <1>3, TheRowTyped DEF Rollback, Dangling
    <2>2. puts => main.backup[main.pos] \in Words
      BY <1>1, VarbindTyped
    <2>3. row' = IF puts THEN [row EXCEPT ![TheRow].acks = main.backup[main.pos]] ELSE row
      BY <1>3 DEF Rollback
    <2>4. SameRows
      BY <2>1, <2>2, <2>3 DEF IInv, TypeOK, RowTypes, SameRows
    <2>5. /\ MainTyped(main)' /\ main'.held = NoRow
          /\ CachedHaveTheirIndex' /\ RowsAreLeft' /\ HeldIsInserted' /\ OthersWereInserted'
      <3>1. CASE Inserted
        <4>1. main' = [main EXCEPT !.step = "delete", !.ptr = TheRow] /\ TheRow # NoRow
          BY <1>3, <3>1 DEF Rollback, Inserted
        <4>2. /\ MainTyped(main)' /\ main'.held = NoRow /\ main'.phase = "free"
              /\ main'.step = "delete" /\ main'.ptr = TheRow /\ main'.pdu = main.pdu
              /\ main'.cached = main.cached
          BY <1>1, <2>1, <4>1 DEF MainTyped, MainTypes, RowOrNone
        <4>3. CachedHaveTheirIndex'
          BY <1>1, <2>4, <4>2
          DEF IInv, CachedHaveTheirIndex, SameRows, MainTyped, MainTypes, RowOrNone
        <4> QED
          BY <2>1, <2>4, <4>1, <4>2, <4>3
          DEF RowsAreLeft, HeldIsInserted, OthersWereInserted, SameRows
      <3>2. CASE ~Inserted
        <4>1. main' = After(main)
          BY <1>3, <3>2 DEF Rollback
        <4> QED
          BY <1>1, <2>4, <4>1, SameRowsStay, MainGoesOn
      <3> QED
        BY <3>1, <3>2
    <2>6. CASE puts
      BY <1>1, <2>1, <2>2, <2>3, <2>5, <2>6, AcksStep
    <2>7. CASE ~puts
      <3>1. IInv' /\ \A r \in Rows : Stage(r)' = Stage(r)
        BY <1>1, <2>4, <2>5, RowlessStep
      <3> QED
        BY <1>1, <2>3, <2>7, <3>1, NothingHappens DEF UnderWay, Left
    <2> QED
      BY <2>6, <2>7
  <1> QED
    BY <1>2, <1>3

\* RESERVE1 inserts a row that was not used, and its subscription is made.
LEMMA ReserveInsertStep ==
    ASSUME IInv, ReserveInsert PROVE IInv' /\ Refines
  <1> DEFINE x == Varbind.index
  <1>1. /\ MainTyped(main) /\ main.phase = "reserve1" /\ main.step = "start" /\ main.held = NoRow
        /\ main' = After(main) /\ UNCHANGED <<thread, jobs, tracked, setsLeft, fault>>
        /\ TheRow = NoRow
    BY NothingHeld DEF ReserveInsert, IInv, TypeOK, HeldIsInserted
  <1>2. /\ IsFiniteSet(Unused) /\ Cardinality(Unused) \in Nat
        /\ Len(main.pdu) \in Nat /\ main.pos \in 1 .. Len(main.pdu)
    BY <1>1, VarbindTyped, SinksAssumption, FS_Subset, FS_CardinalityType
    DEF Unused, MainTyped
  <1>3. Unused # {}
    BY <1>1, <1>2, FS_EmptySet DEF IInv, RowsAreLeft
  <1>4. PICK n \in Rows : n = (CHOOSE r \in Rows : r \in Unused) /\ row[n].status = "unused"
    BY <1>3 DEF Unused
  <1>5. /\ row' = [row EXCEPT ![n] = [index |-> x, acks |-> 0, status |-> "notInService",
                                      freed |-> FALSE]]
        /\ table' = [table EXCEPT ![x] = n]
    BY <1>4 DEF ReserveInsert
  <1>6. x \in Index /\ table[x] = NoRow
    BY <1>1, VarbindTyped, SinksAssumption DEF TheRow, RowOrNone
  <1> HIDE DEF x
  <1>7. /\ row' \in [Rows -> RowTypes] /\ table' \in [Index -> RowOrNone]
        /\ row'[n].index = x /\ row'[n].status = "notInService" /\ ~row'[n].freed
        /\ row'[n].acks = 0
        /\ \A r \in Rows \ {n} : row'[r] = row[r]
    BY <1>4, <1>5, <1>6, SinksAssumption DEF IInv, TypeOK, RowTypes, Words, RowOrNone
  <1>8. UsedRowsStay
    BY <1>4, <1>7 DEF UsedRowsStay, IInv, TypeOK
  <1>9. Cardinality(Unused)' > Len(main.pdu) - (main.pos + 1)
    <2>1. Unused' = Unused \ {n}
      BY <1>4, <1>7 DEF Unused
    <2>2. Cardinality(Unused \ {n}) = Cardinality(Unused) - 1
      BY <1>2, <1>4, FS_RemoveElement DEF Unused
    <2> QED
      BY <1>1, <1>2, <2>1, <2>2 DEF IInv, RowsAreLeft
  <1>10. /\ MainTyped(main)' /\ main'.held = NoRow /\ main'.step = "start"
         /\ CachedHaveTheirIndex' /\ RowsAreLeft' /\ HeldIsInserted' /\ OthersWereInserted'
    BY <1>1, <1>8, <1>9, MainGoesOn
  <1>11. TypeOK'
    BY <1>1, <1>7, <1>10 DEF IInv, TypeOK
  <1>12. RowsHaveTheirIndex'
    <2> SUFFICES ASSUME NEW y \in Index, table'[y] # NoRow
                 PROVE  /\ ~row'[table'[y]].freed /\ row'[table'[y]].index = y
                        /\ row'[table'[y]].status # "unused"
      BY DEF RowsHaveTheirIndex
    <2>1. CASE y = x
      BY <1>5, <1>6, <1>7, <2>1 DEF IInv, TypeOK
    <2>2. CASE y # x
      <3>1. table'[y] = table[y] /\ table[y] \in Rows /\ row[table[y]].status # "unused"
        BY <1>5, <2>2 DEF IInv, TypeOK, RowOrNone, RowsHaveTheirIndex
      <3>2. row'[table[y]] = row[table[y]]
        BY <1>4, <1>7, <3>1
      <3>3. ~row[table[y]].freed /\ row[table[y]].index = y
        BY <2>2, <3>1, SinksAssumption DEF IInv, RowsHaveTheirIndex
      <3> QED
        BY <3>1, <3>2, <3>3
    <2> QED
      BY <2>1, <2>2
  <1>13. ThreadHasRows'
    BY <1>1, <1>8, ThreadStays
  <1>14. LiveRowsAreThere'
    <2> SUFFICES ASSUME ~fault, NEW r \in Rows, row'[r].status # "unused", ~row'[r].freed
                 PROVE  table'[row'[r].index] = r
      BY <1>1 DEF LiveRowsAreThere
    <2>1. CASE r = n
      BY <1>5, <1>6, <1>7, <2>1 DEF IInv, TypeOK
    <2>2. CASE r # n
      <3>1. row'[r] = row[r] /\ row[r].index \in Index
        BY <1>7, <2>2 DEF IInv, TypeOK, RowTypes
      <3>2. table[row[r].index] = r
        BY <3>1 DEF IInv, LiveRowsAreThere
      <3>3. row[r].index # x
        BY <1>6, <3>2, SinksAssumption
      <3> QED
        BY <1>5, <3>1, <3>2, <3>3 DEF IInv, TypeOK
    <2> QED
      BY <2>1, <2>2
  <1>15. /\ Stage(n) = "none"
         /\ Stage(n)' = IF x \in MetricIndex THEN "none" ELSE "made"
         /\ \A r \in Rows \ {n} : Stage(r)' = Stage(r)
    <2>1. row[n].status = "unused" /\ n # NoRow
      BY <1>4, SinksAssumption
    <2>2. Stage(n) = "none"
      BY <2>1 DEF Stage
    <2>3. Stage(n)' = IF x \in MetricIndex THEN "none" ELSE "made"
      BY <1>7, <1>10, <2>1 DEF Stage, Alive
    <2>4. ASSUME NEW r \in Rows \ {n} PROVE Stage(r)' = Stage(r)
      BY <1>1, <1>7, <1>10, SinksAssumption DEF Stage, Alive
    <2> QED
      BY <2>2, <2>3, <2>4
  <1>16. ChainsAreStarted'
    BY <1>1, <1>15, ChainsStay
  <1>17. KnownAreTracked'
    <2>1. \A r \in Rows : Known(r)' => Known(r)
      BY <1>1, <1>4, <1>5, <1>6, <1>7, <1>10, SinksAssumption DEF Known, IInv, TypeOK, RowTypes
    <2> QED
      BY <1>1, <2>1 DEF IInv, KnownAreTracked, ReaperHoldsLock
  <1>18. Refines
    <2>1. \A r \in Rows : Left(r)' = Left(r)
      <3>1. Left(n) = 0 /\ Left(n)' = 0
        BY <1>7, <1>15 DEF Left
      <3>2. ASSUME NEW r \in Rows \ {n} PROVE Left(r)' = Left(r)
        BY <1>7, <1>15 DEF Left
      <3> QED
        BY <3>1, <3>2
    <2> QED
      BY <1>1, <1>4, <1>15, <2>1, NothingHappens, OneIsMade DEF UnderWay
  <1> QED
    BY <1>8, <1>10, <1>11, <1>12, <1>13, <1>16, <1>17, <1>18, <1>14 DEF IInv

\* COMMIT goes on with a varbind of another column, holds a row that is inserted, or has
\* the status to put.
LEMMA CommitBeginsStep ==
    ASSUME IInv, CommitBegins PROVE IInv' /\ Refines
  <1>1. /\ MainTyped(main) /\ main.phase = "commit" /\ main.step = "start" /\ main.held = NoRow
        /\ UNCHANGED <<table, row, thread, jobs, tracked, setsLeft, fault>>
    BY NothingHeld DEF CommitBegins, IInv, TypeOK
  <1>2. CASE Varbind.col # "status"
    BY <1>1, <1>2, QuietStep DEF CommitBegins
  <1>3. SameRows /\ UsedRowsStay
    BY <1>1 DEF SameRows, UsedRowsStay, IInv, TypeOK
  <1>4. TheRow # NoRow => /\ TheRow \in Rows /\ row[TheRow].index = Varbind.index
                          /\ row[TheRow].status # "unused"
    BY <1>1, TheRowTyped
  <1>5. CASE Varbind.col = "status" /\ Inserted /\ Varbind.index \in SinkIndex
    <2>1. /\ main' = [main EXCEPT !.step = "track", !.held = TheRow]
          /\ ~row[TheRow].freed /\ TheRow \in Rows /\ row[TheRow].status = "notInService"
      BY <1>4, <1>5 DEF CommitBegins, Inserted, Dangling
    <2>2. /\ MainTyped(main)' /\ main'.held = TheRow /\ main'.phase = "commit"
          /\ main'.step = "track" /\ main'.pdu = main.pdu /\ main'.pos = main.pos
          /\ main'.cached = main.cached
      BY <1>1, <2>1 DEF MainTyped, MainTypes, RowOrNone
    <2>3. TheRow' = TheRow /\ Varbind' = Varbind
      BY <1>1, <2>2 DEF TheRow, Varbind
    <2>4. HeldIsInserted' /\ OthersWereInserted'
      BY <1>1, <1>4, <1>5, <2>1, <2>2, <2>3, SinksAssumption
      DEF HeldIsInserted, OthersWereInserted
    <2>5. /\ TypeOK' /\ RowsHaveTheirIndex' /\ LiveRowsAreThere' /\ CachedHaveTheirIndex'
          /\ RowsAreLeft'
      BY <1>1, <2>2
      DEF IInv, TypeOK, RowsHaveTheirIndex, LiveRowsAreThere, CachedHaveTheirIndex, RowsAreLeft
    <2>6. ThreadHasRows'
      BY <1>1, <1>3, ThreadStays
    <2>7. \A r \in Rows : Stage(r)' = Stage(r)
      BY <1>1, <2>1, <2>2, SinksAssumption DEF Stage, Alive
    <2>8. ChainsAreStarted'
      BY <1>1, <2>7, ChainsStay
    <2>9. KnownAreTracked'
      <3>1. \A r \in Rows : Known(r)' => Known(r)
        BY <1>1, <2>2 DEF Known
      <3> QED
        BY <1>1, <3>1 DEF IInv, KnownAreTracked, ReaperHoldsLock
    <2>10. Refines
      BY <1>1, <2>7, NothingHappens DEF Left, UnderWay
    <2> QED
      BY <2>4, <2>5, <2>6, <2>8, <2>9, <2>10 DEF IInv
  <1>6. CASE Varbind.col = "status" /\ ~(Inserted /\ Varbind.index \in SinkIndex)
    <2>1. main' = [main EXCEPT !.step = "status"]
      BY <1>6 DEF CommitBegins
    <2>2. /\ MainTyped(main)' /\ main'.held = NoRow /\ main'.phase = "commit"
          /\ main'.step = "status" /\ main'.pdu = main.pdu /\ main'.pos = main.pos
          /\ main'.cached = main.cached
      BY <1>1, <2>1 DEF MainTyped, MainTypes, RowOrNone
    <2>3. TheRow' = TheRow /\ Varbind' = Varbind
      BY <1>1, <2>2 DEF TheRow, Varbind
    <2>4. HeldIsInserted' /\ OthersWereInserted'
      BY <1>1, <1>4, <1>6, <2>2, <2>3
      DEF HeldIsInserted, OthersWereInserted, Inserted, IInv, TypeOK, RowTypes
    <2>5. CachedHaveTheirIndex' /\ RowsAreLeft'
      BY <1>1, <2>2 DEF IInv, CachedHaveTheirIndex, RowsAreLeft
    <2>6. IInv' /\ \A r \in Rows : Stage(r)' = Stage(r)
      BY <1>1, <1>3, <2>2, <2>4, <2>5, RowlessStep
    <2> QED
      BY <1>1, <2>6, NothingHappens DEF Left, UnderWay
  <1> QED
    BY <1>2, <1>5, <1>6

\* The row that is held is tracked,
LEMMA TrackStep ==
    ASSUME IInv, Track PROVE IInv' /\ Refines
  <1>1. /\ MainTyped(main) /\ main.phase = "commit" /\ main.step = "track"
        /\ main.held \in Rows /\ main' = [main EXCEPT !.step = "schedule"]
        /\ ~ReaperHoldsLock /\ tracked' = tracked \cup {main.held}
        /\ UNCHANGED <<table, row, thread, jobs, setsLeft, fault>>
    BY DEF Track, IInv, TypeOK, HeldIsInserted, MainTyped, MainTypes, RowOrNone
  <1>2. /\ MainTyped(main)' /\ main'.held = main.held /\ main'.phase = "commit"
        /\ main'.step = "schedule" /\ main'.pdu = main.pdu /\ main'.pos = main.pos
        /\ main'.cached = main.cached
    BY <1>1 DEF MainTyped, MainTypes
  <1>3. TheRow' = TheRow /\ Varbind' = Varbind
    BY <1>1, <1>2 DEF TheRow, Varbind
  <1>4. TypeOK' /\ RowsHaveTheirIndex' /\ LiveRowsAreThere' /\ CachedHaveTheirIndex'
    BY <1>1, <1>2
    DEF IInv, TypeOK, RowsHaveTheirIndex, LiveRowsAreThere, CachedHaveTheirIndex
  <1>5. RowsAreLeft' /\ HeldIsInserted' /\ OthersWereInserted'
    BY <1>1, <1>2, <1>3 DEF IInv, RowsAreLeft, HeldIsInserted, OthersWereInserted
  <1>6. row[main.held].index \in SinkIndex /\ row[main.held].status = "notInService"
    BY <1>1, SinksAssumption DEF IInv, HeldIsInserted
  <1>7. ThreadHasRows'
    BY <1>1, <1>6 DEF IInv, ThreadHasRows
  <1>8. \A r \in Rows : Stage(r)' = Stage(r)
    BY <1>1, <1>2 DEF Stage, Alive
  <1>9. ChainsAreStarted'
    BY <1>1, <1>8, ChainsStay
  <1>10. KnownAreTracked'
    <2>1. \A r \in Rows : Known(r)' => Known(r) \/ r = main.held
      BY <1>1, <1>2 DEF Known
    <2> QED
      BY <1>1, <2>1 DEF IInv, KnownAreTracked, ReaperHoldsLock
  <1>11. Refines
    BY <1>1, <1>8, NothingHappens DEF Left, UnderWay
  <1> QED
    BY <1>4, <1>5, <1>7, <1>9, <1>10, <1>11 DEF IInv

\* and its job is scheduled, which starts the subscription.
LEMMA ScheduleStep ==
    ASSUME IInv, ~fault, Schedule PROVE IInv' /\ Refines
  <1>1. /\ MainTyped(main) /\ main.phase = "commit" /\ main.step = "schedule"
        /\ main.held \in Rows /\ main' = [main EXCEPT !.step = "status"]
        /\ jobs' = [jobs EXCEPT ![main.held] = @ + 1]
        /\ UNCHANGED <<table, row, thread, tracked, setsLeft, fault>>
    BY DEF Schedule, IInv, TypeOK, HeldIsInserted, MainTyped, MainTypes, RowOrNone
  <1>2. /\ MainTyped(main)' /\ main'.held = main.held /\ main'.phase = "commit"
        /\ main'.step = "status" /\ main'.pdu = main.pdu /\ main'.pos = main.pos
        /\ main'.cached = main.cached
    BY <1>1 DEF MainTyped, MainTypes
  <1>3. TheRow' = TheRow /\ Varbind' = Varbind
    BY <1>1, <1>2 DEF TheRow, Varbind
  <1>4. TypeOK' /\ RowsHaveTheirIndex' /\ LiveRowsAreThere' /\ CachedHaveTheirIndex'
    BY <1>1, <1>2
    DEF IInv, TypeOK, RowsHaveTheirIndex, LiveRowsAreThere, CachedHaveTheirIndex
  <1>5. RowsAreLeft' /\ HeldIsInserted' /\ OthersWereInserted'
    BY <1>1, <1>2, <1>3, SinksAssumption
    DEF IInv, RowsAreLeft, HeldIsInserted, OthersWereInserted
  <1>6. row[main.held].index \in SinkIndex /\ row[main.held].status = "notInService"
    BY <1>1, SinksAssumption DEF IInv, HeldIsInserted
  <1>7. ThreadHasRows'
    BY <1>1 DEF IInv, ThreadHasRows
  <1>8. row[main.held].index \notin MetricIndex
    BY <1>6 DEF SinkIndex, MetricIndex
  <1>9. /\ Stage(main.held) = "made" /\ Stage(main.held)' = "started"
        /\ \A r \in Rows \ {main.held} : Stage(r)' = Stage(r)
    BY <1>1, <1>2, <1>6, <1>8 DEF Stage, Alive
  <1>10. Chains(main.held) = 0 /\ jobs[main.held] = 0
    BY <1>1, <1>9 DEF IInv, TypeOK, ChainsAreStarted, Chains
  <1>11. ChainsAreStarted'
    <2>1. \A r \in Rows \ {main.held} : Chains(r)' = Chains(r)
      BY <1>1 DEF Chains, IInv, TypeOK
    <2>2. Chains(main.held)' = 1
      BY <1>1, <1>10 DEF Chains, IInv, TypeOK
    <2>3. ASSUME NEW r \in Rows
          PROVE  Chains(r)' <= 1 /\ (Chains(r)' > 0 => Stage(r)' \in {"started", "gone"})
      <3>1. CASE r = main.held
        BY <1>2, <1>9, <2>2, <3>1
      <3>2. CASE r # main.held
        BY <1>9, <2>1, <3>2 DEF IInv, ChainsAreStarted
      <3> QED
        BY <3>1, <3>2
    <2> QED
      BY <2>3 DEF ChainsAreStarted
  <1>12. KnownAreTracked'
    <2>1. \A r \in Rows : Known(r)' => Known(r)
      BY <1>1, <1>2 DEF Known
    <2> QED
      BY <1>1, <2>1 DEF IInv, KnownAreTracked, ReaperHoldsLock
  <1>13. Refines
    <2>1. \A r \in Rows : Left(r)' = Left(r)
      BY <1>1, <1>9 DEF Left
    <2>2. jobs' = [jobs EXCEPT ![main.held] = 1]
      BY <1>1, <1>10 DEF IInv, TypeOK
    <2>3. UnderWay' = UnderWay
      BY <1>1 DEF UnderWay
    <2>4. PICK n \in Rows : n = main.held
      BY <1>1
    <2>5. Stage(n)' = "started"
      BY <1>2, <1>9, <2>4
    <2> QED
      BY <1>9, <1>10, <2>1, <2>2, <2>3, <2>4, <2>5, OneIsStarted
  <1> QED
    BY <1>4, <1>5, <1>7, <1>11, <1>12, <1>13 DEF IInv

\* The main thread with no row in its hands is typed as before.
LEMMA EmptyHands ==
    ASSUME MainTyped(main), main.phase # "idle", NEW m,
           m \in {[main EXCEPT !.held = NoRow], [main EXCEPT !.ptr = NoRow, !.held = NoRow]}
    PROVE  /\ MainTyped(m) /\ m.held = NoRow /\ m.phase = main.phase /\ m.pdu = main.pdu
           /\ m.pos = main.pos /\ m.cached = main.cached /\ m.step = main.step
  BY DEF MainTyped, MainTypes, RowOrNone

\* Request::Unit::commit makes the row active, and goes on,
LEMMA CommitCreatesStep ==
    ASSUME IInv, ~fault, CommitStatus, Creates(Varbind) PROVE IInv' /\ Refines
  <1> DEFINE m == [main EXCEPT !.held = NoRow]
  <1>1. /\ MainTyped(main) /\ main.phase = "commit" /\ main.step = "status"
        /\ main' = After(m) /\ UNCHANGED <<table, thread, jobs, tracked, setsLeft, fault>>
        /\ TheRow # NoRow /\ ~Dangling
    BY DEF CommitStatus, IInv, TypeOK
  <1>2. /\ MainTyped(m) /\ m.held = NoRow /\ m.phase = main.phase /\ m.pdu = main.pdu
        /\ m.pos = main.pos /\ m.cached = main.cached /\ m.step = main.step
    BY <1>1, EmptyHands
  <1> HIDE DEF m
  <1>3. PICK n \in Rows : n = TheRow
    BY <1>1, TheRowTyped
  <1>4. /\ ~row[n].freed /\ row[n].index = Varbind.index /\ row[n].status # "unused"
        /\ row[n].index \in Index
    BY <1>1, <1>3, TheRowTyped, VarbindTyped DEF Dangling
  <1>5. PICK s \in {"active", "notReady"} : row' = [row EXCEPT ![n].status = s]
    BY <1>3 DEF CommitStatus
  <1>6. /\ row' \in [Rows -> RowTypes] /\ \A r \in Rows \ {n} : row'[r] = row[r]
        /\ row'[n].index = row[n].index /\ row'[n].status \in {"active", "notReady"}
        /\ row'[n].freed = row[n].freed /\ row'[n].acks = row[n].acks
    BY <1>5 DEF IInv, TypeOK, RowTypes
  <1>7. UsedRowsStay
    BY <1>6 DEF UsedRowsStay
  <1>8. /\ MainTyped(main)' /\ main'.held = NoRow /\ main'.step = "start"
        /\ CachedHaveTheirIndex' /\ RowsAreLeft' /\ HeldIsInserted' /\ OthersWereInserted'
    BY <1>1, <1>2, <1>7, MainGoesOn
  <1>9. TypeOK'
    BY <1>1, <1>6, <1>8 DEF IInv, TypeOK
  <1>10. RowsHaveTheirIndex' /\ LiveRowsAreThere'
    BY <1>1, <1>4, <1>6 DEF IInv, TypeOK, RowOrNone, RowsHaveTheirIndex, LiveRowsAreThere
  <1>11. ThreadHasRows'
    BY <1>1, <1>7, ThreadStays
  <1>12. /\ main.held \in {NoRow, n}
         /\ row[n].index \in SinkIndex =>
              main.held = n \/ row[n].status \in {"active", "notReady"}
    BY <1>1, <1>3, <1>4, SinksAssumption DEF IInv, HeldIsInserted, OthersWereInserted
  <1>13. \A r \in Rows : Stage(r)' = Stage(r)
    <2>1. CASE row[n].index \in MetricIndex
      BY <1>1, <1>4, <1>6, <1>8, <1>12, <2>1, SinksAssumption DEF Stage, Alive
    <2>2. CASE row[n].index \notin MetricIndex
      <3>1. Stage(n) = "started" /\ Stage(n)' = "started"
        BY <1>1, <1>4, <1>6, <1>12, <2>2 DEF Stage, Alive, Index
      <3>2. ASSUME NEW r \in Rows \ {n} PROVE Stage(r)' = Stage(r)
        BY <1>6, <1>8, <1>12, SinksAssumption DEF Stage, Alive
      <3> QED
        BY <3>1, <3>2
    <2> QED
      BY <2>1, <2>2
  <1>14. ChainsAreStarted'
    BY <1>1, <1>13, ChainsStay
  <1>15. KnownAreTracked'
    <2>1. \A r \in Rows : Known(r)' => Known(r)
      BY <1>1, <1>6, <1>8, <1>12, SinksAssumption DEF Known
    <2> QED
      BY <1>1, <2>1 DEF IInv, KnownAreTracked, ReaperHoldsLock
  <1>16. \A r \in Rows : row'[r].acks = row[r].acks
    BY <1>6
  <1>17. Refines
    BY <1>1, <1>13, <1>16, NothingHappens DEF Left, UnderWay
  <1> QED
    BY <1>8, <1>9, <1>10, <1>11, <1>14, <1>15, <1>17 DEF IInv

\* or has none to erase; then what was held, if anything, was removed,
LEMMA CommitNothingStep ==
    ASSUME IInv, ~fault, CommitStatus, ~Creates(Varbind), TheRow = NoRow
    PROVE  IInv' /\ Refines
  <1> DEFINE m == [main EXCEPT !.held = NoRow]
  <1>1. /\ MainTyped(main) /\ main.phase = "commit" /\ main.step = "status"
        /\ main' = After(m) /\ UNCHANGED <<table, row, thread, jobs, tracked, setsLeft, fault>>
    BY DEF CommitStatus, IInv, TypeOK
  <1>2. /\ MainTyped(m) /\ m.held = NoRow /\ m.phase = main.phase /\ m.pdu = main.pdu
        /\ m.pos = main.pos /\ m.cached = main.cached /\ m.step = main.step
    BY <1>1, EmptyHands
  <1> HIDE DEF m
  <1>3. CASE main.held = NoRow
    BY <1>1, <1>2, <1>3, QuietStep
  <1>4. CASE main.held # NoRow
    <2>1. PICK n \in Rows : n = main.held
      BY <1>1, <1>4 DEF MainTyped, MainTypes, RowOrNone
    <2>2. row[n].freed /\ row[n].index \in SinkIndex /\ row[n].status = "notInService"
      BY <1>4, <2>1, SinksAssumption DEF IInv, HeldIsInserted
    <2>3. UsedRowsStay
      BY <1>1 DEF IInv, TypeOK, UsedRowsStay
    <2>4. /\ MainTyped(main)' /\ main'.held = NoRow /\ main'.step = "start"
          /\ CachedHaveTheirIndex' /\ RowsAreLeft' /\ HeldIsInserted' /\ OthersWereInserted'
      BY <1>1, <1>2, <2>3, MainGoesOn
    <2>5. TypeOK' /\ RowsHaveTheirIndex' /\ LiveRowsAreThere'
      BY <1>1, <2>4 DEF IInv, TypeOK, RowsHaveTheirIndex, LiveRowsAreThere
    <2>6. ThreadHasRows'
      BY <1>1, <2>3, ThreadStays
    <2>7. Stage(n) = "started" /\ Stage(n)' = "gone"
      <3>1. row[n].index \notin MetricIndex
        BY <2>2 DEF SinkIndex, MetricIndex
      <3>2. main'.held # n
        BY <2>4, SinksAssumption
      <3> QED
        BY <1>1, <2>1, <2>2, <3>1, <3>2 DEF Stage, Alive
    <2>8. ASSUME NEW r \in Rows \ {n} PROVE Stage(r)' = Stage(r)
      BY <1>1, <2>1, <2>4, SinksAssumption DEF Stage, Alive
    <2>9. ChainsAreStarted'
      BY <1>1, <2>7, <2>8, ChainsStay
    <2>10. KnownAreTracked'
      <3>1. \A r \in Rows : Known(r)' => Known(r)
        BY <1>1, <2>4, SinksAssumption DEF Known
      <3> QED
        BY <1>1, <3>1 DEF IInv, KnownAreTracked, ReaperHoldsLock
    <2>11. Refines
      <3>1. \A r \in Rows \ {n} : Left(r)' = Left(r)
        BY <1>1, <2>8 DEF Left
      <3> QED
        BY <1>1, <2>7, <2>8, <3>1, OneIsRemoved DEF UnderWay
    <2> QED
      BY <2>4, <2>5, <2>6, <2>9, <2>10, <2>11 DEF IInv
  <1> QED
    BY <1>3, <1>4

\* or goes on to erase the row.
LEMMA CommitFindsStep ==
    ASSUME IInv, ~fault, CommitStatus, ~Creates(Varbind), TheRow # NoRow
    PROVE  IInv' /\ Refines
  <1>1. /\ MainTyped(main) /\ main.phase = "commit" /\ main.step = "status"
        /\ main' = [main EXCEPT !.step = "delete", !.ptr = TheRow]
        /\ UNCHANGED <<table, row, thread, jobs, tracked, setsLeft, fault>>
    BY DEF CommitStatus, IInv, TypeOK
  <1>2. TheRow \in Rows /\ row[TheRow].status # "unused"
    BY <1>1, TheRowTyped
  <1>3. /\ MainTyped(main)' /\ main'.held = main.held /\ main'.phase = "commit"
        /\ main'.step = "delete" /\ main'.pdu = main.pdu /\ main'.pos = main.pos
        /\ main'.cached = main.cached /\ main'.ptr = TheRow
    BY <1>1, <1>2 DEF MainTyped, MainTypes, RowOrNone
  <1>4. TheRow' = TheRow /\ Varbind' = Varbind
    BY <1>1, <1>3 DEF TheRow, Varbind
  <1>5. /\ TypeOK' /\ RowsHaveTheirIndex' /\ LiveRowsAreThere' /\ CachedHaveTheirIndex'
        /\ RowsAreLeft'
    BY <1>1, <1>3
    DEF IInv, TypeOK, RowsHaveTheirIndex, LiveRowsAreThere, CachedHaveTheirIndex, RowsAreLeft
  <1>6. HeldIsInserted' /\ OthersWereInserted'
    BY <1>1, <1>2, <1>3, <1>4 DEF IInv, HeldIsInserted, OthersWereInserted
  <1>7. ThreadHasRows'
    BY <1>1 DEF IInv, ThreadHasRows
  <1>8. \A r \in Rows : Stage(r)' = Stage(r)
    BY <1>1, <1>3 DEF Stage, Alive
  <1>9. ChainsAreStarted'
    BY <1>1, <1>8, ChainsStay
  <1>10. KnownAreTracked'
    <2>1. \A r \in Rows : Known(r)' => Known(r)
      BY <1>1, <1>3 DEF Known
    <2> QED
      BY <1>1, <2>1 DEF IInv, KnownAreTracked, ReaperHoldsLock
  <1>11. Refines
    BY <1>1, <1>8, NothingHappens DEF Left, UnderWay
  <1> QED
    BY <1>5, <1>6, <1>7, <1>9, <1>10, <1>11 DEF IInv

\* Table::Unit::erase leaves the container without the row, and deletes it; if it was
\* deleted before, that is a fault.
LEMMA RemoveIs ==
    ASSUME IInv, ~fault, NEW n \in Rows, row[n].status # "unused", Remove(n)
    PROVE  /\ row' \in [Rows -> RowTypes] /\ table' \in [Index -> RowOrNone]
           /\ fault' \in BOOLEAN /\ UsedRowsStay
           /\ RowsHaveTheirIndex' /\ LiveRowsAreThere'
           /\ \A r \in Rows \ {n} : row'[r] = row[r]
           /\ row'[n].freed /\ row'[n].index = row[n].index /\ row'[n].status = row[n].status
           /\ table'[row[n].index] = NoRow
           /\ \A x \in Index : table'[x] = table[x] \/ (x = row[n].index /\ table'[x] = NoRow)
           /\ ~fault' => table[row[n].index] = n
  <1>1. row[n].index \in Index
    BY DEF IInv, TypeOK, RowTypes
  <1>2. /\ table' = [table EXCEPT ![row[n].index] = NoRow]
        /\ row' = [row EXCEPT ![n].freed = TRUE] /\ fault' = row[n].freed
    BY DEF Remove
  <1>3. /\ row' \in [Rows -> RowTypes] /\ table' \in [Index -> RowOrNone]
        /\ fault' \in BOOLEAN /\ \A r \in Rows \ {n} : row'[r] = row[r]
        /\ row'[n].freed /\ row'[n].index = row[n].index /\ row'[n].status = row[n].status
    BY <1>1, <1>2 DEF IInv, TypeOK, RowTypes, RowOrNone
  <1>4. UsedRowsStay
    BY <1>3 DEF UsedRowsStay
  <1>5. /\ table'[row[n].index] = NoRow
        /\ \A x \in Index : table'[x] = table[x] \/ (x = row[n].index /\ table'[x] = NoRow)
    BY <1>1, <1>2 DEF IInv, TypeOK
  <1>6. RowsHaveTheirIndex'
    <2> SUFFICES ASSUME NEW x \in Index, table'[x] # NoRow
                 PROVE  /\ ~row'[table'[x]].freed /\ row'[table'[x]].index = x
                        /\ row'[table'[x]].status # "unused"
      BY DEF RowsHaveTheirIndex
    <2>1. table'[x] = table[x] /\ table[x] \in Rows
      BY <1>5 DEF IInv, TypeOK, RowOrNone
    <2>2. /\ ~row[table[x]].freed /\ row[table[x]].index = x /\ row[table[x]].status # "unused"
      BY <2>1, SinksAssumption DEF IInv, RowsHaveTheirIndex
    <2>3. table[x] # n
      BY <1>5, <2>1, <2>2, SinksAssumption
    <2> QED
      BY <1>3, <2>1, <2>2, <2>3
  <1>7. ~fault' => table[row[n].index] = n
    BY <1>2 DEF IInv, LiveRowsAreThere
  <1>8. LiveRowsAreThere'
    <2> SUFFICES ASSUME ~fault', NEW r \in Rows, row'[r].status # "unused", ~row'[r].freed
                 PROVE  table'[row'[r].index] = r
      BY DEF LiveRowsAreThere
    <2>1. r # n /\ row'[r] = row[r]
      BY <1>3
    <2>2. table[row[r].index] = r /\ row[r].index \in Index
      BY <2>1 DEF IInv, LiveRowsAreThere, TypeOK, RowTypes
    <2>3. row[r].index # row[n].index
      BY <1>7, <2>1, <2>2
    <2> QED
      BY <1>5, <2>1, <2>2, <2>3
  <1> QED
    BY <1>3, <1>4, <1>5, <1>6, <1>7, <1>8

\* A row that is erased is known no more, and no other becomes known.
LEMMA RemoveForgets ==
    ASSUME IInv, ~fault, NEW n \in Rows, row[n].status # "unused", Remove(n),
           main'.held \in {main.held, NoRow}, main'.step = main.step \/ main'.held = NoRow
    PROVE  \A r \in Rows : Known(r)' => Known(r) /\ row[r].index # row[n].index
  <1> SUFFICES ASSUME NEW r \in Rows, Known(r)'
               PROVE  Known(r) /\ row[r].index # row[n].index
    OBVIOUS
  <1>1. row'[r].index = row[r].index /\ row'[r].status = row[r].status
    BY RemoveIs
  <1>2. row[r].index \in Index
    BY DEF IInv, TypeOK, RowTypes
  <1>3. table'[row[r].index] = r
    BY <1>1 DEF Known
  <1>4. row[r].index # row[n].index
    BY <1>3, RemoveIs, SinksAssumption
  <1>5. table[row[r].index] = r
    BY <1>2, <1>3, <1>4, RemoveIs
  <1> QED
    BY <1>1, <1>4, <1>5, SinksAssumption DEF Known

\* The main thread erases the row, and holds it no more.
LEMMA DeleteStep ==
    ASSUME IInv, ~fault, Delete PROVE IInv' /\ Refines
  <1> DEFINE m == [main EXCEPT !.ptr = NoRow, !.held = NoRow]
  <1>1. /\ MainTyped(main) /\ main.phase \in {"free", "commit"} /\ main.step = "delete"
        /\ main' = After(m) /\ UNCHANGED <<thread, jobs, tracked, setsLeft>>
        /\ Remove(main.ptr)
    BY DEF Delete, IInv, TypeOK
  <1>2. /\ MainTyped(m) /\ m.held = NoRow /\ m.phase = main.phase /\ m.pdu = main.pdu
        /\ m.pos = main.pos /\ m.cached = main.cached /\ m.step = main.step
    BY <1>1, EmptyHands
  <1> HIDE DEF m
  <1>3. PICK n \in Rows : n = main.ptr
    BY <1>1 DEF MainTyped, MainTypes, RowOrNone, IInv, HeldIsInserted
  <1>4. row[n].status # "unused" /\ main.held \in {NoRow, n} /\ Remove(n)
    BY <1>1, <1>3 DEF IInv, HeldIsInserted
  <1>5. /\ row' \in [Rows -> RowTypes] /\ table' \in [Index -> RowOrNone]
        /\ fault' \in BOOLEAN /\ UsedRowsStay
        /\ RowsHaveTheirIndex' /\ LiveRowsAreThere'
        /\ \A r \in Rows \ {n} : row'[r] = row[r]
        /\ row'[n].freed /\ row'[n].index = row[n].index /\ row'[n].status = row[n].status
    BY <1>4, RemoveIs
  <1>6. /\ MainTyped(main)' /\ main'.held = NoRow /\ main'.step = "start"
        /\ CachedHaveTheirIndex' /\ RowsAreLeft' /\ HeldIsInserted' /\ OthersWereInserted'
    BY <1>1, <1>2, <1>5, MainGoesOn
  <1>7. TypeOK'
    BY <1>1, <1>5, <1>6 DEF IInv, TypeOK
  <1>8. ThreadHasRows'
    BY <1>1, <1>5, ThreadStays
  <1>9. ASSUME NEW r \in Rows \ {n} PROVE Stage(r)' = Stage(r)
    BY <1>4, <1>5, <1>6, SinksAssumption DEF Stage, Alive
  <1>10. Stage(n)' = IF row[n].index \in MetricIndex THEN "none" ELSE "gone"
    BY <1>4, <1>5, <1>6, SinksAssumption DEF Stage, Alive
  <1>11. Stage(n) = "none" <=> row[n].index \in MetricIndex
    BY <1>4 DEF Stage
  <1>12. ChainsAreStarted'
    BY <1>1, <1>9, <1>10, <1>11, ChainsStay
  <1>13. KnownAreTracked'
    <2>1. \A r \in Rows : Known(r)' => Known(r)
      BY <1>4, <1>6, RemoveForgets
    <2> QED
      BY <1>1, <2>1 DEF IInv, KnownAreTracked, ReaperHoldsLock
  <1>14. Refines
    <2>1. \A r \in Rows \ {n} : Left(r)' = Left(r)
      BY <1>5, <1>9 DEF Left
    <2>2. UnderWay' = UnderWay /\ jobs' = jobs
      BY <1>1 DEF UnderWay
    <2>3. CASE Stage(n) \in {"none", "gone"}
      BY <1>9, <1>10, <1>11, <2>1, <2>2, <2>3, NothingHappens DEF Left
    <2>4. CASE Stage(n) \in {"made", "started"}
      BY <1>9, <1>10, <1>11, <2>1, <2>2, <2>4, OneIsRemoved
    <2> QED
      BY <2>3, <2>4 DEF Stage
  <1> QED
    BY <1>5, <1>6, <1>7, <1>8, <1>12, <1>13, <1>14 DEF IInv

\* Where the memory of a deleted row is used, nothing more is said.
LEMMA MainFaultsStep ==
    ASSUME IInv, MainFaults PROVE IInv' /\ Refines
  <1>1. fault' = TRUE /\ UNCHANGED <<table, row, main, thread, jobs, tracked, setsLeft>>
    BY DEF MainFaults
  <1>2. \A r \in Rows : Stage(r)' = Stage(r) /\ Left(r)' = Left(r)
    BY <1>1 DEF Stage, Alive, Left
  <1>3. TypeOK' /\ RowsHaveTheirIndex' /\ LiveRowsAreThere' /\ CachedHaveTheirIndex'
    BY <1>1
    DEF IInv, TypeOK, RowsHaveTheirIndex, LiveRowsAreThere, CachedHaveTheirIndex
  <1>4. TheRow' = TheRow /\ Varbind' = Varbind /\ Unused' = Unused
    BY <1>1 DEF TheRow, Varbind, Unused
  <1>5. RowsAreLeft' /\ HeldIsInserted' /\ OthersWereInserted'
    BY <1>1, <1>4 DEF IInv, RowsAreLeft, HeldIsInserted, OthersWereInserted
  <1>6. ThreadHasRows' /\ KnownAreTracked'
    BY <1>1 DEF IInv, ThreadHasRows, KnownAreTracked, Known, ReaperHoldsLock
  <1>7. ChainsAreStarted'
    BY <1>1, <1>2, ChainsStay
  <1>8. Refines
    BY <1>1, <1>2, NothingHappens DEF UnderWay
  <1> QED
    BY <1>3, <1>5, <1>6, <1>7, <1>8 DEF IInv

-------------------------------------------------------------------------------
(* The scheduler thread, and snmpd between two PDUs.                       *)

\* A step that leaves the main thread and the containers alone, and changes no row but for
\* its ACKS, is none to what the main thread relies on.
LEMMA MainStays ==
    ASSUME IInv, UNCHANGED <<table, main, fault>>, SameRows
    PROVE  /\ RowsHaveTheirIndex' /\ LiveRowsAreThere' /\ CachedHaveTheirIndex'
           /\ RowsAreLeft' /\ HeldIsInserted' /\ OthersWereInserted'
           /\ \A r \in Rows : Stage(r)' = Stage(r)
           /\ \A r \in Rows : Known(r)' => Known(r)
  <1>1. RowsHaveTheirIndex' /\ LiveRowsAreThere'
    BY DEF IInv, TypeOK, RowsHaveTheirIndex, LiveRowsAreThere, SameRows, RowOrNone
  <1>2. CachedHaveTheirIndex'
    <2> SUFFICES ASSUME main.phase # "idle", NEW i \in DOMAIN main.pdu, main.cached[i] # NoRow
                 PROVE  /\ row'[main.cached[i]].index = main.pdu[i].index
                        /\ row'[main.cached[i]].status # "unused"
      BY DEF CachedHaveTheirIndex
    <2>1. main.cached[i] \in Rows
      BY DEF IInv, TypeOK, MainTyped, MainTypes, RowOrNone
    <2> QED
      BY <2>1 DEF IInv, CachedHaveTheirIndex, SameRows
  <1>3. TheRow' = TheRow /\ Varbind' = Varbind
    BY DEF TheRow, Varbind
  <1>4. RowsAreLeft'
    <2>1. Unused' = Unused
      BY DEF SameRows, Unused
    <2> QED
      BY <2>1 DEF IInv, RowsAreLeft
  <1>5. HeldIsInserted'
    <2>1. main.held \in RowOrNone /\ main.ptr \in RowOrNone
      BY DEF IInv, TypeOK, MainTyped, MainTypes
    <2> QED
      BY <1>3, <2>1 DEF IInv, HeldIsInserted, SameRows, RowOrNone
  <1>6. OthersWereInserted'
    BY <1>3, TheRowTyped DEF IInv, OthersWereInserted, SameRows
  <1>7. \A r \in Rows : Stage(r)' = Stage(r)
    BY DEF Stage, Alive, SameRows
  <1>8. \A r \in Rows : Known(r)' => Known(r)
    BY DEF Known, SameRows
  <1> QED
    BY <1>1, <1>2, <1>4, <1>5, <1>6, <1>7, <1>8

\* The rows are what they were.
LEMMA RowsUntouched ==
    ASSUME IInv, UNCHANGED row PROVE SameRows /\ UsedRowsStay
  BY DEF IInv, TypeOK, SameRows, UsedRowsStay

\* A chain ends with its row, or when its reports are spent.
LEMMA InformEndsStep ==
    ASSUME IInv, NEW r \in Rows, InformEnds(r) PROVE IInv' /\ Refines
  <1>1. /\ thread.pc = "idle" /\ jobs[r] > 0 /\ jobs' = [jobs EXCEPT ![r] = jobs[r] - 1]
        /\ UNCHANGED <<table, row, main, thread, tracked, setsLeft, fault>>
    BY DEF InformEnds
  <1>2. /\ RowsHaveTheirIndex' /\ LiveRowsAreThere' /\ CachedHaveTheirIndex'
        /\ RowsAreLeft' /\ HeldIsInserted' /\ OthersWereInserted'
        /\ \A q \in Rows : Stage(q)' = Stage(q)
        /\ \A q \in Rows : Known(q)' => Known(q)
    BY <1>1, RowsUntouched, MainStays
  <1>3. /\ jobs[r] = 1 /\ Stage(r) \in {"started", "gone"} /\ jobs' \in [Rows -> Nat]
        /\ jobs' = [jobs EXCEPT ![r] = 0]
    <2>1. jobs \in [Rows -> Nat] /\ Chains(r) = jobs[r]
      BY <1>1 DEF IInv, TypeOK, Chains
    <2>2. jobs[r] = 1 /\ Stage(r) \in {"started", "gone"}
      BY <1>1, <2>1 DEF IInv, ChainsAreStarted
    <2> QED
      BY <1>1, <2>1, <2>2
  <1>4. TypeOK'
    BY <1>1, <1>3 DEF IInv, TypeOK
  <1>5. ThreadHasRows'
    BY <1>1, RowsUntouched, ThreadStays
  <1>6. ChainsAreStarted'
    <2> SUFFICES ASSUME NEW q \in Rows
                 PROVE  Chains(q)' <= 1 /\ (Chains(q)' > 0 => Stage(q)' \in {"started", "gone"})
      BY DEF ChainsAreStarted
    <2>1. jobs'[q] <= jobs[q] /\ jobs'[q] \in Nat /\ jobs[q] \in Nat
      BY <1>1, <1>3 DEF IInv, TypeOK
    <2>2. Chains(q) \in Nat /\ Chains(q)' \in Nat /\ Chains(q)' <= Chains(q)
      BY <1>1, <2>1 DEF Chains
    <2> QED
      BY <1>2, <2>2 DEF IInv, ChainsAreStarted
  <1>7. KnownAreTracked'
    BY <1>1, <1>2 DEF IInv, KnownAreTracked, ReaperHoldsLock
  <1>8. Refines
    <2>1. Stage(r) = "gone" \/ Left(r) = 0
      BY <1>3 DEF InformEnds, Stage, Left
    <2>2. \A q \in Rows : Left(q)' = Left(q)
      BY <1>1, <1>2 DEF Left
    <2>3. UnderWay' = UnderWay
      BY <1>1 DEF UnderWay
    <2>4. Subscriptions!End(r)
      BY <1>2, <1>3, <2>1, <2>2, <2>3 DEF Subscriptions!End
    <2> QED
      BY <2>4 DEF Refines, Subscriptions!Next
  <1> QED
    BY <1>2, <1>4, <1>5, <1>6, <1>7, <1>8 DEF IInv

\* or goes on with a report of the row,
LEMMA InformSendsStep ==
    ASSUME IInv, NEW r \in Rows, InformSends(r) PROVE IInv' /\ Refines
  <1>1. /\ thread.pc = "idle" /\ jobs[r] > 0 /\ jobs' = [jobs EXCEPT ![r] = jobs[r] - 1]
        /\ Alive(r) /\ row[r].acks # 0
        /\ thread' = [IdleThread EXCEPT !.pc = "inform", !.row = r, !.acks = row[r].acks]
        /\ UNCHANGED <<table, row, main, tracked, setsLeft, fault>>
    BY DEF InformSends
  <1>2. /\ RowsHaveTheirIndex' /\ LiveRowsAreThere' /\ CachedHaveTheirIndex'
        /\ RowsAreLeft' /\ HeldIsInserted' /\ OthersWereInserted'
        /\ \A q \in Rows : Stage(q)' = Stage(q)
        /\ \A q \in Rows : Known(q)' => Known(q)
    BY <1>1, RowsUntouched, MainStays
  <1>3. /\ jobs[r] = 1 /\ Stage(r) = "started" /\ jobs' \in [Rows -> Nat]
        /\ jobs' = [jobs EXCEPT ![r] = 0]
    <2>1. jobs \in [Rows -> Nat] /\ Chains(r) = jobs[r]
      BY <1>1 DEF IInv, TypeOK, Chains
    <2>2. jobs[r] = 1 /\ Stage(r) \in {"started", "gone"}
      BY <1>1, <2>1 DEF IInv, ChainsAreStarted
    <2> QED
      BY <1>1, <2>1, <2>2 DEF Stage
  <1>4. /\ thread' \in ThreadTypes /\ thread'.pc = "inform" /\ thread'.row = r
        /\ thread'.acks = row[r].acks /\ thread'.todo = {} /\ thread'.keep = {}
    BY <1>1 DEF IInv, TypeOK, RowTypes, IdleThread, ThreadTypes, RowOrNone
  <1>5. TypeOK'
    BY <1>1, <1>3, <1>4 DEF IInv, TypeOK
  <1>6. ThreadHasRows'
    <2>1. row[r].index \in SinkIndex /\ row[r].status # "unused" /\ r # NoRow
      BY <1>3, SinksAssumption DEF Stage, IInv, TypeOK, RowTypes, Index
    <2> QED
      BY <1>1, <1>4, <2>1 DEF IInv, ThreadHasRows
  <1>7. ChainsAreStarted'
    <2> SUFFICES ASSUME NEW q \in Rows
                 PROVE  Chains(q)' <= 1 /\ (Chains(q)' > 0 => Stage(q)' \in {"started", "gone"})
      BY DEF ChainsAreStarted
    <2>1. Chains(q)' = Chains(q)
      BY <1>1, <1>3, <1>4 DEF Chains, IInv, TypeOK
    <2> QED
      BY <1>2, <2>1 DEF IInv, ChainsAreStarted
  <1>8. KnownAreTracked'
    BY <1>1, <1>2, <1>4 DEF IInv, KnownAreTracked, ReaperHoldsLock
  <1>9. Refines
    <2>1. Left(r) = row[r].acks
      BY <1>3 DEF Left
    <2>2. \A q \in Rows : Left(q)' = Left(q)
      BY <1>1, <1>2 DEF Left
    <2>3. UnderWay = [of |-> NoRow, left |-> 0] /\ UnderWay' = [of |-> r, left |-> row[r].acks]
      BY <1>1, <1>4 DEF UnderWay
    <2>4. Subscriptions!Report(r)
      BY <1>1, <1>2, <1>3, <2>1, <2>2, <2>3
      DEF Subscriptions!Report, Subscriptions!NoReport
    <2> QED
      BY <2>4 DEF Refines, Subscriptions!Next
  <1> QED
    BY <1>2, <1>5, <1>6, <1>7, <1>8, <1>9 DEF IInv

\* A word that is not zero, less one, is a word.
LEMMA OneLess == \A w \in Words \ {0} : (w - 1) % Modulus = w - 1
  <1> SUFFICES ASSUME NEW w \in Words \ {0} PROVE (w - 1) % Modulus = w - 1
    OBVIOUS
  <1>1. Modulus \in Nat \ {0} /\ w - 1 \in 0 .. Modulus - 1
    BY SinksAssumption DEF Words
  <1> QED
    BY <1>1

\* and when the report is sent the row has one less, whatever was set meanwhile.
LEMMA InformReschedulesStep ==
    ASSUME IInv, InformReschedules PROVE IInv' /\ Refines
  <1>1. PICK r \in Rows : r = thread.row
    BY DEF InformReschedules, IInv, TypeOK, ThreadTypes, RowOrNone, ThreadHasRows
  <1>2. /\ thread.pc = "inform" /\ thread' = IdleThread /\ thread.acks \in Words \ {0}
        /\ UNCHANGED <<table, main, tracked, setsLeft, fault>>
    BY DEF InformReschedules, IInv, TypeOK, ThreadTypes, ThreadHasRows
  <1>3. /\ row' = [row EXCEPT ![r].acks = thread.acks - 1]
        /\ jobs' = [jobs EXCEPT ![r] = jobs[r] + 1]
        /\ thread.acks - 1 \in Words
    <2>1. (thread.acks - 1) % Modulus = thread.acks - 1
      BY <1>2, OneLess
    <2>2. thread.acks - 1 \in Words
      BY <1>2, SinksAssumption DEF Words
    <2> QED
      BY <1>1, <2>1, <2>2 DEF InformReschedules
  <1>4. /\ SameRows /\ row'[r].acks = thread.acks - 1
        /\ \A q \in Rows \ {r} : row'[q] = row[q]
    BY <1>3 DEF IInv, TypeOK, RowTypes, SameRows
  <1>5. /\ RowsHaveTheirIndex' /\ LiveRowsAreThere' /\ CachedHaveTheirIndex'
        /\ RowsAreLeft' /\ HeldIsInserted' /\ OthersWereInserted'
        /\ \A q \in Rows : Stage(q)' = Stage(q)
        /\ \A q \in Rows : Known(q)' => Known(q)
    BY <1>2, <1>4, MainStays
  <1>6. /\ jobs \in [Rows -> Nat] /\ jobs[r] = 0 /\ Stage(r) \in {"started", "gone"}
        /\ jobs' = [jobs EXCEPT ![r] = 1]
    <2>1. jobs \in [Rows -> Nat] /\ Chains(r) = jobs[r] + 1
      BY <1>1, <1>2 DEF IInv, TypeOK, Chains
    <2>2. jobs[r] = 0 /\ Stage(r) \in {"started", "gone"}
      BY <2>1 DEF IInv, ChainsAreStarted
    <2> QED
      BY <1>3, <2>1, <2>2
  <1>7. /\ thread' \in ThreadTypes /\ thread'.pc = "idle" /\ thread'.row = NoRow
        /\ thread'.todo = {} /\ thread'.keep = {}
    BY <1>2, SinksAssumption DEF IdleThread, ThreadTypes, RowOrNone, Words
  <1>8. TypeOK'
    BY <1>2, <1>4, <1>6, <1>7 DEF IInv, TypeOK, SameRows
  <1>9. ThreadHasRows'
    BY <1>2, <1>4, <1>7 DEF IInv, TypeOK, ThreadHasRows, SameRows
  <1>10. ChainsAreStarted'
    <2> SUFFICES ASSUME NEW q \in Rows
                 PROVE  Chains(q)' <= 1 /\ (Chains(q)' > 0 => Stage(q)' \in {"started", "gone"})
      BY DEF ChainsAreStarted
    <2>1. Chains(q)' = Chains(q)
      BY <1>1, <1>2, <1>6, <1>7 DEF Chains, IInv, TypeOK
    <2> QED
      BY <1>5, <2>1 DEF IInv, ChainsAreStarted
  <1>11. KnownAreTracked'
    BY <1>2, <1>5, <1>7 DEF IInv, KnownAreTracked, ReaperHoldsLock
  <1>12. Refines
    <2>1. UnderWay = [of |-> r, left |-> thread.acks] /\ UnderWay' = [of |-> NoRow, left |-> 0]
      BY <1>1, <1>2, <1>7 DEF UnderWay
    <2>2. \A q \in Rows \ {r} : Left(q)' = Left(q)
      BY <1>4, <1>5 DEF Left
    <2>3. Left(r)' = IF Stage(r) = "gone" THEN Left(r) ELSE thread.acks - 1
      BY <1>4, <1>5, <1>6 DEF Left
    <2>4. Subscriptions!Sent(r)
      BY <1>5, <1>6, <2>1, <2>2, <2>3 DEF Subscriptions!Sent, Subscriptions!NoReport
    <2> QED
      BY <2>4 DEF Refines, Subscriptions!Next
  <1> QED
    BY <1>5, <1>8, <1>9, <1>10, <1>11, <1>12 DEF IInv

\* A step of the Reaper that changes only what the Reaper knows begins and ends no chain.
LEMMA ReaperStep ==
    ASSUME IInv, UNCHANGED <<table, row, main, jobs, setsLeft, fault>>,
           thread.pc # "inform", thread'.pc # "inform",
           TypeOK', ThreadHasRows', KnownAreTracked'
    PROVE  IInv' /\ Refines
  <1>1. /\ RowsHaveTheirIndex' /\ LiveRowsAreThere' /\ CachedHaveTheirIndex'
        /\ RowsAreLeft' /\ HeldIsInserted' /\ OthersWereInserted'
        /\ \A q \in Rows : Stage(q)' = Stage(q)
    BY RowsUntouched, MainStays
  <1>2. ChainsAreStarted'
    BY <1>1 DEF IInv, ChainsAreStarted, Chains
  <1>3. Refines
    BY <1>1, NothingHappens DEF UnderWay, Left
  <1> QED
    BY <1>1, <1>2, <1>3 DEF IInv

\* The Reaper copies its list,
LEMMA ReapBeginsStep ==
    ASSUME IInv, ReapBegins PROVE IInv' /\ Refines
  <1>1. /\ thread' = [IdleThread EXCEPT !.pc = "reap", !.todo = tracked]
        /\ thread.pc = "idle" /\ UNCHANGED <<table, row, main, jobs, tracked, setsLeft, fault>>
    BY DEF ReapBegins
  <1>2. /\ thread' \in ThreadTypes /\ thread'.pc = "reap" /\ thread'.todo = tracked
        /\ thread'.keep = {} /\ thread'.row = NoRow
    <2>1. tracked \in SUBSET Rows /\ 0 \in Words
      BY SinksAssumption DEF IInv, TypeOK, Words
    <2> QED
      BY <1>1, <2>1 DEF IdleThread, ThreadTypes, RowOrNone
  <1>3. TypeOK'
    BY <1>1, <1>2 DEF IInv, TypeOK
  <1>4. ThreadHasRows'
    BY <1>1, <1>2 DEF IInv, ThreadHasRows
  <1>5. KnownAreTracked'
    BY <1>1, <1>2 DEF IInv, KnownAreTracked, Known
  <1> QED
    BY <1>1, <1>2, <1>3, <1>4, <1>5, ReaperStep

\* keeps or forgets its rows one by one, or goes on to erase one: there are no rows of the
\* metric table in the range of a row of the sink table;
LEMMA ReapChecksStep ==
    ASSUME IInv, NEW r \in Rows, ReapChecks(r) PROVE IInv' /\ Refines
  <1> DEFINE spent == Alive(r) /\ ~(0 < Signed(row[r].acks))
  <1>1. /\ thread.pc = "reap" /\ r \in thread.todo
        /\ UNCHANGED <<main, jobs, tracked, setsLeft, fault>>
    BY DEF ReapChecks
  <1>2. RangeOf(row[r].index) = {}
    <2>1. row[r].index \in SinkIndex
      BY <1>1 DEF IInv, ThreadHasRows
    <2>2. row[r].index \notin MetricIndex
      BY <2>1 DEF SinkIndex, MetricIndex
    <2>3. ASSUME NEW f \in RangeOf(row[r].index) PROVE FALSE
      <3>1. PICK y \in {z \in MetricIndex : z = row[r].index} : f = table[y]
        BY DEF RangeOf
      <3> QED
        BY <2>2, <3>1
    <2> QED
      BY <2>3
  <1>3. UNCHANGED <<table, row>>
    <2> DEFINE filters == IF spent THEN RangeOf(row[r].index) ELSE {}
    <2>1. /\ table' = [x \in Index |-> IF table[x] \in filters THEN NoRow ELSE table[x]]
          /\ row' = [f \in Rows |-> [row[f] EXCEPT !.freed = @ \/ f \in filters]]
      BY DEF ReapChecks
    <2>2. filters = {}
      BY <1>2
    <2> HIDE DEF filters
    <2>3. table' = table
      BY <2>1, <2>2 DEF IInv, TypeOK
    <2>4. ASSUME NEW f \in Rows PROVE row'[f] = row[f]
      BY <2>1, <2>2 DEF IInv, TypeOK, RowTypes
    <2> QED
      BY <2>1, <2>3, <2>4 DEF IInv, TypeOK
  <1>4. /\ thread' = [thread EXCEPT
                        !.todo = thread.todo \ {r},
                        !.keep = IF Alive(r) /\ ~spent THEN thread.keep \cup {r} ELSE thread.keep,
                        !.pc = IF spent THEN "find" ELSE thread.pc,
                        !.row = IF spent THEN r ELSE NoRow]
    BY DEF ReapChecks
  <1> HIDE DEF spent
  <1>5. /\ thread' \in ThreadTypes /\ thread'.pc = (IF spent THEN "find" ELSE "reap")
        /\ thread'.todo = thread.todo \ {r}
        /\ thread'.keep = IF Alive(r) /\ ~spent THEN thread.keep \cup {r} ELSE thread.keep
        /\ thread'.row = IF spent THEN r ELSE NoRow
    BY <1>1, <1>4 DEF IInv, TypeOK, ThreadTypes, RowOrNone
  <1>6. TypeOK'
    BY <1>1, <1>3, <1>5 DEF IInv, TypeOK
  <1>7. ThreadHasRows'
    BY <1>1, <1>3, <1>5, SinksAssumption DEF IInv, ThreadHasRows
  <1>8. KnownAreTracked'
    <2> SUFFICES ASSUME NEW q \in Rows, Known(q)
                 PROVE  /\ q \in tracked
                        /\ \/ q \in thread'.todo \cup thread'.keep
                           \/ thread'.pc = "find" /\ q = thread'.row
      BY <1>1, <1>3 DEF KnownAreTracked, Known
    <2>1. q \in tracked /\ q \in thread.todo \cup thread.keep
      BY <1>1 DEF IInv, KnownAreTracked, ReaperHoldsLock
    <2>2. CASE q # r
      BY <1>5, <2>1, <2>2
    <2>3. CASE q = r
      <3>1. Alive(r)
        BY <2>3, SinksAssumption
        DEF Known, Alive, IInv, TypeOK, RowTypes, RowsHaveTheirIndex
      <3> QED
        BY <1>5, <2>1, <2>3, <3>1
    <2> QED
      BY <2>2, <2>3
  <1> QED
    BY <1>1, <1>3, <1>5, <1>6, <1>7, <1>8, ReaperStep

\* the row that it finds under the index is the known one;
LEMMA ReapFindsStep ==
    ASSUME IInv, ReapFinds PROVE IInv' /\ Refines
  <1> DEFINE ptr == table[row[thread.row].index]
  <1>1. /\ thread.pc = "find" /\ UNCHANGED <<table, row, main, jobs, tracked, setsLeft, fault>>
        /\ thread' = [thread EXCEPT !.ptr = ptr, !.pc = IF ptr # NoRow THEN "delete" ELSE "reap"]
    BY DEF ReapFinds
  <1>2. /\ thread.row \in Rows /\ row[thread.row].index \in Index /\ ptr \in RowOrNone
        /\ ptr # NoRow => row[ptr].status # "unused"
    BY <1>1 DEF IInv, TypeOK, ThreadTypes, RowTypes, RowOrNone, ThreadHasRows, RowsHaveTheirIndex
  <1>3. /\ thread' \in ThreadTypes /\ thread'.pc = (IF ptr # NoRow THEN "delete" ELSE "reap")
        /\ thread'.todo = thread.todo /\ thread'.keep = thread.keep
        /\ thread'.row = thread.row /\ thread'.ptr = ptr
    <2> HIDE DEF ptr
    <2> QED
      BY <1>1, <1>2 DEF IInv, TypeOK, ThreadTypes
  <1>4. TypeOK'
    BY <1>1, <1>3 DEF IInv, TypeOK
  <1>5. ThreadHasRows'
    BY <1>1, <1>2, <1>3 DEF IInv, ThreadHasRows
  <1>6. KnownAreTracked'
    <2> SUFFICES ASSUME NEW q \in Rows, Known(q)
                 PROVE  /\ q \in tracked
                        /\ \/ q \in thread'.todo \cup thread'.keep
                           \/ thread'.pc = "delete" /\ q = thread'.ptr
      BY <1>1, <1>3 DEF KnownAreTracked, Known
    <2>1. q \in tracked /\ (q \in thread.todo \cup thread.keep \/ q = thread.row)
      BY <1>1 DEF IInv, KnownAreTracked, ReaperHoldsLock
    <2>2. q = thread.row => ptr = q
      BY DEF Known
    <2> QED
      BY <1>3, <2>1, <2>2, SinksAssumption
  <1> QED
    BY <1>1, <1>3, <1>4, <1>5, <1>6, ReaperStep

\* and what it has kept is its list again.
LEMMA ReapEndsStep ==
    ASSUME IInv, ReapEnds PROVE IInv' /\ Refines
  <1>1. /\ thread.pc = "reap" /\ thread.todo = {} /\ tracked' = thread.keep
        /\ thread' = IdleThread /\ UNCHANGED <<table, row, main, jobs, setsLeft, fault>>
    BY DEF ReapEnds
  <1>2. /\ thread' \in ThreadTypes /\ thread'.pc = "idle" /\ thread'.todo = {}
        /\ thread'.keep = {} /\ thread'.row = NoRow
    BY <1>1, SinksAssumption DEF IdleThread, ThreadTypes, RowOrNone, Words
  <1>3. TypeOK'
    BY <1>1, <1>2 DEF IInv, TypeOK, ThreadTypes
  <1>4. ThreadHasRows'
    BY <1>1, <1>2 DEF IInv, ThreadHasRows
  <1>5. KnownAreTracked'
    <2> SUFFICES ASSUME NEW q \in Rows, Known(q) PROVE q \in thread.keep
      BY <1>1, <1>2 DEF KnownAreTracked, Known, ReaperHoldsLock
    <2> QED
      BY <1>1 DEF IInv, KnownAreTracked, ReaperHoldsLock
  <1> QED
    BY <1>1, <1>2, <1>3, <1>4, <1>5, ReaperStep

\* and it erases the row, which the main thread may still hold.
LEMMA ReapDeletesStep ==
    ASSUME IInv, ~fault, ReapDeletes PROVE IInv' /\ Refines
  <1>1. PICK n \in Rows : n = thread.ptr /\ row[n].status # "unused"
    BY DEF ReapDeletes, IInv, TypeOK, ThreadTypes, RowOrNone, ThreadHasRows
  <1>2. /\ thread.pc = "delete" /\ Remove(n)
        /\ thread' = [thread EXCEPT !.ptr = NoRow, !.pc = "reap"]
        /\ UNCHANGED <<main, jobs, tracked, setsLeft>>
    BY <1>1 DEF ReapDeletes
  <1>3. /\ row' \in [Rows -> RowTypes] /\ table' \in [Index -> RowOrNone]
        /\ fault' \in BOOLEAN /\ UsedRowsStay
        /\ RowsHaveTheirIndex' /\ LiveRowsAreThere'
        /\ \A r \in Rows \ {n} : row'[r] = row[r]
        /\ row'[n].freed /\ row'[n].index = row[n].index /\ row'[n].status = row[n].status
    BY <1>1, <1>2, RemoveIs
  <1>4. /\ thread' \in ThreadTypes /\ thread'.pc = "reap" /\ thread'.row = thread.row
        /\ thread'.todo = thread.todo /\ thread'.keep = thread.keep
    BY <1>2 DEF IInv, TypeOK, ThreadTypes, RowOrNone
  <1>5. TypeOK'
    BY <1>2, <1>3, <1>4 DEF IInv, TypeOK
  <1>6. CachedHaveTheirIndex'
    <2> SUFFICES ASSUME main.phase # "idle", NEW i \in DOMAIN main.pdu, main.cached[i] # NoRow
                 PROVE  /\ row'[main.cached[i]].index = main.pdu[i].index
                        /\ row'[main.cached[i]].status # "unused"
      BY <1>2 DEF CachedHaveTheirIndex
    <2>1. main.cached[i] \in Rows
      BY DEF IInv, TypeOK, MainTyped, MainTypes, RowOrNone
    <2> QED
      BY <1>3, <2>1 DEF IInv, CachedHaveTheirIndex, UsedRowsStay
  <1>7. RowsAreLeft'
    <2>1. \A r \in Rows : row'[r].status = row[r].status
      BY <1>3
    <2>2. Unused' = Unused
      BY <2>1 DEF Unused
    <2> QED
      BY <1>2, <2>2 DEF IInv, RowsAreLeft
  <1>8. main.phase # "idle" => \/ TheRow' = TheRow
                               \/ /\ TheRow' = NoRow
                                  /\ Varbind.index = row[n].index
    <2> SUFFICES ASSUME main.phase # "idle"
                 PROVE  TheRow' = TheRow \/ (TheRow' = NoRow /\ Varbind.index = row[n].index)
      OBVIOUS
    <2>1. Varbind.index \in Index /\ Varbind' = Varbind
      BY <1>2, VarbindTyped DEF IInv, TypeOK, Varbind
    <2>2. \/ table'[Varbind.index] = table[Varbind.index]
          \/ Varbind.index = row[n].index /\ table'[Varbind.index] = NoRow
      BY <1>1, <1>2, <2>1, RemoveIs
    <2> QED
      BY <1>2, <2>1, <2>2 DEF TheRow
  <1>9. HeldIsInserted'
    <2>1. /\ main.step # "start" => main.phase \in {"free", "commit"}
          /\ main.step \in {"track", "schedule"} => main.held # NoRow
      BY DEF IInv, HeldIsInserted
    <2>2. main.step = "delete" => main.ptr # NoRow /\ row'[main.ptr].status # "unused"
      BY <1>3 DEF IInv, TypeOK, MainTyped, MainTypes, RowOrNone, HeldIsInserted, UsedRowsStay
    <2>3. ASSUME main.held # NoRow
          PROVE  /\ main.phase = "commit" /\ main.step # "start"
                 /\ Varbind'.index \in SinkIndex
                 /\ row'[main.held].index = Varbind'.index
                 /\ row'[main.held].status = "notInService"
                 /\ TheRow' = main.held \/ (TheRow' = NoRow /\ (row'[main.held].freed \/ fault'))
                 /\ main.step = "delete" => main.ptr = main.held
      <3>1. PICK h \in Rows : h = main.held
        BY <2>3 DEF IInv, TypeOK, MainTyped, MainTypes, RowOrNone
      <3>2. /\ main.phase = "commit" /\ main.step # "start" /\ Varbind.index \in SinkIndex
            /\ row[h].index = Varbind.index /\ row[h].status = "notInService"
            /\ TheRow = h \/ (TheRow = NoRow /\ row[h].freed)
            /\ main.step = "delete" => main.ptr = h
        BY <2>3, <3>1 DEF IInv, HeldIsInserted
      <3>3. Varbind' = Varbind
        BY <1>2 DEF Varbind
      <3>4. row'[h].index = row[h].index /\ row'[h].status = row[h].status
        BY <1>3
      <3>5. TheRow' = h \/ (TheRow' = NoRow /\ (row'[h].freed \/ fault'))
        <4>1. CASE h = n
          BY <1>3, <1>8, <3>2, <4>1
        <4>2. CASE h # n /\ TheRow' = NoRow /\ TheRow = h /\ Varbind.index = row[n].index
          <5>1. h # NoRow
            BY SinksAssumption
          <5>2. row[n].freed \/ table[row[n].index] = n
            BY <1>1 DEF IInv, LiveRowsAreThere
          <5>3. fault' = row[n].freed
            BY <1>2 DEF Remove
          <5>4. CASE row[n].freed
            BY <4>2, <5>3, <5>4
          <5>5. CASE table[row[n].index] = n /\ ~row[n].freed
            <6>1. row[h].freed \/ table[row[h].index] = h
              BY <3>2 DEF IInv, LiveRowsAreThere
            <6>2. row[h].freed
              BY <3>2, <4>2, <5>5, <6>1
            <6> QED
              BY <1>3, <4>2, <6>2
          <5> QED
            BY <5>2, <5>4, <5>5
        <4>3. CASE h # n /\ (TheRow' = TheRow \/ TheRow = NoRow)
          BY <1>3, <1>8, <3>2, <4>3
        <4> QED
          BY <1>8, <3>2, <4>1, <4>2, <4>3
      <3> QED
        BY <3>1, <3>2, <3>3, <3>4, <3>5
    <2> QED
      BY <1>2, <2>1, <2>2, <2>3 DEF HeldIsInserted
  <1>10. OthersWereInserted'
    <2> SUFFICES ASSUME main.phase = "commit", main.step = "status", main.held = NoRow,
                        Varbind'.index \in SinkIndex, TheRow' # NoRow
                 PROVE  row'[TheRow'].status \in {"active", "notReady"}
      BY <1>2 DEF OthersWereInserted
    <2>1. Varbind' = Varbind /\ TheRow' = TheRow
      BY <1>2, <1>8 DEF Varbind
    <2>2. TheRow \in Rows /\ row[TheRow].status \in {"active", "notReady"}
      BY <2>1, TheRowTyped DEF IInv, OthersWereInserted
    <2>3. row'[TheRow].status = row[TheRow].status
      BY <1>3, <2>2
    <2> QED
      BY <2>1, <2>2, <2>3
  <1>11. ThreadHasRows'
    BY <1>2, <1>3, <1>4 DEF IInv, TypeOK, ThreadTypes, RowOrNone, ThreadHasRows, UsedRowsStay
  <1>12. ASSUME NEW r \in Rows \ {n} PROVE Stage(r)' = Stage(r)
    BY <1>2, <1>3 DEF Stage, Alive
  <1>13. Stage(n)' = Stage(n) \/ (Stage(n) \in {"made", "started"} /\ Stage(n)' = "gone")
    BY <1>1, <1>2, <1>3 DEF Stage, Alive
  <1>14. ChainsAreStarted'
    <2> SUFFICES ASSUME NEW q \in Rows
                 PROVE  Chains(q)' <= 1 /\ (Chains(q)' > 0 => Stage(q)' \in {"started", "gone"})
      BY DEF ChainsAreStarted
    <2>1. Chains(q)' = Chains(q)
      BY <1>2, <1>4 DEF Chains
    <2> QED
      BY <1>12, <1>13, <2>1 DEF IInv, ChainsAreStarted
  <1>15. KnownAreTracked'
    <2> SUFFICES ASSUME NEW q \in Rows, Known(q)'
                 PROVE  q \in tracked /\ q \in thread'.todo \cup thread'.keep
      BY <1>2, <1>4 DEF KnownAreTracked
    <2>1. Known(q) /\ row[q].index # row[n].index
      BY <1>1, <1>2, RemoveForgets
    <2> QED
      BY <1>1, <1>2, <1>4, <2>1 DEF IInv, KnownAreTracked, ReaperHoldsLock
  <1>16. Refines
    <2>1. \A r \in Rows \ {n} : Left(r)' = Left(r)
      BY <1>3, <1>12 DEF Left
    <2>2. UnderWay' = UnderWay /\ jobs' = jobs
      BY <1>2, <1>4 DEF UnderWay
    <2>3. CASE Stage(n)' = Stage(n)
      <3>1. row'[n].acks = row[n].acks
        BY <1>2 DEF Remove, IInv, TypeOK
      <3> QED
        BY <1>12, <2>1, <2>2, <2>3, <3>1, NothingHappens DEF Left
    <2>4. CASE Stage(n) \in {"made", "started"} /\ Stage(n)' = "gone"
      BY <1>12, <2>1, <2>2, <2>4, OneIsRemoved
    <2> QED
      BY <1>13, <2>3, <2>4
  <1> QED
    BY <1>3, <1>5, <1>6, <1>7, <1>9, <1>10, <1>11, <1>14, <1>15, <1>16 DEF IInv

\* snmpd takes the next PDU, looks its rows up, and goes into RESERVE1.
LEMMA ReceiveStep ==
    ASSUME IInv, NEW p \in Pdus, Receive(p) PROVE IInv' /\ Refines
  <1> DEFINE cached == [i \in DOMAIN p |-> table[p[i].index]]
             backup == [i \in DOMAIN p |-> -1]
  <1>1. /\ main.phase = "idle" /\ setsLeft > 0 /\ setsLeft' = setsLeft - 1
        /\ Cardinality(Unused) >= Len(p)
        /\ main' = [IdleMain EXCEPT !.phase = "reserve1", !.pdu = p,
                                    !.cached = cached, !.backup = backup]
        /\ UNCHANGED <<table, row, thread, jobs, tracked, fault>>
    BY DEF Receive
  <1>2. /\ Len(p) \in Nat \ {0} /\ DOMAIN p = 1 .. Len(p)
        /\ \A i \in DOMAIN p : p[i].index \in Index
    BY SinksAssumption DEF Index
  <1>3. /\ cached \in Seq(RowOrNone) /\ backup \in Seq(Words \cup {-1})
        /\ DOMAIN cached = DOMAIN p /\ DOMAIN backup = DOMAIN p
        /\ \A i \in DOMAIN p : cached[i] = table[p[i].index]
    BY <1>2 DEF IInv, TypeOK
  <1> HIDE DEF cached, backup
  <1>4. /\ main'.phase = "reserve1" /\ main'.pdu = p /\ main'.pos = 1 /\ main'.held = NoRow
        /\ main'.step = "start" /\ main'.cached = cached /\ main'.backup = backup
        /\ main' \in MainTypes
    BY <1>1, <1>3 DEF IdleMain, MainTypes, RowOrNone
  <1>5. MainTyped(main)'
    BY <1>2, <1>3, <1>4 DEF MainTyped
  <1>6. main.held = NoRow
    BY <1>1, NothingHeld
  <1>7. SameRows
    BY <1>1, RowsUntouched
  <1>8. CachedHaveTheirIndex'
    BY <1>1, <1>2, <1>3, <1>4 DEF IInv, RowsHaveTheirIndex, CachedHaveTheirIndex
  <1>9. RowsAreLeft'
    <2>1. Unused' = Unused /\ Cardinality(Unused) \in Nat
      BY <1>1, SinksAssumption, FS_Subset, FS_CardinalityType DEF Unused
    <2> QED
      BY <1>1, <1>2, <1>4, <2>1 DEF RowsAreLeft
  <1>10. HeldIsInserted' /\ OthersWereInserted'
    BY <1>4 DEF HeldIsInserted, OthersWereInserted
  <1>11. TypeOK'
    <2>1. setsLeft' \in 0 .. Sets
      BY <1>1, SinksAssumption DEF IInv, TypeOK
    <2> QED
      BY <1>1, <1>5, <2>1 DEF IInv, TypeOK
  <1>12. RowsHaveTheirIndex' /\ LiveRowsAreThere' /\ ThreadHasRows'
    BY <1>1 DEF IInv, RowsHaveTheirIndex, LiveRowsAreThere, ThreadHasRows
  <1>13. \A r \in Rows : Stage(r)' = Stage(r)
    BY <1>1, <1>4, <1>6, SinksAssumption DEF Stage, Alive
  <1>14. ChainsAreStarted'
    BY <1>1, <1>13, ChainsStay
  <1>15. KnownAreTracked'
    <2>1. \A r \in Rows : Known(r)' => Known(r)
      BY <1>1, <1>4, SinksAssumption DEF Known
    <2> QED
      BY <1>1, <2>1 DEF IInv, KnownAreTracked, ReaperHoldsLock
  <1>16. Refines
    BY <1>1, <1>13, NothingHappens DEF UnderWay, Left
  <1> QED
    BY <1>8, <1>9, <1>10, <1>11, <1>12, <1>14, <1>15, <1>16 DEF IInv

-------------------------------------------------------------------------------
(* The specification.                                                      *)

\* At the start there is no row, no job, and no PDU.
LEMMA InitInvariant == Init => IInv /\ Subscriptions!Init
  <1> SUFFICES ASSUME Init PROVE IInv /\ Subscriptions!Init
    OBVIOUS
  <1>1. /\ main = IdleMain /\ main.phase = "idle" /\ main.held = NoRow /\ main.step = "start"
        /\ thread = IdleThread /\ thread.pc = "idle" /\ thread.row = NoRow
        /\ thread.todo = {} /\ thread.keep = {} /\ tracked = {}
    BY DEF Init, IdleMain, IdleThread
  <1>2. \A x \in Index : table[x] = NoRow
    BY DEF Init
  <1>3. SinkIndex # {} /\ SinkIndex \subseteq Index
    BY SinksAssumption DEF SinkIndex, Index
  <1>4. \A r \in Rows : /\ row[r].index \in SinkIndex /\ row[r].status = "unused"
                        /\ row[r].acks = 0 /\ ~row[r].freed
    BY <1>3 DEF Init
  <1>5. TypeOK
    <2>1. table \in [Index -> RowOrNone]
      BY DEF Init, RowOrNone
    <2>2. row \in [Rows -> RowTypes]
      <3>1. 0 \in Words /\ (CHOOSE x \in SinkIndex : TRUE) \in Index
        BY <1>3, SinksAssumption DEF Words
      <3> QED
        BY <3>1 DEF Init, RowTypes
    <2>3. MainTyped(main)
      BY <1>1 DEF MainTyped, MainTypes, IdleMain, RowOrNone
    <2>4. thread \in ThreadTypes
      <3>1. 0 \in Words
        BY SinksAssumption DEF Words
      <3> QED
        BY <1>1, <3>1 DEF ThreadTypes, IdleThread, RowOrNone
    <2>5. jobs \in [Rows -> Nat] /\ tracked \subseteq Rows /\ fault \in BOOLEAN
      BY DEF Init
    <2>6. setsLeft \in 0 .. Sets
      BY SinksAssumption DEF Init
    <2> QED
      BY <2>1, <2>2, <2>3, <2>4, <2>5, <2>6 DEF TypeOK
  <1>6. RowsHaveTheirIndex /\ LiveRowsAreThere /\ CachedHaveTheirIndex /\ RowsAreLeft
    BY <1>1, <1>2, <1>4
    DEF RowsHaveTheirIndex, LiveRowsAreThere, CachedHaveTheirIndex, RowsAreLeft
  <1>7. HeldIsInserted /\ OthersWereInserted /\ ThreadHasRows
    BY <1>1 DEF HeldIsInserted, OthersWereInserted, ThreadHasRows
  <1>8. \A r \in Rows : Stage(r) = "none" /\ Left(r) = 0 /\ Chains(r) = 0 /\ jobs[r] = 0
    BY <1>1, <1>4 DEF Stage, Left, Chains, Init
  <1>9. ChainsAreStarted
    BY <1>8 DEF ChainsAreStarted
  <1>10. KnownAreTracked
    BY <1>1, <1>2, <1>3, <1>4, SinksAssumption DEF KnownAreTracked, Known
  <1>11. Subscriptions!Init
    <2>1. UnderWay = [of |-> NoRow, left |-> 0] /\ jobs = [r \in Rows |-> 0]
      BY <1>1 DEF UnderWay, Init
    <2> QED
      BY <1>8, <2>1 DEF Subscriptions!Init, Subscriptions!NoReport
  <1> QED
    BY <1>5, <1>6, <1>7, <1>9, <1>10, <1>11 DEF IInv

\* Where nothing happens, nothing is lost.
LEMMA StutterStep ==
    ASSUME IInv, UNCHANGED vars PROVE IInv' /\ Refines
  <1>1. SameRows /\ UNCHANGED <<table, row, main, thread, jobs, tracked, setsLeft, fault>>
    BY RowsUntouched DEF vars
  <1>2. /\ RowsHaveTheirIndex' /\ LiveRowsAreThere' /\ CachedHaveTheirIndex'
        /\ RowsAreLeft' /\ HeldIsInserted' /\ OthersWereInserted'
        /\ \A q \in Rows : Stage(q)' = Stage(q)
        /\ \A q \in Rows : Known(q)' => Known(q)
    BY <1>1, MainStays
  <1>3. TypeOK' /\ ThreadHasRows'
    BY <1>1 DEF IInv, TypeOK, ThreadHasRows
  <1>4. ChainsAreStarted'
    BY <1>1, <1>2, ChainsStay
  <1>5. KnownAreTracked'
    BY <1>1, <1>2 DEF IInv, KnownAreTracked, ReaperHoldsLock
  <1>6. Refines
    BY <1>1, <1>2, NothingHappens DEF UnderWay, Left
  <1> QED
    BY <1>2, <1>3, <1>4, <1>5, <1>6 DEF IInv

\* Each step of the main thread,
LEMMA MainThreadStep ==
    ASSUME IInv, ~fault, MainThread PROVE IInv' /\ Refines
  <1>1. CASE ReserveInsert
    BY <1>1, ReserveInsertStep
  <1>2. CASE ReserveStatus
    BY <1>2, ReserveStatusStep
  <1>3. CASE ReserveColumn
    BY <1>3, ReserveColumnStep
  <1>4. CASE Put
    BY <1>4, PutStep
  <1>5. CASE Rollback
    BY <1>5, RollbackStep
  <1>6. CASE Delete
    BY <1>6, DeleteStep
  <1>7. CASE CommitBegins
    BY <1>7, CommitBeginsStep
  <1>8. CASE Track
    BY <1>8, TrackStep
  <1>9. CASE Schedule
    BY <1>9, ScheduleStep
  <1>10. CASE CommitStatus
    BY <1>10, CommitCreatesStep, CommitNothingStep, CommitFindsStep
  <1>11. CASE MainFaults
    BY <1>11, MainFaultsStep
  <1> QED
    BY <1>1, <1>2, <1>3, <1>4, <1>5, <1>6, <1>7, <1>8, <1>9, <1>10, <1>11 DEF MainThread

\* and of the scheduler thread, preserves the invariant and is one of Subscription or none.
LEMMA SchedulerThreadStep ==
    ASSUME IInv, ~fault, SchedulerThread PROVE IInv' /\ Refines
  <1>1. ASSUME NEW r \in Rows, InformEnds(r) PROVE IInv' /\ Refines
    BY <1>1, InformEndsStep
  <1>2. ASSUME NEW r \in Rows, InformSends(r) PROVE IInv' /\ Refines
    BY <1>2, InformSendsStep
  <1>3. ASSUME NEW r \in Rows, ReapChecks(r) PROVE IInv' /\ Refines
    BY <1>3, ReapChecksStep
  <1>4. CASE InformReschedules
    BY <1>4, InformReschedulesStep
  <1>5. CASE ReapsNothing
    BY <1>5, StutterStep DEF ReapsNothing
  <1>6. CASE ReapBegins
    BY <1>6, ReapBeginsStep
  <1>7. CASE ReapFinds
    BY <1>7, ReapFindsStep
  <1>8. CASE ReapDeletes
    BY <1>8, ReapDeletesStep
  <1>9. CASE ReapEnds
    BY <1>9, ReapEndsStep
  <1> QED
    BY <1>1, <1>2, <1>3, <1>4, <1>5, <1>6, <1>7, <1>8, <1>9 DEF SchedulerThread

\* A step of either thread, or of snmpd.
LEMMA NextStep == IInv /\ [Next]_vars => IInv' /\ Refines
  <1> SUFFICES ASSUME IInv, [Next]_vars PROVE IInv' /\ Refines
    OBVIOUS
  <1>1. CASE ~fault /\ \E p \in Pdus : Receive(p)
    BY <1>1, ReceiveStep
  <1>2. CASE ~fault /\ MainThread
    BY <1>2, MainThreadStep
  <1>3. CASE ~fault /\ SchedulerThread
    BY <1>3, SchedulerThreadStep
  <1>4. CASE Halted \/ UNCHANGED vars
    BY <1>4, StutterStep DEF Halted
  <1> QED
    BY <1>1, <1>2, <1>3, <1>4 DEF Next

\* The inductive invariant holds in every state.
THEOREM SinksInvariant == Spec => []IInv
  <1>1. IInv /\ [Next]_vars => IInv'
    BY NextStep
  <1> QED
    BY <1>1, InitInvariant, PTL DEF Spec

\* Types of the variables, of what the PDU keeps for each varbind among them.
THEOREM SinksTypeCorrect == Spec => []TypeOK
  <1>1. IInv => TypeOK
    BY DEF IInv
  <1> QED
    BY <1>1, SinksInvariant, PTL

\* A row has one chain of Inform jobs at most (sink.cpp:159-166, handler.h:91-101): the
\* row that inserted() recognises was not committed before.
THEOREM SinksOneChainPerRow == Spec => []OneChainPerRow
  <1>1. IInv => OneChainPerRow
    BY DEF IInv, ChainsAreStarted, OneChainPerRow
  <1> QED
    BY <1>1, SinksInvariant, PTL

\* A committed row is in the list of the Reaper, also while the Reaper walks the list.
THEOREM SinksCommittedRowsAreTracked == Spec => []CommittedRowsAreTracked
  <1>1. IInv => CommittedRowsAreTracked
    BY DEF IInv, KnownAreTracked, Known, Committed, CommittedRowsAreTracked
  <1> QED
    BY <1>1, SinksInvariant, PTL

\* The containers hold no deleted row, and each row under its index.
THEOREM SinksContainersHoldLiveRows == Spec => []ContainersHoldLiveRows
  <1>1. IInv => ContainersHoldLiveRows
    BY DEF IInv, RowsHaveTheirIndex, ContainersHoldLiveRows
  <1> QED
    BY <1>1, SinksInvariant, PTL

\* The two threads, the four phases of a SET and the Reaper implement a subscription that
\* is started once, whose reports count down, and that ends with its row.
THEOREM SinksRefinement == Spec => ImplementsSubscription
  <1>1. IInv /\ [Next]_vars => [Subscriptions!Next]_Subscriptions!subscriptionVars
    BY NextStep DEF Refines
  <1> QED
    BY <1>1, InitInvariant, SinksInvariant, PTL
    DEF Spec, ImplementsSubscription, Subscriptions!Spec

===============================================================================
