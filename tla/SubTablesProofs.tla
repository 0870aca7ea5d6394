----------------------------- MODULE SubTablesProofs ----------------------------
(***************************************************************************)
(* Proofs about SubTables, for any devices and any bounds.                 *)
(*                                                                         *)
(* Only the counters of the guest have a row with the index of the VE, so  *)
(* that the range of a merge is empty for all other tables (RangeIs): a    *)
(* row of a device is never taken away, and a merge inserts what is left   *)
(* of its map (DisksAreIn, CpusAreIn).                                     *)
(***************************************************************************)
EXTENDS SubTables, TLAPS

\* The row with the index of the VE, of each table.
ParentsAre ==
    /\ \A k \in Kinds \ {"counters"} : ~table[k][Parent].in
    /\ ~table["counters"][Parent].in => table["counters"][Parent].query = Never

\* A merge has a range only over the counters, and that is the row of the VE.
RangeIs ==
    /\ job.range \subseteq {Parent}
    /\ job.range # {} =>
          job.pc = "merge" /\ job.kind = "counters" /\ table["counters"][Parent].in

\* The map of a merge has what was sampled of its kind, and is empty outside of one.
MapIs ==
    /\ job.kind = "counters" => DOMAIN job.map \subseteq {Parent}
    /\ job.kind # "counters" => DOMAIN job.map \subseteq {Of(d) : d \in Devices}
    /\ job.pc # "merge" => DOMAIN job.map = {}
    /\ \A x \in DOMAIN job.map : job.map[x].in

\* What is not in the map of the merge any more is in the table.
DisksAreIn ==
    job.pc # "idle" =>
        \A d \in job.sample["disk"] :
            \/ table["disk"][Of(d)].in
            \/ job.kind = "disk" /\ (job.pc = "merge" => Of(d) \in DOMAIN job.map)

CpusAreIn ==
    job.pc # "idle" =>
        \A d \in job.counted :
            \/ table["cpu"][Of(d)].in
            \/ job.kind \in {"disk", "network"}
            \/ job.kind = "cpu" /\ (job.pc = "merge" => Of(d) \in DOMAIN job.map)
            \/ job.sample["cpu"] = {}

\* The counters that are there before the merge are in its range.
CountersAre ==
    job.kind = "counters" =>
        /\ job.pc = "merge" => \A x \in DOMAIN job.map : job.map[x].query \in {Never, job.at}
        /\ job.pc = "idle" \/ (job.pc = "merge" /\ job.range = {}) =>
             table["counters"][Parent].query \in {Never, job.at}

\* The event in progress is of a device, and the row that it has found stays in the table.
CallbackIs ==
    /\ callback.pc # "idle" => callback.kind # "counters" /\ callback.device \in Devices
    /\ callback.pc = "put" /\ callback.bound =>
         table[callback.kind][Of(callback.device)].in

\* The inductive invariant, beside the types.
IInv ==
    ParentsAre /\ RangeIs /\ MapIs /\ DisksAreIn /\ CpusAreIn /\ CountersAre /\ CallbackIs

-------------------------------------------------------------------------------
(* The types.                                                              *)

\* The ordinals are numbers, and the slots of a kind are devices.
LEMMA SlotsAreDevices ==
    /\ Devices \subseteq Nat \ {0}
    /\ \A k \in Kinds : Slots[k] \subseteq Devices
<1>1. \A k \in Kinds : Slots[k] \subseteq Nat \ {0}
  BY SubTablesAssumption
<1>2. \A d \in Devices : \E k \in Kinds : d \in Slots[k]
  BY DEF Devices
<1>3. \A k \in Kinds : \A d \in Slots[k] : d \in Devices
  BY DEF Devices
<1> QED
  BY <1>1, <1>2, <1>3

\* The row of a device is not that of the VE, nor of another device.
LEMMA IndexIs ==
    /\ Parent \in Index
    /\ \A d \in Devices : Of(d) \in Index /\ Of(d) # Parent
    /\ \A d, e \in Devices : Of(d) = Of(e) => d = e
<1>1. \A d, e \in Devices : <<0, d>> # <<0>> /\ (<<0, d>> = <<0, e>> => d = e)
  OBVIOUS
<1> QED
  BY <1>1 DEF Index, Parent, Of

\* The maps are the functions of a set of indices to rows.
LEMMA MapsAre ==
    /\ \A D \in SUBSET Index : \A f \in [D -> Rows] : f \in Maps
    /\ \A m \in Maps : DOMAIN m \subseteq Index /\ m \in [DOMAIN m -> Rows]
BY DEF Maps

\* A map without a row.
LEMMA WithoutIs ==
    ASSUME NEW m \in Maps, NEW x
    PROVE  /\ Without(m, x) \in Maps
           /\ DOMAIN Without(m, x) = DOMAIN m \ {x}
           /\ \A y \in DOMAIN m \ {x} : Without(m, x)[y] = m[y]
<1>1. DOMAIN m \subseteq Index /\ m \in [DOMAIN m -> Rows]
  BY MapsAre
<1>2. /\ DOMAIN Without(m, x) = DOMAIN m \ {x}
      /\ \A y \in DOMAIN m \ {x} : Without(m, x)[y] = m[y]
  BY DEF Without
<1>3. Without(m, x) \in [DOMAIN m \ {x} -> Rows]
  BY <1>1 DEF Without
<1> QED
  BY <1>1, <1>2, <1>3, MapsAre

\* A row that was read at the time q.
LEMMA RowIs ==
    ASSUME NEW q \in Times
    PROVE  Row(q) \in Rows /\ Row(q).query = q /\ Row(q).in = TRUE
BY DEF Row, Rows

\* The map of a set of devices, read at the time q.
LEMMA MapOfDevices ==
    ASSUME NEW q \in Times, NEW D \in SUBSET Devices
    PROVE  /\ Map(D, q) \in Maps
           /\ DOMAIN Map(D, q) = {Of(d) : d \in D}
           /\ \A x \in DOMAIN Map(D, q) : Map(D, q)[x] = Row(q)
<1>1. {Of(d) : d \in D} \in SUBSET Index
  BY IndexIs
<1>2. Map(D, q) \in [{Of(d) : d \in D} -> Rows]
  BY RowIs DEF Map
<1> QED
  BY <1>1, <1>2, MapsAre DEF Map

\* What is typed stays so when the time goes on, or stays.
LEMMA TimesGrow ==
    ASSUME time \in Nat, time' \in Nat, time <= time'
    PROVE  /\ Times \subseteq Times' /\ Rows \subseteq Rows' /\ Maps \subseteq Maps'
           /\ JobTypes \subseteq JobTypes' /\ CallbackTypes \subseteq CallbackTypes'
<1>1. Times \subseteq Times'
  BY DEF Times
<1>2. Rows \subseteq Rows'
  BY <1>1 DEF Rows
<1>3. Maps \subseteq Maps'
  <2> SUFFICES ASSUME NEW D \in SUBSET Index, NEW m \in [D -> Rows] PROVE m \in Maps'
    BY DEF Maps
  <2>1. m \in [D -> Rows']
    BY <1>2
  <2> QED
    BY <2>1 DEF Maps
<1>4. JobTypes \subseteq JobTypes'
  BY <1>1, <1>3 DEF JobTypes
<1>5. CallbackTypes \subseteq CallbackTypes'
  BY <1>1 DEF CallbackTypes
<1> QED
  BY <1>1, <1>2, <1>3, <1>4, <1>5

\* So a step that leaves the time alone need only be looked at for what it changes.
LEMMA TypesStay ==
    ASSUME TypeOK, UNCHANGED time,
           present' \in BOOLEAN, devices' \in [Kinds -> SUBSET Devices],
           changesLeft' \in 0 .. Changes, number' \subseteq Devices,
           table' \in [Kinds -> [Index -> Rows]], job' \in JobTypes,
           callback' \in CallbackTypes
    PROVE  TypeOK'
<1>1. time \in Nat /\ time' \in Nat /\ time <= time' /\ time' \in 1 .. Readings
  BY SubTablesAssumption DEF TypeOK
<1>2. Rows \subseteq Rows' /\ JobTypes \subseteq JobTypes' /\ CallbackTypes \subseteq CallbackTypes'
  BY <1>1, TimesGrow
<1>3. table' \in [Kinds -> [Index -> Rows']]
  BY <1>2
<1> QED
  BY <1>1, <1>2, <1>3 DEF TypeOK

\* The states between two pulls, and two events.
LEMMA IdleIsTyped ==
    ASSUME TypeOK
    PROVE  /\ Never \in Times /\ EmptyMap \in Maps /\ DOMAIN EmptyMap = {}
           /\ Idle \in JobTypes /\ IdleCallback \in CallbackTypes
<1>1. Never \in Times
  BY DEF TypeOK, Times, Never
<1>2. EmptyMap \in Maps /\ DOMAIN EmptyMap = {}
  <2>1. EmptyMap \in [{} -> Rows]
    BY DEF EmptyMap
  <2> QED
    BY <2>1, MapsAre
<1>3. [k \in Kinds |-> {}] \in [Kinds -> SUBSET Devices] /\ "disk" \in Kinds
  BY DEF Kinds
<1>4. Idle \in JobTypes
  BY <1>1, <1>2, <1>3 DEF Idle, JobTypes
<1>5. IdleCallback \in CallbackTypes
  BY <1>1, <1>3 DEF IdleCallback, CallbackTypes
<1> QED
  BY <1>1, <1>2, <1>4, <1>5

\* The range of a merge is the row with the index of the VE, if there is one.
LEMMA RangeIsParent ==
    ASSUME NEW k \in Kinds
    PROVE  RangeOf(k, Parent) = IF table[k][Parent].in THEN {Parent} ELSE {}
BY IndexIs DEF RangeOf

\* The steps of the host, of pullState, and the question for a sample.
LEMMA HostTypes ==
    ASSUME TypeOK,
           \/ Tick \/ Leave \/ Return \/ PullState \/ Ask
           \/ \E k \in Kinds \ {"counters"}, d \in Devices :
                Attach(k, d) \/ Detach(k, d) \/ Event(k, d)
    PROVE  TypeOK'
<1>1. /\ present \in BOOLEAN /\ devices \in [Kinds -> SUBSET Devices]
      /\ time \in Nat /\ time \in 1 .. Readings /\ changesLeft \in 0 .. Changes
      /\ number \subseteq Devices /\ table \in [Kinds -> [Index -> Rows]]
      /\ job \in JobTypes /\ callback \in CallbackTypes /\ Changes \in Nat /\ Readings \in Nat
      /\ {"cpu", "disk"} \subseteq Kinds
  BY SubTablesAssumption DEF TypeOK, Kinds
<1>2. CASE Tick
  <2>1. time' \in 1 .. Readings /\ time' \in Nat /\ time <= time'
    BY <1>1, <1>2 DEF Tick
  <2>2. Rows \subseteq Rows' /\ JobTypes \subseteq JobTypes'
        /\ CallbackTypes \subseteq CallbackTypes'
    BY <1>1, <2>1, TimesGrow
  <2>3. table' \in [Kinds -> [Index -> Rows']]
    BY <1>1, <1>2, <2>2 DEF Tick
  <2> QED
    BY <1>1, <1>2, <2>1, <2>2, <2>3 DEF TypeOK, Tick
<1>3. ASSUME Changed
      PROVE  changesLeft' \in 0 .. Changes /\ UNCHANGED <<time, table, job, callback>>
  BY <1>1, <1>3 DEF Changed
<1>4. CASE Leave
  BY <1>1, <1>3, <1>4, TypesStay DEF Leave
<1>5. CASE Return
  <2>1. number' \subseteq Devices
    BY <1>1, <1>5 DEF Return
  <2> QED
    BY <1>1, <1>3, <1>5, <2>1, TypesStay DEF Return
<1>6. ASSUME NEW k \in Kinds, NEW d \in Devices, Attach(k, d) \/ Detach(k, d)
      PROVE  TypeOK'
  <2>1. devices' \in [Kinds -> SUBSET Devices]
    BY <1>1, <1>6 DEF Attach, Detach
  <2>2. Changed /\ UNCHANGED <<present, number>>
    BY <1>6 DEF Attach, Detach
  <2> QED
    BY <1>1, <1>3, <2>1, <2>2, TypesStay
<1>7. CASE PullState
  <2>1. number' \subseteq Devices
    BY <1>1, <1>7 DEF PullState
  <2> QED
    BY <1>1, <1>7, <2>1, TypesStay DEF PullState, host
<1>8. CASE Ask
  <2>1. time \in Times
    BY <1>1 DEF Times
  <2>2. job' \in JobTypes
    <3>1. job' = [Idle EXCEPT !.pc = "fill", !.at = time, !.sample = devices,
                              !.counted = number]
      BY <1>8 DEF Ask
    <3> QED
      BY <1>1, <2>1, <3>1, IdleIsTyped DEF JobTypes
  <2> QED
    BY <1>1, <1>8, <2>2, TypesStay DEF Ask, host
<1>9. ASSUME NEW k \in Kinds, NEW d \in Devices, Event(k, d)
      PROVE  TypeOK'
  <2>1. time \in Times
    BY <1>1 DEF Times
  <2>2. callback' \in CallbackTypes
    <3>1. callback' = [IdleCallback EXCEPT !.pc = "find", !.kind = k, !.device = d, !.at = time]
      BY <1>9 DEF Event
    <3> QED
      BY <1>1, <2>1, <3>1, IdleIsTyped DEF CallbackTypes
  <2> QED
    BY <1>1, <1>9, <2>2, TypesStay DEF Event, host
<1> QED
  BY <1>2, <1>4, <1>5, <1>6, <1>7, <1>8, <1>9

\* A row that is inserted, or that a value is put into.
LEMMA InsertedIs ==
    ASSUME TypeOK, NEW k \in Kinds, NEW x \in Index, NEW r \in Rows
    PROVE  /\ Inserted(k, x, r) \in [Kinds -> [Index -> Rows]]
           /\ r.in => Inserted(k, x, r)[k][x].in
           /\ Inserted(k, x, r)[k][x] = IF table[k][x].in THEN table[k][x] ELSE r
           /\ \A l \in Kinds, y \in Index :
                l # k \/ y # x => Inserted(k, x, r)[l][y] = table[l][y]
BY DEF TypeOK, Inserted

-------------------------------------------------------------------------------
(* The merges.                                                             *)

\* The fields of the job and their types.
LEMMA JobIs ==
    ASSUME TypeOK
    PROVE  /\ job.pc \in {"idle", "fill", "merge"} /\ job.kind \in Kinds /\ job.at \in Times
           /\ job.sample \in [Kinds -> SUBSET Devices] /\ job.counted \subseteq Devices
           /\ job.map \in Maps /\ job.range \subseteq Index
BY DEF TypeOK, JobTypes

\* A step that changes the job only keeps IInv if it keeps what that says of the job.
LEMMA JobStep ==
    ASSUME TypeOK, IInv, UNCHANGED <<host, number, table, callback>>, job' \in JobTypes,
           RangeIs', MapIs', DisksAreIn', CpusAreIn', CountersAre'
    PROVE  TypeOK' /\ IInv'
<1>1. TypeOK'
  BY TypesStay DEF TypeOK, host
<1>2. ParentsAre' /\ CallbackIs'
  BY DEF IInv, ParentsAre, CallbackIs
<1> QED
  BY <1>1, <1>2 DEF IInv

\* A merge begins with the map that has all that is to be in the table.
LEMMA FillStep ==
    ASSUME TypeOK, IInv, NEW m \in Maps, Fills(m),
           IF job.kind = "counters" THEN DOMAIN m = {Parent}
                                    ELSE DOMAIN m \subseteq {Of(d) : d \in Devices},
           \A x \in DOMAIN m : m[x].in /\ m[x].query \in {Never, job.at},
           job.kind = "disk" => \A d \in job.sample["disk"] : Of(d) \in DOMAIN m,
           job.kind = "cpu" => \A d \in job.counted : Of(d) \in DOMAIN m
    PROVE  TypeOK' /\ IInv'
<1> DEFINE R == RangeOf(job.kind, Parent)
<1>1. /\ job.pc = "fill" /\ UNCHANGED <<host, number, table, callback>>
      /\ job' = [job EXCEPT !.pc = "merge", !.map = m, !.range = R]
  BY DEF Fills
<1>2. job \in JobTypes /\ job.kind \in Kinds
  BY DEF TypeOK, JobTypes
<1>3. R = IF table[job.kind][Parent].in THEN {Parent} ELSE {}
  BY <1>2, RangeIsParent
<1>4. R \subseteq Index
  BY <1>3, IndexIs
<1> HIDE DEF R
<1>5. job' \in JobTypes
  BY <1>1, <1>2, <1>4 DEF JobTypes
<1>6. /\ job'.pc = "merge" /\ job'.kind = job.kind /\ job'.at = job.at
      /\ job'.sample = job.sample /\ job'.counted = job.counted
      /\ job'.map = m /\ job'.range = R
  BY <1>1, <1>2 DEF JobTypes
<1>7. RangeIs'
  BY <1>1, <1>2, <1>3, <1>6 DEF IInv, ParentsAre, RangeIs
<1>8. MapIs'
  BY <1>6 DEF MapIs
<1>9. DisksAreIn' /\ CpusAreIn'
  BY <1>1, <1>6 DEF IInv, DisksAreIn, CpusAreIn
<1>10. CountersAre'
  <2> SUFFICES ASSUME job.kind = "counters" PROVE CountersAre'
    BY <1>6 DEF CountersAre
  <2>1. R = {} => table["counters"][Parent].query = Never
    BY <1>3 DEF IInv, ParentsAre
  <2> QED
    BY <1>1, <1>6, <2>1 DEF CountersAre
<1> QED
  BY <1>1, <1>5, <1>7, <1>8, <1>9, <1>10, JobStep

\* It does so for each table.
LEMMA FillsStep ==
    ASSUME TypeOK, IInv,
           \/ FillDisks \/ FillCpus \/ (\E d \in Devices : FillInterfaces(d))
           \/ \E q \in {Never, job.at} : FillCounters(q)
    PROVE  TypeOK' /\ IInv'
<1>1. /\ job.kind \in Kinds /\ job.at \in Times /\ Never \in Times
      /\ job.sample \in [Kinds -> SUBSET Devices] /\ job.counted \in SUBSET Devices
      /\ devices \in [Kinds -> SUBSET Devices]
      /\ {"disk", "network", "cpu", "counters"} \subseteq Kinds
  BY JobIs, IdleIsTyped DEF TypeOK, Kinds
<1>2. CASE FillDisks
  <2>1. job.kind = "disk" /\ Fills(Map(job.sample["disk"], job.at))
    BY <1>2 DEF FillDisks
  <2>2. job.sample["disk"] \in SUBSET Devices
    BY <1>1
  <2>3. /\ Map(job.sample["disk"], job.at) \in Maps
        /\ DOMAIN Map(job.sample["disk"], job.at) = {Of(d) : d \in job.sample["disk"]}
        /\ \A x \in DOMAIN Map(job.sample["disk"], job.at) :
             Map(job.sample["disk"], job.at)[x] = Row(job.at)
    BY <1>1, <2>2, MapOfDevices
  <2> QED
    BY <1>1, <2>1, <2>2, <2>3, FillStep, RowIs
<1>3. CASE FillCpus
  <2>1. job.kind = "cpu" /\ Fills(Map(job.counted, Never))
    BY <1>3 DEF FillCpus
  <2>2. /\ Map(job.counted, Never) \in Maps
        /\ DOMAIN Map(job.counted, Never) = {Of(d) : d \in job.counted}
        /\ \A x \in DOMAIN Map(job.counted, Never) : Map(job.counted, Never)[x] = Row(Never)
    BY <1>1, MapOfDevices
  <2> QED
    BY <1>1, <2>1, <2>2, FillStep, RowIs
<1>4. ASSUME NEW d \in Devices, FillInterfaces(d)
      PROVE  TypeOK' /\ IInv'
  <2> DEFINE I == Interfaces(d)
  <2>1. job.kind = "network" /\ Fills(Map(I, job.at))
    BY <1>4 DEF FillInterfaces
  <2>2. I \in SUBSET Devices
    <3>1. job.sample["network"] \cap devices["network"] \subseteq Devices
      BY <1>1
    <3> QED
      BY <3>1 DEF Interfaces
  <2> HIDE DEF I
  <2>3. /\ Map(I, job.at) \in Maps
        /\ DOMAIN Map(I, job.at) = {Of(e) : e \in I}
        /\ \A x \in DOMAIN Map(I, job.at) : Map(I, job.at)[x] = Row(job.at)
    BY <1>1, <2>2, MapOfDevices
  <2> QED
    BY <1>1, <2>1, <2>2, <2>3, FillStep, RowIs
<1>5. ASSUME NEW q \in {Never, job.at}, FillCounters(q)
      PROVE  TypeOK' /\ IInv'
  <2> DEFINE m == [x \in {Parent} |-> Row(q)]
  <2>1. job.kind = "counters" /\ Fills(m)
    BY <1>5 DEF FillCounters
  <2>2. q \in Times /\ Row(q) \in Rows /\ Row(q).query = q /\ Row(q).in = TRUE
    BY <1>1, RowIs
  <2>3. m \in [{Parent} -> Rows] /\ {Parent} \in SUBSET Index
    BY <2>2, IndexIs
  <2>4. m \in Maps
    BY <2>3, MapsAre
  <2>5. DOMAIN m = {Parent} /\ \A x \in DOMAIN m : m[x] = Row(q)
    OBVIOUS
  <2> HIDE DEF m
  <2> QED
    BY <2>1, <2>2, <2>4, <2>5, FillStep
<1> QED
  BY <1>2, <1>3, <1>4, <1>5

\* A merge that is over has left nothing of its map, and the next table is turned to.
LEMMA NextStep ==
    ASSUME TypeOK, IInv, SkipCpus \/ Merged
    PROVE  TypeOK' /\ IInv'
<1>1. /\ UNCHANGED <<host, number, table, callback>> /\ NextKind
      /\ job.pc \in {"fill", "merge"} /\ job.range = {} /\ DOMAIN job.map = {}
      /\ job.pc = "fill" => job.kind = "cpu" /\ job.sample["cpu"] = {}
  BY DEF SkipCpus, Merged, IInv, RangeIs, MapIs
<1>2. job \in JobTypes /\ job.kind \in Kinds /\ job.at \in Times
  BY DEF TypeOK, JobTypes
<1>3. CASE job.kind # "counters"
  <2>1. PICK k \in Kinds : /\ job' = [job EXCEPT !.pc = "fill", !.kind = k]
                           /\ job.kind = "disk" => k = "network"
                           /\ job.kind = "network" => k = "cpu"
                           /\ job.kind = "cpu" => k = "counters"
    BY <1>1, <1>2, <1>3 DEF NextKind, Kinds
  <2>2. job' \in JobTypes
    BY <1>2, <2>1 DEF JobTypes
  <2>3. /\ job'.pc = "fill" /\ job'.kind = k /\ job'.at = job.at
        /\ job'.sample = job.sample /\ job'.counted = job.counted
        /\ job'.map = job.map /\ job'.range = job.range
    BY <1>2, <2>1 DEF JobTypes
  <2>4. RangeIs' /\ MapIs' /\ CountersAre'
    BY <1>1, <2>3 DEF RangeIs, MapIs, CountersAre
  <2>5. DisksAreIn'
    <3>1. \A d \in job.sample["disk"] : table["disk"][Of(d)].in
      BY <1>1 DEF IInv, DisksAreIn
    <3> QED
      BY <1>1, <2>3, <3>1 DEF DisksAreIn
  <2>6. CpusAreIn'
    <3>1. \A d \in job.counted : \/ table["cpu"][Of(d)].in
                                  \/ k \in {"disk", "network", "cpu"}
                                  \/ job.sample["cpu"] = {}
      BY <1>1, <1>2, <1>3, <2>1 DEF IInv, CpusAreIn, Kinds
    <3> QED
      BY <1>1, <2>3, <3>1 DEF CpusAreIn
  <2> QED
    BY <1>1, <2>2, <2>4, <2>5, <2>6, JobStep
<1>4. CASE job.kind = "counters"
  <2>1. job' = [Idle EXCEPT !.kind = "counters", !.at = job.at] /\ Idle \in JobTypes
    BY <1>1, <1>4, IdleIsTyped DEF NextKind
  <2>2. job' \in JobTypes
    BY <1>2, <1>4, <2>1 DEF JobTypes
  <2>3. /\ job'.pc = "idle" /\ job'.kind = "counters" /\ job'.at = job.at
        /\ job'.map = EmptyMap /\ job'.range = {}
    BY <2>1 DEF Idle
  <2>4. RangeIs' /\ MapIs' /\ DisksAreIn' /\ CpusAreIn'
    BY <2>3, IdleIsTyped DEF RangeIs, MapIs, DisksAreIn, CpusAreIn
  <2>5. CountersAre'
    BY <1>1, <1>2, <1>4, <2>3 DEF IInv, CountersAre, JobTypes
  <2> QED
    BY <1>1, <2>2, <2>4, <2>5, JobStep
<1> QED
  BY <1>3, <1>4

\* A pull begins with nothing in hand.
LEMMA AskStep ==
    ASSUME TypeOK, IInv, Ask
    PROVE  TypeOK' /\ IInv'
<1>1. /\ UNCHANGED <<table, callback>> /\ Idle \in JobTypes
      /\ job' = [Idle EXCEPT !.pc = "fill", !.at = time, !.sample = devices,
                             !.counted = number]
  BY IdleIsTyped DEF Ask
<1>2. job'.pc = "fill" /\ job'.kind = "disk" /\ job'.map = EmptyMap /\ job'.range = {}
  BY <1>1 DEF Idle
<1>3. RangeIs' /\ MapIs' /\ DisksAreIn' /\ CpusAreIn' /\ CountersAre'
  BY <1>2, IdleIsTyped DEF RangeIs, MapIs, DisksAreIn, CpusAreIn, CountersAre
<1>4. ParentsAre' /\ CallbackIs'
  BY <1>1 DEF IInv, ParentsAre, CallbackIs
<1> QED
  BY <1>3, <1>4, HostTypes DEF IInv

\* An update of a row of the range: the one with the index of the VE, of the counters.
LEMMA ApplyStep ==
    ASSUME TypeOK, IInv, NEW x \in Index, Apply(x)
    PROVE  TypeOK' /\ IInv'
<1> DEFINE c == table["counters"][Parent]
           r == IF x \in DOMAIN job.map THEN [c EXCEPT !.query = job.map[x].query] ELSE NoRow
<1>1. /\ job.pc = "merge" /\ x \in job.range /\ UNCHANGED <<host, number, callback>>
      /\ x = Parent /\ job.kind = "counters" /\ job.range \subseteq {Parent} /\ c.in
      /\ job \in JobTypes /\ table \in [Kinds -> [Index -> Rows]]
      /\ "counters" \in Kinds /\ Parent \in Index
  BY IndexIs DEF Apply, IInv, RangeIs, TypeOK, Kinds
<1>2. table' = [table EXCEPT !["counters"][Parent] = r]
  BY <1>1 DEF Apply
<1>3. job' = [job EXCEPT !.range = job.range \ {x}]
  <2>1. job' = [job EXCEPT !.range = job.range \ {x}, !.map = job.map]
    BY <1>1 DEF Apply
  <2> QED
    BY <1>1, <2>1 DEF JobTypes
<1>4. c \in Rows /\ r \in Rows /\ (~r.in => r.query = Never)
      /\ r.query \in {Never, job.at}
  <2>1. c \in Rows /\ c.in
    BY <1>1
  <2>2. CASE x \in DOMAIN job.map
    <3>1. job.map[x] \in Rows /\ job.map[x].query \in {Never, job.at}
      BY <1>1, <2>2, JobIs, MapsAre DEF IInv, CountersAre
    <3> QED
      BY <2>1, <2>2, <3>1 DEF Rows
  <2>3. CASE x \notin DOMAIN job.map
    BY <2>1, <2>3, IdleIsTyped DEF NoRow, Rows
  <2> QED
    BY <2>1, <2>2, <2>3
<1> HIDE DEF r, c
<1>5. /\ table' \in [Kinds -> [Index -> Rows]] /\ table'["counters"][Parent] = r
      /\ \A k \in Kinds \ {"counters"} : table'[k] = table[k]
  BY <1>1, <1>2, <1>4
<1>6. /\ job' \in JobTypes /\ job'.pc = "merge" /\ job'.kind = "counters" /\ job'.at = job.at
      /\ job'.sample = job.sample /\ job'.counted = job.counted
      /\ job'.map = job.map /\ job'.range = {}
  BY <1>1, <1>3 DEF JobTypes
<1>7. TypeOK'
  BY <1>1, <1>5, <1>6, TypesStay DEF TypeOK, host
<1>8. ParentsAre'
  BY <1>4, <1>5 DEF IInv, ParentsAre
<1>9. RangeIs' /\ MapIs'
  BY <1>1, <1>6 DEF RangeIs, IInv, MapIs
<1>10. DisksAreIn' /\ CpusAreIn'
  BY <1>1, <1>5, <1>6 DEF IInv, DisksAreIn, CpusAreIn, Kinds
<1>11. CountersAre'
  BY <1>1, <1>4, <1>5, <1>6 DEF IInv, CountersAre
<1>12. CallbackIs'
  BY <1>1, <1>5 DEF IInv, CallbackIs, TypeOK, CallbackTypes
<1> QED
  BY <1>7, <1>8, <1>9, <1>10, <1>11, <1>12 DEF IInv

\* What is left of the map is inserted, and taken from the map when it is in the table.
LEMMA InsertStep ==
    ASSUME TypeOK, IInv, NEW x \in Index, Insert(x)
    PROVE  TypeOK' /\ IInv'
<1>1. /\ job.pc = "merge" /\ job.range = {} /\ x \in DOMAIN job.map
      /\ UNCHANGED <<host, number, callback>>
      /\ job \in JobTypes /\ table \in [Kinds -> [Index -> Rows]] /\ job.kind \in Kinds
      /\ table' = Inserted(job.kind, x, job.map[x])
      /\ job' = [job EXCEPT !.map = Without(job.map, x)]
  BY DEF Insert, TypeOK, JobTypes
<1>2. /\ job.map \in Maps /\ job.map[x] \in Rows /\ job.map[x].in
  BY <1>1, JobIs, MapsAre DEF IInv, MapIs
<1>3. /\ table' \in [Kinds -> [Index -> Rows]] /\ table'[job.kind][x].in
      /\ table'[job.kind][x] = IF table[job.kind][x].in THEN table[job.kind][x] ELSE job.map[x]
      /\ \A l \in Kinds, y \in Index : l # job.kind \/ y # x => table'[l][y] = table[l][y]
  <2>1. job.kind \in Kinds /\ job.map[x] \in Rows
    BY <1>1, <1>2
  <2>2. /\ Inserted(job.kind, x, job.map[x]) \in [Kinds -> [Index -> Rows]]
        /\ job.map[x].in => Inserted(job.kind, x, job.map[x])[job.kind][x].in
        /\ Inserted(job.kind, x, job.map[x])[job.kind][x] =
              IF table[job.kind][x].in THEN table[job.kind][x] ELSE job.map[x]
        /\ \A l \in Kinds, y \in Index : l # job.kind \/ y # x =>
              Inserted(job.kind, x, job.map[x])[l][y] = table[l][y]
    BY <2>1, InsertedIs
  <2>3. table' = Inserted(job.kind, x, job.map[x])
    BY <1>1
  <2> QED
    BY <1>2, <2>2, <2>3
<1>4. /\ Without(job.map, x) \in Maps
      /\ DOMAIN Without(job.map, x) = DOMAIN job.map \ {x}
      /\ \A y \in DOMAIN job.map \ {x} : Without(job.map, x)[y] = job.map[y]
  BY <1>2, WithoutIs
<1>5. /\ job' \in JobTypes /\ job'.pc = "merge" /\ job'.kind = job.kind /\ job'.at = job.at
      /\ job'.sample = job.sample /\ job'.counted = job.counted
      /\ job'.map = Without(job.map, x) /\ job'.range = {}
  BY <1>1, <1>4 DEF JobTypes
<1>6. TypeOK'
  BY <1>1, <1>3, <1>5, TypesStay DEF TypeOK, host
<1>7. /\ job.kind = "counters" => x = Parent
      /\ job.kind # "counters" => x # Parent
  BY <1>1, IndexIs DEF IInv, MapIs
<1>8. \A l \in Kinds, y \in Index : table[l][y].in => table'[l][y].in
  BY <1>3
<1>9. ParentsAre'
  <2>1. \A k \in Kinds \ {"counters"} : ~table'[k][Parent].in
    <3> SUFFICES ASSUME NEW k \in Kinds \ {"counters"} PROVE ~table'[k][Parent].in
      OBVIOUS
    <3>1. ~table[k][Parent].in
      BY DEF IInv, ParentsAre
    <3>2. k # job.kind \/ Parent # x
      BY <1>7
    <3> QED
      BY <1>3, <3>1, <3>2, IndexIs
  <2>2. ~table'["counters"][Parent].in => table'["counters"][Parent].query = Never
    <3>1. CASE job.kind = "counters"
      BY <1>3, <1>7, <3>1
    <3>2. CASE job.kind # "counters"
      <4>1. table'["counters"][Parent] = table["counters"][Parent]
        BY <1>3, <3>2, IndexIs DEF Kinds
      <4> QED
        BY <4>1 DEF IInv, ParentsAre
    <3> QED
      BY <3>1, <3>2
  <2> QED
    BY <2>1, <2>2 DEF ParentsAre
<1>10. RangeIs'
  BY <1>5 DEF RangeIs
<1>11. MapIs'
  BY <1>4, <1>5 DEF IInv, MapIs
<1>12. DisksAreIn'
  <2> SUFFICES ASSUME NEW d \in job.sample["disk"]
               PROVE  \/ table'["disk"][Of(d)].in
                      \/ job.kind = "disk" /\ Of(d) \in DOMAIN job.map \ {x}
    BY <1>4, <1>5 DEF DisksAreIn
  <2>1. d \in Devices /\ Of(d) \in Index /\ "disk" \in Kinds
    BY <1>1, IndexIs DEF JobTypes, Kinds
  <2>2. \/ table["disk"][Of(d)].in
        \/ job.kind = "disk" /\ Of(d) \in DOMAIN job.map
    BY <1>1 DEF IInv, DisksAreIn
  <2> QED
    BY <1>3, <1>8, <2>1, <2>2
<1>13. CpusAreIn'
  <2> SUFFICES ASSUME NEW d \in job.counted
               PROVE  \/ table'["cpu"][Of(d)].in
                      \/ job.kind \in {"disk", "network"}
                      \/ job.kind = "cpu" /\ Of(d) \in DOMAIN job.map \ {x}
                      \/ job.sample["cpu"] = {}
    BY <1>4, <1>5 DEF CpusAreIn
  <2>1. d \in Devices /\ Of(d) \in Index /\ "cpu" \in Kinds
    BY <1>1, IndexIs DEF JobTypes, Kinds
  <2>2. \/ table["cpu"][Of(d)].in
        \/ job.kind \in {"disk", "network"}
        \/ job.kind = "cpu" /\ Of(d) \in DOMAIN job.map
        \/ job.sample["cpu"] = {}
    BY <1>1 DEF IInv, CpusAreIn
  <2> QED
    BY <1>3, <1>8, <2>1, <2>2
<1>14. CountersAre'
  <2> SUFFICES ASSUME job.kind = "counters" PROVE CountersAre'
    BY <1>5 DEF CountersAre
  <2>1. /\ \A y \in DOMAIN job.map : job.map[y].query \in {Never, job.at}
        /\ table["counters"][Parent].query \in {Never, job.at}
    BY <1>1 DEF IInv, CountersAre
  <2>2. table'["counters"][Parent].query \in {Never, job.at}
    BY <1>1, <1>3, <1>7, <2>1
  <2> QED
    BY <1>4, <1>5, <2>1, <2>2 DEF CountersAre
<1>15. CallbackIs'
  <2>1. callback.pc # "idle" => Of(callback.device) \in Index /\ callback.kind \in Kinds
    BY IndexIs DEF IInv, CallbackIs, TypeOK, CallbackTypes
  <2> QED
    BY <1>1, <1>8, <2>1 DEF IInv, CallbackIs
<1> QED
  BY <1>6, <1>9, <1>10, <1>11, <1>12, <1>13, <1>14, <1>15 DEF IInv

-------------------------------------------------------------------------------
(* The events.                                                             *)

\* The callback thread changes no counters and no row of the VE, and takes no row away.
LEMMA CallbackLeaves ==
    ASSUME TypeOK, IInv, UNCHANGED <<host, number, job>>,
           callback' \in CallbackTypes, table' \in [Kinds -> [Index -> Rows]],
           \A k \in Kinds : table'[k][Parent] = table[k][Parent],
           \A k \in Kinds, x \in Index : table[k][x].in => table'[k][x].in,
           CallbackIs'
    PROVE  TypeOK' /\ IInv'
<1>1. {"disk", "network", "cpu", "counters"} \subseteq Kinds
  BY DEF Kinds
<1>2. TypeOK'
  BY TypesStay DEF TypeOK, host
<1>3. ParentsAre'
  BY <1>1 DEF IInv, ParentsAre
<1>4. RangeIs' /\ MapIs' /\ CountersAre'
  BY <1>1 DEF IInv, RangeIs, MapIs, CountersAre
<1>5. DisksAreIn'
  <2>1. \A d \in job.sample["disk"] : Of(d) \in Index
    BY <1>1, JobIs, IndexIs
  <2> QED
    BY <1>1, <2>1 DEF IInv, DisksAreIn
<1>6. CpusAreIn'
  <2>1. \A d \in job.counted : Of(d) \in Index
    BY JobIs, IndexIs
  <2> QED
    BY <1>1, <2>1 DEF IInv, CpusAreIn
<1> QED
  BY <1>2, <1>3, <1>4, <1>5, <1>6 DEF IInv

\* Its steps: the row that is found is in the table, and so is the one that is inserted.
LEMMA CallbackSteps ==
    ASSUME TypeOK, IInv, CallbackThread
    PROVE  TypeOK' /\ IInv'
<1> DEFINE k == callback.kind
           x == Of(callback.device)
<1>1. /\ callback \in CallbackTypes /\ IdleCallback \in CallbackTypes
      /\ table \in [Kinds -> [Index -> Rows]] /\ k \in Kinds
      /\ callback.pc # "idle" /\ UNCHANGED <<host, number, job>>
  BY IdleIsTyped DEF TypeOK, CallbackTypes, CallbackThread, Undetermined, Find, InsertTuple, Put
<1>2. k # "counters" /\ callback.device \in Devices /\ x \in Index /\ x # Parent
  BY <1>1, IndexIs DEF IInv, CallbackIs
<1>3. CASE Undetermined
  <2>1. callback' = IdleCallback /\ table' = table
    BY <1>3 DEF Undetermined
  <2>2. CallbackIs'
    BY <2>1 DEF CallbackIs, IdleCallback
  <2> QED
    BY <1>1, <2>1, <2>2, CallbackLeaves
<1>4. CASE Find
  <2>1. /\ table' = table
        /\ callback' = IF table[k][x].in THEN [callback EXCEPT !.pc = "put", !.bound = TRUE]
                                         ELSE [callback EXCEPT !.pc = "insert"]
    BY <1>4 DEF Find
  <2>2. callback' \in CallbackTypes
    BY <1>1, <2>1 DEF CallbackTypes
  <2>3. CallbackIs'
    <3>1. /\ callback'.kind = k /\ callback'.device = callback.device
          /\ callback'.pc = "put" => table[k][x].in
      BY <1>1, <2>1 DEF CallbackTypes
    <3> QED
      BY <1>2, <2>1, <3>1 DEF CallbackIs
  <2> QED
    BY <1>1, <2>1, <2>2, <2>3, CallbackLeaves
<1>5. CASE InsertTuple
  <2>1. /\ table' = Inserted(k, x, Row(Never))
        /\ callback' = [callback EXCEPT !.pc = "put", !.bound = ~table[k][x].in]
    BY <1>5 DEF InsertTuple
  <2>2. Row(Never) \in Rows /\ Row(Never).in = TRUE
    BY IdleIsTyped, RowIs
  <2>3. /\ table' \in [Kinds -> [Index -> Rows]] /\ table'[k][x].in
        /\ \A l \in Kinds, y \in Index : l # k \/ y # x => table'[l][y] = table[l][y]
    <3>1. k \in Kinds /\ x \in Index /\ Row(Never) \in Rows
      BY <1>1, <1>2, <2>2
    <3> HIDE DEF k, x
    <3>2. /\ Inserted(k, x, Row(Never)) \in [Kinds -> [Index -> Rows]]
          /\ Row(Never).in => Inserted(k, x, Row(Never))[k][x].in
          /\ \A l \in Kinds, y \in Index : l # k \/ y # x =>
                Inserted(k, x, Row(Never))[l][y] = table[l][y]
      BY <3>1, InsertedIs
    <3>3. table' = Inserted(k, x, Row(Never))
      BY <2>1
    <3> QED
      BY <2>2, <3>2, <3>3
  <2>4. /\ \A l \in Kinds : table'[l][Parent] = table[l][Parent]
        /\ \A l \in Kinds, y \in Index : table[l][y].in => table'[l][y].in
    BY <1>2, <2>3, IndexIs
  <2>5. callback' \in CallbackTypes
    BY <1>1, <2>1 DEF CallbackTypes
  <2>6. CallbackIs'
    <3>1. callback'.kind = k /\ callback'.device = callback.device
      BY <1>1, <2>1 DEF CallbackTypes
    <3> QED
      BY <1>2, <2>3, <3>1 DEF CallbackIs
  <2> QED
    BY <1>1, <2>3, <2>4, <2>5, <2>6, CallbackLeaves
<1>6. CASE Put
  <2>1. /\ callback' = IdleCallback
        /\ table' = IF callback.bound
                      THEN [table EXCEPT ![k][x] = Shown(k, table[k][x], callback.at)]
                      ELSE table
    BY <1>6 DEF Put
  <2>2. /\ Shown(k, table[k][x], callback.at) \in Rows
        /\ table[k][x].in => Shown(k, table[k][x], callback.at).in
    <3>1. table[k][x] \in Rows /\ callback.at \in Times
      BY <1>1, <1>2 DEF CallbackTypes
    <3> QED
      BY <3>1 DEF Shown, Rows
  <2>3. /\ table' \in [Kinds -> [Index -> Rows]]
        /\ \A l \in Kinds : table'[l][Parent] = table[l][Parent]
        /\ \A l \in Kinds, y \in Index : table[l][y].in => table'[l][y].in
    <3>1. CASE callback.bound
      BY <1>1, <1>2, <2>1, <2>2, <3>1, IndexIs
    <3>2. CASE ~callback.bound
      BY <1>1, <2>1, <3>2
    <3> QED
      BY <3>1, <3>2
  <2>4. CallbackIs'
    BY <2>1 DEF CallbackIs, IdleCallback
  <2> QED
    BY <1>1, <2>1, <2>3, <2>4, CallbackLeaves
<1> QED
  BY <1>3, <1>4, <1>5, <1>6 DEF CallbackThread

-------------------------------------------------------------------------------
(* All together.                                                           *)

\* The steps of the host and of pullState leave the tables and the job alone; an event
\* begins with a device that the VE has.
LEMMA HostSteps ==
    ASSUME TypeOK, IInv,
           \/ Tick \/ Leave \/ Return \/ PullState
           \/ \E k \in Kinds \ {"counters"}, d \in Devices :
                Attach(k, d) \/ Detach(k, d) \/ Event(k, d)
    PROVE  TypeOK' /\ IInv'
<1>1. TypeOK'
  BY HostTypes
<1>2. UNCHANGED <<table, job>>
  BY DEF Tick, Leave, Return, PullState, Attach, Detach, Event, Changed
<1>3. ParentsAre' /\ RangeIs' /\ MapIs' /\ DisksAreIn' /\ CpusAreIn' /\ CountersAre'
  BY <1>2 DEF IInv, ParentsAre, RangeIs, MapIs, DisksAreIn, CpusAreIn, CountersAre
<1>4. CallbackIs'
  <2>1. CASE UNCHANGED callback
    BY <1>2, <2>1 DEF IInv, CallbackIs
  <2>2. ASSUME NEW k \in Kinds \ {"counters"}, NEW d \in Devices, Event(k, d)
        PROVE  CallbackIs'
    <3>1. callback'.pc = "find" /\ callback'.kind = k /\ callback'.device = d
      BY <2>2 DEF Event, IdleCallback
    <3> QED
      BY <3>1 DEF CallbackIs
  <2> QED
    BY <2>1, <2>2 DEF Tick, Leave, Return, PullState, Attach, Detach, Changed
<1> QED
  BY <1>1, <1>3, <1>4 DEF IInv

\* Each step keeps the invariant.
LEMMA Step == TypeOK /\ IInv /\ [Next]_vars => (TypeOK /\ IInv)'
<1> SUFFICES ASSUME TypeOK, IInv, [Next]_vars PROVE TypeOK' /\ IInv'
  OBVIOUS
<1>1. CASE \/ Tick \/ Leave \/ Return \/ PullState
           \/ \E k \in Kinds \ {"counters"}, d \in Devices :
                Attach(k, d) \/ Detach(k, d) \/ Event(k, d)
  BY <1>1, HostSteps
<1>2. CASE SchedulerThread
  <2>1. CASE Ask
    BY <2>1, AskStep
  <2>2. CASE \/ FillDisks \/ FillCpus \/ (\E d \in Devices : FillInterfaces(d))
             \/ \E q \in {Never, job.at} : FillCounters(q)
    BY <2>2, FillsStep
  <2>3. CASE SkipCpus \/ Merged
    BY <2>3, NextStep
  <2>4. CASE \E x \in Index : Apply(x) \/ Insert(x)
    BY <2>4, ApplyStep, InsertStep
  <2> QED
    BY <1>2, <2>1, <2>2, <2>3, <2>4 DEF SchedulerThread
<1>3. CASE CallbackThread
  BY <1>3, CallbackSteps
<1>4. CASE UNCHANGED vars
  <2>1. UNCHANGED <<present, devices, time, changesLeft, number, table, job, callback>>
    BY <1>4 DEF vars, host
  <2>2. TypeOK'
    BY <2>1, TypesStay DEF TypeOK
  <2>3. IInv'
    BY <2>1 DEF IInv, ParentsAre, RangeIs, MapIs, DisksAreIn, CpusAreIn, CountersAre, CallbackIs
  <2> QED
    BY <2>2, <2>3
<1> QED
  BY <1>1, <1>2, <1>3, <1>4 DEF Next

\* At the beginning no table has a row.
LEMMA Start == Init => TypeOK /\ IInv
<1> SUFFICES ASSUME Init PROVE TypeOK /\ IInv
  OBVIOUS
<1>1. /\ devices \in [Kinds -> SUBSET Devices] /\ time = 1 /\ 1 \in 1 .. Readings
      /\ changesLeft \in 0 .. Changes
      /\ table = [k \in Kinds |-> [x \in Index |-> NoRow]]
      /\ job = Idle /\ callback = IdleCallback /\ present = TRUE
      /\ number \in {{}, devices["cpu"]}
  BY SubTablesAssumption DEF Init
<1>2. number \subseteq Devices
  BY <1>1 DEF Kinds
<1>3. Never \in Times /\ NoRow \in Rows
  BY <1>1 DEF Times, Never, NoRow, Rows
<1>4. EmptyMap \in [{} -> Rows] /\ DOMAIN EmptyMap = {}
  BY DEF EmptyMap
<1>5. EmptyMap \in Maps
  BY <1>4, MapsAre
<1>6. Idle \in JobTypes /\ IdleCallback \in CallbackTypes
  <2>1. [k \in Kinds |-> {}] \in [Kinds -> SUBSET Devices] /\ "disk" \in Kinds
    BY DEF Kinds
  <2> QED
    BY <1>3, <1>5, <2>1 DEF Idle, IdleCallback, JobTypes, CallbackTypes
<1>7. TypeOK
  BY <1>1, <1>2, <1>3, <1>6 DEF TypeOK
<1>8. Parent \in Index /\ "counters" \in Kinds
  BY IndexIs DEF Kinds
<1>9. ParentsAre
  BY <1>1, <1>8 DEF ParentsAre, NoRow
<1>10. job.pc = "idle" /\ job.kind = "disk" /\ job.map = EmptyMap /\ job.range = {}
  BY <1>1 DEF Idle
<1>11. RangeIs /\ MapIs /\ DisksAreIn /\ CpusAreIn /\ CountersAre
  BY <1>4, <1>10 DEF RangeIs, MapIs, DisksAreIn, CpusAreIn, CountersAre
<1>12. CallbackIs
  BY <1>1 DEF CallbackIs, IdleCallback
<1> QED
  BY <1>7, <1>9, <1>11, <1>12 DEF IInv

\* The types and the inductive invariant: only the counters have a row with the index of
\* the VE, so that a merge takes no other row away, and what it has left to insert is in
\* its map.
THEOREM SubTablesInvariant == Spec => [](TypeOK /\ IInv)
  BY Step, Start, PTL DEF Spec

\* The variables have their types; no reading in a table is of a time to come.
THEOREM SubTablesTypeCorrect == Spec => []TypeOK
  BY SubTablesInvariant, PTL

\* What a pull has sampled is in the tables when the next table is turned to, whatever the
\* events of the same devices have inserted meanwhile.
THEOREM SubTablesSampledHaveRows == Spec => []SampledHaveRows
<1>1. TypeOK /\ IInv => SampledHaveRows
  BY DEF IInv, DisksAreIn, CpusAreIn, SampledHaveRows
<1> QED
  BY <1>1, SubTablesInvariant, PTL

\* Between two pulls the counters of the guest are those of the last one, or what a silent
\* guest leaves.
THEOREM SubTablesCountersFollow == Spec => []CountersFollow
<1>1. TypeOK /\ IInv => CountersFollow
  BY DEF IInv, CountersAre, CountersFollow
<1> QED
  BY <1>1, SubTablesInvariant, PTL

\* The row that an event is about to write is in the table that managers read.
THEOREM SubTablesEventsWriteLiveRows == Spec => []EventsWriteLiveRows
<1>1. TypeOK /\ IInv => EventsWriteLiveRows
  BY DEF IInv, CallbackIs, EventsWriteLiveRows
<1> QED
  BY <1>1, SubTablesInvariant, PTL

=============================================================================
