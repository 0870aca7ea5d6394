------------------------------ MODULE ColumnsProofs -----------------------------
(***************************************************************************)
(* Proofs about Columns, for any licences that vzlicview may print, any    *)
(* names and any number of changes of the host.                            *)
(*                                                                         *)
(* Both invariants speak of the states between two jobs; what they need is *)
(* what is in the row in the middle of one (LimitsAre, NodeIs).            *)
(***************************************************************************)
EXTENDS Columns, TLAPS

\* While vzlicview runs the limits are 0.
LimitsAre ==
    /\ job = "licence" => host.limits = Zero
    /\ ReportsShowOneLicence

\* The node is unknown, or was asked for under the name that is in the row.
NodeFits == ve.node = Nothing \/ asked = [name |-> ve.name, node |-> ve.node]

\* The node does not fit the name only when a new name has been put and the node has not
\* been forgotten; shaman is asked when it has.
NodeIs ==
    /\ job = "state" /\ step = 3 => ve.node = Nothing
    /\ ~(job = "state" /\ step = 2) => NodeFits
    /\ job # "state" => step = 1

\* The inductive invariant.
IInv == TypeOK /\ LimitsAre /\ NodeIs

-------------------------------------------------------------------------------

\* The smaller of two numbers.
LEMMA MinOfTwo ==
    ASSUME NEW a \in Nat, NEW b \in Nat
    PROVE  Min({a, b}) \in {a, b} /\ Min({a, b}) <= a /\ Min({a, b}) <= b
<1>1. \E x \in {a, b} : \A y \in {a, b} : x <= y
  OBVIOUS
<1> QED
  BY <1>1 DEF Min

\* A number that is printed is put into a word,
LEMMA WordIs ==
    ASSUME NEW n \in Nat
    PROVE  Word(n) \in 0 .. 2 * Half - 1
BY ColumnsAssumption DEF Word

\* and a word is an int in a column.
LEMMA IntIs ==
    ASSUME NEW w \in 0 .. 2 * Half - 1
    PROVE  AsInt(w) \in Ints
BY ColumnsAssumption DEF AsInt, Ints

\* Limits are words, and uses are ints.
LEMMA LineIs ==
    ASSUME NEW l \in Licences, NEW k \in Keys
    PROVE  Limit(l, k) \in 0 .. 2 * Half - 1 /\ Used(l, k) \in Ints
<1>1. Half \in Nat \ {0} /\ NoLimit \in 1 .. Half - 1
  BY ColumnsAssumption
<1>2. CASE k \notin DOMAIN l
  BY <1>1, <1>2 DEF Limit, Used, Ints
<1>3. CASE k \in DOMAIN l
  <2>1. l[k].used \in Nat /\ l[k].limit \in {Unlimited, Combined} \cup Nat
    BY <1>3, LicencesAssumption
  <2>2. Used(l, k) \in Ints
    BY <1>3, <2>1, WordIs, IntIs DEF Used
  <2>3. Limit(l, k) \in {NoLimit, 0, Word(l[k].limit)}
        /\ (Limit(l, k) \in {NoLimit, 0} \/ l[k].limit \in Nat)
    BY <1>3, <2>1 DEF Limit
  <2>4. Limit(l, k) \in 0 .. 2 * Half - 1
    BY <1>1, <2>1, <2>3, WordIs
  <2> QED
    BY <2>2, <2>4
<1> QED
  BY <1>2, <1>3

\* The columns of a licence: each is an int; that of all VEs is the number that was printed
\* for both kinds, like the others, or the sum of the two, of which NOLIMIT is the most.
LEMMA ShownIs ==
    ASSUME NEW l \in Licences
    PROVE  /\ Shown(l) \in [cts : Ints, vms : Ints, ves : Ints]
           /\ \/ Shown(l).ves \in 0 .. NoLimit
              \/ Shown(l).ves = Shown(l).cts /\ Shown(l).ves = Shown(l).vms
<1> DEFINE a == Limit(l, "ct_total")
           b == Limit(l, "nr_vms")
           c == Limit(l, "servers_total")
           m == Min({Word(a + b), NoLimit})
<1>1. a \in 0 .. 2 * Half - 1 /\ b \in 0 .. 2 * Half - 1 /\ c \in 0 .. 2 * Half - 1
  BY LineIs DEF Keys
<1>2. Shown(l) = [cts |-> Or(c, a), vms |-> Or(c, b), ves |-> Or(c, m)]
  BY DEF Shown
<1>3. Half \in Nat \ {0} /\ NoLimit \in 1 .. Half - 1
  BY ColumnsAssumption
<1> HIDE DEF a, b, c
<1>4. Word(a + b) \in 0 .. 2 * Half - 1
  BY <1>1, <1>3, WordIs
<1>5. m \in 0 .. NoLimit /\ NoLimit < Half
  BY <1>3, <1>4, MinOfTwo
<1> HIDE DEF m
<1>6. ASSUME NEW n \in 0 .. 2 * Half - 1
      PROVE  Or(c, n) \in Ints /\ (c # 0 => Or(c, n) = AsInt(c)) /\ (c = 0 => Or(c, n) = AsInt(n))
  BY <1>1, <1>6, IntIs DEF Or
<1>7. m \in 0 .. 2 * Half - 1 /\ AsInt(m) = m
  BY <1>3, <1>5 DEF AsInt
<1>8. Or(c, a) \in Ints /\ Or(c, b) \in Ints /\ Or(c, m) \in Ints
  BY <1>1, <1>6, <1>7
<1>9. \/ Or(c, m) \in 0 .. NoLimit
      \/ Or(c, m) = Or(c, a) /\ Or(c, m) = Or(c, b)
  BY <1>1, <1>5, <1>6, <1>7
<1> QED
  BY <1>2, <1>8, <1>9

\* The steps of pullState in their order.
LEMMA StepsAre ==
    /\ Len(StateSteps) = 4
    /\ StateSteps[1] = "name" /\ StateSteps[2] = "forget"
    /\ StateSteps[3] = "node" /\ StateSteps[4] = "cpus"
BY DEF StateSteps

\* From a step of pullState the next one is gone to, or the job is over.
LEMMA StepIs ==
    ASSUME TypeOK, NEW x, StateStep(x)
    PROVE  /\ job = "state" /\ step \in 1 .. 4 /\ StateSteps[step] = x
           /\ \/ step = 4 /\ job' = "none" /\ step' = 1
              \/ step # 4 /\ job' = "state" /\ step' = step + 1
           /\ job' \in {"none", "licence", "state", "usage"} /\ step' \in 1 .. Len(StateSteps)
           /\ hand' \in [name : Names \cup {Nothing}, cpus : Counts \cup {0},
                         memory : Counts \cup {0}]
<1>1. /\ job = "state" /\ step \in 1 .. 4 /\ StateSteps[step] = x
      /\ \/ step = 4 /\ job' = "none" /\ step' = 1 /\ hand' = Idle
         \/ step # 4 /\ job' = job /\ step' = step + 1 /\ hand' = hand
  BY StepsAre DEF StateStep, Advance, TypeOK
<1>2. hand' \in [name : Names \cup {Nothing}, cpus : Counts \cup {0}, memory : Counts \cup {0}]
  BY <1>1 DEF TypeOK, Idle
<1> QED
  BY <1>1, <1>2, StepsAre

\* The types of each step.
LEMMA TypesStep ==
    ASSUME TypeOK, [Next]_vars
    PROVE  TypeOK'
<1>1. /\ Nothing \in Names \cup {Nothing} /\ ColumnsAssumption
      /\ Idle \in [name : Names \cup {Nothing}, cpus : Counts \cup {0}, memory : Counts \cup {0}]
      /\ Zero \in [cts : Ints, vms : Ints, ves : Ints] /\ 1 \in 1 .. Len(StateSteps)
  BY ColumnsAssumption, StepsAre DEF Idle, Zero, Ints
<1>2. CASE ResetLimits
  BY <1>1, <1>2 DEF ResetLimits, ResetAll, TypeOK, world
<1>3. CASE ReadLicence
  <2>1. PutLicence \in [limits : [cts : Ints, vms : Ints, ves : Ints],
                       ctsUsage : Ints, vmsUsage : Ints]
    BY LineIs, ShownIs DEF PutLicence, TypeOK, Keys
  <2> QED
    BY <1>3, <2>1 DEF ReadLicence, TypeOK, world
<1>4. CASE BeginState
  <2>1. hand' \in [name : Names \cup {Nothing}, cpus : Counts \cup {0}, memory : Counts \cup {0}]
        /\ failed' \in BOOLEAN /\ job' \in {job, "state"}
    <3>1. CASE /\ job' = "state" /\ failed' = FALSE
               /\ hand' = [Idle EXCEPT !.name = config.name, !.cpus = config.cpus]
      BY <1>1, <3>1 DEF TypeOK
    <3>2. CASE failed' = TRUE /\ UNCHANGED <<job, hand>>
      BY <3>2 DEF TypeOK
    <3> QED
      BY <1>4, <3>1, <3>2 DEF BeginState
  <2>2. due' \in Nat
    BY <1>4 DEF BeginState, TypeOK
  <2> QED
    BY <1>4, <2>1, <2>2 DEF BeginState, TypeOK, world
<1>5. CASE PutName
  <2>1. StateStep("name")
    BY <1>5 DEF PutName
  <2>2. ve' \in [name : Names \cup {Nothing}, cpus : Counts \cup {0},
                 node : Nodes \cup {Nothing}, memory : Counts \cup {0}]
        /\ failed' \in BOOLEAN
    BY <1>5 DEF PutName, TypeOK
  <2> QED
    BY <1>5, <2>1, <2>2, StepIs DEF PutName, TypeOK, world
<1>6. CASE PutCpus
  <2>1. StateStep("cpus")
    BY <1>6 DEF PutCpus
  <2>2. ve' \in [name : Names \cup {Nothing}, cpus : Counts \cup {0},
                 node : Nodes \cup {Nothing}, memory : Counts \cup {0}]
        /\ failed' \in BOOLEAN
    BY <1>6 DEF PutCpus, TypeOK
  <2> QED
    BY <1>6, <2>1, <2>2, StepIs DEF PutCpus, TypeOK, world
<1>7. CASE ForgetNode
  <2>1. StateStep("forget")
    BY <1>7 DEF ForgetNode
  <2>2. ve' \in [name : Names \cup {Nothing}, cpus : Counts \cup {0},
                 node : Nodes \cup {Nothing}, memory : Counts \cup {0}]
    BY <1>7 DEF ForgetNode, TypeOK
  <2> QED
    BY <1>7, <2>1, <2>2, StepIs DEF ForgetNode, TypeOK, world
<1>8. CASE AskNode
  <2>1. StateStep("node")
    BY <1>8 DEF AskNode
  <2>2. ve' \in [name : Names \cup {Nothing}, cpus : Counts \cup {0},
                 node : Nodes \cup {Nothing}, memory : Counts \cup {0}]
        /\ asked' \in [name : Names \cup {Nothing}, node : Nodes \cup {Nothing}]
    <3>1. CASE UNCHANGED <<ve, asked>>
      BY <3>1 DEF TypeOK
    <3>2. ASSUME NEW n \in Nodes \cup {Nothing},
                 ve' = [ve EXCEPT !.node = n], asked' = [name |-> ve.name, node |-> n]
          PROVE  ve' \in [name : Names \cup {Nothing}, cpus : Counts \cup {0},
                          node : Nodes \cup {Nothing}, memory : Counts \cup {0}]
                 /\ asked' \in [name : Names \cup {Nothing}, node : Nodes \cup {Nothing}]
      BY <3>2 DEF TypeOK
    <3> QED
      BY <1>8, <3>1, <3>2 DEF AskNode
  <2> QED
    BY <1>8, <2>1, <2>2, StepIs DEF AskNode, TypeOK, world
<1>9. CASE BeginUsage
  <2>1. hand' \in [name : Names \cup {Nothing}, cpus : Counts \cup {0}, memory : Counts \cup {0}]
    BY <1>1, <1>9 DEF BeginUsage, TypeOK
  <2> QED
    BY <1>9, <2>1 DEF BeginUsage, TypeOK, world
<1>10. CASE PutMemory
  <2>1. ve' \in [name : Names \cup {Nothing}, cpus : Counts \cup {0},
                 node : Nodes \cup {Nothing}, memory : Counts \cup {0}]
    BY <1>10 DEF PutMemory, Usage, TypeOK
  <2> QED
    BY <1>1, <1>10, <2>1 DEF PutMemory, TypeOK, world
<1>11. ASSUME NEW u \in Counts, MemoryEvent(u)
       PROVE  TypeOK'
  <2>1. ve' \in [name : Names \cup {Nothing}, cpus : Counts \cup {0},
                 node : Nodes \cup {Nothing}, memory : Counts \cup {0}]
    BY <1>11 DEF MemoryEvent, TypeOK
  <2> QED
    BY <1>11, <2>1 DEF MemoryEvent, TypeOK, world, thread
<1>12. CASE ConfigEvent
  <2>1. due' \in Nat /\ moved' \in Nat
    BY <1>12 DEF ConfigEvent, QueueState, TypeOK
  <2> QED
    BY <1>12, <2>1 DEF ConfigEvent, TypeOK, world, thread
<1>13. ASSUME Counted PROVE changes' \in 0 .. Changes
  BY <1>1, <1>13 DEF Counted, TypeOK, ColumnsAssumption
<1>14. CASE ChangeLicence
  BY <1>13, <1>14 DEF ChangeLicence, TypeOK, thread
<1>15. CASE ChangeConfig
  <2>1. moved' \in Nat
    BY <1>15 DEF ChangeConfig, TypeOK
  <2> QED
    BY <1>13, <1>15, <2>1 DEF ChangeConfig, TypeOK, thread
<1>16. CASE ChangeMemory
  BY <1>13, <1>16 DEF ChangeMemory, TypeOK, thread
<1>17. CASE UNCHANGED vars
  BY <1>17 DEF vars, world, thread, TypeOK
<1> QED
  BY <1>2, <1>3, <1>4, <1>5, <1>6, <1>7, <1>8, <1>9, <1>10, <1>11, <1>12, <1>14, <1>15, <1>16,
    <1>17 DEF Next, Work, Events

\* The limits are written by the two steps of the licence only, between which they are 0.
LEMMA LimitsStep ==
    ASSUME TypeOK, LimitsAre, [Next]_vars
    PROVE  LimitsAre'
<1>1. CASE ResetLimits
  <2>1. host'.limits = Zero
    BY <1>1 DEF ResetLimits, ResetAll, TypeOK
  <2> QED
    BY <2>1 DEF LimitsAre, ReportsShowOneLicence
<1>2. CASE ReadLicence
  <2>1. host'.limits \in {Shown(l) : l \in Licences} \cup {Zero} /\ job' = "none"
    BY <1>2 DEF ReadLicence, PutLicence, LimitsAre, TypeOK
  <2> QED
    BY <2>1 DEF LimitsAre, ReportsShowOneLicence
<1>3. ASSUME UNCHANGED host, job # "licence" => job' # "licence", job = "licence" => job' = job
      PROVE  LimitsAre'
  BY <1>3 DEF LimitsAre, ReportsShowOneLicence
<1>4. ASSUME NEW x, StateStep(x) PROVE job = "state" /\ job' # "licence"
  BY <1>4, StepIs
<1>5. CASE PutName \/ PutCpus \/ ForgetNode \/ AskNode
  <2>1. UNCHANGED host /\ job = "state" /\ job' # "licence"
    BY <1>4, <1>5 DEF PutName, PutCpus, ForgetNode, AskNode
  <2> QED
    BY <1>3, <2>1
<1>6. CASE BeginState \/ BeginUsage \/ PutMemory
  BY <1>3, <1>6 DEF BeginState, BeginUsage, PutMemory
<1>7. CASE Events \/ ChangeLicence \/ ChangeConfig \/ ChangeMemory \/ UNCHANGED vars
  <2>1. UNCHANGED <<host, job>>
    BY <1>7 DEF Events, MemoryEvent, ConfigEvent, ChangeLicence, ChangeConfig, ChangeMemory,
      vars, thread
  <2> QED
    BY <1>3, <2>1
<1> QED
  BY <1>1, <1>2, <1>5, <1>6, <1>7 DEF Next, Work

\* The name and the node are written by steps of pullState, and the node last.
LEMMA NodeStep ==
    ASSUME TypeOK, NodeIs, [Next]_vars
    PROVE  NodeIs'
<1>1. ve.node \in Nodes \cup {Nothing} /\ step \in 1 .. 4
  BY StepsAre DEF TypeOK
<1>2. ASSUME ve'.name = ve.name, ve'.node = ve.node, UNCHANGED <<asked, step>>,
             job' = "state" <=> job = "state"
      PROVE  NodeIs'
  <2>1. NodeFits' <=> NodeFits
    BY <1>2 DEF NodeFits
  <2> QED
    BY <1>2, <2>1 DEF NodeIs
<1>3. CASE PutName
  <2>1. job' = "state" /\ step' = 2
    <3>1. step = 1 /\ StateStep("name")
      BY <1>3, StepIs, StepsAre DEF PutName
    <3> QED
      BY <3>1, StepIs
  <2> QED
    BY <2>1 DEF NodeIs
<1>4. CASE ForgetNode
  <2>1. job' = "state" /\ step' = 3
    <3>1. step = 2 /\ StateStep("forget")
      BY <1>4, StepIs, StepsAre DEF ForgetNode
    <3> QED
      BY <3>1, StepIs
  <2>2. ve'.node = Nothing
    BY <1>4 DEF ForgetNode, TypeOK
  <2> QED
    BY <2>1, <2>2 DEF NodeIs, NodeFits
<1>5. CASE AskNode
  <2>1. step = 3 /\ job = "state" /\ job' = "state" /\ step' = 4
    <3>1. step = 3 /\ StateStep("node")
      BY <1>5, StepIs, StepsAre DEF AskNode
    <3> QED
      BY <3>1, StepIs
  <2>2. NodeFits'
    <3>1. CASE UNCHANGED <<ve, asked>>
      BY <2>1, <3>1 DEF NodeIs, NodeFits
    <3>2. ASSUME NEW n, ve' = [ve EXCEPT !.node = n], asked' = [name |-> ve.name, node |-> n]
          PROVE  NodeFits'
      <4>1. ve'.name = ve.name /\ ve'.node = n
        BY <3>2 DEF TypeOK
      <4> QED
        BY <3>2, <4>1 DEF NodeFits
    <3> QED
      BY <1>5, <3>1, <3>2 DEF AskNode
  <2> QED
    BY <2>1, <2>2 DEF NodeIs
<1>6. CASE PutCpus
  <2>1. step = 4 /\ job = "state" /\ job' = "none" /\ step' = 1
    <3>1. step = 4 /\ StateStep("cpus")
      BY <1>6, StepIs, StepsAre DEF PutCpus
    <3> QED
      BY <3>1, StepIs
  <2>2. ve'.name = ve.name /\ ve'.node = ve.node /\ asked' = asked
    BY <1>6 DEF PutCpus, TypeOK
  <2>3. NodeFits /\ (NodeFits' <=> NodeFits)
    BY <2>1, <2>2 DEF NodeIs, NodeFits
  <2> QED
    BY <2>1, <2>3 DEF NodeIs
<1>7. job # "state" => NodeFits
  BY DEF NodeIs
<1>8. CASE BeginState
  <2>1. UNCHANGED <<ve, asked, step>> /\ job # "state"
    BY <1>8 DEF BeginState
  <2>2. NodeFits /\ NodeFits'
    BY <1>7, <2>1 DEF NodeFits
  <2>3. step = 1 /\ step' = 1
    BY <2>1 DEF NodeIs
  <2> QED
    BY <2>2, <2>3 DEF NodeIs
<1>9. CASE BeginUsage \/ ResetLimits \/ ReadLicence
  BY <1>2, <1>9 DEF BeginUsage, ResetLimits, ReadLicence
<1>10. CASE PutMemory
  <2>1. ve'.name = ve.name /\ ve'.node = ve.node
    BY <1>10 DEF PutMemory, TypeOK
  <2> QED
    BY <1>2, <1>10, <2>1 DEF PutMemory
<1>11. CASE Events
  <2>1. ve'.name = ve.name /\ ve'.node = ve.node /\ UNCHANGED <<asked, step, job>>
    BY <1>11 DEF Events, ConfigEvent, MemoryEvent, TypeOK, thread
  <2> QED
    BY <1>2, <2>1
<1>12. CASE ChangeLicence \/ ChangeConfig \/ ChangeMemory \/ UNCHANGED vars
  <2>1. UNCHANGED <<ve, asked, step, job>>
    BY <1>12 DEF ChangeLicence, ChangeConfig, ChangeMemory, vars, thread
  <2> QED
    BY <1>2, <2>1
<1> QED
  BY <1>3, <1>4, <1>5, <1>6, <1>8, <1>9, <1>10, <1>11, <1>12 DEF Next, Work

\* At the beginning the columns are empty, and no job has begun.
LEMMA Start == Init => IInv
<1> SUFFICES ASSUME Init PROVE IInv
  OBVIOUS
<1>1. TypeOK
  <2>1. /\ licence \in Licences /\ works \in BOOLEAN /\ memory \in Counts /\ changes = 0
        /\ config \in [name : Names, cpus : Counts]
        /\ job = "none" /\ step = 1 /\ due = 1 /\ moved = 0 /\ told = {} /\ failed = FALSE
    BY DEF Init
  <2>2. /\ 0 \in Ints /\ Zero \in [cts : Ints, vms : Ints, ves : Ints]
        /\ 0 \in 0 .. Changes /\ 1 \in 1 .. Len(StateSteps)
    BY ColumnsAssumption, StepsAre DEF Zero, Ints
  <2>3. host \in [limits : [cts : Ints, vms : Ints, ves : Ints],
                 ctsUsage : Ints, vmsUsage : Ints]
    BY <2>2 DEF Init
  <2>4. ve \in [name : Names \cup {Nothing}, cpus : Counts \cup {0},
               node : Nodes \cup {Nothing}, memory : Counts \cup {0}]
    BY DEF Init
  <2>5. hand \in [name : Names \cup {Nothing}, cpus : Counts \cup {0},
                 memory : Counts \cup {0}]
    BY DEF Init, Idle
  <2>6. asked \in [name : Names \cup {Nothing}, node : Nodes \cup {Nothing}]
    BY DEF Init
  <2> QED
    BY <2>1, <2>2, <2>3, <2>4, <2>5, <2>6 DEF TypeOK
<1>2. LimitsAre
  BY DEF Init, LimitsAre, ReportsShowOneLicence
<1>3. NodeIs
  BY DEF Init, NodeIs, NodeFits
<1> QED
  BY <1>1, <1>2, <1>3 DEF IInv

\* Types, limits that are 0 while vzlicview runs, and a node that is forgotten before
\* shaman is asked.
THEOREM ColumnsInvariant == Spec => []IInv
<1>1. IInv /\ [Next]_vars => IInv'
  BY TypesStep, LimitsStep, NodeStep DEF IInv
<1> QED
  BY Start, <1>1, PTL DEF Spec

\* The variables have their types: whatever numbers vzlicview prints, each column of the
\* licence has an int, and those of a VE have what a query or an event has put.
THEOREM ColumnsTypeCorrect == Spec => []TypeOK
<1>1. IInv => TypeOK
  BY DEF IInv
<1> QED
  BY <1>1, ColumnsInvariant, PTL

\* Whenever the thread may cut a report, the three limits are those of one run of
\* vzlicview, or 0.
THEOREM ColumnsReportsShowOneLicence == Spec => []ReportsShowOneLicence
<1>1. IInv => ReportsShowOneLicence
  BY DEF IInv, LimitsAre
<1> QED
  BY <1>1, ColumnsInvariant, PTL

\* The limit of all VEs is never more than NOLIMIT nor negative, also when those of the two
\* kinds are, or their sum overflows (host.cpp:339-344), unless one number was printed for
\* both kinds.
THEOREM ColumnsSumIsCapped == Spec => []SumIsCapped
<1>1. IInv => SumIsCapped
  <2> SUFFICES ASSUME IInv PROVE SumIsCapped
    OBVIOUS
  <2>1. host.limits \in {Shown(l) : l \in Licences} \cup {Zero}
    BY DEF IInv, LimitsAre, ReportsShowOneLicence
  <2>2. CASE host.limits = Zero
    BY <2>2, ColumnsAssumption DEF Zero, SumIsCapped
  <2>3. ASSUME NEW l \in Licences, host.limits = Shown(l) PROVE SumIsCapped
    BY <2>3, ShownIs DEF SumIsCapped
  <2> QED
    BY <2>1, <2>2, <2>3
<1> QED
  BY <1>1, ColumnsInvariant, PTL

\* The node in the row is what shaman has printed for the name in the row, or there is none.
THEOREM ColumnsNodeIsOfName == Spec => []NodeIsOfName
<1>1. IInv => NodeIsOfName
  BY DEF IInv, NodeIs, NodeFits, NodeIsOfName
<1> QED
  BY <1>1, ColumnsInvariant, PTL

=============================================================================
