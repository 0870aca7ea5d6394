------------------------------ MODULE ReportsProofs -----------------------------
(* Proofs about Reports, for every number of VEs, every LIMIT and every width. *)
EXTENDS Reports, FiniteSetTheorems, TLAPS

-------------------------------------------------------------------------------
(* The inductive invariant.  EachProviderOnce says nothing of the providers     *)
(* that are still to be made, TrapsAreFull nothing of the batch and             *)
(* LivingAreReported nothing of a report under way: each is strengthened by     *)
(* what the loop keeps between two providers.                                   *)

\* What was made precedes what is to be made.
Ahead ==
    /\ \A k \in DOMAIN traps : \A p \in DOMAIN traps[k].entries, q \in left : p < q
    /\ \A p \in DOMAIN batch, q \in left : p < q

\* The counter counts the batch.
Counted == i = Cardinality(DOMAIN batch)

\* The provider being made is the first of those left, and lacks no cell but those
\* to do, if it lives.
Making ==
    pc = "make" =>
        /\ current.provider \in left
        /\ \A q \in left : current.provider <= q
        /\ current.provider \in living => Columns \ current.todo \subseteq current.made

\* No report under way.
Idle == pc = "idle" => left = {} /\ batch = Nothing

\* A living provider that was made is whole, in a trap or in the batch.
Settled ==
    \A p \in living \ left :
        InTrap(p) \/ (p \in DOMAIN batch /\ Columns \subseteq batch[p])

IInv ==
    TypeOK /\ EachProviderOnce /\ Ahead /\ Counted /\ TrapsAreFull /\ Making
        /\ Idle /\ Settled

-------------------------------------------------------------------------------

\* The providers are finitely many numbers.
LEMMA ProvidersFinite ==
    Providers \subseteq Nat /\ IsFiniteSet(Providers) /\ Host \in Providers
PROOF
<1>1. IsFiniteSet({Host} \cup VEs)
  BY ReportsAssumption, FS_Singleton, FS_Union
<1> QED  BY <1>1, ReportsAssumption DEF Providers, Host

\* The greatest int is positive.
LEMMA MaxIntPositive == MaxInt \in Nat /\ MaxInt >= 1
BY ReportsAssumption DEF MaxInt

\* Unit::limit() is a number of providers that a trap may take.
LEMMA LimitPositive ==
    ASSUME limit \in Limits
    PROVE  Limit \in 1 .. MaxInt
BY ReportsAssumption, MaxIntPositive DEF Limit

\* The empty chain is a chain without providers.
LEMMA NothingIsEmpty == Nothing \in Chains /\ DOMAIN Nothing = {} /\ Cardinality({}) = 0
PROOF
<1>1. Nothing \in [{} -> SUBSET Cells]
  BY DEF Nothing
<1> QED  BY <1>1, FS_EmptySet DEF Chains

\* A chain without providers is the empty one.
LEMMA EmptyIsNothing ==
    ASSUME NEW b \in Chains, DOMAIN b = {}
    PROVE  b = Nothing
BY DEF Chains, Nothing

\* The providers of a chain are finitely many.
LEMMA ChainFinite ==
    ASSUME NEW b \in Chains
    PROVE  /\ DOMAIN b \subseteq Providers /\ IsFiniteSet(DOMAIN b)
           /\ \A p \in DOMAIN b : b[p] \in SUBSET Cells
           /\ Cardinality(DOMAIN b) \in Nat
           /\ Cardinality(DOMAIN b) = 0 => DOMAIN b = {}
PROOF
<1>1. PICK S \in SUBSET Providers : b \in [S -> SUBSET Cells]
  BY DEF Chains
<1>2. DOMAIN b = S
  BY <1>1
<1>3. IsFiniteSet(S)
  BY ProvidersFinite, FS_Subset
<1> QED  BY <1>1, <1>2, <1>3, FS_CardinalityType, FS_EmptySet

\* Adding the provider made to the batch makes the chain longer by one.
LEMMA LongerChain ==
    ASSUME TypeOK, Ahead, Counted, Making, pc = "make"
    PROVE  /\ Longer \in Chains
           /\ DOMAIN Longer = DOMAIN batch \cup {current.provider}
           /\ Longer[current.provider] = current.made
           /\ \A p \in DOMAIN batch : Longer[p] = batch[p]
           /\ current.provider \notin DOMAIN batch
           /\ Cardinality(DOMAIN Longer) = i + 1
PROOF
<1> DEFINE D == DOMAIN batch \cup {current.provider}
<1>1. batch \in Chains /\ current.provider \in Providers /\ current.made \in SUBSET Cells
  BY DEF TypeOK
<1>2. current.provider \notin DOMAIN batch
  <2>1. current.provider \in left /\ current.provider \in Nat
    BY ProvidersFinite, <1>1 DEF Making
  <2>2. \A p \in DOMAIN batch : p < current.provider
    BY <2>1 DEF Ahead
  <2> QED  BY <2>1, <2>2
<1>3. D \in SUBSET Providers
  BY <1>1, ChainFinite
<1>4. \A p \in D : (IF p = current.provider THEN current.made ELSE batch[p]) \in SUBSET Cells
  BY <1>1, ChainFinite
<1>5. Longer \in [D -> SUBSET Cells]
  BY <1>4 DEF Longer
<1>6. Cardinality(D) = i + 1
  BY <1>1, <1>2, ChainFinite, FS_AddElement DEF Counted
<1>7. DOMAIN Longer = D
  BY DEF Longer
<1>8. Longer \in Chains
  BY <1>3, <1>5 DEF Chains
<1> QED  BY <1>2, <1>6, <1>7, <1>8 DEF Longer

\* Appending a trap leaves the others where they are.
LEMMA AppendTrap ==
    ASSUME NEW s \in Seq([entries : Chains, ticket : BOOLEAN]),
           NEW t \in [entries : Chains, ticket : BOOLEAN]
    PROVE  /\ Append(s, t) \in Seq([entries : Chains, ticket : BOOLEAN])
           /\ Len(Append(s, t)) = Len(s) + 1
           /\ DOMAIN Append(s, t) = DOMAIN s \cup {Len(s) + 1}
           /\ \A k \in DOMAIN s : k < Len(s) + 1 /\ k \in Nat /\ Append(s, t)[k] = s[k]
           /\ Append(s, t)[Len(s) + 1] = t
OBVIOUS

-------------------------------------------------------------------------------

\* The chains of the traps are chains.
LEMMA TrapChains ==
    ASSUME TypeOK
    PROVE  \A k \in DOMAIN traps : traps[k].entries \in Chains /\ k \in 1 .. Len(traps)
PROOF
<1> DEFINE T == [entries : Chains, ticket : BOOLEAN]
<1>1. traps \in Seq(T)
  BY DEF TypeOK
<1> HIDE DEF T
<1>2. \A k \in DOMAIN traps : traps[k] \in T /\ k \in 1 .. Len(traps)
  BY <1>1
<1> QED  BY <1>2 DEF T

\* A trap made of a chain with m providers keeps what is known of the others.
LEMMA PushKeeps ==
    ASSUME TypeOK, EachProviderOnce, TrapsAreFull, Ahead, pc # "idle",
           NEW b \in Chains, traps' = Append(traps, Trap(b)),
           \A k \in DOMAIN traps : Precedes(traps[k].entries, b)
    PROVE  /\ traps' \in Seq([entries : Chains, ticket : BOOLEAN])
           /\ DOMAIN traps' = DOMAIN traps \cup {Len(traps) + 1}
           /\ Len(traps') = Len(traps) + 1 /\ Len(traps) \in Nat
           /\ traps'[Len(traps) + 1] = Trap(b)
           /\ \A k \in DOMAIN traps : traps'[k] = traps[k] /\ k < Len(traps) + 1 /\ k \in Nat
           /\ \A k \in DOMAIN traps : Cardinality(DOMAIN traps[k].entries) = n
           /\ \A k, l \in DOMAIN traps' :
                 k < l => Precedes(traps'[k].entries, traps'[l].entries)
PROOF
<1>1. Trap(b) \in [entries : Chains, ticket : BOOLEAN] /\ Trap(b).entries = b
  BY DEF Trap, TypeOK
<1>2. traps \in Seq([entries : Chains, ticket : BOOLEAN]) /\ Len(traps) \in Nat
  BY DEF TypeOK
<1>3. /\ traps' \in Seq([entries : Chains, ticket : BOOLEAN])
      /\ Len(traps') = Len(traps) + 1
      /\ DOMAIN traps' = DOMAIN traps \cup {Len(traps) + 1}
      /\ \A k \in DOMAIN traps : k < Len(traps) + 1 /\ k \in Nat /\ traps'[k] = traps[k]
      /\ traps'[Len(traps) + 1] = Trap(b)
  BY <1>1, <1>2, AppendTrap
<1>4. \A k \in DOMAIN traps : Cardinality(DOMAIN traps[k].entries) = n
  BY DEF TrapsAreFull, IsLast
<1>5. ASSUME NEW k \in DOMAIN traps', NEW l \in DOMAIN traps', k < l
      PROVE  Precedes(traps'[k].entries, traps'[l].entries)
  <2>1. k \in DOMAIN traps
    BY <1>2, <1>3, <1>5
  <2>2. CASE l \in DOMAIN traps
    BY <1>3, <1>5, <2>1, <2>2 DEF EachProviderOnce
  <2>3. CASE l = Len(traps) + 1
    BY <1>1, <1>3, <2>1, <2>3
  <2> QED  BY <1>3, <2>2, <2>3
<1> QED  BY <1>2, <1>3, <1>4, <1>5

\* What is whole in a trap stays so when another is appended.
LEMMA InTrapStays ==
    ASSUME DOMAIN traps' = DOMAIN traps \cup {Len(traps) + 1},
           \A k \in DOMAIN traps : traps'[k] = traps[k],
           NEW p, InTrap(p)
    PROVE  InTrap(p)'
BY DEF InTrap

-------------------------------------------------------------------------------
(* The initial state.                                                      *)

\* The invariant holds before the first Inform job.
LEMMA InitInv == Init => IInv
PROOF
<1> SUFFICES ASSUME Init PROVE IInv
  OBVIOUS
<1>1. TypeOK
  <2>1. n \in 1 .. MaxInt /\ i \in 0 .. n - 1
    BY MaxIntPositive DEF Init
  <2>2. current \in [provider : Providers, todo : SUBSET Cells, made : SUBSET Cells]
    BY ProvidersFinite DEF Init, NoCurrent
  <2>3. batch \in Chains
    BY NothingIsEmpty DEF Init
  <2> QED  BY <2>1, <2>2, <2>3 DEF Init, TypeOK
<1>2. EachProviderOnce /\ TrapsAreFull /\ Settled
  BY DEF Init, EachProviderOnce, TrapsAreFull, Settled
<1>3. Ahead /\ Counted /\ Idle /\ Making
  BY NothingIsEmpty DEF Init, Ahead, Counted, Idle, Making
<1> QED  BY <1>1, <1>2, <1>3 DEF IInv

-------------------------------------------------------------------------------
(* The steps.                                                              *)

\* What other threads do leaves the report as it is, but for the living.
LEMMA OthersInv ==
    ASSUME IInv, UNCHANGED job, living' \subseteq living,
           listed' \subseteq VEs, sampled' \subseteq VEs, limit' \in Limits, ticket' \in BOOLEAN
    PROVE  IInv'
PROOF
<1>1. TypeOK'
  BY DEF IInv, TypeOK, job
<1>2. EachProviderOnce' /\ Ahead' /\ Counted' /\ Idle'
  BY DEF IInv, EachProviderOnce, Precedes, Ahead, Counted, Idle, job
<1>3. TrapsAreFull'
  BY DEF IInv, TrapsAreFull, IsLast, job
<1>4. Making'
  BY DEF IInv, Making, job
<1>5. Settled'
  BY DEF IInv, Settled, InTrap, job
<1> QED  BY <1>1, <1>2, <1>3, <1>4, <1>5 DEF IInv

\* The start of an Inform job keeps the invariant.
LEMMA BeginInv ==
    ASSUME IInv, NEW s, Begin(s), s \subseteq Providers
    PROVE  IInv'
PROOF
<1>1. n' \in 1 .. MaxInt /\ i' \in 0 .. n' - 1
  BY LimitPositive, MaxIntPositive DEF IInv, TypeOK, Begin
<1>2. TypeOK'
  BY <1>1, NothingIsEmpty DEF IInv, TypeOK, Begin
<1>3. EachProviderOnce' /\ TrapsAreFull'
  BY DEF Begin, EachProviderOnce, TrapsAreFull
<1>4. Ahead' /\ Counted'
  BY NothingIsEmpty DEF Begin, Ahead, Counted
<1>5. Making' /\ Idle' /\ Settled'
  BY DEF Begin, Making, Idle, Settled
<1> QED  BY <1>2, <1>3, <1>4, <1>5 DEF IInv

\* Taking the next provider of the list keeps the invariant.
LEMMA NextProviderInv ==
    ASSUME IInv, NEW p \in Providers, NextProvider(p)
    PROVE  IInv'
PROOF
<1> DEFINE todo == IF p \in sampled THEN Cells ELSE Columns
<1>0. /\ current' = [provider |-> p, made |-> {}, todo |-> todo]
      /\ Columns \subseteq todo /\ todo \subseteq Cells
  BY DEF NextProvider, Cells
<1> HIDE DEF todo
<1>1. TypeOK'
  <2>1. current' \in [provider : Providers, todo : SUBSET Cells, made : SUBSET Cells]
    BY <1>0
  <2> QED  BY <2>1 DEF IInv, TypeOK, NextProvider
<1>2. EachProviderOnce' /\ Ahead' /\ Counted' /\ Idle'
  BY DEF IInv, EachProviderOnce, Precedes, Ahead, Counted, Idle, NextProvider
<1>3. TrapsAreFull'
  BY DEF IInv, TrapsAreFull, IsLast, NextProvider
<1>4. Making'
  BY <1>0 DEF Making, NextProvider
<1>5. Settled'
  BY DEF IInv, Settled, InTrap, NextProvider
<1> QED  BY <1>1, <1>2, <1>3, <1>4, <1>5 DEF IInv

\* Making one cell of the provider keeps the invariant.
LEMMA MakeCellInv ==
    ASSUME IInv, NEW c \in Cells, MakeCell(c)
    PROVE  IInv'
PROOF
<1>1. current.todo \subseteq Cells /\ current.made \subseteq Cells
  BY DEF IInv, TypeOK
<1>2. /\ current'.provider = current.provider
      /\ current'.todo = current.todo \ {c}
      /\ current'.made \in SUBSET Cells /\ current.made \subseteq current'.made
      /\ current.provider \in living => c \in current'.made
      /\ current' \in [provider : Providers, todo : SUBSET Cells, made : SUBSET Cells]
  BY DEF IInv, TypeOK, MakeCell
<1>3. TypeOK'
  BY <1>2 DEF IInv, TypeOK, MakeCell
<1>4. EachProviderOnce' /\ Ahead' /\ Counted' /\ Idle'
  BY DEF IInv, EachProviderOnce, Precedes, Ahead, Counted, Idle, MakeCell
<1>5. TrapsAreFull'
  BY DEF IInv, TrapsAreFull, IsLast, MakeCell
<1>6. Making'
  BY <1>1, <1>2 DEF IInv, Making, MakeCell
<1>7. Settled'
  BY DEF IInv, Settled, InTrap, MakeCell
<1> QED  BY <1>3, <1>4, <1>5, <1>6, <1>7 DEF IInv

\* A provider without a value is dead, and not missed.
LEMMA MadeNothingInv ==
    ASSUME IInv, MadeNothing
    PROVE  IInv'
PROOF
<1>1. TypeOK'
  BY DEF IInv, TypeOK, MadeNothing
<1>2. EachProviderOnce' /\ Ahead' /\ Counted'
  BY DEF IInv, EachProviderOnce, Precedes, Ahead, Counted, MadeNothing
<1>3. TrapsAreFull'
  BY DEF IInv, TrapsAreFull, IsLast, MadeNothing
<1>4. Making' /\ Idle'
  BY DEF Making, Idle, MadeNothing
<1>5. current.provider \notin living
  BY ReportsAssumption DEF IInv, Making, MadeNothing
<1>6. Settled'
  BY <1>5 DEF IInv, Settled, InTrap, MadeNothing
<1> QED  BY <1>1, <1>2, <1>3, <1>4, <1>6 DEF IInv

\* What holds when a provider was made and its values are in the chain Longer.
LEMMA MadeSettles ==
    ASSUME IInv, Made
    PROVE  /\ left' \subseteq left
           /\ \A q \in left' : current.provider < q
           /\ current.provider \in Nat
           /\ \A p \in DOMAIN Longer, q \in left' : p < q
           /\ \A k \in DOMAIN traps : Precedes(traps[k].entries, Longer)
           /\ \A p \in living \ left' :
                 InTrap(p) \/ (p \in DOMAIN Longer /\ Columns \subseteq Longer[p])
PROOF
<1>1. left' = left \ {current.provider} /\ current.todo = {} /\ pc = "make"
  BY DEF Made
<1>2. current.provider \in Nat /\ left \subseteq Nat
  BY ProvidersFinite DEF IInv, TypeOK
<1>3. current.provider \in left /\ \A q \in left : current.provider <= q
  BY <1>1 DEF IInv, Making
<1>4. \A q \in left' : current.provider < q
  BY <1>1, <1>2, <1>3
<1>5. /\ DOMAIN Longer = DOMAIN batch \cup {current.provider}
      /\ Longer[current.provider] = current.made
      /\ \A p \in DOMAIN batch : Longer[p] = batch[p]
  BY <1>1, LongerChain DEF IInv
<1>6. \A p \in DOMAIN Longer, q \in left' : p < q
  BY <1>1, <1>4, <1>5 DEF IInv, Ahead
<1>7. \A k \in DOMAIN traps : Precedes(traps[k].entries, Longer)
  BY <1>3, <1>5 DEF IInv, EachProviderOnce, Ahead, Precedes
<1>8. current.provider \in living => Columns \subseteq current.made
  BY <1>1 DEF IInv, Making
<1>9. \A p \in living \ left' :
         InTrap(p) \/ (p \in DOMAIN Longer /\ Columns \subseteq Longer[p])
  BY <1>1, <1>5, <1>8 DEF IInv, Settled
<1> QED  BY <1>1, <1>2, <1>4, <1>6, <1>7, <1>9

\* Adding what was made to the batch, while it is under the limit, keeps it.
LEMMA CollectInv ==
    ASSUME IInv, Collect
    PROVE  IInv'
PROOF
<1>1. Made /\ pc = "make" /\ pc' = "loop" /\ batch' = Longer /\ i' = i + 1 /\ traps' = traps
  BY DEF Collect, Made
<1>2. /\ Longer \in Chains
      /\ Cardinality(DOMAIN Longer) = i + 1
  BY <1>1, LongerChain DEF IInv
<1>3. i' \in 0 .. n' - 1 /\ n' \in 1 .. MaxInt
  BY DEF IInv, TypeOK, Collect
<1>4. TypeOK'
  BY <1>1, <1>2, <1>3 DEF IInv, TypeOK, Collect, Made
<1>5. EachProviderOnce' /\ Ahead'
  BY <1>1, MadeSettles DEF IInv, EachProviderOnce, Precedes, Ahead
<1>6. Counted'
  BY <1>1, <1>2 DEF Counted
<1>7. TrapsAreFull'
  BY <1>1 DEF IInv, TrapsAreFull, IsLast, Collect
<1>8. Making' /\ Idle'
  BY <1>1 DEF Making, Idle
<1>9. Settled'
  BY <1>1, MadeSettles DEF Settled, InTrap, Collect
<1> QED  BY <1>4, <1>5, <1>6, <1>7, <1>8, <1>9 DEF IInv

\* A trap is pushed when the batch is as long as LIMIT said, no shorter nor longer.
LEMMA PushInv ==
    ASSUME IInv, Push
    PROVE  IInv'
PROOF
<1>1. /\ Made /\ pc = "make" /\ pc' = "loop" /\ batch' = Nothing /\ i' = 0
      /\ traps' = Append(traps, Trap(Longer)) /\ n' = n
  BY DEF Push, Made
<1>2. /\ Longer \in Chains
      /\ Cardinality(DOMAIN Longer) = i + 1
  BY <1>1, LongerChain DEF IInv
<1>3. i + 1 = n /\ n \in 1 .. MaxInt
  BY DEF IInv, TypeOK, Push
<1>4. /\ traps' \in Seq([entries : Chains, ticket : BOOLEAN])
      /\ DOMAIN traps' = DOMAIN traps \cup {Len(traps) + 1}
      /\ traps'[Len(traps) + 1] = Trap(Longer)
      /\ \A k \in DOMAIN traps : traps'[k] = traps[k]
      /\ \A k \in DOMAIN traps : Cardinality(DOMAIN traps[k].entries) = n
      /\ \A k, l \in DOMAIN traps' :
            k < l => Precedes(traps'[k].entries, traps'[l].entries)
  BY <1>1, <1>2, MadeSettles, PushKeeps DEF IInv
<1>5. Trap(Longer).entries = Longer
  BY DEF Trap
<1>6. i' \in 0 .. n' - 1
  BY <1>1, <1>3
<1>7. TypeOK'
  BY <1>1, <1>4, <1>6, NothingIsEmpty DEF IInv, TypeOK, Push, Made
<1>8. EachProviderOnce'
  BY <1>1, <1>4, NothingIsEmpty DEF EachProviderOnce, Precedes
<1>9. Ahead'
  <2>1. \A k \in DOMAIN traps : \A p \in DOMAIN traps[k].entries, q \in left' : p < q
    BY <1>1, MadeSettles DEF IInv, Ahead
  <2>2. \A p \in DOMAIN Longer, q \in left' : p < q
    BY <1>1, MadeSettles
  <2> QED  BY <1>1, <1>4, <1>5, <2>1, <2>2, NothingIsEmpty DEF Ahead
<1>10. Counted'
  BY <1>1, NothingIsEmpty DEF Counted
<1>11. TrapsAreFull'
  BY <1>1, <1>2, <1>3, <1>4, <1>5 DEF TrapsAreFull, IsLast
<1>12. Making' /\ Idle'
  BY <1>1 DEF Making, Idle
<1>13. Settled'
  <2> SUFFICES ASSUME NEW p \in living \ left' PROVE InTrap(p)'
    BY DEF Settled, Push
  <2>1. CASE InTrap(p)
    BY <1>4, <2>1, InTrapStays
  <2>2. CASE p \in DOMAIN Longer /\ Columns \subseteq Longer[p]
    BY <1>4, <1>5, <2>2 DEF InTrap
  <2> QED  BY <1>1, <2>1, <2>2, MadeSettles
<1> QED  BY <1>7, <1>8, <1>9, <1>10, <1>11, <1>12, <1>13 DEF IInv

\* The last trap takes the rest of the batch.
LEMMA PushLastInv ==
    ASSUME IInv, PushLast
    PROVE  IInv'
PROOF
<1>1. /\ pc = "loop" /\ pc' = "idle" /\ left = {} /\ left' = {} /\ batch' = Nothing
      /\ i' = 0 /\ n' = n /\ living' = living
  BY DEF PushLast
<1>2. n \in 1 .. MaxInt /\ i \in 0 .. n - 1 /\ batch \in Chains
  BY DEF IInv, TypeOK
<1>3. i' \in 0 .. n' - 1
  BY <1>1, <1>2, MaxIntPositive
<1>4. Ahead' /\ Counted' /\ Making' /\ Idle'
  BY <1>1, NothingIsEmpty DEF Ahead, Counted, Making, Idle
<1>5. CASE batch = Nothing /\ ~ticket
  <2>1. traps' = traps
    BY <1>5 DEF PushLast
  <2>2. TypeOK'
    BY <1>1, <1>3, <2>1, NothingIsEmpty DEF IInv, TypeOK, PushLast
  <2>3. EachProviderOnce'
    BY <1>1, <2>1, NothingIsEmpty DEF IInv, EachProviderOnce, Precedes
  <2>4. TrapsAreFull'
    BY <1>1, <1>2, <2>1 DEF IInv, TrapsAreFull, IsLast
  <2>5. Settled'
    BY <1>1, <1>5, <2>1, NothingIsEmpty DEF IInv, Settled, InTrap
  <2> QED  BY <1>4, <2>2, <2>3, <2>4, <2>5 DEF IInv
<1>6. CASE ~(batch = Nothing /\ ~ticket)
  <2>1. traps' = Append(traps, Trap(batch))
    BY <1>6 DEF PushLast
  <2>2. /\ traps' \in Seq([entries : Chains, ticket : BOOLEAN])
        /\ DOMAIN traps' = DOMAIN traps \cup {Len(traps) + 1}
        /\ Len(traps') = Len(traps) + 1 /\ Len(traps) \in Nat
        /\ traps'[Len(traps) + 1] = Trap(batch)
        /\ \A k \in DOMAIN traps : traps'[k] = traps[k] /\ k < Len(traps) + 1 /\ k \in Nat
        /\ \A k \in DOMAIN traps : Cardinality(DOMAIN traps[k].entries) = n
        /\ \A k, l \in DOMAIN traps' :
              k < l => Precedes(traps'[k].entries, traps'[l].entries)
    BY <1>1, <1>2, <2>1, PushKeeps DEF IInv, EachProviderOnce
  <2>3. Trap(batch).entries = batch /\ Trap(batch).ticket = ticket
    BY DEF Trap
  <2>4. TypeOK'
    BY <1>1, <1>3, <2>2, NothingIsEmpty DEF IInv, TypeOK, PushLast
  <2>5. EachProviderOnce'
    BY <1>1, <2>2, NothingIsEmpty DEF EachProviderOnce, Precedes
  <2>6. Cardinality(DOMAIN batch) = i /\ (i > 0 \/ ticket)
    BY <1>2, <1>6, ChainFinite, EmptyIsNothing DEF IInv, Counted
  <2>7. TrapsAreFull'
    BY <1>1, <1>2, <2>2, <2>3, <2>6 DEF TrapsAreFull, IsLast
  <2>8. Settled'
    <3> SUFFICES ASSUME NEW p \in living PROVE InTrap(p)'
      BY <1>1 DEF Settled
    <3>1. CASE InTrap(p)
      BY <2>2, <3>1, InTrapStays
    <3>2. CASE p \in DOMAIN batch /\ Columns \subseteq batch[p]
      BY <2>2, <2>3, <3>2 DEF InTrap
    <3> QED  BY <1>1, <3>1, <3>2 DEF IInv, Settled
  <2> QED  BY <1>4, <2>4, <2>5, <2>7, <2>8 DEF IInv
<1> QED  BY <1>5, <1>6

-------------------------------------------------------------------------------
(* The theorems.                                                           *)

\* IInv holds in every reachable state.
THEOREM ReportsInvariant == Spec => []IInv
PROOF
<1>1. IInv /\ [Next]_vars => IInv'
  <2> SUFFICES ASSUME IInv, [Next]_vars PROVE IInv'
    OBVIOUS
  <2>1. ASSUME NEW v \in VEs, Vanish(v) PROVE IInv'
    BY <2>1, OthersInv DEF IInv, TypeOK, Vanish
  <2>2. ASSUME NEW v \in VEs, Appear(v) PROVE IInv'
    BY <2>2, OthersInv DEF IInv, TypeOK, Appear
  <2>3. ASSUME NEW l \in Limits, SetLimit(l) PROVE IInv'
    BY <2>3, OthersInv DEF IInv, TypeOK, SetLimit
  <2>4. ASSUME NEW t \in BOOLEAN, SetTicket(t) PROVE IInv'
    BY <2>4, OthersInv DEF IInv, TypeOK, SetTicket
  <2>5. ASSUME NEW v \in VEs, Sample(v) PROVE IInv'
    BY <2>5, OthersInv DEF IInv, TypeOK, Sample
  <2>6. CASE Begin({}) \/ Begin({Host} \cup listed)
    BY <2>6, BeginInv DEF IInv, TypeOK, Providers
  <2>7. ASSUME NEW p \in Providers, NextProvider(p) PROVE IInv'
    BY <2>7, NextProviderInv
  <2>8. ASSUME NEW c \in Cells, MakeCell(c) PROVE IInv'
    BY <2>8, MakeCellInv
  <2>9. CASE MadeNothing \/ Collect \/ Push \/ PushLast
    BY <2>9, MadeNothingInv, CollectInv, PushInv, PushLastInv
  <2>10. CASE UNCHANGED vars
    BY <2>10, OthersInv DEF IInv, TypeOK, vars, job
  <2> QED  BY <2>1, <2>2, <2>3, <2>4, <2>5, <2>6, <2>7, <2>8, <2>9, <2>10 DEF Next, Inform
<1> QED  BY <1>1, InitInv, PTL DEF Spec

\* Every variable keeps its type; in particular the counter stays below the limit.
THEOREM ReportsTypeCorrect == Spec => []TypeOK
BY ReportsInvariant, PTL DEF IInv

\* Each provider is in at most one trap of a report, in the order of the list.
THEOREM ReportsOnce == Spec => []EachProviderOnce
BY ReportsInvariant, PTL DEF IInv

\* Every trap has as many providers as LIMIT said, but for the last.
THEOREM ReportsFull == Spec => []TrapsAreFull
BY ReportsInvariant, PTL DEF IInv

\* When a report ends, every provider that lived through it was sent whole.
THEOREM ReportsComplete == Spec => []LivingAreReported
PROOF
<1>1. IInv => LivingAreReported
  BY NothingIsEmpty DEF IInv, LivingAreReported, Settled, Idle
<1> QED  BY <1>1, ReportsInvariant, PTL

===============================================================================
