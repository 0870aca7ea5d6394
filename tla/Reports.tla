--------------------------------- MODULE Reports --------------------------------
(***************************************************************************)
(* How a report is made: Inform::push of src/mib.cpp, with the providers   *)
(* of src/value.h and Sink::Unit::push of src/sink.cpp.                    *)
(*                                                                         *)
(* A report is one provider for the host and one for each VE, in the order *)
(* of the map of VEs, taken under g_big and g_ves.  Their values are made  *)
(* after both locks are free, cell by cell, from tuples that the cells     *)
(* hold weakly, while callback threads remove VEs and managers set columns *)
(* of the subscription.  After every LIMIT providers that had a value, a   *)
(* trap goes out; what is left goes out in the last one.                   *)
(*                                                                         *)
(* The filter of a subscription selects nothing out: Unit::metrix() asks   *)
(* the container for the metric rows under the index of the sink row, and  *)
(* the container compares whole indices (RangeOf of module Sinks).  The same *)
(* holds for the sub-tables of a VE, but for the counters of its guest,    *)
(* whose row has the index of the VE.  So a provider is the row of the VE  *)
(* and that of its counters, which stays when the VE goes (SubTables).     *)
(***************************************************************************)
EXTENDS Integers, Sequences, FiniteSets

CONSTANTS
    VEs,        \* the VEs, numbered in the order of the map; the host is 0
    Columns,    \* the columns of the row of a VE, and of the host
    Counters,   \* the columns of the counters of a VE
    Limits,     \* the values of LIMIT that managers set
    Word        \* the width of LIMIT

ASSUME ReportsAssumption ==
    /\ VEs \subseteq Nat \ {0} /\ IsFiniteSet(VEs)
    /\ Word \in Nat \ {0}
    /\ Limits \subseteq 0 .. 2 ^ Word - 1 /\ Limits # {}
    /\ 2 ^ (Word - 1) \in Nat \ {0, 1}
    /\ Columns # {} /\ Columns \cap Counters = {}

VARIABLES
    listed,     \* the VEs in the map of the Server
    sampled,    \* the VEs that have a row of counters
    limit,      \* the LIMIT column of the subscription
    ticket,     \* is its TICKET column set?
    pc,         \* the Inform job: "idle", "loop" or "make"
    n,          \* the providers that one trap takes
    i,          \* the providers in the batch
    living,     \* the snapshot: its providers whose tuples still live
    left,       \* the snapshot: its providers that are still to be made
    current,    \* the provider being made, its cells to make and those made
    batch,      \* the chain of varbinds: the cells of each provider in it
    traps       \* history: the traps of the last report

vars == <<listed, sampled, limit, ticket, pc, n, i, living, left, current, batch, traps>>
job == <<pc, n, i, left, current, batch, traps>>

Host == 0
Providers == {Host} \cup VEs
Cells == Columns \cup Counters

MaxInt == 2 ^ (Word - 1) - 1

\* Unit::limit(): the unsigned column is read as an int.
Limit == IF 0 < limit /\ limit <= MaxInt THEN limit ELSE MaxInt

Nothing == [p \in {} |-> {}]
NoCurrent == [provider |-> Host, todo |-> {}, made |-> {}]

Init ==
    /\ listed \in SUBSET VEs
    /\ sampled \in SUBSET VEs
    /\ limit \in Limits
    /\ ticket \in BOOLEAN
    /\ pc = "idle"
    /\ n = MaxInt /\ i = 0
    /\ living = {} /\ left = {}
    /\ current = NoCurrent
    /\ batch = Nothing
    /\ traps = <<>>

-------------------------------------------------------------------------------
(* The other threads.                                                      *)

\* Server::erase drops the unit, and with the row its tuple.
Vanish(v) ==
    /\ v \in listed
    /\ listed' = listed \ {v}
    /\ living' = living \ {v}
    /\ UNCHANGED <<sampled, limit, ticket, job>>

\* Server::pull adds a VE: a snapshot that was taken before does not have it.
Appear(v) ==
    /\ v \notin listed
    /\ listed' = listed \cup {v}
    /\ UNCHANGED <<sampled, limit, ticket, job, living>>

\* A manager sets LIMIT or TICKET of the active row.
SetLimit(l) == limit' = l /\ UNCHANGED <<listed, sampled, ticket, job, living>>
SetTicket(t) == ticket' = t /\ UNCHANGED <<listed, sampled, limit, job, living>>

\* The scheduler thread samples the counters of a VE between two reports.
Sample(v) ==
    /\ pc = "idle"
    /\ v \in listed \ sampled
    /\ sampled' = sampled \cup {v}
    /\ UNCHANGED <<listed, limit, ticket, job, living>>

-------------------------------------------------------------------------------
(* The Inform job.                                                         *)

\* The limit is read once; Server::snapshot gives the host and the VEs, or nothing
\* while there is no connection.
Begin(snapshot) ==
    /\ pc = "idle"
    /\ pc' = "loop"
    /\ n' = Limit
    /\ i' = 0
    /\ living' = snapshot
    /\ left' = snapshot
    /\ batch' = Nothing
    /\ traps' = <<>>
    /\ UNCHANGED <<listed, sampled, limit, ticket, current>>

\* The next provider of the list.
NextProvider(p) ==
    /\ pc = "loop"
    /\ p \in left /\ \A q \in left : p <= q
    /\ current' = [provider |-> p, made |-> {},
                   todo |-> IF p \in sampled THEN Cells ELSE Columns]
    /\ pc' = "make"
    /\ UNCHANGED <<listed, sampled, limit, ticket, n, i, living, left, batch, traps>>

\* Cell::Unit::make: no value if the tuple is gone, as that of the VE is with the VE.
MakeCell(c) ==
    /\ pc = "make"
    /\ c \in current.todo
    /\ current' = [current EXCEPT
                     !.todo = @ \ {c},
                     !.made = IF current.provider \in living \/ c \in Counters
                                THEN @ \cup {c} ELSE @]
    /\ UNCHANGED <<listed, sampled, limit, ticket, pc, n, i, living, left, batch, traps>>

\* The provider is made; p.make() is NULL.
MadeNothing ==
    /\ pc = "make"
    /\ current.todo = {} /\ current.made = {}
    /\ left' = left \ {current.provider}
    /\ pc' = "loop"
    /\ UNCHANGED <<listed, sampled, limit, ticket, n, i, living, current, batch, traps>>

Longer ==
    [p \in DOMAIN batch \cup {current.provider} |->
        IF p = current.provider THEN current.made ELSE batch[p]]

Made ==
    /\ pc = "make"
    /\ current.todo = {} /\ current.made # {}
    /\ left' = left \ {current.provider}
    /\ pc' = "loop"

\* Mutant of Collect: if (i++ < n).
CollectOneMore ==
    /\ Made
    /\ i < n
    /\ i' = i + 1
    /\ batch' = Longer
    /\ UNCHANGED <<listed, sampled, limit, ticket, n, living, current, traps>>

\* if (++i < n) continue.
Collect ==
    /\ Made
    /\ i + 1 < n
    /\ i' = i + 1
    /\ batch' = Longer
    /\ UNCHANGED <<listed, sampled, limit, ticket, n, living, current, traps>>

\* Unit::push puts the ticket, if it is set now, before what it is given.
Trap(b) == [entries |-> b, ticket |-> ticket]

\* Mutant of Push: the batch is not reset.
PushAndKeep ==
    /\ Made
    /\ i + 1 >= n
    /\ traps' = Append(traps, Trap(Longer))
    /\ i' = 0
    /\ batch' = Longer
    /\ UNCHANGED <<listed, sampled, limit, ticket, n, living, current>>

Push ==
    /\ Made
    /\ i + 1 >= n
    /\ traps' = Append(traps, Trap(Longer))
    /\ i' = 0
    /\ batch' = Nothing
    /\ UNCHANGED <<listed, sampled, limit, ticket, n, living, current>>

\* Mutant of PushLast: what is left is not pushed.
PushLastDropped ==
    /\ pc = "loop"
    /\ left = {}
    /\ batch' = Nothing
    /\ i' = 0
    /\ pc' = "idle"
    /\ UNCHANGED <<listed, sampled, limit, ticket, n, living, left, current, traps>>

\* The last push: with neither values nor a ticket there is nothing to send.
PushLast ==
    /\ pc = "loop"
    /\ left = {}
    /\ traps' = IF batch = Nothing /\ ~ticket THEN traps ELSE Append(traps, Trap(batch))
    /\ batch' = Nothing
    /\ i' = 0
    /\ pc' = "idle"
    /\ UNCHANGED <<listed, sampled, limit, ticket, n, living, left, current>>

Inform ==
    \/ Begin({}) \/ Begin({Host} \cup listed)
    \/ \E p \in Providers : NextProvider(p)
    \/ \E c \in Cells : MakeCell(c)
    \/ MadeNothing \/ Collect \/ Push \/ PushLast

Next ==
    \/ \E v \in VEs : Vanish(v) \/ Appear(v) \/ Sample(v)
    \/ \E l \in Limits : SetLimit(l)
    \/ \E t \in BOOLEAN : SetTicket(t)
    \/ Inform

Spec == Init /\ [][Next]_vars

-------------------------------------------------------------------------------
(* Properties.                                                             *)

Chains == UNION {[S -> SUBSET Cells] : S \in SUBSET Providers}

TypeOK ==
    /\ listed \subseteq VEs /\ sampled \subseteq VEs
    /\ limit \in Limits
    /\ ticket \in BOOLEAN
    /\ pc \in {"idle", "loop", "make"}
    /\ n \in 1 .. MaxInt /\ i \in 0 .. n - 1
    /\ living \subseteq Providers /\ left \subseteq Providers
    /\ current \in [provider : Providers, todo : SUBSET Cells, made : SUBSET Cells]
    /\ batch \in Chains
    /\ traps \in Seq([entries : Chains, ticket : BOOLEAN])

Precedes(a, b) == \A p \in DOMAIN a, q \in DOMAIN b : p < q

\* The providers of a report are sent in the order of the list, each in at most one
\* trap, wherever the report is cut: the batch starts anew after each push, and does
\* not carry the chain that was sent.
EachProviderOnce ==
    /\ \A k, l \in DOMAIN traps : k < l => Precedes(traps[k].entries, traps[l].entries)
    /\ \A k \in DOMAIN traps : Precedes(traps[k].entries, batch)

IsLast(k) == pc = "idle" /\ k = Len(traps)

\* A trap has exactly as many providers as LIMIT said when the report began, though
\* LIMIT be set meanwhile; only the last has fewer, and it has none at all only if it
\* has the ticket to carry.
TrapsAreFull ==
    \A k \in DOMAIN traps :
        LET size == Cardinality(DOMAIN traps[k].entries)
        IN  IF IsLast(k) THEN size <= n /\ (size > 0 \/ traps[k].ticket) ELSE size = n

InTrap(p) ==
    \E k \in DOMAIN traps :
        p \in DOMAIN traps[k].entries /\ Columns \subseteq traps[k].entries[p]

\* Whatever VEs go while a report is made, each of those that stay, and the host, is
\* in a trap with all columns of its row.
LivingAreReported == pc = "idle" => \A p \in living : InTrap(p)

===============================================================================
