------------------------------ MODULE MCSubTables ------------------------------
(***************************************************************************)
(* Instances of SubTables.                                                 *)
(***************************************************************************)
EXTENDS SubTables

\* Two interfaces, so that one may be sampled that the configuration has no more.
TwoInterfaces ==
    [disk |-> {1}, network |-> {1, 2}, cpu |-> {1}, counters |-> {}]

OneDisk == [disk |-> {1}, network |-> {}, cpu |-> {}, counters |-> {}]

===============================================================================
