------------------------------ MODULE Subscription ------------------------------
(***************************************************************************)
(* What a subscription is to the manager that made it, without PDUs,       *)
(* phases, containers, threads or the Reaper.  It is made, and started at  *)
(* most once; from then on it has one chain of reports, which goes on      *)
(* while reports are left and the subscription is there, and never begins  *)
(* again when it has ended.  The number of reports left is the manager's   *)
(* to set, but a report that was under way meanwhile has the last word.    *)
(* Module Sinks is shown to implement this specification.                  *)
(***************************************************************************)
EXTENDS Integers

CONSTANTS Rows, NoRow, Modulus      \* Modulus: one more than the most reports

VARIABLES
    stage,      \* of each subscription: none, made, started or gone
    left,       \* the reports that it has left
    chain,      \* whether its next report is due: 0 or 1
    report      \* the report under way: whose it is, and the count that it was taken from

subscriptionVars == <<stage, left, chain, report>>

NoReport == [of |-> NoRow, left |-> 0]

Init ==
    /\ stage = [r \in Rows |-> "none"]
    /\ left = [r \in Rows |-> 0]
    /\ chain = [r \in Rows |-> 0]
    /\ report = NoReport

Make(r) ==
    /\ stage[r] = "none"
    /\ stage' = [stage EXCEPT ![r] = "made"]
    /\ UNCHANGED <<left, chain, report>>

Set(r, n) ==
    /\ stage[r] \in {"made", "started"}
    /\ left' = [left EXCEPT ![r] = n]
    /\ UNCHANGED <<stage, chain, report>>

Start(r) ==
    /\ stage[r] = "made" /\ chain[r] = 0
    /\ stage' = [stage EXCEPT ![r] = "started"]
    /\ chain' = [chain EXCEPT ![r] = 1]
    /\ UNCHANGED <<left, report>>

\* By the manager or by the Reaper, started or not.
Remove(r) ==
    /\ stage[r] \in {"made", "started"}
    /\ stage' = [stage EXCEPT ![r] = "gone"]
    /\ left' = [left EXCEPT ![r] = 0]
    /\ UNCHANGED <<chain, report>>

Report(r) ==
    /\ chain[r] = 1 /\ stage[r] = "started" /\ left[r] # 0
    /\ report = NoReport
    /\ report' = [of |-> r, left |-> left[r]]
    /\ chain' = [chain EXCEPT ![r] = 0]
    /\ UNCHANGED <<stage, left>>

Sent(r) ==
    /\ report.of = r
    /\ left' = IF stage[r] = "gone" THEN left ELSE [left EXCEPT ![r] = report.left - 1]
    /\ chain' = [chain EXCEPT ![r] = 1]
    /\ report' = NoReport
    /\ UNCHANGED stage

End(r) ==
    /\ chain[r] = 1
    /\ stage[r] = "gone" \/ left[r] = 0
    /\ chain' = [chain EXCEPT ![r] = 0]
    /\ UNCHANGED <<stage, left, report>>

Next ==
    \E r \in Rows :
        \/ Make(r) \/ Start(r) \/ Remove(r) \/ Report(r) \/ Sent(r) \/ End(r)
        \/ \E n \in 0 .. Modulus - 1 : Set(r, n)

Spec == Init /\ [][Next]_subscriptionVars
=================================================================================
