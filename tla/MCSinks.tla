-------------------------------- MODULE MCSinks --------------------------------
(* TLC instances of Sinks: the SET PDUs that managers send. *)
EXTENDS Sinks

CONSTANTS k1, k2, m1

Status(x, v) == [index |-> x, col |-> "status", value |-> v]
Acks(x, n) == [index |-> x, col |-> "acks", value |-> n]

\* One row created with n reports, the columns before or after the status.
Subscribe(k, n) == <<Acks(<<k>>, n), Status(<<k>>, "createAndGo")>>
SubscribeStatusFirst(k, n) == <<Status(<<k>>, "createAndGo"), Acks(<<k>>, n)>>
Create(x) == <<Status(x, "createAndGo")>>
Destroy(x) == <<Status(x, "destroy")>>
Renew(k, n) == <<Acks(<<k>>, n)>>

\* Everything a manager may do to one subscription, mistakes included.
LifecyclePdus ==
    {Subscribe(k1, 2), SubscribeStatusFirst(k1, 1), Create(<<k1>>), Destroy(<<k1>>),
     Renew(k1, 5), Renew(k1, 0), <<Status(<<k1>>, "createAndWait"), Acks(<<k1>>, 1)>>,
     <<Acks(<<k1>>, 2), Status(<<k1>>, "active")>>}

\* Two subscribers, one of them with a filter, and PDUs that fail half way.
FilterPdus ==
    {Subscribe(k1, 1), Create(<<k1, m1>>), Destroy(<<k1, m1>>), Destroy(<<k1>>),
     <<Status(<<k2>>, "createAndGo"), Status(<<k1>>, "active")>>,
     <<Status(<<k1>>, "active"), Status(<<k2>>, "createAndGo")>>}

AllPdus == LifecyclePdus \cup FilterPdus
HalfFailedPdus == {<<Status(<<k1>>, "active"), Status(<<k2>>, "createAndGo")>>}

===============================================================================
