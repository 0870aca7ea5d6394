-------------------------------- MODULE MCColumns -------------------------------
(* Licences for Columns: one of both kinds, whose sum overflows, one for both, one cut     *)
(* short, whose limit is negative as an int.                                               *)
EXTENDS Columns

Line(n, u) == [limit |-> n, used |-> u]

MCLicences == {
    [k \in {"ct_total", "nr_vms"} |-> IF k = "nr_vms" THEN Line(14, 1) ELSE Line(Unlimited, 18)],
    [k \in Keys |-> IF k = "servers_total" THEN Line(2, 0) ELSE Line(Combined, 1)],
    [k \in {"ct_total"} |-> Line(9, 0)]}
=============================================================================
