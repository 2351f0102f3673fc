------------------------------ MODULE MCVisitors ------------------------------
(* Instances of VisitorAccounts: two services, of which Grafana keeps the
   password of an existing user; two executions may overlap. *)
EXTENDS VisitorAccounts, TLC

CONSTANTS ana, bia, l1, l2

TwoVisitors == {ana, bia}
TwoLambdas  == {l1, l2}
TwoServices == <<"grafana", "airflow">>
Symmetry    == Permutations(TwoVisitors) \cup Permutations(TwoLambdas)
=============================================================================
