------------------------------- MODULE MCDeploy -------------------------------
(* Instances of DeploySession: two executions may overlap. *)
EXTENDS DeploySession

CONSTANTS l1, l2

TwoLambdas == {l1, l2}

AllOverlap == {}

(* What moves the deadline does not overlap the deploy workflow's last call:
   of two such writers the later one would undo the earlier one's. *)
DeadlineOps == {"extend", "shrink", "visitor", "auto_teardown"}
LastCallApart ==
    (DeadlineOps \X {"complete_deploy"}) \cup ({"complete_deploy"} \X DeadlineOps)
=============================================================================
