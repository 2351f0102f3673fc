----------------------------- MODULE DeployProofs -----------------------------
(* Proofs about DeploySession: its types, the bound on the time that remains, *)
(* and that the platform is watched.  The bound is inductive once it also     *)
(* speaks of what every execution is about to write or to schedule; the watch *)
(* rests on where every execution and the workflow's run are (second half).   *)
EXTENDS DeploySession, TLAPS

Near(t) == t <= now + MaxRemaining

(* What an execution carries is well typed and near. *)
Ready(i) == i \in Invocations /\ Near(i.s.deadline) /\ Near(i.at)

Stored ==
    /\ now \in Times /\ now # Never
    /\ session \in Sessions /\ Near(session.deadline)
    /\ schedule \in Times /\ Near(schedule)

Workflows ==
    /\ deploys \in Seq(Runs) /\ teardowns \in Seq(Runs)
    /\ platform \in BOOLEAN
    /\ calls \in Int /\ failed \subseteq Kinds

Executions == inv = [l \in Lambdas |-> inv[l]] /\ \A l \in Lambdas : Ready(inv[l])

IInv == Stored /\ Workflows /\ Executions

-----------------------------------------------------------------------------
(* Records *)

LEMMA NoSessionType == NoSession \in Sessions /\ NoSession.deadline = Never
<1> QED  BY DEF NoSession, Sessions, Times, Never

LEMMA IdleReady ==
  ASSUME now \in Times
  PROVE  Ready(Idle)
<1> USE SessionAssumption DEF SessionAssumption
<1> QED  BY NoSessionType DEF Ready, Near, Idle, Invocations, Ops, ClientOps, WorkflowOps,
                           Pcs, Callers, User, Never, Times

LEMMA StartReady ==
  ASSUME IInv, NEW l \in Lambdas, NEW op \in Ops, NEW pc \in Pcs, NEW by \in Callers,
         Start(l, op, pc, by), UNCHANGED now
  PROVE  Executions'
<1> DEFINE j == [Idle EXCEPT !.op = op, !.pc = pc, !.by = by]
<1>1. Ready(j)
  <2>1. Ready(Idle)  BY IdleReady DEF IInv, Stored
  <2>2. Idle.op \in Ops /\ Idle.pc \in Pcs  BY <2>1 DEF Ready, Invocations
  <2> QED  BY <2>1, <2>2 DEF Ready, Invocations, Near
<1>2. inv' = [inv EXCEPT ![l] = j]  BY DEF Start
<1>3. \A k \in Lambdas : inv'[k] = IF k = l THEN j ELSE inv[k]
  BY <1>2 DEF IInv, Executions
<1>4. \A k \in Lambdas : Ready(inv'[k])
  BY <1>1, <1>3 DEF IInv, Executions
<1> QED  BY <1>2, <1>4 DEF IInv, Executions, Ready, Near

LEMMA GotoReady ==
  ASSUME IInv, NEW l \in Lambdas, NEW pc \in Pcs, Goto(l, pc), UNCHANGED now
  PROVE  Executions'
<1> DEFINE j == [inv[l] EXCEPT !.pc = pc]
<1>1. Ready(j)  BY DEF IInv, Executions, Ready, Invocations, Near
<1>2. inv' = [inv EXCEPT ![l] = j]  BY DEF Goto, IInv, Executions
<1>3. \A k \in Lambdas : inv'[k] = IF k = l THEN j ELSE inv[k]
  BY <1>2 DEF IInv, Executions
<1>4. \A k \in Lambdas : Ready(inv'[k])
  BY <1>1, <1>3 DEF IInv, Executions
<1> QED  BY <1>2, <1>4 DEF IInv, Executions, Ready, Near

LEMMA GotoWithReady ==
  ASSUME IInv, NEW l \in Lambdas, NEW pc \in Pcs, NEW s \in Sessions, NEW at \in Times,
         Near(s.deadline), Near(at), GotoWith(l, pc, s, at), UNCHANGED now
  PROVE  Executions'
<1> DEFINE j == [inv[l] EXCEPT !.pc = pc, !.s = s, !.at = at]
<1>1. Ready(j)  BY DEF IInv, Executions, Ready, Invocations, Near
<1>2. inv' = [inv EXCEPT ![l] = j]  BY DEF GotoWith, IInv, Executions
<1>3. \A k \in Lambdas : inv'[k] = IF k = l THEN j ELSE inv[k]
  BY <1>2 DEF IInv, Executions
<1>4. \A k \in Lambdas : Ready(inv'[k])
  BY <1>1, <1>3 DEF IInv, Executions
<1> QED  BY <1>2, <1>4 DEF IInv, Executions, Ready, Near

LEMMA EndReady ==
  ASSUME IInv, NEW l \in Lambdas, End(l), UNCHANGED now
  PROVE  Executions'
<1>1. Ready(Idle)  BY IdleReady DEF IInv, Stored
<1>3. \A k \in Lambdas : inv'[k] = IF k = l THEN Idle ELSE inv[k]
  BY DEF IInv, Executions, End
<1>4. \A k \in Lambdas : Ready(inv'[k])
  BY <1>1, <1>3 DEF IInv, Executions
<1> QED  BY <1>4 DEF IInv, Executions, Ready, Near, End

-----------------------------------------------------------------------------
(* The runs of the workflows *)

LEMMA MoveDeployType ==
  ASSUME deploys \in Seq(Runs), NEW i \in DOMAIN deploys, NEW from, NEW to \in Phases,
         MoveDeploy(i, from, to)
  PROVE  deploys' \in Seq(Runs)
<1>0. deploys[i] \in Runs  OBVIOUS
<1>1. [deploys[i] EXCEPT !.phase = to] \in Runs  BY <1>0 DEF Runs
<1>2. deploys' = [deploys EXCEPT ![i] = [deploys[i] EXCEPT !.phase = to]]
  BY DEF MoveDeploy
<1> QED  BY <1>1, <1>2

LEMMA MoveTeardownType ==
  ASSUME teardowns \in Seq(Runs), NEW i \in DOMAIN teardowns, NEW from, NEW to \in Phases,
         MoveTeardown(i, from, to)
  PROVE  teardowns' \in Seq(Runs)
<1>0. teardowns[i] \in Runs  OBVIOUS
<1>1. [teardowns[i] EXCEPT !.phase = to] \in Runs  BY <1>0 DEF Runs
<1>2. teardowns' = [teardowns EXCEPT ![i] = [teardowns[i] EXCEPT !.phase = to]]
  BY DEF MoveTeardown
<1> QED  BY <1>1, <1>2

LEMMA SupersededType ==
  ASSUME teardowns \in Seq(Runs)
  PROVE  Superseded \in Seq(Runs)
<1>1. "failure" \in Phases  BY DEF Phases
<1>2. \A i \in DOMAIN teardowns : teardowns[i] \in Runs  OBVIOUS
<1>5. \A r \in Runs : [r EXCEPT !.phase = "failure"] \in Runs
  BY <1>1 DEF Runs
<1>3. \A i \in DOMAIN teardowns : Superseded[i] \in Runs
  BY <1>2, <1>5 DEF Superseded
<1>4. DOMAIN Superseded = 1 .. Len(teardowns)  BY DEF Superseded
<1> QED  BY <1>3, <1>4 DEF Superseded

LEMMA NewRunType ==
  ASSUME now \in Times
  PROVE  NewRun \in Runs
  BY DEF NewRun, Runs, Phases, Active

-----------------------------------------------------------------------------
(* Executions *)

LEMMA ReadKeeps ==
  ASSUME IInv, NEW l \in Lambdas, Read(l)
  PROVE  IInv'
<1> USE SessionAssumption DEF SessionAssumption
<1>1. now \in Nat /\ session \in Sessions /\ Near(session.deadline) /\ MaxRemaining \in Nat
      /\ NoSession \in Sessions /\ Near(NoSession.deadline) /\ Near(Never) /\ Never \in Times
  BY NoSessionType DEF IInv, Stored, Near, Times, Never
<1>2. UNCHANGED <<now, session, schedule, deploys, teardowns, platform, calls, failed>>
  BY DEF Read
<1>3. Stored' /\ Workflows'
  BY <1>2 DEF IInv, Stored, Workflows, Near
<1>4. {"dispatch", "unset", "github", "reread", "put", "unsched", "fallback"} \subseteq Pcs
  BY DEF Pcs
<1>5. CASE ReadDeploy(l)  BY <1>2, <1>4, <1>5, GotoReady, EndReady, <1>3 DEF ReadDeploy, IInv
<1>6. CASE ReadStatus(l)
  <2>1. \/ \E pc \in {"unset", "github"} : GotoWith(l, pc, session, Never)
        \/ End(l)
    BY <1>6 DEF ReadStatus
  <2> QED  BY <1>1, <1>2, <1>3, <1>4, <2>1, GotoWithReady, EndReady DEF IInv
<1>7. CASE ReadTeardownStatus(l)
  BY <1>1, <1>2, <1>3, <1>4, <1>7, GotoWithReady, EndReady DEF ReadTeardownStatus, IInv
<1>8. CASE ReadDeployStatus(l)
  BY <1>1, <1>2, <1>3, <1>4, <1>8, GotoWithReady, EndReady DEF ReadDeployStatus, IInv
<1>9. CASE ReadEnsure(l)
  <2> DEFINE s == [NoSession EXCEPT !.deployed = now, !.deadline = now + Step]
  <2>1. s \in Sessions /\ s.deadline = now + Step
    <3> DEFINE r == [NoSession EXCEPT !.deployed = now]
    <3>1. r \in Sessions  BY <1>1 DEF Sessions, Times
    <3>2. s = [r EXCEPT !.deadline = now + Step]  OBVIOUS
    <3>3. now + Step \in Times  BY <1>1 DEF Times
    <3> HIDE DEF r
    <3> QED  BY <3>1, <3>2, <3>3 DEF Sessions
  <2>2. Near(now + Step) /\ now + Step \in Times  BY <1>1 DEF Near, Times
  <2>3. CASE Exists(session)
    BY <1>1, <1>2, <1>3, <1>4, <1>9, <2>2, <2>3, GotoWithReady DEF ReadEnsure, IInv
  <2>4. CASE ~Exists(session)
    <3>1. GotoWith(l, "put", s, now + Step)  BY <1>9, <2>4 DEF ReadEnsure
    <3> QED  BY <1>2, <1>3, <1>4, <2>1, <2>2, <3>1, GotoWithReady DEF IInv
  <2> QED  BY <2>3, <2>4
<1>10. CASE ReadExtend(l)
  <2>1. PICK step \in Extensions :
           IF session.deadline # Never /\ Remaining(session) + step <= MaxRemaining
           THEN GotoWith(l, "reread", NoSession, session.deadline + step) ELSE End(l)
    BY <1>10 DEF ReadExtend
  <2>2. CASE session.deadline # Never /\ Remaining(session) + step <= MaxRemaining
    <3>1. session.deadline + step \in Times /\ Near(session.deadline + step)
      BY <1>1, <2>2 DEF Remaining, Near, Sessions, Times
    <3>2. GotoWith(l, "reread", NoSession, session.deadline + step)  BY <2>1, <2>2
    <3> QED  BY <1>1, <1>2, <1>3, <1>4, <3>1, <3>2, GotoWithReady DEF IInv
  <2>3. CASE ~(session.deadline # Never /\ Remaining(session) + step <= MaxRemaining)
    <3>1. End(l)  BY <2>1, <2>3
    <3> QED  BY <1>2, <1>3, <3>1, EndReady DEF IInv
  <2> QED  BY <2>2, <2>3
<1>11. CASE ReadShrink(l)
  <2>1. CASE session.deadline # Never /\ Remaining(session) >= Step
    <3>1. session.deadline - Step \in Times /\ Near(session.deadline - Step)
      BY <1>1, <2>1 DEF Remaining, Near, Sessions, Times
    <3> QED  BY <1>1, <1>2, <1>3, <1>4, <1>11, <2>1, <3>1, GotoWithReady DEF ReadShrink, IInv
  <2>2. CASE ~(session.deadline # Never /\ Remaining(session) >= Step)
    BY <1>2, <1>3, <1>11, <2>2, EndReady DEF ReadShrink, IInv
  <2> QED  BY <2>1, <2>2
<1>12. CASE ReadVisitor(l)
  <2>1. now + VisitorMin \in Times /\ Near(now + VisitorMin)  BY <1>1 DEF Near, Times
  <2> QED  BY <1>1, <1>2, <1>3, <1>4, <1>12, <2>1, GotoWithReady, EndReady DEF ReadVisitor, IInv
<1>13. CASE ReadCallback(l)
  <2> DEFINE s == [session EXCEPT !.deployRun   = @ \/ Is(l, "set_deploy_run"),
                                  !.teardownRun = @ \/ Is(l, "set_teardown_run"),
                                  !.completed   = @ \/ Is(l, "complete_deploy")]
  <2>1. s \in Sessions /\ s.deadline = session.deadline
    BY <1>1 DEF Sessions
  <2>2. CASE Exists(session)
    <3>1. GotoWith(l, "put", s, Never)  BY <1>13, <2>2 DEF ReadCallback
    <3> QED  BY <1>1, <1>2, <1>3, <1>4, <2>1, <3>1, GotoWithReady DEF IInv
  <2>3. CASE ~Exists(session)
    BY <1>2, <1>3, <1>13, <2>3, EndReady DEF ReadCallback, IInv
  <2> QED  BY <2>2, <2>3
<1>14. CASE ReadCompleteTeardown(l)
  BY <1>2, <1>3, <1>4, <1>14, GotoReady DEF ReadCompleteTeardown, IInv
<1>15. CASE ReadAuto(l)
  <2> DEFINE s == [session EXCEPT !.tearing = TRUE, !.tearingAt = now]
  <2>1. CASE Exists(session)
    <3>1. GotoWith(l, "put", s, Never)  BY <1>15, <2>1 DEF ReadAuto
    <3>2. s \in Sessions /\ s.deadline = session.deadline
      BY <1>1 DEF Sessions, Times, IInv, Stored
    <3> QED  BY <1>1, <1>2, <1>3, <1>4, <3>1, <3>2, GotoWithReady DEF IInv
  <2>2. CASE ~Exists(session)
    BY <1>2, <1>3, <1>4, <1>15, <2>2, GotoReady DEF ReadAuto, IInv
  <2> QED  BY <2>1, <2>2
<1> QED  BY <1>5, <1>6, <1>7, <1>8, <1>9, <1>10, <1>11, <1>12, <1>13, <1>14, <1>15 DEF Read

LEMMA RereadKeeps ==
  ASSUME IInv, NEW l \in Lambdas, Reread(l)
  PROVE  IInv'
<1>1. UNCHANGED <<now, session, schedule, deploys, teardowns, platform, calls, failed>>
  BY DEF Reread
<1>2. Stored' /\ Workflows'
  BY <1>1 DEF IInv, Stored, Workflows, Near
<1>3. {"put", "reread"} \subseteq Pcs  BY DEF Pcs
<1>4. inv[l].at \in Times /\ Near(inv[l].at)
  BY DEF IInv, Executions, Ready, Invocations
<1>5. CASE GotoWith(l, "put", [session EXCEPT !.deadline = inv[l].at], inv[l].at)
  <2> DEFINE s == [session EXCEPT !.deadline = inv[l].at]
  <2>1. s \in Sessions /\ s.deadline = inv[l].at
    BY <1>4 DEF IInv, Stored, Sessions
  <2> QED  BY <1>1, <1>2, <1>3, <1>4, <1>5, <2>1, GotoWithReady DEF IInv
<1>6. CASE Goto(l, "reread")  BY <1>1, <1>2, <1>3, <1>6, GotoReady DEF IInv
<1>7. CASE End(l)  BY <1>1, <1>2, <1>7, EndReady DEF IInv
<1> QED  BY <1>5, <1>6, <1>7 DEF Reread

\* Found: the execution goes on with what it has read, its run id known.
LEMMA FoundReady ==
  ASSUME IInv, NEW l \in Lambdas, UNCHANGED now,
         \/ inv' = [inv EXCEPT ![l].pc = "put", ![l].s.teardownRun = TRUE]
         \/ inv' = [inv EXCEPT ![l].pc = "put", ![l].s.deployRun = TRUE]
  PROVE  Executions'
<1>1. inv[l] \in Invocations /\ inv[l].s \in Sessions /\ Ready(inv[l])
  BY DEF IInv, Executions, Ready, Invocations
<1> DEFINE j1 == [inv[l] EXCEPT !.pc = "put", !.s = [inv[l].s EXCEPT !.teardownRun = TRUE]]
           j2 == [inv[l] EXCEPT !.pc = "put", !.s = [inv[l].s EXCEPT !.deployRun = TRUE]]
<1>2. /\ [inv[l].s EXCEPT !.teardownRun = TRUE] \in Sessions
      /\ [inv[l].s EXCEPT !.deployRun = TRUE] \in Sessions
      /\ [inv[l].s EXCEPT !.teardownRun = TRUE].deadline = inv[l].s.deadline
      /\ [inv[l].s EXCEPT !.deployRun = TRUE].deadline = inv[l].s.deadline
  BY <1>1 DEF Sessions
<1>3. Ready(j1) /\ Ready(j2)
  BY <1>1, <1>2 DEF Ready, Invocations, Pcs, Near
<1>4. inv' = [inv EXCEPT ![l] = j1] \/ inv' = [inv EXCEPT ![l] = j2]
  BY <1>1 DEF Invocations, Sessions, IInv, Executions
<1>5. PICK j \in {j1, j2} : inv' = [inv EXCEPT ![l] = j]
  BY <1>4
<1>6. Ready(j)  BY <1>3, <1>5
<1>7. \A k \in Lambdas : inv'[k] = IF k = l THEN j ELSE inv[k]
  BY <1>5 DEF IInv, Executions
<1>8. \A k \in Lambdas : Ready(inv'[k])
  BY <1>6, <1>7 DEF IInv, Executions
<1> QED  BY <1>5, <1>8 DEF IInv, Executions, Ready, Near

LEMMA GithubKeeps ==
  ASSUME IInv, NEW l \in Lambdas, Github(l) \/ GithubFails(l)
  PROVE  IInv'
<1> USE SessionAssumption DEF SessionAssumption
<1>1. UNCHANGED <<now, session, schedule, deploys, teardowns, platform, calls>>
      /\ failed' \subseteq Kinds
  BY DEF Github, GithubFails, Fail, IInv, Workflows, Kinds
<1>2. Stored' /\ Workflows'
  BY <1>1 DEF IInv, Stored, Workflows, Near
<1>3. {"unset", "put", "resched", "read"} \subseteq Pcs  BY DEF Pcs
<1>4. NoSession \in Sessions /\ Near(NoSession.deadline)
      /\ now + Reschedule \in Times /\ Near(now + Reschedule)
  BY NoSessionType DEF IInv, Stored, Near, Times, Never
<1>5. \/ \E pc \in {"unset", "read"} : Goto(l, pc)
      \/ End(l)
      \/ GotoWith(l, "resched", NoSession, now + Reschedule)
      \/ inv' = [inv EXCEPT ![l].pc = "put", ![l].s.teardownRun = TRUE]
      \/ inv' = [inv EXCEPT ![l].pc = "put", ![l].s.deployRun = TRUE]
  <2>1. CASE GithubFails(l)
    BY <2>1 DEF GithubFails, StatusOfDeploy
  <2>2. CASE Github(l)
    BY <2>2 DEF Github, StatusOfDeploy, StatusOfTeardown, FindTeardownRun, FindDeployRun, GiveWay
  <2> QED  BY <2>1, <2>2
<1> QED  BY <1>1, <1>2, <1>3, <1>4, <1>5, GotoReady, GotoWithReady, EndReady, FoundReady DEF IInv

\* The steps that only move on, or end.
LEMMA MoveKeeps ==
  ASSUME IInv, NEW l \in Lambdas,
         \/ ReadFails(l) \/ DispatchRefused(l) \/ DispatchFails(l) \/ PutFails(l)
         \/ UpsertFails(l) \/ UnsetFails(l) \/ UnschedFails(l)
  PROVE  IInv'
<1>1. UNCHANGED <<now, session, schedule, deploys, teardowns, platform, calls>>
  BY DEF ReadFails, DispatchRefused, DispatchFails, PutFails, UpsertFails, UnsetFails, UnschedFails
<1>2. failed' \subseteq Kinds
  BY DEF ReadFails, DispatchRefused, DispatchFails, PutFails, UpsertFails, UnsetFails, UnschedFails,
         Fail, IInv, Workflows, Kinds
<1>3. Stored' /\ Workflows'
  BY <1>1, <1>2 DEF IInv, Stored, Workflows, Near
<1>4. {"unsched", "fallback", "dispatch"} \subseteq Pcs  BY DEF Pcs
<1>5. End(l) \/ \E pc \in {"unsched", "fallback", "dispatch"} : Goto(l, pc)
  BY DEF ReadFails, DispatchRefused, DispatchFails, PutFails, UpsertFails, UnsetFails, UnschedFails,
         GiveUp
<1> QED  BY <1>1, <1>3, <1>4, <1>5, GotoReady, EndReady DEF IInv

\* The steps that write.
LEMMA WriteKeeps ==
  ASSUME IInv, NEW l \in Lambdas,
         Put(l) \/ Upsert(l) \/ Unset(l) \/ Unsched(l) \/ Fallback(l)
  PROVE  IInv'
<1> USE SessionAssumption DEF SessionAssumption
<1>1. UNCHANGED <<now, deploys, teardowns, platform, calls, failed>>
  BY DEF Put, Upsert, Unset, Unsched, Fallback
<1>2. Workflows'  BY <1>1 DEF IInv, Workflows
<1>3. session' \in {session, inv[l].s, NoSession} /\ schedule' \in {schedule, inv[l].at, Never}
  BY DEF Put, Upsert, Unset, Unsched, Fallback
<1>4. Stored'
  BY <1>1, <1>3, NoSessionType DEF IInv, Stored, Executions, Ready, Invocations, Near, Never, Times
<1>5. {"sched", "unsched", "peek", "dispatch"} \subseteq Pcs  BY DEF Pcs
<1>6. End(l) \/ \E pc \in {"sched", "unsched", "peek", "dispatch"} : Goto(l, pc)
  BY DEF Put, Upsert, Unset, Unsched, Fallback
<1> QED  BY <1>1, <1>2, <1>4, <1>5, <1>6, GotoReady, EndReady DEF IInv

LEMMA DispatchKeeps ==
  ASSUME IInv, NEW l \in Lambdas, DispatchDeploy(l) \/ DispatchTeardown(l)
  PROVE  IInv'
<1> USE SessionAssumption DEF SessionAssumption
<1>1. UNCHANGED <<now, session, schedule, platform, calls, failed>>
  BY DEF DispatchDeploy, DispatchTeardown
<1>2. Stored'  BY <1>1 DEF IInv, Stored, Near
<1>3. NewRun \in Runs  BY NewRunType DEF IInv, Stored
<1>4. CASE DispatchDeploy(l)
  <2> DEFINE s == [NoSession EXCEPT !.deployed = now]
  <2>1. s \in Sessions /\ s.deadline = Never
    BY NoSessionType DEF IInv, Stored, Sessions, Times
  <2>2. Near(s.deadline) /\ Near(Never) /\ Never \in Times
    BY <2>1 DEF IInv, Stored, Times, Never, Near
  <2>3. GotoWith(l, "put", s, Never)  BY <1>4 DEF DispatchDeploy
  <2>4. Executions'  BY <1>1, <2>1, <2>2, <2>3, GotoWithReady DEF Pcs
  <2>5. deploys' = Append(deploys, NewRun) /\ teardowns' = teardowns
    BY <1>4 DEF DispatchDeploy
  <2>6. Workflows'  BY <1>1, <1>3, <2>5 DEF IInv, Workflows
  <2> QED  BY <1>2, <2>4, <2>6 DEF IInv
<1>5. CASE DispatchTeardown(l)
  <2>1. Executions'  BY <1>1, <1>5, EndReady DEF DispatchTeardown
  <2>2. Superseded \in Seq(Runs)  BY SupersededType DEF IInv, Workflows
  <2>3. teardowns' = Append(Superseded, NewRun) /\ deploys' = deploys
    BY <1>5 DEF DispatchTeardown
  <2>4. Workflows'  BY <1>1, <1>3, <2>2, <2>3 DEF IInv, Workflows
  <2> QED  BY <1>2, <2>1, <2>4 DEF IInv
<1> QED  BY <1>4, <1>5

-----------------------------------------------------------------------------
(* Clients, EventBridge, workflows, the clock *)

LEMMA CallKeeps ==
  ASSUME IInv,
         \/ CliDeploy
         \/ \E l \in Lambdas : Fire(l) \/ \E op \in UserOps : ClientCall(l, op)
  PROVE  IInv'
<1> USE SessionAssumption DEF SessionAssumption
<1>1. User \in Callers /\ {"read", "github"} \subseteq Pcs /\ "auto_teardown" \in Ops
      /\ UserOps \subseteq Ops
  BY DEF User, Callers, Pcs, Ops
<1>2. CASE CliDeploy
  <2>1. Stored' /\ Executions'
    BY <1>2 DEF CliDeploy, IInv, Stored, Executions, Ready, Near
  <2>2. NewRun \in Runs  BY NewRunType DEF IInv, Stored
  <2>3. deploys' = Append(deploys, NewRun) /\ calls' = calls - 1
        /\ UNCHANGED <<teardowns, platform, failed>>
    BY <1>2 DEF CliDeploy, NewRun
  <2>4. Workflows'  BY <2>2, <2>3 DEF IInv, Workflows
  <2> QED  BY <2>1, <2>4 DEF IInv
<1>3. ASSUME NEW l \in Lambdas, Fire(l)
      PROVE  IInv'
  <2>1. Executions'  BY <1>1, <1>3, StartReady DEF Fire
  <2>2. Stored' /\ Workflows'
    BY <1>3 DEF Fire, IInv, Stored, Workflows, Near, Times, Never
  <2> QED  BY <2>1, <2>2 DEF IInv
<1>4. ASSUME NEW l \in Lambdas, NEW op \in UserOps, ClientCall(l, op)
      PROVE  IInv'
  <2>1. Executions'  BY <1>1, <1>4, StartReady DEF ClientCall
  <2>2. Stored' /\ Workflows'
    BY <1>4 DEF ClientCall, IInv, Stored, Workflows, Near
  <2> QED  BY <2>1, <2>2 DEF IInv
<1> QED  BY <1>2, <1>3, <1>4

LEMMA DeployKeeps ==
  ASSUME IInv, NEW i \in DOMAIN deploys, DeployStep(i) \/ DeployFails(i)
  PROVE  IInv'
<1>1. i \in Nat  BY DEF IInv, Workflows
<1>2. /\ UNCHANGED <<now, session, schedule, teardowns, calls>>
      /\ platform' \in BOOLEAN /\ failed' \subseteq Kinds
  BY DEF DeployStep, DeployFails, Apply, DeployGoesOn, DeployCalls, Fail, IInv, Workflows, Kinds
<1>3. Stored'  BY <1>2 DEF IInv, Stored, Near
<1>4. \E from, to \in Phases : MoveDeploy(i, from, to)
  BY DEF DeployStep, DeployFails, Apply, DeployGoesOn, DeployCalls, Phases, Active, Running
<1>5. Workflows'  BY <1>2, <1>4, MoveDeployType DEF IInv, Workflows
<1>6. Executions'
  <2>1. CASE UNCHANGED inv
    BY <1>2, <2>1 DEF IInv, Executions, Ready, Near
  <2>2. ASSUME NEW l \in Lambdas, DeployCalls(i, l)
        PROVE  Executions'
    <3>1. {"set_deploy_run", "ensure", "complete_deploy"} \subseteq Ops
          /\ "read" \in Pcs /\ <<"deploy", i>> \in Callers
      BY <1>1 DEF Ops, WorkflowOps, Pcs, Callers
    <3> QED  BY <1>2, <2>2, <3>1, StartReady DEF DeployCalls
  <2> QED  BY <2>1, <2>2 DEF DeployStep, DeployFails, Apply, DeployGoesOn
<1> QED  BY <1>3, <1>5, <1>6 DEF IInv

LEMMA TeardownKeeps ==
  ASSUME IInv, NEW i \in DOMAIN teardowns, TeardownStep(i) \/ DestroyFails(i)
  PROVE  IInv'
<1>1. i \in Nat  BY DEF IInv, Workflows
<1>2. /\ UNCHANGED <<now, session, schedule, deploys, calls>>
      /\ platform' \in BOOLEAN /\ failed' \subseteq Kinds
  BY DEF TeardownStep, DestroyFails, Destroy, TeardownEnds, TeardownCalls, Fail, IInv, Workflows, Kinds
<1>3. Stored'  BY <1>2 DEF IInv, Stored, Near
<1>4. \E from, to \in Phases : MoveTeardown(i, from, to)
  BY DEF TeardownStep, DestroyFails, Destroy, TeardownEnds, TeardownCalls, Phases, Active, Running
<1>5. Workflows'  BY <1>2, <1>4, MoveTeardownType DEF IInv, Workflows
<1>6. Executions'
  <2>1. CASE UNCHANGED inv
    BY <1>2, <2>1 DEF IInv, Executions, Ready, Near
  <2>2. ASSUME NEW l \in Lambdas, TeardownCalls(i, l)
        PROVE  Executions'
    <3>1. {"set_teardown_run", "complete_teardown"} \subseteq Ops
          /\ "read" \in Pcs /\ <<"teardown", i>> \in Callers
      BY <1>1 DEF Ops, WorkflowOps, Pcs, Callers
    <3> QED  BY <1>2, <2>2, <3>1, StartReady DEF TeardownCalls
  <2> QED  BY <2>1, <2>2 DEF TeardownStep, DestroyFails, Destroy, TeardownEnds
<1> QED  BY <1>3, <1>5, <1>6 DEF IInv

LEMMA TickKeeps ==
  ASSUME IInv, Tick
  PROVE  IInv'
<1> USE SessionAssumption DEF SessionAssumption
<1>1. now \in Nat /\ now' = now + 1 /\ MaxRemaining \in Nat
      /\ UNCHANGED <<session, schedule, deploys, teardowns, platform, inv, calls, failed>>
  BY DEF Tick, IInv, Stored, Times
<1>2. Stored'  BY <1>1 DEF IInv, Stored, Sessions, Near, Times, Never
<1>3. Workflows'  BY <1>1 DEF IInv, Workflows
<1>4. \A l \in Lambdas : Ready(inv[l])'
  <2> SUFFICES ASSUME NEW l \in Lambdas  PROVE Ready(inv[l])'
    OBVIOUS
  <2>1. inv[l] \in Invocations /\ inv[l].s.deadline \in Nat /\ inv[l].at \in Nat
        /\ inv[l].s.deadline <= now + MaxRemaining /\ inv[l].at <= now + MaxRemaining
    BY DEF IInv, Executions, Ready, Near, Invocations, Sessions, Times
  <2> QED  BY <1>1, <2>1 DEF Ready, Near
<1>5. Executions'  BY <1>1, <1>4 DEF IInv, Executions
<1> QED  BY <1>2, <1>3, <1>5 DEF IInv

-----------------------------------------------------------------------------
(* Theorems *)

LEMMA InitIInv == Init => IInv
<1> USE SessionAssumption DEF SessionAssumption
<1> SUFFICES ASSUME Init  PROVE IInv
  OBVIOUS
<1>1. Stored
  BY NoSessionType DEF Init, Stored, Near, Times, Never
<1>2. Workflows
  <2>1. MaxCalls \in Int  OBVIOUS
  <2>2. <<>> \in Seq(Runs)  OBVIOUS
  <2>3. deploys = <<>> /\ teardowns = <<>> /\ platform = FALSE /\ calls = MaxCalls /\ failed = {}
    BY DEF Init
  <2> QED  BY <2>1, <2>2, <2>3 DEF Workflows
<1>3. Ready(Idle)
  <2>1. now \in Times  BY DEF Init, Times
  <2> QED  BY <2>1, IdleReady
<1>4. Executions  BY <1>3 DEF Init, Executions
<1> QED  BY <1>1, <1>2, <1>4 DEF IInv

LEMMA NextIInv == IInv /\ [Next]_vars => IInv'
<1> SUFFICES ASSUME IInv, [Next]_vars  PROVE IInv'
  OBVIOUS
<1>1. CASE UNCHANGED vars
  BY <1>1 DEF vars, IInv, Stored, Workflows, Executions, Ready, Near
<1>2. ASSUME NEW l \in Lambdas, LambdaStep(l) \/ LambdaFails(l)
      PROVE  IInv'
  BY <1>2, ReadKeeps, RereadKeeps, GithubKeeps, MoveKeeps, WriteKeeps, DispatchKeeps
     DEF LambdaStep, LambdaFails
<1> QED  BY <1>1, <1>2, CallKeeps, DeployKeeps, TeardownKeeps, TickKeeps DEF Next

(* Every execution, document and run stays well formed, whichever executions
   overlap and whatever fails. *)
THEOREM TypeTheorem == Spec => []TypeOK
<1>1. IInv => TypeOK
  BY DEF IInv, Stored, Workflows, Executions, Ready, TypeOK
<1> QED  BY <1>1, InitIInv, NextIInv, PTL DEF Spec

(* The deadline and the scheduled teardown are never further away than
   MAX_REMAINING_SECONDS, for any number of overlapping executions. *)
THEOREM RemainingTheorem == Spec => []RemainingBounded
<1>1. IInv => RemainingBounded
  BY DEF IInv, Stored, Near, RemainingBounded
<1> QED  BY <1>1, InitIInv, NextIInv, PTL DEF Spec

-----------------------------------------------------------------------------
(* Watched: what the platform's watch rests on.  There are two ages.  While no
   teardown has been dispatched (Fresh) the schedule stands from the deploy
   workflow's ensure on, and only the auto-teardown it calls takes it away;
   once one has been dispatched (Doomed) the platform is down or the teardown
   is still to come. *)

(* One deploy, which ends before its session is taken for stale, and whose last
   call nothing that moves the deadline overlaps. *)
DeadlineOps == {"extend", "shrink", "visitor", "auto_teardown"}
OneDeploy ==
    /\ MaxRuns <= 1
    /\ RunTime <= DeployingTimeout
    /\ \A op \in DeadlineOps : {<<op, "complete_deploy">>, <<"complete_deploy", op>>} \subseteq Apart

Survived == failed \subseteq Tolerated

Phase   == IF deploys = <<>> THEN "queued" ELSE deploys[1].phase
Created == deploys[1].created

Unregistered == {"queued", "running", "up", "registered"}
Early        == Phase \in Unregistered \cup {"converged"}

InFlight(op) == \E l \in Lambdas : Is(l, op)

(* auto-teardown that will dispatch, and one that will dispatch or schedule *)
Tearing(l) ==
    /\ Is(l, "auto_teardown")
    /\ \/ inv[l].pc \in {"unsched", "dispatch"}
       \/ At(l, "put") /\ inv[l].at = Never

Pending(l) ==
    \/ Tearing(l)
    \/ Is(l, "auto_teardown") /\ inv[l].pc \in {"github", "read", "resched"}

RunOK ==
    /\ Len(deploys) <= 1
    /\ Phase # "failure"
    /\ platform => Phase \notin {"queued", "running"}
    /\ deploys # <<>> =>
         /\ Created <= now
         /\ Phase \in Active => now <= Created + RunTime
         /\ Phase \notin {"queued", "running"} => Created < now

Doomed ==
    /\ ~Early
    /\ platform => \E i \in DOMAIN teardowns : teardowns[i].phase \in {"queued", "running"}

Born(s)     == Exists(s) => deploys # <<>> /\ Created <= s.deployed
RunKnown(s) == Exists(s) => s.deployRun \/ Created < s.deployed

SessionOK ==
    /\ Born(session)
    /\ session.tearing => Exists(session) /\ session.tearingAt = now
    /\ Early => schedule = Never /\ session.deadline = Never
    /\ Phase = "registered" => InFlight("set_deploy_run") \/ RunKnown(session)
    /\ Phase \notin Unregistered => RunKnown(session)
    /\ Phase \in {"completing", "success"} => InFlight("complete_deploy") \/ session.completed

(* The document an execution is about to write *)
Carried(l) ==
    /\ Exists(inv[l].s) /\ Born(inv[l].s)
    /\ inv[l].s.tearing => inv[l].s.tearingAt = now
    /\ Phase \notin {"queued", "running", "up"} => RunKnown(inv[l].s)
    /\ Phase \in {"completing", "success"} => inv[l].s.completed

Writer(l) ==
    \/ Is(l, "deploy") /\ Phase \in {"queued", "running"} /\ Created = now
    \/ Is(l, "deploy_status") /\ Phase \in Unregistered /\ inv[l].s.deployRun
    \/ inv[l].op \in {"set_deploy_run", "complete_deploy"} /\ inv[l].at = Never
    \/ inv[l].op \in {"ensure"} \cup DeadlineOps

Called(l) ==
    /\ Is(l, "set_deploy_run")  => Phase = "registered" /\ inv[l].by = <<"deploy", 1>>
    /\ Is(l, "ensure")          => Phase = "ensured"    /\ inv[l].by = <<"deploy", 1>>
    /\ Is(l, "complete_deploy") => Phase = "completing" /\ inv[l].by = <<"deploy", 1>>

Asked(l) ==
    /\ inv[l].op \in ClientOps \cup {"auto_teardown"}
    /\ Is(l, "session_status") =>
         inv[l].s.tearing \/ now - inv[l].s.deployed <= DeployingTimeout
    /\ Is(l, "deploy_status") =>
         /\ Exists(inv[l].s) /\ Born(inv[l].s)
         /\ \/ Phase \in Unregistered /\ ~inv[l].s.tearing
            \/ Created < inv[l].s.deployed

ExecOK(l) ==
    /\ At(l, "idle") => Is(l, "none")
    /\ inv[l].pc \notin {"unset", "fallback"}
    /\ inv[l].op \notin {"set_teardown_run", "complete_teardown"}
    /\ inv[l].pc \in {"unsched", "resched", "peek"} => Is(l, "auto_teardown")
    /\ inv[l].pc \in {"reread", "sched"} => inv[l].op \in DeadlineOps \cup {"ensure"}
    /\ Early => ~Is(l, "auto_teardown") /\ inv[l].at = Never /\ inv[l].s.deadline = Never
    /\ Called(l)
    /\ inv[l].pc \in {"reread", "sched", "resched", "peek"} => inv[l].at # Never
    /\ inv[l].op \in {"extend", "shrink", "visitor", "ensure"} /\ At(l, "put") => inv[l].at # Never
    /\ At(l, "put") => Writer(l) /\ Carried(l)
    /\ At(l, "github") => Asked(l)

Due == \/ Phase \in {"started", "completing", "success"}
       \/ Phase = "ensured" /\ ~InFlight("ensure")

Guard   == Due => Exists(session) /\ (schedule # Never \/ \E l \in Lambdas : Pending(l))
Ensured == \A l \in Lambdas :
              Is(l, "ensure") /\ inv[l].pc \in {"reread", "sched"} => Exists(session)
Torn    == session.tearing \/ (\E l \in Lambdas : At(l, "put") /\ inv[l].s.tearing)
              => \E l \in Lambdas : Tearing(l)
Alone   == InFlight("complete_deploy") => \A op \in DeadlineOps : ~InFlight(op)

Fresh ==
    /\ SessionOK
    /\ \A l \in Lambdas : ExecOK(l)
    /\ Guard /\ Ensured /\ Torn /\ Alone

WatchInv == Survived => RunOK /\ (IF teardowns = <<>> THEN Fresh ELSE Doomed)

-----------------------------------------------------------------------------
(* One execution moves *)

\* What Goto, GotoWith, End and Start make of the executions.
LEMMA GotoIs ==
  ASSUME IInv, NEW l \in Lambdas, NEW pc, Goto(l, pc)
  PROVE  /\ inv'[l].pc = pc /\ inv'[l].op = inv[l].op /\ inv'[l].s = inv[l].s
         /\ inv'[l].at = inv[l].at /\ inv'[l].by = inv[l].by
         /\ \A k \in Lambdas : k # l => inv'[k] = inv[k]
<1>1. inv[l] \in Invocations  BY DEF IInv, Executions, Ready
<1>2. inv' = [inv EXCEPT ![l] = [inv[l] EXCEPT !.pc = pc]]  BY DEF Goto
<1>3. inv'[l] = [inv[l] EXCEPT !.pc = pc] /\ \A k \in Lambdas : k # l => inv'[k] = inv[k]
  BY <1>2 DEF IInv, Executions
<1> QED  BY <1>1, <1>3 DEF Invocations

LEMMA GotoWithIs ==
  ASSUME IInv, NEW l \in Lambdas, NEW pc, NEW s, NEW at, GotoWith(l, pc, s, at)
  PROVE  /\ inv'[l].pc = pc /\ inv'[l].op = inv[l].op /\ inv'[l].s = s
         /\ inv'[l].at = at /\ inv'[l].by = inv[l].by
         /\ \A k \in Lambdas : k # l => inv'[k] = inv[k]
<1>1. inv[l] \in Invocations  BY DEF IInv, Executions, Ready
<1>2. inv' = [inv EXCEPT ![l] = [inv[l] EXCEPT !.pc = pc, !.s = s, !.at = at]]
  BY DEF GotoWith, IInv, Executions
<1>3. inv'[l] = [inv[l] EXCEPT !.pc = pc, !.s = s, !.at = at]
      /\ \A k \in Lambdas : k # l => inv'[k] = inv[k]
  BY <1>2 DEF IInv, Executions
<1> QED  BY <1>1, <1>3 DEF Invocations

LEMMA EndIs ==
  ASSUME IInv, NEW l \in Lambdas, End(l)
  PROVE  /\ inv'[l].pc = "idle" /\ inv'[l].op = "none" /\ inv'[l].s = NoSession
         /\ inv'[l].at = Never /\ inv'[l].by = User
         /\ \A k \in Lambdas : k # l => inv'[k] = inv[k]
<1>1. inv'[l] = Idle /\ \A k \in Lambdas : k # l => inv'[k] = inv[k]
  BY DEF IInv, Executions, End
<1> QED  BY <1>1 DEF Idle

LEMMA StartIs ==
  ASSUME IInv, NEW l \in Lambdas, NEW op, NEW pc, NEW by, Start(l, op, pc, by)
  PROVE  /\ inv'[l].pc = pc /\ inv'[l].op = op /\ inv'[l].s = NoSession
         /\ inv'[l].at = Never /\ inv'[l].by = by
         /\ \A k \in Lambdas : k # l => inv'[k] = inv[k]
         /\ inv[l].pc = "idle" /\ \A k \in Lambdas : <<op, inv[k].op>> \notin Apart
<1> DEFINE j == [Idle EXCEPT !.op = op, !.pc = pc, !.by = by]
<1>1. j.pc = pc /\ j.op = op /\ j.s = NoSession /\ j.at = Never /\ j.by = by
  BY DEF Idle
<1>2. inv' = [inv EXCEPT ![l] = j]  BY DEF Start
<1>3. inv'[l] = j /\ \A k \in Lambdas : k # l => inv'[k] = inv[k]
  <2> HIDE DEF j
  <2> QED  BY <1>2 DEF IInv, Executions
<1> HIDE DEF j
<1> QED  BY <1>1, <1>3 DEF Start

LEMMA NoSessionIs ==
  /\ ~Exists(NoSession) /\ NoSession.deployed = Never /\ NoSession.deadline = Never
  /\ NoSession.completed = FALSE /\ NoSession.tearing = FALSE /\ NoSession.deployRun = FALSE
  BY DEF NoSession, Exists

\* A step of one execution, the rest of the world at rest but for the session and
\* the schedule, disturbs no other execution.
LEMMA OthersOK ==
  ASSUME NEW l \in Lambdas, \A k \in Lambdas : ExecOK(k), ExecOK(l)',
         UNCHANGED <<now, deploys>>, \A k \in Lambdas : k # l => inv'[k] = inv[k]
  PROVE  \A k \in Lambdas : ExecOK(k)'
<1> SUFFICES ASSUME NEW k \in Lambdas, k # l  PROVE ExecOK(k)'
  OBVIOUS
<1>1. ExecOK(k) /\ inv'[k] = inv[k]  OBVIOUS
<1> QED
  BY <1>1 DEF ExecOK, At, Is, Called, Writer, Carried, Asked, Born, RunKnown, Exists, Early, Phase,
              Created

\* A step of one execution that writes nothing.
LEMMA StepKeeps ==
  ASSUME Fresh, NEW l \in Lambdas, UNCHANGED <<now, session, schedule, deploys, teardowns>>,
         \A k \in Lambdas : k # l => inv'[k] = inv[k], ExecOK(l)',
         inv'[l].op \in {inv[l].op, "none"},
         Is(l, "set_deploy_run") => Is(l, "set_deploy_run")' \/ RunKnown(session),
         Is(l, "complete_deploy") => Is(l, "complete_deploy")' \/ session.completed,
         Is(l, "ensure") => Is(l, "ensure")' \/ (Exists(session) /\ schedule # Never),
         Is(l, "ensure")' /\ inv'[l].pc \in {"reread", "sched"} => Exists(session),
         Pending(l) => Pending(l)' \/ schedule # Never,
         Tearing(l) => Tearing(l)',
         At(l, "put")' /\ inv'[l].s.tearing => session.tearing \/ Tearing(l)'
  PROVE  Fresh'
<1>1. \A k \in Lambdas : ExecOK(k)'  BY OthersOK DEF Fresh
<1>2. Phase' = Phase /\ Created' = Created /\ Early' = Early  BY DEF Phase, Created, Early
<1>3. \A op : InFlight(op)' => InFlight(op) \/ op = "none"  BY DEF InFlight, Is
<1>4. \A op : InFlight(op) => InFlight(op)' \/ (Is(l, op) /\ ~Is(l, op)')  BY DEF InFlight, Is
<1>5. SessionOK'
  BY <1>2, <1>4 DEF Fresh, SessionOK, Born, RunKnown, Exists
<1>6. \A k \in Lambdas : k # l => /\ Pending(k)' = Pending(k) /\ Tearing(k)' = Tearing(k)
                                  /\ At(k, "put")' = At(k, "put") /\ inv'[k].s = inv[k].s
  BY DEF Pending, Tearing, At, Is
<1>7. Guard'
  <2>1. Due' => Due \/ (Exists(session) /\ schedule # Never)  BY <1>2, <1>4 DEF Due
  <2> QED  BY <1>6, <2>1 DEF Fresh, Guard, Exists
<1>8. Ensured'
  BY DEF Fresh, Ensured, Is, Exists
<1>9. Torn'
  BY <1>6 DEF Fresh, Torn
<1>10. Alone'
  BY <1>3 DEF Fresh, Alone, DeadlineOps
<1> QED  BY <1>1, <1>5, <1>7, <1>8, <1>9, <1>10 DEF Fresh

-----------------------------------------------------------------------------
(* Fresh: the reading calls *)

\* What reading the document tells about the run.
LEMMA SessionFacts ==
  ASSUME IInv, RunOK, Fresh, OneDeploy
  PROVE  /\ session \in Sessions /\ now \in Nat /\ now # Never /\ Phase \in Phases
         /\ deploys # <<>> => Created \in Nat /\ Created <= now
         /\ Early => ~session.tearing /\ session.deadline = Never
         /\ Exists(session) /\ ~session.completed =>
              now - session.deployed <= DeployingTimeout
<1> USE SessionAssumption DEF SessionAssumption, OneDeploy
<1>1. session \in Sessions /\ now \in Nat /\ now # Never /\ deploys \in Seq(Runs)
  BY DEF IInv, Stored, Workflows, Times
<1>2. deploys # <<>> => deploys[1] \in Runs /\ Phase = deploys[1].phase
  BY <1>1 DEF Phase
<1>3. Phase \in Phases /\ (deploys # <<>> => Created \in Nat /\ Created <= now)
  BY <1>2 DEF Phase, Phases, Active, Runs, Created, Times, RunOK
<1>4. Early => ~session.tearing /\ session.deadline = Never
  <2>1. Early => \A l \in Lambdas : ~Tearing(l)  BY DEF Fresh, ExecOK, Tearing
  <2> QED  BY <2>1 DEF Fresh, Torn, SessionOK
<1>5. ASSUME Exists(session), ~session.completed
      PROVE  now - session.deployed <= DeployingTimeout
  <2>1. deploys # <<>> /\ Created <= session.deployed
    BY <1>5 DEF Fresh, SessionOK, Born
  <2>2. Phase # "success"
    <3>1. ~(Phase = "success" /\ InFlight("complete_deploy"))
      BY DEF Fresh, ExecOK, Called, InFlight
    <3> QED  BY <1>5, <3>1 DEF Fresh, SessionOK
  <2>3. Phase \in Active  BY <1>3, <2>2 DEF Phases, RunOK
  <2>4. now <= Created + RunTime  BY <2>1, <2>3 DEF RunOK
  <2>5. session.deployed \in Nat  BY <1>1 DEF Sessions, Times
  <2> QED  BY <1>1, <1>3, <2>1, <2>4, <2>5
<1> QED  BY <1>1, <1>3, <1>4, <1>5

\* An execution that ends.
LEMMA EndFresh ==
  ASSUME IInv, Fresh, NEW l \in Lambdas, End(l),
         UNCHANGED <<now, session, schedule, deploys, teardowns>>,
         Is(l, "set_deploy_run") => RunKnown(session),
         Is(l, "complete_deploy") => session.completed,
         Is(l, "ensure") => Exists(session) /\ schedule # Never,
         Pending(l) => schedule # Never,
         ~Tearing(l)
  PROVE  Fresh'
<1>1. /\ inv'[l].pc = "idle" /\ inv'[l].op = "none" /\ inv'[l].s = NoSession
      /\ inv'[l].at = Never /\ inv'[l].by = User
      /\ \A k \in Lambdas : k # l => inv'[k] = inv[k]
  BY EndIs
<1>2. ExecOK(l)'
  BY <1>1, NoSessionIs DEF ExecOK, At, Is, Called, Exists
<1>3. ~At(l, "put")' /\ ~Is(l, "ensure")'  BY <1>1 DEF At, Is
<1> QED  BY <1>1, <1>2, <1>3, StepKeeps

\* A client that only asks, or has nothing to do.
LEMMA ClientEnds ==
  ASSUME IInv, Fresh, NEW l \in Lambdas, End(l),
         UNCHANGED <<now, session, schedule, deploys, teardowns>>,
         inv[l].op \in ClientOps
  PROVE  Fresh'
<1>1. ~Is(l, "set_deploy_run") /\ ~Is(l, "complete_deploy") /\ ~Is(l, "ensure")
      /\ ~Is(l, "auto_teardown")
  BY DEF Is, ClientOps
<1> QED  BY <1>1, EndFresh DEF Pending, Tearing

LEMMA ReadFresh ==
  ASSUME IInv, RunOK, Fresh, OneDeploy, NEW l \in Lambdas, Read(l)
  PROVE  Fresh'
<1> USE SessionAssumption DEF SessionAssumption
<1>1. /\ session \in Sessions /\ now \in Nat /\ now # Never /\ Phase \in Phases
      /\ deploys # <<>> => Created \in Nat /\ Created <= now
      /\ Early => ~session.tearing /\ session.deadline = Never
      /\ Exists(session) /\ ~session.completed => now - session.deployed <= DeployingTimeout
  BY SessionFacts
<1>2. UNCHANGED <<now, session, schedule, deploys, teardowns>> /\ At(l, "read")
  BY DEF Read
<1>3. ExecOK(l) /\ SessionOK  BY DEF Fresh
<1>4. Phase' = Phase /\ Created' = Created /\ Early' = Early
  BY <1>2 DEF Phase, Created, Early
<1>5. CASE ReadDeploy(l)
  <2>1. CASE Goto(l, "dispatch")
    <3>1. inv'[l].pc = "dispatch" /\ inv'[l].op = "deploy" /\ inv'[l].s = inv[l].s
          /\ inv'[l].at = inv[l].at /\ inv'[l].by = inv[l].by
          /\ (\A k \in Lambdas : k # l => inv'[k] = inv[k]) /\ inv[l].op = "deploy"
      BY <1>5, <2>1, GotoIs DEF ReadDeploy, Is
    <3>2. ExecOK(l)'  BY <1>2, <1>3, <1>4, <3>1 DEF ExecOK, At, Is, Called
    <3> QED  BY <1>2, <3>1, <3>2, StepKeeps DEF Pending, Tearing, At, Is
  <2> QED  BY <1>2, <1>5, <2>1, ClientEnds DEF ReadDeploy, Is, ClientOps
<1>6. CASE ReadStatus(l)
  <2>1. ~(session.tearing /\ now - session.tearingAt > TeardownTimeout)
    BY <1>1, <1>3 DEF SessionOK
  <2>2. CASE GotoWith(l, "github", session, Never) /\ (session.tearing \/ (Exists(session) /\ ~session.completed))
    <3>1. inv'[l].pc = "github" /\ inv'[l].op = "session_status" /\ inv'[l].s = session
          /\ inv'[l].at = Never /\ inv'[l].by = inv[l].by
          /\ (\A k \in Lambdas : k # l => inv'[k] = inv[k]) /\ inv[l].op = "session_status"
      BY <1>6, <2>2, GotoWithIs DEF ReadStatus, Is
    <3>2. ExecOK(l)'
      BY <1>1, <1>2, <1>3, <1>4, <2>2, <3>1 DEF ExecOK, At, Is, Called, Asked, ClientOps
    <3> QED  BY <1>2, <3>1, <3>2, StepKeeps DEF Pending, Tearing, At, Is
  <2>3. CASE End(l)
    BY <1>2, <1>6, <2>3, ClientEnds DEF ReadStatus, Is, ClientOps
  <2> QED  BY <1>6, <2>1, <2>2, <2>3 DEF ReadStatus
<1>7. CASE ReadTeardownStatus(l)
  <2>1. CASE GotoWith(l, "github", session, Never)
    <3>1. inv'[l].pc = "github" /\ inv'[l].op = "teardown_status" /\ inv'[l].s = session
          /\ inv'[l].at = Never /\ inv'[l].by = inv[l].by
          /\ (\A k \in Lambdas : k # l => inv'[k] = inv[k]) /\ inv[l].op = "teardown_status"
      BY <1>7, <2>1, GotoWithIs DEF ReadTeardownStatus, Is
    <3>2. ExecOK(l)'
      BY <1>1, <1>2, <1>3, <1>4, <3>1 DEF ExecOK, At, Is, Called, Asked, ClientOps
    <3> QED  BY <1>2, <3>1, <3>2, StepKeeps DEF Pending, Tearing, At, Is
  <2> QED  BY <1>2, <1>7, <2>1, ClientEnds DEF ReadTeardownStatus, Is, ClientOps
<1>8. CASE ReadDeployStatus(l)
  <2>1. CASE GotoWith(l, "github", session, Never) /\ Exists(session) /\ ~session.deployRun
    <3>1. inv'[l].pc = "github" /\ inv'[l].op = "deploy_status" /\ inv'[l].s = session
          /\ inv'[l].at = Never /\ inv'[l].by = inv[l].by
          /\ (\A k \in Lambdas : k # l => inv'[k] = inv[k]) /\ inv[l].op = "deploy_status"
      BY <1>8, <2>1, GotoWithIs DEF ReadDeployStatus, Is
    <3>2. (Phase \in Unregistered /\ ~session.tearing) \/ Created < session.deployed
      BY <1>1, <1>3, <2>1 DEF SessionOK, RunKnown, Early
    <3>3. Asked(l)'
      BY <1>2, <1>3, <1>4, <2>1, <3>1, <3>2 DEF SessionOK, Asked, ClientOps, Is, Exists, Born
    <3>4. ExecOK(l)'
      BY <1>1, <1>2, <1>3, <1>4, <3>1, <3>3 DEF ExecOK, At, Is, Called
    <3> QED  BY <1>2, <3>1, <3>4, StepKeeps DEF Pending, Tearing, At, Is
  <2> QED  BY <1>2, <1>8, <2>1, ClientEnds DEF ReadDeployStatus, Is, ClientOps
<1>9. CASE ReadEnsure(l)
  <2>0. Is(l, "ensure") /\ Phase = "ensured" /\ ~Early /\ now + Step # Never
    BY <1>1, <1>3, <1>9 DEF ReadEnsure, ExecOK, Called, Early, Unregistered, Never
  <2>1. CASE GotoWith(l, "reread", NoSession, now + Step) /\ Exists(session)
    <3>1. inv'[l].pc = "reread" /\ inv'[l].op = "ensure" /\ inv'[l].s = NoSession
          /\ inv'[l].at = now + Step /\ inv'[l].by = inv[l].by
          /\ (\A k \in Lambdas : k # l => inv'[k] = inv[k]) /\ inv[l].op = "ensure"
      BY <2>0, <2>1, GotoWithIs DEF Is
    <3>2. ExecOK(l)'
      BY <1>2, <1>3, <1>4, <2>0, <3>1 DEF ExecOK, At, Is, Called, DeadlineOps
    <3> QED  BY <1>2, <2>1, <3>1, <3>2, StepKeeps DEF Pending, Tearing, At, Is
  <2>2. CASE GotoWith(l, "put", [NoSession EXCEPT !.deployed = now, !.deadline = now + Step], now + Step)
    <3> DEFINE s == [NoSession EXCEPT !.deployed = now, !.deadline = now + Step]
    <3>1. inv'[l].pc = "put" /\ inv'[l].op = "ensure" /\ inv'[l].s = s
          /\ inv'[l].at = now + Step /\ inv'[l].by = inv[l].by
          /\ (\A k \in Lambdas : k # l => inv'[k] = inv[k]) /\ inv[l].op = "ensure"
      BY <2>0, <2>2, GotoWithIs DEF Is
    <3>2. s.deployed = now /\ s.tearing = FALSE  BY DEF NoSession
    <3>3. deploys # <<>> /\ Created < now
      BY <2>0 DEF RunOK, Phase
    <3> HIDE DEF s
    <3>4. Carried(l)' /\ Writer(l)'
      BY <1>1, <1>2, <1>4, <2>0, <3>1, <3>2, <3>3
         DEF Carried, Writer, Is, Exists, Born, RunKnown
    <3>5. ExecOK(l)'
      BY <1>2, <1>3, <1>4, <2>0, <3>1, <3>4 DEF ExecOK, At, Is, Called
    <3> QED  BY <1>2, <3>1, <3>2, <3>5, StepKeeps DEF Pending, Tearing, At, Is
  <2> QED  BY <1>9, <2>1, <2>2 DEF ReadEnsure
<1>10. CASE ReadExtend(l) \/ ReadShrink(l) \/ ReadVisitor(l)
  <2>0. inv[l].op \in {"extend", "shrink", "visitor"}
    BY <1>10 DEF ReadExtend, ReadShrink, ReadVisitor, Is
  <2>1. session.deadline \in Nat /\ Extensions \subseteq Nat  BY <1>1 DEF Sessions, Times
  <2>2. End(l) \/ \E at \in Nat \ {0} : session.deadline # Never /\ GotoWith(l, "reread", NoSession, at)
    <3>1. CASE ReadExtend(l)
      <4>1. PICK step \in Extensions :
               IF session.deadline # Never /\ Remaining(session) + step <= MaxRemaining
               THEN GotoWith(l, "reread", NoSession, session.deadline + step) ELSE End(l)
        BY <3>1 DEF ReadExtend
      <4>2. session.deadline # Never => session.deadline + step \in Nat \ {0}
        BY <2>1 DEF Never
      <4> QED  BY <4>1, <4>2
    <3>2. CASE ReadShrink(l)
      <4>1. session.deadline # Never /\ Remaining(session) >= Step
              => session.deadline - Step \in Nat \ {0}
        BY <1>1, <2>1 DEF Remaining, Never
      <4> QED  BY <3>2, <4>1 DEF ReadShrink
    <3>3. CASE ReadVisitor(l)
      <4>1. now + VisitorMin \in Nat \ {0}  BY <1>1 DEF Never
      <4> QED  BY <3>3, <4>1 DEF ReadVisitor
    <3> QED  BY <1>10, <3>1, <3>2, <3>3
  <2>3. CASE End(l)  BY <1>2, <2>0, <2>3, ClientEnds DEF ClientOps
  <2>4. ASSUME NEW at \in Nat \ {0}, session.deadline # Never, GotoWith(l, "reread", NoSession, at)
        PROVE  Fresh'
    <3>1. inv'[l].pc = "reread" /\ inv'[l].op = inv[l].op /\ inv'[l].s = NoSession
          /\ inv'[l].at = at /\ inv'[l].by = inv[l].by
          /\ (\A k \in Lambdas : k # l => inv'[k] = inv[k])
      BY <2>4, GotoWithIs
    <3>2. ExecOK(l)'
      BY <1>1, <1>2, <1>3, <1>4, <2>0, <2>4, <3>1
         DEF ExecOK, At, Is, Called, Never, DeadlineOps
    <3> QED  BY <1>2, <2>0, <3>1, <3>2, StepKeeps DEF Pending, Tearing, At, Is
  <2> QED  BY <2>2, <2>3, <2>4
<1>11. CASE ReadCallback(l)
  <2>0. inv[l].op \in {"set_deploy_run", "complete_deploy"}
    BY <1>3, <1>11 DEF ReadCallback, ExecOK
  <2>1. CASE End(l) /\ ~Exists(session)
    <3>1. ~Is(l, "complete_deploy")
      BY <1>3, <2>1 DEF ExecOK, Called, Fresh, Guard, Due
    <3> QED  BY <1>2, <2>0, <2>1, <3>1, EndFresh DEF RunKnown, Pending, Tearing, Is
  <2>2. CASE Exists(session) /\ ~End(l)
    <3> DEFINE s == [session EXCEPT !.deployRun   = @ \/ Is(l, "set_deploy_run"),
                                    !.teardownRun = @ \/ Is(l, "set_teardown_run"),
                                    !.completed   = @ \/ Is(l, "complete_deploy")]
    <3>1. GotoWith(l, "put", s, Never)  BY <1>11, <2>2 DEF ReadCallback
    <3>2. inv'[l].pc = "put" /\ inv'[l].op = inv[l].op /\ inv'[l].s = s
          /\ inv'[l].at = Never /\ inv'[l].by = inv[l].by
          /\ (\A k \in Lambdas : k # l => inv'[k] = inv[k])
      BY <3>1, GotoWithIs
    <3>3. /\ s.deployed = session.deployed /\ s.deadline = session.deadline
          /\ s.tearing = session.tearing /\ s.tearingAt = session.tearingAt
          /\ s.deployRun = (session.deployRun \/ Is(l, "set_deploy_run"))
          /\ s.completed = (session.completed \/ Is(l, "complete_deploy"))
      BY <1>1 DEF Sessions
    <3> HIDE DEF s
    <3>4. Carried(l)' /\ Writer(l)'
      BY <1>2, <1>3, <1>4, <2>0, <2>2, <3>2, <3>3
         DEF Carried, Writer, Is, Exists, Born, RunKnown, SessionOK, ExecOK, Called, Unregistered
    <3>5. ExecOK(l)'
      BY <1>1, <1>2, <1>3, <1>4, <2>0, <3>2, <3>3, <3>4 DEF ExecOK, At, Is, Called
    <3> QED  BY <1>2, <2>0, <3>2, <3>3, <3>5, StepKeeps DEF Pending, Tearing, At, Is
  <2>3. CASE Exists(session) /\ End(l)
    <3> DEFINE s == [session EXCEPT !.deployRun   = @ \/ Is(l, "set_deploy_run"),
                                    !.teardownRun = @ \/ Is(l, "set_teardown_run"),
                                    !.completed   = @ \/ Is(l, "complete_deploy")]
    <3>1. GotoWith(l, "put", s, Never)  BY <1>11, <2>3 DEF ReadCallback
    <3>2. inv'[l].pc = "put"  BY <3>1, GotoWithIs
    <3>3. inv'[l].pc = "idle"  BY <2>3, EndIs
    <3> QED  BY <3>2, <3>3
  <2> QED  BY <1>11, <2>1, <2>2, <2>3 DEF ReadCallback
<1>12. CASE ReadCompleteTeardown(l)
  BY <1>3, <1>12 DEF ReadCompleteTeardown, ExecOK, Is
<1>13. CASE ReadAuto(l)
  <2>0. inv[l].op = "auto_teardown" /\ ~Early
    BY <1>3, <1>13 DEF ReadAuto, ExecOK, Is
  <2>1. CASE Goto(l, "unsched")
    <3>1. inv'[l].pc = "unsched" /\ inv'[l].op = inv[l].op /\ inv'[l].s = inv[l].s
          /\ inv'[l].at = inv[l].at /\ inv'[l].by = inv[l].by
          /\ (\A k \in Lambdas : k # l => inv'[k] = inv[k])
      BY <2>1, GotoIs
    <3>2. ExecOK(l)'  BY <1>2, <1>3, <1>4, <2>0, <3>1 DEF ExecOK, At, Is, Called
    <3> QED  BY <1>2, <2>0, <3>1, <3>2, StepKeeps DEF Pending, Tearing, At, Is
  <2>2. CASE Exists(session)
    <3> DEFINE s == [session EXCEPT !.tearing = TRUE, !.tearingAt = now]
    <3>1. GotoWith(l, "put", s, Never)  BY <1>13, <2>2 DEF ReadAuto
    <3>2. inv'[l].pc = "put" /\ inv'[l].op = inv[l].op /\ inv'[l].s = s
          /\ inv'[l].at = Never /\ inv'[l].by = inv[l].by
          /\ (\A k \in Lambdas : k # l => inv'[k] = inv[k])
      BY <3>1, GotoWithIs
    <3>3. /\ s.deployed = session.deployed /\ s.tearingAt = now
          /\ s.deployRun = session.deployRun /\ s.completed = session.completed
      BY <1>1 DEF Sessions
    <3> HIDE DEF s
    <3>4. ~InFlight("complete_deploy")
      BY <2>0 DEF Fresh, Alone, DeadlineOps, InFlight, Is
    <3>5. Carried(l)' /\ Writer(l)'
      BY <1>2, <1>3, <1>4, <2>0, <2>2, <3>2, <3>3, <3>4
         DEF Carried, Writer, Is, Exists, Born, RunKnown, SessionOK, Early, DeadlineOps
    <3>6. ExecOK(l)'
      BY <1>2, <1>3, <1>4, <2>0, <3>2, <3>5 DEF ExecOK, At, Is, Called
    <3>7. Tearing(l)'  BY <2>0, <3>2 DEF Tearing, At, Is
    <3> QED  BY <1>2, <2>0, <3>2, <3>6, <3>7, StepKeeps DEF Pending, Is
  <2> QED  BY <1>13, <2>1, <2>2 DEF ReadAuto
<1> QED
  BY <1>5, <1>6, <1>7, <1>8, <1>9, <1>10, <1>11, <1>12, <1>13 DEF Read

-----------------------------------------------------------------------------
(* Fresh: the other calls that write nothing *)

LEMMA RereadFresh ==
  ASSUME IInv, RunOK, Fresh, OneDeploy, NEW l \in Lambdas, Reread(l)
  PROVE  Fresh'
<1>1. session \in Sessions /\ (Early => ~session.tearing /\ session.deadline = Never)
  BY SessionFacts
<1>2. UNCHANGED <<now, session, schedule, deploys, teardowns>>
  BY DEF Reread
<1>3. ExecOK(l) /\ SessionOK  BY DEF Fresh
<1>4. Phase' = Phase /\ Created' = Created /\ Early' = Early
  BY <1>2 DEF Phase, Created, Early
<1>5. inv[l].at # Never /\ ~Early /\ inv[l].op \in DeadlineOps \cup {"ensure"}
  BY <1>3 DEF Reread, ExecOK, At, Is, DeadlineOps
<1>6. CASE At(l, "reread") /\ Exists(session)
           /\ GotoWith(l, "put", [session EXCEPT !.deadline = inv[l].at], inv[l].at)
  <2> DEFINE s == [session EXCEPT !.deadline = inv[l].at]
  <2>1. inv'[l].pc = "put" /\ inv'[l].op = inv[l].op /\ inv'[l].s = s
        /\ inv'[l].at = inv[l].at /\ inv'[l].by = inv[l].by
        /\ (\A k \in Lambdas : k # l => inv'[k] = inv[k])
    BY <1>6, GotoWithIs
  <2>2. /\ s.deployed = session.deployed
        /\ s.tearing = session.tearing /\ s.tearingAt = session.tearingAt
        /\ s.deployRun = session.deployRun /\ s.completed = session.completed
    BY <1>1 DEF Sessions
  <2> HIDE DEF s
  <2>3. inv[l].op \in DeadlineOps => ~InFlight("complete_deploy")
    BY DEF Fresh, Alone, InFlight, Is
  <2>4. inv[l].op = "ensure" => Phase = "ensured"
    BY <1>3 DEF ExecOK, Called, Is
  <2>5. Carried(l)' /\ Writer(l)'
    BY <1>2, <1>3, <1>4, <1>5, <1>6, <2>1, <2>2, <2>3, <2>4
       DEF Carried, Writer, Is, Exists, Born, RunKnown, SessionOK, Early
  <2>6. ExecOK(l)'
    BY <1>2, <1>3, <1>4, <1>5, <2>1, <2>5 DEF ExecOK, At, Is, Called
  <2> QED  BY <1>2, <1>5, <1>6, <2>1, <2>2, <2>6, StepKeeps DEF Pending, Tearing, At, Is
<1>7. CASE At(l, "peek") /\ Exists(session) /\ Goto(l, "reread")
  <2>1. inv'[l].pc = "reread" /\ inv'[l].op = inv[l].op /\ inv'[l].s = inv[l].s
        /\ inv'[l].at = inv[l].at /\ inv'[l].by = inv[l].by
        /\ (\A k \in Lambdas : k # l => inv'[k] = inv[k])
    BY <1>7, GotoIs
  <2>2. ExecOK(l)'
    BY <1>2, <1>3, <1>4, <1>5, <2>1 DEF ExecOK, At, Is, Called
  <2> QED  BY <1>2, <1>7, <2>1, <2>2, StepKeeps DEF Pending, Tearing, At, Is
<1>8. CASE inv[l].pc \in {"reread", "peek"} /\ ~Exists(session) /\ End(l)
  <2>1. ~Is(l, "ensure")
    BY <1>3, <1>8 DEF Fresh, Ensured, ExecOK, Is, At
  <2> QED  BY <1>2, <1>5, <1>8, <2>1, EndFresh DEF Pending, Tearing, At, Is, DeadlineOps
<1> QED  BY <1>6, <1>7, <1>8 DEF Reread

\* Whatever GitHub answers, or does not, while the run has not failed and no
\* teardown has been dispatched, no status poll clears the session.
LEMMA GithubFresh ==
  ASSUME IInv, RunOK, Fresh, OneDeploy, teardowns = <<>>, NEW l \in Lambdas,
         Github(l) \/ GithubFails(l)
  PROVE  Fresh'
<1> USE SessionAssumption DEF SessionAssumption
<1>1. /\ now \in Nat /\ now # Never /\ Phase \in Phases
      /\ deploys # <<>> => Created \in Nat /\ Created <= now
  BY SessionFacts
<1>2. UNCHANGED <<now, session, schedule, deploys, teardowns>> /\ At(l, "github")
  BY DEF Github, GithubFails
<1>3. ExecOK(l) /\ Asked(l)  BY <1>2 DEF Fresh, ExecOK
<1>4. Phase' = Phase /\ Created' = Created /\ Early' = Early
  BY <1>2 DEF Phase, Created, Early
<1>5. inv[l].s \in Sessions /\ deploys \in Seq(Runs) /\ Len(deploys) <= 1
  BY DEF IInv, Executions, Ready, Invocations, Workflows, RunOK
<1>6. \A i \in DOMAIN deploys : i = 1 /\ deploys # <<>>
  BY <1>5
<1>7. Verdict(inv[l].s) # "failed"
  <2>1. \A i \in Decisive(inv[l].s) : deploys[i].phase # "failure"
    BY <1>6 DEF Decisive, Recent, RunOK, Phase
  <2>2. CASE Decisive(inv[l].s) = {}  BY <2>2 DEF Verdict
  <2>3. CASE Decisive(inv[l].s) # {}
    <3>1. 1 \in Decisive(inv[l].s) /\ \A j \in Decisive(inv[l].s) : j = 1
      BY <1>6, <2>3 DEF Decisive, Recent
    <3> DEFINE i == CHOOSE i \in Decisive(inv[l].s) : \A j \in Decisive(inv[l].s) : j <= i
    <3>2. i \in Decisive(inv[l].s)  BY <3>1
    <3> HIDE DEF i
    <3>3. deploys[i].phase # "failure"  BY <2>1, <3>2
    <3>4. Verdict(inv[l].s) = IF deploys[i].phase = "failure" THEN "failed" ELSE "active"
      BY <2>3 DEF Verdict, i
    <3> QED  BY <3>3, <3>4
  <2> QED  BY <2>2, <2>3
<1>8. ASSUME NEW v, v # "failed", StatusOfDeploy(l, v)
      PROVE  Fresh'
  <2>1. ~(now - inv[l].s.deployed > DeployingTimeout)
    BY <1>1, <1>3, <1>5, <1>8 DEF StatusOfDeploy, Asked, Sessions, Times
  <2>2. End(l) /\ inv[l].op \in ClientOps  BY <1>8, <2>1 DEF StatusOfDeploy, Is, ClientOps
  <2> QED  BY <1>2, <2>2, ClientEnds
<1>9. CASE StatusOfTeardown(l) \/ FindTeardownRun(l)
  <2>1. End(l) /\ inv[l].op \in ClientOps
    BY <1>9 DEF StatusOfTeardown, FindTeardownRun, Is, ClientOps
  <2> QED  BY <1>2, <2>1, ClientEnds
<1>10. CASE FindDeployRun(l)
  <2>1. CASE End(l)
    BY <1>2, <1>10, <2>1, ClientEnds DEF FindDeployRun, Is, ClientOps
  <2>2. CASE Recent(inv[l].s) # {} /\ inv' = [inv EXCEPT ![l].pc = "put", ![l].s.deployRun = TRUE]
    <3> DEFINE s == [inv[l].s EXCEPT !.deployRun = TRUE]
    <3>1. inv[l] \in Invocations /\ inv[l].op = "deploy_status"
      BY <1>10 DEF IInv, Executions, Ready, FindDeployRun, Is
    <3>2. inv' = [inv EXCEPT ![l] = [inv[l] EXCEPT !.pc = "put", !.s = s]]
      BY <2>2, <3>1 DEF Invocations, Sessions, IInv, Executions
    <3>3. inv'[l] = [inv[l] EXCEPT !.pc = "put", !.s = s]
          /\ (\A k \in Lambdas : k # l => inv'[k] = inv[k])
      BY <3>2 DEF IInv, Executions
    <3>4. inv'[l].pc = "put" /\ inv'[l].op = inv[l].op /\ inv'[l].s = s
          /\ inv'[l].at = inv[l].at /\ inv'[l].by = inv[l].by
      BY <3>1, <3>3 DEF Invocations
    <3>5. /\ s.deployed = inv[l].s.deployed /\ s.deadline = inv[l].s.deadline
          /\ s.tearing = inv[l].s.tearing /\ s.deployRun = TRUE
      BY <1>5 DEF Sessions
    <3> HIDE DEF s
    <3>6. Created >= inv[l].s.deployed /\ deploys # <<>>
      BY <1>6, <2>2 DEF Recent, Created
    <3>7. Phase \in Unregistered /\ ~inv[l].s.tearing
      BY <1>1, <1>3, <1>5, <3>1, <3>6 DEF Asked, Is, Sessions, Times
    <3>8. Carried(l)' /\ Writer(l)'
      BY <1>2, <1>3, <1>4, <3>1, <3>4, <3>5, <3>7
         DEF Carried, Writer, Asked, Is, Exists, Born, RunKnown, Unregistered
    <3>9. ExecOK(l)'
      BY <1>2, <1>3, <1>4, <3>1, <3>4, <3>5, <3>8 DEF ExecOK, At, Is, Called
    <3> QED  BY <1>2, <3>1, <3>3, <3>4, <3>5, <3>7, <3>9, StepKeeps DEF Pending, Tearing, At, Is
  <2> QED  BY <1>10, <2>1, <2>2 DEF FindDeployRun
<1>11. ASSUME Is(l, "auto_teardown"),
              Goto(l, "read") \/ GotoWith(l, "resched", NoSession, now + Reschedule)
       PROVE  Fresh'
  <2>1. inv[l].op = "auto_teardown" /\ ~Early  BY <1>3, <1>11 DEF ExecOK, Is
  <2>2. /\ inv'[l].pc \in {"read", "resched"} /\ inv'[l].op = inv[l].op
        /\ inv'[l].pc = "resched" => inv'[l].at # Never
        /\ inv'[l].by = inv[l].by /\ (\A k \in Lambdas : k # l => inv'[k] = inv[k])
    <3>1. now + Reschedule # Never  BY <1>1 DEF Never
    <3> QED  BY <1>11, <3>1, GotoIs, GotoWithIs
  <2>3. ExecOK(l)'  BY <1>2, <1>3, <1>4, <2>1, <2>2 DEF ExecOK, At, Is, Called
  <2> QED  BY <1>2, <2>1, <2>2, <2>3, StepKeeps DEF Pending, Tearing, At, Is
<1>12. CASE Github(l)
  BY <1>7, <1>8, <1>9, <1>10, <1>11, <1>12 DEF Github, GiveWay
<1>13. CASE GithubFails(l)
  <2>1. CASE End(l) /\ ~Is(l, "auto_teardown")
    BY <1>2, <1>3, <2>1, ClientEnds DEF Asked, Is
  <2> QED  BY <1>8, <1>11, <1>13, <2>1 DEF GithubFails
<1> QED  BY <1>12, <1>13

\* The dispatch of a second deploy is refused.
LEMMA RefusedFresh ==
  ASSUME IInv, Fresh, NEW l \in Lambdas, DispatchRefused(l)
  PROVE  Fresh'
  BY ClientEnds DEF DispatchRefused, Is, ClientOps

-----------------------------------------------------------------------------
(* Fresh: the writing calls *)

LEMMA PutFresh ==
  ASSUME IInv, RunOK, Fresh, NEW l \in Lambdas, Put(l)
  PROVE  Fresh'
<1>1. UNCHANGED <<now, schedule, deploys, teardowns>> /\ At(l, "put") /\ session' = inv[l].s
  BY DEF Put
<1>2. ExecOK(l) /\ Writer(l) /\ Carried(l)  BY <1>1 DEF Fresh, ExecOK
<1>3. Phase' = Phase /\ Created' = Created /\ Early' = Early
  BY <1>1 DEF Phase, Created, Early
<1>4. /\ \A k \in Lambdas : k # l => inv'[k] = inv[k]
      /\ \/ inv[l].at # Never /\ inv'[l].pc = "sched" /\ inv'[l].op = inv[l].op
         \/ /\ inv[l].at = Never /\ inv[l].op = "auto_teardown"
            /\ inv'[l].pc = "unsched" /\ inv'[l].op = inv[l].op
         \/ /\ inv[l].at = Never /\ inv[l].op # "auto_teardown"
            /\ inv'[l].pc = "idle" /\ inv'[l].op = "none"
      /\ inv'[l].op # "none" => inv'[l].s = inv[l].s /\ inv'[l].at = inv[l].at
                                /\ inv'[l].by = inv[l].by
      /\ inv'[l].op = "none" => inv'[l].s = NoSession /\ inv'[l].at = Never
  <2>0. inv[l].op # "none"  BY <1>2 DEF Writer, Is, DeadlineOps
  <2>1. CASE inv[l].at # Never /\ Goto(l, "sched")  BY <2>0, <2>1, GotoIs
  <2>2. CASE inv[l].at = Never /\ Is(l, "auto_teardown") /\ Goto(l, "unsched")
    BY <2>0, <2>2, GotoIs DEF Is
  <2>3. CASE inv[l].at = Never /\ ~Is(l, "auto_teardown") /\ End(l)
    BY <2>3, EndIs DEF Is
  <2> QED  BY <2>1, <2>2, <2>3 DEF Put
<1>5. ExecOK(l)'
  <2>0. inv[l].op # "none"  BY <1>2 DEF Writer, Is, DeadlineOps
  <2>1. CASE inv'[l].op = "none"
    <3>1. inv'[l].pc = "idle" /\ inv'[l].s = NoSession /\ inv'[l].at = Never
      BY <1>4, <2>0, <2>1
    <3> QED  BY <2>1, <3>1, NoSessionIs DEF ExecOK, At, Is, Called
  <2>2. CASE inv'[l].op # "none"
    <3>1. inv'[l].pc = "sched" => inv[l].op \in DeadlineOps \cup {"ensure"}
      BY <1>2, <1>4 DEF Writer, ExecOK, Is, Early, Unregistered
    <3> QED  BY <1>1, <1>2, <1>3, <1>4, <2>2, <3>1 DEF ExecOK, At, Is, Called
  <2> QED  BY <2>1, <2>2
<1>6. \A k \in Lambdas : ExecOK(k)'  BY <1>1, <1>4, <1>5, OthersOK DEF Fresh
<1>7. Exists(session)' /\ Exists(inv[l].s)  BY <1>1, <1>2 DEF Carried, Exists
<1>8. SessionOK'
  BY <1>1, <1>2, <1>3, <1>7 DEF Fresh, SessionOK, Carried, ExecOK, Born, RunKnown, Exists, Unregistered
<1>9. \A op : op # "none" /\ InFlight(op)' => InFlight(op)  BY <1>4 DEF InFlight, Is
<1>10. \A k \in Lambdas : k # l => /\ Pending(k)' = Pending(k) /\ Tearing(k)' = Tearing(k)
                                   /\ At(k, "put")' = At(k, "put") /\ inv'[k].s = inv[k].s
  BY <1>4 DEF Pending, Tearing, At, Is
<1>11. (Tearing(l) => Tearing(l)') /\ (Pending(l) => Pending(l)') /\ ~At(l, "put")'
  BY <1>1, <1>4 DEF Pending, Tearing, At, Is
<1>12. Is(l, "ensure") => Is(l, "ensure")'
  BY <1>1, <1>2, <1>4 DEF ExecOK, Is
<1>13. Due' => Due  BY <1>3, <1>4, <1>12 DEF Due, InFlight, Is
<1>14. Guard'  BY <1>1, <1>7, <1>10, <1>11, <1>13 DEF Fresh, Guard
<1>15. Ensured'  BY <1>7 DEF Ensured
<1>16. Torn'  BY <1>1, <1>10, <1>11 DEF Fresh, Torn
<1>17. Alone'  BY <1>9 DEF Fresh, Alone, DeadlineOps
<1> QED  BY <1>6, <1>8, <1>14, <1>15, <1>16, <1>17 DEF Fresh

LEMMA UpsertFresh ==
  ASSUME IInv, Fresh, NEW l \in Lambdas, Upsert(l)
  PROVE  Fresh'
<1>1. UNCHANGED <<now, session, deploys, teardowns>> /\ schedule' = inv[l].at
      /\ inv[l].pc \in {"sched", "resched"}
  BY DEF Upsert, At
<1>2. ExecOK(l) /\ schedule' # Never /\ ~Early /\ inv[l].op \in DeadlineOps \cup {"ensure"}
  BY <1>1 DEF Fresh, ExecOK, At, Is, DeadlineOps
<1>3. Phase' = Phase /\ Created' = Created /\ Early' = Early
  BY <1>1 DEF Phase, Created, Early
<1>4. /\ \A k \in Lambdas : k # l => inv'[k] = inv[k]
      /\ \/ /\ inv[l].pc = "sched" /\ inv'[l].pc = "idle" /\ inv'[l].op = "none"
            /\ inv'[l].s = NoSession /\ inv'[l].at = Never
         \/ /\ inv[l].pc = "resched" /\ inv'[l].pc = "peek" /\ inv'[l].op = inv[l].op
            /\ inv'[l].s = inv[l].s /\ inv'[l].at = inv[l].at /\ inv'[l].by = inv[l].by
  BY GotoIs, EndIs DEF Upsert, At
<1>5. ExecOK(l)'
  BY <1>1, <1>2, <1>3, <1>4, NoSessionIs DEF ExecOK, At, Is, Called
<1>6. \A k \in Lambdas : ExecOK(k)'  BY <1>1, <1>4, <1>5, OthersOK DEF Fresh
<1>7. SessionOK'
  <2>1. /\ InFlight("complete_deploy") => InFlight("complete_deploy")'
        /\ Phase # "registered"
    BY <1>2, <1>4 DEF InFlight, Is, DeadlineOps, Early, Unregistered
  <2> QED
    BY <1>1, <1>2, <1>3, <2>1 DEF Fresh, SessionOK, Born, RunKnown, Exists
<1>8. Guard'
  <2>1. CASE Due  BY <1>1, <1>2, <2>1 DEF Fresh, Guard, Exists
  <2>2. CASE ~Due /\ Due'
    <3>1. Is(l, "ensure") /\ inv[l].pc = "sched"
      BY <1>1, <1>2, <1>3, <1>4, <2>2 DEF Due, InFlight, Is, ExecOK, At, DeadlineOps
    <3>2. Exists(session)  BY <3>1 DEF Fresh, Ensured
    <3> QED  BY <1>1, <1>2, <3>2 DEF Guard, Exists
  <2> QED  BY <2>1, <2>2 DEF Guard
<1>9. Ensured'
  BY <1>1, <1>4 DEF Fresh, Ensured, Is, Exists
<1>10. \A k \in Lambdas : k # l => /\ Tearing(k)' = Tearing(k)
                                   /\ At(k, "put")' = At(k, "put") /\ inv'[k].s = inv[k].s
  BY <1>4 DEF Tearing, At, Is
<1>11. ~Tearing(l) /\ ~At(l, "put")'  BY <1>1, <1>4 DEF Tearing, At
<1>12. Torn'  BY <1>1, <1>10, <1>11 DEF Fresh, Torn
<1>13. \A op : op # "none" /\ InFlight(op)' => InFlight(op)  BY <1>4 DEF InFlight, Is
<1>14. Alone'  BY <1>13 DEF Fresh, Alone, DeadlineOps
<1> QED  BY <1>6, <1>7, <1>8, <1>9, <1>12, <1>14 DEF Fresh

\* Only auto-teardown takes the schedule away, on its way to the dispatch.
LEMMA UnschedFresh ==
  ASSUME IInv, Fresh, NEW l \in Lambdas, Unsched(l) \/ UnschedFails(l)
  PROVE  Fresh'
<1>1. UNCHANGED <<now, session, deploys, teardowns>> /\ schedule' \in {schedule, Never}
      /\ At(l, "unsched")
  BY DEF Unsched, UnschedFails
<1>2. ExecOK(l) /\ Is(l, "auto_teardown") /\ ~Early  BY <1>1 DEF Fresh, ExecOK, At
<1>3. Phase' = Phase /\ Created' = Created /\ Early' = Early
  BY <1>1 DEF Phase, Created, Early
<1>4. /\ inv'[l].pc = "dispatch" /\ inv'[l].op = inv[l].op /\ inv'[l].s = inv[l].s
      /\ inv'[l].at = inv[l].at /\ inv'[l].by = inv[l].by
      /\ \A k \in Lambdas : k # l => inv'[k] = inv[k]
  BY <1>2, GotoIs DEF Unsched, UnschedFails
<1>5. ExecOK(l)'  BY <1>1, <1>2, <1>3, <1>4 DEF ExecOK, At, Is, Called
<1>6. \A k \in Lambdas : ExecOK(k)'  BY <1>1, <1>4, <1>5, OthersOK DEF Fresh
<1>7. \A op : InFlight(op)' = InFlight(op)  BY <1>4 DEF InFlight, Is
<1>8. SessionOK'
  BY <1>1, <1>2, <1>3, <1>7 DEF Fresh, SessionOK, Born, RunKnown, Exists
<1>9. Tearing(l)'  BY <1>2, <1>4 DEF Tearing, Is
<1>10. Due' = Due  BY <1>3, <1>7 DEF Due
<1>11. Guard'  BY <1>1, <1>9, <1>10 DEF Fresh, Guard, Pending, Exists
<1>12. Ensured'  BY <1>1, <1>4 DEF Fresh, Ensured, Is, Exists
<1>13. Torn'  BY <1>9 DEF Torn
<1>14. Alone'  BY <1>7 DEF Fresh, Alone
<1> QED  BY <1>6, <1>8, <1>11, <1>12, <1>13, <1>14 DEF Fresh

-----------------------------------------------------------------------------
(* Fresh: calls from outside *)

LEMMA StartFresh ==
  ASSUME IInv, Fresh, OneDeploy, NEW l \in Lambdas, NEW op \in ClientOps \cup {"auto_teardown"},
         NEW pc, NEW by, Start(l, op, pc, by), UNCHANGED <<now, session, deploys, teardowns>>,
         \/ op \in ClientOps /\ pc = "read" /\ UNCHANGED schedule
         \/ op = "auto_teardown" /\ pc = "github" /\ ~Early
  PROVE  Fresh'
<1>1. /\ inv'[l].pc = pc /\ inv'[l].op = op /\ inv'[l].s = NoSession
      /\ inv'[l].at = Never /\ inv'[l].by = by
      /\ \A k \in Lambdas : k # l => inv'[k] = inv[k]
      /\ inv[l].pc = "idle" /\ \A k \in Lambdas : <<op, inv[k].op>> \notin Apart
  BY StartIs
<1>2. ExecOK(l) /\ inv[l].op = "none"  BY <1>1 DEF Fresh, ExecOK, At, Is
<1>3. Phase' = Phase /\ Created' = Created /\ Early' = Early
  BY DEF Phase, Created, Early
<1>4. ExecOK(l)'
  BY <1>1, <1>3, NoSessionIs DEF ExecOK, At, Is, Called, Asked, ClientOps
<1>5. \A k \in Lambdas : ExecOK(k)'  BY <1>1, <1>4, OthersOK DEF Fresh
<1>6. \A x : x # "none" => (InFlight(x)' <=> InFlight(x) \/ x = op)
  BY <1>1, <1>2 DEF InFlight, Is
<1>7. op \notin {"set_deploy_run", "ensure", "complete_deploy"}  BY DEF ClientOps
<1>8. Early => schedule' = schedule  OBVIOUS
<1>9. SessionOK'
  BY <1>3, <1>6, <1>7, <1>8 DEF Fresh, SessionOK, Born, RunKnown, Exists
<1>10. \A k \in Lambdas : k # l => /\ Pending(k)' = Pending(k) /\ Tearing(k)' = Tearing(k)
                                   /\ At(k, "put")' = At(k, "put") /\ inv'[k].s = inv[k].s
  BY <1>1 DEF Pending, Tearing, At, Is
<1>11. ~Pending(l) /\ ~Tearing(l) /\ ~At(l, "put")' /\ ~Is(l, "ensure")'
       /\ (schedule' = schedule \/ Pending(l)')
  BY <1>1, <1>2, <1>7 DEF Pending, Tearing, At, Is
<1>12. Due' = Due  BY <1>3, <1>6, <1>7 DEF Due
<1>13. Guard'  BY <1>10, <1>11, <1>12 DEF Fresh, Guard, Exists
<1>14. Ensured'  BY <1>1, <1>11 DEF Fresh, Ensured, Is, Exists
<1>15. Torn'  BY <1>10, <1>11 DEF Fresh, Torn
<1>16. Alone'
  <2>1. op \in DeadlineOps => ~InFlight("complete_deploy")
    <3> SUFFICES ASSUME op \in DeadlineOps, NEW k \in Lambdas, inv[k].op = "complete_deploy"
                 PROVE  FALSE
      BY DEF InFlight, Is
    <3> QED  BY <1>1 DEF OneDeploy
  <2> QED  BY <1>6, <1>7, <2>1 DEF Fresh, Alone, DeadlineOps
<1> QED  BY <1>5, <1>9, <1>13, <1>14, <1>15, <1>16 DEF Fresh

LEMMA CallFresh ==
  ASSUME IInv, Fresh, OneDeploy, NEW l \in Lambdas,
         Fire(l) \/ \E op \in UserOps : ClientCall(l, op)
  PROVE  Fresh'
<1> USE SessionAssumption DEF SessionAssumption
<1>1. CASE Fire(l)
  <2>1. ~Early  BY <1>1 DEF Fire, Fresh, SessionOK
  <2> QED  BY <1>1, <2>1, StartFresh DEF Fire
<1>2. ASSUME NEW op \in UserOps, ClientCall(l, op)
      PROVE  Fresh'
  BY <1>2, StartFresh DEF ClientCall
<1> QED  BY <1>1, <1>2

\* Before the run exists there is no document, nor one to be written.
LEMMA BeforeRun ==
  ASSUME Fresh, deploys = <<>>
  PROVE  /\ Phase = "queued" /\ Early /\ ~Exists(session)
         /\ \A k \in Lambdas : ~At(k, "put") /\ ~(Is(k, "deploy_status") /\ At(k, "github"))
  BY DEF Fresh, SessionOK, ExecOK, Carried, Born, Phase, Early, Unregistered, Asked

LEMMA NewRunFresh ==
  ASSUME IInv, RunOK, Fresh, OneDeploy, CliDeploy \/ \E l \in Lambdas : DispatchDeploy(l)
  PROVE  Fresh'
<1> USE SessionAssumption DEF SessionAssumption, OneDeploy
<1>1. deploys = <<>> /\ deploys' = <<NewRun>> /\ UNCHANGED <<now, session, schedule, teardowns>>
  <2>1. Len(deploys) < MaxRuns /\ deploys' = Append(deploys, NewRun)
        /\ UNCHANGED <<now, session, schedule, teardowns>>
    BY DEF CliDeploy, DispatchDeploy, NewRun
  <2>2. deploys \in Seq(Runs)  BY DEF IInv, Workflows
  <2>3. Len(deploys) = 0  BY <2>1, <2>2
  <2>4. deploys = <<>>  BY <2>2, <2>3
  <2> QED  BY <2>1, <2>4
<1>2. /\ Phase = "queued" /\ Early /\ ~Exists(session)
      /\ \A k \in Lambdas : ~At(k, "put") /\ ~(Is(k, "deploy_status") /\ At(k, "github"))
  BY <1>1, BeforeRun
<1>3. Phase' = "queued" /\ Created' = now /\ Early' = Early
  BY <1>1, <1>2 DEF Phase, Created, Early, NewRun, Unregistered
<1>4. ASSUME NEW k \in Lambdas, inv'[k] = inv[k]
      PROVE  ExecOK(k)'
  BY <1>1, <1>2, <1>3, <1>4 DEF Fresh, ExecOK, At, Is, Called, Asked, Exists
<1>5. CASE CliDeploy
  <2>1. inv' = inv  BY <1>5 DEF CliDeploy
  <2>2. \A k \in Lambdas : ExecOK(k)'  BY <1>4, <2>1
  <2>3. SessionOK'
    BY <1>1, <1>2, <1>3, <2>1 DEF Fresh, SessionOK, Born, RunKnown, Exists, Unregistered
  <2>4. Guard' /\ Ensured' /\ Torn' /\ Alone'
    BY <1>1, <1>3, <2>1
       DEF Fresh, Guard, Due, Ensured, Torn, Alone, InFlight, Is, At, Exists, Tearing
  <2> QED  BY <2>2, <2>3, <2>4 DEF Fresh
<1>6. ASSUME NEW l \in Lambdas, DispatchDeploy(l)
      PROVE  Fresh'
  <2> DEFINE s == [NoSession EXCEPT !.deployed = now]
  <2>1. inv'[l].pc = "put" /\ inv'[l].op = "deploy" /\ inv'[l].s = s
        /\ inv'[l].at = Never /\ inv'[l].by = inv[l].by
        /\ (\A k \in Lambdas : k # l => inv'[k] = inv[k]) /\ inv[l].op = "deploy"
    BY <1>6, GotoWithIs DEF DispatchDeploy, Is
  <2>2. s.deployed = now /\ s.tearing = FALSE /\ s.deadline = Never  BY DEF NoSession
  <2>3. now \in Nat /\ now # Never  BY DEF IInv, Stored, Times
  <2> HIDE DEF s
  <2>4. Carried(l)' /\ Writer(l)'
    BY <1>1, <1>3, <2>1, <2>2, <2>3 DEF Carried, Writer, Is, Exists, Born, RunKnown
  <2>5. ExecOK(l)'
    BY <1>1, <2>1, <2>2, <2>4 DEF ExecOK, At, Is, Called
  <2>6. \A k \in Lambdas : ExecOK(k)'  BY <1>4, <2>1, <2>5
  <2>7. \A op : InFlight(op)' = InFlight(op)  BY <2>1 DEF InFlight, Is
  <2>8. SessionOK'
    BY <1>1, <1>2, <1>3 DEF Fresh, SessionOK, Born, RunKnown, Exists, Unregistered
  <2>9. Guard' /\ Ensured'
    BY <1>1, <1>3, <2>1 DEF Fresh, Guard, Due, Ensured, Is, Exists
  <2>10. \A k \in Lambdas : Tearing(k) => Tearing(k)'
    BY <2>1 DEF Tearing, Is, At
  <2>11. ~session.tearing /\ \A k \in Lambdas : ~(At(k, "put")' /\ inv'[k].s.tearing)
    BY <1>2, <2>1, <2>2 DEF Fresh, SessionOK, At
  <2>12. Torn'  BY <1>1, <2>11 DEF Torn
  <2>13. Alone'  BY <2>7 DEF Fresh, Alone
  <2> QED  BY <2>6, <2>8, <2>9, <2>12, <2>13 DEF Fresh
<1> QED  BY <1>5, <1>6

LEMMA TickFresh ==
  ASSUME IInv, RunOK, Fresh, Tick
  PROVE  Fresh'
<1>1. UNCHANGED <<session, schedule, deploys, teardowns, inv>>
      /\ \A k \in Lambdas : inv[k].pc = "idle" /\ inv[k].op = "none"
  BY DEF Tick, Quiet, Fresh, ExecOK, At, Is
<1>2. Phase' = Phase /\ Created' = Created /\ Early' = Early
  BY <1>1 DEF Phase, Created, Early
<1>3. \A k \in Lambdas : ExecOK(k)'
  BY <1>1, <1>2 DEF Fresh, ExecOK, At, Is, Called
<1>4. ~session.tearing  BY <1>1 DEF Fresh, Torn, Tearing, Is
<1>5. SessionOK'
  BY <1>1, <1>2, <1>4 DEF Fresh, SessionOK, Born, RunKnown, Exists, InFlight, Is
<1>6. Guard' /\ Ensured' /\ Torn' /\ Alone'
  BY <1>1, <1>2
     DEF Fresh, Guard, Due, Ensured, Torn, Alone, InFlight, Is, At, Exists, Tearing, Pending
<1> QED  BY <1>3, <1>5, <1>6 DEF Fresh

-----------------------------------------------------------------------------
(* Fresh: the deploy workflow *)

LEMMA DeployFresh ==
  ASSUME IInv, RunOK, Fresh, OneDeploy, NEW i \in DOMAIN deploys, DeployStep(i)
  PROVE  Fresh'
<1> USE SessionAssumption DEF SessionAssumption
<1>1. UNCHANGED <<now, session, schedule, teardowns>>
  BY DEF DeployStep, Apply, DeployGoesOn, DeployCalls
<1>2. deploys \in Seq(Runs) /\ i = 1 /\ deploys # <<>>
  BY DEF IInv, Workflows, RunOK
<1>3. PICK from, to \in Phases :
        /\ MoveDeploy(i, from, to)
        /\ \/ from = "running" /\ to = "up" /\ Created < now /\ inv' = inv
           \/ from = "queued" /\ to = "running" /\ inv' = inv
           \/ Quiet /\ from = "registered" /\ to = "converged" /\ inv' = inv
           \/ Quiet /\ from = "ensured" /\ to = "started" /\ inv' = inv
           \/ from = "completing" /\ to = "success" /\ inv' = inv
           \/ from = "up" /\ to = "registered"
              /\ \E l \in Lambdas : Start(l, "set_deploy_run", "read", <<"deploy", i>>)
           \/ from = "converged" /\ to = "ensured"
              /\ \E l \in Lambdas : Start(l, "ensure", "read", <<"deploy", i>>)
           \/ from = "started" /\ to = "completing"
              /\ \E l \in Lambdas : Start(l, "complete_deploy", "read", <<"deploy", i>>)
  <2>1. {"running", "up", "queued", "registered", "converged", "ensured", "started",
         "completing", "success"} \subseteq Phases
    BY DEF Phases, Active, Running
  <2>2. CASE Apply(i)
    <3>1. MoveDeploy(i, "running", "up") /\ Created < now /\ inv' = inv
      BY <1>2, <2>2 DEF Apply, Created
    <3> QED  BY <2>1, <3>1
  <2>3. CASE DeployGoesOn(i)
    <3>1. inv' = inv  BY <2>3 DEF DeployGoesOn
    <3> QED  BY <2>1, <2>3, <3>1 DEF DeployGoesOn
  <2>4. ASSUME NEW l \in Lambdas, DeployCalls(i, l)
        PROVE  \/ MoveDeploy(i, "up", "registered")
                  /\ Start(l, "set_deploy_run", "read", <<"deploy", i>>)
               \/ MoveDeploy(i, "converged", "ensured")
                  /\ Start(l, "ensure", "read", <<"deploy", i>>)
               \/ MoveDeploy(i, "started", "completing")
                  /\ Start(l, "complete_deploy", "read", <<"deploy", i>>)
    BY <2>4 DEF DeployCalls
  <2>5. CASE \E l \in Lambdas : DeployCalls(i, l)
    <3>1. PICK l \in Lambdas : DeployCalls(i, l)  BY <2>5
    <3>2. CASE MoveDeploy(i, "up", "registered")
               /\ Start(l, "set_deploy_run", "read", <<"deploy", i>>)
      BY <2>1, <3>2
    <3>3. CASE MoveDeploy(i, "converged", "ensured")
               /\ Start(l, "ensure", "read", <<"deploy", i>>)
      BY <2>1, <3>3
    <3>4. CASE MoveDeploy(i, "started", "completing")
               /\ Start(l, "complete_deploy", "read", <<"deploy", i>>)
      BY <2>1, <3>4
    <3> QED  BY <2>4, <3>1, <3>2, <3>3, <3>4
  <2> QED  BY <2>2, <2>3, <2>5 DEF DeployStep
<1>4. Phase = from /\ Phase' = to /\ Created' = Created
      /\ deploys' # <<>> /\ \A k \in Lambdas : inv[k].by # <<"deploy", 1>>
  <2>1. deploys[1] \in Runs  BY <1>2
  <2>2. deploys' = [deploys EXCEPT ![1] = [deploys[1] EXCEPT !.phase = to]]
        /\ deploys[1].phase = from /\ \A k \in Lambdas : inv[k].by # <<"deploy", 1>>
    BY <1>2, <1>3 DEF MoveDeploy
  <2>3. deploys'[1] = [deploys[1] EXCEPT !.phase = to] /\ deploys' # <<>>
    BY <1>2, <2>2
  <2>4. deploys'[1].phase = to /\ deploys'[1].created = deploys[1].created
    BY <2>1, <2>3 DEF Runs
  <2> QED  BY <1>2, <2>2, <2>3, <2>4 DEF Phase, Created
<1>5. \A k \in Lambdas : inv[k].op \notin {"set_deploy_run", "ensure", "complete_deploy"}
  BY <1>4 DEF Fresh, ExecOK, Called, Is
<1>6. Early <=> from \in Unregistered \cup {"converged"}
  BY <1>4 DEF Early
<1>7. Early' <=> to \in Unregistered \cup {"converged"}
  BY <1>4 DEF Early
\* Who may be about to write when the phase changes.
<1>8. ASSUME NEW k \in Lambdas, At(k, "put")
      PROVE  /\ from \in {"queued", "running", "up"} =>
                  \/ Is(k, "deploy") /\ Created = now /\ from # "up"
                  \/ Is(k, "deploy_status") /\ inv[k].s.deployRun
             /\ from \notin Unregistered => inv[k].op \in DeadlineOps
             /\ from # "converged"
  <2>1. ExecOK(k) /\ Writer(k) /\ inv[k].op \notin {"set_deploy_run", "ensure", "complete_deploy"}
    BY <1>5, <1>8 DEF Fresh, ExecOK
  <2>2. Early => inv[k].op \notin DeadlineOps
    BY <1>8, <2>1 DEF ExecOK, At, Is, DeadlineOps
  <2> QED  BY <1>4, <1>6, <2>1, <2>2 DEF Writer, Unregistered, Is
<1>9. now \in Nat /\ Created \in Nat  BY <1>2, SessionFacts
<1>10. ASSUME NEW k \in Lambdas, inv'[k] = inv[k], to = "completing" => ~At(k, "put")
       PROVE  ExecOK(k)'
  <2>1. ExecOK(k)  BY DEF Fresh
  <2>2. ASSUME At(k, "put")
        PROVE  Writer(k)' /\ Carried(k)'
    <3>1. Writer(k) /\ Carried(k) /\ inv[k].op \notin {"set_deploy_run", "ensure", "complete_deploy"}
      BY <1>5, <2>1, <2>2 DEF ExecOK
    <3>2. CASE from \in {"queued", "running", "up"}
      <4>1. to \in {"running", "up", "registered"} /\ (to = "running" <=> from = "queued")
            /\ (to = "registered" <=> from = "up") /\ (to = "up" => Created < now)
        BY <1>3, <3>2
      <4>2. \/ Is(k, "deploy") /\ Created = now /\ to = "running"
            \/ Is(k, "deploy_status") /\ inv[k].s.deployRun
        BY <1>8, <1>9, <2>2, <3>2, <4>1
      <4>3. Writer(k)'
        BY <1>1, <1>4, <1>10, <4>1, <4>2 DEF Writer, Is, Unregistered
      <4>4. Carried(k)'
        BY <1>1, <1>4, <1>10, <3>1, <4>1, <4>2 DEF Carried, Born, RunKnown, Exists
      <4> QED  BY <4>3, <4>4
    <3>3. CASE Quiet  BY <2>2, <3>3 DEF Quiet, At
    <3>4. CASE from = "converged" \/ to = "completing"  BY <1>8, <1>10, <2>2, <3>4
    <3>5. CASE from = "completing" /\ to = "success"
      <4>1. inv[k].op \in DeadlineOps  BY <1>8, <2>2, <3>5 DEF Unregistered
      <4> QED
        BY <1>1, <1>4, <1>10, <3>1, <3>5, <4>1
           DEF Writer, Carried, Born, RunKnown, Exists, Is
    <3> QED  BY <1>3, <3>2, <3>3, <3>4, <3>5
  <2>3. ASSUME At(k, "github")
        PROVE  Asked(k)'
    <3>1. Asked(k) /\ ~Quiet  BY <2>1, <2>3 DEF ExecOK, Quiet, At
    <3>2. Phase \in Unregistered => Phase' \in Unregistered
      BY <1>3, <1>4, <3>1 DEF Unregistered
    <3> QED  BY <1>1, <1>4, <1>10, <3>1, <3>2 DEF Asked, Born, Exists, Is
  <2>4. Called(k)'  BY <1>5, <1>10 DEF Called, Is
  <2>5. Early' => Early  BY <1>3, <1>6, <1>7 DEF Unregistered
  <2> QED
    BY <1>10, <2>1, <2>2, <2>3, <2>4, <2>5 DEF ExecOK, At, Is
<1>11. CASE inv' = inv
  <2>1. to \notin {"completing", "registered", "ensured"}  BY <1>3, <1>11, StartIs
  <2>2. \A k \in Lambdas : ExecOK(k)'  BY <1>10, <1>11, <2>1
  <2>3. ~InFlight("set_deploy_run") /\ ~InFlight("ensure") /\ ~InFlight("complete_deploy")
    BY <1>5 DEF InFlight, Is
  <2>4. SessionOK'
    <3>1. /\ Early' => Early
          /\ to \notin Unregistered => from \notin Unregistered \/ from = "registered"
          /\ to \in {"completing", "success"} => from = "completing"
      BY <1>3, <1>6, <1>7, <2>1 DEF Unregistered
    <3> QED
      BY <1>1, <1>4, <2>1, <2>3, <3>1 DEF Fresh, SessionOK, Born, RunKnown, Exists
  <2>5. Due' => Due  BY <1>3, <1>4, <2>1, <2>3 DEF Due
  <2>6. Guard' /\ Ensured' /\ Torn' /\ Alone'
    BY <1>1, <1>11, <2>5
       DEF Fresh, Guard, Ensured, Torn, Alone, InFlight, Is, At, Exists, Tearing, Pending
  <2> QED  BY <2>2, <2>4, <2>6 DEF Fresh
<1>12. ASSUME NEW l \in Lambdas, NEW op \in {"set_deploy_run", "ensure", "complete_deploy"},
              Start(l, op, "read", <<"deploy", i>>),
              \/ op = "set_deploy_run" /\ from = "up" /\ to = "registered"
              \/ op = "ensure" /\ from = "converged" /\ to = "ensured"
              \/ op = "complete_deploy" /\ from = "started" /\ to = "completing"
       PROVE  Fresh'
  <2>1. /\ inv'[l].pc = "read" /\ inv'[l].op = op /\ inv'[l].s = NoSession
        /\ inv'[l].at = Never /\ inv'[l].by = <<"deploy", 1>>
        /\ \A k \in Lambdas : k # l => inv'[k] = inv[k]
        /\ inv[l].pc = "idle" /\ \A k \in Lambdas : <<op, inv[k].op>> \notin Apart
    BY <1>2, <1>12, StartIs
  <2>2. inv[l].op = "none"  BY <2>1 DEF Fresh, ExecOK, At, Is
  <2>3. op = "complete_deploy" => \A k \in Lambdas : inv[k].op \notin DeadlineOps
    <3> SUFFICES ASSUME op = "complete_deploy", NEW k \in Lambdas, inv[k].op \in DeadlineOps
                 PROVE  FALSE
      OBVIOUS
    <3> QED  BY <2>1 DEF OneDeploy
  <2>4. to = "completing" => \A k \in Lambdas : ~At(k, "put")
    BY <1>8, <1>12, <2>3 DEF Unregistered
  <2>5. ExecOK(l)'
    BY <1>4, <1>12, <2>1, NoSessionIs DEF ExecOK, At, Is, Called
  <2>6. \A k \in Lambdas : ExecOK(k)'  BY <1>10, <2>1, <2>4, <2>5
  <2>7. InFlight(op)' /\ \A x : InFlight(x)' => x = op \/ InFlight(x)
    BY <2>1 DEF InFlight, Is
  <2>8. ~InFlight("set_deploy_run") /\ ~InFlight("ensure") /\ ~InFlight("complete_deploy")
    BY <1>5 DEF InFlight, Is
  <2>9. SessionOK'
    <3>1. /\ Early' => Early
          /\ to \notin Unregistered => from \notin Unregistered
          /\ to = "success" => FALSE
      BY <1>6, <1>7, <1>12 DEF Unregistered
    <3> QED
      BY <1>1, <1>4, <1>12, <2>7, <3>1 DEF Fresh, SessionOK, Born, RunKnown, Exists
  <2>10. \A k \in Lambdas : k # l => /\ Pending(k)' = Pending(k) /\ Tearing(k)' = Tearing(k)
                                     /\ At(k, "put")' = At(k, "put") /\ inv'[k].s = inv[k].s
    BY <2>1 DEF Pending, Tearing, At, Is
  <2>11. ~Pending(l) /\ ~Tearing(l) /\ ~At(l, "put")'
    BY <2>1, <2>2 DEF Pending, Tearing, At, Is
  <2>12. Due' => Due  BY <1>4, <1>12, <2>7 DEF Due
  <2>13. Guard'  BY <1>1, <2>10, <2>11, <2>12 DEF Fresh, Guard, Exists
  <2>14. Ensured'  BY <1>1, <1>5, <2>1 DEF Ensured, Is
  <2>15. Torn'  BY <1>1, <2>10, <2>11 DEF Fresh, Torn
  <2>16. Alone'
    <3>1. op = "complete_deploy" => \A x \in DeadlineOps : ~InFlight(x)
      BY <2>3 DEF InFlight, Is
    <3> QED  BY <1>12, <2>7, <2>8, <3>1 DEF Alone, DeadlineOps
  <2> QED  BY <2>6, <2>9, <2>13, <2>14, <2>15, <2>16 DEF Fresh
<1> QED  BY <1>3, <1>11, <1>12

-----------------------------------------------------------------------------
(* The run, in both ages *)

\* Failures only accumulate, and each kind but three strands the platform.
LEMMA Failures ==
  ASSUME IInv, [Next]_vars, Survived'
  PROVE  /\ Survived
         /\ \A l \in Lambdas : ~ReadFails(l) /\ ~DispatchFails(l) /\ ~PutFails(l) /\ ~UpsertFails(l)
         /\ \A i \in DOMAIN deploys : ~DeployFails(i)
         /\ \A i \in DOMAIN teardowns : ~DestroyFails(i)
<1>1. ASSUME NEW kind, Fail(kind)
      PROVE  kind \in Tolerated
  BY <1>1 DEF Fail, Survived, Tolerated
<1>2. failed \subseteq failed'
  BY DEF Next, vars, LambdaStep, LambdaFails, Read, Reread, Github, DispatchDeploy, DispatchRefused,
         DispatchTeardown, Put, Upsert, Unset, Unsched, Fallback, ReadFails, GithubFails,
         DispatchFails, PutFails, UpsertFails, UnsetFails, UnschedFails, Fire, ClientCall, CliDeploy,
         DeployStep, DeployFails, Apply, DeployGoesOn, DeployCalls, TeardownStep, DestroyFails,
         Destroy, TeardownEnds, TeardownCalls, Tick, Fail
<1>3. Survived  BY <1>2 DEF Survived, Tolerated
<1>4. {"read", "dispatch", "put", "sched", "workflow"} \cap Tolerated = {}  BY DEF Tolerated
<1>5. \A l \in Lambdas : ~ReadFails(l) /\ ~DispatchFails(l) /\ ~PutFails(l) /\ ~UpsertFails(l)
  BY <1>1, <1>4 DEF ReadFails, DispatchFails, PutFails, UpsertFails
<1>6. \A i \in DOMAIN deploys : ~DeployFails(i)  BY <1>1, <1>4 DEF DeployFails
<1>7. \A i \in DOMAIN teardowns : ~DestroyFails(i)  BY <1>1, <1>4 DEF DestroyFails
<1> QED  BY <1>3, <1>5, <1>6, <1>7

\* The steps that leave the runs of the deploy workflow and the clock alone, and
\* can only take the platform down.
LEMMA RunStays ==
  ASSUME RunOK, UNCHANGED <<now, deploys>>, platform' => platform
  PROVE  RunOK'
  BY DEF RunOK, Phase, Created

LEMMA RunKeeps ==
  ASSUME IInv, RunOK, OneDeploy, [Next]_vars, Survived'
  PROVE  RunOK'
<1> USE SessionAssumption DEF SessionAssumption
<1>0. now \in Nat /\ deploys \in Seq(Runs)  BY DEF IInv, Stored, Workflows, Times
<1>1. CASE UNCHANGED vars
  BY <1>1, RunStays DEF vars
<1>2. CASE \E l \in Lambdas : \/ LambdaFails(l) \/ Fire(l) \/ \E op \in UserOps : ClientCall(l, op)
                              \/ LambdaStep(l) /\ ~DispatchDeploy(l)
  <2>1. UNCHANGED <<now, deploys, platform>>
    BY <1>2 DEF LambdaStep, LambdaFails, Read, Reread, Github, DispatchDeploy, DispatchRefused,
         DispatchTeardown, Put, Upsert, Unset, Unsched, Fallback, ReadFails, GithubFails,
         DispatchFails, PutFails, UpsertFails, UnsetFails, UnschedFails, Fire, ClientCall
  <2> QED  BY <2>1, RunStays
<1>3. CASE CliDeploy \/ \E l \in Lambdas : DispatchDeploy(l)
  <2>1. Len(deploys) < MaxRuns /\ deploys' = Append(deploys, NewRun) /\ UNCHANGED <<now, platform>>
    BY <1>3 DEF CliDeploy, DispatchDeploy, NewRun
  <2>2. deploys = <<>>
    <3>1. Len(deploys) = 0  BY <1>0, <2>1 DEF OneDeploy
    <3> QED  BY <1>0, <3>1
  <2>3. deploys' = <<NewRun>> /\ Phase = "queued"  BY <2>1, <2>2 DEF Phase
  <2>4. Phase' = "queued" /\ Created' = now /\ Len(deploys') = 1
    BY <2>3 DEF Phase, Created, NewRun
  <2> QED  BY <1>0, <2>1, <2>3, <2>4 DEF RunOK
<1>4. ASSUME NEW i \in DOMAIN deploys, DeployStep(i)
      PROVE  RunOK'
  <2>1. i = 1 /\ deploys # <<>> /\ deploys[1] \in Runs  BY <1>0 DEF RunOK
  <2>2. now' = now /\ \E from, to \in Active \cup {"success"} :
          /\ MoveDeploy(i, from, to)
          /\ from \in Active
          /\ to \in {"queued", "running"} => from = "queued" /\ platform' = platform
          /\ from \in {"queued", "running"} /\ to \notin {"queued", "running"} => Created < now
    <3>1. CASE Apply(i)
      <4>1. MoveDeploy(i, "running", "up") /\ Created < now /\ now' = now
        BY <2>1, <3>1 DEF Apply, Created
      <4> QED  BY <4>1 DEF Active, Running
    <3>2. CASE DeployGoesOn(i)
      BY <3>2 DEF DeployGoesOn, Active, Running
    <3>3. CASE \E l \in Lambdas : DeployCalls(i, l)
      BY <3>3 DEF DeployCalls, Active, Running
    <3> QED  BY <1>4, <3>1, <3>2, <3>3 DEF DeployStep
  <2>3. PICK from, to \in Active \cup {"success"} :
          /\ MoveDeploy(i, from, to)
          /\ from \in Active
          /\ to \in {"queued", "running"} => from = "queued" /\ platform' = platform
          /\ from \in {"queued", "running"} /\ to \notin {"queued", "running"} => Created < now
    BY <2>2
  <2>4. deploys' = [deploys EXCEPT ![1] = [deploys[1] EXCEPT !.phase = to]]
        /\ deploys[1].phase = from
    BY <2>1, <2>3 DEF MoveDeploy
  <2>5. deploys'[1] = [deploys[1] EXCEPT !.phase = to] /\ Len(deploys') = Len(deploys) /\ deploys' # <<>>
    BY <1>0, <2>1, <2>4
  <2>6. deploys'[1].phase = to /\ deploys'[1].created = deploys[1].created
    BY <2>1, <2>5 DEF Runs
  <2>7. Phase = from /\ Phase' = to /\ Created' = Created
    BY <2>1, <2>4, <2>5, <2>6 DEF Phase, Created
  <2>8. to # "failure"  BY DEF Active, Running
  <2>9. platform' => Phase' \notin {"queued", "running"}
    BY <2>3, <2>7 DEF RunOK
  <2>10. Created <= now /\ now <= Created + RunTime
         /\ (to \notin {"queued", "running"} => Created < now)
    BY <2>1, <2>3, <2>7 DEF RunOK
  <2>11. Len(deploys') <= 1 /\ now' = now  BY <2>2, <2>5 DEF RunOK
  <2> QED  BY <2>7, <2>8, <2>9, <2>10, <2>11 DEF RunOK
<1>5. ASSUME NEW i \in DOMAIN teardowns, TeardownStep(i)
      PROVE  RunOK'
  <2>1. UNCHANGED <<now, deploys>> /\ (platform' => platform)
    BY <1>5 DEF TeardownStep, Destroy, TeardownEnds, TeardownCalls
  <2> QED  BY <2>1, RunStays
<1>6. CASE Tick
  <2>1. UNCHANGED <<deploys, platform>> /\ now' = now + 1
        /\ (deploys # <<>> /\ Phase \in Active => now < Created + RunTime)
    <3>1. deploys # <<>> => 1 \in DOMAIN deploys  BY <1>0
    <3> QED  BY <1>6, <3>1 DEF Tick, OnTime, Phase, Created
  <2>2. deploys # <<>> => Created \in Nat
    <3>1. deploys # <<>> => deploys[1] \in Runs  BY <1>0
    <3> QED  BY <3>1 DEF Created, Runs, Times
  <2>3. Phase' = Phase /\ Created' = Created  BY <2>1 DEF Phase, Created
  <2> QED  BY <1>0, <2>1, <2>2, <2>3 DEF RunOK
<1> QED
  BY <1>1, <1>2, <1>3, <1>4, <1>5, <1>6, Failures DEF Next

-----------------------------------------------------------------------------
(* Doomed *)

\* The first dispatch of a teardown ends the first age.
LEMMA FirstTeardown ==
  ASSUME IInv, Fresh, NEW l \in Lambdas, DispatchTeardown(l)
  PROVE  Doomed' /\ teardowns' # <<>>
<1>1. ~Early  BY DEF DispatchTeardown, Fresh, ExecOK
<1>2. deploys' = deploys /\ teardowns' = Append(Superseded, NewRun)
  BY DEF DispatchTeardown
<1>3. Superseded \in Seq(Runs)  BY SupersededType DEF IInv, Workflows
<1> DEFINE n == Len(Superseded) + 1
<1>4. n \in DOMAIN teardowns' /\ teardowns'[n] = NewRun /\ teardowns' # <<>>
  BY <1>2, <1>3
<1>5. teardowns'[n].phase = "queued"  BY <1>4 DEF NewRun
<1>6. ~Early'  BY <1>1, <1>2 DEF Early, Phase
<1> QED  BY <1>4, <1>5, <1>6 DEF Doomed

LEMMA DoomedKeeps ==
  ASSUME IInv, RunOK, OneDeploy, Doomed, teardowns # <<>>, [Next]_vars, Survived'
  PROVE  Doomed' /\ teardowns' # <<>>
<1> USE SessionAssumption DEF SessionAssumption
<1>0. deploys \in Seq(Runs) /\ teardowns \in Seq(Runs)  BY DEF IInv, Workflows
<1>1. ~Early  BY DEF Doomed
<1>2. ASSUME UNCHANGED <<deploys, teardowns, platform>>
      PROVE  Doomed' /\ teardowns' # <<>>
  BY <1>2 DEF Doomed, Early, Phase
<1>3. CASE UNCHANGED vars \/ Tick
  BY <1>2, <1>3 DEF vars, Tick
<1>4. ASSUME NEW l \in Lambdas,
             \/ LambdaFails(l) \/ Fire(l) \/ \E op \in UserOps : ClientCall(l, op)
             \/ LambdaStep(l) /\ ~DispatchDeploy(l) /\ ~DispatchTeardown(l)
      PROVE  Doomed' /\ teardowns' # <<>>
  <2>1. UNCHANGED <<deploys, teardowns, platform>>
    BY <1>4 DEF LambdaStep, LambdaFails, Read, Reread, Github, DispatchDeploy, DispatchRefused,
         DispatchTeardown, Put, Upsert, Unset, Unsched, Fallback, ReadFails, GithubFails,
         DispatchFails, PutFails, UpsertFails, UnsetFails, UnschedFails, Fire, ClientCall
  <2> QED  BY <1>2, <2>1
\* There is no second run to bring the platform up again.
<1>5. ~CliDeploy /\ \A l \in Lambdas : ~DispatchDeploy(l)
  <2>1. deploys # <<>>  BY <1>1 DEF Early, Phase, Unregistered
  <2>2. Len(deploys) >= 1  BY <1>0, <2>1
  <2> QED  BY <1>0, <2>2 DEF CliDeploy, DispatchDeploy, OneDeploy
<1>6. ASSUME NEW l \in Lambdas, DispatchTeardown(l)
      PROVE  Doomed' /\ teardowns' # <<>>
  <2>1. deploys' = deploys /\ teardowns' = Append(Superseded, NewRun)
    BY <1>6 DEF DispatchTeardown
  <2>2. Superseded \in Seq(Runs)  BY <1>0, SupersededType
  <2> DEFINE n == Len(Superseded) + 1
  <2>3. n \in DOMAIN teardowns' /\ teardowns'[n] = NewRun /\ teardowns' # <<>>
    BY <2>1, <2>2
  <2>4. teardowns'[n].phase = "queued"  BY <2>3 DEF NewRun
  <2>5. ~Early'  BY <1>1, <2>1 DEF Early, Phase
  <2> QED  BY <2>3, <2>4, <2>5 DEF Doomed
<1>7. ASSUME NEW i \in DOMAIN deploys, DeployStep(i)
      PROVE  Doomed' /\ teardowns' # <<>>
  <2>1. i = 1 /\ deploys[1].phase \notin Unregistered \cup {"converged"}
    BY <1>0, <1>1 DEF RunOK, Early, Phase
  <2>2. teardowns' = teardowns /\ platform' = platform
        /\ \E to \in {"started", "completing", "success"} :
             deploys' = [deploys EXCEPT ![1].phase = to]
    BY <1>7, <2>1
       DEF DeployStep, Apply, DeployGoesOn, DeployCalls, MoveDeploy, Unregistered
  <2>3. ~Early'
    <3>1. PICK to \in {"started", "completing", "success"} :
             deploys' = [deploys EXCEPT ![1].phase = to]
      BY <2>2
    <3>2. deploys[1] \in Runs /\ deploys # <<>>  BY <1>0, <1>7, <2>1
    <3>3. deploys'[1] = [deploys[1] EXCEPT !.phase = to] /\ deploys' # <<>>
      BY <1>0, <3>1, <3>2
    <3>4. deploys'[1].phase = to  BY <3>2, <3>3 DEF Runs
    <3> QED  BY <3>3, <3>4 DEF Early, Phase, Unregistered
  <2> QED  BY <2>2, <2>3 DEF Doomed
<1>8. ASSUME NEW i \in DOMAIN teardowns, TeardownStep(i)
      PROVE  Doomed' /\ teardowns' # <<>>
  <2>1. deploys' = deploys /\ ~Early'
    BY <1>1, <1>8 DEF TeardownStep, Destroy, TeardownEnds, TeardownCalls, Early, Phase
  <2>2. PICK from, to \in Phases :
          /\ MoveTeardown(i, from, to)
          /\ \/ platform' = FALSE
             \/ platform' = platform /\ from \notin {"queued", "running"}
             \/ platform' = platform /\ to = "running"
    <3>0. {"queued", "running", "up", "completing", "success"} \subseteq Phases
      BY DEF Phases, Active, Running
    <3>1. CASE Destroy(i)
      <4>1. MoveTeardown(i, "running", "up") /\ platform' = FALSE  BY <3>1 DEF Destroy
      <4> QED  BY <3>0, <4>1
    <3>2. CASE TeardownEnds(i)
      <4>1. MoveTeardown(i, "completing", "success") /\ platform' = platform
        BY <3>2 DEF TeardownEnds
      <4> QED  BY <3>0, <4>1
    <3>3. CASE \E l \in Lambdas : TeardownCalls(i, l)
      <4>1. platform' = platform /\ (\/ MoveTeardown(i, "queued", "running")
                                     \/ MoveTeardown(i, "up", "completing"))
        BY <3>3 DEF TeardownCalls
      <4> QED  BY <3>0, <4>1
    <3> QED  BY <1>8, <3>1, <3>2, <3>3 DEF TeardownStep
  <2>3. teardowns' = [teardowns EXCEPT ![i] = [teardowns[i] EXCEPT !.phase = to]]
        /\ teardowns[i].phase = from /\ teardowns[i] \in Runs
    BY <1>0, <2>2 DEF MoveTeardown
  <2>4. /\ DOMAIN teardowns' = DOMAIN teardowns /\ teardowns' # <<>>
        /\ \A j \in DOMAIN teardowns : j # i => teardowns'[j] = teardowns[j]
        /\ teardowns'[i].phase = to
    BY <1>0, <2>3 DEF Runs
  <2>5. platform' => \E j \in DOMAIN teardowns' : teardowns'[j].phase \in {"queued", "running"}
    <3> SUFFICES ASSUME platform'
                 PROVE  \E j \in DOMAIN teardowns' : teardowns'[j].phase \in {"queued", "running"}
      OBVIOUS
    <3>1. CASE to = "running"  BY <2>4, <3>1
    <3>2. CASE platform' = platform /\ from \notin {"queued", "running"}
      <4>1. PICK j \in DOMAIN teardowns : teardowns[j].phase \in {"queued", "running"}
        BY <3>2 DEF Doomed
      <4>2. j # i  BY <2>3, <3>2, <4>1
      <4> QED  BY <2>4, <4>1, <4>2
    <3> QED  BY <2>2, <3>1, <3>2
  <2> QED  BY <2>1, <2>4, <2>5 DEF Doomed
<1> QED
  BY <1>3, <1>4, <1>5, <1>6, <1>7, <1>8, Failures DEF Next

-----------------------------------------------------------------------------
(* Fresh, or Doomed by the first dispatch *)

LEMMA FreshKeeps ==
  ASSUME IInv, RunOK, OneDeploy, Fresh, teardowns = <<>>, [Next]_vars, Survived'
  PROVE  IF teardowns' = <<>> THEN Fresh' ELSE Doomed'
<1>1. CASE UNCHANGED vars
  <2>1. UNCHANGED <<now, session, schedule, deploys, teardowns, inv>>  BY <1>1 DEF vars
  <2>2. Fresh'
    BY <2>1 DEF Fresh, SessionOK, ExecOK, Guard, Ensured, Torn, Alone, Born, RunKnown, Called, Writer,
                Carried, Asked, Due, Tearing, Pending, InFlight, Phase, Created, Early, Is, At, Exists
  <2> QED  BY <2>1, <2>2
<1>2. ASSUME NEW l \in Lambdas, LambdaStep(l), ~DispatchTeardown(l)
      PROVE  Fresh' /\ teardowns' = <<>>
  <2>1. ~Unset(l) /\ ~Fallback(l)  BY DEF Unset, Fallback, Fresh, ExecOK, At
  <2>2. teardowns' = <<>>
    BY <1>2 DEF LambdaStep, Read, Reread, Github, DispatchDeploy, DispatchRefused, Put, Upsert, Unset,
                Unsched, Fallback
  <2> QED
    BY <1>2, <2>1, <2>2, ReadFresh, RereadFresh, GithubFresh, RefusedFresh, NewRunFresh, PutFresh,
       UpsertFresh, UnschedFresh DEF LambdaStep
<1>3. ASSUME NEW l \in Lambdas, LambdaFails(l)
      PROVE  Fresh' /\ teardowns' = <<>>
  <2>1. ~UnsetFails(l)  BY DEF UnsetFails, Fresh, ExecOK, At
  <2>2. GithubFails(l) \/ UnschedFails(l)  BY <1>3, <2>1, Failures DEF LambdaFails
  <2>3. teardowns' = <<>>  BY <2>2 DEF GithubFails, UnschedFails
  <2> QED  BY <2>2, <2>3, GithubFresh, UnschedFresh
<1>4. CASE \E l \in Lambdas : Fire(l) \/ \E op \in UserOps : ClientCall(l, op)
  <2>1. teardowns' = <<>>  BY <1>4 DEF Fire, ClientCall
  <2> QED  BY <1>4, <2>1, CallFresh
<1>5. CASE CliDeploy
  <2>1. teardowns' = <<>>  BY <1>5 DEF CliDeploy
  <2> QED  BY <1>5, <2>1, NewRunFresh
<1>6. ASSUME NEW i \in DOMAIN deploys, DeployStep(i)
      PROVE  Fresh' /\ teardowns' = <<>>
  <2>1. teardowns' = <<>>  BY <1>6 DEF DeployStep, Apply, DeployGoesOn, DeployCalls
  <2> QED  BY <1>6, <2>1, DeployFresh
<1>7. CASE Tick
  <2>1. teardowns' = <<>>  BY <1>7 DEF Tick
  <2> QED  BY <1>7, <2>1, TickFresh
<1>8. DOMAIN teardowns = {}  OBVIOUS
<1> QED
  BY <1>1, <1>2, <1>3, <1>4, <1>5, <1>6, <1>7, <1>8, FirstTeardown, Failures DEF Next

LEMMA WatchKeeps ==
  ASSUME IInv, OneDeploy, WatchInv, [Next]_vars
  PROVE  WatchInv'
<1> SUFFICES ASSUME Survived'
             PROVE  RunOK' /\ (IF teardowns' = <<>> THEN Fresh' ELSE Doomed')
  BY DEF WatchInv
<1>1. RunOK /\ (IF teardowns = <<>> THEN Fresh ELSE Doomed)
  BY Failures DEF WatchInv
<1>2. RunOK'  BY <1>1, RunKeeps
<1>3. CASE teardowns = <<>>  BY <1>1, <1>2, <1>3, FreshKeeps
<1>4. CASE teardowns # <<>>  BY <1>1, <1>2, <1>4, DoomedKeeps
<1> QED  BY <1>3, <1>4

LEMMA WatchStarts ==
  ASSUME Init
  PROVE  WatchInv
<1>1. /\ deploys = <<>> /\ teardowns = <<>> /\ session = NoSession /\ schedule = Never
      /\ platform = FALSE
      /\ \A l \in Lambdas : /\ inv[l].pc = "idle" /\ inv[l].op = "none" /\ inv[l].s = NoSession
                            /\ inv[l].at = Never
  BY DEF Init, Idle
<1>2. Phase = "queued" /\ Len(deploys) = 0  BY <1>1 DEF Phase
<1>3. RunOK  BY <1>1, <1>2 DEF RunOK
<1>4. \A l \in Lambdas : ExecOK(l)
  BY <1>1, NoSessionIs DEF ExecOK, At, Is, Called
<1>5. SessionOK
  BY <1>1, <1>2, NoSessionIs DEF SessionOK, Born, Exists, Unregistered
<1>6. Guard /\ Ensured /\ Torn /\ Alone
  BY <1>1, <1>2, NoSessionIs DEF Guard, Due, Ensured, Torn, Alone, InFlight, Is, At
<1> QED  BY <1>1, <1>3, <1>4, <1>5, <1>6 DEF WatchInv, Fresh

LEMMA WatchWatches ==
  ASSUME IInv, WatchInv
  PROVE  Watched
<1> SUFFICES ASSUME platform, Idling, Survived
             PROVE  schedule # Never
  BY DEF Watched, Survived
<1>1. RunOK /\ (IF teardowns = <<>> THEN Fresh ELSE Doomed)  BY DEF WatchInv
<1>2. deploys \in Seq(Runs)  BY DEF IInv, Workflows
<1>3. deploys # <<>>  BY <1>1 DEF RunOK, Phase
<1>4. 1 \in DOMAIN deploys /\ deploys[1] \in Runs  BY <1>2, <1>3
<1>5. Phase = "success"
  BY <1>1, <1>3, <1>4 DEF Idling, RunOK, Phase, Runs, Phases
<1>6. teardowns = <<>>
  <2>1. ~Doomed  BY DEF Doomed, Idling, Active, Running
  <2> QED  BY <1>1, <2>1
<1>7. \A l \in Lambdas : ~Pending(l)
  BY DEF Idling, Quiet, Pending, Tearing, At
<1> QED  BY <1>1, <1>5, <1>6, <1>7 DEF Fresh, Guard, Due

(* A platform that is up while nothing runs has a scheduled teardown, for any
   number of overlapping executions, calls and hours: with one deploy, whose run
   ends before its session is stale, and its last call undisturbed. *)
THEOREM WatchTheorem == OneDeploy /\ Spec => []Watched
<1>1. OneDeploy /\ Init => IInv /\ WatchInv  BY InitIInv, WatchStarts
<1>2. OneDeploy /\ IInv /\ WatchInv /\ [Next]_vars => IInv' /\ WatchInv'
  BY NextIInv, WatchKeeps
<1>3. IInv /\ WatchInv => Watched  BY WatchWatches
<1> SUFFICES ASSUME OneDeploy  PROVE Spec => []Watched
  OBVIOUS
<1>4. Init => IInv /\ WatchInv  BY <1>1
<1>5. IInv /\ WatchInv /\ [Next]_vars => IInv' /\ WatchInv'  BY <1>2
<1> QED  BY <1>3, <1>4, <1>5, PTL DEF Spec
=============================================================================
