---------------------------- MODULE DeploySession ----------------------------
(***************************************************************************)
(* The session of the deployed platform, kept by the auth-deploy Lambda    *)
(* (services/auth-deploy/handler.py): one JSON document in the parameter   *)
(* store, one one-time schedule that calls auto-teardown, and the GitHub   *)
(* workflows that create and destroy the platform and call the Lambda      *)
(* back.                                                                   *)
(*                                                                         *)
(* Lambda executions are concurrent and nothing locks the document: every  *)
(* handler reads it, may ask GitHub, and writes the whole of it back.  An  *)
(* execution is an element of Lambdas; each of its calls to AWS or GitHub  *)
(* is one step.  An execution ends within seconds, so the clock, whose     *)
(* unit is a quarter of an hour, moves only between executions.            *)
(***************************************************************************)
EXTENDS Integers, Sequences, FiniteSets

CONSTANTS
    Lambdas,          \* executions that may overlap
    Step,             \* SESSION_STEP_MINUTES
    Extensions,       \* what extend may be asked for: Step, or the minutes of the call
    MaxRemaining,     \* MAX_REMAINING_SECONDS
    Reschedule,       \* RESCHEDULE_DELAY_SECONDS, rounded up
    TeardownTimeout,  \* TEARDOWN_TIMEOUT_SECONDS
    DeployingTimeout, \* DEPLOYING_TIMEOUT_SECONDS
    VisitorMin,       \* VISITOR_MIN_REMAINING_SECONDS
    RunTime,          \* timeout-minutes of the workflows
    UserOps,          \* what the clients of the function URL call
    Apart,            \* pairs of operations whose executions do not overlap in the instance
    MaxCalls,         \* bound: the clients' calls and the kinds of failure, together
    LastCall,         \* bound: the time of the last call
    MaxTime,          \* bound: the clock
    MaxRuns           \* bound: deploy runs

ClientOps == {"deploy", "session_status", "teardown_status", "deploy_status",
              "extend", "shrink", "visitor"}

ASSUME SessionAssumption ==
    /\ Step \in Nat /\ Reschedule \in Nat /\ VisitorMin \in Nat /\ MaxRemaining \in Nat
    /\ Step <= MaxRemaining /\ Reschedule <= MaxRemaining /\ VisitorMin <= MaxRemaining
    /\ Extensions \subseteq Nat /\ Step \in Extensions
    /\ TeardownTimeout \in Nat /\ DeployingTimeout \in Nat /\ RunTime \in Nat
    /\ MaxCalls \in Nat /\ MaxRuns \in Nat
    /\ UserOps \subseteq ClientOps

VARIABLES
    now,       \* the clock
    session,   \* the document in the parameter store
    schedule,  \* when EventBridge calls auto-teardown, or Never
    deploys,   \* the runs of deploy-platform.yml, oldest first
    teardowns, \* the runs of teardown-platform.yml
    platform,  \* TRUE while infrastructure exists
    inv,       \* the Lambda executions
    calls,     \* what clients, or failures, may still do
    failed     \* the kinds of call or workflow step that have failed

vars == <<now, session, schedule, deploys, teardowns, platform, inv, calls, failed>>

-----------------------------------------------------------------------------
(* Data *)

Never == 0
Times == Nat

(* deployed is Never iff there is no document, deadline and tearingAt while
   the document has none; the cached run ids are kept as "known" flags. *)
Sessions ==
    {s \in [deployed : Times, deadline : Times, completed : BOOLEAN, tearing : BOOLEAN,
            tearingAt : Times, deployRun : BOOLEAN, teardownRun : BOOLEAN] :
        s.tearing <=> s.tearingAt # Never}

NoSession ==
    [deployed |-> Never, deadline |-> Never, completed |-> FALSE, tearing |-> FALSE,
     tearingAt |-> Never, deployRun |-> FALSE, teardownRun |-> FALSE]

Exists(s)    == s.deployed # Never
Remaining(s) == s.deadline - now

Running == {"running", "up", "registered", "converged", "ensured", "started", "completing"}
Active  == Running \cup {"queued"}
Phases  == Active \cup {"success", "failure"}
Runs    == [created : Times, phase : Phases]

WorkflowOps == {"set_deploy_run", "ensure", "complete_deploy",
                "set_teardown_run", "complete_teardown"}
Ops         == ClientOps \cup WorkflowOps \cup {"auto_teardown", "none"}
Pcs         == {"idle", "read", "github", "reread", "put", "sched", "peek", "resched",
                "unset", "unsched", "dispatch", "fallback"}
Kinds       == {"read", "github", "put", "sched", "unset", "unsched", "dispatch", "workflow"}

User    == <<"user", 0>>
Callers == {User} \cup ({"deploy", "teardown"} \X Nat)

(* op is the action and pc its next call; s is what it will write and at the
   time it will schedule. *)
Invocations == [op : Ops, pc : Pcs, s : Sessions, at : Times, by : Callers]

Idle  == [op |-> "none", pc |-> "idle", s |-> NoSession, at |-> Never, by |-> User]
Quiet == \A l \in Lambdas : inv[l].pc = "idle"

TypeOK ==
    /\ now \in Times /\ schedule \in Times
    /\ session \in Sessions
    /\ deploys \in Seq(Runs) /\ teardowns \in Seq(Runs)
    /\ platform \in BOOLEAN
    /\ inv \in [Lambdas -> Invocations]
    /\ calls \in Int
    /\ failed \subseteq Kinds

Init ==
    /\ now = 1
    /\ session = NoSession
    /\ schedule = Never
    /\ deploys = <<>> /\ teardowns = <<>>
    /\ platform = FALSE
    /\ inv = [l \in Lambdas |-> Idle]
    /\ calls = MaxCalls
    /\ failed = {}

-----------------------------------------------------------------------------
(* The life of an execution *)

Start(l, op, pc, by) ==
    /\ inv[l].pc = "idle"
    /\ \A k \in Lambdas : <<op, inv[k].op>> \notin Apart
    /\ inv' = [inv EXCEPT ![l] = [Idle EXCEPT !.op = op, !.pc = pc, !.by = by]]

Goto(l, pc)            == inv' = [inv EXCEPT ![l].pc = pc]
GotoWith(l, pc, s, at) == inv' = [inv EXCEPT ![l].pc = pc, ![l].s = s, ![l].at = at]
End(l)                 == inv' = [inv EXCEPT ![l] = Idle]

At(l, pc)  == inv[l].pc = pc
Is(l, op)  == inv[l].op = op
Fail(kind) == failed' = failed \cup {kind} /\ Cardinality(failed') <= calls

(* A client calls one of the actions (the key it sends is valid). *)
ClientCall(l, op) ==
    /\ calls > Cardinality(failed) /\ now <= LastCall
    /\ calls' = calls - 1
    /\ Start(l, op, "read", User)
    /\ UNCHANGED <<now, session, schedule, deploys, teardowns, platform, failed>>

(* gh workflow run: a deploy that no session announces. *)
CliDeploy ==
    /\ calls > Cardinality(failed) /\ now <= LastCall
    /\ Len(deploys) < MaxRuns
    /\ calls' = calls - 1
    /\ deploys' = Append(deploys, [created |-> now, phase |-> "queued"])
    /\ UNCHANGED <<now, session, schedule, teardowns, platform, inv, failed>>

(* EventBridge calls auto-teardown at the deadline; the schedule deletes
   itself (ActionAfterCompletion). *)
Fire(l) ==
    /\ schedule # Never /\ schedule <= now
    /\ schedule' = Never
    /\ Start(l, "auto_teardown", "github", User)
    /\ UNCHANGED <<now, session, deploys, teardowns, platform, calls, failed>>

-----------------------------------------------------------------------------
(* get_session, and what each action decides on what it returns *)

ReadDeploy(l) ==
    /\ Is(l, "deploy")
    /\ IF Exists(session) THEN End(l) ELSE Goto(l, "dispatch")

(* A teardown older than the timeout is taken for finished; otherwise GitHub
   is asked, about the teardown or about a deploy that has not completed. *)
ReadStatus(l) ==
    /\ Is(l, "session_status")
    /\ \/ /\ session.tearing /\ now - session.tearingAt > TeardownTimeout
          /\ GotoWith(l, "unset", session, Never)
       \/ /\ session.tearing /\ now - session.tearingAt <= TeardownTimeout
          /\ GotoWith(l, "github", session, Never)
       \/ /\ Exists(session) /\ ~session.tearing /\ ~session.completed
          /\ GotoWith(l, "github", session, Never)
       \/ /\ Exists(session) => ~session.tearing /\ session.completed
          /\ End(l)

ReadTeardownStatus(l) ==
    /\ Is(l, "teardown_status")
    /\ IF session.tearing /\ ~session.teardownRun
       THEN GotoWith(l, "github", session, Never) ELSE End(l)

ReadDeployStatus(l) ==
    /\ Is(l, "deploy_status")
    /\ IF Exists(session) /\ ~session.completed /\ ~session.deployRun
       THEN GotoWith(l, "github", session, Never) ELSE End(l)

ReadEnsure(l) ==
    /\ Is(l, "ensure")
    /\ IF Exists(session)
       THEN GotoWith(l, "reread", NoSession, now + Step)
       ELSE GotoWith(l, "put", [NoSession EXCEPT !.deployed = now, !.deadline = now + Step],
                     now + Step)

(* The bug: no limit on the time that remains. *)
Bug_ReadExtend(l) ==
    /\ Is(l, "extend")
    /\ IF session.deadline # Never
       THEN GotoWith(l, "reread", NoSession, session.deadline + Step) ELSE End(l)

ReadExtend(l) ==
    /\ Is(l, "extend")
    /\ \E step \in Extensions :
         IF session.deadline # Never /\ Remaining(session) + step <= MaxRemaining
         THEN GotoWith(l, "reread", NoSession, session.deadline + step) ELSE End(l)

ReadShrink(l) ==
    /\ Is(l, "shrink")
    /\ IF session.deadline # Never /\ Remaining(session) >= Step
       THEN GotoWith(l, "reread", NoSession, session.deadline - Step) ELSE End(l)

(* A visitor is guaranteed a minimum of time. *)
ReadVisitor(l) ==
    /\ Is(l, "visitor")
    /\ IF /\ session.deadline # Never /\ ~session.tearing
          /\ Remaining(session) \in 1 .. VisitorMin - 1
       THEN GotoWith(l, "reread", NoSession, now + VisitorMin) ELSE End(l)

(* set-deploy-run-id, set-teardown-run-id, complete-deploy-workflow *)
ReadCallback(l) ==
    /\ inv[l].op \in {"set_deploy_run", "set_teardown_run", "complete_deploy"}
    /\ IF Exists(session)
       THEN GotoWith(l, "put",
                     [session EXCEPT !.deployRun   = @ \/ Is(l, "set_deploy_run"),
                                     !.teardownRun = @ \/ Is(l, "set_teardown_run"),
                                     !.completed   = @ \/ Is(l, "complete_deploy")], Never)
       ELSE End(l)

ReadCompleteTeardown(l) ==
    /\ Is(l, "complete_teardown")
    /\ Goto(l, IF session.tearing THEN "unset" ELSE "fallback")

ReadAuto(l) ==
    /\ Is(l, "auto_teardown")
    /\ IF Exists(session)
       THEN GotoWith(l, "put", [session EXCEPT !.tearing = TRUE, !.tearingAt = now], Never)
       ELSE Goto(l, "unsched")

Read(l) ==
    /\ At(l, "read")
    /\ \/ ReadDeploy(l) \/ ReadStatus(l) \/ ReadTeardownStatus(l) \/ ReadDeployStatus(l)
       \/ ReadEnsure(l) \/ ReadExtend(l) \/ ReadShrink(l) \/ ReadVisitor(l)
       \/ ReadCallback(l) \/ ReadCompleteTeardown(l) \/ ReadAuto(l)
    /\ UNCHANGED <<now, session, schedule, deploys, teardowns, platform, calls, failed>>

(* update_session_deadline reads the document again, handle_auto_teardown
   looks whether there is one to update. *)
Reread(l) ==
    /\ \/ At(l, "reread") /\ Exists(session)
          /\ GotoWith(l, "put", [session EXCEPT !.deadline = inv[l].at], inv[l].at)
       \/ At(l, "peek") /\ Exists(session) /\ Goto(l, "reread")
       \/ inv[l].pc \in {"reread", "peek"} /\ ~Exists(session) /\ End(l)
    /\ UNCHANGED <<now, session, schedule, deploys, teardowns, platform, calls, failed>>

(* The workflow's fallback follows any answer of complete-teardown but 200. *)
GiveUp(l) == IF Is(l, "complete_teardown") THEN Goto(l, "fallback") ELSE End(l)

(* auto-teardown goes on without the flag when it cannot read or set it. *)
ReadFails(l) ==
    /\ inv[l].pc \in {"read", "reread", "peek"}
    /\ Fail("read")
    /\ IF At(l, "read") /\ Is(l, "auto_teardown") THEN Goto(l, "unsched") ELSE GiveUp(l)
    /\ UNCHANGED <<now, session, schedule, deploys, teardowns, platform, calls>>

-----------------------------------------------------------------------------
(* GitHub's list of runs *)

(* The runs of the session, latest first: a failed one ends the search, an
   active one proves that the deploy still runs, a successful one is passed. *)
Recent(s)   == {i \in DOMAIN deploys : deploys[i].created >= s.deployed}
Decisive(s) == {i \in Recent(s) : deploys[i].phase # "success"}
Verdict(s)  ==
    IF Decisive(s) = {} THEN "unknown"
    ELSE LET i == CHOOSE i \in Decisive(s) : \A j \in Decisive(s) : j <= i
         IN  IF deploys[i].phase = "failure" THEN "failed" ELSE "active"

StatusOfDeploy(l, verdict) ==
    /\ Is(l, "session_status") /\ ~inv[l].s.tearing
    /\ IF \/ verdict = "failed"
          \/ verdict = "unknown" /\ now - inv[l].s.deployed > DeployingTimeout
       THEN Goto(l, "unset") ELSE End(l)

StatusOfTeardown(l) ==
    /\ Is(l, "session_status") /\ inv[l].s.tearing
    /\ IF teardowns # <<>> /\ teardowns[Len(teardowns)].phase \notin Active
       THEN Goto(l, "unset") ELSE End(l)

FindTeardownRun(l) ==
    /\ Is(l, "teardown_status")
    /\ IF \E i \in DOMAIN teardowns : teardowns[i].created >= inv[l].s.tearingAt
       THEN inv' = [inv EXCEPT ![l].pc = "put", ![l].s.teardownRun = TRUE] ELSE End(l)

FindDeployRun(l) ==
    /\ Is(l, "deploy_status")
    /\ IF Recent(inv[l].s) # {}
       THEN inv' = [inv EXCEPT ![l].pc = "put", ![l].s.deployRun = TRUE] ELSE End(l)

(* The bug: a deploy in progress is left to finish, the call is not repeated. *)
Bug_GiveWay(l) ==
    /\ Is(l, "auto_teardown")
    /\ IF deploys # <<>> /\ deploys[Len(deploys)].phase \in Running
       THEN End(l) ELSE Goto(l, "read")

(* auto-teardown gives way to a deploy in progress. *)
GiveWay(l) ==
    /\ Is(l, "auto_teardown")
    /\ IF deploys # <<>> /\ deploys[Len(deploys)].phase \in Running
       THEN GotoWith(l, "resched", NoSession, now + Reschedule) ELSE Goto(l, "read")

Github(l) ==
    /\ At(l, "github")
    /\ \/ StatusOfDeploy(l, Verdict(inv[l].s)) \/ StatusOfTeardown(l)
       \/ FindTeardownRun(l) \/ FindDeployRun(l) \/ GiveWay(l)
    /\ UNCHANGED <<now, session, schedule, deploys, teardowns, platform, calls, failed>>

(* GitHub does not answer: a warning, and on without what it would have said. *)
GithubFails(l) ==
    /\ At(l, "github")
    /\ Fail("github")
    /\ \/ StatusOfDeploy(l, "unknown")
       \/ Is(l, "auto_teardown") /\ Goto(l, "read")
       \/ /\ Is(l, "session_status") => inv[l].s.tearing
          /\ ~Is(l, "auto_teardown")
          /\ End(l)
    /\ UNCHANGED <<now, session, schedule, deploys, teardowns, platform, calls>>

NewRun == [created |-> now, phase |-> "queued"]

DispatchDeploy(l) ==
    /\ At(l, "dispatch") /\ Is(l, "deploy") /\ Len(deploys) < MaxRuns
    /\ deploys' = Append(deploys, NewRun)
    /\ GotoWith(l, "put", [NoSession EXCEPT !.deployed = now], Never)
    /\ UNCHANGED <<now, session, schedule, teardowns, platform, calls, failed>>

(* The concurrency group keeps one run waiting: an older one is cancelled. *)
Superseded ==
    [i \in DOMAIN teardowns |->
        IF /\ teardowns[i].phase = "queued"
           /\ \E j \in DOMAIN teardowns : teardowns[j].phase \in Running
        THEN [teardowns[i] EXCEPT !.phase = "failure"] ELSE teardowns[i]]

DispatchTeardown(l) ==
    /\ At(l, "dispatch") /\ Is(l, "auto_teardown")
    /\ teardowns' = Append(Superseded, NewRun)
    /\ End(l)
    /\ UNCHANGED <<now, session, schedule, deploys, platform, calls, failed>>

(* GitHub refuses: always beyond the bound, otherwise as a failure. *)
DispatchRefused(l) ==
    /\ At(l, "dispatch") /\ Is(l, "deploy") /\ Len(deploys) >= MaxRuns
    /\ End(l)
    /\ UNCHANGED <<now, session, schedule, deploys, teardowns, platform, calls, failed>>

DispatchFails(l) ==
    /\ At(l, "dispatch")
    /\ Fail("dispatch")
    /\ End(l)
    /\ UNCHANGED <<now, session, schedule, deploys, teardowns, platform, calls>>

-----------------------------------------------------------------------------
(* Writing *)

(* The bug: the new deadline is stored but not scheduled. *)
Bug_Put(l) ==
    /\ At(l, "put")
    /\ session' = inv[l].s
    /\ IF Is(l, "auto_teardown") THEN Goto(l, "unsched") ELSE End(l)
    /\ UNCHANGED <<now, schedule, deploys, teardowns, platform, calls, failed>>

(* put_parameter(Overwrite=True): the whole document, as this execution knows
   it.  An action that keeps a deadline schedules it next. *)
Put(l) ==
    /\ At(l, "put")
    /\ session' = inv[l].s
    /\ \/ inv[l].at # Never /\ Goto(l, "sched")
       \/ inv[l].at = Never /\ Is(l, "auto_teardown") /\ Goto(l, "unsched")
       \/ inv[l].at = Never /\ ~Is(l, "auto_teardown") /\ End(l)
    /\ UNCHANGED <<now, schedule, deploys, teardowns, platform, calls, failed>>

PutFails(l) ==
    /\ At(l, "put")
    /\ Fail("put")
    /\ IF inv[l].at = Never /\ Is(l, "auto_teardown") THEN Goto(l, "unsched") ELSE End(l)
    /\ UNCHANGED <<now, session, schedule, deploys, teardowns, platform, calls>>

(* _upsert_schedule; auto-teardown that gives way updates the session after. *)
Upsert(l) ==
    /\ schedule' = inv[l].at
    /\ \/ At(l, "sched") /\ End(l)
       \/ At(l, "resched") /\ Goto(l, "peek")
    /\ UNCHANGED <<now, session, deploys, teardowns, platform, calls, failed>>

UpsertFails(l) ==
    /\ inv[l].pc \in {"sched", "resched"}
    /\ Fail("sched")
    /\ End(l)
    /\ UNCHANGED <<now, session, schedule, deploys, teardowns, platform, calls>>

(* delete_session, in its two halves *)
Unset(l) ==
    /\ At(l, "unset")
    /\ session' = NoSession
    /\ Goto(l, "unsched")
    /\ UNCHANGED <<now, schedule, deploys, teardowns, platform, calls, failed>>

UnsetFails(l) ==
    /\ At(l, "unset")
    /\ Fail("unset")
    /\ GiveUp(l)
    /\ UNCHANGED <<now, session, schedule, deploys, teardowns, platform, calls>>

Unsched(l) ==
    /\ At(l, "unsched")
    /\ schedule' = Never
    /\ IF Is(l, "auto_teardown") THEN Goto(l, "dispatch") ELSE End(l)
    /\ UNCHANGED <<now, session, deploys, teardowns, platform, calls, failed>>

UnschedFails(l) ==
    /\ At(l, "unsched")
    /\ Fail("unsched")
    /\ IF Is(l, "auto_teardown") THEN Goto(l, "dispatch") ELSE GiveUp(l)
    /\ UNCHANGED <<now, session, schedule, deploys, teardowns, platform, calls>>

(* The teardown workflow deletes the parameter itself. *)
Fallback(l) ==
    /\ At(l, "fallback")
    /\ session' = NoSession
    /\ End(l)
    /\ UNCHANGED <<now, schedule, deploys, teardowns, platform, calls, failed>>

-----------------------------------------------------------------------------
(* The workflows *)

(* A step of a run, once the Lambda has answered its last call. *)
MoveDeploy(i, from, to) ==
    /\ deploys[i].phase = from
    /\ \A l \in Lambdas : inv[l].by # <<"deploy", i>>
    /\ deploys' = [deploys EXCEPT ![i].phase = to]

MoveTeardown(i, from, to) ==
    /\ teardowns[i].phase = from
    /\ \A l \in Lambdas : inv[l].by # <<"teardown", i>>
    /\ teardowns' = [teardowns EXCEPT ![i].phase = to]

(* terraform apply takes some ten minutes *)
Apply(i) ==
    /\ deploys[i].created < now
    /\ MoveDeploy(i, "running", "up")
    /\ platform' = TRUE
    /\ UNCHANGED <<now, session, schedule, teardowns, inv, calls, failed>>

(* Between two calls of the Lambda the cluster converges, or the simulation is
   started: minutes, which no execution lasts. *)
DeployGoesOn(i) ==
    /\ \/ MoveDeploy(i, "queued", "running")
       \/ Quiet /\ MoveDeploy(i, "registered", "converged")
       \/ Quiet /\ MoveDeploy(i, "ensured", "started")
       \/ MoveDeploy(i, "completing", "success")
    /\ UNCHANGED <<now, session, schedule, teardowns, platform, inv, calls, failed>>

(* The calls of the deploy workflow, in their order. *)
DeployCalls(i, l) ==
    /\ \/ /\ MoveDeploy(i, "up", "registered")
          /\ Start(l, "set_deploy_run", "read", <<"deploy", i>>)
       \/ /\ MoveDeploy(i, "converged", "ensured")
          /\ Start(l, "ensure", "read", <<"deploy", i>>)
       \/ /\ MoveDeploy(i, "started", "completing")
          /\ Start(l, "complete_deploy", "read", <<"deploy", i>>)
    /\ UNCHANGED <<now, session, schedule, teardowns, platform, calls, failed>>

(* A step fails: nothing more is called, what was applied stays. *)
DeployFails(i) ==
    /\ deploys[i].created < now
    /\ \E p \in Running \ {"completing"} : MoveDeploy(i, p, "failure")
    /\ platform' \in {platform, TRUE}
    /\ Fail("workflow")
    /\ UNCHANGED <<now, session, schedule, teardowns, inv, calls>>

Destroy(i) ==
    /\ Quiet
    /\ MoveTeardown(i, "running", "up")
    /\ platform' = FALSE
    /\ UNCHANGED <<now, session, schedule, deploys, inv, calls, failed>>

DestroyFails(i) ==
    /\ Quiet
    /\ MoveTeardown(i, "running", "up")
    /\ Fail("workflow")
    /\ UNCHANGED <<now, session, schedule, deploys, platform, inv, calls>>

(* One teardown at a time (concurrency group); it registers its run id first,
   and cleans the session up whether the destroy worked or not (always()). *)
TeardownCalls(i, l) ==
    /\ \/ /\ \A j \in DOMAIN teardowns : teardowns[j].phase \notin Running
          /\ MoveTeardown(i, "queued", "running")
          /\ Start(l, "set_teardown_run", "read", <<"teardown", i>>)
       \/ /\ MoveTeardown(i, "up", "completing")
          /\ Start(l, "complete_teardown", "read", <<"teardown", i>>)
    /\ UNCHANGED <<now, session, schedule, deploys, platform, calls, failed>>

TeardownEnds(i) ==
    /\ MoveTeardown(i, "completing", "success")
    /\ UNCHANGED <<now, session, schedule, deploys, platform, inv, calls, failed>>

OnTime(run) == run.phase \in Active => now < run.created + RunTime

Tick ==
    /\ now < MaxTime
    /\ Quiet
    /\ schedule = Never \/ schedule > now
    /\ \A i \in DOMAIN deploys : OnTime(deploys[i])
    /\ \A i \in DOMAIN teardowns : OnTime(teardowns[i])
    /\ now' = now + 1
    /\ UNCHANGED <<session, schedule, deploys, teardowns, platform, inv, calls, failed>>

-----------------------------------------------------------------------------
LambdaStep(l) ==
    \/ Read(l) \/ Reread(l) \/ Github(l) \/ DispatchDeploy(l) \/ DispatchRefused(l)
    \/ DispatchTeardown(l)
    \/ Put(l) \/ Upsert(l) \/ Unset(l) \/ Unsched(l) \/ Fallback(l)

LambdaFails(l) ==
    \/ ReadFails(l) \/ GithubFails(l) \/ DispatchFails(l)
    \/ PutFails(l) \/ UpsertFails(l) \/ UnsetFails(l) \/ UnschedFails(l)

DeployStep(i)   == Apply(i) \/ DeployGoesOn(i) \/ \E l \in Lambdas : DeployCalls(i, l)
TeardownStep(i) == Destroy(i) \/ TeardownEnds(i) \/ \E l \in Lambdas : TeardownCalls(i, l)

Next ==
    \/ \E l \in Lambdas : LambdaStep(l) \/ LambdaFails(l) \/ Fire(l)
    \/ \E l \in Lambdas, op \in UserOps : ClientCall(l, op)
    \/ CliDeploy
    \/ \E i \in DOMAIN deploys : DeployStep(i) \/ DeployFails(i)
    \/ \E i \in DOMAIN teardowns : TeardownStep(i) \/ DestroyFails(i)
    \/ Tick

(* Every call returns or times out, GitHub runs what it has queued, EventBridge
   fires, time passes. *)
Fairness ==
    /\ \A l \in Lambdas : WF_vars(LambdaStep(l))
    /\ WF_vars(\E l \in Lambdas : Fire(l))
    /\ WF_vars(\E i \in DOMAIN deploys : DeployStep(i))
    /\ WF_vars(\E i \in DOMAIN teardowns : TeardownStep(i))
    /\ WF_vars(Tick)

Spec == Init /\ [][Next]_vars /\ Fairness

-----------------------------------------------------------------------------
(* Properties *)

Idling ==
    /\ Quiet
    /\ \A i \in DOMAIN deploys : deploys[i].phase \notin Active
    /\ \A i \in DOMAIN teardowns : teardowns[i].phase \notin Active

(* The failures the handlers are written to survive: GitHub's list of runs is
   unavailable, the session or the schedule cannot be deleted. *)
Tolerated == {"github", "unset", "unsched"}

(* Neither the deadline shown to the visitors nor the moment of the automatic
   teardown is ever further away than the maximum the extend action enforces,
   whichever executions overlap and whatever fails. *)
RemainingBounded ==
    /\ session.deadline <= now + MaxRemaining
    /\ schedule <= now + MaxRemaining

(* A platform that is up while no execution and no workflow runs has a
   scheduled teardown: nothing else would ever take it down. *)
Watched == platform /\ Idling /\ failed \subseteq Tolerated => schedule # Never

(* In the end the platform is down and nothing is scheduled, whatever the
   clients did and whichever tolerated call failed. *)
EndsDown ==
    <>[](failed \subseteq Tolerated => ~platform /\ schedule = Never)
=============================================================================
