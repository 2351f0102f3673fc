---------------------------- MODULE VisitorAccounts ----------------------------
(***************************************************************************)
(* How visitors get their accounts (services/auth-deploy/handler.py and    *)
(* its provisioning modules).                                              *)
(*                                                                         *)
(* A registration outlives the platform: provision-visitor stores a record *)
(* with a new password, mails the password, and then tries to create the   *)
(* accounts in the services that happen to be up.  The accounts themselves *)
(* are as short-lived as the services; the workflow that starts the        *)
(* platform ends with reprovision-visitors, which reads all records and    *)
(* creates every account again.  Registrations and that action run as      *)
(* concurrent Lambda executions; each call they make is a step.            *)
(***************************************************************************)
EXTENDS Naturals, Sequences, FiniteSets

CONSTANTS
    Visitors,    \* e-mail addresses
    Lambdas,     \* executions of provision-visitor that may overlap
    Order,       \* the services, in the order of _provision_visitor
    SelfOverlap, \* may two registrations of one visitor overlap?
    WhileReprovision, \* may a known visitor register again during reprovision-visitors?
    MaxCalls,    \* bound: registrations
    MaxStarts,   \* bound: starts and resets of the platform
    MaxFaults    \* bound: failed calls to the store, the key service, the mailer and
                 \* services that run

Services  == {Order[i] : i \in DOMAIN Order}
Passwords == 1 .. MaxCalls
None      == 0

ASSUME VisitorsAssumption ==
    /\ None \notin Visitors
    /\ Order \in Seq(Services) /\ Order # <<>>
    /\ Services \subseteq {"grafana", "airflow", "minio", "simulation_api"}
    /\ SelfOverlap \in BOOLEAN /\ WhileReprovision \in BOOLEAN
    /\ MaxCalls \in Nat /\ MaxStarts \in Nat /\ MaxFaults \in Nat

VARIABLES
    record,   \* the visitors table
    mailed,   \* the password of the last mail the visitor got
    answer,   \* how the visitor's last registration ended
    account,  \* the password of the visitor's account in a service
    swallowed, \* history: calls for a visitor that came to nothing in a running
               \* service, none having come through since
    up,       \* the services that answer
    phase,    \* where the workflow that starts the platform is
    inv,      \* the executions of provision-visitor
    rep,      \* the execution of reprovision-visitors
    issued,   \* passwords generated so far
    starts,   \* starts of the platform so far
    faults    \* failures so far

platformVars == <<account, swallowed, up, phase, starts>>
visitorVars  == <<record, mailed, answer>>
vars == <<visitorVars, platformVars, inv, rep, issued, faults>>

-----------------------------------------------------------------------------
(* Data *)

(* hash is what a login is checked against; sealed, the encrypted password,
   is None when the key service failed. *)
Records  == [hash : Passwords, sealed : Passwords \cup {None}, services : SUBSET Services]
NoRecord == [hash |-> None, sealed |-> None, services |-> {}]

Idle  == [pc |-> "idle", who |-> None, pw |-> None, next |-> 1, got |-> {}]
Unread == MaxCalls + 1
RepIdle == [pc |-> "idle", read |-> [v \in Visitors |-> Unread], who |-> None,
            next |-> 1, failed |-> FALSE, healthy |-> FALSE]

Positions == 1 .. Len(Order) + 1

TypeOK ==
    /\ record \in [Visitors -> Records \cup {NoRecord}]
    /\ mailed \in [Visitors -> Passwords \cup {None}]
    /\ answer \in [Visitors -> {"none", "ok", "failed"}]
    /\ account \in [Services -> [Visitors -> Passwords \cup {None}]]
    /\ swallowed \subseteq Visitors \X Services
    /\ up \subseteq Services
    /\ phase \in {"off", "starting", "on"}
    /\ inv \in [Lambdas -> [pc : {"idle", "store", "mail", "provision", "list"},
                            who : Visitors \cup {None}, pw : Passwords \cup {None},
                            next : Positions, got : SUBSET Services]]
    /\ rep \in [pc : {"idle", "scan", "provision", "done"},
                read : [Visitors -> Passwords \cup {None, Unread}],
                who : Visitors \cup {None}, next : Positions, failed : BOOLEAN,
                healthy : BOOLEAN]
    /\ issued \in 0 .. MaxCalls /\ starts \in 0 .. MaxStarts /\ faults \in 0 .. MaxFaults

Init ==
    /\ record = [v \in Visitors |-> NoRecord]
    /\ mailed = [v \in Visitors |-> None]
    /\ answer = [v \in Visitors |-> "none"]
    /\ account = [s \in Services |-> [v \in Visitors |-> None]]
    /\ swallowed = {}
    /\ up = {} /\ phase = "off" /\ starts = 0
    /\ inv = [l \in Lambdas |-> Idle]
    /\ rep = RepIdle
    /\ issued = 0 /\ faults = 0

Known(v)          == record[v] # NoRecord
InFlight(v)       == \E l \in Lambdas : inv[l].pc # "idle" /\ inv[l].who = v
Reprovisioning    == rep.pc \in {"scan", "provision"}

(* The workflow had waited for all services with success, and the answer was
   200. *)
ReprovisionedAll == phase = "on" /\ rep.pc = "done" /\ ~rep.failed /\ rep.healthy

(* visitor-login, on the landing page *)
LoginAccepted(v, pw) == Known(v) /\ record[v].hash = pw

-----------------------------------------------------------------------------
(* provision-visitor *)

(* The form, or any client, registers a visitor; the password is generated. *)
Register(l, v) ==
    /\ inv[l].pc = "idle" /\ issued < MaxCalls
    /\ SelfOverlap \/ ~InFlight(v)
    /\ WhileReprovision \/ ~(Known(v) /\ Reprovisioning)
    /\ issued' = issued + 1
    /\ inv' = [inv EXCEPT ![l] = [Idle EXCEPT !.pc = "store", !.who = v, !.pw = issued + 1]]
    /\ UNCHANGED <<visitorVars, platformVars, rep, faults>>

End(l, outcome) ==
    /\ inv' = [inv EXCEPT ![l] = Idle]
    /\ answer' = [answer EXCEPT ![inv[l].who] = outcome]

Fault == faults < MaxFaults /\ faults' = faults + 1

(* The bug: without the key service the record lacks its hash. *)
Bug_Store(l) ==
    /\ inv[l].pc = "store"
    /\ \/ /\ record' = [record EXCEPT ![inv[l].who] =
                [hash |-> inv[l].pw, sealed |-> inv[l].pw, services |-> {}]]
          /\ faults' = faults
       \/ /\ record' = [record EXCEPT ![inv[l].who] =
                [hash |-> None, sealed |-> inv[l].pw, services |-> {}]]
          /\ Fault
    /\ inv' = [inv EXCEPT ![l].pc = "mail"]
    /\ UNCHANGED <<mailed, answer, platformVars, rep, issued>>

(* put_item replaces the whole record; without the key service the record
   can be checked but not read back. *)
Store(l) ==
    /\ inv[l].pc = "store"
    /\ \/ /\ record' = [record EXCEPT ![inv[l].who] =
                [hash |-> inv[l].pw, sealed |-> inv[l].pw, services |-> {}]]
          /\ faults' = faults
       \/ /\ record' = [record EXCEPT ![inv[l].who] =
                [hash |-> inv[l].pw, sealed |-> None, services |-> {}]]
          /\ Fault
    /\ inv' = [inv EXCEPT ![l].pc = "mail"]
    /\ UNCHANGED <<mailed, answer, platformVars, rep, issued>>

(* The bug: the mail goes out even if nothing was stored. *)
Bug_StoreFails(l) ==
    /\ inv[l].pc = "store"
    /\ Fault
    /\ inv' = [inv EXCEPT ![l].pc = "mail"]
    /\ UNCHANGED <<visitorVars, platformVars, rep, issued>>

(* Fatal: the visitor is told to try again. *)
StoreFails(l) ==
    /\ inv[l].pc = "store"
    /\ Fault
    /\ End(l, "failed")
    /\ UNCHANGED <<record, mailed, platformVars, rep, issued>>

Mail(l) ==
    /\ inv[l].pc = "mail"
    /\ mailed' = [mailed EXCEPT ![inv[l].who] = inv[l].pw]
    /\ inv' = [inv EXCEPT ![l].pc = "provision"]
    /\ UNCHANGED <<record, answer, platformVars, rep, issued, faults>>

MailFails(l) ==
    /\ inv[l].pc = "mail"
    /\ Fault
    /\ End(l, "failed")
    /\ UNCHANGED <<record, mailed, platformVars, rep, issued>>

(* What the account's password is after a service was asked to create it with
   password pw, when it was old before (None: there was no account).  Grafana
   refuses to create a user it has (412); the user is looked up, and only its
   role is set again. *)
GrafanaAccount(old, pw) == IF old = None THEN pw ELSE old

(* The bug: an existing user is not patched. *)
Bug_AirflowAccount(old, pw) == IF old = None THEN pw ELSE old

(* Airflow refuses too (409); the user is patched, with the password. *)
AirflowAccount(old, pw) == pw

(* MinIO and the simulation API replace what they have. *)
MinioAccount(old, pw)         == pw
SimulationApiAccount(old, pw) == pw

CreateOrUpdate(s, v, pw) ==
    LET old == account[s][v]
    IN  account' = [account EXCEPT ![s][v] =
                        CASE s = "grafana"        -> GrafanaAccount(old, pw)
                          [] s = "airflow"        -> AirflowAccount(old, pw)
                          [] s = "minio"          -> MinioAccount(old, pw)
                          [] s = "simulation_api" -> SimulationApiAccount(old, pw)]

(* A call to a service.  It fails if the service is not up, but also at a running
   service (an error status, a timeout), with or without its effect: either way the
   exception is caught, and the next service is called. *)
Call(s, v, pw, ok) ==
    \/ /\ ok /\ s \in up
       /\ CreateOrUpdate(s, v, pw)
       /\ swallowed' = swallowed \ {<<v, s>>}
       /\ faults' = faults
    \/ /\ ~ok /\ s \in up /\ Fault
       /\ \/ /\ CreateOrUpdate(s, v, pw)
             /\ swallowed' = swallowed \ {<<v, s>>}
          \/ /\ account' = account
             /\ swallowed' = swallowed \cup {<<v, s>>}
    \/ /\ ~ok /\ s \notin up
       /\ UNCHANGED <<account, swallowed, faults>>

(* One service after the other; what failed is not in the answer, which is 200. *)
Provision(l) ==
    LET s == Order[inv[l].next] IN
    /\ inv[l].pc = "provision" /\ inv[l].next <= Len(Order)
    /\ \E ok \in BOOLEAN :
        /\ Call(s, inv[l].who, inv[l].pw, ok)
        /\ inv' = [inv EXCEPT ![l].next = @ + 1,
                              ![l].got = IF ok THEN @ \cup {s} ELSE @]
    /\ UNCHANGED <<visitorVars, up, phase, starts, rep, issued>>

(* update_item sets the list of services of whatever record is there; its
   failure is not fatal.  (The minimum of session time that the handler then
   ensures is an action of DeploySession.) *)
ListServices(l) ==
    /\ inv[l].pc = "provision" /\ inv[l].next > Len(Order)
    /\ \/ /\ inv[l].got # {}
          /\ record' = [record EXCEPT ![inv[l].who].services = inv[l].got]
          /\ faults' = faults
       \/ /\ inv[l].got # {} => Fault
          /\ inv[l].got = {} => faults' = faults
          /\ record' = record
    /\ End(l, "ok")
    /\ UNCHANGED <<mailed, platformVars, rep, issued>>

-----------------------------------------------------------------------------
(* The platform *)

(* A start finds nothing of the previous run; a reset empties it. *)
StartPlatform ==
    /\ phase \in {"off", "on"} /\ starts < MaxStarts
    /\ phase' = "starting" /\ starts' = starts + 1
    /\ up' = {}
    /\ account' = [s \in Services |-> [v \in Visitors |-> None]] /\ swallowed' = {}
    /\ rep' = RepIdle
    /\ UNCHANGED <<visitorVars, inv, issued, faults>>

Teardown ==
    /\ phase = "on"
    /\ phase' = "off" /\ up' = {}
    /\ account' = [s \in Services |-> [v \in Visitors |-> None]] /\ swallowed' = {}
    /\ rep' = RepIdle
    /\ UNCHANGED <<visitorVars, inv, issued, starts, faults>>

(* A service may come up later than the workflow waits for it. *)
ServiceUp(s) ==
    /\ phase # "off" /\ s \notin up
    /\ up' = up \cup {s}
    /\ UNCHANGED <<visitorVars, account, swallowed, phase, starts, inv, rep, issued, faults>>

-----------------------------------------------------------------------------
(* reprovision-visitors, called by the workflow after its waits, whose failure
   is but a warning *)

BeginReprovision ==
    /\ phase = "starting" /\ rep.pc = "idle"
    /\ WhileReprovision \/ \A l \in Lambdas : ~(inv[l].pc = "store" /\ Known(inv[l].who))
    /\ rep' = [rep EXCEPT !.pc = "scan", !.healthy = (up = Services)]
    /\ UNCHANGED <<visitorVars, platformVars, inv, issued, faults>>

(* The bug: a record without an encrypted password is skipped in silence. *)
Bug_ScanPage(v) ==
    /\ rep.pc = "scan" /\ rep.read[v] = Unread
    /\ rep' = [rep EXCEPT !.read[v] = record[v].sealed]
    /\ UNCHANGED <<visitorVars, platformVars, inv, issued, faults>>

(* The scan reads the table page by page: here one visitor a page. *)
ScanPage(v) ==
    /\ rep.pc = "scan" /\ rep.read[v] = Unread
    /\ rep' = [rep EXCEPT !.read[v] = record[v].sealed,
                          !.failed = @ \/ (Known(v) /\ record[v].sealed = None)]
    /\ UNCHANGED <<visitorVars, platformVars, inv, issued, faults>>

ToProvision == {v \in Visitors : rep.read[v] \in Passwords}

(* The visitors that were read, one after the other. *)
NextVisitor ==
    /\ \/ rep.pc = "scan" /\ \A v \in Visitors : rep.read[v] # Unread
       \/ rep.pc = "provision" /\ rep.who = None
    /\ \/ \E v \in ToProvision : rep' = [rep EXCEPT !.pc = "provision", !.who = v]
       \/ ToProvision = {} /\ rep' = [rep EXCEPT !.pc = "done"]
    /\ phase' = IF ToProvision = {} THEN "on" ELSE phase
    /\ UNCHANGED <<visitorVars, account, swallowed, up, starts, inv, issued, faults>>

Reprovision ==
    LET v == rep.who
        s == Order[rep.next]
        last == rep.next = Len(Order)
    IN  /\ rep.pc = "provision" /\ v # None
        /\ \E ok \in BOOLEAN :
            /\ Call(s, v, rep.read[v], ok)
            /\ rep' = [rep EXCEPT
                          !.failed = @ \/ ~ok,
                          !.next = IF last THEN 1 ELSE @ + 1,
                          !.who  = IF last THEN None ELSE v,
                          !.read[v] = IF last THEN None ELSE @]
        /\ UNCHANGED <<visitorVars, up, phase, starts, inv, issued>>

-----------------------------------------------------------------------------
Next ==
    \/ \E l \in Lambdas :
        \/ \E v \in Visitors : Register(l, v)
        \/ Store(l) \/ StoreFails(l) \/ Mail(l) \/ MailFails(l)
        \/ Provision(l) \/ ListServices(l)
    \/ StartPlatform \/ Teardown \/ \E s \in Services : ServiceUp(s)
    \/ BeginReprovision \/ (\E v \in Visitors : ScanPage(v)) \/ NextVisitor \/ Reprovision

Spec == Init /\ [][Next]_vars

-----------------------------------------------------------------------------
(* Properties *)

(* The credentials of the last mail log the visitor in on the landing page,
   unless a later registration ended with an error (handle_provision_visitor:
   the record is stored, fatally, before the mail). *)
MailedLogsIn ==
    \A v \in Visitors :
        answer[v] = "ok" /\ ~InFlight(v) => LoginAccepted(v, mailed[v])

(* Once the workflow has reprovisioned without failures, nobody who has
   registered lacks an account: a registration is either in the scan or
   finds the services up.  Excepted is a service whose call failed although it
   ran, which the handler keeps to itself. *)
NobodyForgotten ==
    ReprovisionedAll =>
        \A v \in Visitors : answer[v] = "ok" /\ ~InFlight(v) =>
            \A s \in Services : account[s][v] # None \/ <<v, s>> \in swallowed

(* ... and, but for Grafana, the account has the password that the visitor was
   mailed last: what create-or-update promises. *)
AccountsMatch ==
    ReprovisionedAll =>
        \A v \in Visitors : answer[v] = "ok" /\ ~InFlight(v) =>
            \A s \in Services \ {"grafana"} :
                account[s][v] = mailed[v] \/ <<v, s>> \in swallowed

(* The welcome mail: "Use them to log in to any of these services". *)
MailedEverywhere ==
    ReprovisionedAll =>
        \A v \in Visitors : answer[v] = "ok" /\ ~InFlight(v) =>
            \A s \in Services : account[s][v] = mailed[v] \/ <<v, s>> \in swallowed
=============================================================================
