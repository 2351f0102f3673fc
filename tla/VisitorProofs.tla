----------------------------- MODULE VisitorProofs -----------------------------
(***************************************************************************)
(* Theorems about VisitorAccounts, for any visitors, executions, services  *)
(* and numbers of registrations, starts and failures: the mailed password  *)
(* logs in, and a start that reports success has forgotten nobody.         *)
(*                                                                         *)
(* The argument is that of a debt: as soon as a registration has stored a  *)
(* password, every service either has it or is owed it, by the             *)
(* registration itself or by reprovision-visitors, which has read it,      *)
(* unless a call for it was swallowed while the service ran.               *)
(***************************************************************************)
EXTENDS VisitorAccounts, TLAPS

Index == DOMAIN Order

-----------------------------------------------------------------------------
(* Registrations and their records *)

(* One registration of a visitor at a time. *)
OneAtATime ==
    \A k, l \in Lambdas :
        inv[k].pc # "idle" /\ inv[l].pc # "idle" /\ inv[k].who = inv[l].who => k = l

(* What an execution has stored and mailed is still what is stored and mailed. *)
StoredIsCurrent ==
    \A l \in Lambdas :
        /\ inv[l].pc \in {"mail", "provision"} => record[inv[l].who].hash = inv[l].pw
        /\ inv[l].pc = "provision" => mailed[inv[l].who] = inv[l].pw

(* A record can be read back as what it was made of, or not at all. *)
RecordsAgree == \A v \in Visitors : Known(v) => record[v].sealed \in {None, record[v].hash}

(* MailedLogsIn also while a visitor registers again, up to the store. *)
Unchanged(v) == \A l \in Lambdas : inv[l].who = v => inv[l].pc \notin {"mail", "provision"}
OkIsCurrent ==
    \A v \in Visitors : answer[v] = "ok" /\ Unchanged(v) => LoginAccepted(v, mailed[v])

RecordInv == OneAtATime /\ StoredIsCurrent /\ RecordsAgree /\ OkIsCurrent

-----------------------------------------------------------------------------
(* Accounts and debts *)

(* The reprovisioning under way found all services up. *)
HealthyIsUp == rep.healthy => up = Services

(* Where reprovision-visitors is. *)
RepInStep ==
    /\ rep.pc \in {"idle", "scan"} => rep.who = None
    /\ rep.who = None => rep.next = 1
    /\ rep.who # None => rep.read[rep.who] \in Passwords /\ rep.next \in Index
    /\ rep.pc \in {"provision", "done"} => \A v \in Visitors : rep.read[v] # Unread
    /\ rep.pc = "done" => ToProvision = {} /\ rep.who = None
    /\ rep.pc = "idle" => ~rep.healthy /\ \A v \in Visitors : rep.read[v] = Unread
    /\ rep.healthy => phase = (IF rep.pc = "done" THEN "on" ELSE "starting")

(* What reprovision-visitors has read is still the record, and nobody who is
   known registers meanwhile. *)
ReadIsCurrent ==
    /\ \A v \in Visitors : rep.read[v] \in Passwords => Known(v) /\ rep.read[v] = record[v].hash
    /\ \A l \in Lambdas :
         Reprovisioning /\ inv[l].pc = "store" => ~Known(inv[l].who)

Has(v, i) ==
    /\ account[Order[i]][v] # None
    /\ Order[i] # "grafana" => account[Order[i]][v] = record[v].hash
Swallowed(v, i) == <<v, Order[i]>> \in swallowed
OwedByScan(v, i) ==
    \/ rep.read[v] = Unread
    \/ rep.read[v] \in Passwords /\ (rep.who = v => rep.next <= i)
OwedByCall(v, i) ==
    \E l \in Lambdas :
        /\ inv[l].who = v
        /\ \/ inv[l].pc = "mail"
           \/ inv[l].pc = "provision" /\ inv[l].next <= i

(* What a registration has stored and not failed with is due to everybody. *)
Due(v)        == Known(v) /\ (answer[v] = "ok" \/ ~Unchanged(v))
Covered(v, i) == Has(v, i) \/ Swallowed(v, i) \/ OwedByScan(v, i) \/ OwedByCall(v, i)

NothingLost ==
    rep.healthy /\ ~rep.failed =>
        \A v \in Visitors, i \in Index : Due(v) => Covered(v, i)

AccountInv == HealthyIsUp /\ ReadIsCurrent /\ NothingLost

-----------------------------------------------------------------------------
(* Types *)

Calls == [pc : {"idle", "store", "mail", "provision", "list"},
          who : Visitors \cup {None}, pw : Passwords \cup {None},
          next : Positions, got : SUBSET Services]
Reps  == [pc : {"idle", "scan", "provision", "done"},
          read : [Visitors -> Passwords \cup {None, Unread}],
          who : Visitors \cup {None}, next : Positions, failed : BOOLEAN,
          healthy : BOOLEAN]

LEMMA Sizes ==
    /\ Len(Order) \in Nat \ {0} /\ Index = 1 .. Len(Order) /\ Index # {}
    /\ \A i \in Index : Order[i] \in Services /\ i \in Positions /\ i + 1 \in Positions
    /\ 1 \in Positions
    /\ None \notin Passwords /\ Unread \notin Passwords /\ Unread # None
<1>1. Order \in Seq(Services) /\ Order # <<>>
  BY VisitorsAssumption DEF VisitorsAssumption
<1>2. Len(Order) \in Nat /\ Index = 1 .. Len(Order) /\ Len(Order) # 0
  BY <1>1 DEF Index
<1>3. MaxCalls \in Nat
  BY VisitorsAssumption DEF VisitorsAssumption
<1>4. QED
  BY <1>1, <1>2, <1>3 DEF Index, Services, Positions, Passwords, None, Unread

LEMMA IdleTypes == Idle \in Calls /\ RepIdle \in Reps
<1>1. 1 \in Positions
  BY Sizes
<1>2. QED
  BY <1>1 DEF Idle, RepIdle, Calls, Reps

LEMMA RecordTypes ==
    ASSUME NEW pw \in Passwords, NEW sealed \in Passwords \cup {None}
    PROVE  [hash |-> pw, sealed |-> sealed, services |-> {}] \in Records
  BY DEF Records

(* The types without the records of the executions, which are treated apart. *)
LEMMA TypesAre ==
    TypeOK <=>
        /\ record \in [Visitors -> Records \cup {NoRecord}]
        /\ mailed \in [Visitors -> Passwords \cup {None}]
        /\ answer \in [Visitors -> {"none", "ok", "failed"}]
        /\ account \in [Services -> [Visitors -> Passwords \cup {None}]]
        /\ swallowed \subseteq Visitors \X Services
        /\ up \subseteq Services
        /\ phase \in {"off", "starting", "on"}
        /\ inv \in [Lambdas -> Calls]
        /\ rep \in Reps
        /\ issued \in 0 .. MaxCalls /\ starts \in 0 .. MaxStarts /\ faults \in 0 .. MaxFaults
  BY DEF TypeOK, Calls, Reps

LEMMA TypesNext ==
    ASSUME record' \in [Visitors -> Records \cup {NoRecord}],
           mailed' \in [Visitors -> Passwords \cup {None}],
           answer' \in [Visitors -> {"none", "ok", "failed"}],
           account' \in [Services -> [Visitors -> Passwords \cup {None}]],
           swallowed' \subseteq Visitors \X Services,
           up' \subseteq Services,
           phase' \in {"off", "starting", "on"},
           inv' \in [Lambdas -> Calls],
           rep' \in Reps,
           issued' \in 0 .. MaxCalls, starts' \in 0 .. MaxStarts, faults' \in 0 .. MaxFaults
    PROVE  TypeOK'
  BY DEF TypeOK, Calls, Reps

LEMMA FaultTypes == ASSUME TypeOK, Fault PROVE faults' \in 0 .. MaxFaults
  BY VisitorsAssumption DEF VisitorsAssumption, TypeOK, Fault

LEMMA AccountTypes ==
    ASSUME TypeOK, NEW s \in Services, NEW v \in Visitors, NEW pw \in Passwords,
           CreateOrUpdate(s, v, pw)
    PROVE  account' \in [Services -> [Visitors -> Passwords \cup {None}]]
<1>1. account[s][v] \in Passwords \cup {None}
  BY DEF TypeOK
<1>2. PICK p : account' = [account EXCEPT ![s][v] = p] /\ p \in Passwords \cup {None}
  BY <1>1, VisitorsAssumption
     DEF CreateOrUpdate, GrafanaAccount, AirflowAccount, MinioAccount, SimulationApiAccount,
         VisitorsAssumption
<1>3. QED
  BY <1>2 DEF TypeOK

(* Whatever comes of a call for a visitor, only this visitor's account in this
   service and what was swallowed of the visitor's calls to it can change. *)
LEMMA CallTypes ==
    ASSUME TypeOK, NEW s \in Services, NEW v \in Visitors, NEW pw \in Passwords,
           NEW ok \in BOOLEAN, Call(s, v, pw, ok)
    PROVE  /\ account' \in [Services -> [Visitors -> Passwords \cup {None}]]
           /\ swallowed' \subseteq Visitors \X Services
           /\ faults' \in 0 .. MaxFaults
<1>1. CreateOrUpdate(s, v, pw) \/ account' = account
  BY DEF Call
<1>2. account' \in [Services -> [Visitors -> Passwords \cup {None}]]
  BY <1>1, AccountTypes DEF TypeOK
<1>3. swallowed' \in {swallowed, swallowed \ {<<v, s>>}, swallowed \cup {<<v, s>>}}
  BY DEF Call
<1>4. swallowed' \subseteq Visitors \X Services
  BY <1>3 DEF TypeOK
<1>5. Fault \/ faults' = faults
  BY DEF Call
<1>6. QED
  BY <1>2, <1>4, <1>5, FaultTypes DEF TypeOK

(* An execution that does something does it for a visitor, who has a record
   once it is stored. *)
Busy ==
    \A l \in Lambdas : inv[l].pc # "idle" =>
        /\ inv[l].who \in Visitors /\ inv[l].pw \in Passwords
        /\ inv[l].pc # "store" => record[inv[l].who] \in Records
        /\ inv[l].pc \in {"store", "mail"} => inv[l].next = 1

TypeInv == TypeOK /\ Busy /\ RepInStep

(* What a step makes of execution l; the others stay as they are. *)
Moves(l, pc, who, pw, next) ==
    /\ inv' \in [Lambdas -> Calls]
    /\ inv'[l].pc = pc /\ inv'[l].who = who /\ inv'[l].pw = pw /\ inv'[l].next = next
    /\ \A k \in Lambdas : k # l => inv'[k] = inv[k]

LEMMA Replaced ==
    ASSUME inv \in [Lambdas -> Calls], NEW l \in Lambdas, NEW j \in Calls,
           inv' = [inv EXCEPT ![l] = j]
    PROVE  Moves(l, j.pc, j.who, j.pw, j.next)
  BY DEF Moves

LEMMA RegisterMoves ==
    ASSUME TypeInv, NEW l \in Lambdas, NEW v \in Visitors, Register(l, v)
    PROVE  issued' \in 0 .. MaxCalls /\ issued' \in Passwords /\ Moves(l, "store", v, issued', 1)
<1> DEFINE j == [Idle EXCEPT !.pc = "store", !.who = v, !.pw = issued + 1]
<1>1. issued' = issued + 1 /\ issued' \in Passwords /\ issued' \in 0 .. MaxCalls
  BY VisitorsAssumption DEF VisitorsAssumption, Register, Passwords, TypeInv, TypeOK
<1>2. j \in Calls /\ j.pc = "store" /\ j.who = v /\ j.pw = issued' /\ j.next = 1
  BY <1>1, IdleTypes DEF Calls, Idle
<1>3. inv' = [inv EXCEPT ![l] = j]
  BY DEF Register
<1>4. Moves(l, j.pc, j.who, j.pw, j.next)
  BY <1>2, <1>3, Replaced, TypesAre DEF TypeInv
<1>5. QED
  BY <1>1, <1>2, <1>4

LEMMA StageMoves ==
    ASSUME TypeInv, NEW l \in Lambdas, NEW pc \in {"mail", "provision"},
           inv' = [inv EXCEPT ![l].pc = pc]
    PROVE  Moves(l, pc, inv[l].who, inv[l].pw, inv[l].next)
<1> DEFINE j == [inv[l] EXCEPT !.pc = pc]
<1>1. inv \in [Lambdas -> Calls]
  BY TypesAre DEF TypeInv
<1>2. j \in Calls /\ j.pc = pc /\ j.who = inv[l].who /\ j.pw = inv[l].pw /\ j.next = inv[l].next
  BY <1>1 DEF Calls
<1>3. Moves(l, j.pc, j.who, j.pw, j.next)
  BY <1>1, <1>2, Replaced
<1>4. QED
  BY <1>2, <1>3

LEMMA ProvisionMoves ==
    ASSUME TypeInv, NEW l \in Lambdas, Provision(l)
    PROVE  /\ inv[l].next \in Index
           /\ Moves(l, "provision", inv[l].who, inv[l].pw, inv[l].next + 1)
           /\ \E ok \in BOOLEAN : Call(Order[inv[l].next], inv[l].who, inv[l].pw, ok)
<1> DEFINE s == Order[inv[l].next]
           j(got) == [inv[l] EXCEPT !.next = @ + 1, !.got = got]
<1>1. inv \in [Lambdas -> Calls]
  BY TypesAre DEF TypeInv
<1>2. inv[l].next \in Index
  BY <1>1, Sizes DEF Provision, Calls, Positions
<1>3. s \in Services /\ inv[l].next + 1 \in Positions
  BY <1>2, Sizes
<1>4. PICK ok \in BOOLEAN :
          /\ Call(s, inv[l].who, inv[l].pw, ok)
          /\ inv' = [inv EXCEPT ![l].next = @ + 1, ![l].got = IF ok THEN @ \cup {s} ELSE @]
  BY DEF Provision
<1>5. PICK got \in SUBSET Services : inv' = [inv EXCEPT ![l] = j(got)]
  <2>1. (IF ok THEN inv[l].got \cup {s} ELSE inv[l].got) \in SUBSET Services
    BY <1>1, <1>3 DEF Calls
  <2>2. inv' = [inv EXCEPT ![l] = j(IF ok THEN inv[l].got \cup {s} ELSE inv[l].got)]
    BY <1>1, <1>4
  <2>3. QED
    BY <2>1, <2>2
<1>6. /\ j(got) \in Calls /\ j(got).pc = "provision" /\ j(got).who = inv[l].who
      /\ j(got).pw = inv[l].pw /\ j(got).next = inv[l].next + 1
  BY <1>1, <1>3 DEF Calls, Provision
<1>7. Moves(l, j(got).pc, j(got).who, j(got).pw, j(got).next)
  BY <1>1, <1>5, <1>6, Replaced
<1>8. QED
  BY <1>2, <1>4, <1>6, <1>7

LEMMA EndMoves ==
    ASSUME TypeInv, NEW l \in Lambdas, inv[l].who \in Visitors,
           NEW outcome \in {"none", "ok", "failed"}, End(l, outcome)
    PROVE  /\ Moves(l, "idle", None, None, 1)
           /\ answer' \in [Visitors -> {"none", "ok", "failed"}]
           /\ answer'[inv[l].who] = outcome
           /\ \A v \in Visitors : v # inv[l].who => answer'[v] = answer[v]
<1>1. Moves(l, Idle.pc, Idle.who, Idle.pw, Idle.next)
  BY IdleTypes, Replaced, TypesAre DEF End, TypeInv
<1>2. QED
  BY <1>1 DEF End, Idle, TypeInv, TypeOK

LEMMA MovesBusy ==
    ASSUME TypeInv, NEW l \in Lambdas, NEW pc, NEW who, NEW pw, NEW next,
           Moves(l, pc, who, pw, next),
           \A v \in Visitors : record[v] \in Records => record'[v] \in Records,
           pc # "idle" => /\ who \in Visitors /\ pw \in Passwords
                          /\ pc # "store" => record'[who] \in Records
                          /\ pc \in {"store", "mail"} => next = 1
    PROVE  Busy'
  BY DEF Moves, Busy, TypeInv

LEMMA RegistrationTypes ==
    ASSUME TypeInv, NEW l \in Lambdas,
           \/ \E v \in Visitors : Register(l, v)
           \/ Store(l) \/ StoreFails(l) \/ Mail(l) \/ MailFails(l)
           \/ Provision(l) \/ ListServices(l)
    PROVE  TypeInv'
<1> USE DEF platformVars, visitorVars
<1>r. UNCHANGED <<rep, phase>>
  BY DEF Register, Store, StoreFails, Mail, MailFails, Provision, ListServices
<1>s. RepInStep'
  BY <1>r DEF TypeInv, RepInStep, ToProvision
<1>0. /\ TypeOK /\ inv \in [Lambdas -> Calls] /\ inv[l] \in Calls
      /\ inv[l].pc # "idle" => /\ inv[l].who \in Visitors /\ inv[l].pw \in Passwords
                               /\ inv[l].pc # "store" => record[inv[l].who] \in Records
                               /\ inv[l].pc \in {"store", "mail"} => inv[l].next = 1
  BY TypesAre DEF Busy, TypeInv
<1>1. ASSUME NEW v \in Visitors, Register(l, v) PROVE TypeInv'
  <2>1. issued' \in 0 .. MaxCalls /\ issued' \in Passwords /\ Moves(l, "store", v, issued', 1)
    BY <1>1, RegisterMoves
  <2>2. Busy'
    BY <1>1, <2>1, MovesBusy DEF Register
  <2>3. QED
    BY <1>0, <1>1, <2>1, <2>2, TypesAre, <1>s, TypesNext DEF Register, Moves, TypeInv
<1>2. CASE Store(l)
  <2>1. Moves(l, "mail", inv[l].who, inv[l].pw, inv[l].next)
    BY <1>2, StageMoves DEF Store
  <2>2. /\ record' \in [Visitors -> Records \cup {NoRecord}]
        /\ record'[inv[l].who] \in Records
        /\ \A v \in Visitors : record[v] \in Records => record'[v] \in Records
    BY <1>0, <1>2, RecordTypes, TypesAre DEF Store
  <2>3. faults' \in 0 .. MaxFaults
    BY <1>0, <1>2, FaultTypes DEF Store, TypeOK
  <2>4. Busy'
    BY <1>0, <1>2, <2>1, <2>2, MovesBusy DEF Store
  <2>5. QED
    BY <1>0, <1>2, <2>1, <2>2, <2>3, <2>4, TypesAre, <1>s, TypesNext DEF Store, Moves, TypeInv
<1>3. CASE StoreFails(l) \/ MailFails(l)
  <2>1. End(l, "failed") /\ Fault /\ inv[l].who \in Visitors
    BY <1>0, <1>3 DEF StoreFails, MailFails
  <2>2. Moves(l, "idle", None, None, 1) /\ answer' \in [Visitors -> {"none", "ok", "failed"}]
    BY <2>1, EndMoves
  <2>3. Busy'
    BY <1>3, <2>2, MovesBusy DEF StoreFails, MailFails
  <2>4. QED
    BY <1>0, <1>3, <2>1, <2>2, <2>3, FaultTypes, TypesAre, <1>s, TypesNext
       DEF StoreFails, MailFails, Moves, TypeInv
<1>4. CASE Mail(l)
  <2>1. Moves(l, "provision", inv[l].who, inv[l].pw, inv[l].next)
    BY <1>4, StageMoves DEF Mail
  <2>2. Busy'
    BY <1>0, <1>4, <2>1, MovesBusy DEF Mail
  <2>3. QED
    BY <1>0, <1>4, <2>1, <2>2, TypesAre, <1>s, TypesNext DEF Mail, Moves, TypeInv
<1>5. CASE Provision(l)
  <2>1. /\ inv[l].next \in Index
        /\ Moves(l, "provision", inv[l].who, inv[l].pw, inv[l].next + 1)
    BY <1>5, ProvisionMoves
  <2>2. /\ account' \in [Services -> [Visitors -> Passwords \cup {None}]]
        /\ swallowed' \subseteq Visitors \X Services
        /\ faults' \in 0 .. MaxFaults
    <3>1. Order[inv[l].next] \in Services /\ inv[l].who \in Visitors /\ inv[l].pw \in Passwords
      BY <1>0, <1>5, <2>1, Sizes DEF Provision
    <3>2. QED
      BY <1>0, <1>5, <3>1, ProvisionMoves, CallTypes
  <2>3. Busy'
    BY <1>0, <1>5, <2>1, MovesBusy DEF Provision
  <2>4. QED
    <3>1. UNCHANGED <<record, mailed, answer, up, phase, starts, rep, issued>>
      BY <1>5 DEF Provision
    <3>2. QED
      BY <1>0, <2>1, <2>2, <2>3, <3>1, TypesAre, <1>s, TypesNext DEF Moves, TypeInv
<1>6. CASE ListServices(l)
  <2>1. End(l, "ok") /\ inv[l].who \in Visitors /\ record[inv[l].who] \in Records
    BY <1>0, <1>6 DEF ListServices
  <2>2. Moves(l, "idle", None, None, 1) /\ answer' \in [Visitors -> {"none", "ok", "failed"}]
    BY <2>1, EndMoves
  <2>3. /\ record' \in [Visitors -> Records \cup {NoRecord}]
        /\ \A v \in Visitors : record[v] \in Records => record'[v] \in Records
    <3>1. [record[inv[l].who] EXCEPT !.services = inv[l].got] \in Records
      BY <1>0, <2>1 DEF Records, Calls
    <3>2. \/ record' = record
          \/ record' = [record EXCEPT ![inv[l].who] =
                           [record[inv[l].who] EXCEPT !.services = inv[l].got]]
      BY <1>0, <1>6 DEF ListServices
    <3>3. QED
      BY <1>0, <2>1, <3>1, <3>2, TypesAre
  <2>4. faults' \in 0 .. MaxFaults
    BY <1>0, <1>6, FaultTypes DEF ListServices, TypeOK
  <2>5. Busy'
    BY <2>2, <2>3, MovesBusy
  <2>6. QED
    BY <1>0, <1>6, <2>2, <2>3, <2>4, <2>5, TypesAre, <1>s, TypesNext DEF ListServices, Moves, TypeInv
<1>7. QED
  BY <1>1, <1>2, <1>3, <1>4, <1>5, <1>6

(* The platform and reprovision-visitors leave the registrations alone. *)
RegistrationsKept == UNCHANGED <<visitorVars, inv, issued>>

LEMMA KeptTypes ==
    ASSUME TypeInv, RegistrationsKept, faults' \in 0 .. MaxFaults,
           account' \in [Services -> [Visitors -> Passwords \cup {None}]],
           swallowed' \subseteq Visitors \X Services,
           up' \subseteq Services, phase' \in {"off", "starting", "on"},
           rep' \in Reps, starts' \in 0 .. MaxStarts, RepInStep'
    PROVE  TypeInv'
<1>1. TypeOK'
  BY TypesAre, TypesNext DEF RegistrationsKept, TypeInv, visitorVars
<1>2. Busy'
  BY DEF TypeInv, Busy, RegistrationsKept, visitorVars
<1>3. QED
  BY <1>1, <1>2 DEF TypeInv

LEMMA RunTypes ==
    ASSUME TypeInv, StartPlatform \/ Teardown
    PROVE  TypeInv' /\ rep' = RepIdle
<1>1. account' \in [Services -> [Visitors -> Passwords \cup {None}]]
  BY DEF StartPlatform, Teardown
<1>2. rep' = RepIdle /\ RepIdle \in Reps /\ RepInStep'
  BY IdleTypes DEF StartPlatform, Teardown, RepInStep, RepIdle
<1>3. starts' \in 0 .. MaxStarts /\ faults' \in 0 .. MaxFaults /\ swallowed' = {}
  BY VisitorsAssumption DEF StartPlatform, Teardown, TypeInv, TypeOK, VisitorsAssumption
<1>4. QED
  BY <1>1, <1>2, <1>3, KeptTypes DEF StartPlatform, Teardown, RegistrationsKept, visitorVars

LEMMA ServiceUpTypes ==
    ASSUME TypeInv, NEW s \in Services, ServiceUp(s)
    PROVE  TypeInv'
<1>1. RepInStep'
  BY DEF ServiceUp, TypeInv, RepInStep, ToProvision
<1>2. QED
  BY <1>1, TypesAre, KeptTypes DEF ServiceUp, TypeInv, RegistrationsKept, visitorVars

LEMMA BeginTypes ==
    ASSUME TypeInv, BeginReprovision
    PROVE  /\ TypeInv'
           /\ rep'.healthy = (up = Services) /\ UNCHANGED rep.read
<1>1. rep \in Reps
  BY TypesAre DEF TypeInv
<1>2. /\ rep' \in Reps /\ rep'.pc = "scan" /\ rep'.healthy = (up = Services)
      /\ rep'.read = rep.read /\ rep'.who = rep.who /\ rep'.next = rep.next
  BY <1>1 DEF BeginReprovision, Reps
<1>3. RepInStep'
  BY <1>2 DEF BeginReprovision, TypeInv, RepInStep, platformVars
<1>4. QED
  BY <1>2, <1>3, TypesAre, KeptTypes
     DEF BeginReprovision, TypeInv, RegistrationsKept, visitorVars, platformVars

LEMMA ScanTypes ==
    ASSUME TypeInv, NEW v \in Visitors, ScanPage(v)
    PROVE  /\ TypeInv'
           /\ rep'.pc = rep.pc /\ rep'.who = rep.who /\ rep'.next = rep.next
           /\ rep'.healthy = rep.healthy
           /\ rep'.failed = (rep.failed \/ (Known(v) /\ record[v].sealed = None))
           /\ rep'.read[v] = record[v].sealed
           /\ \A u \in Visitors : u # v => rep'.read[u] = rep.read[u]
<1>1. rep \in Reps /\ record[v].sealed \in Passwords \cup {None}
  BY TypesAre DEF TypeInv, Records, NoRecord
<1>2. /\ rep' \in Reps /\ rep'.pc = rep.pc /\ rep'.who = rep.who /\ rep'.next = rep.next
      /\ rep'.healthy = rep.healthy
      /\ rep'.failed = (rep.failed \/ (Known(v) /\ record[v].sealed = None))
      /\ rep'.read = [rep.read EXCEPT ![v] = record[v].sealed]
  BY <1>1 DEF ScanPage, Reps
<1>3. /\ rep'.read[v] = record[v].sealed
      /\ \A u \in Visitors : u # v => rep'.read[u] = rep.read[u]
  BY <1>1, <1>2 DEF Reps
<1>4. RepInStep'
  BY <1>2, <1>3 DEF ScanPage, TypeInv, RepInStep, platformVars
<1>5. QED
  BY <1>2, <1>3, <1>4, TypesAre, KeptTypes
     DEF ScanPage, TypeInv, RegistrationsKept, visitorVars, platformVars

LEMMA NextVisitorTypes ==
    ASSUME TypeInv, NextVisitor
    PROVE  /\ TypeInv'
           /\ rep'.read = rep.read /\ rep.who = None /\ rep'.next = 1
           /\ rep'.healthy = rep.healthy /\ rep'.failed = rep.failed
           /\ \A v \in Visitors : rep.read[v] # Unread
<1>1. /\ rep \in Reps /\ rep.who = None /\ rep.next = 1
      /\ \A v \in Visitors : rep.read[v] # Unread
  BY TypesAre DEF TypeInv, RepInStep, NextVisitor
<1>2. /\ rep' \in Reps /\ rep'.read = rep.read /\ rep'.next = rep.next
      /\ rep'.healthy = rep.healthy /\ rep'.failed = rep.failed
      /\ \/ rep'.pc = "provision" /\ rep'.who \in ToProvision
         \/ rep'.pc = "done" /\ rep'.who = None /\ ToProvision = {}
  BY <1>1 DEF NextVisitor, Reps, ToProvision
<1>3. ToProvision' = ToProvision
  BY <1>2 DEF ToProvision
<1>4. /\ phase' = IF ToProvision = {} THEN "on" ELSE phase
      /\ rep.healthy => phase = "starting"
  BY DEF NextVisitor, TypeInv, RepInStep
<1>5. RepInStep'
  BY <1>1, <1>2, <1>3, <1>4, Sizes, VisitorsAssumption
     DEF RepInStep, ToProvision, VisitorsAssumption
<1>6. QED
  BY <1>1, <1>2, <1>4, <1>5, TypesAre, KeptTypes
     DEF NextVisitor, TypeInv, RegistrationsKept, visitorVars, TypeOK

LEMMA ReprovisionTypes ==
    ASSUME TypeInv, Reprovision
    PROVE  /\ TypeInv'
           /\ rep.who \in Visitors /\ rep.read[rep.who] \in Passwords /\ rep.next \in Index
           /\ rep'.pc = rep.pc /\ rep'.healthy = rep.healthy
           /\ \E ok \in BOOLEAN :
                /\ Call(Order[rep.next], rep.who, rep.read[rep.who], ok)
                /\ rep'.failed = (rep.failed \/ ~ok)
           /\ IF rep.next = Len(Order)
              THEN rep'.who = None /\ rep'.next = 1 /\ rep'.read[rep.who] = None
              ELSE /\ rep'.who = rep.who /\ rep'.next = rep.next + 1
                   /\ rep'.read[rep.who] = rep.read[rep.who]
           /\ \A u \in Visitors : u # rep.who => rep'.read[u] = rep.read[u]
<1>1. /\ rep \in Reps /\ rep.pc = "provision" /\ rep.who \in Visitors
      /\ rep.read[rep.who] \in Passwords /\ rep.next \in Index
  BY TypesAre DEF TypeInv, RepInStep, Reprovision, Reps
<1> DEFINE v == rep.who
           last == rep.next = Len(Order)
<1>2. PICK ok \in BOOLEAN :
          /\ Call(Order[rep.next], v, rep.read[v], ok)
          /\ rep' = [rep EXCEPT !.failed = @ \/ ~ok,
                                !.next = IF last THEN 1 ELSE @ + 1,
                                !.who  = IF last THEN None ELSE v,
                                !.read[v] = IF last THEN None ELSE @]
  BY DEF Reprovision
<1>3. /\ rep'.pc = rep.pc /\ rep'.healthy = rep.healthy
      /\ rep'.failed = (rep.failed \/ ~ok)
      /\ rep'.who = (IF last THEN None ELSE v)
      /\ rep'.next = (IF last THEN 1 ELSE rep.next + 1)
      /\ rep'.read = [rep.read EXCEPT ![v] = IF last THEN None ELSE @]
  BY <1>1, <1>2 DEF Reps
<1>4. /\ rep'.read[v] = (IF last THEN None ELSE rep.read[v])
      /\ \A u \in Visitors : u # v => rep'.read[u] = rep.read[u]
  BY <1>1, <1>3 DEF Reps
<1>5. rep'.next \in Index
  BY <1>1, <1>3, Sizes
<1>6. rep' \in Reps
  <2>1. rep'.next \in Positions
    BY <1>5, Sizes
  <2>2. rep'.read \in [Visitors -> Passwords \cup {None, Unread}]
    BY <1>1, <1>3 DEF Reps
  <2>3. (rep.failed \/ ~ok) \in BOOLEAN
    BY <1>1 DEF Reps
  <2>4. QED
    BY <1>1, <1>2, <1>3, <2>1, <2>2, <2>3 DEF Reps
<1>7. RepInStep'
  BY <1>1, <1>3, <1>4, <1>5, Sizes DEF RepInStep, TypeInv, Reprovision
<1>8. /\ account' \in [Services -> [Visitors -> Passwords \cup {None}]]
      /\ swallowed' \subseteq Visitors \X Services /\ faults' \in 0 .. MaxFaults
  BY <1>1, <1>2, Sizes, CallTypes DEF TypeInv
<1>9. QED
  BY <1>1, <1>2, <1>3, <1>4, <1>6, <1>7, <1>8, TypesAre, KeptTypes
     DEF Reprovision, TypeInv, RegistrationsKept, visitorVars

LEMMA TypeStep == TypeInv /\ [Next]_vars => TypeInv'
<1> SUFFICES ASSUME TypeInv, [Next]_vars PROVE TypeInv'
  OBVIOUS
<1>1. CASE UNCHANGED vars
  BY <1>1, TypesAre, TypesNext
     DEF vars, visitorVars, platformVars, TypeInv, Busy, RepInStep, ToProvision
<1>2. CASE Next
  <2>1. ASSUME NEW l \in Lambdas,
               \/ \E v \in Visitors : Register(l, v)
               \/ Store(l) \/ StoreFails(l) \/ Mail(l) \/ MailFails(l)
               \/ Provision(l) \/ ListServices(l)
        PROVE  TypeInv'
    BY <2>1, RegistrationTypes
  <2>2. CASE StartPlatform \/ Teardown
    BY <2>2, RunTypes
  <2>3. CASE \E s \in Services : ServiceUp(s)
    BY <2>3, ServiceUpTypes
  <2>4. CASE BeginReprovision
    BY <2>4, BeginTypes
  <2>5. CASE \E v \in Visitors : ScanPage(v)
    BY <2>5, ScanTypes
  <2>6. CASE NextVisitor
    BY <2>6, NextVisitorTypes
  <2>7. CASE Reprovision
    BY <2>7, ReprovisionTypes
  <2>8. QED
    BY <1>2, <2>1, <2>2, <2>3, <2>4, <2>5, <2>6, <2>7 DEF Next
<1>3. QED
  BY <1>1, <1>2

LEMMA TypeInit == Init => TypeInv
<1> SUFFICES ASSUME Init PROVE TypeInv
  OBVIOUS
<1>1. TypeOK
  BY IdleTypes, TypesAre, VisitorsAssumption DEF Init, VisitorsAssumption
<1>2. Busy /\ RepInStep
  BY DEF Init, Busy, RepInStep, Idle, RepIdle
<1>3. QED
  BY <1>1, <1>2 DEF TypeInv

LEMMA TypeAlways == Spec => []TypeInv
  BY TypeInit, TypeStep, PTL DEF Spec

(* Every variable keeps its type, however registrations, starts and resets of
   the platform, reprovisioning and failed calls overlap. *)
THEOREM VisitorTypes == Spec => []TypeOK
<1>1. TypeInv => TypeOK
  BY DEF TypeInv
<1>2. QED
  BY <1>1, TypeAlways, PTL

-----------------------------------------------------------------------------
(* The password that was mailed *)

LEMMA KnownHasRecord ==
    ASSUME TypeOK, NEW v \in Visitors
    PROVE  Known(v) <=> record[v] \in Records
  BY Sizes DEF TypeOK, Known, NoRecord, Records

(* A step of execution l for visitor v leaves the others' registrations. *)
LEMMA OthersApart ==
    ASSUME TypeInv, OneAtATime, NEW l \in Lambdas, inv[l].pc # "idle",
           NEW k \in Lambdas, k # l, inv[k].pc # "idle"
    PROVE  inv[k].who # inv[l].who
  BY DEF OneAtATime

LEMMA StillOneAtATime ==
    ASSUME TypeInv, OneAtATime, NEW l \in Lambdas, inv[l].pc # "idle",
           NEW pc, NEW pw, NEW next, NEW who, Moves(l, pc, who, pw, next),
           pc = "idle" \/ who = inv[l].who
    PROVE  OneAtATime'
  BY DEF OneAtATime, Moves

(* The list of services is all that ListServices writes. *)
LEMMA ListKeepsPasswords ==
    ASSUME TypeInv, NEW l \in Lambdas, ListServices(l)
    PROVE  \A u \in Visitors : /\ Known(u)' <=> Known(u)
                               /\ Known(u) => /\ record'[u].hash = record[u].hash
                                              /\ record'[u].sealed = record[u].sealed
<1> DEFINE v == inv[l].who
<1>0. v \in Visitors /\ record[v] \in Records
  BY DEF ListServices, TypeInv, Busy
<1>2. \/ record' = record
      \/ record' = [record EXCEPT ![v] = [record[v] EXCEPT !.services = inv[l].got]]
  BY DEF ListServices, TypeInv, TypeOK
<1>3. record'[v] = record[v] \/ record'[v] = [record[v] EXCEPT !.services = inv[l].got]
  BY <1>0, <1>2, TypesAre DEF TypeInv
<1>4. /\ record'[v].hash = record[v].hash /\ record'[v].sealed = record[v].sealed
      /\ \A u \in Visitors : u # v => record'[u] = record[u]
  BY <1>0, <1>2, <1>3 DEF TypeInv, TypeOK, Records
<1>5. record[v].hash # None
  BY <1>0, Sizes DEF Records
<1>6. record'[v] # NoRecord /\ record[v] # NoRecord
  BY <1>4, <1>5 DEF NoRecord
<1>7. \A u \in Visitors : Known(u)' <=> Known(u)
  BY <1>0, <1>4, <1>6 DEF Known
<1>8. QED
  BY <1>4, <1>7

LEMMA RecordStep ==
    ASSUME ~SelfOverlap, TypeInv, RecordInv, [Next]_vars
    PROVE  RecordInv'
<1> USE DEF platformVars, visitorVars
<1>0. \A l \in Lambdas : inv[l].pc # "idle" =>
          /\ inv[l].who \in Visitors /\ inv[l].pw \in Passwords
          /\ inv[l].pc # "store" => Known(inv[l].who)
  BY KnownHasRecord DEF TypeInv, Busy
<1>t. TypeOK'
  BY TypeStep DEF TypeInv
<1>1. ASSUME NEW l \in Lambdas, NEW v \in Visitors, Register(l, v) PROVE RecordInv'
  <2>1. Moves(l, "store", v, issued', 1) /\ inv[l].pc = "idle"
    BY <1>1, RegisterMoves DEF Register
  <2>2. UNCHANGED <<record, mailed, answer>> /\ ~InFlight(v)
    BY <1>1 DEF Register
  <2>3. OneAtATime'
    BY <2>1, <2>2 DEF RecordInv, OneAtATime, Moves, InFlight
  <2>4. StoredIsCurrent' /\ RecordsAgree'
    BY <2>1, <2>2 DEF RecordInv, StoredIsCurrent, RecordsAgree, Known, Moves
  <2>5. \A u \in Visitors : Unchanged(u)' => Unchanged(u)
    BY <2>1 DEF Unchanged, Moves
  <2>6. OkIsCurrent'
    BY <2>2, <2>5 DEF RecordInv, OkIsCurrent, LoginAccepted, Known
  <2>7. QED
    BY <2>3, <2>4, <2>6 DEF RecordInv
<1>2. ASSUME NEW l \in Lambdas, Store(l) PROVE RecordInv'
  <2> DEFINE v == inv[l].who
  <2>1. /\ Moves(l, "mail", v, inv[l].pw, inv[l].next) /\ inv[l].pc = "store"
        /\ v \in Visitors /\ UNCHANGED <<mailed, answer>>
    BY <1>0, <1>2, StageMoves DEF Store
  <2>2. /\ record'[v].hash = inv[l].pw /\ record'[v].sealed \in {None, inv[l].pw}
        /\ \A u \in Visitors : u # v => record'[u] = record[u]
    BY <1>2, <2>1 DEF Store, TypeInv, TypeOK
  <2>3. OneAtATime'
    BY <2>1, StillOneAtATime DEF RecordInv
  <2>4. StoredIsCurrent'
    BY <1>0, <2>1, <2>2, OthersApart DEF RecordInv, StoredIsCurrent, Moves
  <2>5. RecordsAgree'
    BY <2>2 DEF RecordInv, RecordsAgree, Known
  <2>6. \A u \in Visitors : Unchanged(u)' => u # v /\ Unchanged(u)
    BY <2>1 DEF Unchanged, Moves
  <2>7. OkIsCurrent'
    BY <2>1, <2>2, <2>6 DEF RecordInv, OkIsCurrent, LoginAccepted, Known
  <2>8. QED
    BY <2>3, <2>4, <2>5, <2>7 DEF RecordInv
<1>3. ASSUME NEW l \in Lambdas, StoreFails(l) \/ MailFails(l) PROVE RecordInv'
  <2> DEFINE v == inv[l].who
  <2>1. /\ inv[l].pc \in {"store", "mail"} /\ v \in Visitors /\ UNCHANGED <<record, mailed>>
        /\ End(l, "failed")
    BY <1>0, <1>3 DEF StoreFails, MailFails
  <2>2. /\ Moves(l, "idle", None, None, 1) /\ answer'[v] = "failed"
        /\ \A u \in Visitors : u # v => answer'[u] = answer[u]
    BY <2>1, EndMoves
  <2>3. OneAtATime'
    BY <2>1, <2>2, StillOneAtATime DEF RecordInv
  <2>4. StoredIsCurrent' /\ RecordsAgree'
    BY <2>1, <2>2 DEF RecordInv, StoredIsCurrent, RecordsAgree, Known, Moves
  <2>5. \A u \in Visitors : u # v /\ Unchanged(u)' => Unchanged(u)
    BY <2>1, <2>2 DEF Unchanged, Moves
  <2>6. OkIsCurrent'
    BY <2>1, <2>2, <2>5 DEF RecordInv, OkIsCurrent, LoginAccepted, Known
  <2>7. QED
    BY <2>3, <2>4, <2>6 DEF RecordInv
<1>4. ASSUME NEW l \in Lambdas, Mail(l) PROVE RecordInv'
  <2> DEFINE v == inv[l].who
  <2>1. /\ Moves(l, "provision", v, inv[l].pw, inv[l].next) /\ inv[l].pc = "mail"
        /\ v \in Visitors /\ UNCHANGED <<record, answer>>
    BY <1>0, <1>4, StageMoves DEF Mail
  <2>2. /\ mailed'[v] = inv[l].pw
        /\ \A u \in Visitors : u # v => mailed'[u] = mailed[u]
    BY <1>4, <2>1 DEF Mail, TypeInv, TypeOK
  <2>3. OneAtATime'
    BY <2>1, StillOneAtATime DEF RecordInv
  <2>4. StoredIsCurrent'
    BY <1>0, <2>1, <2>2, OthersApart DEF RecordInv, StoredIsCurrent, Moves
  <2>5. RecordsAgree'
    BY <2>1 DEF RecordInv, RecordsAgree, Known
  <2>6. \A u \in Visitors : Unchanged(u)' => u # v /\ Unchanged(u)
    BY <2>1 DEF Unchanged, Moves
  <2>7. OkIsCurrent'
    BY <2>1, <2>2, <2>6 DEF RecordInv, OkIsCurrent, LoginAccepted, Known
  <2>8. QED
    BY <2>3, <2>4, <2>5, <2>7 DEF RecordInv
<1>5. ASSUME NEW l \in Lambdas, Provision(l) PROVE RecordInv'
  <2> DEFINE v == inv[l].who
  <2>1. /\ Moves(l, "provision", v, inv[l].pw, inv[l].next + 1) /\ inv[l].pc = "provision"
        /\ UNCHANGED <<record, mailed, answer>>
    BY <1>5, ProvisionMoves DEF Provision
  <2>2. OneAtATime'
    BY <2>1, StillOneAtATime DEF RecordInv
  <2>3. StoredIsCurrent' /\ RecordsAgree'
    BY <2>1 DEF RecordInv, StoredIsCurrent, RecordsAgree, Known, Moves
  <2>4. \A u \in Visitors : Unchanged(u)' => Unchanged(u)
    BY <2>1 DEF Unchanged, Moves
  <2>5. OkIsCurrent'
    BY <2>1, <2>4 DEF RecordInv, OkIsCurrent, LoginAccepted, Known
  <2>6. QED
    BY <2>2, <2>3, <2>5 DEF RecordInv
<1>6. ASSUME NEW l \in Lambdas, ListServices(l) PROVE RecordInv'
  <2> DEFINE v == inv[l].who
  <2>1. /\ inv[l].pc = "provision" /\ v \in Visitors /\ Known(v) /\ UNCHANGED mailed
        /\ End(l, "ok")
    BY <1>0, <1>6 DEF ListServices
  <2>2. /\ Moves(l, "idle", None, None, 1)
        /\ \A u \in Visitors : u # v => answer'[u] = answer[u]
    BY <2>1, EndMoves
  <2>3. \A u \in Visitors : /\ Known(u)' <=> Known(u)
                            /\ Known(u) => /\ record'[u].hash = record[u].hash
                                           /\ record'[u].sealed = record[u].sealed
    BY <1>6, ListKeepsPasswords
  <2>4. OneAtATime'
    BY <2>1, <2>2, StillOneAtATime DEF RecordInv
  <2>5. StoredIsCurrent'
    BY <1>0, <2>1, <2>2, <2>3 DEF RecordInv, StoredIsCurrent, Moves
  <2>6. RecordsAgree'
    BY <2>3 DEF RecordInv, RecordsAgree
  <2>7. \A u \in Visitors : u # v /\ Unchanged(u)' => Unchanged(u)
    BY <2>1, <2>2 DEF Unchanged, Moves
  <2>8. record[v].hash = inv[l].pw /\ mailed[v] = inv[l].pw
    BY <2>1 DEF RecordInv, StoredIsCurrent
  <2>9. OkIsCurrent'
    BY <2>1, <2>2, <2>3, <2>7, <2>8 DEF RecordInv, OkIsCurrent, LoginAccepted
  <2>10. QED
    BY <2>4, <2>5, <2>6, <2>9 DEF RecordInv
<1>7. CASE UNCHANGED <<visitorVars, inv>>
  BY <1>7 DEF RecordInv, OneAtATime, StoredIsCurrent, RecordsAgree, OkIsCurrent, Known,
              Unchanged, LoginAccepted
<1>8. CASE UNCHANGED vars
  BY <1>7, <1>8 DEF vars
<1>9. CASE \/ StartPlatform \/ Teardown \/ \E s \in Services : ServiceUp(s)
           \/ BeginReprovision \/ (\E v \in Visitors : ScanPage(v)) \/ NextVisitor \/ Reprovision
  BY <1>7, <1>9 DEF StartPlatform, Teardown, ServiceUp, BeginReprovision, ScanPage, NextVisitor,
                    Reprovision
<1>10. QED
  BY <1>1, <1>2, <1>3, <1>4, <1>5, <1>6, <1>8, <1>9 DEF Next

LEMMA RecordInit == Init => RecordInv
  BY DEF Init, RecordInv, OneAtATime, StoredIsCurrent, RecordsAgree, OkIsCurrent, Known, Idle

(* If no two registrations of one visitor overlap, the credentials of the last
   mail log the visitor in, unless a later registration has answered with an
   error: the record is stored before the mail is sent, and what else is
   written to it (the list of services) leaves the password alone. *)
THEOREM MailLogsIn == ~SelfOverlap /\ Spec => []MailedLogsIn
<1> SUFFICES ASSUME ~SelfOverlap PROVE Spec => []MailedLogsIn
  OBVIOUS
<1>1. TypeInv /\ RecordInv /\ [Next]_vars => RecordInv'
  BY RecordStep
<1>2. RecordInv => MailedLogsIn
  BY DEF RecordInv, OkIsCurrent, Unchanged, MailedLogsIn, InFlight
<1>3. QED
  BY <1>1, <1>2, RecordInit, TypeAlways, PTL DEF Spec

-----------------------------------------------------------------------------
(* The accounts *)

(* create-or-update leaves one account that has a password, the new one but
   for Grafana, and touches no other. *)
LEMMA AccountMade ==
    ASSUME TypeOK, NEW s \in Services, NEW v \in Visitors, NEW pw \in Passwords,
           CreateOrUpdate(s, v, pw)
    PROVE  /\ account'[s][v] # None
           /\ s # "grafana" => account'[s][v] = pw
           /\ \A r \in Services, u \in Visitors :
                r # s \/ u # v => account'[r][u] = account[r][u]
<1>1. account[s][v] \in Passwords \cup {None}
  BY DEF TypeOK
<1>2. PICK p : /\ account' = [account EXCEPT ![s][v] = p]
               /\ p # None /\ (s # "grafana" => p = pw)
  BY <1>1, Sizes, VisitorsAssumption
     DEF CreateOrUpdate, GrafanaAccount, AirflowAccount, MinioAccount, SimulationApiAccount,
         VisitorsAssumption
<1>3. QED
  BY <1>2 DEF TypeOK

(* A call leaves one such account or, without effect, a swallowed call, if the
   service runs; it touches nothing else. *)
LEMMA CallMade ==
    ASSUME TypeOK, NEW s \in Services, NEW v \in Visitors, NEW pw \in Passwords,
           NEW ok \in BOOLEAN, Call(s, v, pw, ok), ok \/ s \in up
    PROVE  /\ \/ <<v, s>> \in swallowed'
              \/ account'[s][v] # None /\ (s # "grafana" => account'[s][v] = pw)
           /\ \A r \in Services, u \in Visitors :
                r # s \/ u # v =>
                    /\ account'[r][u] = account[r][u]
                    /\ <<u, r>> \in swallowed => <<u, r>> \in swallowed'
<1>1. \/ CreateOrUpdate(s, v, pw)
      \/ account' = account /\ swallowed' = swallowed \cup {<<v, s>>}
  BY DEF Call
<1>2. \A r \in Services, u \in Visitors :
          (r # s \/ u # v) /\ <<u, r>> \in swallowed => <<u, r>> \in swallowed'
  BY DEF Call
<1>3. QED
  BY <1>1, <1>2, AccountMade

(* Read passwords stay current. *)
LEMMA ReadStep ==
    ASSUME ~SelfOverlap, ~WhileReprovision, TypeInv, RecordInv, ReadIsCurrent, [Next]_vars
    PROVE  ReadIsCurrent'
<1> USE DEF platformVars, visitorVars
<1>0. /\ \A l \in Lambdas : inv[l].pc # "idle" => inv[l].who \in Visitors
      /\ \A v \in Visitors : rep.read[v] \in Passwords => Reprovisioning
  <2>1. rep.pc \in {"idle", "scan", "provision", "done"}
    BY TypesAre DEF TypeInv, Reps
  <2>2. QED
    BY <2>1, Sizes DEF TypeInv, Busy, RepInStep, Reprovisioning, ToProvision
<1>1. ASSUME NEW l \in Lambdas, NEW v \in Visitors, Register(l, v) PROVE ReadIsCurrent'
  <2>1. Moves(l, "store", v, issued', 1)
    BY <1>1, RegisterMoves
  <2>2. UNCHANGED <<record, rep>> /\ ~(Known(v) /\ Reprovisioning)
    BY <1>1 DEF Register
  <2>3. QED
    BY <2>1, <2>2 DEF ReadIsCurrent, Known, Reprovisioning, Moves
<1>2. ASSUME NEW l \in Lambdas, Store(l) PROVE ReadIsCurrent'
  <2> DEFINE v == inv[l].who
  <2>1. /\ Moves(l, "mail", v, inv[l].pw, inv[l].next) /\ inv[l].pc = "store"
        /\ v \in Visitors /\ UNCHANGED rep
    BY <1>0, <1>2, StageMoves DEF Store
  <2>2. \A u \in Visitors : u # v => record'[u] = record[u]
    BY <1>2, <2>1 DEF Store, TypeInv, TypeOK
  <2>3. rep.read[v] \notin Passwords
    BY <1>0, <2>1 DEF ReadIsCurrent
  <2>4. \A k \in Lambdas : inv'[k].pc = "store" =>
            /\ k # l /\ inv[k].pc = "store" /\ inv'[k].who = inv[k].who
            /\ inv[k].who # v /\ inv[k].who \in Visitors
    BY <1>0, <2>1, OthersApart DEF RecordInv, Moves
  <2>5. QED
    BY <2>1, <2>2, <2>3, <2>4 DEF ReadIsCurrent, Known, Reprovisioning
<1>3. ASSUME NEW l \in Lambdas, StoreFails(l) \/ MailFails(l) PROVE ReadIsCurrent'
  <2>1. End(l, "failed") /\ inv[l].who \in Visitors /\ UNCHANGED <<record, rep>>
    BY <1>0, <1>3 DEF StoreFails, MailFails
  <2>2. Moves(l, "idle", None, None, 1)
    BY <2>1, EndMoves
  <2>3. QED
    BY <2>1, <2>2 DEF ReadIsCurrent, Known, Reprovisioning, Moves
<1>4. ASSUME NEW l \in Lambdas, Mail(l) PROVE ReadIsCurrent'
  <2>1. Moves(l, "provision", inv[l].who, inv[l].pw, inv[l].next) /\ UNCHANGED <<record, rep>>
    BY <1>4, StageMoves DEF Mail
  <2>2. QED
    BY <2>1 DEF ReadIsCurrent, Known, Reprovisioning, Moves
<1>5. ASSUME NEW l \in Lambdas, Provision(l) PROVE ReadIsCurrent'
  <2>1. /\ Moves(l, "provision", inv[l].who, inv[l].pw, inv[l].next + 1)
        /\ UNCHANGED <<record, rep>>
    BY <1>5, ProvisionMoves DEF Provision
  <2>2. QED
    BY <2>1 DEF ReadIsCurrent, Known, Reprovisioning, Moves
<1>6. ASSUME NEW l \in Lambdas, ListServices(l) PROVE ReadIsCurrent'
  <2>1. End(l, "ok") /\ inv[l].who \in Visitors /\ UNCHANGED rep
    BY <1>0, <1>6 DEF ListServices
  <2>2. Moves(l, "idle", None, None, 1)
    BY <2>1, EndMoves
  <2>3. \A u \in Visitors : /\ Known(u)' <=> Known(u)
                            /\ Known(u) => record'[u].hash = record[u].hash
    BY <1>6, ListKeepsPasswords
  <2>4. \A k \in Lambdas : inv'[k].pc = "store" =>
            inv[k].pc = "store" /\ inv'[k].who = inv[k].who /\ inv[k].who \in Visitors
    BY <1>0, <2>2 DEF Moves
  <2>5. QED
    BY <2>1, <2>3, <2>4 DEF ReadIsCurrent, Reprovisioning
<1>7. CASE StartPlatform \/ Teardown
  <2>1. rep' = RepIdle /\ UNCHANGED <<record, inv>>
    BY <1>7, RunTypes DEF StartPlatform, Teardown
  <2>2. QED
    BY <2>1, Sizes DEF ReadIsCurrent, RepIdle, Reprovisioning
<1>8. CASE BeginReprovision
  <2>1. /\ rep'.read = rep.read /\ UNCHANGED <<record, inv>>
        /\ \A l \in Lambdas : ~(inv[l].pc = "store" /\ Known(inv[l].who))
    BY <1>8, BeginTypes DEF BeginReprovision
  <2>2. QED
    BY <2>1 DEF ReadIsCurrent, Known
<1>9. ASSUME NEW v \in Visitors, ScanPage(v) PROVE ReadIsCurrent'
  <2>1. /\ rep'.pc = rep.pc /\ UNCHANGED <<record, inv>>
        /\ rep'.read[v] = record[v].sealed
        /\ \A u \in Visitors : u # v => rep'.read[u] = rep.read[u]
    BY <1>9, ScanTypes DEF ScanPage
  <2>2. rep'.read[v] \in Passwords => Known(v) /\ rep'.read[v] = record[v].hash
    BY <2>1, Sizes DEF RecordInv, RecordsAgree, Known, NoRecord
  <2>3. QED
    BY <2>1, <2>2 DEF ReadIsCurrent, Known, Reprovisioning
<1>10. CASE NextVisitor
  <2>1. rep'.read = rep.read /\ Reprovisioning /\ UNCHANGED <<record, inv>>
    BY <1>10, NextVisitorTypes DEF NextVisitor, Reprovisioning
  <2>2. QED
    BY <2>1 DEF ReadIsCurrent, Known
<1>11. CASE Reprovision
  <2>1. /\ rep'.pc = rep.pc /\ UNCHANGED <<record, inv>>
        /\ \A u \in Visitors : rep'.read[u] \in {rep.read[u], None}
    BY <1>11, ReprovisionTypes DEF Reprovision
  <2>2. QED
    BY <2>1, Sizes DEF ReadIsCurrent, Known, Reprovisioning
<1>12. CASE UNCHANGED vars \/ \E s \in Services : ServiceUp(s)
  BY <1>12 DEF vars, ServiceUp, ReadIsCurrent, Known, Reprovisioning
<1>13. QED
  BY <1>1, <1>2, <1>3, <1>4, <1>5, <1>6, <1>7, <1>8, <1>9, <1>10, <1>11, <1>12 DEF Next

(* What does not concern a visitor, or only brings a registration or the
   scan forward, leaves the visitor covered. *)
LEMMA StillCovered ==
    ASSUME NEW v \in Visitors, NEW i \in Index, Covered(v, i),
           account'[Order[i]][v] = account[Order[i]][v],
           <<v, Order[i]>> \in swallowed => <<v, Order[i]>> \in swallowed',
           record'[v].hash = record[v].hash,
           rep'.read[v] = rep.read[v],
           rep'.who = v => rep.who = v /\ rep'.next = rep.next,
           \A l \in Lambdas : inv[l].who = v /\ inv[l].pc \in {"mail", "provision"} =>
               inv'[l].who = v /\ inv'[l].pc = inv[l].pc /\ inv'[l].next = inv[l].next
    PROVE  Covered(v, i)'
<1>1. Has(v, i) => Has(v, i)'
  BY DEF Has
<1>2. OwedByScan(v, i) => OwedByScan(v, i)'
  BY DEF OwedByScan
<1>3. OwedByCall(v, i) => OwedByCall(v, i)'
  BY DEF OwedByCall
<1>4. QED
  BY <1>1, <1>2, <1>3 DEF Covered, Swallowed

(* A registration pays its own debts, and leaves those of others alone. *)
LEMMA RegistrationPays ==
    ASSUME ~SelfOverlap, TypeInv, RecordInv, AccountInv, rep.healthy, ~rep.failed,
           NEW l \in Lambdas,
           \/ \E u \in Visitors : Register(l, u)
           \/ Store(l) \/ StoreFails(l) \/ Mail(l) \/ MailFails(l)
           \/ Provision(l) \/ ListServices(l),
           NEW v \in Visitors, NEW i \in Index, Due(v)'
    PROVE  Covered(v, i)'
<1> USE DEF platformVars, visitorVars
<1>0. /\ Due(v) => Covered(v, i)
      /\ inv[l].pc # "idle" =>
           /\ inv[l].who \in Visitors /\ inv[l].pw \in Passwords
           /\ inv[l].pc \in {"store", "mail"} => inv[l].next = 1
           /\ inv[l].pc # "store" => Known(inv[l].who)
  BY KnownHasRecord DEF AccountInv, NothingLost, TypeInv, Busy
<1>r. UNCHANGED rep
  BY DEF Register, Store, StoreFails, Mail, MailFails, Provision, ListServices
<1>i. i \in Nat /\ i >= 1 /\ i <= Len(Order)
  BY Sizes
<1>1. ASSUME NEW u \in Visitors, Register(l, u) PROVE Covered(v, i)'
  <2>1. Moves(l, "store", u, issued', 1) /\ inv[l].pc = "idle"
    BY <1>1, RegisterMoves DEF Register
  <2>2. UNCHANGED <<record, answer, account, swallowed>>
    BY <1>1 DEF Register
  <2>3. Due(v)
    BY <2>1, <2>2 DEF Due, Known, Unchanged, Moves
  <2>4. QED
    BY <1>0, <1>r, <2>1, <2>2, <2>3, StillCovered DEF Moves
<1>2. CASE Store(l)
  <2>1. /\ Moves(l, "mail", inv[l].who, inv[l].pw, inv[l].next) /\ inv[l].pc = "store"
        /\ inv[l].who \in Visitors /\ UNCHANGED <<answer, account, swallowed>>
    BY <1>0, <1>2, StageMoves DEF Store
  <2>2. CASE inv[l].who = v
    BY <2>1, <2>2 DEF Covered, OwedByCall, Moves
  <2>3. CASE inv[l].who # v
    <3>1. record'[v] = record[v]
      BY <1>2, <2>1, <2>3 DEF Store, TypeInv, TypeOK
    <3>2. Due(v)
      BY <2>1, <2>3, <3>1 DEF Due, Known, Unchanged, Moves
    <3>3. QED
      BY <1>0, <1>r, <2>1, <2>3, <3>1, <3>2, StillCovered DEF Moves
  <2>4. QED
    BY <2>2, <2>3
<1>3. CASE StoreFails(l) \/ MailFails(l)
  <2>1. /\ inv[l].pc \in {"store", "mail"} /\ inv[l].who \in Visitors
        /\ End(l, "failed") /\ UNCHANGED <<record, account, swallowed>>
    BY <1>0, <1>3 DEF StoreFails, MailFails
  <2>2. /\ Moves(l, "idle", None, None, 1) /\ answer'[inv[l].who] = "failed"
        /\ \A u \in Visitors : u # inv[l].who => answer'[u] = answer[u]
    BY <2>1, EndMoves
  <2>3. inv[l].who # v
    <3>1. ASSUME inv[l].who = v PROVE FALSE
      <4>1. Unchanged(v)'
        BY <2>1, <2>2, <3>1, OthersApart, VisitorsAssumption
           DEF Unchanged, Moves, RecordInv, VisitorsAssumption
      <4>2. QED
        BY <2>2, <3>1, <4>1 DEF Due
    <3>2. QED
      BY <3>1
  <2>4. Due(v)
    BY <2>1, <2>2, <2>3 DEF Due, Known, Unchanged, Moves
  <2>5. QED
    BY <1>0, <1>r, <2>1, <2>2, <2>3, <2>4, StillCovered DEF Moves
<1>4. CASE Mail(l)
  <2>1. /\ Moves(l, "provision", inv[l].who, inv[l].pw, 1) /\ inv[l].pc = "mail"
        /\ UNCHANGED <<record, answer, account, swallowed>>
    BY <1>0, <1>4, StageMoves DEF Mail
  <2>2. CASE inv[l].who = v
    BY <1>i, <2>1, <2>2 DEF Covered, OwedByCall, Moves
  <2>3. CASE inv[l].who # v
    <3>1. Due(v)
      BY <2>1, <2>3 DEF Due, Known, Unchanged, Moves
    <3>2. QED
      BY <1>0, <1>r, <2>1, <2>3, <3>1, StillCovered DEF Moves
  <2>4. QED
    BY <2>2, <2>3
<1>5. CASE Provision(l)
  <2> DEFINE u == inv[l].who
             n == inv[l].next
  <2>1. /\ n \in Index /\ inv[l].pc = "provision" /\ u \in Visitors /\ inv[l].pw \in Passwords
        /\ Moves(l, "provision", u, inv[l].pw, n + 1)
        /\ UNCHANGED <<record, answer>>
    BY <1>0, <1>5, ProvisionMoves DEF Provision
  <2>2. Order[n] \in Services /\ Order[i] \in Services /\ n \in Nat
    BY <2>1, Sizes
  <2>3. PICK ok \in BOOLEAN : Call(Order[n], u, inv[l].pw, ok)
    BY <1>5, ProvisionMoves
  <2>4. /\ \/ <<u, Order[n]>> \in swallowed'
           \/ /\ account'[Order[n]][u] # None
              /\ Order[n] # "grafana" => account'[Order[n]][u] = inv[l].pw
        /\ \A r \in Services, w \in Visitors :
             r # Order[n] \/ w # u =>
                 /\ account'[r][w] = account[r][w]
                 /\ <<w, r>> \in swallowed => <<w, r>> \in swallowed'
    BY <2>1, <2>2, <2>3, CallMade DEF TypeInv, AccountInv, HealthyIsUp
  <2>5. record[u].hash = inv[l].pw
    BY <2>1 DEF RecordInv, StoredIsCurrent
  <2>6. Due(v)
    BY <2>1 DEF Due, Known, Unchanged, Moves
  <2>7. CASE u # v
    BY <1>0, <1>r, <2>1, <2>2, <2>4, <2>6, <2>7, StillCovered DEF Moves
  <2>8. CASE u = v /\ Order[i] = Order[n]
    BY <2>1, <2>4, <2>5, <2>8 DEF Covered, Has, Swallowed
  <2>9. CASE u = v /\ Order[i] # Order[n]
    <3>1. account'[Order[i]][v] = account[Order[i]][v]
      BY <2>2, <2>4, <2>9
    <3>2. Has(v, i) => Has(v, i)'
      BY <2>1, <3>1 DEF Has
    <3>3. OwedByScan(v, i) => OwedByScan(v, i)'
      BY <1>r DEF OwedByScan
    <3>4. ASSUME OwedByCall(v, i) PROVE OwedByCall(v, i)'
      <4>1. PICK k \in Lambdas : /\ inv[k].who = v
                                 /\ \/ inv[k].pc = "mail"
                                    \/ inv[k].pc = "provision" /\ inv[k].next <= i
        BY <3>4 DEF OwedByCall
      <4>2. k = l
        BY <2>1, <2>9, <4>1, OthersApart DEF RecordInv
      <4>3. n # i /\ n <= i
        BY <2>1, <2>9, <4>1, <4>2
      <4>4. inv'[l].who = v /\ inv'[l].pc = "provision" /\ inv'[l].next <= i
        BY <1>i, <2>1, <2>2, <2>9, <4>3 DEF Moves
      <4>5. QED
        BY <4>4 DEF OwedByCall
    <3>5. Swallowed(v, i) => Swallowed(v, i)'
      BY <2>2, <2>4, <2>9 DEF Swallowed
    <3>6. QED
      BY <1>0, <2>6, <3>2, <3>3, <3>4, <3>5 DEF Covered
  <2>10. QED
    BY <2>7, <2>8, <2>9
<1>6. CASE ListServices(l)
  <2>1. /\ inv[l].pc = "provision" /\ inv[l].next > Len(Order) /\ inv[l].who \in Visitors
        /\ End(l, "ok") /\ UNCHANGED <<account, swallowed>>
    BY <1>0, <1>6 DEF ListServices
  <2>2. /\ Moves(l, "idle", None, None, 1)
        /\ \A u \in Visitors : u # inv[l].who => answer'[u] = answer[u]
    BY <2>1, EndMoves
  <2>3. (Known(v)' <=> Known(v)) /\ (Known(v) => record'[v].hash = record[v].hash)
    BY <1>6, ListKeepsPasswords
  <2>4. Due(v)
    BY <1>0, <2>1, <2>2, <2>3 DEF Due, Unchanged, Moves
  <2>5. record'[v].hash = record[v].hash
    BY <2>3, <2>4 DEF Due
  <2>6. Has(v, i) => Has(v, i)'
    BY <2>1, <2>5 DEF Has
  <2>7. OwedByScan(v, i) => OwedByScan(v, i)'
    BY <1>r DEF OwedByScan
  <2>8. ASSUME OwedByCall(v, i) PROVE OwedByCall(v, i)'
    <3>1. PICK k \in Lambdas : /\ inv[k].who = v
                               /\ \/ inv[k].pc = "mail"
                                  \/ inv[k].pc = "provision" /\ inv[k].next <= i
      BY <2>8 DEF OwedByCall
    <3>2. inv[l] \in Calls
      BY TypesAre DEF TypeInv
    <3>3. k # l
      BY <1>i, <2>1, <3>1, <3>2, Sizes DEF Calls, Positions
    <3>4. QED
      BY <2>2, <3>1, <3>3 DEF OwedByCall, Moves
  <2>9. QED
    BY <1>0, <2>1, <2>4, <2>6, <2>7, <2>8 DEF Covered, Swallowed
<1>7. QED
  BY <1>1, <1>2, <1>3, <1>4, <1>5, <1>6

(* The scan is owed until it is paid, and what it leaves out it reports. *)
LEMMA ReprovisioningPays ==
    ASSUME TypeInv, RecordInv, AccountInv,
           BeginReprovision \/ (\E u \in Visitors : ScanPage(u)) \/ NextVisitor \/ Reprovision,
           rep'.healthy, ~rep'.failed,
           NEW v \in Visitors, NEW i \in Index, Due(v)'
    PROVE  Covered(v, i)'
<1> USE DEF platformVars, visitorVars
<1>0. UNCHANGED <<record, answer, inv>> /\ i \in Nat /\ i >= 1 /\ v # None
  <2>1. UNCHANGED <<record, answer, inv>>
    BY DEF BeginReprovision, ScanPage, NextVisitor, Reprovision
  <2>2. i \in Nat /\ i >= 1
    BY Sizes
  <2>3. QED
    BY <2>1, <2>2, VisitorsAssumption DEF VisitorsAssumption
<1>1. Due(v) /\ (OwedByCall(v, i) => OwedByCall(v, i)')
  BY <1>0 DEF Due, Known, Unchanged, OwedByCall
<1>2. rep.healthy /\ ~rep.failed => Covered(v, i)
  BY <1>1 DEF AccountInv, NothingLost
<1>3. CASE BeginReprovision
  <2>1. rep'.read[v] = Unread
    BY <1>3, BeginTypes DEF BeginReprovision, TypeInv, RepInStep
  <2>2. QED
    BY <2>1 DEF Covered, OwedByScan
<1>4. ASSUME NEW u \in Visitors, ScanPage(u) PROVE Covered(v, i)'
  <2>1. /\ rep.pc = "scan" /\ rep.who = None /\ rep'.who = rep.who /\ rep'.next = rep.next
        /\ rep.healthy /\ ~rep.failed /\ ~(Known(u) /\ record[u].sealed = None)
        /\ rep'.read[u] = record[u].sealed
        /\ \A w \in Visitors : w # u => rep'.read[w] = rep.read[w]
        /\ UNCHANGED <<account, swallowed>>
    BY <1>4, ScanTypes DEF ScanPage, TypeInv, RepInStep
  <2>2. CASE u = v
    <3>1. record[v].sealed \in Passwords
      BY <1>1, <2>1, <2>2, KnownHasRecord DEF Due, TypeInv, Records
    <3>2. OwedByScan(v, i)'
      BY <1>0, <2>1, <2>2, <3>1 DEF OwedByScan
    <3>3. QED
      BY <3>2 DEF Covered
  <2>3. CASE u # v
    BY <1>0, <1>2, <2>1, <2>3, StillCovered
  <2>4. QED
    BY <2>2, <2>3
<1>5. CASE NextVisitor
  <2>1. /\ rep'.read = rep.read /\ rep'.next = 1 /\ rep.healthy /\ ~rep.failed
        /\ UNCHANGED <<account, swallowed>>
    BY <1>5, NextVisitorTypes DEF NextVisitor
  <2>2. Has(v, i) => Has(v, i)'
    BY <1>0, <2>1 DEF Has
  <2>3. OwedByScan(v, i) => OwedByScan(v, i)'
    BY <1>0, <2>1 DEF OwedByScan
  <2>4. QED
    BY <1>1, <1>2, <2>1, <2>2, <2>3 DEF Covered, Swallowed
<1>6. CASE Reprovision
  <2> DEFINE u == rep.who
             n == rep.next
  <2>1. /\ u \in Visitors /\ rep.read[u] \in Passwords /\ n \in Index
        /\ rep.healthy /\ ~rep.failed
        /\ IF n = Len(Order)
           THEN rep'.who = None /\ rep'.next = 1 /\ rep'.read[u] = None
           ELSE rep'.who = u /\ rep'.next = n + 1 /\ rep'.read[u] = rep.read[u]
        /\ \A w \in Visitors : w # u => rep'.read[w] = rep.read[w]
    BY <1>6, ReprovisionTypes
  <2>2. Order[n] \in Services /\ Order[i] \in Services /\ n \in Nat /\ i <= Len(Order)
        /\ Len(Order) \in Nat
    BY <2>1, Sizes
  <2>3. Call(Order[n], u, rep.read[u], TRUE)
    BY <1>6, ReprovisionTypes
  <2>4. /\ \/ <<u, Order[n]>> \in swallowed'
           \/ /\ account'[Order[n]][u] # None
              /\ Order[n] # "grafana" => account'[Order[n]][u] = rep.read[u]
        /\ \A r \in Services, w \in Visitors :
             r # Order[n] \/ w # u =>
                 /\ account'[r][w] = account[r][w]
                 /\ <<w, r>> \in swallowed => <<w, r>> \in swallowed'
    BY <2>1, <2>2, <2>3, CallMade DEF TypeInv
  <2>5. record[u].hash = rep.read[u]
    BY <2>1 DEF AccountInv, ReadIsCurrent
  <2>6. CASE u # v
    <3>1. /\ account'[Order[i]][v] = account[Order[i]][v] /\ rep'.read[v] = rep.read[v]
          /\ <<v, Order[i]>> \in swallowed => <<v, Order[i]>> \in swallowed'
      BY <2>1, <2>2, <2>4, <2>6
    <3>2. rep'.who # v
      BY <1>0, <2>1, <2>6
    <3>3. QED
      BY <1>0, <1>2, <2>1, <3>1, <3>2, StillCovered
  <2>7. CASE u = v /\ Order[i] = Order[n]
    BY <1>0, <2>4, <2>5, <2>7 DEF Covered, Has, Swallowed
  <2>8. CASE u = v /\ Order[i] # Order[n]
    <3>1. Has(v, i) => Has(v, i)'
      BY <1>0, <2>2, <2>4, <2>8 DEF Has
    <3>2. ASSUME OwedByScan(v, i) PROVE OwedByScan(v, i)'
      <4>1. n <= i /\ n # i
        BY <2>1, <2>8, <3>2, Sizes DEF OwedByScan
      <4>2. n # Len(Order) /\ n + 1 <= i
        BY <1>0, <2>2, <4>1
      <4>3. QED
        BY <2>1, <2>8, <4>2 DEF OwedByScan
    <3>3. Swallowed(v, i) => Swallowed(v, i)'
      BY <2>2, <2>4, <2>8 DEF Swallowed
    <3>4. QED
      BY <1>1, <1>2, <2>1, <3>1, <3>2, <3>3 DEF Covered
  <2>9. QED
    BY <2>6, <2>7, <2>8
<1>7. QED
  BY <1>3, <1>4, <1>5, <1>6

LEMMA AccountStep ==
    ASSUME ~SelfOverlap, ~WhileReprovision, TypeInv, RecordInv, AccountInv, [Next]_vars
    PROVE  AccountInv'
<1> USE DEF platformVars, visitorVars
<1>1. CASE \E l \in Lambdas :
               \/ \E v \in Visitors : Register(l, v)
               \/ Store(l) \/ StoreFails(l) \/ Mail(l) \/ MailFails(l)
               \/ Provision(l) \/ ListServices(l)
  <2>1. UNCHANGED <<rep, up>>
    BY <1>1 DEF Register, Store, StoreFails, Mail, MailFails, Provision, ListServices
  <2>2. HealthyIsUp'
    BY <2>1 DEF AccountInv, HealthyIsUp
  <2>3. NothingLost'
    BY <1>1, <2>1, RegistrationPays DEF NothingLost
  <2>4. QED
    BY <2>2, <2>3, ReadStep DEF AccountInv
<1>2. CASE BeginReprovision \/ (\E u \in Visitors : ScanPage(u)) \/ NextVisitor \/ Reprovision
  <2>1. up' = up /\ rep'.healthy \in {rep.healthy, up = Services}
    BY <1>2, BeginTypes, ScanTypes, NextVisitorTypes, ReprovisionTypes
       DEF BeginReprovision, ScanPage, NextVisitor, Reprovision
  <2>2. HealthyIsUp'
    BY <2>1 DEF AccountInv, HealthyIsUp
  <2>3. NothingLost'
    BY <1>2, ReprovisioningPays DEF NothingLost
  <2>4. QED
    BY <2>2, <2>3, ReadStep DEF AccountInv
<1>3. CASE StartPlatform \/ Teardown
  <2>1. ~rep'.healthy
    BY <1>3, RunTypes DEF RepIdle
  <2>2. QED
    BY <2>1, ReadStep DEF AccountInv, HealthyIsUp, NothingLost
<1>4. CASE UNCHANGED vars \/ \E s \in Services : ServiceUp(s)
  <2>1. UNCHANGED <<record, answer, account, swallowed, rep, inv>>
    BY <1>4 DEF vars, ServiceUp
  <2>2. HealthyIsUp'
    BY <1>4 DEF vars, ServiceUp, AccountInv, HealthyIsUp
  <2>3. NothingLost'
    BY <2>1 DEF AccountInv, NothingLost, Due, Covered, Known, Unchanged, Has, Swallowed, OwedByScan,
                   OwedByCall
  <2>4. QED
    BY <2>2, <2>3, ReadStep DEF AccountInv
<1>5. QED
  BY <1>1, <1>2, <1>3, <1>4 DEF Next

LEMMA AccountInit == Init => AccountInv
  BY Sizes DEF Init, AccountInv, HealthyIsUp, ReadIsCurrent, NothingLost, RepIdle, Idle,
               Reprovisioning

LEMMA AccountAlways ==
    ASSUME ~SelfOverlap, ~WhileReprovision
    PROVE  Spec => [](TypeInv /\ RecordInv /\ AccountInv)
<1>1. TypeInv /\ RecordInv /\ [Next]_vars => RecordInv'
  BY RecordStep
<1>2. TypeInv /\ RecordInv /\ AccountInv /\ [Next]_vars => AccountInv'
  BY AccountStep
<1>3. QED
  BY <1>1, <1>2, RecordInit, AccountInit, TypeAlways, PTL DEF Spec

(* After a reprovisioning without failures nothing is owed any more. *)
LEMMA AllHave ==
    ASSUME TypeInv, AccountInv, ReprovisionedAll,
           NEW v \in Visitors, answer[v] = "ok", ~InFlight(v), Known(v), NEW s \in Services
    PROVE  \/ <<v, s>> \in swallowed
           \/ account[s][v] # None /\ (s # "grafana" => account[s][v] = record[v].hash)
<1>1. PICK i \in Index : Order[i] = s
  BY DEF Services, Index
<1>2. Covered(v, i)
  BY DEF AccountInv, NothingLost, ReprovisionedAll, Due
<1>3. ~OwedByScan(v, i)
  BY DEF OwedByScan, ReprovisionedAll, TypeInv, RepInStep, ToProvision
<1>4. ~OwedByCall(v, i)
  BY DEF OwedByCall, InFlight
<1>5. QED
  BY <1>1, <1>2, <1>3, <1>4 DEF Covered, Has, Swallowed

(* Once the workflow has reprovisioned without failures, everybody whose last
   registration was answered has an account in every service, whether the
   registration was in the scan or found the services up, but for the services
   whose call failed although they ran (the handler swallows that): provided
   that no two registrations of one visitor overlap and that nobody who is
   known registers again during reprovision-visitors. *)
THEOREM NobodyIsForgotten == ~SelfOverlap /\ ~WhileReprovision /\ Spec => []NobodyForgotten
<1> SUFFICES ASSUME ~SelfOverlap, ~WhileReprovision PROVE Spec => []NobodyForgotten
  OBVIOUS
<1>1. TypeInv /\ RecordInv /\ AccountInv => NobodyForgotten
  <2> SUFFICES ASSUME TypeInv, RecordInv, AccountInv, ReprovisionedAll,
                      NEW v \in Visitors, answer[v] = "ok", ~InFlight(v), NEW s \in Services
               PROVE  account[s][v] # None \/ <<v, s>> \in swallowed
    BY DEF NobodyForgotten
  <2>1. Known(v)
    BY DEF RecordInv, OkIsCurrent, Unchanged, InFlight, LoginAccepted
  <2>2. QED
    BY <2>1, AllHave
<1>2. QED
  BY <1>1, AccountAlways, PTL

(* ... and, with the same exception, every account but Grafana's has the
   password that was mailed last. *)
THEOREM AccountsAreMailed == ~SelfOverlap /\ ~WhileReprovision /\ Spec => []AccountsMatch
<1> SUFFICES ASSUME ~SelfOverlap, ~WhileReprovision PROVE Spec => []AccountsMatch
  OBVIOUS
<1>1. TypeInv /\ RecordInv /\ AccountInv => AccountsMatch
  <2> SUFFICES ASSUME TypeInv, RecordInv, AccountInv, ReprovisionedAll,
                      NEW v \in Visitors, answer[v] = "ok", ~InFlight(v),
                      NEW s \in Services \ {"grafana"}
               PROVE  account[s][v] = mailed[v] \/ <<v, s>> \in swallowed
    BY DEF AccountsMatch
  <2>1. Known(v) /\ record[v].hash = mailed[v]
    BY DEF RecordInv, OkIsCurrent, Unchanged, InFlight, LoginAccepted
  <2>2. QED
    BY <2>1, AllHave
<1>2. QED
  BY <1>1, AccountAlways, PTL
=============================================================================
