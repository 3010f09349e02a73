-------------------------- MODULE AccountAccessProofs --------------------------
(***************************************************************************)
(* What holds of AccountAccess for any number of companies, people, ids    *)
(* and failures: its types, for any number of requests, and, when requests *)
(* run one at a time, that a suspension blocks every member, that nobody   *)
(* is unblocked under a company that is down, and that the table and the   *)
(* pool agree as long as no call fails.                                    *)
(*                                                                         *)
(* The types need to know what a request stands for at each step (Shape):  *)
(* the rows it read still exist.  The suspension needs more (Complete):    *)
(* until it commits, it knows of everybody who is affected, and whoever is *)
(* off its list is disabled.  An unblocking needs what it read to be so    *)
(* still when it writes (Current), and the agreement needs to know how far *)
(* a request has got with each of its people (Agreed).  That is where      *)
(* running alone matters: another request could add a member, or enable    *)
(* one, behind its back.                                                   *)
(***************************************************************************)
EXTENDS AccountAccess, TLAPS

Inviting == {"provision", "lookup", "insert", "rollback"}

\* What request x, of the rows rs, may rely on where it stands.
Shape(rs, x) ==
    /\ x.at \in Inviting => x.person \in Person /\ x.todo = {}
    /\ x.at = "commit" => x.op \in Reinstating \cup {"confirmCompany"}
    /\ x.at \in {"accounts", "commit"} => \A s \in x.subs : rs[s].status # "none"
    /\ x.todo \subseteq x.subs

ShapeInv == \A w \in Worker : Shape(rows, wk[w])

\* Nobody is enabled without an account.
EnabledHaveAccount == \A p \in enabled : account[p] # None

IInv == TypeOK /\ ShapeInv /\ EnabledHaveAccount

RowsTyped == rows \in [Sub -> Row \cup {NoRow}]
PoolTyped == account \in [Person -> Sub \cup {None}] /\ enabled \subseteq Person
OrgTyped == corp \in Status /\ company \in [Company -> Status]
RequestsTyped == wk \in [Worker -> Request]

\* Rows stay, with their person and their companies.
RowsKept ==
    \A s \in Sub : rows[s].status # "none" =>
        /\ rows'[s].status # "none"
        /\ rows'[s].person = rows[s].person
        /\ rows'[s].access = rows[s].access

-------------------------------------------------------------------------------
LEMMA IdleTyped == Idle \in Request /\ \A rs : Shape(rs, Idle)
BY DEF Idle, Request, Shape, Inviting

LEMMA RowKnown ==
    ASSUME RowsTyped, NEW s \in Sub, rows[s].status # "none"
    PROVE  rows[s] \in Row
BY DEF RowsTyped, NoRow

LEMMA SameRows == UNCHANGED rows => RowsKept
BY DEF RowsKept

\* A step that puts y for the request of w.
LEMMA MoveKeeps ==
    ASSUME IInv, RowsKept, NEW w \in Worker, NEW y \in Request, Shape(rows', y),
           wk' = [wk EXCEPT ![w] = y]
    PROVE  RequestsTyped' /\ ShapeInv'
<1>1. RequestsTyped'
  BY DEF IInv, TypeOK, RequestsTyped
<1>2. ASSUME NEW v \in Worker
      PROVE  Shape(rows', wk'[v])
  <2>1. CASE v = w
    BY <2>1 DEF IInv, TypeOK
  <2>2. CASE v # w
    <3>1. wk'[v] = wk[v]
      BY <2>2 DEF IInv, TypeOK
    <3>2. Shape(rows, wk[v]) /\ wk[v].subs \subseteq Sub
      BY DEF IInv, TypeOK, ShapeInv, Request
    <3> QED
      BY <3>1, <3>2 DEF Shape, RowsKept
  <2> QED
    BY <2>1, <2>2
<1> QED
  BY <1>1, <1>2 DEF ShapeInv

\* Moving on to a step that relies on nothing that was not known before.
LEMMA GotoKeeps ==
    ASSUME IInv, RowsKept, NEW w \in Worker, NEW at, Goto(w, at),
           \/ at \in {"idle", "onboard", "revert"}
           \/ at \in Inviting /\ wk[w].at \in Inviting
    PROVE  RequestsTyped' /\ ShapeInv'
<1>1. CASE at = "idle"
  <2>1. wk' = [wk EXCEPT ![w] = Idle]
    BY <1>1 DEF Goto
  <2> QED
    BY <2>1, IdleTyped, MoveKeeps
<1>2. CASE at # "idle"
  <2> DEFINE y == [wk[w] EXCEPT !.at = at]
  <2>1. wk' = [wk EXCEPT ![w] = y]
    BY <1>2 DEF Goto
  <2>2. wk[w] \in Request /\ Shape(rows, wk[w])
    BY DEF IInv, TypeOK, ShapeInv
  <2>3. y \in Request
    BY <1>2, <2>2 DEF Request, Inviting
  <2>4. y.at = at /\ y.person = wk[w].person /\ y.subs = wk[w].subs /\ y.todo = wk[w].todo
    BY <2>2 DEF Request
  <2>5. Shape(rows', y)
    BY <1>2, <2>2, <2>4 DEF Shape, Inviting
  <2> HIDE DEF y
  <2> QED
    BY <2>1, <2>3, <2>5, MoveKeeps
<1> QED
  BY <1>1, <1>2

LEMMA StartKeeps ==
    ASSUME IInv, NEW w \in Worker, NEW op \in Offered,
           NEW at \in {"accounts", "commit", "provision"},
           NEW subs \in SUBSET Sub, NEW cos \in SUBSET Company, NEW p \in Person \cup {None},
           Start(w, op, at, subs, cos, p),
           \A s \in subs : rows[s].status # "none",
           at = "provision" => p \in Person,
           at = "commit" => op \in Reinstating \cup {"confirmCompany"}
    PROVE  IInv'
<1> DEFINE y == [op |-> op, at |-> at, subs |-> subs,
                 todo |-> IF at = "accounts" THEN subs ELSE {}, cos |-> cos, person |-> p]
<1>1. /\ wk' = [wk EXCEPT ![w] = y]
      /\ UNCHANGED <<corp, company, rows, account, enabled, failures>>
  BY DEF Start
<1>2. y \in Request
  BY DEF Request
<1>3. Shape(rows', y)
  BY <1>1 DEF Shape, Inviting
<1> HIDE DEF y
<1>4. RequestsTyped' /\ ShapeInv'
  BY <1>1, <1>2, <1>3, MoveKeeps, SameRows
<1> QED
  BY <1>1, <1>4 DEF IInv, TypeOK, RequestsTyped, EnabledHaveAccount

-------------------------------------------------------------------------------
LEMMA InitOK == Init => IInv
<1> SUFFICES ASSUME Init
             PROVE  IInv
  OBVIOUS
<1>1. corp \in Status /\ company \in [Company -> Status]
  BY DEF Init, Status
<1>2. PoolTyped /\ EnabledHaveAccount
  BY AccessAssumption DEF Init, PoolTyped, EnabledHaveAccount
<1>3. RowsTyped
  <2>1. ASSUME NEW s \in Sub
        PROVE  rows[s] \in Row \cup {NoRow}
    <3>1. CASE \E p \in Admin : account[p] = s
      <4>1. (CHOOSE p \in Admin : account[p] = s) \in Person
        BY <3>1, AccessAssumption
      <4>2. rows[s] = AdminRow(CHOOSE p \in Admin : account[p] = s)
        BY <3>1 DEF Init
      <4> QED
        BY <4>1, <4>2 DEF AdminRow, Row, RowStatus
    <3>2. CASE ~ \E p \in Admin : account[p] = s
      BY <3>2 DEF Init
    <3> QED
      BY <3>1, <3>2
  <2> QED
    BY <2>1 DEF Init, RowsTyped
<1>4. RequestsTyped /\ ShapeInv
  BY IdleTyped DEF Init, RequestsTyped, ShapeInv
<1>5. failures \in 0..MaxFailure
  BY AccessAssumption DEF Init
<1> QED
  BY <1>1, <1>2, <1>3, <1>4, <1>5 DEF IInv, TypeOK, PoolTyped, RowsTyped, RequestsTyped

LEMMA BeginKeeps ==
    ASSUME IInv, NEW w \in Worker, Begin(w)
    PROVE  IInv'
<1>0. None \in Person \cup {None} /\ {} \in SUBSET Sub /\ {} \in SUBSET Company
      /\ Company \in SUBSET Company /\ Suspended \in SUBSET Company
  BY DEF Suspended
<1>a. People \in SUBSET Sub /\ \A s \in People : rows[s].status # "none"
  BY DEF People, Live
<1>b. ASSUME NEW c \in Company
      PROVE  /\ {c} \in SUBSET Company
             /\ Members({c}) \in SUBSET Sub
             /\ \A s \in Members({c}) : rows[s].status # "none"
  BY DEF Members, People, Live
<1>c. ASSUME NEW s \in Sub
      PROVE  {s} \in SUBSET Sub
  OBVIOUS
<1>1. CASE BeginConfirmCorporation(w)
  <2>1. Start(w, "confirmCorporation", "accounts", {}, {}, None)
    BY <1>1 DEF BeginConfirmCorporation
  <2> QED
    BY <1>0, <2>1, StartKeeps DEF Offered
<1>2. CASE BeginSuspendCorporation(w)
  <2>1. Start(w, "suspendCorporation", "accounts", People, Company, None)
    BY <1>2 DEF BeginSuspendCorporation
  <2> QED
    BY <1>0, <1>a, <2>1, StartKeeps DEF Offered
<1>3. CASE BeginCloseCorporation(w)
  <2>1. Start(w, "closeCorporation", "accounts", People, Company, None)
    BY <1>3 DEF BeginCloseCorporation
  <2> QED
    BY <1>0, <1>a, <2>1, StartKeeps DEF Offered
<1>4. CASE BeginReinstateCorporation(w)
  <2>1. Start(w, "reinstateCorporation", "commit", People, Suspended, None)
    BY <1>4 DEF BeginReinstateCorporation
  <2> QED
    BY <1>0, <1>a, <2>1, StartKeeps DEF Offered, Reinstating
<1>5. ASSUME NEW c \in Company, BeginConfirmCompany(w, c)
      PROVE  IInv'
  <2>1. Start(w, "confirmCompany", "commit", {}, {c}, None)
    BY <1>5 DEF BeginConfirmCompany
  <2> QED
    BY <1>0, <1>b, <2>1, StartKeeps DEF Offered
<1>6. ASSUME NEW c \in Company, BeginSuspendCompany(w, c)
      PROVE  IInv'
  <2>1. Start(w, "suspendCompany", "accounts", Members({c}), {c}, None)
    BY <1>6 DEF BeginSuspendCompany
  <2> QED
    BY <1>0, <1>b, <2>1, StartKeeps DEF Offered
<1>7. ASSUME NEW c \in Company, BeginReinstateCompany(w, c)
      PROVE  IInv'
  <2>1. Start(w, "reinstateCompany", "commit", Members({c}), {c}, None)
    BY <1>7 DEF BeginReinstateCompany
  <2> QED
    BY <1>0, <1>b, <2>1, StartKeeps DEF Offered, Reinstating
<1>8. ASSUME NEW p \in Person, NEW c \in Company, BeginInvite(w, p, c)
      PROVE  IInv'
  <2>1. Start(w, "invite", "provision", {}, {c}, p)
    BY <1>8 DEF BeginInvite
  <2> QED
    BY <1>0, <1>b, <2>1, StartKeeps DEF Offered
<1>9. ASSUME NEW s \in Sub, NEW op \in {"block", "unblock", "cancel", "resend", "delete"},
             rows[s].status # "none", Start(w, op, "accounts", {s}, {}, None)
      PROVE  IInv'
  BY <1>0, <1>c, <1>9, StartKeeps DEF Offered
<1>10. ASSUME NEW s \in Sub,
              BeginBlock(w, s) \/ BeginCancel(w, s) \/ BeginResend(w, s) \/ BeginDelete(w, s)
       PROVE  IInv'
  <2>1. rows[s].status # "none"
    BY <1>10, <1>a DEF BeginBlock, BeginCancel, BeginResend, BeginDelete
  <2> QED
    BY <1>9, <1>10, <2>1 DEF BeginBlock, BeginCancel, BeginResend, BeginDelete
<1> QED
  BY <1>1, <1>2, <1>3, <1>4, <1>5, <1>6, <1>7, <1>8, <1>10 DEF Begin

LEMMA ChangeAccountKeeps ==
    ASSUME IInv, NEW w \in Worker, NEW s \in Sub, ChangeAccount(w, s)
    PROVE  IInv'
<1> DEFINE p == rows[s].person
           y == IF wk[w].op = "resend" /\ account[p] = None THEN Idle
                ELSE [wk[w] EXCEPT !.todo = @ \ {s}]
<1>0. wk[w] \in Request /\ Shape(rows, wk[w])
  BY DEF IInv, TypeOK, ShapeInv
<1>1. rows[s].status # "none"
  BY <1>0 DEF ChangeAccount, At, Shape
<1>2. p \in Person
  BY <1>1, RowKnown DEF IInv, TypeOK, RowsTyped, Row
<1>3. PoolTyped' /\ EnabledHaveAccount'
  BY <1>2 DEF ChangeAccount, IInv, TypeOK, PoolTyped, EnabledHaveAccount
<1>4. UNCHANGED <<corp, company, rows, failures>>
  BY DEF ChangeAccount
<1>5. wk' = [wk EXCEPT ![w] = y]
  BY DEF ChangeAccount
<1>6. y \in Request /\ Shape(rows', y)
  <2>1. CASE y = Idle
    BY <2>1, IdleTyped
  <2>2. CASE y = [wk[w] EXCEPT !.todo = @ \ {s}]
    <3>1. y \in Request /\ y.at = wk[w].at /\ y.op = wk[w].op /\ y.person = wk[w].person
          /\ y.subs = wk[w].subs /\ y.todo = wk[w].todo \ {s}
      BY <1>0, <2>2 DEF Request
    <3> QED
      BY <1>0, <1>4, <3>1 DEF Shape
  <2> QED
    BY <2>1, <2>2
<1> HIDE DEF y
<1>7. RequestsTyped' /\ ShapeInv'
  BY <1>4, <1>5, <1>6, MoveKeeps, SameRows
<1> QED
  BY <1>3, <1>4, <1>7 DEF IInv, TypeOK, PoolTyped, RequestsTyped

LEMMA CommitKeeps ==
    ASSUME IInv, NEW w \in Worker, Commit(w)
    PROVE  IInv'
<1> DEFINE op == wk[w].op
<1>0. wk[w] \in Request /\ Shape(rows, wk[w])
  BY DEF IInv, TypeOK, ShapeInv
<1>1. OrgTyped'
  <2>1. CorporationAfter(op) \in Status
    BY DEF CorporationAfter, Status, IInv, TypeOK
  <2>2. CompanyAfter(op) \in Status
    BY DEF CompanyAfter, Status
  <2> QED
    BY <2>1, <2>2 DEF Commit, OrgTyped, IInv, TypeOK
<1>2. RowsTyped' /\ RowsKept
  <2>1. StatusAfter(op) \in RowStatus
    BY DEF StatusAfter, RowStatus
  <2>2. ASSUME NEW s \in Sub
        PROVE  /\ rows'[s] \in Row \cup {NoRow}
               /\ rows[s].status # "none" =>
                     /\ rows'[s].status # "none"
                     /\ rows'[s].person = rows[s].person
                     /\ rows'[s].access = rows[s].access
    <3>1. CASE s \in wk[w].subs /\ Live(s)
      <4>1. rows[s] \in Row
        BY <3>1, RowKnown DEF Live, IInv, TypeOK, RowsTyped
      <4>2. rows'[s] = [rows[s] EXCEPT !.status = StatusAfter(op)]
        BY <3>1 DEF Commit
      <4>3. rows'[s] \in Row /\ rows'[s].person = rows[s].person /\ rows'[s].access = rows[s].access
            /\ rows'[s].status = StatusAfter(op)
        BY <2>1, <4>1, <4>2 DEF Row
      <4> QED
        BY <2>1, <4>3 DEF RowStatus
    <3>2. CASE ~(s \in wk[w].subs /\ Live(s))
      <4>1. rows'[s] = rows[s]
        BY <3>2 DEF Commit
      <4> QED
        BY <4>1 DEF IInv, TypeOK
    <3> QED
      BY <3>1, <3>2
  <2>3. rows' = [s \in Sub |-> rows'[s]]
    BY DEF Commit
  <2> QED
    BY <2>2, <2>3 DEF RowsTyped, RowsKept
<1>3. RequestsTyped' /\ ShapeInv'
  <2>1. CASE op \in Reinstating
    <3> DEFINE y == [wk[w] EXCEPT !.at = "accounts", !.todo = wk[w].subs]
    <3>1. wk' = [wk EXCEPT ![w] = y]
      BY <2>1 DEF Commit
    <3>2. y \in Request /\ y.at = "accounts" /\ y.subs = wk[w].subs /\ y.todo = wk[w].subs
      BY <1>0 DEF Request
    <3>3. \A s \in wk[w].subs : rows[s].status # "none" /\ s \in Sub
      BY <1>0 DEF Commit, MayCommit, At, Shape, Request
    <3>4. Shape(rows', y)
      BY <1>2, <3>2, <3>3 DEF Shape, Inviting, RowsKept
    <3> HIDE DEF y
    <3> QED
      BY <1>2, <3>1, <3>2, <3>4, MoveKeeps
  <2>2. CASE op \notin Reinstating
    <3>1. Goto(w, "onboard") \/ Goto(w, "idle")
      BY <2>2 DEF Commit
    <3> QED
      BY <1>2, <3>1, GotoKeeps
  <2> QED
    BY <2>1, <2>2
<1>4. UNCHANGED <<account, enabled, failures>>
  BY DEF Commit
<1> QED
  BY <1>1, <1>2, <1>3, <1>4 DEF IInv, TypeOK, OrgTyped, RowsTyped, RequestsTyped, EnabledHaveAccount

LEMMA InviteKeeps ==
    ASSUME IInv, NEW w \in Worker,
           ProvisionAccount(w) \/ LookUpAccount(w) \/ InsertRow(w) \/ RollBackInvite(w)
    PROVE  IInv'
<1>0. /\ wk[w] \in Request /\ Shape(rows, wk[w])
      /\ wk[w].at \in Inviting => wk[w].person \in Person
  BY DEF IInv, TypeOK, ShapeInv, Shape
<1>1. CASE ProvisionAccount(w)
  <2>1. UNCHANGED <<corp, company, rows, failures>> /\ Goto(w, "lookup") /\ wk[w].at = "provision"
    BY <1>1 DEF ProvisionAccount, At
  <2>2. wk[w].person \in Person
    BY <1>0, <2>1 DEF Inviting
  <2>3. PoolTyped' /\ EnabledHaveAccount'
    <3>1. CASE account[wk[w].person] # None
      BY <1>1, <3>1 DEF ProvisionAccount, IInv, TypeOK, PoolTyped, EnabledHaveAccount
    <3>2. CASE account[wk[w].person] = None
      BY <1>1, <2>2, <3>2, AccessAssumption
      DEF ProvisionAccount, IInv, TypeOK, PoolTyped, EnabledHaveAccount
    <3> QED
      BY <3>1, <3>2
  <2>4. RequestsTyped' /\ ShapeInv'
    BY <2>1, GotoKeeps, SameRows DEF Inviting
  <2> QED
    BY <2>1, <2>3, <2>4 DEF IInv, TypeOK, PoolTyped, RequestsTyped
<1>2. CASE LookUpAccount(w)
  <2> DEFINE s == account[wk[w].person]
             at == IF s = None THEN "rollback" ELSE "insert"
             y == [wk[w] EXCEPT !.at = at, !.subs = {s} \ {None}]
  <2>1. /\ UNCHANGED <<corp, company, rows, account, enabled, failures>>
        /\ wk[w].at = "lookup"
        /\ wk' = [wk EXCEPT ![w] = y]
    BY <1>2 DEF LookUpAccount, At
  <2>2. wk[w].person \in Person /\ wk[w].todo = {}
    BY <1>0, <2>1 DEF Inviting, Shape
  <2>3. s \in Sub \cup {None}
    BY <2>2 DEF IInv, TypeOK
  <2>4. y \in Request /\ y.at = at /\ y.person = wk[w].person /\ y.todo = {}
    BY <1>0, <2>2, <2>3 DEF Request
  <2>5. Shape(rows', y)
    BY <2>2, <2>4 DEF Shape, Inviting
  <2> HIDE DEF y
  <2>6. RequestsTyped' /\ ShapeInv'
    BY <2>1, <2>4, <2>5, MoveKeeps, SameRows
  <2> QED
    BY <2>1, <2>6 DEF IInv, TypeOK, RequestsTyped, EnabledHaveAccount
<1>3. CASE InsertRow(w)
  <2>1. /\ UNCHANGED <<corp, company, account, enabled, failures>>
        /\ wk[w].at = "insert"
    BY <1>3 DEF InsertRow, At
  <2>2. wk[w].person \in Person
    BY <1>0, <2>1 DEF Inviting
  <2>3. PICK s \in wk[w].subs :
           \/ /\ rows[s] = NoRow
              /\ rows' = [rows EXCEPT ![s] = [person |-> wk[w].person, access |-> wk[w].cos,
                                              status |-> "Pending"]]
              /\ Goto(w, "idle")
           \/ UNCHANGED rows /\ Goto(w, "rollback")
    BY <1>3 DEF InsertRow
  <2>4. RowsTyped' /\ RowsKept
    <3>1. CASE UNCHANGED rows
      BY <3>1, SameRows DEF IInv, TypeOK, RowsTyped
    <3>2. CASE /\ rows[s] = NoRow
               /\ rows' = [rows EXCEPT ![s] = [person |-> wk[w].person, access |-> wk[w].cos,
                                               status |-> "Pending"]]
      <4>1. [person |-> wk[w].person, access |-> wk[w].cos, status |-> "Pending"] \in Row
        BY <1>0, <2>2 DEF Row, RowStatus, Request
      <4>2. RowsTyped'
        BY <3>2, <4>1 DEF IInv, TypeOK, RowsTyped
      <4>3. \A t \in Sub \ {s} : rows'[t] = rows[t]
        BY <3>2 DEF IInv, TypeOK
      <4>4. rows[s].status = "none"
        BY <3>2 DEF NoRow
      <4>5. RowsKept
        BY <4>3, <4>4 DEF RowsKept
      <4> QED
        BY <4>2, <4>5
    <3> QED
      BY <2>3, <3>1, <3>2
  <2>5. RequestsTyped' /\ ShapeInv'
    BY <2>1, <2>3, <2>4, GotoKeeps DEF Inviting
  <2> QED
    BY <2>1, <2>4, <2>5 DEF IInv, TypeOK, RowsTyped, RequestsTyped, EnabledHaveAccount
<1>4. CASE RollBackInvite(w)
  <2>1. UNCHANGED <<corp, company, rows, failures>> /\ Goto(w, "idle") /\ wk[w].at = "rollback"
    BY <1>4 DEF RollBackInvite, At
  <2>2. PoolTyped' /\ EnabledHaveAccount'
    BY <1>4 DEF RollBackInvite, IInv, TypeOK, PoolTyped, EnabledHaveAccount
  <2>3. RequestsTyped' /\ ShapeInv'
    BY <2>1, GotoKeeps, SameRows
  <2> QED
    BY <2>1, <2>2, <2>3 DEF IInv, TypeOK, PoolTyped, RequestsTyped
<1> QED
  BY <1>1, <1>2, <1>3, <1>4

LEMMA RestKeeps ==
    ASSUME IInv, NEW w \in Worker, Finish(w) \/ RevertConfirmation(w) \/ RequestFails(w)
    PROVE  IInv'
<1>1. CASE Finish(w)
  <2>1. UNCHANGED <<corp, company, rows, account, enabled, failures>> /\ Goto(w, "idle")
    BY <1>1 DEF Finish
  <2>2. RequestsTyped' /\ ShapeInv'
    BY <2>1, GotoKeeps, SameRows
  <2> QED
    BY <2>1, <2>2 DEF IInv, TypeOK, RequestsTyped, EnabledHaveAccount
<1>2. CASE RevertConfirmation(w)
  <2>1. UNCHANGED <<corp, rows, account, enabled, failures>> /\ Goto(w, "idle")
    BY <1>2 DEF RevertConfirmation
  <2>2. company' \in [Company -> Status]
    BY <1>2 DEF RevertConfirmation, IInv, TypeOK, Status
  <2>3. RequestsTyped' /\ ShapeInv'
    BY <2>1, GotoKeeps, SameRows
  <2> QED
    BY <2>1, <2>2, <2>3 DEF IInv, TypeOK, RequestsTyped, EnabledHaveAccount
<1>3. CASE RequestFails(w)
  <2>1. UNCHANGED <<corp, company, rows, account, enabled>>
    BY <1>3 DEF RequestFails
  <2>2. failures' \in 0..MaxFailure
    BY <1>3, AccessAssumption DEF RequestFails, IInv, TypeOK
  <2>3. \/ wk[w].at \in {"lookup", "insert"} /\ Goto(w, "rollback")
        \/ Goto(w, "revert")
        \/ Goto(w, "idle")
    BY <1>3 DEF RequestFails, AfterFailure
  <2>4. RequestsTyped' /\ ShapeInv'
    BY <2>1, <2>3, GotoKeeps, SameRows DEF Inviting
  <2> QED
    BY <2>1, <2>2, <2>4 DEF IInv, TypeOK, RequestsTyped, EnabledHaveAccount
<1> QED
  BY <1>1, <1>2, <1>3

LEMMA LogInKeeps ==
    ASSUME IInv, NEW p \in Person, LogIn(p)
    PROVE  IInv'
<1>1. PICK s \in Sub : /\ rows[s].status = "Pending"
                       /\ rows' = [rows EXCEPT ![s].status = "Active"]
  BY DEF LogIn
<1>2. rows[s] \in Row
  BY <1>1, RowKnown DEF IInv, TypeOK, RowsTyped
<1>3. rows' = [rows EXCEPT ![s] = [rows[s] EXCEPT !.status = "Active"]]
  BY <1>1
<1>4. [rows[s] EXCEPT !.status = "Active"] \in Row
  BY <1>2 DEF Row, RowStatus
<1>5. RowsTyped' /\ RowsKept
  BY <1>2, <1>3, <1>4 DEF IInv, TypeOK, RowsTyped, RowsKept, Row
<1>6. UNCHANGED <<corp, company, account, enabled, wk, failures>>
  BY DEF LogIn
<1>7. ShapeInv'
  <2>1. \A v \in Worker : wk[v].subs \subseteq Sub
    BY DEF IInv, TypeOK, Request
  <2> QED
    BY <1>5, <1>6, <2>1 DEF IInv, ShapeInv, Shape, RowsKept
<1> QED
  BY <1>5, <1>6, <1>7 DEF IInv, TypeOK, RowsTyped, EnabledHaveAccount

LEMMA NextKeeps == IInv /\ [Next]_vars => IInv'
<1> SUFFICES ASSUME IInv, [Next]_vars
             PROVE  IInv'
  OBVIOUS
<1>1. CASE UNCHANGED vars
  BY <1>1 DEF vars, IInv, TypeOK, ShapeInv, EnabledHaveAccount
<1>2. ASSUME NEW w \in Worker, Proceed(w)
      PROVE  IInv'
  BY <1>2, ChangeAccountKeeps, CommitKeeps, InviteKeeps, RestKeeps DEF Proceed
<1> QED
  BY <1>1, <1>2, BeginKeeps, LogInKeeps DEF Next

\* The types, for any number of requests: in particular no request writes for
\* somebody who is not there, and nobody is enabled without an account.
THEOREM AccessTypeCorrect == Spec => []TypeOK
<1>1. Spec => []IInv
  BY InitOK, NextKeeps, PTL DEF Spec
<1>2. IInv => TypeOK
  BY DEF IInv
<1> QED
  BY <1>1, <1>2, PTL

-------------------------------------------------------------------------------
(* Requests that run one at a time.                                        *)

TakingDown == {"suspendCompany", "suspendCorporation", "closeCorporation"}

\* A request x that takes a company or the corporation down has on its list
\* everybody it will affect, and those it has dealt with are not enabled.
Complete(rs, en, x) ==
    x.at = "accounts" /\ x.op \in TakingDown =>
        /\ \A s \in Sub : rs[s].status \notin {"none", "Deleted"} =>
              \/ s \in x.subs
              \/ x.op = "suspendCompany" /\ rs[s].access \cap x.cos = {}
        /\ \A s \in x.subs \ x.todo : rs[s].person \notin en

Alone == \A v, w \in Worker : v = w

CompleteInv == \A w \in Worker : Complete(rows, enabled, wk[w])

LEMMA BeginComplete ==
    ASSUME Alone, IInv, NEW w \in Worker, Begin(w)
    PROVE  Complete(rows', enabled', wk'[w])
<1>a. ASSUME NEW op, NEW at, NEW subs, NEW cos, NEW p, Start(w, op, at, subs, cos, p),
             \/ at # "accounts" \/ op \notin TakingDown
             \/ op = "suspendCompany" /\ subs = Members(cos)
             \/ subs = People
      PROVE  Complete(rows', enabled', wk'[w])
  <2>1. /\ UNCHANGED <<rows, enabled>>
        /\ wk'[w].op = op /\ wk'[w].at = at /\ wk'[w].subs = subs /\ wk'[w].cos = cos
        /\ wk'[w].todo = IF at = "accounts" THEN subs ELSE {}
    BY <1>a DEF Start, IInv, TypeOK
  <2> QED
    BY <1>a, <2>1 DEF Complete, Members, People, Live
<1>b. "confirmCorporation" \notin TakingDown /\ "block" \notin TakingDown
      /\ "unblock" \notin TakingDown /\ "cancel" \notin TakingDown
      /\ "resend" \notin TakingDown /\ "delete" \notin TakingDown
  BY DEF TakingDown
<1>1. CASE BeginConfirmCorporation(w) \/ BeginReinstateCorporation(w)
  BY <1>1, <1>a, <1>b DEF BeginConfirmCorporation, BeginReinstateCorporation
<1>2. CASE BeginSuspendCorporation(w) \/ BeginCloseCorporation(w)
  BY <1>2, <1>a DEF BeginSuspendCorporation, BeginCloseCorporation
<1>3. ASSUME NEW c \in Company,
             BeginConfirmCompany(w, c) \/ BeginSuspendCompany(w, c) \/ BeginReinstateCompany(w, c)
      PROVE  Complete(rows', enabled', wk'[w])
  BY <1>3, <1>a DEF BeginConfirmCompany, BeginSuspendCompany, BeginReinstateCompany
<1>4. ASSUME NEW p \in Person, NEW c \in Company, BeginInvite(w, p, c)
      PROVE  Complete(rows', enabled', wk'[w])
  BY <1>4, <1>a DEF BeginInvite
<1>5. ASSUME NEW s \in Sub,
             BeginBlock(w, s) \/ BeginCancel(w, s) \/ BeginResend(w, s) \/ BeginDelete(w, s)
      PROVE  Complete(rows', enabled', wk'[w])
  BY <1>5, <1>a, <1>b DEF BeginBlock, BeginCancel, BeginResend, BeginDelete
<1> QED
  BY <1>1, <1>2, <1>3, <1>4, <1>5 DEF Begin

LEMMA ProceedComplete ==
    ASSUME Alone, IInv, CompleteInv, NEW w \in Worker, Proceed(w)
    PROVE  Complete(rows', enabled', wk'[w])
<1>0. wk[w] \in Request /\ Complete(rows, enabled, wk[w])
  BY DEF IInv, TypeOK, CompleteInv
<1>1. ASSUME NEW s \in Sub, ChangeAccount(w, s)
      PROVE  Complete(rows', enabled', wk'[w])
  <2> SUFFICES ASSUME wk'[w].at = "accounts", wk'[w].op \in TakingDown
               PROVE  Complete(rows', enabled', wk'[w])
    BY DEF Complete
  <2>1. UNCHANGED rows
    BY <1>1 DEF ChangeAccount
  <2>2. wk'[w] # Idle
    BY DEF Idle
  <2>3. wk'[w] = [wk[w] EXCEPT !.todo = @ \ {s}]
    BY <1>1, <2>2 DEF ChangeAccount, IInv, TypeOK
  <2>4. /\ wk'[w].op = wk[w].op /\ wk'[w].at = wk[w].at /\ wk'[w].cos = wk[w].cos
        /\ wk'[w].subs = wk[w].subs /\ wk'[w].todo = wk[w].todo \ {s}
    BY <1>0, <2>3 DEF Request
  <2>5. wk[w].op \in Disabling
    BY <2>4 DEF TakingDown, Disabling
  <2>6. enabled' \subseteq enabled
    BY <1>1, <2>5 DEF ChangeAccount
  <2>7. rows[s].person \notin enabled'
    BY <1>1, <2>5 DEF ChangeAccount, IInv, EnabledHaveAccount
  <2> QED
    BY <1>0, <2>1, <2>4, <2>6, <2>7 DEF Complete
<1>2. ASSUME wk'[w].at # "accounts"
      PROVE  Complete(rows', enabled', wk'[w])
  BY <1>2 DEF Complete
<1>3. CASE Commit(w)
  <2>1. CASE wk[w].op \in Reinstating
    <3>1. wk'[w] = [wk[w] EXCEPT !.at = "accounts", !.todo = wk[w].subs]
      BY <1>3, <2>1 DEF Commit, IInv, TypeOK
    <3>2. wk'[w].op = wk[w].op
      BY <1>0, <3>1 DEF Request
    <3> QED
      BY <2>1, <3>2 DEF Complete, TakingDown, Reinstating
  <2>2. CASE wk[w].op \notin Reinstating
    <3>1. Goto(w, "onboard") \/ Goto(w, "idle")
      BY <1>3, <2>2 DEF Commit
    <3>2. wk'[w].at # "accounts"
      BY <1>0, <3>1 DEF Goto, Idle, IInv, TypeOK, Request
    <3> QED
      BY <1>2, <3>2
  <2> QED
    BY <2>1, <2>2
<1>4. CASE LookUpAccount(w)
  <2>1. wk'[w].at \in {"rollback", "insert"}
    BY <1>0, <1>4 DEF LookUpAccount, IInv, TypeOK, Request
  <2> QED
    BY <1>2, <2>1
<1>5. CASE Finish(w) \/ ProvisionAccount(w) \/ InsertRow(w) \/ RollBackInvite(w)
           \/ RevertConfirmation(w) \/ RequestFails(w)
  <2>1. PICK at \in {"idle", "lookup", "rollback", "revert"} : Goto(w, at)
    BY <1>5 DEF Finish, ProvisionAccount, InsertRow, RollBackInvite, RevertConfirmation,
                RequestFails, AfterFailure
  <2>2. wk'[w].at # "accounts"
    BY <1>0, <2>1 DEF Goto, Idle, IInv, TypeOK, Request
  <2> QED
    BY <1>2, <2>2
<1> QED
  BY <1>1, <1>3, <1>4, <1>5 DEF Proceed

LEMMA LogInComplete ==
    ASSUME IInv, CompleteInv, NEW p \in Person, LogIn(p), NEW w \in Worker
    PROVE  Complete(rows', enabled', wk'[w])
<1>1. PICK t \in Sub : /\ rows[t].status = "Pending"
                       /\ rows' = [rows EXCEPT ![t].status = "Active"]
  BY DEF LogIn
<1>2. rows[t] \in Row
  BY <1>1, RowKnown DEF IInv, TypeOK, RowsTyped
<1>3. rows' = [rows EXCEPT ![t] = [rows[t] EXCEPT !.status = "Active"]]
  BY <1>1
<1>4. \A s \in Sub : /\ rows'[s].person = rows[s].person
                     /\ rows'[s].access = rows[s].access
                     /\ rows'[s].status \notin {"none", "Deleted"} =>
                           rows[s].status \notin {"none", "Deleted"}
  <2>1. \A s \in Sub \ {t} : rows'[s] = rows[s]
    BY <1>3 DEF IInv, TypeOK
  <2>2. rows'[t] = [rows[t] EXCEPT !.status = "Active"]
    BY <1>3 DEF IInv, TypeOK
  <2> QED
    BY <1>1, <1>2, <2>1, <2>2 DEF Row
<1>5. UNCHANGED <<enabled, wk>>
  BY DEF LogIn
<1>6. wk[w].subs \subseteq Sub /\ Complete(rows, enabled, wk[w])
  BY DEF IInv, TypeOK, Request, CompleteInv
<1> QED
  BY <1>4, <1>5, <1>6 DEF Complete

LEMMA CompleteKept ==
    ASSUME Alone
    PROVE  IInv /\ CompleteInv /\ [Next]_vars => CompleteInv'
<1> SUFFICES ASSUME IInv, CompleteInv, [Next]_vars, NEW v \in Worker
             PROVE  Complete(rows', enabled', wk'[v])
  BY DEF CompleteInv
<1>1. CASE UNCHANGED vars
  BY <1>1 DEF vars, CompleteInv
<1>2. ASSUME NEW w \in Worker, Begin(w) \/ Proceed(w)
      PROVE  Complete(rows', enabled', wk'[v])
  <2>1. v = w
    BY DEF Alone
  <2> QED
    BY <1>2, <2>1, BeginComplete, ProceedComplete
<1> QED
  BY <1>1, <1>2, LogInComplete DEF Next

LEMMA CommitBlocks ==
    ASSUME IInv, CompleteInv, NEW w \in Worker, Commit(w)
    PROVE  BlocksMembers
<1> DEFINE op == wk[w].op
<1>0. wk[w] \in Request /\ Shape(rows, wk[w]) /\ Complete(rows, enabled, wk[w])
  BY DEF IInv, TypeOK, ShapeInv, CompleteInv
<1> SUFFICES ASSUME NEW s \in People, OrgUp(s), ~OrgUp(s)'
             PROVE  rows'[s].status = "Blocked" /\ rows[s].person \notin enabled'
  BY DEF BlocksMembers
<1>1. s \in Sub /\ Live(s) /\ rows[s].status \notin {"none", "Deleted"}
  BY DEF People, Live
<1>2. rows[s] \in Row
  BY <1>1, RowKnown DEF IInv, TypeOK, RowsTyped
<1>3. rows'[s].access = rows[s].access /\ rows[s].access \subseteq Company
  BY <1>1, <1>2 DEF Commit, Row
<1>4. \/ CorporationAfter(op) \in Down /\ corp \notin Down
      \/ \E c \in rows[s].access : c \in wk[w].cos /\ CompanyAfter(op) \in Down
  BY <1>3 DEF OrgUp, Commit
<1>5. op \in TakingDown
  BY <1>4 DEF CorporationAfter, CompanyAfter, TakingDown, Down
<1>6. wk[w].at = "accounts" /\ wk[w].todo = {}
  <2>1. wk[w].at # "commit"
    BY <1>0, <1>5 DEF Shape, TakingDown, Reinstating
  <2> QED
    BY <2>1 DEF Commit, MayCommit, At
<1>7. s \in wk[w].subs
  <2>1. CASE CorporationAfter(op) \in Down /\ corp \notin Down
    <3>1. op # "suspendCompany"
      BY <2>1 DEF CorporationAfter
    <3> QED
      BY <1>0, <1>1, <1>5, <1>6, <3>1 DEF Complete
  <2>2. CASE \E c \in rows[s].access : c \in wk[w].cos
    BY <1>0, <1>1, <1>5, <1>6, <2>2 DEF Complete
  <2> QED
    BY <1>4, <2>1, <2>2
<1>8. rows[s].person \notin enabled'
  BY <1>0, <1>5, <1>6, <1>7 DEF Complete, Commit
<1>9. rows'[s] = [rows[s] EXCEPT !.status = StatusAfter(op)]
  BY <1>1, <1>7 DEF Commit
<1>10. StatusAfter(op) = "Blocked"
  BY <1>5 DEF StatusAfter, Disabling, TakingDown
<1> QED
  BY <1>2, <1>8, <1>9, <1>10 DEF Row

\* Any other step takes nobody's company or corporation down.
LEMMA OthersBlock ==
    ASSUME IInv, UNCHANGED <<corp, company>> \/ \E w \in Worker : RevertConfirmation(w),
           RowsKept
    PROVE  BlocksMembers
<1> SUFFICES ASSUME NEW s \in People, OrgUp(s)
             PROVE  OrgUp(s)'
  BY DEF BlocksMembers
<1>1. s \in Sub /\ rows[s].status # "none"
  BY DEF People, Live
<1>2. rows[s] \in Row
  BY <1>1, RowKnown DEF IInv, TypeOK, RowsTyped
<1>3. rows'[s].access = rows[s].access /\ rows[s].access \subseteq Company
  BY <1>1, <1>2 DEF RowsKept, Row
<1>4. corp' = corp /\ \A c \in Company : company[c] \notin Down => company'[c] \notin Down
  BY DEF RevertConfirmation, Down, IInv, TypeOK
<1> QED
  BY <1>3, <1>4 DEF OrgUp

LEMMA InsertRowKeepsRows ==
    ASSUME IInv, NEW w \in Worker, InsertRow(w)
    PROVE  RowsKept
<1>1. PICK s \in wk[w].subs :
         \/ rows[s] = NoRow /\ \E r : rows' = [rows EXCEPT ![s] = r] /\ r.status # "none"
         \/ UNCHANGED rows
  <2>1. [person |-> wk[w].person, access |-> wk[w].cos, status |-> "Pending"].status # "none"
    OBVIOUS
  <2> QED
    BY <2>1 DEF InsertRow
<1>2. CASE UNCHANGED rows
  BY <1>2, SameRows
<1>3. CASE rows[s] = NoRow /\ \E r : rows' = [rows EXCEPT ![s] = r]
  BY <1>3 DEF RowsKept, NoRow, IInv, TypeOK
<1> QED
  BY <1>1, <1>2, <1>3

LEMMA LogInKeepsRows ==
    ASSUME IInv, NEW p \in Person, LogIn(p)
    PROVE  RowsKept
<1>1. PICK s \in Sub : /\ rows[s].status = "Pending"
                       /\ rows' = [rows EXCEPT ![s].status = "Active"]
  BY DEF LogIn
<1>2. rows[s] \in Row
  BY <1>1, RowKnown DEF IInv, TypeOK, RowsTyped
<1>3. rows' = [rows EXCEPT ![s] = [rows[s] EXCEPT !.status = "Active"]]
  BY <1>1
<1> QED
  BY <1>2, <1>3 DEF IInv, TypeOK, RowsKept, Row

LEMMA NextBlocks == IInv /\ CompleteInv /\ [Next]_vars => BlocksMembers
<1> SUFFICES ASSUME IInv, CompleteInv, [Next]_vars
             PROVE  BlocksMembers
  OBVIOUS
<1>1. CASE UNCHANGED vars
  BY <1>1, SameRows, OthersBlock DEF vars
<1>2. ASSUME NEW w \in Worker, Begin(w)
      PROVE  BlocksMembers
  <2>1. UNCHANGED <<corp, company, rows>>
    BY <1>2 DEF Begin, BeginConfirmCorporation, BeginSuspendCorporation,
                BeginCloseCorporation, BeginReinstateCorporation, BeginConfirmCompany,
                BeginSuspendCompany, BeginReinstateCompany, BeginInvite, BeginBlock,
                BeginCancel, BeginResend, BeginDelete, Start
  <2> QED
    BY <2>1, SameRows, OthersBlock
<1>3. ASSUME NEW w \in Worker, Proceed(w)
      PROVE  BlocksMembers
  <2>1. CASE Commit(w)
    BY <2>1, CommitBlocks
  <2>2. CASE InsertRow(w)
    BY <2>2, InsertRowKeepsRows, OthersBlock DEF InsertRow
  <2>3. CASE RevertConfirmation(w)
    BY <2>3, SameRows, OthersBlock DEF RevertConfirmation
  <2>4. CASE \/ \E s \in Sub : ChangeAccount(w, s)
             \/ Finish(w) \/ ProvisionAccount(w) \/ LookUpAccount(w)
             \/ RollBackInvite(w) \/ RequestFails(w)
    <3>1. UNCHANGED <<corp, company, rows>>
      BY <2>4 DEF ChangeAccount, Finish, ProvisionAccount, LookUpAccount, RollBackInvite,
                  RequestFails
    <3> QED
      BY <3>1, SameRows, OthersBlock
  <2> QED
    BY <1>3, <2>1, <2>2, <2>3, <2>4 DEF Proceed
<1>4. ASSUME NEW p \in Person, LogIn(p)
      PROVE  BlocksMembers
  BY <1>4, LogInKeepsRows, OthersBlock DEF LogIn
<1> QED
  BY <1>1, <1>2, <1>3, <1>4 DEF Next

LEMMA InitComplete == Init => CompleteInv
<1> SUFFICES ASSUME Init, NEW w \in Worker
             PROVE  Complete(rows, enabled, wk[w])
  BY DEF CompleteInv
<1>1. wk[w].at = "idle"
  BY DEF Init, Idle
<1> QED
  BY <1>1 DEF Complete

\* When requests run one at a time, and whatever calls fail, a suspension or a
\* closure has everybody it affects out, in the table and in the pool, from the
\* moment it is written: SuspensionBlocksMembers, for any number of people,
\* companies and failures.
THEOREM SuspensionComplete ==
    ASSUME Alone
    PROVE  Spec => SuspensionBlocksMembers
<1>1. Spec => []IInv
  BY InitOK, NextKeeps, PTL DEF Spec
<1>2. IInv /\ CompleteInv /\ [Next]_vars => CompleteInv'
  BY CompleteKept
<1>3. Spec => []CompleteInv
  BY <1>1, <1>2, InitComplete, PTL DEF Spec
<1>4. IInv /\ CompleteInv /\ [Next]_vars => [BlocksMembers]_vars
  BY NextBlocks
<1> QED
  BY <1>1, <1>3, <1>4, PTL DEF Spec, SuspensionBlocksMembers

-------------------------------------------------------------------------------
(* UnblockedOnlyWhenUp.  A request that runs alone writes on what is still   *)
(* so (Current), and a company is closed only with its corporation.          *)

\* What request x read when it began, and still counts on.
Current(x) ==
    /\ x.at = "accounts" /\ x.op = "unblock" => \A s \in x.subs : OrgUp(s)
    /\ x.op = "reinstateCompany" /\ x.at = "commit" =>
          \A s \in x.subs : rows[s].access \cap x.cos # {}
    /\ x.op = "reinstateCorporation" /\ x.at = "commit" =>
          corp = "SUSPENDED" /\ Suspended \subseteq x.cos
    /\ x.op \in {"suspendCorporation", "closeCorporation"} => x.cos = Company
    /\ x.op = "confirmCorporation" => corp # "CLOSED"
    /\ x.op \in {"confirmCorporation", "confirmCompany"} => x.subs = {}
    /\ x.op = "invite" <=> x.at \in Inviting
    /\ x.op = "none" => x.at = "idle"

CurrentInv == \A w \in Worker : Current(wk[w])

ClosedTogether == \A c \in Company : company[c] = "CLOSED" => corp = "CLOSED"

LEMMA BeginCurrent ==
    ASSUME IInv, ClosedTogether, NEW w \in Worker, Begin(w)
    PROVE  Current(wk[w])' /\ ClosedTogether'
<1>1. UNCHANGED <<corp, company, rows>>
  BY DEF Begin, BeginConfirmCorporation, BeginSuspendCorporation, BeginCloseCorporation,
         BeginReinstateCorporation, BeginConfirmCompany, BeginSuspendCompany,
         BeginReinstateCompany, BeginInvite, BeginBlock, BeginCancel, BeginResend,
         BeginDelete, Start
<1>2. ClosedTogether'
  BY <1>1 DEF ClosedTogether
<1>a. ASSUME NEW op, NEW at, NEW subs, NEW cos, NEW p, Start(w, op, at, subs, cos, p)
      PROVE  /\ wk'[w].op = op /\ wk'[w].at = at
             /\ wk'[w].subs = subs /\ wk'[w].cos = cos
  BY <1>a DEF Start, IInv, TypeOK
<1>b. ASSUME NEW subs, NEW cos, NEW p, NEW op, NEW at, Start(w, op, at, subs, cos, p),
             \/ op \in {"suspendCompany", "block", "cancel", "resend", "delete"} /\ at = "accounts"
             \/ op \in {"suspendCorporation", "closeCorporation"} /\ at = "accounts" /\ cos = Company
             \/ op = "confirmCorporation" /\ at = "accounts" /\ corp # "CLOSED" /\ subs = {}
             \/ op = "confirmCompany" /\ at = "commit" /\ subs = {}
             \/ op = "invite" /\ at = "provision"
             \/ op = "unblock" /\ at = "accounts" /\ \A s \in subs : OrgUp(s)
             \/ /\ op = "reinstateCompany" /\ at = "commit"
                /\ \A s \in subs : rows[s].access \cap cos # {}
             \/ /\ op = "reinstateCorporation" /\ at = "commit"
                /\ corp = "SUSPENDED" /\ Suspended \subseteq cos
      PROVE  Current(wk[w])'
  <2>1. /\ wk'[w].op = op /\ wk'[w].at = at
        /\ wk'[w].subs = subs /\ wk'[w].cos = cos
    BY <1>a, <1>b
  <2>2. UNCHANGED Suspended /\ \A s : OrgUp(s)' <=> OrgUp(s)
    BY <1>1 DEF Suspended, OrgUp
  <2> QED
    BY <1>1, <1>b, <2>1, <2>2 DEF Current, Inviting
<1>3. CASE BeginConfirmCorporation(w)
  <2>1. Start(w, "confirmCorporation", "accounts", {}, {}, None) /\ corp # "CLOSED"
    BY <1>3 DEF BeginConfirmCorporation
  <2> QED
    BY <1>2, <1>b, <2>1
<1>4. CASE BeginSuspendCorporation(w) \/ BeginCloseCorporation(w)
  <2>1. PICK op \in {"suspendCorporation", "closeCorporation"} :
           Start(w, op, "accounts", People, Company, None)
    BY <1>4 DEF BeginSuspendCorporation, BeginCloseCorporation
  <2> QED
    BY <1>2, <1>b, <2>1
<1>5. CASE BeginReinstateCorporation(w)
  <2>1. /\ Start(w, "reinstateCorporation", "commit", People, Suspended, None)
        /\ corp = "SUSPENDED"
    BY <1>5 DEF BeginReinstateCorporation
  <2> QED
    BY <1>2, <1>b, <2>1
<1>6. ASSUME NEW c \in Company, BeginConfirmCompany(w, c) \/ BeginSuspendCompany(w, c)
      PROVE  Current(wk[w])'
  BY <1>6, <1>b DEF BeginConfirmCompany, BeginSuspendCompany
<1>7. ASSUME NEW c \in Company, BeginReinstateCompany(w, c)
      PROVE  Current(wk[w])'
  <2>1. \A s \in Members({c}) : rows[s].access \cap {c} # {}
    BY DEF Members
  <2> QED
    BY <1>7, <1>b, <2>1 DEF BeginReinstateCompany
<1>8. ASSUME NEW p \in Person, NEW c \in Company, BeginInvite(w, p, c)
      PROVE  Current(wk[w])'
  BY <1>8, <1>b DEF BeginInvite
<1>9. ASSUME NEW s \in Sub,
             BeginBlock(w, s) \/ BeginCancel(w, s) \/ BeginResend(w, s) \/ BeginDelete(w, s)
      PROVE  Current(wk[w])'
  BY <1>9, <1>b DEF BeginBlock, BeginCancel, BeginResend, BeginDelete
<1> QED
  BY <1>2, <1>3, <1>4, <1>5, <1>6, <1>7, <1>8, <1>9 DEF Begin

\* A request that is past its transaction, or before it in an invitation,
\* counts on nothing that may change.
LEMMA GotoCurrent ==
    ASSUME IInv, CurrentInv, NEW w \in Worker, NEW at, Goto(w, at), UNCHANGED corp,
           wk[w].at # "idle",
           at \in {"idle", "onboard", "revert"} \cup Inviting,
           at = "idle" \/ (wk[w].op = "invite" <=> at \in Inviting)
    PROVE  Current(wk[w])'
<1>1. CASE at = "idle"
  BY <1>1 DEF Goto, Idle, Current, Inviting, IInv, TypeOK
<1>2. CASE at # "idle"
  <2>1. wk[w] \in Request /\ Current(wk[w])
    BY DEF IInv, TypeOK, CurrentInv
  <2>2. wk'[w] = [wk[w] EXCEPT !.at = at]
    BY <1>2 DEF Goto, IInv, TypeOK
  <2>3. /\ wk'[w].op = wk[w].op /\ wk'[w].at = at
        /\ wk'[w].subs = wk[w].subs /\ wk'[w].cos = wk[w].cos
    BY <2>1, <2>2 DEF Request
  <2>4. at \notin {"accounts", "commit"}
    BY DEF Inviting
  <2>5. wk[w].op # "none"
    BY <2>1, <1>2 DEF Current
  <2> QED
    BY <1>2, <2>1, <2>3, <2>4, <2>5 DEF Current
<1> QED
  BY <1>1, <1>2

LEMMA ProceedCurrent ==
    ASSUME IInv, CurrentInv, ClosedTogether, NEW w \in Worker, Proceed(w)
    PROVE  Current(wk[w])' /\ ClosedTogether'
<1>0. wk[w] \in Request /\ Current(wk[w]) /\ Shape(rows, wk[w])
  BY DEF IInv, TypeOK, CurrentInv, ShapeInv
<1>1. ASSUME NEW s \in Sub, ChangeAccount(w, s)
      PROVE  Current(wk[w])' /\ ClosedTogether'
  <2>1. UNCHANGED <<corp, company, rows>>
    BY <1>1 DEF ChangeAccount
  <2>2. UNCHANGED Suspended /\ \A t : OrgUp(t)' <=> OrgUp(t)
    BY <2>1 DEF Suspended, OrgUp
  <2>3. CASE wk'[w] = Idle
    BY <2>1, <2>3 DEF Current, Idle, Inviting, ClosedTogether
  <2>4. CASE wk'[w] = [wk[w] EXCEPT !.todo = @ \ {s}]
    <3>1. /\ wk'[w].op = wk[w].op /\ wk'[w].at = wk[w].at
          /\ wk'[w].subs = wk[w].subs /\ wk'[w].cos = wk[w].cos
      BY <1>0, <2>4 DEF Request
    <3> QED
      BY <1>0, <2>1, <2>2, <3>1 DEF Current, ClosedTogether
  <2>5. wk'[w] = Idle \/ wk'[w] = [wk[w] EXCEPT !.todo = @ \ {s}]
    BY <1>1 DEF ChangeAccount, IInv, TypeOK
  <2> QED
    BY <2>3, <2>4, <2>5
<1>2. CASE Commit(w)
  <2> DEFINE op == wk[w].op
  <2>1. wk[w].at \in {"accounts", "commit"} /\ op # "none" /\ op # "invite"
    BY <1>0, <1>2 DEF Commit, MayCommit, At, Current, Inviting
  <2>2. corp' = CorporationAfter(op)
    BY <1>2 DEF Commit
  <2>3. \A c \in Company : company'[c] = IF c \in wk[w].cos THEN CompanyAfter(op) ELSE company[c]
    BY <1>2 DEF Commit
  <2>4. ClosedTogether'
    <3> SUFFICES ASSUME NEW c \in Company, company'[c] = "CLOSED"
                 PROVE  corp' = "CLOSED"
      BY DEF ClosedTogether
    <3>1. CASE c \in wk[w].cos
      <4>1. op = "closeCorporation"
        BY <2>3, <3>1 DEF CompanyAfter
      <4> QED
        BY <2>2, <4>1 DEF CorporationAfter
    <3>2. CASE c \notin wk[w].cos
      <4>1. company[c] = "CLOSED" /\ corp = "CLOSED"
        BY <2>3, <3>2 DEF ClosedTogether
      <4>2. op # "suspendCorporation" /\ op # "confirmCorporation"
        BY <1>0, <3>2, <4>1 DEF Current
      <4>3. op # "reinstateCorporation"
        <5>1. op = "reinstateCorporation" => wk[w].at = "commit"
          BY <1>2, <2>1 DEF Commit, MayCommit, At, Reinstating
        <5> QED
          BY <1>0, <4>1, <5>1 DEF Current
      <4> QED
        BY <2>2, <4>1, <4>2, <4>3 DEF CorporationAfter
    <3> QED
      BY <3>1, <3>2
  <2>5. CASE op \in Reinstating
    <3>1. wk'[w] = [wk[w] EXCEPT !.at = "accounts", !.todo = wk[w].subs]
      BY <1>2, <2>5 DEF Commit, IInv, TypeOK
    <3>2. wk'[w].op = op /\ wk'[w].at = "accounts"
      BY <1>0, <3>1 DEF Request
    <3> QED
      BY <2>4, <2>5, <3>2 DEF Current, Inviting, Reinstating
  <2>6. CASE op \notin Reinstating
    <3>1. Goto(w, IF op = "confirmCompany" THEN "onboard" ELSE "idle")
      BY <1>2, <2>6 DEF Commit
    <3>2. CASE op = "confirmCompany"
      <4>1. UNCHANGED corp
        BY <2>2, <3>2 DEF CorporationAfter
      <4> QED
        BY <2>1, <2>4, <3>1, <3>2, <4>1, GotoCurrent DEF Inviting
    <3>3. CASE op # "confirmCompany"
      <4>1. wk'[w] = Idle
        BY <3>1, <3>3 DEF Goto, IInv, TypeOK
      <4> QED
        BY <2>4, <4>1 DEF Current, Idle, Inviting
    <3> QED
      BY <3>2, <3>3
  <2> QED
    BY <2>5, <2>6
<1>3. CASE LookUpAccount(w)
  <2>1. UNCHANGED <<corp, company>>
    BY <1>3 DEF LookUpAccount
  <2>2. wk'[w].op = wk[w].op /\ wk'[w].at \in {"rollback", "insert"}
    BY <1>0, <1>3 DEF LookUpAccount, IInv, TypeOK, Request
  <2>3. wk[w].op = "invite"
    BY <1>0, <1>3 DEF LookUpAccount, At, Current, Inviting
  <2> QED
    BY <2>1, <2>2, <2>3 DEF Current, ClosedTogether, Inviting
<1>4. CASE RevertConfirmation(w)
  <2>1. UNCHANGED corp /\ \A c \in Company : company'[c] = "CLOSED" => company[c] = "CLOSED"
    BY <1>4 DEF RevertConfirmation
  <2>2. Goto(w, "idle") /\ wk[w].at # "idle"
    BY <1>4 DEF RevertConfirmation, At
  <2> QED
    BY <2>1, <2>2, GotoCurrent DEF ClosedTogether
<1>5. CASE Finish(w) \/ ProvisionAccount(w) \/ InsertRow(w) \/ RollBackInvite(w) \/ RequestFails(w)
  <2>1. UNCHANGED <<corp, company>> /\ wk[w].at # "idle"
    BY <1>5 DEF Finish, ProvisionAccount, InsertRow, RollBackInvite, RequestFails, At
  <2>2. PICK at \in {"idle", "lookup", "rollback", "revert"} :
          /\ Goto(w, at)
          /\ at = "revert" => wk[w].at = "onboard"
          /\ at \in {"lookup", "rollback"} => wk[w].at \in Inviting
    BY <1>5 DEF Finish, ProvisionAccount, InsertRow, RollBackInvite, RequestFails, AfterFailure,
                At, Inviting
  <2>3. at = "idle" \/ (wk[w].op = "invite" <=> at \in Inviting)
    BY <1>0, <2>2 DEF Current, Inviting
  <2> QED
    BY <2>1, <2>2, <2>3, GotoCurrent DEF ClosedTogether, Inviting
<1> QED
  BY <1>1, <1>2, <1>3, <1>4, <1>5 DEF Proceed

LEMMA LogInCurrent ==
    ASSUME IInv, CurrentInv, ClosedTogether, NEW p \in Person, LogIn(p)
    PROVE  CurrentInv' /\ ClosedTogether'
<1>1. UNCHANGED <<corp, company, wk>>
  BY DEF LogIn
<1>2. RowsKept
  BY LogInKeepsRows
<1>3. ASSUME NEW w \in Worker
      PROVE  Current(wk[w])'
  <2>1. Current(wk[w]) /\ Shape(rows, wk[w]) /\ wk[w].subs \subseteq Sub
    BY DEF IInv, TypeOK, CurrentInv, ShapeInv, Request
  <2>2. wk[w].at \in {"accounts", "commit"} =>
           \A s \in wk[w].subs : rows'[s].access = rows[s].access
    BY <1>2, <2>1 DEF Shape, RowsKept
  <2> QED
    BY <1>1, <2>1, <2>2 DEF Current, OrgUp, Suspended
<1> QED
  BY <1>1, <1>3 DEF CurrentInv, ClosedTogether

LEMMA CurrentKept ==
    ASSUME Alone
    PROVE  IInv /\ CurrentInv /\ ClosedTogether /\ [Next]_vars => CurrentInv' /\ ClosedTogether'
<1> SUFFICES ASSUME IInv, CurrentInv, ClosedTogether, [Next]_vars
             PROVE  CurrentInv' /\ ClosedTogether'
  OBVIOUS
<1>1. CASE UNCHANGED vars
  BY <1>1 DEF vars, CurrentInv, Current, ClosedTogether, OrgUp, Suspended
<1>2. ASSUME NEW w \in Worker, Begin(w) \/ Proceed(w)
      PROVE  CurrentInv' /\ ClosedTogether'
  <2>1. Current(wk[w])' /\ ClosedTogether'
    BY <1>2, BeginCurrent, ProceedCurrent
  <2>2. \A v \in Worker : v = w
    BY DEF Alone
  <2> QED
    BY <2>1, <2>2 DEF CurrentInv
<1> QED
  BY <1>1, <1>2, LogInCurrent DEF Next

LEMMA InitCurrent == Init => CurrentInv /\ ClosedTogether
BY DEF Init, CurrentInv, Current, Idle, Inviting, ClosedTogether

\* Only a transaction unblocks anybody, and it rests on what is still so.
LEMMA NextUnblocks ==
    ASSUME IInv, CurrentInv, ClosedTogether, Next, NEW s \in Sub, NEW c \in Company,
           rows[s].status = "Blocked", rows'[s].status = "Active", rows[s].access = {c}
    PROVE  company'[c] \notin Down
<1>1. ASSUME NEW w \in Worker, Commit(w)
      PROVE  company'[c] \notin Down
  <2> DEFINE op == wk[w].op
  <2>0. wk[w] \in Request /\ Current(wk[w]) /\ Shape(rows, wk[w])
    BY DEF IInv, TypeOK, CurrentInv, ShapeInv
  <2>1. s \in wk[w].subs /\ StatusAfter(op) = "Active"
    <3>1. rows'[s] = IF s \in wk[w].subs /\ Live(s)
                     THEN [rows[s] EXCEPT !.status = StatusAfter(op)] ELSE rows[s]
      BY <1>1 DEF Commit
    <3>2. s \in wk[w].subs /\ Live(s)
      BY <3>1
    <3>3. rows[s] \in Row
      BY RowKnown DEF IInv, TypeOK, RowsTyped
    <3> QED
      BY <3>1, <3>2, <3>3 DEF Row
  <2>2. op \in {"unblock", "reinstateCompany", "reinstateCorporation"}
    <3>1. op \notin {"confirmCorporation", "confirmCompany"}
      BY <2>0, <2>1 DEF Current
    <3>2. op # "none" /\ op # "invite"
      BY <1>1, <2>0 DEF Commit, MayCommit, At, Current, Inviting
    <3> QED
      BY <2>0, <2>1, <3>1, <3>2 DEF StatusAfter, Disabling, Request, Offered
  <2>3. company'[c] = IF c \in wk[w].cos THEN "ACTIVE" ELSE company[c]
    BY <1>1, <2>2 DEF Commit, CompanyAfter
  <2>4. CASE op = "unblock"
    <3>1. wk[w].at = "accounts"
      BY <1>1, <2>0, <2>4 DEF Commit, MayCommit, At, Shape, Reinstating
    <3>2. company[c] \notin Down
      BY <2>0, <2>1, <2>4, <3>1 DEF Current, OrgUp
    <3> QED
      BY <2>3, <3>2 DEF Down
  <2>5. CASE op \in Reinstating
    <3>1. wk[w].at = "commit"
      BY <1>1, <2>5 DEF Commit, MayCommit, At
    <3>2. CASE op = "reinstateCompany"
      BY <2>0, <2>1, <2>3, <3>1, <3>2 DEF Current, Down
    <3>3. CASE op = "reinstateCorporation"
      <4>1. corp = "SUSPENDED" /\ Suspended \subseteq wk[w].cos
        BY <2>0, <3>1, <3>3 DEF Current
      <4>2. company[c] # "CLOSED" /\ (company[c] = "SUSPENDED" => c \in wk[w].cos)
        BY <4>1 DEF ClosedTogether, Suspended
      <4> QED
        BY <2>3, <4>2 DEF Down
    <3> QED
      BY <2>5, <3>2, <3>3 DEF Reinstating
  <2> QED
    BY <2>2, <2>4, <2>5 DEF Reinstating
<1>2. ASSUME NEW w \in Worker, Begin(w)
      PROVE  FALSE
  BY <1>2 DEF Begin, BeginConfirmCorporation, BeginSuspendCorporation, BeginCloseCorporation,
         BeginReinstateCorporation, BeginConfirmCompany, BeginSuspendCompany,
         BeginReinstateCompany, BeginInvite, BeginBlock, BeginCancel, BeginResend,
         BeginDelete, Start
<1>3. ASSUME NEW w \in Worker, InsertRow(w)
      PROVE  FALSE
  BY <1>3 DEF InsertRow, NoRow, IInv, TypeOK
<1>4. ASSUME NEW w \in Worker,
             \/ \E t \in Sub : ChangeAccount(w, t)
             \/ Finish(w) \/ ProvisionAccount(w) \/ LookUpAccount(w)
             \/ RollBackInvite(w) \/ RevertConfirmation(w) \/ RequestFails(w)
      PROVE  FALSE
  BY <1>4 DEF ChangeAccount, Finish, ProvisionAccount, LookUpAccount, RollBackInvite,
              RevertConfirmation, RequestFails
<1>5. ASSUME NEW p \in Person, LogIn(p)
      PROVE  FALSE
  BY <1>5 DEF LogIn, IInv, TypeOK
<1> QED
  BY <1>1, <1>2, <1>3, <1>4, <1>5 DEF Next, Proceed

\* When requests run one at a time, and whatever calls fail, nobody who belongs
\* to one company is unblocked while it is suspended or closed: neither by an
\* administrator nor by reinstating the company or the corporation.
THEOREM UnblockedWhenUp ==
    ASSUME Alone
    PROVE  Spec => UnblockedOnlyWhenUp
<1> DEFINE Unblocks ==
      \A s \in Sub, c \in Company :
          rows[s].status = "Blocked" /\ rows'[s].status = "Active" /\ rows[s].access = {c}
              => company'[c] \notin Down
<1>1. Spec => []IInv
  BY InitOK, NextKeeps, PTL DEF Spec
<1>2. Spec => [](CurrentInv /\ ClosedTogether)
  BY <1>1, CurrentKept, InitCurrent, PTL DEF Spec
<1>3. IInv /\ CurrentInv /\ ClosedTogether /\ [Next]_vars => [Unblocks]_vars
  BY NextUnblocks
<1> QED
  BY <1>1, <1>2, <1>3, PTL DEF Spec, UnblockedOnlyWhenUp

-------------------------------------------------------------------------------
(* AccountsAgree.  While a request runs alone and no call has failed, the    *)
(* table and the pool differ only about the rows it is changing, and by as   *)
(* much as it has done.                                                      *)

\* Table and pool agree about the row.
Settled(s) ==
    /\ account[rows[s].person] = s
    /\ rows[s].person \in enabled <=> rows[s].status \in {"Pending", "Active"}

\* The request is changing the row's account, or has.
Changing(x, s) == x.at = "accounts" /\ s \in x.subs

\* Where it has got with it: what it has done in the pool is not yet in the
\* table, and a reinstatement has yet to do what the table says.
Midway(x, s) ==
    LET p == rows[s].person IN
    IF s \in x.todo
    THEN IF x.op \in Reinstating
         THEN account[p] = s /\ rows[s].status = "Active"
         ELSE Settled(s)
    ELSE CASE x.op \in Disabling           -> account[p] = s /\ p \notin enabled
           [] x.op \in {"unblock", "resend"} -> account[p] = s /\ p \in enabled
           [] x.op = "delete"              -> account[p] = None /\ p \notin enabled
           [] OTHER                        -> Settled(s)

\* The invited person has no row yet, and from the second step on an enabled
\* account under an id no row has.
InviteFits(x) ==
    /\ x.at \in {"provision", "lookup", "insert"} =>
          \A s \in People : rows[s].person # x.person
    /\ x.at \in {"lookup", "insert"} =>
          /\ x.person \in enabled
          /\ account[x.person] \in Sub
          /\ rows[account[x.person]] = NoRow
    /\ x.at = "insert" => x.subs = {account[x.person]}
    /\ x.at \notin {"rollback", "revert"}

\* Nobody has two live rows.
OneRowEach == \A s, t \in People : rows[s].person = rows[t].person => s = t

\* An account belongs to a live row or to somebody the request invites.
AccountsKnown(x) ==
    \A p \in Person : account[p] # None =>
        \/ \E s \in People : rows[s].person = p
        \/ x.at \in {"lookup", "insert"} /\ x.person = p

RowsAgree(x) ==
    \A s \in People : IF Changing(x, s) THEN Midway(x, s) ELSE Settled(s)

Agreed(x) ==
    /\ OneRowEach
    /\ x.at \in {"accounts", "commit"} => x.subs \subseteq People
    /\ RowsAgree(x)
    /\ InviteFits(x)
    /\ AccountsKnown(x)

AgreementInv == failures = 0 => \A w \in Worker : Agreed(wk[w])

\* A live row is a row of somebody.
LEMMA PersonOfRow ==
    ASSUME IInv, NEW s \in People
    PROVE  s \in Sub /\ rows[s] \in Row /\ rows[s].person \in Person
BY RowKnown DEF IInv, TypeOK, RowsTyped, People, Live, Row

\* An id that a live person's account has is the id of the live row.
LEMMA RowOfAccount ==
    ASSUME IInv, NEW x, Agreed(x), NEW p \in Person, NEW s \in People, account[p] = s
    PROVE  rows[s].person = p
<1>0. s # None /\ s \in Sub
  BY PersonOfRow, AccessAssumption
<1>1. CASE x.at \in {"lookup", "insert"} /\ x.person = p
  BY <1>1 DEF Agreed, InviteFits, NoRow, People, Live
<1>2. CASE \E t \in People : rows[t].person = p
  <2>1. PICK t \in People : rows[t].person = p
    BY <1>2
  <2>2. account[p] = t
    BY <1>0, <2>1 DEF Agreed, RowsAgree, Settled, Midway
  <2> QED
    BY <2>1, <2>2
<1> QED
  BY <1>0, <1>1, <1>2 DEF Agreed, AccountsKnown

LEMMA BeginAgreed ==
    ASSUME IInv, NEW w \in Worker, Agreed(wk[w]), Begin(w)
    PROVE  Agreed(wk[w])'
<1>1. UNCHANGED <<corp, company, rows, account, enabled, failures>> /\ wk[w].at = "idle"
  BY DEF Begin, BeginConfirmCorporation, BeginSuspendCorporation, BeginCloseCorporation,
         BeginReinstateCorporation, BeginConfirmCompany, BeginSuspendCompany,
         BeginReinstateCompany, BeginInvite, BeginBlock, BeginCancel, BeginResend,
         BeginDelete, Start, At
<1>2. /\ People' = People
      /\ OneRowEach'
      /\ \A s : Settled(s)' <=> Settled(s)
      /\ \A s \in People : Settled(s)
      /\ \A p \in Person : account[p] # None => \E s \in People : rows[s].person = p
  BY <1>1 DEF Agreed, OneRowEach, RowsAgree, Changing, AccountsKnown, People, Live, Settled
<1>a. ASSUME NEW op, NEW at, NEW subs, NEW cos, NEW p, Start(w, op, at, subs, cos, p),
             \/ at = "accounts" /\ op \notin Reinstating /\ subs \subseteq People
             \/ at = "commit" /\ subs \subseteq People
             \/ at = "provision" /\ \A s \in People : rows[s].person # p
      PROVE  Agreed(wk[w])'
  <2>1. /\ wk'[w].op = op /\ wk'[w].at = at /\ wk'[w].subs = subs /\ wk'[w].person = p
        /\ wk'[w].todo = IF at = "accounts" THEN subs ELSE {}
    BY <1>a DEF Start, IInv, TypeOK
  <2>2. RowsAgree(wk[w])'
    BY <1>1, <1>2, <1>a, <2>1 DEF RowsAgree, Changing, Midway
  <2>3. InviteFits(wk[w])'
    BY <1>1, <1>2, <1>a, <2>1 DEF InviteFits
  <2>4. AccountsKnown(wk[w])'
    BY <1>1, <1>2 DEF AccountsKnown
  <2> QED
    BY <1>2, <1>a, <2>1, <2>2, <2>3, <2>4 DEF Agreed
<1>b. /\ {} \subseteq People
      /\ \A c : Members({c}) \subseteq People
      /\ \A s \in Sub : rows[s].status \in {"Pending", "Cancelled"} => s \in People
  BY DEF Members, People, Live
<1>c. /\ "confirmCorporation" \notin Reinstating /\ "suspendCorporation" \notin Reinstating
      /\ "closeCorporation" \notin Reinstating /\ "suspendCompany" \notin Reinstating
      /\ "block" \notin Reinstating /\ "unblock" \notin Reinstating
      /\ "cancel" \notin Reinstating /\ "resend" \notin Reinstating
      /\ "delete" \notin Reinstating
  BY DEF Reinstating
<1>3. CASE BeginConfirmCorporation(w) \/ BeginReinstateCorporation(w)
  BY <1>3, <1>a, <1>b, <1>c DEF BeginConfirmCorporation, BeginReinstateCorporation
<1>4. CASE BeginSuspendCorporation(w) \/ BeginCloseCorporation(w)
  BY <1>4, <1>a, <1>c DEF BeginSuspendCorporation, BeginCloseCorporation
<1>5. ASSUME NEW c \in Company,
             BeginConfirmCompany(w, c) \/ BeginSuspendCompany(w, c) \/ BeginReinstateCompany(w, c)
      PROVE  Agreed(wk[w])'
  BY <1>5, <1>a, <1>b, <1>c DEF BeginConfirmCompany, BeginSuspendCompany, BeginReinstateCompany
<1>6. ASSUME NEW p \in Person, NEW c \in Company, BeginInvite(w, p, c)
      PROVE  Agreed(wk[w])'
  BY <1>6, <1>a DEF BeginInvite
<1>7. ASSUME NEW s \in Sub,
             BeginBlock(w, s) \/ BeginCancel(w, s) \/ BeginResend(w, s) \/ BeginDelete(w, s)
      PROVE  Agreed(wk[w])'
  <2>1. PICK op \in {"block", "unblock", "cancel", "resend", "delete"} :
           Start(w, op, "accounts", {s}, {}, None) /\ s \in People
    BY <1>7, <1>b DEF BeginBlock, BeginCancel, BeginResend, BeginDelete
  <2> QED
    BY <1>a, <1>c, <2>1
<1> QED
  BY <1>3, <1>4, <1>5, <1>6, <1>7 DEF Begin

LEMMA ChangeAccountAgreed ==
    ASSUME IInv, CurrentInv, NEW w \in Worker, Agreed(wk[w]), NEW s \in Sub, ChangeAccount(w, s)
    PROVE  Agreed(wk[w])'
<1> DEFINE p == rows[s].person
           x == wk[w]
<1>0. x \in Request /\ x.at = "accounts" /\ s \in x.todo /\ s \in x.subs /\ s \in People
  BY DEF IInv, TypeOK, ShapeInv, Shape, ChangeAccount, At, Agreed
<1>1. UNCHANGED <<rows, failures>> /\ People' = People
  BY DEF ChangeAccount, People, Live
<1>2. p \in Person /\ account[p] = s /\ s # None
  <2>1. Midway(x, s) /\ p \in Person
    BY <1>0, PersonOfRow DEF Agreed, RowsAgree, Changing
  <2> QED
    BY <1>0, <2>1, AccessAssumption DEF Midway, Settled
<1>3. /\ x.op = "delete" => account' = [account EXCEPT ![p] = None] /\ enabled' = enabled \ {p}
      /\ x.op # "delete" => UNCHANGED account
      /\ x.op \in Disabling => enabled' = enabled \ {p}
      /\ x.op \notin Disabling \cup {"delete"} => enabled' = enabled \cup {p}
  BY <1>2 DEF ChangeAccount
<1>4. wk'[w] = [x EXCEPT !.todo = @ \ {s}]
  BY <1>2 DEF ChangeAccount, IInv, TypeOK
<1>5. /\ wk'[w].at = "accounts" /\ wk'[w].op = x.op /\ wk'[w].subs = x.subs
      /\ wk'[w].todo = x.todo \ {s} /\ wk'[w].person = x.person
  BY <1>0, <1>4 DEF Request
<1>6. RowsAgree(wk[w])'
  <2> SUFFICES ASSUME NEW t \in People
               PROVE  (IF Changing(wk[w], t) THEN Midway(wk[w], t) ELSE Settled(t))'
    BY <1>1 DEF RowsAgree
  <2>1. CASE t = s
    <3>1. Changing(wk[w], t)'
      BY <1>0, <1>5, <2>1 DEF Changing
    <3>2. Midway(x, s)
      BY <1>0 DEF Agreed, RowsAgree, Changing
    <3>3. Midway(wk[w], t)'
      <4>1. CASE x.op \in Disabling
        <5>1. x.op \notin {"delete", "unblock", "resend"}
          BY <4>1 DEF Disabling
        <5> QED
          BY <1>1, <1>2, <1>3, <1>5, <2>1, <4>1, <5>1 DEF Midway
      <4>2. CASE x.op \in {"unblock", "resend"}
        <5>1. x.op \notin Disabling /\ x.op # "delete"
          BY <4>2 DEF Disabling
        <5> QED
          BY <1>1, <1>2, <1>3, <1>5, <2>1, <4>2, <5>1 DEF Midway
      <4>3. CASE x.op = "delete"
        <5>1. x.op \notin Disabling
          BY <4>3 DEF Disabling
        <5>2. account'[p] = None /\ p \notin enabled'
          BY <1>2, <1>3, <4>3 DEF IInv, TypeOK
        <5> QED
          BY <1>1, <1>5, <2>1, <4>3, <5>1, <5>2 DEF Midway
      <4>4. CASE x.op \in Reinstating
        <5>1. x.op \notin Disabling \cup {"delete", "unblock", "resend"}
          BY <4>4 DEF Disabling, Reinstating
        <5>2. rows[s].status = "Active"
          BY <1>0, <3>2, <4>4 DEF Midway
        <5> QED
          BY <1>1, <1>2, <1>3, <1>5, <2>1, <4>4, <5>1, <5>2 DEF Midway, Settled
      <4>5. CASE x.op \notin Disabling \cup {"delete", "unblock", "resend"} \cup Reinstating
        <5>1. x.op \in {"none", "confirmCorporation", "confirmCompany", "invite"}
          BY <1>0, <4>5 DEF Request, Offered, Disabling, Reinstating
        <5>2. Current(x)
          BY DEF CurrentInv
        <5> QED
          BY <1>0, <5>1, <5>2 DEF Current, Inviting
      <4> QED
        BY <4>1, <4>2, <4>3, <4>4, <4>5
    <3> QED
      BY <3>1, <3>3
  <2>2. CASE t # s
    <3>1. rows[t].person # p /\ rows[t].person \in Person
      BY <1>0, <2>2, PersonOfRow DEF Agreed, OneRowEach
    <3>2. /\ account'[rows[t].person] = account[rows[t].person]
          /\ rows[t].person \in enabled' <=> rows[t].person \in enabled
      BY <1>0, <1>2, <1>3, <3>1 DEF IInv, TypeOK
    <3>3. (Changing(wk[w], t)' <=> Changing(x, t)) /\ (t \in wk'[w].todo <=> t \in x.todo)
      BY <1>0, <1>5, <2>2 DEF Changing
    <3>4. Settled(t)' <=> Settled(t)
      BY <1>1, <3>2 DEF Settled
    <3>5. Midway(wk[w], t)' <=> Midway(x, t)
      BY <1>1, <1>5, <3>2, <3>3, <3>4 DEF Midway
    <3> QED
      BY <3>3, <3>4, <3>5 DEF Agreed, RowsAgree
  <2> QED
    BY <2>1, <2>2
<1>7. AccountsKnown(wk[w])'
  <2>1. \A q \in Person : account'[q] # None => account[q] # None
    BY <1>3 DEF IInv, TypeOK
  <2> QED
    BY <1>0, <1>1, <2>1 DEF Agreed, AccountsKnown
<1>8. InviteFits(wk[w])'
  BY <1>5 DEF InviteFits
<1> QED
  BY <1>0, <1>1, <1>5, <1>6, <1>7, <1>8 DEF Agreed, OneRowEach

\* A transaction writes in the table what has been done in the pool; that of a
\* reinstatement, what is about to be done there.
LEMMA CommitAgreed ==
    ASSUME IInv, CurrentInv, NEW w \in Worker, Agreed(wk[w]), Commit(w)
    PROVE  Agreed(wk[w])'
<1> DEFINE x == wk[w]
           op == x.op
<1>0. /\ x \in Request /\ Current(x) /\ x.at \in {"accounts", "commit"}
      /\ x.subs \subseteq People /\ OneRowEach
  BY DEF IInv, TypeOK, CurrentInv, Agreed, Commit, MayCommit, At
<1>1. UNCHANGED <<account, enabled>>
  BY DEF Commit
<1>2. op \notin {"none", "invite"}
  BY <1>0 DEF Current, Inviting
<1>3. ASSUME NEW s \in People
      PROVE  /\ rows'[s].person = rows[s].person
             /\ rows'[s].status = IF s \in x.subs THEN StatusAfter(op) ELSE rows[s].status
  <2>1. rows[s] \in Row /\ s \in Sub /\ Live(s)
    BY PersonOfRow DEF People
  <2>2. rows'[s] = IF s \in x.subs THEN [rows[s] EXCEPT !.status = StatusAfter(op)] ELSE rows[s]
    BY <2>1 DEF Commit
  <2> QED
    BY <2>1, <2>2 DEF Row
<1>4. People' \subseteq People
  BY DEF Commit, People, Live
<1>5. OneRowEach'
  BY <1>0, <1>3, <1>4 DEF OneRowEach
<1>6. \A s \in People : op # "delete" \/ s \notin x.subs => s \in People'
  <2>1. op # "delete" => StatusAfter(op) \notin {"none", "Deleted"}
    BY DEF StatusAfter
  <2> QED
    BY <1>3, <2>1, PersonOfRow DEF People, Live
<1>7. op = "delete" => \A s \in People : s \in x.subs => s \notin People'
  <2>1. op = "delete" => StatusAfter(op) = "Deleted"
    BY DEF StatusAfter, Disabling
  <2> QED
    BY <1>3, <2>1 DEF People, Live
<1>8. CASE op \in Reinstating
  <2>1. x.at = "commit" /\ op # "delete"
    BY <1>0, <1>8 DEF Commit, MayCommit, At, Reinstating
  <2>2. wk'[w] = [x EXCEPT !.at = "accounts", !.todo = x.subs]
    BY <1>8 DEF Commit, IInv, TypeOK
  <2>3. /\ wk'[w].at = "accounts" /\ wk'[w].op = op /\ wk'[w].subs = x.subs
        /\ wk'[w].todo = x.subs
    BY <1>0, <2>2 DEF Request
  <2>4. \A s \in People : Settled(s)
    BY <2>1 DEF Agreed, RowsAgree, Changing
  <2>5. RowsAgree(wk[w])'
    <3> SUFFICES ASSUME NEW s \in People
                 PROVE  (IF Changing(wk[w], s) THEN Midway(wk[w], s) ELSE Settled(s))'
      BY <1>4 DEF RowsAgree
    <3>1. CASE s \in x.subs
      <4>1. StatusAfter(op) = "Active"
        BY <1>8 DEF StatusAfter, Reinstating, Disabling
      <4> QED
        BY <1>1, <1>3, <1>8, <2>3, <2>4, <3>1, <4>1 DEF Changing, Midway, Settled
    <3>2. CASE s \notin x.subs
      BY <1>1, <1>3, <2>3, <2>4, <3>2 DEF Changing, Settled
    <3> QED
      BY <3>1, <3>2
  <2>6. AccountsKnown(wk[w])'
    BY <1>1, <1>3, <1>6, <2>1 DEF Agreed, AccountsKnown
  <2> QED
    BY <1>0, <1>5, <1>6, <2>1, <2>3, <2>5, <2>6 DEF Agreed, InviteFits
<1>9. CASE op \notin Reinstating
  <2>1. wk'[w].at \in {"onboard", "idle"}
    <3>1. Goto(w, "onboard") \/ Goto(w, "idle")
      BY <1>9 DEF Commit
    <3> QED
      BY <1>0, <3>1 DEF Goto, Idle, IInv, TypeOK, Request
  <2>2. ASSUME NEW s \in x.subs
        PROVE  /\ op \notin {"confirmCorporation", "confirmCompany"}
               /\ Midway(x, s) /\ s \notin x.todo
    <3>1. op \notin {"confirmCorporation", "confirmCompany"}
      BY <1>0 DEF Current
    <3>2. x.at = "accounts" /\ x.todo = {}
      BY <1>0, <1>9, <3>1 DEF Commit, MayCommit, At, Shape, ShapeInv, IInv
    <3> QED
      BY <1>0, <3>1, <3>2 DEF Agreed, RowsAgree, Changing
  <2>3. RowsAgree(wk[w])'
    <3> SUFFICES ASSUME NEW s \in People'
                 PROVE  Settled(s)'
      BY <2>1 DEF RowsAgree, Changing
    <3>0. s \in People
      BY <1>4
    <3>1. CASE s \in x.subs
      <4>1. op \in (Disabling \ {"cancel"}) \cup {"cancel", "unblock", "resend"}
        BY <1>0, <1>2, <1>7, <1>9, <2>2, <3>0, <3>1 DEF Request, Offered, Disabling, Reinstating
      <4>2. CASE op \in Disabling
        <5>1. op \notin {"unblock", "resend", "delete"} /\ StatusAfter(op) \in {"Blocked", "Cancelled"}
          BY <4>2 DEF Disabling, StatusAfter
        <5> QED
          BY <1>1, <1>3, <2>2, <3>0, <3>1, <4>2, <5>1 DEF Midway, Settled
      <4>3. CASE op \in {"unblock", "resend"}
        <5>1. op \notin Disabling /\ StatusAfter(op) \in {"Active", "Pending"}
          BY <4>3 DEF Disabling, StatusAfter
        <5> QED
          BY <1>1, <1>3, <2>2, <3>0, <3>1, <4>3, <5>1 DEF Midway, Settled
      <4> QED
        BY <4>1, <4>2, <4>3 DEF Disabling
    <3>2. CASE s \notin x.subs
      BY <1>1, <1>3, <3>0, <3>2 DEF Agreed, RowsAgree, Changing, Settled
    <3> QED
      BY <3>1, <3>2
  <2>4. AccountsKnown(wk[w])'
    <3> SUFFICES ASSUME NEW p \in Person, account[p] # None
                 PROVE  \E s \in People' : rows'[s].person = p
      BY <1>1 DEF AccountsKnown
    <3>1. PICK s \in People : rows[s].person = p
      BY <1>0 DEF Agreed, AccountsKnown
    <3>2. op = "delete" => s \notin x.subs
      BY <2>2, <3>1 DEF Midway, Disabling
    <3> QED
      BY <1>3, <1>6, <3>1, <3>2
  <2>5. InviteFits(wk[w])'
    BY <2>1 DEF InviteFits
  <2> QED
    BY <1>5, <2>1, <2>3, <2>4, <2>5 DEF Agreed
<1> QED
  BY <1>8, <1>9

LEMMA FinishAgreed ==
    ASSUME IInv, NEW w \in Worker, Agreed(wk[w]), Finish(w)
    PROVE  Agreed(wk[w])'
<1>1. UNCHANGED <<rows, account, enabled>> /\ wk'[w].at = "idle" /\ wk[w].at \in {"accounts", "onboard"}
  BY DEF Finish, Goto, Idle, IInv, TypeOK, At
<1>2. ASSUME NEW s \in People
      PROVE  Settled(s)
  <2>1. CASE Changing(wk[w], s)
    <3>1. wk[w].op \in Reinstating /\ wk[w].todo = {}
      BY <2>1 DEF Finish, At, Changing
    <3>2. wk[w].op \notin Disabling \cup {"unblock", "resend", "delete"}
      BY <3>1 DEF Reinstating, Disabling
    <3> QED
      BY <2>1, <3>1, <3>2 DEF Agreed, RowsAgree, Midway
  <2>2. CASE ~Changing(wk[w], s)
    BY <2>2 DEF Agreed, RowsAgree
  <2> QED
    BY <2>1, <2>2
<1>3. People' = People /\ \A s : Settled(s)' <=> Settled(s)
  BY <1>1 DEF People, Live, Settled
<1> QED
  BY <1>1, <1>2, <1>3
  DEF Agreed, OneRowEach, RowsAgree, Changing, InviteFits, AccountsKnown

LEMMA ProvisionAgreed ==
    ASSUME IInv, NEW w \in Worker, Agreed(wk[w]), ProvisionAccount(w)
    PROVE  Agreed(wk[w])'
<1> DEFINE p == wk[w].person
<1>0. wk[w].at = "provision" /\ wk[w] \in Request /\ p \in Person /\ UNCHANGED rows
  BY DEF ProvisionAccount, At, IInv, TypeOK, ShapeInv, Shape, Inviting
<1>1. \A s \in People : Settled(s) /\ rows[s].person # p
  BY <1>0 DEF Agreed, RowsAgree, Changing, InviteFits
<1>2. account[p] = None
  BY <1>0, <1>1 DEF Agreed, AccountsKnown
<1>3. PICK s \in Sub : /\ Unused(s)
                       /\ account' = [account EXCEPT ![p] = s]
                       /\ enabled' = enabled \cup {p}
  BY <1>2 DEF ProvisionAccount
<1>4. /\ wk'[w].at = "lookup" /\ wk'[w].person = p
  BY <1>0 DEF ProvisionAccount, Goto, IInv, TypeOK, Request
<1>5. People' = People /\ \A t \in People : Settled(t)' <=> Settled(t)
  BY <1>0, <1>1, <1>3, PersonOfRow DEF People, Live, Settled, IInv, TypeOK
<1>6. account'[p] = s /\ \A q \in Person \ {p} : account'[q] = account[q]
  BY <1>0, <1>3 DEF IInv, TypeOK
<1>7. RowsAgree(wk[w])'
  BY <1>1, <1>4, <1>5 DEF RowsAgree, Changing
<1>8. InviteFits(wk[w])'
  BY <1>0, <1>1, <1>3, <1>4, <1>5, <1>6 DEF InviteFits, Unused
<1>9. AccountsKnown(wk[w])'
  BY <1>0, <1>4, <1>5, <1>6 DEF Agreed, AccountsKnown
<1> QED
  BY <1>0, <1>4, <1>5, <1>7, <1>8, <1>9 DEF Agreed, OneRowEach

LEMMA LookUpAgreed ==
    ASSUME IInv, NEW w \in Worker, Agreed(wk[w]), LookUpAccount(w)
    PROVE  Agreed(wk[w])'
<1> DEFINE s == account[wk[w].person]
<1>0. wk[w].at = "lookup" /\ wk[w] \in Request /\ UNCHANGED <<rows, account, enabled>>
  BY DEF LookUpAccount, At, IInv, TypeOK
<1>1. s \in Sub /\ s # None
  BY <1>0, AccessAssumption DEF Agreed, InviteFits
<1>2. wk'[w].at = "insert" /\ wk'[w].person = wk[w].person /\ wk'[w].subs = {s}
  BY <1>0, <1>1 DEF LookUpAccount, IInv, TypeOK, Request
<1>3. People' = People /\ \A t : Settled(t)' <=> Settled(t)
  BY <1>0 DEF People, Live, Settled
<1>4. RowsAgree(wk[w])'
  BY <1>0, <1>2, <1>3 DEF Agreed, RowsAgree, Changing
<1>5. InviteFits(wk[w])'
  BY <1>0, <1>2, <1>3 DEF Agreed, InviteFits
<1>6. AccountsKnown(wk[w])'
  BY <1>0, <1>2, <1>3 DEF Agreed, AccountsKnown
<1> QED
  BY <1>0, <1>2, <1>3, <1>4, <1>5, <1>6 DEF Agreed, OneRowEach

LEMMA InsertAgreed ==
    ASSUME IInv, NEW w \in Worker, Agreed(wk[w]), InsertRow(w)
    PROVE  Agreed(wk[w])'
<1> DEFINE p == wk[w].person
           r == [person |-> p, access |-> wk[w].cos, status |-> "Pending"]
<1>0. wk[w].at = "insert" /\ wk[w] \in Request /\ p \in Person /\ UNCHANGED <<account, enabled>>
  BY DEF InsertRow, At, IInv, TypeOK, ShapeInv, Shape, Inviting
<1>1. PICK s \in Sub : /\ \A t \in People : rows[t].person # p
                       /\ account[p] = s /\ p \in enabled
                       /\ rows[s] = NoRow /\ wk[w].subs = {s}
  BY <1>0 DEF Agreed, InviteFits
<1>2. rows' = [rows EXCEPT ![s] = r] /\ Goto(w, "idle")
  BY <1>1 DEF InsertRow
<1>3. wk'[w].at = "idle"
  BY <1>2 DEF Goto, Idle, IInv, TypeOK
<1>4. /\ rows'[s].person = p /\ rows'[s].status = "Pending"
      /\ \A t \in Sub \ {s} : rows'[t] = rows[t]
  BY <1>1, <1>2 DEF IInv, TypeOK
<1>5. s \notin People /\ People' = People \cup {s}
  BY <1>1, <1>4 DEF People, Live, NoRow
<1>6. \A t \in People : rows'[t] = rows[t] /\ Settled(t) /\ t \in Sub
  BY <1>0, <1>4, <1>5 DEF People, Agreed, RowsAgree, Changing
<1>7. OneRowEach'
  BY <1>1, <1>4, <1>5, <1>6 DEF Agreed, OneRowEach
<1>8. RowsAgree(wk[w])'
  <2>1. Settled(s)'
    BY <1>0, <1>1, <1>4 DEF Settled
  <2>2. \A t \in People : Settled(t)'
    BY <1>0, <1>6 DEF Settled
  <2> QED
    BY <1>3, <1>5, <2>1, <2>2 DEF RowsAgree, Changing
<1>9. AccountsKnown(wk[w])'
  <2> SUFFICES ASSUME NEW q \in Person, account[q] # None
               PROVE  \E t \in People' : rows'[t].person = q
    BY <1>0 DEF AccountsKnown
  <2>1. CASE q = p
    BY <1>4, <1>5, <2>1
  <2>2. CASE q # p
    BY <1>5, <1>6, <2>2 DEF Agreed, AccountsKnown
  <2> QED
    BY <2>1, <2>2
<1> QED
  BY <1>3, <1>7, <1>8, <1>9 DEF Agreed, InviteFits

LEMMA LogInAgreed ==
    ASSUME IInv, NEW w \in Worker, Agreed(wk[w]), NEW p \in Person, LogIn(p)
    PROVE  Agreed(wk[w])'
<1>1. PICK s \in Sub : /\ account[p] = s
                       /\ rows[s].status = "Pending"
                       /\ rows' = [rows EXCEPT ![s].status = "Active"]
  BY DEF LogIn
<1>2. UNCHANGED <<account, enabled, wk>> /\ p \in enabled
  BY DEF LogIn
<1>3. s \in People
  BY <1>1 DEF People, Live
<1>4. rows[s].person = p
  BY <1>1, <1>3, RowOfAccount
<1>5. /\ rows'[s] = [rows[s] EXCEPT !.status = "Active"]
      /\ \A t \in Sub \ {s} : rows'[t] = rows[t]
  BY <1>1 DEF IInv, TypeOK
<1>6. rows'[s].person = p /\ rows'[s].status = "Active"
  BY <1>3, <1>4, <1>5, PersonOfRow DEF Row
<1>7. People' = People
  BY <1>1, <1>5, <1>6 DEF People, Live
<1>8. RowsAgree(wk[w])'
  <2> SUFFICES ASSUME NEW t \in People
               PROVE  (IF Changing(wk[w], t) THEN Midway(wk[w], t) ELSE Settled(t))'
    BY <1>7 DEF RowsAgree
  <2>0. Changing(wk[w], t)' <=> Changing(wk[w], t)
    BY <1>2 DEF Changing
  <2>1. CASE t = s
    <3>1. CASE Changing(wk[w], s)
      BY <1>1, <1>2, <1>3, <1>4, <1>6, <2>0, <2>1, <3>1 DEF Agreed, RowsAgree, Midway, Settled
    <3>2. CASE ~Changing(wk[w], s)
      BY <1>1, <1>2, <1>6, <2>0, <2>1, <3>2 DEF Settled
    <3> QED
      BY <3>1, <3>2
  <2>2. CASE t # s
    BY <1>2, <1>5, <2>0, <2>2 DEF Agreed, RowsAgree, Midway, Settled, People
  <2> QED
    BY <2>1, <2>2
<1>9. \A t \in People : rows'[t].person = rows[t].person
  BY <1>4, <1>5, <1>6 DEF People
<1>10. OneRowEach' /\ AccountsKnown(wk[w])'
  BY <1>2, <1>7, <1>9 DEF Agreed, OneRowEach, AccountsKnown
<1>11. InviteFits(wk[w])'
  <2>1. \A t \in Sub : rows[t] = NoRow => rows'[t] = NoRow
    BY <1>1, <1>5 DEF NoRow
  <2> QED
    BY <1>2, <1>7, <1>9, <2>1 DEF Agreed, InviteFits
<1> QED
  BY <1>2, <1>7, <1>8, <1>10, <1>11 DEF Agreed

LEMMA AgreementKept ==
    ASSUME Alone
    PROVE  IInv /\ CurrentInv /\ AgreementInv /\ [Next]_vars => AgreementInv'
<1> SUFFICES ASSUME IInv, CurrentInv, AgreementInv, [Next]_vars, failures' = 0,
                    NEW w \in Worker
             PROVE  Agreed(wk[w])'
  BY DEF AgreementInv
<1>1. failures \in Nat
  BY AccessAssumption DEF IInv, TypeOK
<1>2. CASE UNCHANGED vars
  BY <1>2 DEF vars, AgreementInv, Agreed, OneRowEach, RowsAgree, InviteFits, AccountsKnown,
              Changing, Midway, Settled, People, Live
<1>3. ASSUME NEW v \in Worker, Begin(v) \/ Proceed(v)
      PROVE  Agreed(wk[w])'
  <2>1. v = w
    BY DEF Alone
  <2>2. ~RequestFails(w)
    BY <1>1 DEF RequestFails
  <2>3. failures = 0
    BY <1>3, <2>1, <2>2
    DEF Begin, BeginConfirmCorporation, BeginSuspendCorporation, BeginCloseCorporation,
        BeginReinstateCorporation, BeginConfirmCompany, BeginSuspendCompany,
        BeginReinstateCompany, BeginInvite, BeginBlock, BeginCancel, BeginResend,
        BeginDelete, Start, Proceed, ChangeAccount, Commit, Finish, ProvisionAccount,
        LookUpAccount, InsertRow, RollBackInvite, RevertConfirmation
  <2>4. Agreed(wk[w])
    BY <2>3 DEF AgreementInv
  <2>5. ~RollBackInvite(w) /\ ~RevertConfirmation(w)
    BY <2>4 DEF RollBackInvite, RevertConfirmation, At, Agreed, InviteFits
  <2> QED
    BY <1>3, <2>1, <2>2, <2>4, <2>5, BeginAgreed, ChangeAccountAgreed, CommitAgreed, FinishAgreed,
       ProvisionAgreed, LookUpAgreed, InsertAgreed DEF Proceed
<1>4. ASSUME NEW p \in Person, LogIn(p)
      PROVE  Agreed(wk[w])'
  <2>1. Agreed(wk[w])
    BY <1>4 DEF LogIn, AgreementInv
  <2> QED
    BY <1>4, <2>1, LogInAgreed
<1> QED
  BY <1>2, <1>3, <1>4 DEF Next

LEMMA InitAgreement == Init => AgreementInv
<1> SUFFICES ASSUME Init, NEW w \in Worker
             PROVE  Agreed(wk[w])
  BY DEF AgreementInv
<1>1. wk[w] = Idle
  BY DEF Init
<1>2. ASSUME NEW p \in Admin
      PROVE  /\ account[p] \in Sub
             /\ rows[account[p]].person = p /\ rows[account[p]].status = "Pending"
  <2>1. account[p] \in Sub
    BY AccessAssumption DEF Init
  <2>2. (CHOOSE q \in Admin : account[q] = account[p]) = p
    BY DEF Init
  <2> QED
    BY <2>1, <2>2 DEF Init, AdminRow
<1>3. ASSUME NEW s \in People
      PROVE  /\ rows[s].person \in Admin /\ account[rows[s].person] = s
             /\ rows[s].status = "Pending"
  <2>1. s \in Sub /\ rows[s] # NoRow
    BY DEF People, Live, NoRow
  <2>2. PICK p \in Admin : account[p] = s
    BY <2>1 DEF Init
  <2> QED
    BY <1>2, <2>2
<1>4. \A p \in Admin : account[p] \in People
  BY <1>2 DEF People, Live
<1>5. OneRowEach
  BY <1>3 DEF OneRowEach
<1>6. \A s \in People : Settled(s)
  <2>1. enabled = Admin
    BY DEF Init
  <2> QED
    BY <1>3, <2>1 DEF Settled
<1>7. AccountsKnown(wk[w])
  <2> SUFFICES ASSUME NEW p \in Person, account[p] # None
               PROVE  \E s \in People : rows[s].person = p
    BY DEF AccountsKnown
  <2>1. p \in Admin
    BY DEF Init
  <2> QED
    BY <1>2, <1>4, <2>1
<1> QED
  BY <1>1, <1>5, <1>6, <1>7 DEF Agreed, RowsAgree, Changing, InviteFits, Idle

\* When requests run one at a time and no call has failed, whatever operations
\* have come before: once nothing is under way, the pool lets in exactly those
\* whom the table has as Pending or Active, under the ids of their rows.
THEOREM AccountsInAgreement ==
    ASSUME Alone, Worker # {}
    PROVE  Spec => []AccountsAgree
<1>1. Spec => []IInv
  BY InitOK, NextKeeps, PTL DEF Spec
<1>2. Spec => []CurrentInv
  BY <1>1, CurrentKept, InitCurrent, PTL DEF Spec
<1>3. Spec => []AgreementInv
  BY <1>1, <1>2, AgreementKept, InitAgreement, PTL DEF Spec
<1>4. AgreementInv => AccountsAgree
  BY DEF AgreementInv, AccountsAgree, Quiet, At, Agreed, RowsAgree, Changing, Settled
<1> QED
  BY <1>3, <1>4, PTL

===============================================================================
