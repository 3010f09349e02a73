----------------------------- MODULE AccountAccess -----------------------------
(***************************************************************************)
(* Who can get in: a corporation with its companies, the app_users rows of *)
(* their people, and the people's accounts in the Cognito user pool.       *)
(*                                                                         *)
(* Suspending, closing and reinstating (CompanyService and                 *)
(* CorporationService), and inviting, blocking, cancelling, resending and  *)
(* deleting (AppUserService) each change Cognito account by account and    *)
(* Postgres in one transaction, in an order of their own.  A request is a  *)
(* Worker; what it reads before its first write is read in one step, and   *)
(* each Cognito call and each transaction is a step that may fail.         *)
(*                                                                         *)
(* One corporation.  Everybody was invited for BSPBlueprint, so everybody  *)
(* belongs to the corporation.  An Admin administers every company ("same  *)
(* as corporation admin"); anybody else is invited to one company.  The    *)
(* sign-out that precedes a disable, groups, passwords, e-mails, reasons   *)
(* and dates are left out.                                                 *)
(***************************************************************************)
EXTENDS Naturals

CONSTANTS Company,
          Person,       \* e-mail addresses, the user names of the pool
          Admin,        \* those who administer every company
          Sub,          \* the ids Cognito gives to accounts, keys of app_users
          Worker,       \* requests that may run at the same time
          None,
          Operation,    \* the operations that are offered
          MaxFailure    \* bound: calls that fail

Offered == {"confirmCorporation", "confirmCompany", "suspendCompany",
            "suspendCorporation", "closeCorporation", "reinstateCompany",
            "reinstateCorporation", "invite", "block", "unblock", "cancel",
            "resend", "delete"}

ASSUME AccessAssumption ==
    /\ Admin \subseteq Person
    /\ None \notin Sub \cup Person
    /\ Operation \subseteq Offered
    /\ MaxFailure \in Nat

VARIABLES
    corp,       \* Postgres: corporations.status
    company,    \* Postgres: corporation_companies.status
    rows,       \* Postgres: app_users with their user_company_access
    account,    \* Cognito: whose account has which id
    enabled,    \* Cognito: the people whose account is enabled
    wk,         \* the requests
    failures

vars == <<corp, company, rows, account, enabled, wk, failures>>

Down == {"SUSPENDED", "CLOSED"}

NoRow == [person |-> None, access |-> {}, status |-> "none"]

\* A request: the operation, the step it is at, the rows it is about, those
\* whose accounts are still to be changed, the companies it is about, and
\* whom it invites.
Idle == [op |-> "none", at |-> "idle", subs |-> {}, todo |-> {}, cos |-> {},
         person |-> None]

AdminRow(p) == [person |-> p, access |-> Company, status |-> "Pending"]

\* The admins are provisioned with the corporation and its companies.
Init ==
    /\ corp = "INCOMPLETE"
    /\ company = [c \in Company |-> "INCOMPLETE"]
    /\ account \in [Person -> Sub \cup {None}]
    /\ \A p \in Person : (account[p] # None) <=> (p \in Admin)
    /\ \A p, q \in Admin : account[p] = account[q] => p = q
    /\ rows = [s \in Sub |-> IF \E p \in Admin : account[p] = s
                             THEN AdminRow(CHOOSE p \in Admin : account[p] = s)
                             ELSE NoRow]
    /\ enabled = Admin
    /\ wk = [w \in Worker |-> Idle]
    /\ failures = 0

-------------------------------------------------------------------------------
(* What a request reads.                                                   *)

Live(s) == rows[s].status \notin {"none", "Deleted"}

People == {s \in Sub : Live(s)}

\* The rows with user_company_access to one of the companies.
Members(cs) == {s \in People : rows[s].access \cap cs # {}}

\* Mutant: only the corporation is looked at.
OrgUpCorporationOnly(s) == corp \notin Down

\* assertTargetUserOrgNotSuspended lets the request pass.
OrgUp(s) == /\ corp \notin Down
            /\ \A c \in rows[s].access : company[c] \notin Down

-------------------------------------------------------------------------------
(* Starting a request.                                                     *)

At(w, at) == wk[w].at = at

Start(w, op, at, subs, cos, p) ==
    /\ op \in Operation
    /\ At(w, "idle")
    /\ wk' = [wk EXCEPT ![w] = [op |-> op, at |-> at, subs |-> subs,
                                todo |-> IF at = "accounts" THEN subs ELSE {},
                                cos |-> cos, person |-> p]]
    /\ UNCHANGED <<corp, company, rows, account, enabled, failures>>

\* updateSteps, type "confirmation"; it mails the admin before it writes.
BeginConfirmCorporation(w) ==
    /\ corp # "CLOSED"
    /\ Start(w, "confirmCorporation", "accounts", {}, {}, None)

\* confirmCompany asks only whether the company exists.
BeginConfirmCompany(w, c) == Start(w, "confirmCompany", "commit", {}, {c}, None)

BeginSuspendCompany(w, c) ==
    /\ company[c] = "ACTIVE"
    /\ Start(w, "suspendCompany", "accounts", Members({c}), {c}, None)

\* suspendOrClose: every company, whatever its status, and everybody.
BeginSuspendCorporation(w) ==
    /\ corp \notin Down
    /\ Start(w, "suspendCorporation", "accounts", People, Company, None)

BeginCloseCorporation(w) ==
    /\ corp # "CLOSED"
    /\ Start(w, "closeCorporation", "accounts", People, Company, None)

BeginReinstateCompany(w, c) ==
    /\ company[c] = "SUSPENDED"
    /\ corp # "SUSPENDED"
    /\ Start(w, "reinstateCompany", "commit", Members({c}), {c}, None)

Suspended == {c \in Company : company[c] = "SUSPENDED"}

BeginReinstateCorporation(w) ==
    /\ corp = "SUSPENDED"
    /\ Start(w, "reinstateCorporation", "commit", People, Suspended, None)

\* An id Cognito may still give.
Unused(s) == /\ rows[s] = NoRow
             /\ \A p \in Person : account[p] # s
             /\ \A w \in Worker : s \notin wk[w].subs

\* inviteAppUser: no live row has the address; the company may be down.
\* Bound: an id is left.
BeginInvite(w, p, c) ==
    /\ account[p] # None \/ \E s \in Sub : Unused(s)
    /\ \A s \in People : rows[s].person # p
    /\ Start(w, "invite", "provision", {}, {c}, p)

\* setBlockedStatus, one way and the other.
BeginBlock(w, s) ==
    /\ s \in People /\ OrgUp(s)
    /\ \E op \in {"block", "unblock"} : Start(w, op, "accounts", {s}, {}, None)

\* Mutant: the account is left enabled.
BeginCancelRowOnly(w, s) ==
    /\ rows[s].status = "Pending"
    /\ Start(w, "cancel", "commit", {s}, {}, None)

BeginCancel(w, s) ==
    /\ rows[s].status = "Pending"
    /\ Start(w, "cancel", "accounts", {s}, {}, None)

\* resendInvitation of a pending one changes neither the account nor the row.
BeginResend(w, s) ==
    /\ rows[s].status = "Cancelled"
    /\ Start(w, "resend", "accounts", {s}, {}, None)

\* softDelete refuses admins.
BeginDelete(w, s) ==
    /\ s \in People /\ rows[s].person \notin Admin
    /\ Start(w, "delete", "accounts", {s}, {}, None)

-------------------------------------------------------------------------------
(* Running a request.                                                      *)

Disabling == {"suspendCompany", "suspendCorporation", "closeCorporation", "block", "cancel"}

Reinstating == {"reinstateCompany", "reinstateCorporation"}

\* One Cognito call for one person.  A person unknown to Cognito is skipped,
\* except by a resend, which then asks for the account and is refused.
ChangeAccount(w, s) ==
    LET p == rows[s].person IN
    /\ At(w, "accounts") /\ s \in wk[w].todo
    /\ enabled' = IF account[p] = None THEN enabled
                  ELSE IF wk[w].op \in Disabling \cup {"delete"} THEN enabled \ {p}
                  ELSE enabled \cup {p}
    /\ account' = IF wk[w].op = "delete" THEN [account EXCEPT ![p] = None] ELSE account
    /\ wk' = [wk EXCEPT ![w] = IF wk[w].op = "resend" /\ account[p] = None THEN Idle
                               ELSE [wk[w] EXCEPT !.todo = @ \ {s}]]
    /\ UNCHANGED <<corp, company, rows, failures>>

CorporationAfter(op) ==
    CASE op = "suspendCorporation" -> "SUSPENDED"
      [] op = "closeCorporation" -> "CLOSED"
      [] op \in {"confirmCorporation", "reinstateCorporation"} -> "ACTIVE"
      [] OTHER -> corp

\* Mutant: the status of an app user is written for that of a company.
CompanyAfterOfUser(op) ==
    CASE op \in {"suspendCompany", "suspendCorporation"} -> "SUSPENDED"
      [] op = "closeCorporation" -> "CLOSED"
      [] OTHER -> "Active"

CompanyAfter(op) ==
    CASE op \in {"suspendCompany", "suspendCorporation"} -> "SUSPENDED"
      [] op = "closeCorporation" -> "CLOSED"
      [] OTHER -> "ACTIVE"

StatusAfter(op) ==
    CASE op \in Disabling \ {"cancel"} -> "Blocked"
      [] op = "cancel" -> "Cancelled"
      [] op = "resend" -> "Pending"
      [] op = "delete" -> "Deleted"
      [] OTHER -> "Active"

Goto(w, at) == wk' = [wk EXCEPT ![w] = IF at = "idle" THEN Idle ELSE [@ EXCEPT !.at = at]]

\* Mutant: the Cognito calls are not awaited.
MayCommitEarly(w) == \/ At(w, "commit")
                     \/ At(w, "accounts") /\ wk[w].op \notin Reinstating

\* A reinstatement writes first and enables then; everything else has dealt
\* with the accounts when it writes.
MayCommit(w) == \/ At(w, "commit")
                \/ At(w, "accounts") /\ wk[w].todo = {} /\ wk[w].op \notin Reinstating

\* The transaction, or the one update, of every operation but an invitation.
\* It does not look again at what was read, save for deleted rows.
Commit(w) ==
    LET op == wk[w].op IN
    /\ MayCommit(w)
    /\ corp' = CorporationAfter(op)
    /\ company' = [c \in Company |-> IF c \in wk[w].cos THEN CompanyAfter(op) ELSE company[c]]
    /\ rows' = [s \in Sub |-> IF s \in wk[w].subs /\ Live(s)
                              THEN [rows[s] EXCEPT !.status = StatusAfter(op)]
                              ELSE rows[s]]
    /\ IF op \in Reinstating
       THEN wk' = [wk EXCEPT ![w].at = "accounts", ![w].todo = wk[w].subs]
       ELSE Goto(w, IF op = "confirmCompany" THEN "onboard" ELSE "idle")
    /\ UNCHANGED <<account, enabled, failures>>

\* A reinstatement has enabled everybody, or the admin has the invitation.
Finish(w) ==
    /\ \/ At(w, "accounts") /\ wk[w].op \in Reinstating /\ wk[w].todo = {}
       \/ At(w, "onboard")
    /\ Goto(w, "idle")
    /\ UNCHANGED <<corp, company, rows, account, enabled, failures>>

\* provisionCognitoForAppUserInvite: an account that exists is used as it is.
ProvisionAccount(w) ==
    LET p == wk[w].person IN
    /\ At(w, "provision")
    /\ IF account[p] # None THEN UNCHANGED <<account, enabled>>
       ELSE /\ \E s \in Sub : Unused(s) /\ account' = [account EXCEPT ![p] = s]
            /\ enabled' = enabled \cup {p}
    /\ Goto(w, "lookup")
    /\ UNCHANGED <<corp, company, rows, failures>>

\* The account is added to its group, and getCognitoSubByUsername finds its id;
\* without an account the invitation is rolled back.
LookUpAccount(w) ==
    LET s == account[wk[w].person] IN
    /\ At(w, "lookup")
    /\ wk' = [wk EXCEPT ![w].at = IF s = None THEN "rollback" ELSE "insert",
                        ![w].subs = {s} \ {None}]
    /\ UNCHANGED <<corp, company, rows, account, enabled, failures>>

\* The key and the address of a live row are unique: another invitation of
\* the same person may have come first.
InsertRow(w) ==
    /\ At(w, "insert")
    /\ \E s \in wk[w].subs :
          IF rows[s] = NoRow /\ \A t \in People : rows[t].person # wk[w].person
          THEN /\ rows' = [rows EXCEPT ![s] = [person |-> wk[w].person, access |-> wk[w].cos,
                                               status |-> "Pending"]]
               /\ Goto(w, "idle")
          ELSE Goto(w, "rollback") /\ UNCHANGED rows
    /\ UNCHANGED <<corp, company, account, enabled, failures>>

\* deleteCognitoUser, by address.
RollBackInvite(w) ==
    /\ At(w, "rollback")
    /\ account' = [account EXCEPT ![wk[w].person] = None]
    /\ enabled' = enabled \ {wk[w].person}
    /\ Goto(w, "idle")
    /\ UNCHANGED <<corp, company, rows, failures>>

\* confirmCompany puts the company back to INCOMPLETE.
RevertConfirmation(w) ==
    /\ At(w, "revert")
    /\ company' = [c \in Company |-> IF c \in wk[w].cos THEN "INCOMPLETE" ELSE company[c]]
    /\ Goto(w, "idle")
    /\ UNCHANGED <<corp, rows, account, enabled, failures>>

\* What a failure leads to: an invitation whose account is in its group removes
\* the account, a confirmation whose onboarding fails takes its status back,
\* and in everything else what has been done stays done.
AfterFailure(at) ==
    CASE at = "lookup" -> {"idle", "rollback"}
      [] at = "insert" -> {"rollback"}
      [] at = "onboard" -> {"revert"}
      [] OTHER -> {"idle"}

\* A call fails, without effect.
RequestFails(w) ==
    /\ failures < MaxFailure
    /\ ~At(w, "idle")
    /\ failures' = failures + 1
    /\ \E at \in AfterFailure(wk[w].at) : Goto(w, at)
    /\ UNCHANGED <<corp, company, rows, account, enabled>>

\* An invited person sets a password; syncFromCognito activates the row.
LogIn(p) ==
    /\ p \in enabled
    /\ \E s \in Sub : /\ account[p] = s
                      /\ rows[s].status = "Pending"
                      /\ rows' = [rows EXCEPT ![s].status = "Active"]
    /\ UNCHANGED <<corp, company, account, enabled, wk, failures>>

-------------------------------------------------------------------------------
Begin(w) ==
    \/ BeginConfirmCorporation(w)
    \/ BeginSuspendCorporation(w)
    \/ BeginCloseCorporation(w)
    \/ BeginReinstateCorporation(w)
    \/ \E c \in Company : \/ BeginConfirmCompany(w, c)
                          \/ BeginSuspendCompany(w, c)
                          \/ BeginReinstateCompany(w, c)
    \/ \E p \in Person, c \in Company : BeginInvite(w, p, c)
    \/ \E s \in Sub : BeginBlock(w, s) \/ BeginCancel(w, s) \/ BeginResend(w, s) \/ BeginDelete(w, s)

Proceed(w) ==
    \/ \E s \in Sub : ChangeAccount(w, s)
    \/ Commit(w)
    \/ Finish(w)
    \/ ProvisionAccount(w)
    \/ LookUpAccount(w)
    \/ InsertRow(w)
    \/ RollBackInvite(w)
    \/ RevertConfirmation(w)
    \/ RequestFails(w)

Next == \/ \E w \in Worker : Begin(w) \/ Proceed(w)
        \/ \E p \in Person : LogIn(p)

Spec == Init /\ [][Next]_vars

-------------------------------------------------------------------------------
(* Properties.                                                             *)

Status == {"INCOMPLETE", "ACTIVE", "SUSPENDED", "CLOSED"}

RowStatus == {"Pending", "Active", "Blocked", "Cancelled", "Deleted"}

Row == [person : Person, access : SUBSET Company, status : RowStatus]

Request == [op : Offered \cup {"none"},
            at : {"idle", "accounts", "commit", "onboard", "revert", "provision",
                  "lookup", "insert", "rollback"},
            subs : SUBSET Sub, todo : SUBSET Sub, cos : SUBSET Company,
            person : Person \cup {None}]

\* Every variable holds what its table or pool can hold.
TypeOK ==
    /\ corp \in Status
    /\ company \in [Company -> Status]
    /\ rows \in [Sub -> Row \cup {NoRow}]
    /\ account \in [Person -> Sub \cup {None}]
    /\ enabled \subseteq Person
    /\ wk \in [Worker -> Request]
    /\ failures \in 0..MaxFailure

Quiet == \A w \in Worker : At(w, "idle")

\* When no call has failed and nothing is under way, the pool lets in exactly
\* those whom the table has as Pending or Active, under the ids of their rows:
\* the two records of AppUserService, CompanyService and CorporationService
\* agree after any sequence of their operations.
AccountsAgree ==
    Quiet /\ failures = 0 =>
        \A s \in People : /\ account[rows[s].person] = s
                          /\ rows[s].person \in enabled <=> rows[s].status \in {"Pending", "Active"}

BlocksMembers ==
    \A s \in People : OrgUp(s) /\ ~OrgUp(s)' => /\ rows'[s].status = "Blocked"
                                                /\ rows[s].person \notin enabled'

\* Someone whose company or corporation goes down is out in both records at
\* that very moment, whatever calls failed before (suspendCompany, suspendOrClose).
SuspensionBlocksMembers == [][BlocksMembers]_vars

\* Nobody who belongs to one company is unblocked while it is down: neither
\* by an admin (assertTargetUserOrgNotSuspended) nor by a reinstatement.
UnblockedOnlyWhenUp ==
    [][\A s \in Sub, c \in Company :
          rows[s].status = "Blocked" /\ rows'[s].status = "Active" /\ rows[s].access = {c}
              => company'[c] \notin Down]_vars

\* "Closed corporation cannot be suspended" (corporation.service.ts) and "CLOSED =
\* close the corporation permanently" (suspend-close-corporation.dto.ts): no
\* request takes a corporation out of CLOSED.
ClosedIsFinal == [][corp = "CLOSED" => corp' = "CLOSED"]_vars

===============================================================================
