------------------------------ MODULE Console ------------------------------
(***************************************************************************)
(* The web application's one page (page.tsx): what it shows, its dialogs,   *)
(* the actions it submits, the uploads they need and the refresh that ends  *)
(* them, with the API's side of uploads (finance.service.ts and             *)
(* storage.service.ts).  Session has the sign-in; what the API does with    *)
(* each record is the other modules' matter, here a row has a status and    *)
(* what the page has sent for it.                                          *)
(* A definition named <name>_<change> is an altered form of <name>, used by *)
(* no action: see Payments.                                                *)
(***************************************************************************)
EXTENDS Session, Sequences

CONSTANTS
    Kinds,     \* kinds of records in play
    Forms,     \* forms in play, of FormTable
    Files,     \* files that users choose
    MaxRows,   \* bound: rows of a kind that are ever made
    Choices,   \* bound: sets of files that users choose
    Scenes     \* bounds of a behaviour: who signs in and what is done; page
               \* is the number of rows that a refresh asks for (50 or 100),
               \* expiry whether tokens lose their force

VARIABLES
    table,     \* API: the rows of each kind, oldest first
    file,      \* API: attachment rows, and the objects behind them
    bucket,    \* API: StorageService.bucketReady
    seen,      \* page: status of each row shown, 0 for a row that is not
    seenBy,    \* page: whose rows they are
    selected,  \* page: selectedBillId, selectedPayableId and the like, 0 for none
    dialog,    \* page: the open dialog
    viewer,    \* page: the attachments dialogs
    cut,       \* what failed, since the dialog was opened, of an action that
               \* the API had done: its answer, an upload after it, or nothing
    scene      \* the member of Scenes that the behaviour keeps to

serverVars == <<table, file, bucket>>
pageVars == <<seen, seenBy, selected, dialog, viewer>>
vars == <<sessionVars, serverVars, pageVars, cut, scene>>

-----------------------------------------------------------------------------
(* The forms: what each saves, which selections it sends, which of them a   *)
(* fresh form starts from the first row shown, when its files are uploaded, *)
(* what its answer selects, and whether it makes rows, edits them by the id *)
(* that it was opened with or moves the selected row one status on.         *)

CustomerForm ==
    [saves |-> "customer", sends |-> {}, fresh |-> {}, files |-> "none",
     selects |-> FALSE, does |-> {"create", "edit"}]

SigningEntityForm ==
    [saves |-> "signingEntity", sends |-> {}, fresh |-> {}, files |-> "none",
     selects |-> FALSE, does |-> {"create", "edit"}]

UserForm ==
    [saves |-> "user", sends |-> {}, fresh |-> {}, files |-> "none",
     selects |-> FALSE, does |-> {"create", "edit"}]

SuperAdminForm ==
    [saves |-> "superAdmin", sends |-> {}, fresh |-> {}, files |-> "none",
     selects |-> FALSE, does |-> {"create", "edit"}]

TenantForm ==
    [saves |-> "tenant", sends |-> {}, fresh |-> {}, files |-> "none",
     selects |-> FALSE, does |-> {"create", "edit"}]

TenantUserForm ==
    [saves |-> "tenantUser", sends |-> {}, fresh |-> {}, files |-> "none",
     selects |-> FALSE, does |-> {"edit"}]

RecipientForm ==
    [saves |-> "recipient", sends |-> {}, fresh |-> {}, files |-> "after",
     selects |-> TRUE, does |-> {"create", "edit"}]

ContractForm ==
    [saves |-> "contract", sends |-> {"customer", "signingEntity"},
     fresh |-> {"signingEntity"}, files |-> "before", selects |-> FALSE,
     does |-> {"create", "edit"}]

ReceivableForm ==
    [saves |-> "bill", sends |-> {"customer", "contract", "signingEntity"},
     fresh |-> {}, files |-> "none", selects |-> TRUE, does |-> {"create"}]

BillStatusForm ==
    [saves |-> "bill", sends |-> {"bill"}, fresh |-> {}, files |-> "before",
     selects |-> FALSE, does |-> {"step"}]

PayableForm ==
    [saves |-> "payable", sends |-> {"bill", "recipient"}, fresh |-> {},
     files |-> "none", selects |-> TRUE, does |-> {"create"}]

PayableStatusForm ==
    [saves |-> "payable", sends |-> {"payable"}, fresh |-> {}, files |-> "before",
     selects |-> FALSE, does |-> {"step"}]

FormTable ==
    [customer |-> CustomerForm, signingEntity |-> SigningEntityForm,
     user |-> UserForm, superAdmin |-> SuperAdminForm, tenant |-> TenantForm,
     tenantUser |-> TenantUserForm, recipient |-> RecipientForm,
     contract |-> ContractForm, receivable |-> ReceivableForm,
     billStatus |-> BillStatusForm, payable |-> PayableForm,
     payableStatus |-> PayableStatusForm]

(* The kinds of rows whose attachments a dialog lists.                      *)
Viewed == {"bill", "payable", "recipient"}

ASSUME ConsoleAssumption ==
    /\ Forms \subseteq DOMAIN FormTable
    /\ None \notin Forms \cup Kinds
    /\ \A f \in Forms : {FormTable[f].saves} \cup FormTable[f].sends \subseteq Kinds
    /\ MaxRows \in Nat
    /\ Choices \subseteq SUBSET Files
    /\ Scenes \subseteq [users : SUBSET Users, rights : SUBSET BOOLEAN, tokens : Nat,
                        months : SUBSET Months, forms : SUBSET Forms,
                        views : SUBSET (Kinds \cap Viewed),
                        page : Nat \ {0}, expiry : BOOLEAN,
                        rows : [Kinds -> 0 .. MaxRows]]

Form(f) == FormTable[f]

(* The statuses of a kind in their order: nextReceivableStatus and          *)
(* nextPayableStatus give the one that follows.  A deleted row has none.    *)
LastStatus(k) ==
    CASE k = "bill" -> 4
      [] k = "payable" -> 3
      [] k \notin {"bill", "payable"} -> 1

NextStatus(k, s) == IF s \in 1 .. LastStatus(k) - 1 THEN s + 1 ELSE 0

Ids == 1 .. MaxRows
NoRefs == [k \in Kinds |-> 0]

Row == [month : Months, status : 0 .. 4, refs : [Kinds -> 0 .. MaxRows],
        files : SUBSET Files]

NoDialog == [form |-> None]

NoView == [on |-> None, row |-> 0, list |-> NoRefs, preview |-> None]

Dialog == [form : Forms, id : 0 .. MaxRows, status : 0 .. 4,
           meant : [Kinds -> 0 .. MaxRows], files : SUBSET Files,
           done : {"no", "yes"}]

Job == {Idle}
    \cup [op : {"login"}, at : {"check", "compare"}, by : Users, right : BOOLEAN,
          month : Months]
    \cup [op : {"login"}, at : {"answer"}, by : Users, token : Tokens, month : Months]
    \cup [op : {"refresh"}, at : {"me", "data"}, token : Tokens, month : Months]
    \cup [op : {"refresh"}, at : {"apply"}, token : Tokens, month : Months,
          read : [Kinds -> [Ids -> 0 .. 4]]]
    \cup [op : {"view"}, at : {"list", "preview"}, kind : Kinds, id : Ids,
          token : Tokens]

Action == [op : {"action"}, form : Forms, id : 0 .. MaxRows, status : 0 .. 4,
           refs : [Kinds -> 0 .. MaxRows], meant : [Kinds -> 0 .. MaxRows],
           files : SUBSET Files, up : SUBSET Files, did : BOOLEAN,
           at : {"presign", "put", "request", "answer", "me", "data"},
           token : Tokens, month : Months]

(* The counter of an account exceeds its limit only by attempts that had    *)
(* passed the check before it was reached.                                 *)
TypeOK ==
    /\ owner \in [Tokens -> Users \cup {None}]
    /\ expired \in SUBSET Tokens
    /\ failure \in [Users -> [count : 0 .. MaxFailures - 1 + Cardinality(Tasks),
                              old : BOOLEAN]]
    /\ token \in Tokens \cup {None}
    /\ user \in Users \cup {None}
    /\ cookie \in [token : Tokens, user : Users] \cup {None}
    /\ month \in Months
    /\ busy \in 0 .. MaxBusy
    /\ \A t \in Tasks :
         \/ task[t] \in Job
         \/ /\ task[t].op = "action"
            /\ task[t].at # "apply" => task[t] \in Action
    /\ \A k \in Kinds : table[k] \in Seq(Row) /\ Len(table[k]) <= MaxRows
    /\ file \in [Files -> [state : {"none", "row", "stored"},
                           of : ((Kinds \X Ids) \cup {None})]]
    /\ bucket \in {"unknown", "ready", "broken"}
    /\ seen \in [Kinds -> [Ids -> 0 .. 4]]
    /\ seenBy \in Users \cup {None}
    /\ selected \in [Kinds -> 0 .. MaxRows]
    /\ dialog \in {NoDialog} \cup Dialog
    /\ viewer \in [on : Kinds \cup {None}, row : 0 .. MaxRows,
                   list : [Kinds -> 0 .. MaxRows],
                   preview : (Kinds \X Ids) \cup {None}]
    /\ cut \in {"no", "answer", "upload"}
    /\ scene \in Scenes

NewRow(m) == [month |-> m, status |-> 1, refs |-> NoRefs, files |-> {}]

Nothing == [k \in Kinds |-> [i \in Ids |-> 0]]

(* The page is open, nobody has signed in; there may be rows already.       *)
Init ==
    /\ owner = [k \in Tokens |-> None]
    /\ expired = {}
    /\ failure = [u \in Users |-> NoFailure]
    /\ token = None
    /\ user = None
    /\ cookie = None
    /\ scene \in Scenes
    /\ month \in scene.months
    /\ task = [t \in Tasks |-> Idle]
    /\ busy = 0
    /\ table \in [Kinds -> {<<>>} \cup {<<NewRow(m)>> : m \in scene.months}]
    /\ \A k \in Kinds : Len(table[k]) <= scene.rows[k]
    /\ file = [f \in Files |-> [state |-> "none", of |-> None]]
    /\ bucket = "unknown"
    /\ seen = Nothing
    /\ seenBy = None
    /\ selected = NoRefs
    /\ dialog = NoDialog
    /\ viewer = NoView
    /\ cut = "no"

(* An attachments dialog is on the page while a row is selected.            *)
Viewing == viewer.on # None /\ selected[viewer.on] # 0

(* What lies under a dialog cannot be clicked.                              *)
NothingOpen == dialog = NoDialog /\ ~Viewing

KeepSession == UNCHANGED <<owner, expired, failure, token, user, cookie, month, scene>>
KeepTasks == UNCHANGED <<task, busy>>
KeepServer == UNCHANGED serverVars
KeepPage == UNCHANGED pageVars

-----------------------------------------------------------------------------
(* Dialogs.                                                                *)

Shown(k) == {i \in Ids : seen[k][i] # 0}

(* Lists come newest first.                                                *)
FirstOf(S) == IF S = {} THEN 0 ELSE CHOOSE i \in S : \A j \in S : j <= i

Opened(f, id, status, chosen) ==
    /\ dialog' = [form |-> f, id |-> id, status |-> status, files |-> {}, done |-> "no",
                  meant |-> [k \in Kinds |-> IF k \in Form(f).sends THEN chosen[k] ELSE 0]]
    /\ selected' = chosen
    /\ Click
    /\ UNCHANGED <<task, seen, seenBy, viewer>>
    /\ KeepSession
    /\ KeepServer

(* openCreate...Dialog and actionBlockReason: somebody is signed in, whose  *)
(* permissions the API asks again (see Accounts), and there is a row to     *)
(* choose of each kind.                                                    *)
OpenCreate(f) ==
    /\ NothingOpen
    /\ LoggedIn
    /\ "create" \in Form(f).does
    /\ \A k \in Form(f).sends : Shown(k) # {}
    /\ Opened(f, 0, 0,
              [k \in Kinds |->
                 IF k \in Form(f).sends /\ (selected[k] = 0 \/ k \in Form(f).fresh)
                 THEN FirstOf(Shown(k)) ELSE selected[k]])

(* openEdit...Dialog: a contract's own customer and signing entity are      *)
(* selected.                                                               *)
OpenEdit(f, i) ==
    LET k == Form(f).saves
    IN /\ NothingOpen
       /\ LoggedIn
       /\ "edit" \in Form(f).does
       /\ i \in Shown(k)
       /\ Opened(f, i, 0,
                 [j \in Kinds |->
                    IF j = k THEN i
                    ELSE IF j \in Form(f).sends THEN table[k][i].refs[j]
                    ELSE selected[j]])

(* Altered: the row is not selected.                                       *)
OpenStatus_Unselected(f, i) ==
    LET k == Form(f).saves
    IN /\ NothingOpen
       /\ "step" \in Form(f).does
       /\ NextStatus(k, seen[k][i]) # 0
       /\ dialog' = [form |-> f, id |-> i, status |-> NextStatus(k, seen[k][i]),
                     files |-> {}, done |-> "no",
                     meant |-> [j \in Kinds |-> IF j = k THEN i ELSE 0]]
       /\ Click
       /\ UNCHANGED <<task, seen, seenBy, selected, viewer>>
       /\ KeepSession
       /\ KeepServer

(* openBillStatusDialog, openPayableStatusDialog.                          *)
OpenStatus(f, i) ==
    LET k == Form(f).saves
    IN /\ NothingOpen
       /\ "step" \in Form(f).does
       /\ NextStatus(k, seen[k][i]) # 0
       /\ Opened(f, i, NextStatus(k, seen[k][i]), [selected EXCEPT ![k] = i])

(* The user chooses another row in a form that makes or edits one.          *)
Pick(k, i) ==
    /\ dialog # NoDialog
    /\ k \in Form(dialog.form).sends
    /\ "step" \notin Form(dialog.form).does
    /\ i \in Shown(k)
    /\ selected' = [selected EXCEPT ![k] = i]
    /\ dialog' = [dialog EXCEPT !.meant[k] = i]
    /\ Click
    /\ UNCHANGED <<task, seen, seenBy, viewer>>
    /\ KeepSession
    /\ KeepServer

ChooseFiles(fs) ==
    /\ dialog # NoDialog
    /\ Form(dialog.form).files # "none"
    /\ \A f \in fs : file[f].state = "none"
    /\ dialog' = [dialog EXCEPT !.files = fs]
    /\ Click
    /\ UNCHANGED <<task, seen, seenBy, selected, viewer>>
    /\ KeepSession
    /\ KeepServer

Close ==
    /\ dialog # NoDialog
    /\ dialog' = NoDialog
    /\ Click
    /\ UNCHANGED <<task, seen, seenBy, selected, viewer>>
    /\ KeepSession
    /\ KeepServer

-----------------------------------------------------------------------------
(* submitAction.                                                           *)

(* What a status dialog asks of the row that is selected when it is saved.  *)
InOrder ==
    LET k == Form(dialog.form).saves
    IN "step" \in Form(dialog.form).does =>
         /\ selected[k] \in Shown(k)
         /\ NextStatus(k, seen[k][selected[k]]) = dialog.status

FilesGiven ==
    \/ dialog.files # {}
    \/ dialog.form = "contract" /\ dialog.id # 0
    \/ dialog.form = "billStatus" /\ dialog.status = 2
    \/ dialog.form \notin {"contract", "billStatus", "payableStatus"}

(* The buttons stay enabled while an action is in flight.                   *)
Submit(t) ==
    LET f == dialog.form
        sends == [k \in Kinds |-> IF k \in Form(f).sends THEN selected[k] ELSE 0]
    IN /\ dialog # NoDialog
       /\ LoggedIn
       /\ \A k \in Form(f).sends : selected[k] # 0
       /\ InOrder
       /\ FilesGiven
       /\ Start(t, [op |-> "action", form |-> f, status |-> dialog.status,
                    id |-> IF "step" \in Form(f).does THEN selected[Form(f).saves]
                           ELSE dialog.id,
                    refs |-> sends, meant |-> dialog.meant, files |-> dialog.files,
                    up |-> {}, did |-> FALSE, token |-> token, month |-> month,
                    at |-> IF Form(f).files = "before" /\ dialog.files # {}
                           THEN "presign" ELSE "request"])
       /\ KeepPage
       /\ KeepSession
       /\ KeepServer

Acts(t, at) == task[t].op = "action" /\ task[t].at = at

Authorized(t) == task[t].token \notin expired

(* Altered: the answer is not looked at.                                   *)
Failing_GoesOn(t) == Goes(t, [task[t] EXCEPT !.at = "request"])

(* An answer that is not ok ends the action; the message says it failed.    *)
Failing(t) == Goes(t, Idle)

(* createAttachmentUploadUrl: the bucket is looked for, or made, once; what *)
(* came of it is kept for as long as the process lives.  Then the row of    *)
(* the attachment is written.                                              *)
Presign(t) ==
    LET job == task[t]
        of == IF job.form = "contract" THEN None ELSE <<Form(job.form).saves, job.id>>
    IN /\ Acts(t, "presign")
       /\ Authorized(t)
       /\ \/ bucket # "broken" /\ bucket' = "ready"
          \/ bucket # "ready" /\ bucket' = "broken"
       /\ UNCHANGED <<busy, table>>
       /\ KeepSession
       /\ KeepPage
       /\ \/ /\ bucket' = "broken"
             /\ Failing(t)
             /\ UNCHANGED file
          \/ /\ bucket' = "ready"
             /\ \E f \in job.files \ job.up :
                  /\ file[f].state = "none"
                  /\ file' = [file EXCEPT ![f] = [state |-> "row", of |-> of]]
                  /\ Goes(t, [job EXCEPT !.at = "put", !.up = @ \cup {f}])

(* The dialog closes once the answer is there, and its row is selected.     *)
CloseAfter(t) ==
    LET job == task[t]
    IN /\ dialog' = IF dialog.form = job.form THEN NoDialog ELSE dialog
       /\ selected' = [k \in Kinds |->
            IF k = Form(job.form).saves /\ Form(job.form).selects THEN job.id
            ELSE IF k \in Form(job.form).fresh THEN FirstOf(Shown(k))
            ELSE selected[k]]
       /\ Goes(t, [job EXCEPT !.at = "me"])
       /\ UNCHANGED <<seen, seenBy, viewer>>

(* The file goes to the object store.  It may get there and the answer not. *)
Put(t) ==
    LET job == task[t]
        rest == job.files \ job.up
        put == {f \in job.up : file[f].state = "row"}
        stored == [f \in Files |->
                     IF f \in put THEN [file[f] EXCEPT !.state = "stored"] ELSE file[f]]
    IN /\ Acts(t, "put")
       /\ UNCHANGED <<busy, table, bucket>>
       /\ KeepSession
       /\ \/ /\ file' \in {file, stored}
             /\ Failing(t)
             /\ KeepPage
          \/ /\ file' = stored
             /\ \/ /\ rest # {}
                   /\ Goes(t, [job EXCEPT !.at = "presign"])
                   /\ KeepPage
                \/ /\ rest = {}
                   /\ ~job.did
                   /\ Goes(t, [job EXCEPT !.at = "request"])
                   /\ KeepPage
                \/ /\ rest = {}
                   /\ job.did
                   /\ CloseAfter(t)

(* What the API does with the request: it refuses a step that is not the    *)
(* row's next, and files that are not the row's.                           *)
Accepted(t) ==
    LET job == task[t]
        k == Form(job.form).saves
    IN IF job.id = 0 THEN Len(table[k]) < scene.rows[k]
       ELSE /\ table[k][job.id].status # 0
            /\ "step" \in Form(job.form).does =>
                 /\ NextStatus(k, table[k][job.id].status) = job.status
                 /\ \A f \in job.up : file[f].of = <<k, job.id>>

Saved(t) ==
    LET job == task[t]
        k == Form(job.form).saves
        sent == [month |-> job.month, status |-> 1, refs |-> job.refs, files |-> job.up]
        was == table[k][job.id]
    IN IF job.id = 0 THEN [table EXCEPT ![k] = Append(@, sent)]
       ELSE IF "step" \in Form(job.form).does
       THEN [table EXCEPT ![k][job.id].status = job.status,
                          ![k][job.id].files = @ \cup job.up]
       ELSE [table EXCEPT ![k][job.id].refs = job.refs,
                          ![k][job.id].files = @ \cup job.up]

Handle(t) ==
    LET job == task[t]
        k == Form(job.form).saves
        id == IF job.id = 0 THEN Len(table[k]) + 1 ELSE job.id
    IN /\ Acts(t, "request")
       /\ Authorized(t)
       /\ UNCHANGED <<busy, bucket, seen, seenBy, selected, viewer>>
       /\ KeepSession
       /\ \/ /\ Failing(t)
             /\ UNCHANGED <<table, file, dialog>>
          \/ /\ Accepted(t)
             /\ table' = Saved(t)
             /\ file' = [f \in Files |-> IF f \in job.up
                                         THEN [file[f] EXCEPT !.of = <<k, id>>] ELSE file[f]]
             /\ dialog' = IF dialog.form = job.form THEN [dialog EXCEPT !.done = "yes"]
                          ELSE dialog
             /\ Goes(t, [job EXCEPT !.at = "answer", !.did = TRUE, !.id = id])

(* Altered: the dialog is closed by the refresh only.                      *)
Answer_Open(t) ==
    /\ Acts(t, "answer")
    /\ Goes(t, [task[t] EXCEPT !.at = "me"])
    /\ UNCHANGED busy
    /\ KeepSession
    /\ KeepServer
    /\ KeepPage

Answer(t) ==
    /\ Acts(t, "answer")
    /\ UNCHANGED busy
    /\ KeepSession
    /\ KeepServer
    /\ \/ /\ task[t].files \ task[t].up # {}
          /\ Goes(t, [task[t] EXCEPT !.at = "presign"])
          /\ KeepPage
       \/ /\ task[t].files \ task[t].up = {}
          /\ CloseAfter(t)

(* A fetch fails, or its answer is lost: the message says that the action   *)
(* failed.                                                                 *)
Lose(t) ==
    /\ task[t] # Idle
    /\ task[t].at \in {"answer", "presign", "me", "data", "list", "preview"}
    /\ Goes(t, Idle)
    /\ UNCHANGED busy
    /\ KeepSession
    /\ KeepServer
    /\ KeepPage

-----------------------------------------------------------------------------
(* The dialogs that list the attachments of a row and show one of them: what *)
(* they list is named by the row it belongs to.                            *)

OpenAttachments(t, k, i) ==
    /\ NothingOpen
    /\ LoggedIn
    /\ i \in Shown(k)
    /\ selected' = [selected EXCEPT ![k] = i]
    /\ viewer' = [viewer EXCEPT !.on = k, !.row = i, !.list[k] = 0, !.preview = None]
    /\ Start(t, [op |-> "view", at |-> "list", kind |-> k, id |-> i, token |-> token])
    /\ UNCHANGED <<seen, seenBy, dialog>>
    /\ KeepSession
    /\ KeepServer

Views(t, at) ==
    /\ task[t].op = "view"
    /\ task[t].at = at
    /\ Authorized(t)
    /\ Goes(t, Idle)
    /\ UNCHANGED <<busy, seen, seenBy, selected, dialog>>
    /\ KeepSession
    /\ KeepServer

(* The list goes to the dialog of its kind, whatever that shows by now.     *)
AttachmentsListed(t) ==
    /\ Views(t, "list")
    /\ viewer' = [viewer EXCEPT !.list[task[t].kind] = task[t].id]

OpenPreview(t) ==
    LET k == viewer.on
    IN /\ Viewing
       /\ LoggedIn
       /\ viewer.list[k] # 0
       /\ Start(t, [op |-> "view", at |-> "preview", kind |-> k,
                    id |-> viewer.list[k], token |-> token])
       /\ KeepPage
       /\ KeepSession
       /\ KeepServer

Previewed(t) ==
    /\ Views(t, "preview")
    /\ viewer' = [viewer EXCEPT !.preview = <<task[t].kind, task[t].id>>]

CloseAttachments ==
    /\ Viewing
    /\ viewer' = [viewer EXCEPT !.on = None, !.row = 0, !.list[viewer.on] = 0,
                                !.preview = None]
    /\ Click
    /\ UNCHANGED <<task, seen, seenBy, selected, dialog>>
    /\ KeepSession
    /\ KeepServer

-----------------------------------------------------------------------------
(* refresh.                                                                *)

Rows(k, m) ==
    {i \in DOMAIN table[k] : table[k][i].status # 0
                               /\ (k = "bill" => table[k][i].month = m)}

(* The newest rows, one page of them; bills and costs of the month only.    *)
Listed(k, m) ==
    {i \in Rows(k, m) : Cardinality({j \in Rows(k, m) : j > i}) < scene.page}

ReadData(t) ==
    /\ task[t].op \in {"refresh", "action"}
    /\ task[t].at = "data"
    /\ Authorized(t)
    /\ Goes(t, [op |-> task[t].op, at |-> "apply", token |-> task[t].token,
                month |-> task[t].month,
                read |-> [k \in Kinds |-> [i \in Ids |->
                            IF i \in Listed(k, task[t].month)
                            THEN table[k][i].status ELSE 0]]])
    /\ UNCHANGED busy
    /\ KeepSession
    /\ KeepServer
    /\ KeepPage

(* applyConsoleData: a selection that is not among the rows is replaced by  *)
(* the first of them, also under an open dialog.                           *)
ApplyData(t) ==
    LET read == task[t].read
    IN /\ task[t].op \in {"refresh", "action"}
       /\ task[t].at = "apply"
       /\ seen' = read
       /\ seenBy' = owner[task[t].token]
       /\ selected' = [k \in Kinds |->
            LET rows == {i \in Ids : read[k][i] # 0}
            IN IF selected[k] \in rows THEN selected[k] ELSE FirstOf(rows)]
       /\ Goes(t, Idle)
       /\ UNCHANGED <<busy, dialog, viewer>>
       /\ KeepSession
       /\ KeepServer

(* applyConsoleData(emptyConsoleData()).                                   *)
Cleared ==
    /\ seen' = Nothing
    /\ seenBy' = None
    /\ selected' = NoRefs

-----------------------------------------------------------------------------
(* Other pages, and restarts of the API.                                   *)

OthersAdd(k, m) ==
    /\ Len(table[k]) < scene.rows[k]
    /\ table' = [table EXCEPT ![k] = Append(@, NewRow(m))]
    /\ UNCHANGED <<file, bucket>>
    /\ KeepSession
    /\ KeepTasks
    /\ KeepPage

OthersStep(k, i) ==
    /\ NextStatus(k, table[k][i].status) # 0
    /\ table' = [table EXCEPT ![k][i].status = NextStatus(k, @)]
    /\ UNCHANGED <<file, bucket>>
    /\ KeepSession
    /\ KeepTasks
    /\ KeepPage

(* Bills and payables are not deleted.                                     *)
OthersDelete(k, i) ==
    /\ k \notin {"bill", "payable"}
    /\ table[k][i].status # 0
    /\ table' = [table EXCEPT ![k][i].status = 0]
    /\ UNCHANGED <<file, bucket>>
    /\ KeepSession
    /\ KeepTasks
    /\ KeepPage

(* The counters of failed attempts and the bucket's promise are in memory.  *)
RestartApi ==
    /\ \A t \in Tasks : task[t] # Idle => task[t].at # "compare"
    /\ bucket' = "unknown"
    /\ failure' = [u \in Users |-> NoFailure]
    /\ UNCHANGED <<owner, expired, token, user, cookie, month, table, file, scene>>
    /\ KeepTasks
    /\ KeepPage

-----------------------------------------------------------------------------
SessionStep(t) ==
    /\ \/ \E u \in scene.users, right \in scene.rights : SubmitLogin(t, u, right)
       \/ AssertLoginAllowed(t)
       \/ Compare(t) /\ Cardinality({k \in Tokens : owner'[k] # None}) <= scene.tokens
       \/ LoginAnswer(t)
       \/ Refresh(t) /\ NothingOpen
       \/ Me(t)
    /\ KeepServer
    /\ KeepPage
    /\ UNCHANGED scene

ResetStep(t) ==
    /\ Unauthorized(t)
    /\ Cleared
    /\ KeepServer
    /\ UNCHANGED <<dialog, viewer, scene>>

ReloadStep(t) ==
    /\ \E m \in scene.months : Reload(t, m)
    /\ Cleared
    /\ KeepServer
    /\ dialog' = NoDialog
    /\ viewer' = NoView
    /\ UNCHANGED scene

TaskStep(t) ==
    \/ SessionStep(t)
    \/ ResetStep(t)
    \/ ReloadStep(t)
    \/ Submit(t)
    \/ Presign(t)
    \/ Put(t)
    \/ Handle(t)
    \/ Answer(t)
    \/ Lose(t)
    \/ ReadData(t)
    \/ ApplyData(t)
    \/ \E k \in scene.views, i \in Ids : OpenAttachments(t, k, i)
    \/ AttachmentsListed(t)
    \/ OpenPreview(t)
    \/ Previewed(t)

UserStep ==
    \/ Logout /\ NothingOpen /\ Cleared /\ KeepServer
         /\ UNCHANGED <<dialog, viewer, scene>>
    \/ (\E m \in scene.months : ChangeMonth(m)) /\ KeepServer /\ KeepPage /\ UNCHANGED scene
    \/ \E f \in scene.forms :
         OpenCreate(f) \/ \E i \in Ids : OpenEdit(f, i) \/ OpenStatus(f, i)
    \/ \E k \in Kinds, i \in Ids : Pick(k, i)
    \/ \E fs \in Choices : ChooseFiles(fs)
    \/ Close
    \/ CloseAttachments

OtherStep ==
    \/ \E k \in Kinds :
         \/ \E m \in scene.months : OthersAdd(k, m)
         \/ \E i \in DOMAIN table[k] : OthersStep(k, i) \/ OthersDelete(k, i)
    \/ \E u \in Users : WindowEnds(u) /\ KeepServer /\ KeepPage /\ UNCHANGED scene
    \/ \E k \in Tokens : scene.expiry /\ Expire(k) /\ KeepServer /\ KeepPage /\ UNCHANGED scene
    \/ RestartApi

(* An action of the open dialog, done by the API, ends where it is.         *)
Fails(t, at) ==
    /\ Acts(t, at)
    /\ task[t].did
    /\ task'[t] = Idle
    /\ dialog.form = task[t].form

Mark ==
    cut' = IF dialog = NoDialog \/ dialog' = NoDialog THEN "no"
           ELSE IF \E t \in Tasks : Fails(t, "answer") THEN "answer"
           ELSE IF \E t \in Tasks : Fails(t, "presign") \/ Fails(t, "put") THEN "upload"
           ELSE cut

Next ==
    /\ UserStep \/ OtherStep \/ \E t \in Tasks : TaskStep(t)
    /\ Mark

Spec == Init /\ [][Next]_vars
-----------------------------------------------------------------------------
(* Properties.                                                             *)

(* The cookie names the user to whom its token was issued, whatever tasks   *)
(* meet; and a user who waits for the page has the session on the screen in *)
(* the cookie, sees rows of no other user, and leaves nothing behind when   *)
(* signed out.                                                             *)
SessionAgrees ==
    /\ cookie # None => cookie.user = owner[cookie.token]
    /\ Quiet =>
         /\ cookie = IF token = None THEN None ELSE Cookie(token, user)
         /\ (token = None => user = None)
         /\ seenBy \in {None, user}

(* A file that a row counts as its evidence is in the object store, however *)
(* uploads, retries and other actions meet.                                *)
EvidenceStored ==
    \A k \in Kinds : \A i \in DOMAIN table[k] : \A f \in table[k][i].files :
      file[f].state = "stored"

(* A user who waits: when the API has done what an open dialog asks for and *)
(* nothing is under way, then the answer got lost on its way, or the form   *)
(* is one that uploads its files afterwards and an upload failed.  After    *)
(* anything else that may fail, or be refused, the dialog that is still     *)
(* open can be saved again and nothing is done twice.                      *)
OpenMeansUndone ==
    Quiet /\ Calm /\ dialog # NoDialog /\ dialog.done = "yes" =>
      \/ cut = "answer"
      \/ cut = "upload" /\ Form(dialog.form).files = "after"

RefsAsMeant ==
    \A t \in Tasks :
      task[t].op = "action" /\ task[t].at # "apply" => task[t].refs = task[t].meant

OwnAttachments ==
    Viewing =>
      /\ selected[viewer.on] = viewer.row
      /\ viewer.list[viewer.on] \in {0, viewer.row}
      /\ viewer.preview \in {None, <<viewer.on, viewer.row>>}

(* A user who waits, while the session lasts: an action is about the rows   *)
(* that the user has chosen, and the attachments on the page are those of   *)
(* the row whose dialog was opened.                                        *)
AsMeant ==
    Quiet /\ expired = {} =>
      /\ RefsAsMeant
      /\ OwnAttachments

(* What TLC refutes, for a user who clicks while the page works: a refresh  *)
(* that is under way at the sign-out brings the cookie back.               *)
SignedOutForGood == token = None => cookie = None

(* What TLC refutes, for a user who clicks while the page works: a refresh  *)
(* that replaces the selection under an open dialog turns its action to     *)
(* another row.                                                            *)
AlwaysAsMeant == RefsAsMeant

(* What TLC refutes, for a user who waits: a status dialog that is open when *)
(* the session ends comes back after the next sign-in, about the first row. *)
AsMeantAfterwards == Quiet => RefsAsMeant

(* What TLC refutes, for a user who clicks while the page works: the list   *)
(* of one row's attachments arrives in the dialog of another.              *)
ViewerShowsOwn == OwnAttachments

(* What TLC refutes: an action that the API has done ends with the message  *)
(* that it is done; a failing refresh makes that message a failure.        *)
DoneIsToldSo ==
    [][\A t \in Tasks :
         Acts(t, "me") \/ Acts(t, "data") => task'[t] # Idle]_vars

(* What TLC refutes: the dialog of an action whose answer was lost is open, *)
(* and so is that of a payment recipient whose files failed to upload: the  *)
(* action is done, and saving again does it twice.                         *)
OpenMeansUndoneAlways ==
    Quiet /\ Calm /\ dialog # NoDialog => dialog.done # "yes"
=============================================================================
