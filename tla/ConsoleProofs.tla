---------------------------- MODULE ConsoleProofs ----------------------------
(***************************************************************************)
(* Theorems about Console, for any users, tokens, tasks, months, forms,    *)
(* files and scenes.                                                       *)
(***************************************************************************)
EXTENDS Console, FiniteSetTheorems, SequenceTheorems, WellFoundedInduction, TLAPS

(* What a task may be.                                                     *)
Entering == [op : {"login"}, at : {"check", "compare"}, by : Users, right : BOOLEAN,
             month : Months]

Entered == [op : {"login"}, at : {"answer"}, by : Users, token : Tokens, month : Months]

Refreshing == [op : {"refresh"}, at : {"me", "data"}, token : Tokens, month : Months]

Lists == [Kinds -> [Ids -> 0 .. 4]]

Applying == [op : {"refresh", "action"}, at : {"apply"}, token : Tokens, month : Months,
             read : Lists]

Looking == [op : {"view"}, at : {"list", "preview"}, kind : Kinds, id : Ids,
            token : Tokens]

Work == {Idle} \cup Entering \cup Entered \cup Refreshing \cup Applying
          \cup Looking \cup Action

(* The fields of a task, by what it does and how far it has come.          *)
LEMMA TaskFields ==
    ASSUME NEW j \in Work
    PROVE  /\ j = Idle <=> j.op = "idle"
           /\ j.op = "login" =>
                /\ j.at \in {"check", "compare"} => j \in Entering
                /\ j.at = "answer" => j \in Entered
                /\ j.at \in {"check", "compare", "answer"}
                /\ j.by \in Users
                /\ j.month \in Months
           /\ j.op \in {"refresh", "action"} =>
                /\ j.token \in Tokens
                /\ j.month \in Months
                /\ j.at = "apply" => j \in Applying
           /\ j.op = "refresh" /\ j.at # "apply" => j \in Refreshing
           /\ j.op = "action" /\ j.at # "apply" => j \in Action
           /\ j.op = "view" => j \in Looking
           /\ j.op \in {"idle", "login", "refresh", "action", "view"}
BY DEF Work, Idle, Entering, Entered, Refreshing, Applying, Looking, Action

(* The tasks of the type invariant.                                        *)
LEMMA WorkIsTyped ==
    ASSUME NEW j \in Work
    PROVE  \/ j \in Job
           \/ j.op = "action" /\ (j.at # "apply" => j \in Action)
BY TaskFields DEF Work, Job, Idle, Entering, Entered, Refreshing, Applying,
  Looking, Action, Lists

LEMMA FormKinds ==
    ASSUME NEW f \in Forms
    PROVE  Form(f).saves \in Kinds /\ Form(f).sends \subseteq Kinds
BY ConsoleAssumption DEF Form

(* When a form's files are uploaded.                                       *)
LEMMA FormFiles ==
    ASSUME NEW f \in Forms
    PROVE  Form(f).files \in {"none", "before", "after"}
<1>1. f \in DOMAIN FormTable
  BY ConsoleAssumption
<1>2. f \in {"customer", "signingEntity", "user", "superAdmin", "tenant",
             "tenantUser", "recipient", "contract", "receivable",
             "billStatus", "payable", "payableStatus"}
  BY <1>1 DEF FormTable
<1> QED BY <1>2 DEF Form, FormTable, CustomerForm, SigningEntityForm, UserForm,
  SuperAdminForm, TenantForm, TenantUserForm, RecipientForm, ContractForm,
  ReceivableForm, BillStatusForm, PayableForm, PayableStatusForm

USE DEF Goes, KeepSession, KeepTasks, KeepServer, KeepPage, serverVars, pageVars

-----------------------------------------------------------------------------
(* The type invariant.                                                     *)

SessionTyped ==
    /\ owner \in [Tokens -> Users \cup {None}]
    /\ expired \in SUBSET Tokens
    /\ failure \in [Users -> [count : Nat, old : BOOLEAN]]
    /\ token \in Tokens \cup {None}
    /\ user \in Users \cup {None}
    /\ cookie \in [token : Tokens, user : Users] \cup {None}
    /\ month \in Months
    /\ busy \in 0 .. MaxBusy

TasksTyped == task \in [Tasks -> Work]

ServerTyped ==
    /\ table \in [Kinds -> Seq(Row)]
    /\ \A k \in Kinds : Len(table[k]) <= MaxRows
    /\ file \in [Files -> [state : {"none", "row", "stored"},
                           of : ((Kinds \X Ids) \cup {None})]]
    /\ bucket \in {"unknown", "ready", "broken"}

PageTyped ==
    /\ seen \in Lists
    /\ seenBy \in Users \cup {None}
    /\ selected \in [Kinds -> 0 .. MaxRows]
    /\ dialog \in {NoDialog} \cup Dialog
    /\ viewer \in [on : Kinds \cup {None}, row : 0 .. MaxRows,
                   list : [Kinds -> 0 .. MaxRows],
                   preview : (Kinds \X Ids) \cup {None}]

(* What a list shows is still a row: rows are deleted by their status.      *)
InTable(list) == \A k \in Kinds, i \in Ids : list[k][i] # 0 => i <= Len(table[k])

RowsStay ==
    /\ InTable(seen)
    /\ \A t \in Tasks :
         task[t].op \in {"refresh", "action"} /\ task[t].at = "apply" =>
           InTable(task[t].read)

(* The attempts of an account that passed the check and are not compared.   *)
Comparing(u) ==
    {t \in Tasks : task[t].op = "login" /\ task[t].at = "compare" /\ task[t].by = u}

Counted ==
    \A u \in Users :
      failure[u].count + Cardinality(Comparing(u)) <= MaxFailures - 1 + Cardinality(Tasks)

(* Tokens in use were issued, the cookie's to the user it names.            *)
Holds(t) == task[t].op \in {"refresh", "action", "view"}

Issued ==
    /\ token # None => owner[token] # None
    /\ cookie # None => cookie.user = owner[cookie.token]
    /\ \A t \in Tasks :
         /\ Holds(t) => owner[task[t].token] # None
         /\ task[t].op = "login" /\ task[t].at = "answer" =>
              owner[task[t].token] = task[t].by

Typed ==
    /\ SessionTyped
    /\ TasksTyped
    /\ ServerTyped
    /\ PageTyped
    /\ cut \in {"no", "answer", "upload"}
    /\ scene \in Scenes

LEMMA SceneIs ==
    ASSUME scene \in Scenes
    PROVE  /\ scene.users \subseteq Users
           /\ scene.rights \subseteq BOOLEAN
           /\ scene.months \subseteq Months
           /\ scene.forms \subseteq Forms
           /\ scene.views \subseteq Kinds
           /\ scene.page \in Nat \ {0}
           /\ scene.rows \in [Kinds -> 0 .. MaxRows]
<1>1. scene \in [users : SUBSET Users, rights : SUBSET BOOLEAN, tokens : Nat,
                 months : SUBSET Months, forms : SUBSET Forms,
                 views : SUBSET (Kinds \cap Viewed), page : Nat \ {0},
                 expiry : BOOLEAN, rows : [Kinds -> 0 .. MaxRows]]
  BY ConsoleAssumption
<1> QED BY <1>1

(* The task of an action becomes another task, or a reload ends them all.   *)
LEMMA NextTask ==
    ASSUME TasksTyped, NEW t \in Tasks, NEW j \in Work, Goes(t, j)
    PROVE  TasksTyped'
BY DEF TasksTyped

LEMMA SessionTasks ==
    ASSUME Typed, NEW t \in Tasks, SessionStep(t)
    PROVE  TasksTyped'
<1>1. /\ task[t] \in Work
      /\ TasksTyped
      /\ SessionTyped
  BY DEF Typed, TasksTyped
<1>2. ASSUME NEW u \in scene.users, NEW right \in scene.rights,
             SubmitLogin(t, u, right)
      PROVE  TasksTyped'
  <2>1. [op |-> "login", at |-> "check", by |-> u, right |-> right, month |-> month]
          \in Work
    BY <1>1, <1>2, SceneIs DEF Typed, SessionTyped, Work, Entering
  <2> QED BY <1>1, <1>2, <2>1, NextTask DEF SubmitLogin, Start
<1>3. CASE AssertLoginAllowed(t)
  <2>1. Idle \in Work /\ [task[t] EXCEPT !.at = "compare"] \in Work
    BY <1>1, <1>3, TaskFields DEF AssertLoginAllowed, Work, Entering
  <2> QED BY <1>1, <1>3, <2>1, NextTask DEF AssertLoginAllowed
<1>4. CASE Compare(t)
  <2>1. Idle \in Work
    BY DEF Work
  <2>2. \A k \in Tokens : [op |-> "login", at |-> "answer", by |-> task[t].by,
                           token |-> k, month |-> task[t].month] \in Work
    BY <1>1, <1>4, TaskFields DEF Compare, Work, Entered
  <2> QED BY <1>1, <1>4, <2>1, <2>2, NextTask DEF Compare
<1>5. CASE LoginAnswer(t)
  <2>1. [op |-> "refresh", at |-> "me", token |-> task[t].token,
         month |-> task[t].month] \in Work
    BY <1>1, <1>5, TaskFields DEF LoginAnswer, Work, Entered, Refreshing
  <2> QED BY <1>1, <1>5, <2>1, NextTask DEF LoginAnswer
<1>6. CASE Refresh(t)
  <2>1. [op |-> "refresh", at |-> "me", token |-> token, month |-> month] \in Work
    BY <1>1, <1>6 DEF Refresh, SessionTyped, Work, Refreshing
  <2> QED BY <1>1, <1>6, <2>1, NextTask DEF Refresh, Start
<1>7. CASE Me(t)
  <2>1. [task[t] EXCEPT !.at = "data"] \in Work
    BY <1>1, <1>7, TaskFields DEF Me, Work, Refreshing, Action
  <2> QED BY <1>1, <1>7, <2>1, NextTask DEF Me
<1> QED BY <1>2, <1>3, <1>4, <1>5, <1>6, <1>7 DEF SessionStep

LEMMA ReloadedTasks ==
    ASSUME Typed, NEW t \in Tasks, ReloadStep(t)
    PROVE  TasksTyped'
<1>1. PICK m \in scene.months : Reload(t, m)
  BY DEF ReloadStep
<1>2. m \in Months
  BY SceneIs DEF Typed
<1>3. cookie # None =>
        [op |-> "refresh", at |-> "me", token |-> cookie.token, month |-> m] \in Work
  BY <1>2 DEF Typed, SessionTyped, Work, Refreshing
<1>4. Idle \in Work
  BY DEF Work
<1> QED BY <1>1, <1>3, <1>4 DEF Reload, TasksTyped

(* What submitAction sends: the rows that are selected where its form asks   *)
(* for rows, and files for a form that takes files.                        *)
LEMMA SubmittedTask ==
    ASSUME Typed, NEW t \in Tasks, Submit(t)
    PROVE  \E j \in Action :
             /\ Goes(t, j)
             /\ j.form = dialog.form
             /\ j.refs = [k \in Kinds |-> IF k \in Form(dialog.form).sends
                                          THEN selected[k] ELSE 0]
             /\ j.meant = dialog.meant
             /\ j.files = dialog.files
             /\ j.up = {}
             /\ ~j.did
             /\ j.id = IF "step" \in Form(dialog.form).does
                       THEN selected[Form(dialog.form).saves] ELSE dialog.id
             /\ j.token = token
             /\ j.at = IF Form(dialog.form).files = "before" /\ dialog.files # {}
                       THEN "presign" ELSE "request"
<1> DEFINE f == dialog.form
           sends == [k \in Kinds |-> IF k \in Form(f).sends THEN selected[k] ELSE 0]
           j == [op |-> "action", form |-> f, status |-> dialog.status,
                 id |-> IF "step" \in Form(f).does THEN selected[Form(f).saves]
                        ELSE dialog.id,
                 refs |-> sends, meant |-> dialog.meant, files |-> dialog.files,
                 up |-> {}, did |-> FALSE, token |-> token, month |-> month,
                 at |-> IF Form(f).files = "before" /\ dialog.files # {}
                        THEN "presign" ELSE "request"]
<1>1. dialog \in Dialog /\ selected \in [Kinds -> 0 .. MaxRows] /\ month \in Months
  BY DEF Submit, Typed, PageTyped, SessionTyped
<1>2. f \in Forms /\ Form(f).saves \in Kinds
  BY <1>1, FormKinds DEF Dialog
<1>3. token \in Tokens
  BY DEF Submit, LoggedIn, Typed, SessionTyped
<1>4. sends \in [Kinds -> 0 .. MaxRows]
  <2>1. 0 \in 0 .. MaxRows
    BY ConsoleAssumption
  <2> QED BY <1>1, <2>1
<1>5. selected[Form(f).saves] \in 0 .. MaxRows
  BY <1>1, <1>2
<1>6. j \in Action
  <2> HIDE DEF sends
  <2> QED BY <1>1, <1>2, <1>3, <1>4, <1>5 DEF Dialog, Action
<1>7. Goes(t, j)
  BY DEF Submit, Start
<1> HIDE DEF f, sends, j
<1> QED BY <1>6, <1>7 DEF f, sends, j

(* The fields of an action that a step of its own may change.              *)
LEMMA ActionSteps ==
    ASSUME NEW j \in Action
    PROVE  /\ [j EXCEPT !.at = "request"] \in Action
           /\ [j EXCEPT !.at = "presign"] \in Action
           /\ [j EXCEPT !.at = "me"] \in Action
           /\ \A f \in j.files : [j EXCEPT !.at = "put", !.up = @ \cup {f}] \in Action
           /\ \A i \in 0 .. MaxRows :
                [j EXCEPT !.at = "answer", !.did = TRUE, !.id = i] \in Action
BY DEF Action

LEMMA ActionTasks ==
    ASSUME Typed, NEW t \in Tasks,
           Presign(t) \/ Put(t) \/ Handle(t) \/ Answer(t) \/ Lose(t)
    PROVE  TasksTyped'
<1>1. task[t] \in Work /\ TasksTyped /\ Idle \in Work
  BY DEF Typed, TasksTyped, Work
<1>2. Action \subseteq Work
  BY DEF Work
<1>3. CASE Lose(t)
  BY <1>1, <1>3, NextTask DEF Lose
<1>4. CASE ~Lose(t)
  <2>1. task[t] \in Action
    BY <1>1, <1>4, TaskFields DEF Presign, Put, Handle, Answer, Acts
  <2>2. CASE Presign(t)
    BY <1>1, <1>2, <2>1, <2>2, ActionSteps, NextTask DEF Presign, Failing
  <2>3. CASE Put(t)
    BY <1>1, <1>2, <2>1, <2>3, ActionSteps, NextTask DEF Put, Failing, CloseAfter
  <2>4. CASE Handle(t)
    <3> DEFINE k == Form(task[t].form).saves
               id == IF task[t].id = 0 THEN Len(table[k]) + 1 ELSE task[t].id
    <3>1. CASE Failing(t)
      BY <1>1, <3>1, NextTask DEF Failing
    <3>2. CASE Accepted(t)
             /\ Goes(t, [task[t] EXCEPT !.at = "answer", !.did = TRUE, !.id = id])
      <4>1. k \in Kinds
        BY <2>1, FormKinds DEF Action
      <4>2. /\ Len(table[k]) \in Nat
            /\ scene.rows[k] \in 0 .. MaxRows
        BY <4>1, SceneIs, LenProperties DEF Typed, ServerTyped
      <4>3. id \in 0 .. MaxRows
        BY <2>1, <3>2, <4>2, ConsoleAssumption DEF Accepted, Action
      <4> HIDE DEF id
      <4> QED BY <1>1, <1>2, <2>1, <3>2, <4>3, ActionSteps, NextTask
    <3> QED BY <2>4, <3>1, <3>2 DEF Handle
  <2>5. CASE Answer(t)
    BY <1>1, <1>2, <2>1, <2>5, ActionSteps, NextTask DEF Answer, CloseAfter
  <2> QED BY <1>4, <2>2, <2>3, <2>4, <2>5
<1> QED BY <1>3, <1>4

(* What a refresh reads is a list.                                         *)
LEMMA ListRead ==
    ASSUME Typed, NEW m
    PROVE  [k \in Kinds |-> [i \in Ids |->
              IF i \in Listed(k, m) THEN table[k][i].status ELSE 0]] \in Lists
<1>1. ASSUME NEW k \in Kinds, NEW i \in Listed(k, m)
      PROVE  table[k][i].status \in 0 .. 4
  <2>1. i \in DOMAIN table[k] /\ table[k] \in Seq(Row)
    BY <1>1 DEF Listed, Rows, Typed, ServerTyped
  <2>2. table[k][i] \in Row
    BY <2>1, LenProperties, ElementOfSeq
  <2> QED BY <2>2 DEF Row
<1> QED BY <1>1 DEF Lists

LEMMA PageTasks ==
    ASSUME Typed, NEW t \in Tasks,
           \/ ResetStep(t) \/ ReadData(t) \/ ApplyData(t)
           \/ \E k \in scene.views, i \in Ids : OpenAttachments(t, k, i)
           \/ AttachmentsListed(t) \/ OpenPreview(t) \/ Previewed(t)
    PROVE  TasksTyped'
<1>1. task[t] \in Work /\ TasksTyped /\ Idle \in Work
  BY DEF Typed, TasksTyped, Work
<1>2. CASE ResetStep(t) \/ ApplyData(t) \/ AttachmentsListed(t) \/ Previewed(t)
  BY <1>1, <1>2, NextTask DEF ResetStep, Unauthorized, ApplyData,
    AttachmentsListed, Previewed, Views
<1>3. CASE ReadData(t)
  <2> DEFINE read == [k \in Kinds |-> [i \in Ids |->
                        IF i \in Listed(k, task[t].month)
                        THEN table[k][i].status ELSE 0]]
             j == [op |-> task[t].op, at |-> "apply", token |-> task[t].token,
                   month |-> task[t].month, read |-> read]
  <2>1. read \in Lists
    BY ListRead
  <2>2. j \in Applying
    <3> HIDE DEF read
    <3> QED BY <1>1, <1>3, <2>1, TaskFields DEF ReadData, Applying
  <2>3. Goes(t, j)
    BY <1>3 DEF ReadData
  <2> HIDE DEF j
  <2> QED BY <1>1, <2>2, <2>3, NextTask DEF Work
<1>4. ASSUME NEW k \in scene.views, NEW i \in Ids, OpenAttachments(t, k, i)
      PROVE  TasksTyped'
  <2>1. k \in Kinds /\ token \in Tokens
    BY <1>4, SceneIs DEF OpenAttachments, LoggedIn, Typed, SessionTyped
  <2>2. [op |-> "view", at |-> "list", kind |-> k, id |-> i, token |-> token] \in Work
    BY <2>1 DEF Work, Looking
  <2> QED BY <1>1, <1>4, <2>2, NextTask DEF OpenAttachments, Start
<1>5. CASE OpenPreview(t)
  <2>1. viewer.on \in Kinds /\ token \in Tokens /\ viewer.list[viewer.on] \in Ids
    <3>1. viewer.on \in Kinds /\ viewer.list \in [Kinds -> 0 .. MaxRows]
      BY <1>5 DEF OpenPreview, Viewing, Typed, PageTyped
    <3> QED BY <1>5, <3>1, ConsoleAssumption
            DEF OpenPreview, LoggedIn, Typed, SessionTyped, Ids
  <2>2. [op |-> "view", at |-> "preview", kind |-> viewer.on,
         id |-> viewer.list[viewer.on], token |-> token] \in Work
    BY <2>1 DEF Work, Looking
  <2> QED BY <1>1, <1>5, <2>2, NextTask DEF OpenPreview, Start
<1> QED BY <1>2, <1>3, <1>4, <1>5

LEMMA TasksStep ==
    ASSUME Typed, [Next]_vars
    PROVE  TasksTyped'
<1>1. CASE UNCHANGED task
  BY <1>1 DEF Typed, TasksTyped
<1>2. CASE UserStep
  BY <1>1, <1>2 DEF UserStep, Logout, ChangeMonth, OpenCreate, OpenEdit, OpenStatus,
    Opened, Pick, ChooseFiles, Close, CloseAttachments
<1>3. CASE OtherStep
  BY <1>1, <1>3 DEF OtherStep, OthersAdd, OthersStep, OthersDelete, WindowEnds,
    Expire, RestartApi
<1>4. ASSUME NEW t \in Tasks, TaskStep(t) PROVE TasksTyped'
  <2>1. CASE Submit(t)
    BY <2>1, SubmittedTask, NextTask DEF Work, Typed
  <2> QED BY <1>4, <2>1, SessionTasks, ReloadedTasks, ActionTasks, PageTasks
          DEF TaskStep
<1> QED BY <1>1, <1>2, <1>3, <1>4 DEF Next, vars, sessionVars

(* A click counts once, if at all.                                         *)
LEMMA ClickCounts ==
    ASSUME SessionTyped, Click
    PROVE  busy' \in 0 .. MaxBusy
BY SessionAssumption DEF SessionTyped, Click

LEMMA FailureTypes ==
    ASSUME NEW u \in Users, NEW r \in [count : Nat, old : BOOLEAN]
    PROVE  /\ NoFailure \in [count : Nat, old : BOOLEAN]
           /\ Failed(r) \in [count : Nat, old : BOOLEAN]
           /\ [r EXCEPT !.old = TRUE] \in [count : Nat, old : BOOLEAN]
<1>1. NoFailure \in [count : Nat, old : BOOLEAN]
  BY DEF NoFailure
<1>2. (IF r.old THEN 1 ELSE r.count + 1) \in Nat
  OBVIOUS
<1>3. Failed(r) \in [count : Nat, old : BOOLEAN]
  BY <1>2 DEF Failed
<1>4. [r EXCEPT !.old = TRUE] \in [count : Nat, old : BOOLEAN]
  OBVIOUS
<1> QED BY <1>1, <1>3, <1>4

LEMMA SessionStepTypes ==
    ASSUME Typed, Issued, NEW t \in Tasks, SessionStep(t)
    PROVE  SessionTyped'
<1>1. task[t] \in Work /\ SessionTyped
  BY DEF Typed, TasksTyped
<1>2. ASSUME NEW u \in scene.users, NEW right \in scene.rights,
             SubmitLogin(t, u, right)
      PROVE  SessionTyped'
  BY <1>1, <1>2, ClickCounts DEF SubmitLogin, Start, SessionTyped
<1>3. CASE AssertLoginAllowed(t)
  <2>1. task[t].by \in Users
    BY <1>1, <1>3, TaskFields DEF AssertLoginAllowed
  <2>2. NoFailure \in [count : Nat, old : BOOLEAN]
    BY DEF NoFailure
  <2> QED BY <1>1, <1>3, <2>1, <2>2 DEF AssertLoginAllowed, SessionTyped
<1>4. CASE Compare(t)
  <2>1. task[t].by \in Users
    BY <1>1, <1>4, TaskFields DEF Compare
  <2>2. /\ NoFailure \in [count : Nat, old : BOOLEAN]
        /\ Failed(failure[task[t].by]) \in [count : Nat, old : BOOLEAN]
    BY <1>1, <2>1, FailureTypes DEF SessionTyped
  <2>3. failure' \in [Users -> [count : Nat, old : BOOLEAN]]
    BY <1>1, <1>4, <2>1, <2>2 DEF Compare, SessionTyped
  <2>4. owner' \in [Tokens -> Users \cup {None}]
    BY <1>1, <1>4, <2>1 DEF Compare, SessionTyped
  <2> QED BY <1>1, <1>4, <2>3, <2>4 DEF Compare, SessionTyped
<1>5. CASE LoginAnswer(t)
  <2>1. task[t] \in Entered
    BY <1>1, <1>5, TaskFields DEF LoginAnswer
  <2> QED BY <1>1, <1>5, <2>1 DEF LoginAnswer, SessionTyped, Cookie, Entered
<1>6. CASE Refresh(t)
  BY <1>1, <1>6, ClickCounts DEF Refresh, Start, SessionTyped
<1>7. CASE Me(t)
  <2>1. task[t].token \in Tokens
    BY <1>1, <1>7, TaskFields DEF Me
  <2>2. owner[task[t].token] \in Users
    BY <1>1, <1>7, <2>1 DEF Me, Issued, Holds, SessionTyped
  <2> QED BY <1>1, <1>7, <2>1, <2>2 DEF Me, SessionTyped, Cookie
<1> QED BY <1>2, <1>3, <1>4, <1>5, <1>6, <1>7 DEF SessionStep

LEMMA TaskStepTypes ==
    ASSUME Typed, Issued, NEW t \in Tasks, TaskStep(t)
    PROVE  SessionTyped'
<1>1. SessionTyped
  BY DEF Typed
<1>2. CASE ResetStep(t)
  BY <1>1, <1>2 DEF ResetStep, Unauthorized, ResetSession, SessionTyped
<1>3. CASE ReloadStep(t)
  <2>1. PICK m \in scene.months : Reload(t, m)
    BY <1>3 DEF ReloadStep
  <2>2. m \in Months
    BY SceneIs DEF Typed
  <2> QED BY <1>1, <2>1, <2>2 DEF Reload, SessionTyped
<1>4. CASE UNCHANGED <<owner, expired, failure, token, user, cookie, month>>
             /\ (Click \/ UNCHANGED busy)
  BY <1>1, <1>4, ClickCounts DEF SessionTyped
<1>5. CASE \/ Submit(t) \/ OpenPreview(t)
           \/ \E k \in scene.views, i \in Ids : OpenAttachments(t, k, i)
  BY <1>4, <1>5 DEF Submit, OpenPreview, OpenAttachments, Start
<1>6. CASE \/ Presign(t) \/ Put(t) \/ Handle(t) \/ Answer(t) \/ Lose(t)
           \/ ReadData(t) \/ ApplyData(t) \/ AttachmentsListed(t) \/ Previewed(t)
  BY <1>4, <1>6 DEF Presign, Put, Handle, Answer, Lose, ReadData, ApplyData,
    AttachmentsListed, Previewed, Views
<1> QED BY <1>2, <1>3, <1>5, <1>6, SessionStepTypes DEF TaskStep

LEMMA SessionTypesStep ==
    ASSUME Typed, Issued, [Next]_vars
    PROVE  SessionTyped'
<1>1. SessionTyped
  BY DEF Typed
<1>2. CASE UNCHANGED sessionVars
  BY <1>1, <1>2 DEF SessionTyped, sessionVars
<1>3. CASE UserStep
  <2>1. Logout => SessionTyped'
    BY <1>1, ClickCounts DEF Logout, ResetSession, SessionTyped
  <2>2. ASSUME NEW m \in scene.months, ChangeMonth(m) PROVE SessionTyped'
    <3>1. m \in Months
      BY SceneIs DEF Typed
    <3> QED BY <1>1, <2>2, <3>1, ClickCounts DEF ChangeMonth, SessionTyped
  <2>3. CASE Click /\ UNCHANGED <<owner, expired, failure, token, user, cookie, month>>
    BY <1>1, <2>3, ClickCounts DEF SessionTyped
  <2> QED BY <1>3, <2>1, <2>2, <2>3
          DEF UserStep, OpenCreate, OpenEdit, OpenStatus, Opened, Pick,
            ChooseFiles, Close, CloseAttachments
<1>4. CASE OtherStep
  <2>1. ASSUME NEW u \in Users, WindowEnds(u) PROVE SessionTyped'
    BY <1>1, <2>1, FailureTypes DEF WindowEnds, SessionTyped
  <2>2. ASSUME NEW k \in Tokens, Expire(k) PROVE SessionTyped'
    BY <1>1, <2>2 DEF Expire, SessionTyped
  <2>3. RestartApi => SessionTyped'
    BY <1>1, FailureTypes DEF RestartApi, SessionTyped
  <2> QED BY <1>2, <1>4, <2>1, <2>2, <2>3
          DEF OtherStep, OthersAdd, OthersStep, OthersDelete, sessionVars
<1> QED BY <1>2, <1>3, <1>4, TaskStepTypes DEF Next, vars, sessionVars

-----------------------------------------------------------------------------
(* The tables of the API.                                                  *)

(* A write to a row that is not there changes nothing.                     *)
LEMMA WriteRow ==
    ASSUME NEW q \in Seq(Row), NEW i, NEW v, i \in DOMAIN q => v \in Row
    PROVE  LET new == [q EXCEPT ![i] = v]
           IN /\ new \in Seq(Row)
              /\ Len(new) = Len(q)
              /\ DOMAIN new = DOMAIN q
              /\ \A n \in DOMAIN q : new[n] = IF n = i THEN v ELSE q[n]
<1>1. DOMAIN q = 1 .. Len(q) /\ q \in [1 .. Len(q) -> Row]
  BY LenProperties
<1>2. CASE i \in DOMAIN q
  BY <1>1, <1>2, ExceptSeq
<1>3. CASE i \notin DOMAIN q
  <2>1. [q EXCEPT ![i] = v] = q
    BY <1>1, <1>3
  <2> QED BY <1>3, <2>1
<1> QED BY <1>2, <1>3

LEMMA AddRow ==
    ASSUME NEW q \in Seq(Row), NEW v \in Row
    PROVE  /\ Append(q, v) \in Seq(Row)
           /\ Len(Append(q, v)) = Len(q) + 1
           /\ \A n \in DOMAIN Append(q, v) :
                \/ n \in DOMAIN q /\ Append(q, v)[n] = q[n]
                \/ Append(q, v)[n] = v
<1>1. /\ DOMAIN q = 1 .. Len(q)
      /\ Len(q) \in Nat
  BY LenProperties
<1>2. /\ Append(q, v) \in Seq(Row)
      /\ Len(Append(q, v)) = Len(q) + 1
      /\ \A i \in 1 .. Len(q) : Append(q, v)[i] = q[i]
      /\ Append(q, v)[Len(q) + 1] = v
  BY AppendProperties
<1>3. DOMAIN Append(q, v) = 1 .. Len(Append(q, v))
  BY <1>2, LenProperties
<1>4. \A n \in 1 .. Len(q) + 1 : n \in 1 .. Len(q) \/ n = Len(q) + 1
  BY <1>1
<1> QED BY <1>1, <1>2, <1>3, <1>4

(* A table keeps its rows; a row of it that is new or changed has only      *)
(* files of G besides those it had.                                        *)
Grows(old, new, G) ==
    /\ new \in Seq(Row)
    /\ Len(old) <= Len(new)
    /\ Len(new) <= MaxRows
    /\ \A n \in DOMAIN new :
         new[n].files \subseteq G \cup (IF n \in DOMAIN old THEN old[n].files ELSE {})

LEMMA SameTable ==
    ASSUME NEW q \in Seq(Row), Len(q) <= MaxRows, NEW G
    PROVE  Grows(q, q, G)
BY LenProperties DEF Grows

LEMMA TableWithRow ==
    ASSUME NEW q \in Seq(Row), Len(q) <= MaxRows, NEW i, NEW v, NEW G,
           i \in DOMAIN q => v \in Row /\ v.files \subseteq G \cup q[i].files
    PROVE  Grows(q, [q EXCEPT ![i] = v], G)
<1>1. Len(q) \in Nat
  BY LenProperties
<1> DEFINE new == [q EXCEPT ![i] = v]
<1>2. /\ new \in Seq(Row)
      /\ Len(new) = Len(q)
      /\ DOMAIN new = DOMAIN q
      /\ \A n \in DOMAIN q : new[n] = IF n = i THEN v ELSE q[n]
  BY WriteRow
<1> HIDE DEF new
<1>3. Grows(q, new, G)
  BY <1>1, <1>2 DEF Grows
<1> QED BY <1>3 DEF new

LEMMA TableAndRow ==
    ASSUME NEW q \in Seq(Row), Len(q) < MaxRows, NEW v \in Row, NEW G,
           v.files \subseteq G
    PROVE  Grows(q, Append(q, v), G)
<1>1. Len(q) \in Nat /\ MaxRows \in Nat
  BY LenProperties, ConsoleAssumption
<1> QED BY <1>1, AddRow DEF Grows

(* What an accepted request makes of the table of its kind.                *)
LEMMA SavedTable ==
    ASSUME Typed, NEW t \in Tasks, task[t] \in Action, Accepted(t),
           NEW k, k = Form(task[t].form).saves
    PROVE  /\ k \in Kinds
           /\ \E q : Saved(t) = [table EXCEPT ![k] = q]
                       /\ Grows(table[k], q, task[t].up)
<1> DEFINE job == task[t]
           sent == [month |-> job.month, status |-> 1, refs |-> job.refs,
                    files |-> job.up]
           was == table[k][job.id]
<1>1. k \in Kinds
  BY FormKinds DEF Action
<1>2. /\ table \in [Kinds -> Seq(Row)]
      /\ table[k] \in Seq(Row)
      /\ Len(table[k]) <= MaxRows
  BY <1>1 DEF Typed, ServerTyped
<1>3. \A n \in DOMAIN table[k] : table[k][n] \in Row
  BY <1>2, LenProperties, ElementOfSeq
<1>4. CASE job.id = 0
  <2>1. sent \in Row
    BY DEF Action, Row
  <2>2. Len(table[k]) < MaxRows
    <3>1. Len(table[k]) < scene.rows[k] /\ scene.rows[k] \in 0 .. MaxRows
      BY <1>1, <1>4, SceneIs DEF Accepted, Typed
    <3>2. Len(table[k]) \in Nat /\ MaxRows \in Nat
      BY <1>2, LenProperties, ConsoleAssumption
    <3> QED BY <3>1, <3>2
  <2>3. Grows(table[k], Append(table[k], sent), job.up)
    BY <1>2, <2>1, <2>2, TableAndRow
  <2>4. Saved(t) = [table EXCEPT ![k] = Append(table[k], sent)]
    BY <1>4 DEF Saved
  <2> QED BY <1>1, <2>3, <2>4
<1>5. CASE job.id # 0 /\ "step" \in Form(job.form).does
  <2> DEFINE v == [was EXCEPT !.status = job.status, !.files = @ \cup job.up]
             q == [table[k] EXCEPT ![job.id] = v]
  <2>1. job.id \in DOMAIN table[k] => v \in Row /\ v.files \subseteq job.up \cup was.files
    BY <1>3 DEF Action, Row
  <2>2. Grows(table[k], q, job.up)
    <3> HIDE DEF v
    <3> QED BY <1>2, <2>1, TableWithRow
  <2>3. Saved(t) = [table EXCEPT ![k] = q]
    BY <1>1, <1>2, <1>5 DEF Saved
  <2> HIDE DEF q
  <2> QED BY <1>1, <2>2, <2>3
<1>6. CASE job.id # 0 /\ "step" \notin Form(job.form).does
  <2> DEFINE v == [was EXCEPT !.refs = job.refs, !.files = @ \cup job.up]
             q == [table[k] EXCEPT ![job.id] = v]
  <2>1. job.id \in DOMAIN table[k] => v \in Row /\ v.files \subseteq job.up \cup was.files
    BY <1>3 DEF Action, Row
  <2>2. Grows(table[k], q, job.up)
    <3> HIDE DEF v
    <3> QED BY <1>2, <2>1, TableWithRow
  <2>3. Saved(t) = [table EXCEPT ![k] = q]
    BY <1>1, <1>2, <1>6 DEF Saved
  <2> HIDE DEF q
  <2> QED BY <1>1, <2>2, <2>3
<1> QED BY <1>4, <1>5, <1>6

(* One table is written, the others stay.                                  *)
LEMMA OneTable ==
    ASSUME Typed, NEW k \in Kinds, NEW q, NEW G, Grows(table[k], q, G),
           table' = [table EXCEPT ![k] = q]
    PROVE  /\ table' \in [Kinds -> Seq(Row)]
           /\ \A j \in Kinds : Grows(table[j], table'[j], G)
<1>1. table \in [Kinds -> Seq(Row)] /\ \A j \in Kinds : Len(table[j]) <= MaxRows
  BY DEF Typed, ServerTyped
<1>2. q \in Seq(Row)
  BY DEF Grows
<1>3. ASSUME NEW j \in Kinds PROVE Grows(table[j], table'[j], G)
  <2>1. CASE j = k
    BY <1>1, <2>1
  <2>2. CASE j # k
    BY <1>1, <2>2, SameTable
  <2> QED BY <2>1, <2>2
<1> QED BY <1>1, <1>2, <1>3

TablesGrow(G) ==
    /\ table' \in [Kinds -> Seq(Row)]
    /\ \A k \in Kinds : Grows(table[k], table'[k], G)

LEMMA OthersGrow ==
    ASSUME Typed, OtherStep
    PROVE  TablesGrow({})
<1>1. /\ table \in [Kinds -> Seq(Row)]
      /\ \A k \in Kinds : Len(table[k]) <= MaxRows
  BY DEF Typed, ServerTyped
<1>2. CASE UNCHANGED table
  BY <1>1, <1>2, SameTable DEF TablesGrow
<1>3. ASSUME NEW k \in Kinds, NEW m \in scene.months, OthersAdd(k, m)
      PROVE  TablesGrow({})
  <2>1. NewRow(m) \in Row /\ NewRow(m).files = {}
    <3>1. 0 \in 0 .. MaxRows /\ m \in Months
      BY SceneIs, ConsoleAssumption DEF Typed
    <3> QED BY <3>1 DEF NewRow, NoRefs, Row
  <2>2. Len(table[k]) < MaxRows
    <3>1. Len(table[k]) < scene.rows[k] /\ scene.rows[k] \in 0 .. MaxRows
      BY <1>3, SceneIs DEF OthersAdd, Typed
    <3>2. Len(table[k]) \in Nat /\ MaxRows \in Nat
      BY <1>1, LenProperties, ConsoleAssumption
    <3> QED BY <3>1, <3>2
  <2>3. Grows(table[k], Append(table[k], NewRow(m)), {})
    BY <1>1, <2>1, <2>2, TableAndRow
  <2> QED BY <1>3, <2>3, OneTable DEF OthersAdd, TablesGrow
<1>4. ASSUME NEW k \in Kinds, NEW i \in DOMAIN table[k],
             OthersStep(k, i) \/ OthersDelete(k, i)
      PROVE  TablesGrow({})
  <2>1. table[k][i] \in Row
    BY <1>1, LenProperties, ElementOfSeq
  <2>2. ASSUME NEW n \in 0 .. 4, table' = [table EXCEPT ![k][i].status = n]
        PROVE  TablesGrow({})
    <3> DEFINE v == [table[k][i] EXCEPT !.status = n]
    <3>1. v \in Row /\ v.files \subseteq {} \cup table[k][i].files
      BY <2>1 DEF Row
    <3>2. Grows(table[k], [table[k] EXCEPT ![i] = v], {})
      <4> HIDE DEF v
      <4> QED BY <1>1, <3>1, TableWithRow
    <3>3. table' = [table EXCEPT ![k] = [table[k] EXCEPT ![i] = v]]
      BY <1>1, <2>2
    <3> HIDE DEF v
    <3> QED BY <3>2, <3>3, OneTable DEF TablesGrow
  <2>3. CASE OthersDelete(k, i)
    BY <2>2, <2>3 DEF OthersDelete
  <2>4. CASE OthersStep(k, i)
    <3>1. NextStatus(k, table[k][i].status) \in 0 .. 4
      BY <2>1 DEF NextStatus, LastStatus, Row
    <3>2. table' = [table EXCEPT ![k][i].status = NextStatus(k, table[k][i].status)]
      BY <1>1, <2>4 DEF OthersStep
    <3> QED BY <2>2, <3>1, <3>2
  <2> QED BY <1>4, <2>3, <2>4
<1> QED BY <1>2, <1>3, <1>4 DEF OtherStep, WindowEnds, Expire, RestartApi

(* An answered request is the only step of the page that writes a table.    *)
LEMMA TableWrites ==
    ASSUME Typed, [Next]_vars
    PROVE  \/ TablesGrow({})
           \/ \E t \in Tasks : Handle(t) /\ Accepted(t) /\ table' = Saved(t)
<1>1. /\ table \in [Kinds -> Seq(Row)]
      /\ \A k \in Kinds : Len(table[k]) <= MaxRows
  BY DEF Typed, ServerTyped
<1>2. CASE UNCHANGED table
  BY <1>1, <1>2, SameTable DEF TablesGrow
<1>3. CASE UserStep
  BY <1>2, <1>3 DEF UserStep, Logout, ChangeMonth, OpenCreate, OpenEdit, OpenStatus,
    Opened, Pick, ChooseFiles, Close, CloseAttachments
<1>4. ASSUME NEW t \in Tasks, TaskStep(t), ~Handle(t)
      PROVE  UNCHANGED table
  BY <1>4 DEF TaskStep, SessionStep, ResetStep, ReloadStep, Submit, Presign, Put,
    Answer, Lose, ReadData, ApplyData, OpenAttachments, AttachmentsListed,
    OpenPreview, Previewed, Views
<1>5. ASSUME NEW t \in Tasks, Handle(t)
      PROVE  UNCHANGED table \/ (Accepted(t) /\ table' = Saved(t))
  BY <1>5 DEF Handle
<1> QED BY <1>2, <1>3, <1>4, <1>5, OthersGrow DEF Next, vars

LEMMA HandleGrows ==
    ASSUME Typed, NEW t \in Tasks, Handle(t), Accepted(t), table' = Saved(t)
    PROVE  task[t] \in Action /\ TablesGrow(task[t].up)
<1>1. task[t] \in Action
  BY TaskFields DEF Handle, Acts, Typed, TasksTyped
<1> DEFINE k == Form(task[t].form).saves
<1>2. PICK q : Saved(t) = [table EXCEPT ![k] = q] /\ Grows(table[k], q, task[t].up)
  BY <1>1, SavedTable
<1>3. k \in Kinds
  BY <1>1, SavedTable
<1> HIDE DEF k
<1> QED BY <1>1, <1>2, <1>3, OneTable DEF TablesGrow

(* No table loses a row.                                                   *)
LEMMA TablesKeep ==
    ASSUME Typed, [Next]_vars
    PROVE  /\ table' \in [Kinds -> Seq(Row)]
           /\ \A k \in Kinds : /\ Len(table[k]) <= Len(table'[k])
                               /\ Len(table'[k]) <= MaxRows
<1>1. \E G : TablesGrow(G)
  BY TableWrites, HandleGrows
<1> QED BY <1>1 DEF TablesGrow, Grows

(* An action names the row that it is about once the row is known, but for  *)
(* contracts, whose files are uploaded before they have a row.             *)
IdsGiven ==
    \A t \in Tasks :
      task[t].op = "action" /\ task[t].at \in {"presign", "put", "answer"} =>
        task[t].form = "contract" \/ task[t].id # 0

-----------------------------------------------------------------------------
(* The steps of an action.                                                 *)

(* What an action keeps from its start to the last answer.                  *)
SameAction(s) ==
    /\ task'[s].form = task[s].form
    /\ task'[s].refs = task[s].refs
    /\ task'[s].meant = task[s].meant
    /\ task'[s].files = task[s].files
    /\ task'[s].token = task[s].token

Moves(s, from, to) == task[s].at = from /\ task'[s].at \in to

Continues(s) ==
    /\ task[s] \in Action
    /\ task'[s].op = "action"
    /\ SameAction(s)
    /\ \/ /\ Presign(s)
          /\ Moves(s, "presign", {"put"})
          /\ task'[s].id = task[s].id
          /\ \E f \in task[s].files : task'[s].up = task[s].up \cup {f}
       \/ /\ Put(s)
          /\ Moves(s, "put", {"presign", "request", "me"})
          /\ task'[s].id = task[s].id
          /\ task'[s].up = task[s].up
          /\ task'[s].at \in {"request", "me"} => task[s].files \subseteq task[s].up
       \/ /\ Handle(s)
          /\ Moves(s, "request", {"answer"})
          /\ task'[s].id # 0
          /\ task'[s].up = task[s].up
       \/ /\ Answer(s)
          /\ Moves(s, "answer", {"presign", "me"})
          /\ task'[s].id = task[s].id
          /\ task'[s].up = task[s].up
          /\ task'[s].at = "presign" => ~ (task[s].files \subseteq task[s].up)
       \/ /\ SessionStep(s) /\ Me(s)
          /\ Moves(s, "me", {"data"})
          /\ task'[s].id = task[s].id
          /\ task'[s].up = task[s].up

LEMMA ActionContinues ==
    ASSUME Typed, NEW s \in Tasks,
           \/ Presign(s) \/ Put(s) \/ Handle(s) \/ Answer(s)
           \/ SessionStep(s) /\ Me(s),
           task'[s].op = "action"
    PROVE  Continues(s)
<1>1. task[s] \in Work /\ task \in [Tasks -> Work]
  BY DEF Typed, TasksTyped
<1>2. ASSUME NEW j, Goes(s, j) PROVE task'[s] = j
  BY <1>1, <1>2
<1>3. ~Goes(s, Idle)
  BY <1>2 DEF Idle
<1>4. CASE Presign(s)
  <2>1. task[s] \in Action
    BY <1>1, <1>4, TaskFields DEF Presign, Acts
  <2>2. PICK f \in task[s].files :
          Goes(s, [task[s] EXCEPT !.at = "put", !.up = @ \cup {f}])
    BY <1>3, <1>4 DEF Presign, Failing
  <2>3. task'[s] = [task[s] EXCEPT !.at = "put", !.up = @ \cup {f}]
    BY <1>2, <2>2
  <2> QED BY <1>4, <2>1, <2>3 DEF Presign, Acts, Continues, SameAction, Moves, Action
<1>5. CASE Put(s)
  <2>1. task[s] \in Action /\ task[s].at = "put"
    BY <1>1, <1>5, TaskFields DEF Put, Acts
  <2>2. \/ /\ task'[s] = [task[s] EXCEPT !.at = "presign"]
        \/ /\ task'[s] = [task[s] EXCEPT !.at = "request"]
           /\ task[s].files \ task[s].up = {}
        \/ /\ task'[s] = [task[s] EXCEPT !.at = "me"]
           /\ task[s].files \ task[s].up = {}
    BY <1>2, <1>3, <1>5 DEF Put, Failing, CloseAfter
  <2> QED BY <1>5, <2>1, <2>2 DEF Continues, SameAction, Moves, Action
<1>6. CASE Handle(s)
  <2>1. task[s] \in Action /\ task[s].at = "request"
    BY <1>1, <1>6, TaskFields DEF Handle, Acts
  <2> DEFINE k == Form(task[s].form).saves
             id == IF task[s].id = 0 THEN Len(table[k]) + 1 ELSE task[s].id
  <2>2. id # 0
    <3>1. k \in Kinds /\ table \in [Kinds -> Seq(Row)]
      BY <2>1, FormKinds DEF Action, Typed, ServerTyped
    <3>2. Len(table[k]) \in Nat
      BY <3>1, LenProperties
    <3> QED BY <3>2
  <2>3. Goes(s, [task[s] EXCEPT !.at = "answer", !.did = TRUE, !.id = id])
    BY <1>3, <1>6 DEF Handle, Failing
  <2> HIDE DEF id
  <2>4. task'[s] = [task[s] EXCEPT !.at = "answer", !.did = TRUE, !.id = id]
    BY <1>2, <2>3
  <2> QED BY <1>6, <2>1, <2>2, <2>4 DEF Continues, SameAction, Moves, Action
<1>7. CASE Answer(s)
  <2>1. task[s] \in Action /\ task[s].at = "answer"
    BY <1>1, <1>7, TaskFields DEF Answer, Acts
  <2>2. \/ /\ task'[s] = [task[s] EXCEPT !.at = "presign"]
           /\ task[s].files \ task[s].up # {}
        \/ /\ task'[s] = [task[s] EXCEPT !.at = "me"]
    BY <1>2, <1>7 DEF Answer, CloseAfter
  <2> QED BY <1>7, <2>1, <2>2 DEF Continues, SameAction, Moves, Action
<1>8. CASE SessionStep(s) /\ Me(s)
  <2>1. task'[s] = [task[s] EXCEPT !.at = "data"] /\ task[s].at = "me"
    BY <1>2, <1>8 DEF Me
  <2>2. task[s].op \in {"refresh", "action"}
    BY <1>8 DEF Me
  <2>3. task[s].op = "action"
    BY <2>1, <2>2, <1>1, TaskFields DEF Refreshing
  <2>4. task[s] \in Action
    BY <1>1, <2>1, <2>3, TaskFields
  <2> QED BY <1>8, <2>1, <2>4 DEF Continues, SameAction, Moves, Action
<1> QED BY <1>4, <1>5, <1>6, <1>7, <1>8

LEMMA SubmitIs ==
    ASSUME Typed, NEW s \in Tasks, Submit(s)
    PROVE  /\ task'[s] \in Action
           /\ task'[s].form = dialog.form
           /\ task'[s].refs = [k \in Kinds |-> IF k \in Form(dialog.form).sends
                                               THEN selected[k] ELSE 0]
           /\ task'[s].meant = dialog.meant
           /\ task'[s].files = dialog.files
           /\ task'[s].up = {}
           /\ ~task'[s].did
           /\ task'[s].id = IF "step" \in Form(dialog.form).does
                            THEN selected[Form(dialog.form).saves] ELSE dialog.id
           /\ task'[s].token = token
           /\ task'[s].at = IF Form(dialog.form).files = "before" /\ dialog.files # {}
                            THEN "presign" ELSE "request"
<1>1. task \in [Tasks -> Work]
  BY DEF Typed, TasksTyped
<1>2. \A j : Goes(s, j) => task'[s] = j
  BY <1>1
<1> QED BY <1>2, SubmittedTask

(* A task's step is about itself, unless it reloads the page.              *)
LEMMA OtherTasksStay ==
    ASSUME Typed, NEW t \in Tasks, TaskStep(t), ~ReloadStep(t), NEW s \in Tasks, t # s
    PROVE  task'[s] = task[s]
<1>1. task \in [Tasks -> Work]
  BY DEF Typed, TasksTyped
<1>2. \E j : Goes(t, j)
  <2>1. SessionStep(t) => \E j : Goes(t, j)
    BY DEF SessionStep, SubmitLogin, Start, AssertLoginAllowed, Compare, LoginAnswer,
      Refresh, Me
  <2>2. Put(t) => \E j : Goes(t, j)
    BY DEF Put, Failing, CloseAfter
  <2>3. Answer(t) => \E j : Goes(t, j)
    BY DEF Answer, CloseAfter
  <2> QED BY <2>1, <2>2, <2>3 DEF TaskStep, ResetStep, Unauthorized, Submit,
    Start, Presign, Failing, Handle, Lose, ReadData, ApplyData, OpenAttachments,
    AttachmentsListed, OpenPreview, Previewed, Views
<1> QED BY <1>1, <1>2

(* A task changes by a step of its own, unless the page is reloaded.        *)
LEMMA OwnStep ==
    ASSUME Typed, [Next]_vars, NEW s \in Tasks, task'[s] # task[s]
    PROVE  \/ TaskStep(s) /\ ~ReloadStep(s)
           \/ \E t \in Tasks : ReloadStep(t)
<1>1. task \in [Tasks -> Work]
  BY DEF Typed, TasksTyped
<1>3. ~UNCHANGED task
  OBVIOUS
<1>4. ~UserStep
  BY <1>3 DEF UserStep, Logout, ChangeMonth, OpenCreate, OpenEdit, OpenStatus,
    Opened, Pick, ChooseFiles, Close, CloseAttachments
<1>5. ~OtherStep
  BY <1>3 DEF OtherStep, OthersAdd, OthersStep, OthersDelete, WindowEnds,
    Expire, RestartApi
<1>6. ASSUME NEW t \in Tasks, TaskStep(t), ~ReloadStep(t), t # s
      PROVE  FALSE
  BY <1>6, OtherTasksStay
<1> QED BY <1>3, <1>4, <1>5, <1>6 DEF Next, vars, sessionVars

(* What a task becomes by a step of its own.                               *)
Outcome(s) ==
    \/ task'[s] = Idle
    \/ /\ \E u \in scene.users, right \in scene.rights : SubmitLogin(s, u, right)
       /\ task'[s].op = "login" /\ task'[s].at = "check"
    \/ /\ AssertLoginAllowed(s)
       /\ task'[s].op = "login" /\ task'[s].at = "compare"
       /\ task'[s].by = task[s].by
    \/ /\ Compare(s)
       /\ task'[s].op = "login" /\ task'[s].at = "answer"
       /\ owner'[task'[s].token] = task'[s].by
    \/ /\ SessionStep(s) /\ LoginAnswer(s)
       /\ task'[s].op = "refresh" /\ task'[s].at = "me"
       /\ task'[s].token = task[s].token
    \/ /\ SessionStep(s) /\ Refresh(s) /\ NothingOpen
       /\ task'[s].op = "refresh" /\ task'[s].at = "me"
       /\ task'[s].token = token
    \/ /\ SessionStep(s) /\ Me(s)
       /\ task[s].op = "refresh" /\ task'[s].op = "refresh" /\ task'[s].at = "data"
       /\ task'[s].token = task[s].token
    \/ Continues(s)
    \/ /\ Submit(s)
       /\ task'[s].op = "action" /\ task'[s].at \in {"presign", "request"}
       /\ task'[s].token = token
    \/ /\ ReadData(s)
       /\ task'[s].op = task[s].op /\ task'[s].at = "apply"
       /\ task'[s].token = task[s].token
    \/ /\ OpenPreview(s) \/ \E k \in scene.views, i \in Ids : OpenAttachments(s, k, i)
       /\ task'[s].op = "view" /\ task'[s].token = token

LEMMA TaskOutcome ==
    ASSUME Typed, NEW s \in Tasks, TaskStep(s), ~ReloadStep(s)
    PROVE  Outcome(s)
<1>1. task \in [Tasks -> Work] /\ task[s] \in Work
  BY DEF Typed, TasksTyped
<1>2. ASSUME NEW j, Goes(s, j)
      PROVE  task'[s] = j
  BY <1>1, <1>2
<1>3. CASE SessionStep(s)
  <2>1. ASSUME NEW u \in scene.users, NEW right \in scene.rights,
               SubmitLogin(s, u, right)
        PROVE  task'[s].op = "login" /\ task'[s].at = "check"
    BY <1>1, <2>1 DEF SubmitLogin, Start
  <2>2. CASE AssertLoginAllowed(s)
    <3>1. task[s] \in Entering
      BY <1>1, <2>2, TaskFields DEF AssertLoginAllowed
    <3> QED BY <1>1, <2>2, <3>1 DEF AssertLoginAllowed, Entering, Outcome
  <2>3. CASE Compare(s)
    <3>1. CASE task[s].right
      <4>1. PICK k \in Tokens :
              /\ owner' = [owner EXCEPT ![k] = task[s].by]
              /\ Goes(s, [op |-> "login", at |-> "answer", by |-> task[s].by,
                          token |-> k, month |-> task[s].month])
        BY <2>3, <3>1 DEF Compare
      <4>2. task'[s] = [op |-> "login", at |-> "answer", by |-> task[s].by,
                        token |-> k, month |-> task[s].month]
        BY <1>2, <4>1
      <4>3. owner'[k] = task[s].by
        BY <4>1 DEF Typed, SessionTyped
      <4> QED BY <2>3, <4>2, <4>3 DEF Outcome
    <3> QED BY <1>2, <2>3, <3>1 DEF Compare, Outcome
  <2>4. CASE LoginAnswer(s)
    BY <1>1, <1>3, <2>4 DEF LoginAnswer, Outcome
  <2>5. CASE Refresh(s) /\ NothingOpen
    BY <1>1, <1>3, <2>5 DEF Refresh, Start, Outcome
  <2>6. CASE Me(s)
    <3>1. CASE task[s].op = "action"
      <4>1. task'[s] = [task[s] EXCEPT !.at = "data"]
        BY <1>2, <2>6 DEF Me
      <4>2. task[s] \in Action
        BY <1>1, <2>6, <3>1, TaskFields DEF Me
      <4>3. task'[s].op = "action"
        BY <4>1, <4>2 DEF Action
      <4> QED BY <1>3, <2>6, <4>3, ActionContinues DEF Outcome
    <3>2. CASE task[s].op = "refresh"
      <4>1. task'[s] = [task[s] EXCEPT !.at = "data"]
        BY <1>2, <2>6 DEF Me
      <4>2. task[s] \in Refreshing
        BY <1>1, <2>6, <3>2, TaskFields DEF Me
      <4>3. /\ task'[s].op = "refresh" /\ task'[s].at = "data"
            /\ task'[s].token = task[s].token
        BY <4>1, <4>2 DEF Refreshing
      <4> QED BY <1>3, <2>6, <3>2, <4>3 DEF Outcome
    <3> QED BY <2>6, <3>1, <3>2 DEF Me
  <2>7. ASSUME NEW u \in scene.users, NEW right \in scene.rights,
               SubmitLogin(s, u, right)
        PROVE  Outcome(s)
    BY <2>1, <2>7 DEF Outcome
  <2> QED BY <1>3, <2>2, <2>3, <2>4, <2>5, <2>6, <2>7 DEF SessionStep
<1>4. CASE \/ ResetStep(s) \/ Lose(s) \/ ApplyData(s)
           \/ AttachmentsListed(s) \/ Previewed(s)
  <2>1. Goes(s, Idle)
    BY <1>4 DEF ResetStep, Unauthorized, Lose, ApplyData, AttachmentsListed,
      Previewed, Views
  <2>2. task'[s] = Idle
    BY <1>2, <2>1
  <2> QED BY <2>2 DEF Outcome
<1>5. CASE Presign(s) \/ Put(s) \/ Handle(s) \/ Answer(s)
  <2>1. \E j : Goes(s, j) /\ (j.op = "action" \/ j = Idle)
    <3>1. task[s] \in Action
      BY <1>1, <1>5, TaskFields DEF Presign, Put, Handle, Answer, Acts
    <3>2. CASE Presign(s)
      <4>1. \/ Goes(s, Idle)
            \/ \E f : Goes(s, [task[s] EXCEPT !.at = "put", !.up = @ \cup {f}])
        BY <3>2 DEF Presign, Failing
      <4>2. \A f : [task[s] EXCEPT !.at = "put", !.up = @ \cup {f}].op = "action"
        BY <3>1 DEF Action
      <4> QED BY <4>1, <4>2
    <3>3. CASE Put(s) \/ Answer(s)
      <4>1. \/ Goes(s, Idle)
            \/ \E at : Goes(s, [task[s] EXCEPT !.at = at])
        BY <3>3 DEF Put, Answer, Failing, CloseAfter
      <4>2. \A at : [task[s] EXCEPT !.at = at].op = "action"
        BY <3>1 DEF Action
      <4> QED BY <4>1, <4>2
    <3>4. CASE Handle(s)
      <4>1. \/ Goes(s, Idle)
            \/ \E i : Goes(s, [task[s] EXCEPT !.at = "answer", !.did = TRUE, !.id = i])
        BY <3>4 DEF Handle, Failing
      <4>2. \A i : [task[s] EXCEPT !.at = "answer", !.did = TRUE, !.id = i].op = "action"
        BY <3>1 DEF Action
      <4> QED BY <4>1, <4>2
    <3> QED BY <1>5, <3>2, <3>3, <3>4
  <2>2. task'[s].op = "action" \/ task'[s] = Idle
    BY <1>2, <2>1
  <2> QED BY <1>5, <2>2, ActionContinues DEF Outcome
<1>6. CASE Submit(s)
  <2>1. /\ task'[s] \in Action /\ task'[s].token = token
        /\ task'[s].at \in {"presign", "request"}
    BY <1>6, SubmitIs
  <2> QED BY <1>6, <2>1 DEF Outcome, Action
<1>7. CASE ReadData(s)
  BY <1>1, <1>7 DEF ReadData, Outcome
<1>8. CASE OpenPreview(s)
  <2>1. task'[s].op = "view" /\ task'[s].token = token
    BY <1>1, <1>8 DEF OpenPreview, Start
  <2> QED BY <1>8, <2>1 DEF Outcome
<1>9. ASSUME NEW k \in scene.views, NEW i \in Ids, OpenAttachments(s, k, i)
      PROVE  Outcome(s)
  <2>1. Goes(s, [op |-> "view", at |-> "list", kind |-> k, id |-> i, token |-> token])
    BY <1>9, Zenon DEF OpenAttachments, Start
  <2>2. task'[s].op = "view" /\ task'[s].token = token
    BY <1>2, <2>1
  <2> QED BY <1>9, <2>2 DEF Outcome
<1> QED BY <1>3, <1>4, <1>5, <1>6, <1>7, <1>8, <1>9 DEF TaskStep

(* Where an action that is under way comes from.                           *)
LEMMA ActionFrom ==
    ASSUME Typed, [Next]_vars, NEW s \in Tasks,
           task'[s].op = "action", task'[s].at # "apply"
    PROVE  \/ task'[s] = task[s]
           \/ Submit(s)
           \/ Continues(s)
<1>1. CASE TaskStep(s) /\ ~ReloadStep(s)
  BY <1>1, TaskOutcome DEF Outcome, Idle, ReadData
<1>2. ASSUME NEW t \in Tasks, ReloadStep(t)
      PROVE  FALSE
  BY <1>2 DEF ReloadStep, Reload, Idle
<1> QED BY <1>1, <1>2, OwnStep

(* Files are uploaded before the request for contracts and for changes of   *)
(* status, which name the selected row.                                    *)
LEMMA BeforeForms ==
    ASSUME NEW f \in Forms, Form(f).files = "before"
    PROVE  \/ f = "contract"
           \/ "step" \in Form(f).does /\ Form(f).saves \in Form(f).sends
<1>1. f \in DOMAIN FormTable
  BY ConsoleAssumption
<1>2. f \in {"customer", "signingEntity", "user", "superAdmin", "tenant",
             "tenantUser", "recipient", "contract", "receivable",
             "billStatus", "payable", "payableStatus"}
  BY <1>1 DEF FormTable
<1> QED BY <1>2 DEF Form, FormTable, CustomerForm, SigningEntityForm, UserForm,
  SuperAdminForm, TenantForm, TenantUserForm, RecipientForm, ContractForm,
  ReceivableForm, BillStatusForm, PayableForm, PayableStatusForm

LEMMA IdsGivenStep ==
    ASSUME Typed, IdsGiven, [Next]_vars
    PROVE  IdsGiven'
<1>1. SUFFICES ASSUME NEW s \in Tasks, task'[s].op = "action",
                      task'[s].at \in {"presign", "put", "answer"}
               PROVE  task'[s].form = "contract" \/ task'[s].id # 0
  BY DEF IdsGiven
<1>2. CASE task'[s] = task[s]
  BY <1>1, <1>2 DEF IdsGiven
<1>3. CASE Submit(s)
  <2>1. dialog.form \in Forms
    BY <1>3 DEF Submit, Typed, PageTyped, Dialog
  <2>2. Form(dialog.form).files = "before"
    BY <1>1, <1>3, SubmitIs
  <2>3. CASE "step" \in Form(dialog.form).does
              /\ Form(dialog.form).saves \in Form(dialog.form).sends
    <3>1. selected[Form(dialog.form).saves] # 0
      BY <1>3, <2>3 DEF Submit
    <3> QED BY <1>3, <2>3, <3>1, SubmitIs
  <2> QED BY <1>3, <2>1, <2>2, <2>3, BeforeForms, SubmitIs
<1>4. CASE Continues(s)
  BY <1>1, <1>4 DEF Continues, SameAction, Moves, IdsGiven, Action
<1> QED BY <1>1, <1>2, <1>3, <1>4, ActionFrom

-----------------------------------------------------------------------------
(* The types of the API's side and of the page.                            *)

LEMMA OtherBuckets ==
    ASSUME Typed, [Next]_vars
    PROVE  \/ UNCHANGED bucket
           \/ bucket' \in {"unknown", "ready", "broken"}
<1>1. CASE UserStep
  BY <1>1 DEF UserStep, Logout, ChangeMonth, OpenCreate, OpenEdit, OpenStatus,
    Opened, Pick, ChooseFiles, Close, CloseAttachments
<1>2. CASE OtherStep
  BY <1>2 DEF OtherStep, OthersAdd, OthersStep, OthersDelete, WindowEnds,
    Expire, RestartApi
<1>3. ASSUME NEW t \in Tasks, TaskStep(t)
      PROVE  UNCHANGED bucket \/ bucket' \in {"unknown", "ready", "broken"}
  BY <1>3 DEF TaskStep, SessionStep, ResetStep, ReloadStep, Submit, Presign, Put,
    Handle, Answer, Lose, ReadData, ApplyData, OpenAttachments, AttachmentsListed,
    OpenPreview, Previewed, Views
<1> QED BY <1>1, <1>2, <1>3 DEF Next, vars

(* The attachments change by uploads and by the request that names them.    *)
LEMMA FileSteps ==
    ASSUME Typed, [Next]_vars
    PROVE  \/ UNCHANGED file
           \/ \E t \in Tasks : Presign(t) \/ Put(t) \/ Handle(t)
<1>1. CASE UserStep
  BY <1>1 DEF UserStep, Logout, ChangeMonth, OpenCreate, OpenEdit, OpenStatus,
    Opened, Pick, ChooseFiles, Close, CloseAttachments
<1>2. CASE OtherStep
  BY <1>2 DEF OtherStep, OthersAdd, OthersStep, OthersDelete, WindowEnds,
    Expire, RestartApi
<1>3. ASSUME NEW t \in Tasks, TaskStep(t), ~(Presign(t) \/ Put(t) \/ Handle(t))
      PROVE  UNCHANGED file
  BY <1>3 DEF TaskStep, SessionStep, ResetStep, ReloadStep, Submit,
    Answer, Lose, ReadData, ApplyData, OpenAttachments, AttachmentsListed,
    OpenPreview, Previewed, Views
<1> QED BY <1>1, <1>2, <1>3 DEF Next, vars

(* What an attachment may be.                                              *)
FileRow == [state : {"none", "row", "stored"}, of : ((Kinds \X Ids) \cup {None})]

LEMMA HandledFile ==
    ASSUME Typed, NEW t \in Tasks, Handle(t)
    PROVE  file' \in [Files -> FileRow]
<1>1. file \in [Files -> FileRow]
  BY DEF Typed, ServerTyped, FileRow
<1>2. task[t] \in Action
  BY TaskFields DEF Handle, Acts, Typed, TasksTyped
<1> DEFINE k == Form(task[t].form).saves
           id == IF task[t].id = 0 THEN Len(table[k]) + 1 ELSE task[t].id
<1>3. k \in Kinds
  BY <1>2, FormKinds DEF Action
<1>4. Accepted(t) => id \in Ids
  <2>1. scene.rows[k] \in 0 .. MaxRows /\ Len(table[k]) \in Nat
    BY <1>3, SceneIs, LenProperties DEF Typed, ServerTyped
  <2> QED BY <1>2, <2>1, ConsoleAssumption DEF Accepted, Action, Ids
<1>5. \/ UNCHANGED file
      \/ /\ Accepted(t)
         /\ file' = [f \in Files |-> IF f \in task[t].up
                                     THEN [file[f] EXCEPT !.of = <<k, id>>] ELSE file[f]]
  BY DEF Handle
<1>6. Accepted(t) => <<k, id>> \in Kinds \X Ids
  BY <1>3, <1>4
<1> HIDE DEF k, id
<1> QED BY <1>1, <1>5, <1>6 DEF FileRow

LEMMA ServerTypesStep ==
    ASSUME Typed, IdsGiven, [Next]_vars
    PROVE  ServerTyped'
<1>1. file \in [Files -> FileRow]
  BY DEF Typed, ServerTyped, FileRow
<1>2. ASSUME NEW t \in Tasks, Presign(t)
      PROVE  file' \in [Files -> FileRow]
  <2>1. task[t] \in Action
    BY <1>2, TaskFields DEF Presign, Acts, Typed, TasksTyped
  <2>2. Form(task[t].form).saves \in Kinds
    BY <2>1, FormKinds DEF Action
  <2>3. task[t].form = "contract" \/ task[t].id \in Ids
    <3>1. task[t].op = "action" /\ task[t].at = "presign"
      BY <1>2, Zenon DEF Presign, Acts
    <3>2. task[t].form = "contract" \/ task[t].id # 0
      BY <3>1 DEF IdsGiven
    <3>3. task[t].id \in 0 .. MaxRows
      BY <2>1 DEF Action
    <3> QED BY <3>2, <3>3, ConsoleAssumption DEF Ids
  <2> DEFINE of == IF task[t].form = "contract" THEN None
                   ELSE <<Form(task[t].form).saves, task[t].id>>
  <2>4. of \in (Kinds \X Ids) \cup {None}
    BY <2>2, <2>3
  <2>5. \/ UNCHANGED file
        \/ \E f : file' = [file EXCEPT ![f] = [state |-> "row", of |-> of]]
    BY <1>2 DEF Presign
  <2> HIDE DEF of
  <2> QED BY <1>1, <2>4, <2>5 DEF FileRow
<1>3. ASSUME NEW t \in Tasks, Put(t)
      PROVE  file' \in [Files -> FileRow]
  <2> DEFINE put == {f \in task[t].up : file[f].state = "row"}
             stored == [f \in Files |->
                          IF f \in put THEN [file[f] EXCEPT !.state = "stored"]
                          ELSE file[f]]
  <2>1. stored \in [Files -> FileRow]
    <3> HIDE DEF put
    <3> QED BY <1>1 DEF FileRow
  <2>2. file' \in {file, stored}
    BY <1>3 DEF Put
  <2> HIDE DEF stored
  <2> QED BY <1>1, <2>1, <2>2
<1>4. file' \in [Files -> FileRow]
  BY <1>1, <1>2, <1>3, HandledFile, FileSteps
<1>5. bucket' \in {"unknown", "ready", "broken"}
  BY OtherBuckets DEF Typed, ServerTyped
<1> QED BY <1>4, <1>5, TablesKeep DEF ServerTyped, FileRow

(* Of a finite set of natural numbers that is not empty, one is largest: a  *)
(* smallest subset that had none would lose any of its elements and have    *)
(* one, which that element cannot be above or below.                       *)
LEMMA LastOf ==
    ASSUME NEW S, IsFiniteSet(S), S # {}, \A n \in S : n \in Nat
    PROVE  \E n \in S : \A j \in S : j <= n
<1> DEFINE Bad == {U \in SUBSET S : U # {} /\ ~\E n \in U : \A j \in U : j <= n}
<1> SUFFICES ASSUME Bad # {} PROVE FALSE
  OBVIOUS
<1>1. IsWellFoundedOn(StrictSubsetOrdering(S), SUBSET S)
  BY FS_StrictSubsetOrderingWellFounded, FS_FiniteSubsetsOfFinite
<1>2. PICK U \in Bad : \A V \in Bad : <<V, U>> \notin StrictSubsetOrdering(S)
  <2>1. Bad \subseteq SUBSET S
    OBVIOUS
  <2> HIDE DEF Bad
  <2> QED BY <1>1, <2>1, WFMin
<1>3. U \in SUBSET S /\ U # {} /\ ~\E n \in U : \A j \in U : j <= n
  BY <1>2
<1>4. PICK x \in U : TRUE
  BY <1>3
<1>5. U \ {x} \notin Bad
  <2>1. U \ {x} \in SUBSET S /\ U \ {x} \subseteq U /\ U \ {x} # U
    BY <1>3, <1>4
  <2>2. <<U \ {x}, U>> \in StrictSubsetOrdering(S)
    BY <1>3, <2>1 DEF StrictSubsetOrdering
  <2> HIDE DEF Bad
  <2> QED BY <1>2, <2>2
<1>6. U \ {x} # {}
  <2> SUFFICES ASSUME U \ {x} = {} PROVE FALSE
    OBVIOUS
  <2>1. U = {x} /\ x <= x
    BY <1>3, <1>4
  <2> QED BY <2>1, <1>3
<1>7. PICK n \in U \ {x} : \A j \in U \ {x} : j <= n
  BY <1>3, <1>5, <1>6
<1>8. CASE x <= n
  BY <1>3, <1>7, <1>8
<1>9. CASE ~(x <= n)
  <2>1. x \in Nat /\ \A j \in U : j \in Nat
    BY <1>3, <1>4
  <2>2. \A j \in U : j <= x
    BY <1>7, <1>9, <2>1
  <2> QED BY <1>3, <1>4, <2>2
<1> QED BY <1>8, <1>9

LEMMA FirstOfRows ==
    ASSUME NEW S \in SUBSET Ids
    PROVE  /\ FirstOf(S) \in 0 .. MaxRows
           /\ S # {} => FirstOf(S) \in S
<1>1. MaxRows \in Nat /\ \A n \in S : n \in Nat /\ n \in 0 .. MaxRows
  BY ConsoleAssumption DEF Ids
<1>2. CASE S = {}
  BY <1>1, <1>2 DEF FirstOf
<1>3. CASE S # {}
  <2>1. IsFiniteSet(S)
    <3>1. IsFiniteSet(Ids)
      BY <1>1, FS_Interval DEF Ids
    <3> QED BY <3>1, FS_Subset
  <2>2. \E n \in S : \A j \in S : j <= n
    BY <1>1, <1>3, <2>1, LastOf
  <2>3. FirstOf(S) \in S
    BY <1>3, <2>2 DEF FirstOf
  <2> QED BY <1>1, <2>3
<1> QED BY <1>2, <1>3

LEMMA ShownRows ==
    ASSUME NEW k
    PROVE  Shown(k) \in SUBSET Ids
BY DEF Shown

(* A dialog opens with the rows that are selected.                         *)
LEMMA OpenedTypes ==
    ASSUME Typed, NEW f \in Forms, NEW id \in 0 .. MaxRows, NEW status \in 0 .. 4,
           NEW chosen \in [Kinds -> 0 .. MaxRows], Opened(f, id, status, chosen)
    PROVE  PageTyped'
<1> DEFINE meant == [k \in Kinds |-> IF k \in Form(f).sends THEN chosen[k] ELSE 0]
<1>1. meant \in [Kinds -> 0 .. MaxRows]
  BY ConsoleAssumption
<1>2. dialog' = [form |-> f, id |-> id, status |-> status, files |-> {}, done |-> "no",
                 meant |-> meant]
  BY DEF Opened
<1> HIDE DEF meant
<1>3. dialog' \in Dialog
  BY <1>1, <1>2 DEF Dialog
<1>4. selected' = chosen /\ UNCHANGED <<seen, seenBy, viewer>>
  BY DEF Opened
<1> QED BY <1>3, <1>4 DEF Typed, PageTyped

LEMMA OpenTypes ==
    ASSUME Typed, RowsStay, NEW f \in Forms,
           OpenCreate(f) \/ \E i \in Ids : OpenEdit(f, i) \/ OpenStatus(f, i)
    PROVE  PageTyped'
<1>1. /\ selected \in [Kinds -> 0 .. MaxRows]
      /\ Form(f).saves \in Kinds
      /\ 0 \in 0 .. MaxRows
      /\ Ids \subseteq 0 .. MaxRows
  BY FormKinds, ConsoleAssumption DEF Typed, PageTyped, Ids
<1> DEFINE k == Form(f).saves
<1>2. CASE OpenCreate(f)
  <2> DEFINE chosen == [j \in Kinds |->
                 IF j \in Form(f).sends /\ (selected[j] = 0 \/ j \in Form(f).fresh)
                 THEN FirstOf(Shown(j)) ELSE selected[j]]
  <2>1. chosen \in [Kinds -> 0 .. MaxRows]
    BY <1>1, ShownRows, FirstOfRows
  <2>2. Opened(f, 0, 0, chosen)
    BY <1>2 DEF OpenCreate
  <2> HIDE DEF chosen
  <2> QED BY <1>1, <2>1, <2>2, OpenedTypes
<1>3. ASSUME NEW i \in Ids, OpenEdit(f, i)
      PROVE  PageTyped'
  <2> DEFINE chosen == [j \in Kinds |->
                    IF j = k THEN i
                    ELSE IF j \in Form(f).sends THEN table[k][i].refs[j]
                    ELSE selected[j]]
  <2>1. table[k][i] \in Row
    <3>1. seen[k][i] # 0
      BY <1>3 DEF OpenEdit, Shown
    <3>2. i <= Len(table[k]) /\ table[k] \in Seq(Row)
      BY <1>1, <3>1 DEF RowsStay, InTable, Typed, ServerTyped
    <3>3. i \in DOMAIN table[k]
      BY <1>3, <3>2, LenProperties, ConsoleAssumption DEF Ids
    <3> QED BY <3>2, <3>3, LenProperties, ElementOfSeq
  <2>2. \A j \in Kinds : table[k][i].refs[j] \in 0 .. MaxRows
    BY <2>1 DEF Row
  <2>3. chosen \in [Kinds -> 0 .. MaxRows]
    BY <1>1, <2>2
  <2>4. Opened(f, i, 0, chosen)
    BY <1>3 DEF OpenEdit
  <2> HIDE DEF chosen
  <2> QED BY <1>1, <2>3, <2>4, OpenedTypes
<1>4. ASSUME NEW i \in Ids, OpenStatus(f, i)
      PROVE  PageTyped'
  <2>1. NextStatus(k, seen[k][i]) \in 0 .. 4
    BY <1>1 DEF NextStatus, LastStatus, Typed, PageTyped, Lists
  <2>2. [selected EXCEPT ![k] = i] \in [Kinds -> 0 .. MaxRows]
    BY <1>1
  <2>3. Opened(f, i, NextStatus(k, seen[k][i]), [selected EXCEPT ![k] = i])
    BY <1>4 DEF OpenStatus
  <2> QED BY <1>1, <2>1, <2>2, <2>3, OpenedTypes
<1> QED BY <1>2, <1>3, <1>4

LEMMA ClearedTypes ==
    ASSUME Cleared
    PROVE  /\ seen' \in Lists
           /\ seenBy' \in Users \cup {None}
           /\ selected' \in [Kinds -> 0 .. MaxRows]
BY ConsoleAssumption DEF Cleared, Nothing, NoRefs, Lists

LEMMA UserTypes ==
    ASSUME Typed, RowsStay, UserStep
    PROVE  PageTyped'
<1>1. PageTyped
  BY DEF Typed
<1>2. CASE Logout /\ Cleared /\ UNCHANGED <<dialog, viewer>>
  BY <1>1, <1>2, ClearedTypes DEF PageTyped
<1>3. CASE UNCHANGED pageVars
  BY <1>1, <1>3 DEF PageTyped
<1>4. ASSUME NEW f \in scene.forms,
             OpenCreate(f) \/ \E i \in Ids : OpenEdit(f, i) \/ OpenStatus(f, i)
      PROVE  PageTyped'
  <2>1. f \in Forms
    BY SceneIs DEF Typed
  <2> QED BY <1>4, <2>1, OpenTypes
<1>5. ASSUME NEW k \in Kinds, NEW i \in Ids, Pick(k, i)
      PROVE  PageTyped'
  <2>1. i \in 0 .. MaxRows
    BY ConsoleAssumption DEF Ids
  <2>2. dialog \in Dialog
    BY <1>1, <1>5 DEF Pick, PageTyped
  <2>3. dialog' = [dialog EXCEPT !.meant[k] = i]
    BY <1>5 DEF Pick
  <2>4. dialog' \in Dialog
    BY <2>1, <2>2, <2>3 DEF Dialog
  <2>5. selected' = [selected EXCEPT ![k] = i] /\ UNCHANGED <<seen, seenBy, viewer>>
    BY <1>5 DEF Pick
  <2> QED BY <1>1, <2>1, <2>4, <2>5 DEF PageTyped
<1>6. ASSUME NEW fs \in Choices, ChooseFiles(fs)
      PROVE  PageTyped'
  <2>1. fs \in SUBSET Files
    BY ConsoleAssumption
  <2>2. dialog \in Dialog /\ dialog' = [dialog EXCEPT !.files = fs]
    BY <1>1, <1>6 DEF ChooseFiles, PageTyped
  <2>3. dialog' \in Dialog
    BY <2>1, <2>2 DEF Dialog
  <2> QED BY <1>1, <1>6, <2>3 DEF ChooseFiles, PageTyped
<1>7. CASE Close
  BY <1>1, <1>7 DEF Close, PageTyped
<1>8. CASE CloseAttachments
  <2>1. viewer.on \in Kinds /\ 0 \in 0 .. MaxRows
    BY <1>1, <1>8, ConsoleAssumption DEF CloseAttachments, Viewing, PageTyped
  <2>2. viewer' = [viewer EXCEPT !.on = None, !.row = 0, !.list[viewer.on] = 0,
                                 !.preview = None]
    BY <1>8 DEF CloseAttachments
  <2>3. viewer' \in [on : Kinds \cup {None}, row : 0 .. MaxRows,
                     list : [Kinds -> 0 .. MaxRows],
                     preview : (Kinds \X Ids) \cup {None}]
    BY <1>1, <2>1, <2>2 DEF PageTyped
  <2> QED BY <1>1, <1>8, <2>3 DEF CloseAttachments, PageTyped
<1> QED BY <1>2, <1>3, <1>4, <1>5, <1>6, <1>7, <1>8 DEF UserStep

LEMMA ClosedAfterTypes ==
    ASSUME Typed, NEW t \in Tasks, task[t] \in Action, CloseAfter(t)
    PROVE  PageTyped'
<1> DEFINE chosen == [k \in Kinds |->
            IF k = Form(task[t].form).saves /\ Form(task[t].form).selects THEN task[t].id
            ELSE IF k \in Form(task[t].form).fresh THEN FirstOf(Shown(k))
            ELSE selected[k]]
<1>1. chosen \in [Kinds -> 0 .. MaxRows]
  BY ShownRows, FirstOfRows DEF Action, Typed, PageTyped
<1>2. /\ selected' = chosen
      /\ dialog' \in {NoDialog, dialog}
      /\ UNCHANGED <<seen, seenBy, viewer>>
  BY DEF CloseAfter
<1> HIDE DEF chosen
<1> QED BY <1>1, <1>2 DEF Typed, PageTyped

LEMMA TaskPageTypes ==
    ASSUME Typed, NEW t \in Tasks, TaskStep(t)
    PROVE  PageTyped'
<1>1. PageTyped /\ task[t] \in Work /\ 0 \in 0 .. MaxRows /\ Ids \subseteq 0 .. MaxRows
  BY ConsoleAssumption DEF Typed, TasksTyped, Ids
<1>2. CASE UNCHANGED pageVars
  BY <1>1, <1>2 DEF PageTyped
<1>3. CASE ResetStep(t)
  BY <1>1, <1>3, ClearedTypes DEF ResetStep, PageTyped
<1>4. CASE ReloadStep(t)
  <2>1. NoView \in [on : Kinds \cup {None}, row : 0 .. MaxRows,
                    list : [Kinds -> 0 .. MaxRows],
                    preview : (Kinds \X Ids) \cup {None}]
    BY <1>1 DEF NoView, NoRefs
  <2> QED BY <1>1, <1>4, <2>1, ClearedTypes DEF ReloadStep, PageTyped
<1>5. CASE UNCHANGED <<seen, seenBy, selected, viewer>>
             /\ (dialog' = dialog \/ (dialog # NoDialog
                                       /\ dialog' = [dialog EXCEPT !.done = "yes"]))
  <2>1. dialog' \in {NoDialog} \cup Dialog
    BY <1>1, <1>5 DEF PageTyped, Dialog
  <2> QED BY <1>1, <1>5, <2>1 DEF PageTyped
<1>6. CASE Submit(t) \/ Lose(t)
  BY <1>2, <1>6 DEF Submit, Lose
<1>7. CASE Handle(t)
  <2>1. task[t].op = "action" /\ task[t].at # "apply" => task[t].form # None
    BY <1>1, TaskFields, ConsoleAssumption DEF Action
  <2>2. dialog.form # None => dialog # NoDialog
    BY DEF NoDialog
  <2> QED BY <1>5, <1>7, <2>1, <2>2 DEF Handle, Acts
<1>8. CASE Put(t) \/ Answer(t)
  <2>1. task[t] \in Action
    BY <1>1, <1>8, TaskFields DEF Put, Answer, Acts
  <2> QED BY <1>2, <1>8, <2>1, ClosedAfterTypes DEF Put, Answer
<1>9. CASE ApplyData(t)
  <2>1. task[t].read \in Lists /\ task[t].token \in Tokens
    BY <1>1, <1>9, TaskFields DEF ApplyData, Applying
  <2>2. owner[task[t].token] \in Users \cup {None}
    BY <2>1 DEF Typed, SessionTyped
  <2> DEFINE chosen == [k \in Kinds |->
               LET rows == {i \in Ids : task[t].read[k][i] # 0}
               IN IF selected[k] \in rows THEN selected[k] ELSE FirstOf(rows)]
  <2>3. chosen \in [Kinds -> 0 .. MaxRows]
    BY <1>1, FirstOfRows DEF PageTyped
  <2>4. /\ selected' = chosen /\ seen' = task[t].read
        /\ seenBy' = owner[task[t].token] /\ UNCHANGED <<dialog, viewer>>
    BY <1>9 DEF ApplyData
  <2> HIDE DEF chosen
  <2> QED BY <1>1, <2>1, <2>2, <2>3, <2>4 DEF PageTyped
<1>10. ASSUME NEW k \in scene.views, NEW i \in Ids, OpenAttachments(t, k, i)
       PROVE  PageTyped'
  <2>1. k \in Kinds
    BY SceneIs DEF Typed
  <2>2. /\ selected' = [selected EXCEPT ![k] = i]
        /\ viewer' = [viewer EXCEPT !.on = k, !.row = i, !.list[k] = 0, !.preview = None]
        /\ UNCHANGED <<seen, seenBy, dialog>>
    BY <1>10 DEF OpenAttachments
  <2> QED BY <1>1, <2>1, <2>2 DEF PageTyped
<1>11. CASE AttachmentsListed(t) \/ Previewed(t)
  <2>1. task[t] \in Looking
    BY <1>1, <1>11, TaskFields DEF AttachmentsListed, Previewed, Views
  <2>2. task[t].kind \in Kinds /\ task[t].id \in Ids
    BY <2>1 DEF Looking
  <2> QED BY <1>1, <1>11, <2>2 DEF AttachmentsListed, Previewed, Views, PageTyped
<1>12. CASE OpenPreview(t) \/ SessionStep(t) \/ Presign(t) \/ ReadData(t)
  BY <1>2, <1>12 DEF OpenPreview, SessionStep, Presign, ReadData
<1> QED BY <1>3, <1>4, <1>6, <1>7, <1>8, <1>9, <1>10, <1>11, <1>12 DEF TaskStep

LEMMA PageTypesStep ==
    ASSUME Typed, RowsStay, [Next]_vars
    PROVE  PageTyped'
<1>1. CASE UNCHANGED pageVars
  BY <1>1 DEF Typed, PageTyped
<1>2. CASE OtherStep
  BY <1>1, <1>2 DEF OtherStep, OthersAdd, OthersStep, OthersDelete, WindowEnds,
    Expire, RestartApi
<1> QED BY <1>1, <1>2, UserTypes, TaskPageTypes DEF Next, vars

-----------------------------------------------------------------------------
(* Rows that are shown, tokens that are held, attempts that are counted.    *)

LEMMA SceneStays ==
    ASSUME [Next]_vars
    PROVE  UNCHANGED scene
<1>1. CASE UserStep
  BY <1>1 DEF UserStep, Logout, ChangeMonth, OpenCreate, OpenEdit, OpenStatus,
    Opened, Pick, ChooseFiles, Close, CloseAttachments
<1>2. CASE OtherStep
  BY <1>2 DEF OtherStep, OthersAdd, OthersStep, OthersDelete, WindowEnds,
    Expire, RestartApi
<1>3. ASSUME NEW t \in Tasks, TaskStep(t)
      PROVE  UNCHANGED scene
  BY <1>3 DEF TaskStep, SessionStep, ResetStep, ReloadStep, Submit, Presign, Put,
    Handle, Answer, Lose, ReadData, ApplyData, OpenAttachments, AttachmentsListed,
    OpenPreview, Previewed, Views
<1> QED BY <1>1, <1>2, <1>3 DEF Next, vars

LEMMA ListsGrow ==
    ASSUME Typed, [Next]_vars, NEW list, InTable(list)
    PROVE  \A k \in Kinds, i \in Ids : list[k][i] # 0 => i <= Len(table'[k])
<1>1. ASSUME NEW k \in Kinds, NEW i \in Ids, i <= Len(table[k])
      PROVE  i <= Len(table'[k])
  <2>1. Len(table[k]) <= Len(table'[k])
    BY TablesKeep
  <2>2. table[k] \in Seq(Row) /\ table'[k] \in Seq(Row)
    BY TablesKeep DEF Typed, ServerTyped
  <2>3. Len(table[k]) \in Nat /\ Len(table'[k]) \in Nat /\ i \in Nat
    BY <2>2, LenProperties, ConsoleAssumption DEF Ids
  <2> QED BY <1>1, <2>1, <2>3
<1> QED BY <1>1 DEF InTable

(* What is shown comes from a refresh.                                      *)
LEMMA SeenFrom ==
    ASSUME [Next]_vars
    PROVE  \/ UNCHANGED <<seen, seenBy>>
           \/ Cleared
           \/ \E t \in Tasks : ApplyData(t)
<1>1. CASE UserStep
  BY <1>1 DEF UserStep, Logout, ChangeMonth, OpenCreate, OpenEdit, OpenStatus,
    Opened, Pick, ChooseFiles, Close, CloseAttachments
<1>2. CASE OtherStep
  BY <1>2 DEF OtherStep, OthersAdd, OthersStep, OthersDelete, WindowEnds,
    Expire, RestartApi
<1>3. ASSUME NEW t \in Tasks, TaskStep(t), ~ApplyData(t)
      PROVE  UNCHANGED <<seen, seenBy>> \/ Cleared
  BY <1>3 DEF TaskStep, SessionStep, ResetStep, ReloadStep, Submit, Presign, Put,
    Handle, Answer, CloseAfter, Lose, ReadData, OpenAttachments, AttachmentsListed,
    OpenPreview, Previewed, Views
<1> QED BY <1>1, <1>2, <1>3 DEF Next, vars

LEMMA RowsStayStep ==
    ASSUME Typed, RowsStay, [Next]_vars
    PROVE  RowsStay'
<1>1. task \in [Tasks -> Work]
  BY DEF Typed, TasksTyped
<1>2. \A k \in Kinds, i \in Ids : seen'[k][i] # 0 => i <= Len(table'[k])
  <2>1. ASSUME NEW t \in Tasks, ApplyData(t)
        PROVE  InTable(seen')
    BY <2>1 DEF ApplyData, RowsStay
  <2>2. Cleared => InTable(seen')
    BY DEF Cleared, Nothing, InTable
  <2>3. InTable(seen')
    BY <2>1, <2>2, SeenFrom DEF RowsStay
  <2> QED BY <2>3, ListsGrow
<1>3. ASSUME NEW s \in Tasks, task'[s].op \in {"refresh", "action"},
             task'[s].at = "apply"
      PROVE  \A k \in Kinds, i \in Ids : task'[s].read[k][i] # 0 => i <= Len(table'[k])
  <2>1. CASE task'[s] = task[s]
    <3>1. InTable(task[s].read)
      BY <1>3, <2>1 DEF RowsStay
    <3> QED BY <2>1, <3>1, ListsGrow
  <2>2. CASE ReadData(s)
    <3>1. task'[s].read = [k \in Kinds |-> [i \in Ids |->
                             IF i \in Listed(k, task[s].month)
                             THEN table[k][i].status ELSE 0]]
      BY <1>1, <2>2 DEF ReadData
    <3>2. \A k \in Kinds, i \in Ids : task'[s].read[k][i] # 0 => i \in DOMAIN table[k]
      BY <3>1 DEF Listed, Rows
    <3>3. InTable(task'[s].read)
      BY <3>2, LenProperties DEF InTable, Typed, ServerTyped
    <3> QED BY <3>3, ListsGrow
  <2>3. CASE \E t \in Tasks : ReloadStep(t)
    BY <1>1, <1>3, <2>3 DEF ReloadStep, Reload, Idle
  <2>4. CASE Outcome(s) /\ ~ReadData(s)
    BY <1>3, <2>4 DEF Outcome, Idle, Continues, Moves
  <2> QED BY <2>1, <2>2, <2>3, <2>4, OwnStep, TaskOutcome
<1> QED BY <1>2, <1>3 DEF RowsStay, InTable

(* A token belongs for good to the user it was issued to.                  *)
LEMMA OwnersStay ==
    ASSUME Typed, [Next]_vars, NEW k \in Tokens, owner[k] # None
    PROVE  owner'[k] = owner[k]
<1>1. CASE UserStep
  BY <1>1 DEF UserStep, Logout, ChangeMonth, OpenCreate, OpenEdit, OpenStatus,
    Opened, Pick, ChooseFiles, Close, CloseAttachments
<1>2. CASE OtherStep
  BY <1>2 DEF OtherStep, OthersAdd, OthersStep, OthersDelete, WindowEnds,
    Expire, RestartApi
<1>3. ASSUME NEW t \in Tasks, TaskStep(t), ~(SessionStep(t) /\ Compare(t))
      PROVE  UNCHANGED owner
  BY <1>3 DEF TaskStep, SessionStep, SubmitLogin, Start, AssertLoginAllowed,
    LoginAnswer, Refresh, Me, ResetStep, Unauthorized, ReloadStep, Reload,
    Submit, Presign, Put, Handle, Answer, Lose, ReadData, ApplyData,
    OpenAttachments, AttachmentsListed, OpenPreview, Previewed, Views
<1>4. ASSUME NEW t \in Tasks, Compare(t)
      PROVE  owner'[k] = owner[k]
  <2>1. \/ UNCHANGED owner
        \/ \E j \in Tokens : /\ owner[j] = None
                             /\ owner' = [owner EXCEPT ![j] = task[t].by]
    BY <1>4 DEF Compare
  <2> QED BY <2>1 DEF Typed, SessionTyped
<1> QED BY <1>1, <1>2, <1>3, <1>4 DEF Next, vars, sessionVars

(* The token of a task is the one that the page had at its start, or the    *)
(* cookie's after a reload, or that of its sign-in.                        *)
LEMMA TokenFrom ==
    ASSUME Typed, [Next]_vars, NEW s \in Tasks, Holds(s)'
    PROVE  \/ Holds(s) /\ task'[s].token = task[s].token
           \/ token # None /\ token' = token /\ task'[s].token = token
           \/ /\ \E t \in Tasks : ReloadStep(t)
              /\ cookie # None
              /\ task'[s].token = cookie.token
           \/ SessionStep(s) /\ LoginAnswer(s) /\ task'[s].token = task[s].token
<1>1. task \in [Tasks -> Work]
  BY DEF Typed, TasksTyped
<1>2. CASE task'[s] = task[s]
  BY <1>2 DEF Holds
<1>3. CASE \E t \in Tasks : ReloadStep(t)
  BY <1>1, <1>3 DEF ReloadStep, Reload, Holds, Idle
<1>4. CASE Outcome(s)
  <2>1. CASE \/ SessionStep(s) /\ Refresh(s)
             \/ Submit(s)
             \/ OpenPreview(s) \/ \E k \in scene.views, i \in Ids : OpenAttachments(s, k, i)
    <3>1. token # None /\ token' = token
      BY <2>1 DEF Refresh, Submit, OpenPreview, OpenAttachments, LoggedIn
    <3>2. task'[s].token = token \/ (Holds(s) /\ task'[s].token = task[s].token)
      BY <1>4, <2>1 DEF Outcome, Holds, Idle, Continues, SameAction, Action, ReadData,
        LoginAnswer, Refresh, Start, Submit, OpenPreview, OpenAttachments
    <3> QED BY <3>1, <3>2
  <2>2. CASE ~(\/ SessionStep(s) /\ Refresh(s)
               \/ Submit(s)
               \/ OpenPreview(s) \/ \E k \in scene.views, i \in Ids : OpenAttachments(s, k, i))
    BY <1>4, <2>2 DEF Outcome, Holds, Idle, Continues, SameAction, Action, ReadData
  <2> QED BY <2>1, <2>2
<1> QED BY <1>2, <1>3, <1>4, OwnStep, TaskOutcome

LEMMA IssuedStep ==
    ASSUME Typed, Issued, [Next]_vars
    PROVE  Issued'
<1>1. /\ task \in [Tasks -> Work]
      /\ SessionTyped
      /\ None \notin Users
  BY SessionAssumption DEF Typed, TasksTyped
<1>2. ASSUME NEW s \in Tasks, task[s].op = "login", task[s].at = "answer"
      PROVE  /\ task[s].token \in Tokens
             /\ owner[task[s].token] = task[s].by
             /\ owner[task[s].token] # None
  BY <1>1, <1>2, TaskFields DEF Issued, Entered
<1>3. ASSUME NEW s \in Tasks, Holds(s)
      PROVE  task[s].token \in Tokens /\ owner[task[s].token] # None
  BY <1>1, <1>3, TaskFields DEF Holds, Issued, Looking
<1>4. cookie # None =>
        cookie.token \in Tokens /\ owner[cookie.token] = cookie.user
          /\ owner[cookie.token] # None
  BY <1>1 DEF Issued, SessionTyped
<1>5. token # None => token \in Tokens /\ owner[token] # None
  BY <1>1 DEF Issued, SessionTyped
<1>6. ASSUME NEW s \in Tasks, Holds(s)'
      PROVE  owner'[task'[s].token] # None
  BY <1>2, <1>3, <1>4, <1>5, <1>6, TokenFrom, OwnersStay DEF LoginAnswer
<1>7. ASSUME NEW s \in Tasks, task'[s].op = "login", task'[s].at = "answer"
      PROVE  owner'[task'[s].token] = task'[s].by
  <2>1. CASE task'[s] = task[s]
    BY <1>2, <1>7, <2>1, OwnersStay
  <2>2. CASE \E t \in Tasks : ReloadStep(t)
    BY <1>1, <1>7, <2>2 DEF ReloadStep, Reload, Idle
  <2>3. CASE Outcome(s)
    BY <1>7, <2>3 DEF Outcome, Idle, Continues, ReadData
  <2> QED BY <2>1, <2>2, <2>3, OwnStep, TaskOutcome
<1>8. ASSUME NEW t \in Tasks, SessionStep(t) /\ (LoginAnswer(t) \/ Me(t))
      PROVE  /\ token' # None => owner'[token'] # None
             /\ cookie' # None => cookie'.user = owner'[cookie'.token]
  <2>1. UNCHANGED owner
    BY <1>8 DEF LoginAnswer, Me
  <2>2. CASE LoginAnswer(t)
    <3>1. token' = task[t].token /\ cookie' = [token |-> task[t].token, user |-> task[t].by]
      BY <2>2 DEF LoginAnswer, Cookie
    <3> QED BY <1>2, <2>1, <2>2, <3>1 DEF LoginAnswer
  <2>3. CASE Me(t)
    <3>1. /\ token' = token
          /\ cookie' = [token |-> task[t].token, user |-> owner[task[t].token]]
      BY <2>3 DEF Me, Cookie
    <3> QED BY <1>5, <2>1, <3>1
  <2> QED BY <1>8, <2>2, <2>3
<1>9. ASSUME /\ token' \in {token, None} \/ (cookie # None /\ token' = cookie.token)
             /\ cookie' \in {cookie, None}
      PROVE  /\ token' # None => owner'[token'] # None
             /\ cookie' # None => cookie'.user = owner'[cookie'.token]
  BY <1>4, <1>5, <1>9, OwnersStay
<1>10. UserStep =>
         /\ token' \in {token, None}
         /\ cookie' \in {cookie, None}
  BY DEF UserStep, Logout, ResetSession, ChangeMonth, OpenCreate, OpenEdit,
    OpenStatus, Opened, Pick, ChooseFiles, Close, CloseAttachments
<1>11. OtherStep => UNCHANGED <<token, cookie>>
  BY DEF OtherStep, OthersAdd, OthersStep, OthersDelete, WindowEnds, Expire, RestartApi
<1>12. ASSUME NEW t \in Tasks, TaskStep(t),
              ~(SessionStep(t) /\ (LoginAnswer(t) \/ Me(t)))
       PROVE  /\ token' \in {token, None} \/ (cookie # None /\ token' = cookie.token)
              /\ cookie' \in {cookie, None}
  BY <1>12 DEF TaskStep, SessionStep, SubmitLogin, Start, AssertLoginAllowed, Compare,
    Refresh, ResetStep, Unauthorized, ResetSession, ReloadStep, Reload,
    Submit, Presign, Put, Handle, Answer, Lose, ReadData, ApplyData,
    OpenAttachments, AttachmentsListed, OpenPreview, Previewed, Views
<1>13. /\ token' # None => owner'[token'] # None
       /\ cookie' # None => cookie'.user = owner'[cookie'.token]
  BY <1>8, <1>9, <1>10, <1>11, <1>12 DEF Next, vars, sessionVars
<1> QED BY <1>6, <1>7, <1>13 DEF Issued, Holds

(* An attempt is compared after it has passed the check, and once.          *)
LEMMA ComparingFrom ==
    ASSUME Typed, [Next]_vars, NEW u, NEW s \in Comparing(u)'
    PROVE  \/ s \in Comparing(u) /\ task'[s] = task[s]
           \/ AssertLoginAllowed(s) /\ task[s].by = u
<1>1. s \in Tasks /\ task'[s].op = "login" /\ task'[s].at = "compare" /\ task'[s].by = u
  BY DEF Comparing
<1>2. CASE task'[s] = task[s]
  BY <1>1, <1>2 DEF Comparing
<1>3. CASE \E t \in Tasks : ReloadStep(t)
  BY <1>1, <1>3 DEF ReloadStep, Reload, Idle
<1>4. CASE Outcome(s)
  BY <1>1, <1>4 DEF Outcome, Idle, Continues, ReadData
<1> QED BY <1>1, <1>2, <1>3, <1>4, OwnStep, TaskOutcome

LEMMA ComparingFinite ==
    ASSUME NEW u
    PROVE  /\ IsFiniteSet(Comparing(u))
           /\ Cardinality(Comparing(u)) \in Nat
           /\ Cardinality(Comparing(u)) <= Cardinality(Tasks)
           /\ Cardinality(Tasks) \in Nat
<1>1. Comparing(u) \subseteq Tasks /\ IsFiniteSet(Tasks)
  BY SessionAssumption DEF Comparing
<1> QED BY <1>1, FS_Subset, FS_CardinalityType

LEMMA CountedStep ==
    ASSUME Typed, Counted, [Next]_vars
    PROVE  Counted'
<1>1. SUFFICES ASSUME NEW u \in Users
               PROVE  failure'[u].count + Cardinality(Comparing(u)')
                        <= MaxFailures - 1 + Cardinality(Tasks)
  BY DEF Counted
<1> DEFINE C == Comparing(u)
           D == Comparing(u)'
           c == Cardinality(C)
           d == Cardinality(D)
           n == Cardinality(Tasks)
<1>2. /\ IsFiniteSet(C) /\ IsFiniteSet(Tasks) /\ D \subseteq Tasks
      /\ c \in Nat /\ c <= n /\ n \in Nat
  BY ComparingFinite, SessionAssumption DEF Comparing
<1>3. IsFiniteSet(D) /\ d \in Nat /\ d <= n
  BY <1>2, FS_Subset, FS_CardinalityType
<1>4. /\ failure[u].count \in Nat
      /\ failure[u].count + c <= MaxFailures - 1 + n
      /\ failure \in [Users -> [count : Nat, old : BOOLEAN]]
      /\ MaxFailures \in Nat \ {0}
  BY SessionAssumption DEF Counted, Typed, SessionTyped
<1>5. ASSUME D \subseteq C
      PROVE  d <= c
  BY <1>2, <1>5, FS_Subset
<1>6. ASSUME NEW t \in C, D \subseteq C \ {t}
      PROVE  d <= c - 1
  <2>1. IsFiniteSet(C \ {t}) /\ Cardinality(C \ {t}) = c - 1
    BY <1>2, FS_RemoveElement
  <2> QED BY <1>6, <2>1, FS_Subset
<1> HIDE DEF C, D, c, d, n
<1>7. CASE failure'[u].count = 0
  <2> SUFFICES failure'[u].count + d <= MaxFailures - 1 + n
    BY DEF D, d, n
  <2> QED BY <1>2, <1>3, <1>4, <1>7
<1>8. CASE D \subseteq C /\ failure'[u].count = failure[u].count
  <2> SUFFICES failure'[u].count + d <= MaxFailures - 1 + n
    BY DEF D, d, n
  <2> QED BY <1>2, <1>3, <1>4, <1>5, <1>8
<1>9. ASSUME NEW t \in Tasks, AssertLoginAllowed(t)
      PROVE  failure'[u].count + d <= MaxFailures - 1 + n
  <2>1. CASE task[t].by = u /\ failure[u].count < MaxFailures
    <3>1. failure'[u].count \in {0, failure[u].count}
      BY <1>4, <1>9, <2>1 DEF AssertLoginAllowed, NoFailure
    <3> QED BY <1>2, <1>3, <1>4, <2>1, <3>1
  <2>2. CASE task[t].by # u \/ ~(failure[u].count < MaxFailures)
    <3>1. failure'[u] = failure[u]
      BY <1>4, <1>9, <2>2 DEF AssertLoginAllowed
    <3>2. \A s \in Tasks : s # t => task'[s] = task[s]
      BY <1>9 DEF AssertLoginAllowed, Typed, TasksTyped
    <3>3. t \notin D
      <4>1. CASE task[t].by # u
        <5>1. t \notin C
          BY <4>1 DEF C, Comparing
        <5> QED BY <4>1, <5>1, ComparingFrom DEF D, C
      <4>2. CASE task[t].by = u
        <5>1. task'[t] = Idle
          BY <1>4, <1>9, <2>2, <4>2 DEF AssertLoginAllowed, Typed, TasksTyped
        <5> QED BY <5>1 DEF D, Comparing, Idle
      <4> QED BY <4>1, <4>2
    <3>4. D \subseteq C
      BY <3>2, <3>3 DEF D, C, Comparing
    <3> QED BY <1>2, <1>3, <1>4, <1>5, <3>1, <3>4
  <2> QED BY <2>1, <2>2
<1>10. ASSUME NEW t \in Tasks, Compare(t)
       PROVE  failure'[u].count + d <= MaxFailures - 1 + n
  <2>1. D \subseteq C \ {t}
    <3>1. /\ task'[t].op = "login" => task'[t].at # "compare"
          /\ \A s \in Tasks : s # t => task'[s] = task[s]
      <4>1. /\ task \in [Tasks -> Work]
            /\ \/ Goes(t, Idle)
               \/ \E k : Goes(t, [op |-> "login", at |-> "answer", by |-> task[t].by,
                                 token |-> k, month |-> task[t].month])
        BY <1>10 DEF Compare, Typed, TasksTyped
      <4> QED BY <4>1 DEF Idle
    <3> QED BY <3>1 DEF D, C, Comparing
  <2>2. CASE task[t].by = u
    <3>1. t \in C
      BY <1>10, <2>2 DEF C, Comparing, Compare
    <3>2. d <= c - 1
      BY <1>6, <2>1, <3>1
    <3>3. failure'[u].count \in {0, 1, failure[u].count + 1}
      BY <1>4, <1>10, <2>2 DEF Compare, NoFailure, Failed
    <3> QED BY <1>2, <1>3, <1>4, <3>2, <3>3
  <2>3. CASE task[t].by # u
    <3>1. failure'[u] = failure[u]
      BY <1>4, <1>10, <2>3 DEF Compare
    <3> QED BY <1>2, <1>3, <1>4, <1>5, <2>1, <3>1
  <2> QED BY <2>2, <2>3
<1>11. ASSUME \A t \in Tasks : ~AssertLoginAllowed(t)
       PROVE  D \subseteq C
  BY <1>2, <1>11, ComparingFrom DEF D, C
<1>12. ASSUME NEW w \in Users, WindowEnds(w)
       PROVE  failure'[u].count \in {0, failure[u].count}
  BY <1>4, <1>12 DEF WindowEnds, NoFailure
<1>13. RestartApi => failure'[u].count = 0
  BY DEF RestartApi, NoFailure
<1>14. OtherStep => failure'[u].count \in {0, failure[u].count}
  BY <1>12, <1>13 DEF OtherStep, OthersAdd, OthersStep, OthersDelete, Expire
<1>15. UserStep => UNCHANGED failure
  BY DEF UserStep, Logout, ChangeMonth, OpenCreate, OpenEdit, OpenStatus,
    Opened, Pick, ChooseFiles, Close, CloseAttachments
<1>16. ASSUME NEW t \in Tasks, TaskStep(t),
              ~(AssertLoginAllowed(t) \/ Compare(t))
       PROVE  UNCHANGED failure
  BY <1>16 DEF TaskStep, SessionStep, SubmitLogin, Start,
    LoginAnswer, Refresh, Me, ResetStep, Unauthorized, ReloadStep, Reload,
    Submit, Presign, Put, Handle, Answer, Lose, ReadData, ApplyData,
    OpenAttachments, AttachmentsListed, OpenPreview, Previewed, Views
<1>17. ASSUME \A t \in Tasks : ~(AssertLoginAllowed(t) \/ Compare(t))
       PROVE  failure'[u].count \in {0, failure[u].count}
  BY <1>14, <1>15, <1>16, <1>17 DEF Next, vars, sessionVars
<1>18. CASE \E t \in Tasks : AssertLoginAllowed(t) \/ Compare(t)
  BY <1>9, <1>10, <1>18 DEF D, d, n
<1>19. CASE \A t \in Tasks : ~(AssertLoginAllowed(t) \/ Compare(t))
  BY <1>7, <1>8, <1>11, <1>17, <1>19
<1> QED BY <1>18, <1>19

-----------------------------------------------------------------------------
(* What holds of every state, whatever users do.                           *)

Sound == Typed /\ Issued /\ RowsStay /\ Counted /\ IdsGiven

LEMMA InitSound ==
    ASSUME Init
    PROVE  Sound
<1>1. scene \in Scenes /\ month \in Months /\ 0 \in 0 .. MaxRows
  BY SceneIs, ConsoleAssumption DEF Init
<1>2. task \in [Tasks -> {Idle}] /\ TasksTyped
  BY DEF Init, TasksTyped, Work
<1>3. SessionTyped
  <2>1. NoFailure \in [count : Nat, old : BOOLEAN] /\ 0 \in 0 .. MaxBusy
    BY SessionAssumption DEF NoFailure
  <2> QED BY <1>1, <2>1 DEF Init, SessionTyped
<1>4. ServerTyped
  <2>1. \A m \in scene.months : NewRow(m) \in Row
    BY <1>1, SceneIs DEF NewRow, NoRefs, Row
  <2>2. \A m \in scene.months : <<NewRow(m)>> \in Seq(Row)
    BY <2>1
  <2>3. {<<>>} \cup {<<NewRow(m)>> : m \in scene.months} \subseteq Seq(Row)
    BY <2>2, EmptySeq
  <2>4. table \in [Kinds -> Seq(Row)]
    BY <2>3 DEF Init
  <2>5. ASSUME NEW k \in Kinds PROVE Len(table[k]) <= MaxRows
    <3>1. Len(table[k]) <= scene.rows[k] /\ scene.rows[k] \in 0 .. MaxRows
      BY <1>1, SceneIs DEF Init
    <3>2. Len(table[k]) \in Nat /\ MaxRows \in Nat
      BY <2>4, LenProperties, ConsoleAssumption
    <3> QED BY <3>1, <3>2
  <2>6. /\ file \in [Files -> [state : {"none", "row", "stored"},
                               of : ((Kinds \X Ids) \cup {None})]]
        /\ bucket \in {"unknown", "ready", "broken"}
    BY DEF Init
  <2> QED BY <2>4, <2>5, <2>6 DEF ServerTyped
<1>5. PageTyped
  <2>1. Nothing \in Lists /\ NoRefs \in [Kinds -> 0 .. MaxRows]
    BY <1>1 DEF Nothing, Lists, NoRefs
  <2>2. NoView \in [on : Kinds \cup {None}, row : 0 .. MaxRows,
                    list : [Kinds -> 0 .. MaxRows],
                    preview : (Kinds \X Ids) \cup {None}]
    BY <1>1, <2>1 DEF NoView
  <2> QED BY <2>1, <2>2 DEF Init, PageTyped
<1>6. Issued /\ RowsStay /\ IdsGiven
  BY <1>2 DEF Init, Issued, Holds, RowsStay, InTable, Nothing, IdsGiven, Idle
<1>7. Counted
  <2>1. \A u \in Users : failure[u].count = 0
    BY DEF Init, NoFailure
  <2>2. MaxFailures \in Nat \ {0}
    BY SessionAssumption
  <2>3. ASSUME NEW u \in Users
        PROVE  failure[u].count + Cardinality(Comparing(u))
                 <= MaxFailures - 1 + Cardinality(Tasks)
    BY <2>1, <2>2, ComparingFinite
  <2> QED BY <2>3 DEF Counted
<1>8. cut = "no"
  BY DEF Init
<1> QED BY <1>1, <1>2, <1>3, <1>4, <1>5, <1>6, <1>7, <1>8 DEF Sound, Typed

LEMMA SoundStep ==
    ASSUME Sound, [Next]_vars
    PROVE  Sound'
<1>1. Typed'
  <2>1. cut' \in {"no", "answer", "upload"}
    BY DEF Sound, Typed, Next, Mark, vars
  <2> QED BY <2>1, SessionTypesStep, TasksStep, ServerTypesStep, PageTypesStep, SceneStays
          DEF Sound, Typed
<1> QED BY <1>1, IssuedStep, RowsStayStep, CountedStep, IdsGivenStep DEF Sound

LEMMA SoundTypes ==
    ASSUME Sound
    PROVE  TypeOK
<1>1. Typed /\ Counted
  BY DEF Sound
<1>2. ASSUME NEW u \in Users
      PROVE  failure[u] \in [count : 0 .. MaxFailures - 1 + Cardinality(Tasks),
                             old : BOOLEAN]
  <2>1. failure[u] \in [count : Nat, old : BOOLEAN]
    BY <1>1 DEF Typed, SessionTyped
  <2>2. failure[u].count <= MaxFailures - 1 + Cardinality(Tasks)
    <3>1. failure[u].count + Cardinality(Comparing(u))
            <= MaxFailures - 1 + Cardinality(Tasks)
      BY <1>1 DEF Counted
    <3> QED BY <2>1, <3>1, ComparingFinite, SessionAssumption
  <2>3. failure[u].count \in 0 .. MaxFailures - 1 + Cardinality(Tasks)
    BY <2>1, <2>2, ComparingFinite, SessionAssumption
  <2> QED BY <2>1, <2>3
<1>3. failure \in [Users -> [count : 0 .. MaxFailures - 1 + Cardinality(Tasks),
                             old : BOOLEAN]]
  BY <1>1, <1>2 DEF Typed, SessionTyped
<1>4. ASSUME NEW t \in Tasks
      PROVE  \/ task[t] \in Job
             \/ /\ task[t].op = "action"
                /\ task[t].at # "apply" => task[t] \in Action
  BY <1>1, WorkIsTyped DEF Typed, TasksTyped
<1> QED BY <1>1, <1>3, <1>4
        DEF Typed, SessionTyped, ServerTyped, PageTyped, Lists, TypeOK

LEMMA SoundInv ==
    Spec => []Sound
<1> QED BY InitSound, SoundStep, PTL DEF Spec

(* Every variable keeps to its type: page.tsx's state holds rows that there *)
(* are, tokens that were issued and files that exist, and the counter of    *)
(* failed attempts exceeds its limit by attempts that were under way only.  *)
THEOREM ConsoleTypes ==
    Spec => []TypeOK
<1>1. Sound => TypeOK
  BY SoundTypes
<1> QED BY <1>1, SoundInv, PTL

-----------------------------------------------------------------------------
(* Files are stored before a row counts them as its evidence.               *)

LEMMA FilesKeep ==
    ASSUME Typed, [Next]_vars, NEW f \in Files
    PROVE  /\ file[f].state = "stored" => file'[f].state = "stored"
           /\ file[f].state \in {"row", "stored"} => file'[f].state \in {"row", "stored"}
<1>1. file \in [Files -> FileRow]
  BY DEF Typed, ServerTyped, FileRow
<1>2. ASSUME NEW t \in Tasks, Presign(t), file[f].state # "none"
      PROVE  file'[f] = file[f]
  <2>1. \/ UNCHANGED file
        \/ \E g, r : file[g].state = "none" /\ file' = [file EXCEPT ![g] = r]
    BY <1>2 DEF Presign
  <2> QED BY <1>1, <1>2, <2>1
<1>3. ASSUME NEW t \in Tasks, Put(t)
      PROVE  file'[f].state \in {file[f].state, "stored"}
  <2> DEFINE put == {g \in task[t].up : file[g].state = "row"}
             stored == [g \in Files |->
                          IF g \in put THEN [file[g] EXCEPT !.state = "stored"]
                          ELSE file[g]]
  <2>1. stored[f].state \in {file[f].state, "stored"}
    <3> HIDE DEF put
    <3> QED BY <1>1 DEF FileRow
  <2>2. file' \in {file, stored}
    BY <1>3 DEF Put
  <2> HIDE DEF stored
  <2> QED BY <2>1, <2>2
<1>4. ASSUME NEW t \in Tasks, Handle(t)
      PROVE  file'[f].state = file[f].state
  <2>1. \/ UNCHANGED file
        \/ \E of : file' = [g \in Files |-> IF g \in task[t].up
                                            THEN [file[g] EXCEPT !.of = of] ELSE file[g]]
    BY <1>4 DEF Handle
  <2> QED BY <1>1, <2>1 DEF FileRow
<1> QED BY <1>2, <1>3, <1>4, FileSteps

(* What an action has uploaded is in the object store, but for the file that *)
(* is on its way.                                                          *)
Uploads ==
    \A t \in Tasks : task[t].op = "action" /\ task[t].at # "apply" =>
      \A f \in task[t].up :
        file[f].state \in (IF task[t].at = "put" THEN {"row", "stored"} ELSE {"stored"})

LEMMA PresignUploads ==
    ASSUME Typed, Uploads, [Next]_vars, NEW s \in Tasks, Presign(s), Continues(s)
    PROVE  \A f \in task'[s].up : file'[f].state \in {"row", "stored"}
<1>1. task[s] \in Action /\ task \in [Tasks -> Work] /\ file \in [Files -> FileRow]
  BY DEF Continues, Typed, TasksTyped, ServerTyped, FileRow
<1>2. task'[s].op = "action" /\ task[s].op = "action" /\ task[s].at = "presign"
  BY <1>1 DEF Continues, Presign, Acts, Action
<1>3. ~Goes(s, Idle)
  BY <1>1, <1>2 DEF Idle
<1>4. PICK g \in task[s].files : \E r :
        /\ file' = [file EXCEPT ![g] = [state |-> "row", of |-> r]]
        /\ Goes(s, [task[s] EXCEPT !.at = "put", !.up = @ \cup {g}])
  BY <1>3 DEF Presign, Failing
<1>5. g \in Files /\ task'[s].up = task[s].up \cup {g}
  BY <1>1, <1>4 DEF Action
<1>6. file'[g].state = "row"
  BY <1>1, <1>4, <1>5
<1>7. \A f \in task[s].up : file[f].state = "stored" /\ f \in Files
  BY <1>1, <1>2 DEF Uploads, Action
<1> QED BY <1>5, <1>6, <1>7, FilesKeep

LEMMA PutUploads ==
    ASSUME Typed, Uploads, [Next]_vars, NEW s \in Tasks, Put(s), Continues(s)
    PROVE  \A f \in task[s].up : file'[f].state = "stored"
<1>1. task[s] \in Action /\ task \in [Tasks -> Work] /\ file \in [Files -> FileRow]
  BY DEF Continues, Typed, TasksTyped, ServerTyped, FileRow
<1>2. task'[s].op = "action" /\ task[s].op = "action" /\ task[s].at = "put"
  BY <1>1 DEF Continues, Put, Acts, Action
<1>3. ~Goes(s, Idle)
  BY <1>1, <1>2 DEF Idle
<1> DEFINE put == {g \in task[s].up : file[g].state = "row"}
<1>4. file' = [g \in Files |-> IF g \in put THEN [file[g] EXCEPT !.state = "stored"]
                               ELSE file[g]]
  BY <1>3 DEF Put, Failing
<1>5. ASSUME NEW f \in task[s].up PROVE file'[f].state = "stored"
  <2>1. f \in Files /\ file[f].state \in {"row", "stored"}
    BY <1>1, <1>2 DEF Uploads, Action
  <2>2. CASE file[f].state = "row"
    <3>1. f \in put
      BY <2>2
    <3> HIDE DEF put
    <3> QED BY <1>1, <1>4, <2>1, <3>1 DEF FileRow
  <2>3. CASE file[f].state # "row"
    <3>1. f \notin put
      BY <2>3
    <3> HIDE DEF put
    <3> QED BY <1>4, <2>1, <2>3, <3>1
  <2> QED BY <2>2, <2>3
<1> QED BY <1>5

LEMMA UploadsStep ==
    ASSUME Typed, Uploads, [Next]_vars
    PROVE  Uploads'
<1>1. SUFFICES ASSUME NEW s \in Tasks, task'[s].op = "action", task'[s].at # "apply",
                      NEW f \in task'[s].up
               PROVE  file'[f].state \in (IF task'[s].at = "put" THEN {"row", "stored"}
                                          ELSE {"stored"})
  BY DEF Uploads
<1>2. ASSUME task[s] \in Action, f \in task[s].up
      PROVE  f \in Files
  BY <1>2 DEF Action
<1>3. CASE task'[s] = task[s]
  <2>1. task[s] \in Action
    BY <1>1, <1>3, TaskFields DEF Typed, TasksTyped
  <2>2. file[f].state \in (IF task[s].at = "put" THEN {"row", "stored"} ELSE {"stored"})
    BY <1>1, <1>3 DEF Uploads
  <2> QED BY <1>1, <1>2, <1>3, <2>1, <2>2, FilesKeep
<1>4. CASE Submit(s)
  BY <1>1, <1>4, SubmitIs
<1>5. CASE Continues(s) /\ Presign(s)
  <2>1. task[s].at = "presign" /\ task'[s].at = "put"
    BY <1>5 DEF Continues, Moves, Presign, Acts
  <2> QED BY <1>1, <1>5, <2>1, PresignUploads
<1>6. CASE Continues(s) /\ Put(s)
  <2>1. task'[s].up = task[s].up
    BY <1>6 DEF Continues, Moves, Put, Acts
  <2> QED BY <1>1, <1>6, <2>1, PutUploads
<1>7. CASE Continues(s) /\ ~Presign(s) /\ ~Put(s)
  <2>1. /\ task[s] \in Action /\ task'[s].up = task[s].up
        /\ task[s].at \in {"request", "answer", "me"} /\ task'[s].at # "put"
    BY <1>7 DEF Continues, Moves
  <2>2. file[f].state = "stored"
    BY <1>1, <2>1 DEF Uploads, Action
  <2> QED BY <1>1, <1>2, <2>1, <2>2, FilesKeep
<1> QED BY <1>1, <1>3, <1>4, <1>5, <1>6, <1>7, ActionFrom

LEMMA EvidenceStep ==
    ASSUME Typed, Uploads, EvidenceStored, [Next]_vars
    PROVE  EvidenceStored'
<1>1. table \in [Kinds -> Seq(Row)]
  BY DEF Typed, ServerTyped
<1>2. ASSUME NEW G, TablesGrow(G), \A f \in G : f \in Files /\ file[f].state = "stored",
             NEW k \in Kinds, NEW n \in DOMAIN table'[k], NEW f \in table'[k][n].files
      PROVE  file'[f].state = "stored"
  <2>1. f \in G \cup (IF n \in DOMAIN table[k] THEN table[k][n].files ELSE {})
    BY <1>2 DEF TablesGrow, Grows
  <2>2. file[f].state = "stored"
    BY <1>2, <2>1 DEF EvidenceStored
  <2>3. f \in Files
    <3>1. n \in DOMAIN table[k] => table[k][n] \in Row
      BY <1>1, LenProperties, ElementOfSeq
    <3> QED BY <1>2, <2>1, <3>1 DEF Row
  <2> QED BY <2>2, <2>3, FilesKeep
<1>3. CASE TablesGrow({})
  BY <1>2, <1>3 DEF EvidenceStored
<1>4. ASSUME NEW t \in Tasks, Handle(t), Accepted(t), table' = Saved(t)
      PROVE  EvidenceStored'
  <2>1. task[t] \in Action /\ TablesGrow(task[t].up)
    BY <1>4, HandleGrows
  <2>2. task[t].at = "request" /\ task[t].op = "action"
    BY <1>4 DEF Handle, Acts
  <2>3. \A f \in task[t].up : f \in Files /\ file[f].state = "stored"
    BY <2>1, <2>2 DEF Uploads, Action
  <2> QED BY <1>2, <2>1, <2>3 DEF EvidenceStored
<1> QED BY <1>3, <1>4, TableWrites

(* A file that a row counts as its evidence is in the object store, however *)
(* the uploads and retries of the page's actions meet: no action of         *)
(* page.tsx sends its request before its files are stored, and no step of   *)
(* the API takes an object away.                                           *)
THEOREM EvidenceIsStored ==
    Spec => []EvidenceStored
<1> DEFINE Inv == Sound /\ Uploads /\ EvidenceStored
<1>1. Init => Inv
  <2>1. Init => Uploads
    BY DEF Init, Uploads, Idle
  <2>2. Init => EvidenceStored
    <3>1. ASSUME Init, NEW k \in Kinds, NEW i \in DOMAIN table[k]
          PROVE  table[k][i].files = {}
      <4>1. table[k] = <<>> \/ \E m \in scene.months : table[k] = <<NewRow(m)>>
        BY <3>1 DEF Init
      <4>2. ASSUME NEW r, table[k] = <<r>> PROVE table[k][i] = r
        BY <3>1, <4>2
      <4>3. table[k] # <<>>
        BY <3>1
      <4>4. PICK m \in scene.months : table[k][i] = NewRow(m)
        BY <4>1, <4>2, <4>3
      <4> QED BY <4>4 DEF NewRow
    <3> QED BY <3>1 DEF EvidenceStored
  <2> QED BY <2>1, <2>2, InitSound
<1>2. Inv /\ [Next]_vars => Inv'
  BY SoundStep, UploadsStep, EvidenceStep DEF Sound
<1>3. Inv => EvidenceStored
  OBVIOUS
<1> HIDE DEF Inv
<1> QED BY <1>1, <1>2, <1>3, PTL DEF Spec

-----------------------------------------------------------------------------
(* A user who waits for the page.                                          *)

LEMMA QuietBefore ==
    ASSUME Typed, [Next]_vars, Quiet'
    PROVE  Quiet
<1>1. busy \in Nat /\ busy' = 0
  BY SessionAssumption DEF Typed, SessionTyped, Quiet
<1>2. Click => busy' = busy \/ busy' = busy + 1
  BY DEF Click
<1>3. UserStep => busy' = busy \/ busy' = busy + 1
  BY <1>2 DEF UserStep, Logout, ChangeMonth, OpenCreate, OpenEdit, OpenStatus,
    Opened, Pick, ChooseFiles, Close, CloseAttachments
<1>4. OtherStep => busy' = busy
  BY DEF OtherStep, OthersAdd, OthersStep, OthersDelete, WindowEnds,
    Expire, RestartApi
<1>5. ASSUME NEW t \in Tasks, TaskStep(t)
      PROVE  busy' = busy \/ busy' = busy + 1
  BY <1>2, <1>5 DEF TaskStep, SessionStep, SubmitLogin, Start, AssertLoginAllowed,
    Compare, LoginAnswer, Refresh, Me, ResetStep, Unauthorized, ReloadStep, Reload,
    Submit, Presign, Put, Handle, Answer, Lose, ReadData, ApplyData,
    OpenAttachments, AttachmentsListed, OpenPreview, Previewed, Views
<1>6. busy' = busy \/ busy' = busy + 1
  BY <1>3, <1>4, <1>5 DEF Next, vars, sessionVars
<1> QED BY <1>1, <1>6 DEF Quiet

LEMMA ClicksWait ==
    ASSUME Typed, Click, Quiet'
    PROVE  Calm
<1>1. busy \in Nat /\ busy' = 0
  BY SessionAssumption DEF Typed, SessionTyped, Quiet
<1> QED BY <1>1 DEF Click

LEMMA StartsWait ==
    ASSUME Typed, NEW s \in Tasks, TaskStep(s), ~ReloadStep(s), Quiet',
           task[s] = Idle, task'[s] # Idle
    PROVE  Calm
<1>1. Outcome(s)
  BY TaskOutcome
<1>2. task[s].op = "idle"
  BY DEF Idle
<1>3. Click
  BY <1>1, <1>2 DEF Outcome, SubmitLogin, Start, AssertLoginAllowed, Compare,
    LoginAnswer, Refresh, Me, Continues, Action, Submit, ReadData, OpenPreview,
    OpenAttachments
<1> QED BY <1>3, ClicksWait

(* The page does one thing at a time.                                      *)
OneTask == Quiet => \A s, t \in Tasks : task[s] # Idle /\ task[t] # Idle => s = t

LEMMA OneTaskStep ==
    ASSUME Typed, OneTask, [Next]_vars
    PROVE  OneTask'
<1>1. SUFFICES ASSUME Quiet', NEW s \in Tasks, NEW t \in Tasks, s # t,
                      task'[s] # Idle, task'[t] # Idle
               PROVE  FALSE
  BY DEF OneTask
<1>2. Quiet
  BY <1>1, QuietBefore
<1>3. ~\E r \in Tasks : ReloadStep(r)
  BY <1>1 DEF ReloadStep, Reload
<1>4. ASSUME NEW r \in Tasks, NEW q \in Tasks, r # q, TaskStep(r),
             task'[r] # Idle, task'[q] # Idle
      PROVE  FALSE
  <2>1. task[q] # Idle
    BY <1>3, <1>4, OtherTasksStay
  <2>2. ~Calm
    BY <2>1 DEF Calm
  <2>3. task[r] # Idle
    BY <1>1, <1>3, <1>4, <2>2, StartsWait
  <2> QED BY <1>2, <1>4, <2>1, <2>3 DEF OneTask
<1>5. CASE TaskStep(s) \/ TaskStep(t)
  BY <1>1, <1>4, <1>5
<1>6. CASE ~(TaskStep(s) \/ TaskStep(t))
  <2>1. task'[s] = task[s] /\ task'[t] = task[t]
    BY <1>3, <1>6, OwnStep
  <2> QED BY <1>1, <1>2, <2>1 DEF OneTask
<1> QED BY <1>5, <1>6

(* The steps that change the session of the page.                          *)
LEMMA SessionChanges ==
    ASSUME [Next]_vars
    PROVE  \/ UNCHANGED <<token, user, cookie>>
           \/ Logout /\ Cleared /\ UNCHANGED <<dialog, viewer>>
           \/ \E t \in Tasks : \/ SessionStep(t) /\ (LoginAnswer(t) \/ Me(t))
                               \/ ResetStep(t)
                               \/ ReloadStep(t)
<1>1. UserStep => \/ UNCHANGED <<token, user, cookie>>
                  \/ Logout /\ Cleared /\ UNCHANGED <<dialog, viewer>>
  BY DEF UserStep, ChangeMonth, OpenCreate, OpenEdit, OpenStatus,
    Opened, Pick, ChooseFiles, Close, CloseAttachments
<1>2. OtherStep => UNCHANGED <<token, user, cookie>>
  BY DEF OtherStep, OthersAdd, OthersStep, OthersDelete, WindowEnds,
    Expire, RestartApi
<1>3. ASSUME NEW t \in Tasks, TaskStep(t),
             ~(\/ SessionStep(t) /\ (LoginAnswer(t) \/ Me(t))
               \/ ResetStep(t)
               \/ ReloadStep(t))
      PROVE  UNCHANGED <<token, user, cookie>>
  BY <1>3 DEF TaskStep, SessionStep, SubmitLogin, Start, AssertLoginAllowed, Compare,
    Refresh, Submit, Presign, Put, Handle, Answer, Lose, ReadData, ApplyData,
    OpenAttachments, AttachmentsListed, OpenPreview, Previewed, Views
<1> QED BY <1>1, <1>2, <1>3 DEF Next, vars, sessionVars

(* For a user who waits, the session on the screen is the cookie's and the  *)
(* one that the task under way holds.                                      *)
Settled ==
    /\ cookie = IF token = None THEN None ELSE Cookie(token, user)
    /\ token = None <=> user = None
    /\ token = None => seen = Nothing
    /\ seenBy \in {None, user}
    /\ \A t \in Tasks : /\ Holds(t) => token = task[t].token
                        /\ task[t].op = "login" => token = None

Kept == Quiet => Settled

LEMMA KeptUser ==
    ASSUME Typed, Issued, Kept, Quiet, token # None
    PROVE  /\ user \in Users /\ user = owner[token]
           /\ cookie = [token |-> token, user |-> user] /\ cookie # None
<1>1. cookie = [token |-> token, user |-> user] /\ user \in Users /\ token \in Tokens
  BY DEF Kept, Settled, Cookie, Typed, SessionTyped
<1>2. cookie # None
  BY <1>1, SessionAssumption
<1> QED BY <1>1, <1>2 DEF Cookie, Issued

LEMMA KeptStep ==
    ASSUME Typed, Issued, OneTask, Kept, [Next]_vars
    PROVE  Kept'
<1>1. SUFFICES ASSUME Quiet' PROVE Settled'
  BY DEF Kept
<1>2. /\ Quiet
      /\ task \in [Tasks -> Work]
      /\ \A s \in Tasks : task[s] \in Work
      /\ None \notin Users \cup Tokens
      /\ token # None => token \in Tokens
  BY <1>1, QuietBefore, SessionAssumption DEF Typed, TasksTyped, SessionTyped
<1>3. ASSUME NEW t \in Tasks, task[t] # Idle, NEW s \in Tasks, s # t
      PROVE  task[s] = Idle
  BY <1>2, <1>3 DEF OneTask
<1>4. CASE Logout /\ Cleared
  <2>1. /\ token' = None /\ user' = None /\ cookie' = None
        /\ seen' = Nothing /\ seenBy' = None /\ task' = task /\ Click
    BY <1>4 DEF Logout, ResetSession, Cleared
  <2>2. Calm
    BY <1>1, <2>1, ClicksWait
  <2> QED BY <2>1, <2>2 DEF Settled, Calm, Holds, Idle
<1>5. ASSUME NEW t \in Tasks, SessionStep(t), LoginAnswer(t)
      PROVE  Settled'
  <2>1. task[t] \in Entered /\ task[t] # Idle /\ token = None
    BY <1>2, <1>5, TaskFields DEF LoginAnswer, Idle, Kept, Settled, Settled
  <2>2. /\ token' = task[t].token /\ user' = task[t].by
        /\ cookie' = [token |-> task[t].token, user |-> task[t].by]
        /\ UNCHANGED <<seen, seenBy>>
        /\ task' = [task EXCEPT ![t] = [op |-> "refresh", at |-> "me",
                                        token |-> task[t].token,
                                        month |-> task[t].month]]
    BY <1>5 DEF LoginAnswer, SessionStep, Cookie
  <2>3. token' \in Tokens /\ user' \in Users /\ seenBy = None
    BY <1>2, <2>1, <2>2 DEF Entered, Kept, Settled, Settled
  <2>4. \A s \in Tasks : s # t => task'[s] = Idle
    BY <1>2, <1>3, <2>1, <2>2
  <2>5. task'[t].op = "refresh" /\ task'[t].token = task[t].token
    BY <1>2, <2>2
  <2> QED BY <1>2, <2>2, <2>3, <2>4, <2>5 DEF Kept, Settled, Cookie, Holds, Idle
<1>6. ASSUME NEW t \in Tasks, ResetStep(t)
      PROVE  Settled'
  <2>1. /\ token' = None /\ user' = None /\ cookie' = None
        /\ seen' = Nothing /\ seenBy' = None
        /\ task' = [task EXCEPT ![t] = Idle]
        /\ task[t] # Idle
    BY <1>6 DEF ResetStep, Unauthorized, ResetSession, Cleared, Idle
  <2>2. \A s \in Tasks : task'[s] = Idle
    BY <1>2, <1>3, <2>1
  <2> QED BY <2>1, <2>2 DEF Kept, Settled, Holds, Idle
<1>7. ASSUME NEW t \in Tasks, ReloadStep(t)
      PROVE  Settled'
  <2>1. PICK m \in scene.months : Reload(t, m)
    BY <1>7 DEF ReloadStep
  <2>2. /\ seen' = Nothing /\ seenBy' = None /\ cookie' = cookie
    BY <1>7, <2>1 DEF ReloadStep, Cleared, Reload
  <2>3. token' = token /\ user' = user
    <3>1. CASE token = None
      BY <1>2, <2>1, <3>1 DEF Reload, Kept, Settled, Settled
    <3>2. CASE token # None
      <4>1. cookie = [token |-> token, user |-> user] /\ cookie # None
        BY <1>2, <3>2, KeptUser DEF Cookie, Kept, Settled, Typed, SessionTyped
      <4> QED BY <2>1, <4>1 DEF Reload
    <3> QED BY <3>1, <3>2
  <2>4. \A s \in Tasks :
          \/ task'[s] = Idle
          \/ /\ task'[s].op = "refresh"
             /\ cookie # None /\ task'[s].token = cookie.token
    BY <2>1 DEF Reload
  <2>5. cookie # None => token # None /\ cookie.token = token
    BY <1>2 DEF Kept, Settled, Cookie
  <2> QED BY <1>2, <2>2, <2>3, <2>4, <2>5 DEF Kept, Settled, Holds, Idle, Cookie
<1>8. ASSUME NEW t \in Tasks, SessionStep(t), Me(t)
      PROVE  UNCHANGED <<token, user, cookie>>
  <2>1. Holds(t) /\ token = task[t].token /\ token # None
    BY <1>2, <1>8, TaskFields DEF Me, Holds, Kept, Settled, Settled
  <2> QED BY <1>2, <1>8, <2>1, KeptUser DEF Me, Cookie
<1>9. CASE UNCHANGED <<token, user, cookie>>
           /\ ~\E t \in Tasks : ReloadStep(t) \/ (SessionStep(t) /\ LoginAnswer(t))
  <2>1. ASSUME NEW s \in Tasks, Holds(s)'
        PROVE  token' = task'[s].token
    BY <1>2, <1>9, <2>1, TokenFrom DEF Kept, Settled
  <2>2. ASSUME NEW s \in Tasks, task'[s].op = "login"
        PROVE  token' = None
    <3>1. CASE task'[s] = task[s]
      BY <1>2, <1>9, <2>2, <3>1 DEF Kept, Settled
    <3>2. CASE Outcome(s)
      <4>1. \/ \E u, right : SubmitLogin(s, u, right)
            \/ AssertLoginAllowed(s) \/ Compare(s)
        BY <2>2, <3>2 DEF Outcome, Idle, Continues, ReadData
      <4>2. (\E u, right : SubmitLogin(s, u, right)) => ~LoggedIn
        BY Zenon DEF SubmitLogin
      <4>3. AssertLoginAllowed(s) \/ Compare(s) => task[s].op = "login"
        BY DEF AssertLoginAllowed, Compare
      <4> QED BY <1>2, <1>9, <4>1, <4>2, <4>3 DEF Kept, Settled, LoggedIn
    <3> QED BY <1>9, <3>1, <3>2, OwnStep, TaskOutcome
  <2>3. ASSUME NEW t \in Tasks, ApplyData(t)
        PROVE  token' # None /\ seenBy' = user'
    <3>1. Holds(t) /\ task[t].token \in Tokens
      BY <1>2, <2>3, TaskFields DEF ApplyData, Holds
    <3>2. token = task[t].token /\ token # None
      BY <1>2, <3>1 DEF Kept, Settled
    <3>3. seenBy' = owner[token]
      BY <2>3, <3>2 DEF ApplyData
    <3> QED BY <1>2, <1>9, <3>2, <3>3, KeptUser
  <2>4. /\ token' = None => seen' = Nothing
        /\ seenBy' \in {None, user'}
    BY <1>2, <1>9, <2>3, SeenFrom DEF Kept, Settled, Cleared
  <2>5. /\ cookie' = IF token' = None THEN None ELSE Cookie(token', user')
        /\ token' = None <=> user' = None
    BY <1>2, <1>9 DEF Kept, Settled, Cookie
  <2> QED BY <2>1, <2>2, <2>4, <2>5 DEF Settled
<1> QED BY <1>4, <1>5, <1>6, <1>7, <1>8, <1>9, SessionChanges

Waiting == Sound /\ OneTask /\ Kept

LEMMA WaitingInv ==
    Spec => []Waiting
<1>1. Init => Waiting
  <2>1. Init => OneTask
    BY DEF Init, OneTask
  <2>2. Init => Kept
    BY DEF Init, Kept, Settled, Holds, Idle
  <2> QED BY <2>1, <2>2, InitSound DEF Waiting
<1>2. Waiting /\ [Next]_vars => Waiting'
  BY SoundStep, OneTaskStep, KeptStep DEF Waiting, Sound
<1> QED BY <1>1, <1>2, PTL DEF Spec

(* The cookie names the user to whom its token was issued, whatever tasks   *)
(* of page.tsx meet; and for a user who waits, the session on the screen is *)
(* the cookie's, the rows are that user's, and a sign-out leaves nothing.   *)
THEOREM SessionAlwaysAgrees ==
    Spec => []SessionAgrees
<1>1. Waiting => SessionAgrees
  BY DEF Waiting, Sound, Issued, Kept, Settled, SessionAgrees
<1> QED BY <1>1, WaitingInv, PTL

-----------------------------------------------------------------------------
(* An open dialog can be saved again.                                      *)

(* What becomes of the dialog.                                             *)
LEMMA DialogChanges ==
    ASSUME [Next]_vars
    PROVE  \/ UNCHANGED dialog
           \/ dialog' = NoDialog
           \/ /\ Click
              /\ \/ \E f, id, status, chosen : Opened(f, id, status, chosen)
                 \/ \E k \in Kinds, i \in Ids : Pick(k, i)
                 \/ \E fs \in Choices : ChooseFiles(fs)
           \/ \E t \in Tasks : /\ Handle(t)
                               /\ task[t].op = "action"
                               /\ dialog.form = task[t].form
                               /\ dialog' = [dialog EXCEPT !.done = "yes"]
<1>1. ASSUME NEW f, OpenCreate(f) \/ \E i \in Ids : OpenEdit(f, i) \/ OpenStatus(f, i)
      PROVE  \E id, status, chosen : Opened(f, id, status, chosen)
  BY <1>1, Zenon DEF OpenCreate, OpenEdit, OpenStatus
<1>2. ASSUME NEW f, NEW id, NEW status, NEW chosen, Opened(f, id, status, chosen)
      PROVE  Click
  BY <1>2 DEF Opened
<1>3. ASSUME NEW k, NEW i, Pick(k, i) PROVE Click
  BY <1>3 DEF Pick
<1>4. ASSUME NEW fs, ChooseFiles(fs) PROVE Click
  BY <1>4 DEF ChooseFiles
<1>5. CASE UserStep
  <2>1. \/ \E f \in scene.forms :
             OpenCreate(f) \/ \E i \in Ids : OpenEdit(f, i) \/ OpenStatus(f, i)
        \/ \E k \in Kinds, i \in Ids : Pick(k, i)
        \/ \E fs \in Choices : ChooseFiles(fs)
        \/ UNCHANGED dialog \/ dialog' = NoDialog
    BY <1>5 DEF UserStep, Logout, ChangeMonth, Close, CloseAttachments
  <2> QED BY <1>1, <1>2, <1>3, <1>4, <2>1
<1>6. OtherStep => UNCHANGED dialog
  BY DEF OtherStep, OthersAdd, OthersStep, OthersDelete, WindowEnds,
    Expire, RestartApi
<1>7. ASSUME NEW t \in Tasks, TaskStep(t), ~Handle(t)
      PROVE  UNCHANGED dialog \/ dialog' = NoDialog
  BY <1>7 DEF TaskStep, SessionStep, ResetStep, ReloadStep, Submit, Presign, Put,
    Answer, CloseAfter, Lose, ReadData, ApplyData, OpenAttachments, AttachmentsListed,
    OpenPreview, Previewed, Views
<1>8. ASSUME NEW t \in Tasks, Handle(t), ~UNCHANGED dialog
      PROVE  /\ task[t].op = "action"
             /\ dialog.form = task[t].form
             /\ dialog' = [dialog EXCEPT !.done = "yes"]
  BY <1>8 DEF Handle, Acts
<1> QED BY <1>5, <1>6, <1>7, <1>8 DEF Next, vars, pageVars

(* A form without files is given none, and the files of a form that uploads *)
(* them first are uploaded when it is sent.                                *)
FilesFit ==
    /\ dialog # NoDialog /\ Form(dialog.form).files = "none" => dialog.files = {}
    /\ \A t \in Tasks :
         (Acts(t, "request") \/ Acts(t, "answer")) /\ Form(task[t].form).files # "after" =>
           task[t].files \subseteq task[t].up

LEMMA DialogIs ==
    ASSUME Typed
    PROVE  /\ dialog # NoDialog => dialog \in Dialog /\ dialog.form \in Forms
           /\ dialog.form = None <=> dialog = NoDialog
BY ConsoleAssumption DEF Typed, PageTyped, Dialog, NoDialog

LEMMA FilesFitStep ==
    ASSUME Typed, FilesFit, [Next]_vars
    PROVE  FilesFit'
<1>1. dialog' # NoDialog /\ Form(dialog'.form).files = "none" => dialog'.files = {}
  <2>1. ASSUME dialog # NoDialog, NEW d, dialog' = [dialog EXCEPT !.done = d]
        PROVE  dialog'.form = dialog.form /\ dialog'.files = dialog.files
    BY <2>1, DialogIs DEF Dialog
  <2>2. ASSUME NEW f, NEW id, NEW status, NEW chosen, Opened(f, id, status, chosen)
        PROVE  dialog'.files = {}
    BY <2>2 DEF Opened
  <2>3. ASSUME NEW k, NEW i, Pick(k, i)
        PROVE  dialog # NoDialog /\ dialog'.form = dialog.form /\ dialog'.files = dialog.files
    <3>1. dialog # NoDialog /\ dialog' = [dialog EXCEPT !.meant[k] = i]
      BY <2>3 DEF Pick
    <3> QED BY <3>1, DialogIs DEF Dialog
  <2>4. ASSUME NEW fs, ChooseFiles(fs)
        PROVE  Form(dialog'.form).files # "none"
    <3>1. /\ dialog # NoDialog /\ dialog' = [dialog EXCEPT !.files = fs]
          /\ Form(dialog.form).files # "none"
      BY <2>4 DEF ChooseFiles
    <3>2. dialog'.form = dialog.form
      BY <3>1, DialogIs DEF Dialog
    <3> QED BY <3>1, <3>2
  <2>5. ASSUME NEW t \in Tasks, task[t].op = "action", Handle(t),
               dialog.form = task[t].form, dialog' # dialog
        PROVE  dialog # NoDialog
    <3>1. task[t].at # "apply"
      BY <2>5 DEF Handle, Acts
    <3>2. task[t].form \in Forms
      BY <2>5, <3>1, TaskFields DEF Typed, TasksTyped, Action
    <3> QED BY <2>5, <3>2, DialogIs, ConsoleAssumption
  <2> QED BY <2>1, <2>2, <2>3, <2>4, <2>5, DialogChanges DEF FilesFit
<1>2. ASSUME NEW s \in Tasks, task'[s].op = "action", task'[s].at \in {"request", "answer"},
             Form(task'[s].form).files # "after"
      PROVE  task'[s].files \subseteq task'[s].up
  <2>1. CASE task'[s] = task[s]
    BY <1>2, <2>1 DEF FilesFit, Acts
  <2>2. CASE Submit(s)
    <3>1. dialog # NoDialog /\ dialog.form \in Forms
      BY <2>2, DialogIs DEF Submit
    <3>2. dialog.files = {}
      BY <1>2, <2>2, <3>1, SubmitIs, FormFiles DEF FilesFit
    <3> QED BY <2>2, <3>2, SubmitIs
  <2>3. CASE Continues(s)
    <3>1. task[s].op = "action"
      BY <2>3 DEF Continues, Action
    <3>2. \/ /\ task'[s].at = "request"
             /\ task[s].files \subseteq task[s].up
          \/ /\ task'[s].at = "answer"
             /\ task[s].at = "request"
      BY <1>2, <2>3 DEF Continues, Moves
    <3>3. task[s].files \subseteq task[s].up
      BY <1>2, <2>3, <3>1, <3>2 DEF Continues, SameAction, FilesFit, Acts
    <3>4. task'[s].files = task[s].files /\ task'[s].up = task[s].up
      BY <1>2, <2>3 DEF Continues, SameAction, Moves
    <3> QED BY <3>3, <3>4
  <2> QED BY <1>2, <2>1, <2>2, <2>3, ActionFrom
<1> QED BY <1>1, <1>2 DEF FilesFit, Acts

(* An action of the open dialog that the API has done and that will close it. *)
Finishing(t) ==
    /\ task[t].op = "action"
    /\ task[t].at \in {"answer", "presign", "put"}
    /\ task[t].did
    /\ task[t].form = dialog.form

Answering ==
    Quiet /\ dialog # NoDialog /\ dialog.done = "yes" /\ cut = "no" =>
      \E t \in Tasks : Finishing(t)

(* Uploads that come after the API has done the action, and what is left of *)
(* one that failed.                                                        *)
Afterwards ==
    /\ \A t \in Tasks :
         task[t].op = "action" /\ task[t].at \in {"presign", "put"} /\ task[t].did =>
           Form(task[t].form).files = "after"
    /\ \A t \in Tasks : Acts(t, "answer") => task[t].did
    /\ cut = "upload" => dialog # NoDialog /\ Form(dialog.form).files = "after"

(* The steps by which an action goes on keep what the API has done.         *)
LEMMA DidStays ==
    ASSUME Typed, NEW s \in Tasks, Continues(s)
    PROVE  /\ ~Handle(s) => task'[s].did = task[s].did
           /\ Handle(s) => task'[s].did
           /\ task'[s].at = "me" => CloseAfter(s)
<1>1. task \in [Tasks -> Work] /\ task[s] \in Action
  BY DEF Typed, TasksTyped, Continues
<1>2. ASSUME NEW j, Goes(s, j) PROVE task'[s] = j
  BY <1>1, <1>2
<1>3. ~Goes(s, Idle)
  BY <1>2 DEF Continues, Idle
<1>4. CASE Presign(s)
  <2>1. PICK f : task'[s] = [task[s] EXCEPT !.at = "put", !.up = @ \cup {f}]
    BY <1>2, <1>3, <1>4 DEF Presign, Failing
  <2> QED BY <1>1, <1>4, <2>1 DEF Action, Presign, Handle, Acts
<1>5. CASE Put(s)
  <2>1. \/ \E a \in {"presign", "request"} : task'[s] = [task[s] EXCEPT !.at = a]
        \/ CloseAfter(s) /\ task'[s] = [task[s] EXCEPT !.at = "me"]
    BY <1>2, <1>3, <1>5 DEF Put, Failing, CloseAfter
  <2> QED BY <1>1, <1>5, <2>1 DEF Action, Put, Handle, Acts
<1>6. CASE Handle(s)
  <2>1. PICK i : task'[s] = [task[s] EXCEPT !.at = "answer", !.did = TRUE, !.id = i]
    BY <1>2, <1>3, <1>6 DEF Handle, Failing
  <2> QED BY <1>1, <1>6, <2>1 DEF Action
<1>7. CASE Answer(s)
  <2>1. \/ task'[s] = [task[s] EXCEPT !.at = "presign"]
        \/ CloseAfter(s) /\ task'[s] = [task[s] EXCEPT !.at = "me"]
    BY <1>2, <1>7 DEF Answer, CloseAfter
  <2> QED BY <1>1, <1>7, <2>1 DEF Action, Answer, Handle, Acts
<1>8. CASE SessionStep(s) /\ Me(s) /\ Moves(s, "me", {"data"})
  <2>1. task'[s] = [task[s] EXCEPT !.at = "data"]
    BY <1>2, <1>8 DEF Me
  <2> QED BY <1>1, <1>8, <2>1 DEF Action, Moves, Handle, Acts
<1> QED BY <1>4, <1>5, <1>6, <1>7, <1>8 DEF Continues

(* The open dialog keeps its form until it closes.                         *)
LEMMA DialogKeeps ==
    ASSUME Typed, [Next]_vars, dialog # NoDialog, dialog' # NoDialog
    PROVE  /\ dialog'.form = dialog.form
           /\ dialog'.done = dialog.done \/ \E t \in Tasks : Handle(t) /\ dialog' # dialog
<1>1. dialog \in Dialog
  BY DialogIs
<1>2. ASSUME NEW k, NEW i, dialog' = [dialog EXCEPT !.meant[k] = i]
      PROVE  dialog'.form = dialog.form /\ dialog'.done = dialog.done
  BY <1>1, <1>2 DEF Dialog
<1>3. ASSUME NEW fs, dialog' = [dialog EXCEPT !.files = fs]
      PROVE  dialog'.form = dialog.form /\ dialog'.done = dialog.done
  BY <1>1, <1>3 DEF Dialog
<1>4. [dialog EXCEPT !.done = "yes"].form = dialog.form
  BY <1>1 DEF Dialog
<1>6. CASE UserStep
  <2>1. \A f : ~(OpenCreate(f) \/ \E i \in Ids : OpenEdit(f, i) \/ OpenStatus(f, i))
    BY DEF OpenCreate, OpenEdit, OpenStatus, NothingOpen
  <2>2. \/ UNCHANGED dialog
        \/ \E k, i : dialog' = [dialog EXCEPT !.meant[k] = i]
        \/ \E fs : dialog' = [dialog EXCEPT !.files = fs]
    BY <1>6, <2>1 DEF UserStep, Logout, ChangeMonth, Pick, ChooseFiles, Close, CloseAttachments
  <2> QED BY <1>2, <1>3, <2>2
<1>7. CASE ~UserStep
  <2>1. OtherStep => UNCHANGED dialog
    BY DEF OtherStep, OthersAdd, OthersStep, OthersDelete, WindowEnds,
      Expire, RestartApi
  <2>2. ASSUME NEW t \in Tasks, TaskStep(t), ~Handle(t)
        PROVE  UNCHANGED dialog
    BY <2>2 DEF TaskStep, SessionStep, ResetStep, ReloadStep, Submit, Presign, Put,
      Answer, CloseAfter, Lose, ReadData, ApplyData, OpenAttachments,
      AttachmentsListed, OpenPreview, Previewed, Views
  <2>3. ASSUME NEW t \in Tasks, Handle(t)
        PROVE  UNCHANGED dialog \/ dialog' = [dialog EXCEPT !.done = "yes"]
    BY <2>3 DEF Handle
  <2> QED BY <1>4, <1>7, <2>1, <2>2, <2>3 DEF Next, vars, pageVars
<1> QED BY <1>6, <1>7

(* What the page notes of an action that ends where it is.                  *)
LEMMA Marked ==
    ASSUME [Next]_vars, dialog # NoDialog, dialog' # NoDialog
    PROVE  /\ cut' = "no" => cut = "no" /\ \A t \in Tasks : Finishing(t) => task'[t] # Idle
           /\ cut' \in {cut, "answer", "upload"}
           /\ cut' = "upload" =>
                \/ cut = "upload"
                \/ \E t \in Tasks : Finishing(t) /\ task[t].at \in {"presign", "put"}
<1>1. CASE UNCHANGED vars
  BY <1>1 DEF vars, sessionVars, Finishing, Idle
<1>2. CASE Mark
  BY <1>2 DEF Mark, Fails, Finishing, Acts
<1> QED BY <1>1, <1>2 DEF Next

LEMMA AnsweringStep ==
    ASSUME Typed, Answering, [Next]_vars
    PROVE  Answering'
<1>1. SUFFICES ASSUME Quiet', dialog' # NoDialog, dialog'.done = "yes", cut' = "no"
               PROVE  \E t \in Tasks : /\ task'[t].op = "action"
                                       /\ task'[t].at \in {"answer", "presign", "put"}
                                       /\ task'[t].did
                                       /\ task'[t].form = dialog'.form
  BY DEF Answering, Finishing
<1>2. Quiet
  BY <1>1, QuietBefore
<1>3. dialog # NoDialog
  <2> SUFFICES ASSUME dialog = NoDialog PROVE FALSE
    OBVIOUS
  <2>1. ASSUME NEW f, NEW id, NEW status, NEW chosen, Opened(f, id, status, chosen)
        PROVE  FALSE
    BY <1>1, <2>1 DEF Opened
  <2>2. ASSUME NEW k, NEW i, Pick(k, i) PROVE FALSE
    BY <2>2 DEF Pick
  <2>3. ASSUME NEW fs, ChooseFiles(fs) PROVE FALSE
    BY <2>3 DEF ChooseFiles
  <2>4. ASSUME NEW t \in Tasks, Handle(t), task[t].op = "action", dialog.form = task[t].form
        PROVE  FALSE
    <3>1. task[t] \in Action
      BY <2>4, TaskFields DEF Handle, Acts, Typed, TasksTyped
    <3> QED BY <2>4, <3>1, DialogIs, ConsoleAssumption DEF Action
  <2> QED BY <1>1, <2>1, <2>2, <2>3, <2>4, DialogChanges
<1>4. /\ cut = "no" /\ \A t \in Tasks : Finishing(t) => task'[t] # Idle
      /\ dialog'.form = dialog.form
      /\ dialog'.done = dialog.done \/ \E t \in Tasks : Handle(t) /\ dialog' # dialog
  BY <1>1, <1>3, Marked, DialogKeeps
<1>5. task \in [Tasks -> Work]
  BY DEF Typed, TasksTyped
<1>6. CASE dialog.done = "yes"
  <2>1. PICK t \in Tasks : Finishing(t)
    BY <1>2, <1>3, <1>4, <1>6 DEF Answering
  <2>2. CASE task'[t] = task[t]
    BY <1>4, <2>1, <2>2 DEF Finishing
  <2>3. CASE task'[t] # task[t]
    <3>1. ~\E r \in Tasks : ReloadStep(r)
      BY <1>1 DEF ReloadStep
    <3>2. Outcome(t) /\ task'[t] # Idle
      BY <1>4, <2>1, <2>3, <3>1, OwnStep, TaskOutcome
    <3>3. Continues(t)
      <4>1. task[t] # Idle /\ task[t].op = "action" /\ task[t].at # "data"
        BY <2>1 DEF Finishing, Idle
      <4>3. /\ ~\E u \in scene.users, right \in scene.rights : SubmitLogin(t, u, right)
            /\ ~Refresh(t) /\ ~Submit(t) /\ ~OpenPreview(t)
            /\ ~\E k \in scene.views, i \in Ids : OpenAttachments(t, k, i)
        BY <4>1, Zenon DEF Start, SubmitLogin, Refresh, Submit, OpenPreview, OpenAttachments
      <4>4. ~AssertLoginAllowed(t) /\ ~Compare(t) /\ ~LoginAnswer(t) /\ ~ReadData(t)
        BY <4>1 DEF AssertLoginAllowed, Compare, LoginAnswer, ReadData
      <4> QED BY <3>2, <4>1, <4>3, <4>4 DEF Outcome
    <3>4. ~CloseAfter(t)
      BY <1>1, <2>1 DEF CloseAfter, Finishing
    <3>5. ~Handle(t) /\ task'[t].at # "me"
      BY <2>1, <3>3, <3>4, DidStays DEF Handle, Acts, Finishing
    <3>6. task'[t].did /\ task'[t].form = task[t].form /\ task'[t].op = "action"
      BY <2>1, <3>3, <3>5, DidStays DEF Finishing, Continues, SameAction
    <3>7. task'[t].at \in {"presign", "put"} \/ task'[t].at = "request"
      BY <2>1, <3>3, <3>5 DEF Finishing, Continues, Moves
    <3>8. task'[t].at # "request"
      <4> SUFFICES ASSUME task'[t].at = "request" PROVE FALSE
        OBVIOUS
      <4>1. Put(t)
        BY <2>1, <3>3, <3>5 DEF Continues, Moves
      <4>2. task'[t] # Idle /\ task[t] \in Action /\ task[t].did
        BY <2>1, <3>2, <3>3 DEF Continues, Finishing
      <4>3. \A a : Goes(t, [task[t] EXCEPT !.at = a]) => task'[t].at = a
        BY <1>5, <4>2 DEF Action
      <4>4. Goes(t, Idle) => task'[t] = Idle
        BY <1>5
      <4> QED BY <4>1, <4>2, <4>3, <4>4 DEF Put, Failing, CloseAfter
    <3> QED BY <1>4, <2>1, <3>6, <3>7, <3>8 DEF Finishing
  <2> QED BY <2>2, <2>3
<1>7. ASSUME NEW t \in Tasks, Handle(t), dialog' # dialog
      PROVE  /\ task'[t].op = "action"
             /\ task'[t].at = "answer"
             /\ task'[t].did
             /\ task'[t].form = dialog'.form
  <2>1. task[t] \in Action /\ task[t].form = dialog.form
    BY <1>7, TaskFields DEF Handle, Acts, Typed, TasksTyped
  <2>2. PICK i : Goes(t, [task[t] EXCEPT !.at = "answer", !.did = TRUE, !.id = i])
    BY <1>7 DEF Handle
  <2>3. task'[t] = [task[t] EXCEPT !.at = "answer", !.did = TRUE, !.id = i]
    BY <1>5, <2>2
  <2> QED BY <1>4, <2>1, <2>3 DEF Action
<1> QED BY <1>1, <1>4, <1>6, <1>7

LEMMA AfterwardsStep ==
    ASSUME Typed, FilesFit, Afterwards, [Next]_vars
    PROVE  Afterwards'
<1>1. ASSUME NEW s \in Tasks, task'[s].op = "action",
             task'[s].at \in {"presign", "put", "answer"}
      PROVE  /\ task'[s].at = "answer" => task'[s].did
             /\ task'[s].at # "answer" /\ task'[s].did => Form(task'[s].form).files = "after"
  <2>1. CASE task'[s] = task[s]
    BY <1>1, <2>1 DEF Afterwards, Acts
  <2>2. CASE Submit(s)
    <3>1. ~task'[s].did /\ task'[s].at # "answer"
      BY <2>2, SubmitIs
    <3> QED BY <3>1
  <2>3. CASE Continues(s)
    <3>1. task[s].op = "action" /\ task'[s].form = task[s].form
      BY <2>3 DEF Continues, Action, SameAction
    <3>2. CASE task'[s].at = "answer"
      <4>1. Handle(s)
        BY <2>3, <3>2 DEF Continues, Moves
      <4> QED BY <2>3, <3>2, <4>1, DidStays
    <3>3. CASE task'[s].at \in {"presign", "put"}
      <4>1. task'[s].did = task[s].did
        BY <2>3, <3>3, DidStays DEF Continues, Moves, Handle, Acts, Presign, Put, Answer
      <4>2. CASE task[s].at \in {"presign", "put"}
        BY <3>1, <3>3, <4>1, <4>2 DEF Afterwards
      <4>3. CASE task[s].at = "answer"
        <5>1. ~(task[s].files \subseteq task[s].up)
          BY <2>3, <3>3, <4>3 DEF Continues, Moves
        <5> QED BY <3>1, <3>3, <4>3, <5>1 DEF FilesFit, Acts
      <4> QED BY <2>3, <3>3, <4>2, <4>3 DEF Continues, Moves
    <3> QED BY <1>1, <3>2, <3>3
  <2> QED BY <1>1, <2>1, <2>2, <2>3, ActionFrom
<1>2. cut' = "upload" => dialog' # NoDialog /\ Form(dialog'.form).files = "after"
  <2>1. CASE dialog # NoDialog /\ dialog' # NoDialog
    <3>1. ASSUME NEW t \in Tasks, Finishing(t), task[t].at \in {"presign", "put"}
          PROVE  Form(dialog.form).files = "after"
      BY <3>1 DEF Afterwards, Finishing
    <3> QED BY <2>1, <3>1, Marked, DialogKeeps DEF Afterwards
  <2>2. CASE dialog = NoDialog \/ dialog' = NoDialog
    BY <2>2 DEF Next, Mark, vars, pageVars, Afterwards
  <2> QED BY <2>1, <2>2
<1> QED BY <1>1, <1>2 DEF Afterwards, Acts

(* For a user who waits: when nothing is under way and a dialog is open     *)
(* whose action the API has done, then page.tsx did not get the answer, or  *)
(* an upload that follows it failed.  Whatever else fails, is refused, runs *)
(* out or is restarted, a dialog that stays open has not been done.        *)
THEOREM OpenDialogsAreUndone ==
    Spec => []OpenMeansUndone
<1> DEFINE Inv == Sound /\ FilesFit /\ Answering /\ Afterwards
<1>1. Init => Inv
  <2>1. Init => FilesFit /\ Answering /\ Afterwards
    BY DEF Init, FilesFit, Answering, Afterwards, Acts, Idle
  <2> QED BY <2>1, InitSound
<1>2. Inv /\ [Next]_vars => Inv'
  BY SoundStep, FilesFitStep, AnsweringStep, AfterwardsStep DEF Sound
<1>3. Inv => OpenMeansUndone
  BY DEF Sound, Typed, Answering, Afterwards, Finishing, OpenMeansUndone, Calm, Idle
<1> HIDE DEF Inv
<1> QED BY <1>1, <1>2, <1>3, PTL DEF Spec

-----------------------------------------------------------------------------
(* What the page does is what its user chose.                              *)

(* The user waits, and no session has ended.                               *)
Orderly == Quiet /\ expired = {}

LEMMA OrderlyBefore ==
    ASSUME Typed, [Next]_vars, Orderly'
    PROVE  Orderly
<1>1. UserStep => UNCHANGED expired
  BY DEF UserStep, Logout, ChangeMonth, OpenCreate, OpenEdit, OpenStatus,
    Opened, Pick, ChooseFiles, Close, CloseAttachments
<1>2. OtherStep => expired \subseteq expired'
  BY DEF OtherStep, OthersAdd, OthersStep, OthersDelete, WindowEnds, Expire, RestartApi
<1>3. ASSUME NEW t \in Tasks, TaskStep(t)
      PROVE  UNCHANGED expired
  BY <1>3 DEF TaskStep, SessionStep, SubmitLogin, Start, AssertLoginAllowed,
    Compare, LoginAnswer, Refresh, Me, ResetStep, Unauthorized, ReloadStep, Reload,
    Submit, Presign, Put, Handle, Answer, Lose, ReadData, ApplyData,
    OpenAttachments, AttachmentsListed, OpenPreview, Previewed, Views
<1>4. expired \subseteq expired'
  BY <1>1, <1>2, <1>3 DEF Next, vars, sessionVars
<1> QED BY <1>4, QuietBefore DEF Orderly

(* A dialog means the rows that are selected where its form sends rows, and *)
(* nothing lies over it; the attachments are those of the selected row.     *)
Chosen ==
    /\ dialog # NoDialog =>
         /\ viewer.on = None
         /\ \A k \in Kinds : dialog.meant[k] =
              IF k \in Form(dialog.form).sends THEN selected[k] ELSE 0
    /\ viewer.on # None =>
         /\ selected[viewer.on] = viewer.row
         /\ viewer.row # 0
         /\ viewer.list[viewer.on] \in {0, viewer.row}
         /\ viewer.preview \in {None, <<viewer.on, viewer.row>>}
    /\ token = None => dialog = NoDialog /\ viewer.on = None

(* The dialog of an action is open until the answer; then nothing is.       *)
AboutChosen(t) ==
    /\ task[t].op = "action" /\ task[t].at \in {"presign", "put", "request", "answer"} =>
         dialog.form = task[t].form
    /\ task[t].op \in {"refresh", "action"} /\ task[t].at \in {"me", "data", "apply"} =>
         dialog = NoDialog /\ viewer.on = None
    /\ task[t].op = "view" => viewer.on = task[t].kind /\ viewer.row = task[t].id
    /\ task[t].op = "action" /\ task[t].at # "apply" => task[t].refs = task[t].meant

Meant == Orderly => Chosen /\ \A t \in Tasks : AboutChosen(t)

LEMMA IdleIsMeant ==
    ASSUME NEW s \in Tasks, task'[s] = Idle
    PROVE  AboutChosen(s)'
BY DEF AboutChosen, Idle

LEMMA NothingViewed ==
    ASSUME Chosen, NothingOpen
    PROVE  dialog = NoDialog /\ viewer.on = None
BY DEF Chosen, NothingOpen, Viewing

LEMMA OpenedMeant ==
    ASSUME Typed, Chosen, NothingOpen, token # None,
           NEW f, NEW id, NEW status, NEW chosen, Opened(f, id, status, chosen)
    PROVE  Chosen'
<1>1. /\ dialog'.form = f /\ viewer' = viewer /\ viewer.on = None /\ token' = token
      /\ selected' = chosen
      /\ \A k \in Kinds : dialog'.meant[k] = IF k \in Form(f).sends THEN chosen[k] ELSE 0
  BY NothingViewed DEF Opened
<1> QED BY <1>1 DEF Chosen

LEMMA UserMeant ==
    ASSUME Typed, Settled, Chosen, Orderly', UserStep
    PROVE  Chosen' /\ \A s \in Tasks : AboutChosen(s)'
<1>1. Click /\ UNCHANGED task
  BY DEF UserStep, Logout, ChangeMonth, OpenCreate, OpenEdit, OpenStatus,
    Opened, Pick, ChooseFiles, Close, CloseAttachments
<1>2. \A s \in Tasks : AboutChosen(s)'
  BY <1>1, ClicksWait, IdleIsMeant DEF Orderly, Calm
<1>3. ASSUME Logout, NothingOpen, UNCHANGED <<dialog, viewer>>
      PROVE  Chosen'
  BY <1>3, NothingViewed DEF Chosen
<1>4. ASSUME NEW m, ChangeMonth(m), UNCHANGED pageVars
      PROVE  Chosen'
  BY <1>4 DEF ChangeMonth, Chosen
<1>5. ASSUME NEW f \in scene.forms,
             OpenCreate(f) \/ \E i \in Ids : OpenEdit(f, i) \/ OpenStatus(f, i)
      PROVE  Chosen'
  <2>1. ASSUME NEW i \in Ids, OpenStatus(f, i) PROVE token # None
    <3>1. f \in Forms /\ Form(f).saves \in Kinds
      BY SceneIs, FormKinds DEF Typed
    <3>2. NextStatus(Form(f).saves, seen[Form(f).saves][i]) # 0
      BY <2>1 DEF OpenStatus
    <3>3. seen[Form(f).saves][i] # 0
      BY <3>2 DEF NextStatus
    <3> QED BY <2>1, <3>1, <3>3 DEF Settled, Nothing
  <2>2. NothingOpen /\ \E id, status, chosen : Opened(f, id, status, chosen)
    BY <1>5, Zenon DEF OpenCreate, OpenEdit, OpenStatus
  <2>3. token # None
    BY <1>5, <2>1 DEF OpenCreate, OpenEdit, LoggedIn
  <2> QED BY <2>2, <2>3, OpenedMeant
<1>6. ASSUME NEW k \in Kinds, NEW i \in Ids, Pick(k, i)
      PROVE  Chosen'
  <2>1. /\ dialog # NoDialog /\ dialog' = [dialog EXCEPT !.meant[k] = i]
        /\ k \in Form(dialog.form).sends
        /\ selected' = [selected EXCEPT ![k] = i] /\ UNCHANGED <<viewer, token>>
    BY <1>6 DEF Pick
  <2>2. dialog \in Dialog /\ selected \in [Kinds -> 0 .. MaxRows]
    BY <2>1, DialogIs DEF Typed, PageTyped
  <2>3. /\ dialog'.form = dialog.form
        /\ \A j \in Kinds : dialog'.meant[j] = IF j = k THEN i ELSE dialog.meant[j]
    BY <2>1, <2>2 DEF Dialog
  <2>4. \A j \in Kinds : selected'[j] = IF j = k THEN i ELSE selected[j]
    BY <2>1, <2>2
  <2>5. viewer'.on = None /\ token' # None
    BY <2>1 DEF Chosen
  <2>6. \A j \in Kinds : dialog'.meant[j] =
          IF j \in Form(dialog'.form).sends THEN selected'[j] ELSE 0
    BY <2>1, <2>3, <2>4 DEF Chosen
  <2> QED BY <2>5, <2>6 DEF Chosen
<1>7. ASSUME NEW fs \in Choices, ChooseFiles(fs)
      PROVE  Chosen'
  <2>1. /\ dialog # NoDialog /\ dialog' = [dialog EXCEPT !.files = fs]
        /\ UNCHANGED <<selected, viewer, token>>
    BY <1>7 DEF ChooseFiles
  <2>2. dialog'.form = dialog.form /\ dialog'.meant = dialog.meant
    BY <2>1, DialogIs DEF Dialog
  <2> QED BY <2>1, <2>2 DEF Chosen
<1>8. ASSUME Close PROVE Chosen'
  BY <1>8 DEF Close, Chosen
<1>9. ASSUME CloseAttachments PROVE Chosen'
  <2>1. /\ viewer.on # None /\ UNCHANGED <<dialog, selected, token>>
        /\ viewer' = [viewer EXCEPT !.on = None, !.row = 0, !.list[viewer.on] = 0,
                                    !.preview = None]
    BY <1>9 DEF CloseAttachments, Viewing
  <2>2. viewer'.on = None
    BY <2>1 DEF Typed, PageTyped
  <2> QED BY <2>1, <2>2 DEF Chosen
<1>10. Chosen'
  BY <1>3, <1>4, <1>5, <1>6, <1>7, <1>8, <1>9 DEF UserStep
<1> QED BY <1>2, <1>10

(* A task that starts has waited for the page, and the others are idle.      *)
LEMMA OthersIdle ==
    ASSUME Typed, OneTask, Quiet, Quiet', NEW t \in Tasks, TaskStep(t),
           NEW s \in Tasks, s # t
    PROVE  task'[s] = Idle
<1>1. CASE ReloadStep(t)
  BY <1>1 DEF ReloadStep, Reload
<1>2. CASE task[t] # Idle /\ ~ReloadStep(t)
  <2>1. task[s] = Idle
    BY <1>2 DEF OneTask
  <2> QED BY <1>2, <2>1, OtherTasksStay
<1>3. CASE task[t] = Idle /\ ~ReloadStep(t)
  <2>1. task[t].op = "idle"
    BY <1>3 DEF Idle
  <2>2. Click
    BY <1>3, <2>1 DEF TaskStep, SessionStep, SubmitLogin, Start, AssertLoginAllowed,
      Compare, LoginAnswer, Refresh, Me, ResetStep, Unauthorized, Submit, Presign, Put,
      Handle, Answer, Acts, Lose, ReadData, ApplyData, OpenAttachments,
      AttachmentsListed, OpenPreview, Previewed, Views
  <2>3. task[s] = Idle
    BY <2>2, ClicksWait DEF Calm
  <2> QED BY <1>3, <2>3, OtherTasksStay
<1> QED BY <1>1, <1>2, <1>3

(* The answer closes the dialog of its action.                             *)
LEMMA ClosedAfter ==
    ASSUME Typed, Chosen, NEW t \in Tasks, task[t] \in Action,
           dialog.form = task[t].form, CloseAfter(t)
    PROVE  dialog' = NoDialog /\ viewer' = viewer /\ viewer.on = None
<1>1. dialog # NoDialog
  BY DialogIs, ConsoleAssumption DEF Action
<1> QED BY <1>1 DEF CloseAfter, Chosen

(* What an action does with the page, when its user waits.                  *)
LEMMA ContinuesMeant ==
    ASSUME Typed, Chosen, NEW t \in Tasks, AboutChosen(t), Continues(t)
    PROVE  AboutChosen(t)'
<1>1. /\ task[t] \in Action /\ task[t].op = "action" /\ task'[t].op = "action"
      /\ task \in [Tasks -> Work]
      /\ SameAction(t)
  BY DEF Continues, Action, Typed, TasksTyped
<1>2. task[t].at # "apply" /\ task[t].refs = task[t].meant
  BY <1>1 DEF Action, AboutChosen
<1>3. ASSUME NEW j, Goes(t, j) PROVE task'[t] = j
  BY <1>1, <1>3
<1>4. ASSUME task'[t].at \in {"presign", "put", "request", "answer"} => dialog'.form = task[t].form,
             task'[t].at \in {"me", "data"} => dialog' = NoDialog /\ viewer'.on = None,
             task'[t].at \in {"presign", "put", "request", "answer", "me", "data"}
      PROVE  AboutChosen(t)'
  BY <1>1, <1>2, <1>4 DEF AboutChosen, SameAction
<1>5. CASE Presign(t) /\ Moves(t, "presign", {"put"})
  <2>1. UNCHANGED <<dialog, viewer>>
    BY <1>5 DEF Presign
  <2> QED BY <1>1, <1>4, <1>5, <2>1 DEF Moves, AboutChosen
<1>6. CASE Put(t) /\ Moves(t, "put", {"presign", "request", "me"})
  <2>1. dialog.form = task[t].form
    BY <1>1, <1>6 DEF Moves, AboutChosen
  <2>2. \/ UNCHANGED <<dialog, viewer>> /\ task'[t].at # "me"
        \/ CloseAfter(t) /\ task'[t].at = "me"
    <3>1. ~Goes(t, Idle)
      BY <1>1, <1>3 DEF Idle
    <3>2. \/ UNCHANGED <<dialog, viewer>> /\ Goes(t, [task[t] EXCEPT !.at = "presign"])
          \/ UNCHANGED <<dialog, viewer>> /\ Goes(t, [task[t] EXCEPT !.at = "request"])
          \/ CloseAfter(t) /\ Goes(t, [task[t] EXCEPT !.at = "me"])
      BY <1>6, <3>1 DEF Put, Failing, CloseAfter
    <3>3. \A at : [task[t] EXCEPT !.at = at].at = at
      BY <1>1 DEF Action
    <3> QED BY <1>3, <3>2, <3>3
  <2> QED BY <1>1, <1>4, <1>6, <2>1, <2>2, ClosedAfter DEF Moves
<1>7. CASE Handle(t) /\ Moves(t, "request", {"answer"})
  <2>1. dialog.form = task[t].form
    BY <1>1, <1>7 DEF Moves, AboutChosen
  <2>2. dialog \in Dialog
    BY <1>1, <2>1, DialogIs, ConsoleAssumption DEF Action
  <2>3. dialog' = dialog \/ dialog' = [dialog EXCEPT !.done = "yes"]
    BY <1>7 DEF Handle
  <2>4. dialog'.form = dialog.form
    BY <2>2, <2>3 DEF Dialog
  <2> QED BY <1>4, <1>7, <2>1, <2>4 DEF Moves
<1>8. CASE Answer(t) /\ Moves(t, "answer", {"presign", "me"})
  <2>1. dialog.form = task[t].form
    BY <1>1, <1>8 DEF Moves, AboutChosen
  <2>2. \/ UNCHANGED <<dialog, viewer>> /\ task'[t].at # "me"
        \/ CloseAfter(t) /\ task'[t].at = "me"
    <3>1. \/ UNCHANGED <<dialog, viewer>> /\ Goes(t, [task[t] EXCEPT !.at = "presign"])
          \/ CloseAfter(t) /\ Goes(t, [task[t] EXCEPT !.at = "me"])
      BY <1>8 DEF Answer, CloseAfter
    <3>2. \A at : [task[t] EXCEPT !.at = at].at = at
      BY <1>1 DEF Action
    <3> QED BY <1>3, <3>1, <3>2
  <2> QED BY <1>1, <1>4, <1>8, <2>1, <2>2, ClosedAfter DEF Moves
<1>9. CASE SessionStep(t) /\ Moves(t, "me", {"data"})
  <2>1. UNCHANGED <<dialog, viewer>>
    BY <1>9 DEF SessionStep
  <2> QED BY <1>1, <1>4, <1>9, <2>1 DEF Moves, AboutChosen
<1> QED BY <1>5, <1>6, <1>7, <1>8, <1>9 DEF Continues

LEMMA TaskIsMeant ==
    ASSUME Typed, Settled, Chosen, expired = {}, NEW t \in Tasks, AboutChosen(t), TaskStep(t)
    PROVE  AboutChosen(t)'
<1>1. task \in [Tasks -> Work] /\ task[t] \in Work
  BY DEF Typed, TasksTyped
<1>2. ASSUME NEW j, Goes(t, j) PROVE task'[t] = j
  BY <1>1, <1>2
<1>3. CASE ReloadStep(t)
  <2>1. dialog' = NoDialog /\ viewer'.on = None
    BY <1>3 DEF ReloadStep, NoView
  <2>2. task'[t] = Idle \/ task'[t].op = "refresh"
    BY <1>3 DEF ReloadStep, Reload
  <2> QED BY <2>1, <2>2, IdleIsMeant DEF AboutChosen
<1>4. CASE Submit(t)
  <2>1. dialog \in Dialog /\ dialog' = dialog
    BY <1>4, DialogIs DEF Submit
  <2>2. dialog'.form = dialog.form
    BY <2>1
  <2>3. /\ task'[t] \in Action
        /\ task'[t].form = dialog.form
        /\ task'[t].refs = [k \in Kinds |-> IF k \in Form(dialog.form).sends
                                            THEN selected[k] ELSE 0]
        /\ task'[t].meant = dialog.meant
        /\ task'[t].at \in {"presign", "request"}
    BY <1>4, SubmitIs
  <2>4. task'[t].refs = task'[t].meant
    <3>1. /\ dialog.meant \in [Kinds -> 0 .. MaxRows]
          /\ \A k \in Kinds : dialog.meant[k] =
               IF k \in Form(dialog.form).sends THEN selected[k] ELSE 0
      BY <2>1, <1>4 DEF Dialog, Chosen, Submit
    <3> QED BY <2>3, <3>1
  <2>5. task'[t].op = "action"
    BY <2>3 DEF Action
  <2> QED BY <2>2, <2>3, <2>4, <2>5 DEF AboutChosen
<1>5. CASE /\ SessionStep(t) /\ (LoginAnswer(t) \/ (Refresh(t) /\ NothingOpen) \/ Me(t))
           /\ task'[t].op = "refresh"
  <2>1. UNCHANGED <<dialog, viewer>>
    BY <1>5 DEF SessionStep
  <2>2. CASE LoginAnswer(t)
    <3>1. token = None
      BY <2>2 DEF LoginAnswer, Settled
    <3> QED BY <1>5, <2>1, <3>1 DEF Chosen, AboutChosen
  <2>3. CASE NothingOpen
    BY <1>5, <2>1, <2>3, NothingViewed DEF AboutChosen
  <2>4. CASE Me(t)
    BY <1>5, <2>1, <2>4 DEF Me, AboutChosen
  <2> QED BY <1>5, <2>2, <2>3, <2>4
<1>6. CASE ReadData(t)
  <2>1. /\ UNCHANGED <<dialog, viewer>>
        /\ task[t].op \in {"refresh", "action"} /\ task[t].at = "data"
    BY <1>6 DEF ReadData
  <2>2. task'[t].op = task[t].op /\ task'[t].at = "apply"
    BY <1>1, <1>6 DEF ReadData
  <2> QED BY <2>1, <2>2 DEF AboutChosen
<1>7. ASSUME NEW k \in scene.views, NEW i \in Ids, OpenAttachments(t, k, i)
      PROVE  AboutChosen(t)'
  <2>1. task'[t] = [op |-> "view", at |-> "list", kind |-> k, id |-> i, token |-> token]
    BY <1>2, <1>7, Zenon DEF OpenAttachments, Start
  <2>2. viewer' = [viewer EXCEPT !.on = k, !.row = i, !.list[k] = 0, !.preview = None]
    BY <1>7 DEF OpenAttachments
  <2>3. viewer'.on = k /\ viewer'.row = i
    BY <2>2 DEF Typed, PageTyped
  <2> QED BY <2>1, <2>3 DEF AboutChosen
<1>8. CASE OpenPreview(t)
  <2>1. task'[t] = [op |-> "view", at |-> "preview", kind |-> viewer.on,
                    id |-> viewer.list[viewer.on], token |-> token]
    BY <1>2, <1>8, Zenon DEF OpenPreview, Start
  <2>2. viewer' = viewer /\ viewer.on # None /\ viewer.list[viewer.on] # 0
    BY <1>8 DEF OpenPreview, Viewing
  <2>3. viewer.list[viewer.on] = viewer.row
    BY <2>2 DEF Chosen
  <2> QED BY <2>1, <2>2, <2>3 DEF AboutChosen
<1>9. CASE Outcome(t) /\ ~Submit(t) /\ ~ReadData(t) /\ ~OpenPreview(t)
           /\ ~\E k \in scene.views, i \in Ids : OpenAttachments(t, k, i)
  <2>1. \/ task'[t] = Idle
        \/ task'[t].op = "login"
        \/ Continues(t)
        \/ /\ SessionStep(t) /\ (LoginAnswer(t) \/ (Refresh(t) /\ NothingOpen) \/ Me(t))
           /\ task'[t].op = "refresh"
    BY <1>9 DEF Outcome
  <2>2. task'[t].op = "login" => AboutChosen(t)'
    BY DEF AboutChosen
  <2> QED BY <1>5, <2>1, <2>2, IdleIsMeant, ContinuesMeant
<1> QED BY <1>3, <1>4, <1>6, <1>7, <1>8, <1>9, TaskOutcome

LEMMA PageIsMeant ==
    ASSUME Typed, Settled, Chosen, expired = {}, NEW t \in Tasks, AboutChosen(t), TaskStep(t)
    PROVE  Chosen'
<1>1. task[t] \in Work /\ viewer.on \in Kinds \cup {None}
  BY DEF Typed, TasksTyped, PageTyped
<1>2. ASSUME UNCHANGED <<dialog, selected, viewer>>, token' = token \/ token' # None
      PROVE  Chosen'
  BY <1>2 DEF Chosen
<1>3. ASSUME dialog' = NoDialog, viewer'.on = None
      PROVE  Chosen'
  BY <1>3 DEF Chosen
<1>4. ASSUME NEW d, dialog # NoDialog, dialog' = [dialog EXCEPT !.done = d],
             UNCHANGED <<selected, viewer, token>>
      PROVE  Chosen'
  <2>1. dialog'.form = dialog.form /\ dialog'.meant = dialog.meant
    BY <1>4, DialogIs DEF Dialog
  <2> QED BY <1>4, <2>1 DEF Chosen
<1>5. CASE SessionStep(t)
  <2>1. UNCHANGED <<dialog, selected, viewer>>
    BY <1>5 DEF SessionStep
  <2>2. CASE LoginAnswer(t)
    <3>1. token = None
      BY <2>2 DEF LoginAnswer, Settled
    <3> QED BY <1>3, <2>1, <3>1 DEF Chosen
  <2>3. CASE ~LoginAnswer(t)
    <3>1. token' = token
      BY <1>5, <2>3 DEF SessionStep, SubmitLogin, Start, AssertLoginAllowed, Compare,
        Refresh, Me
    <3> QED BY <1>2, <2>1, <3>1
  <2> QED BY <2>2, <2>3
<1>6. CASE ResetStep(t)
  BY <1>6 DEF ResetStep, Unauthorized
<1>7. CASE ReloadStep(t)
  BY <1>3, <1>7 DEF ReloadStep, NoView
<1>9. CASE Submit(t) \/ Presign(t) \/ Lose(t) \/ ReadData(t) \/ OpenPreview(t)
  BY <1>2, <1>9 DEF Submit, Presign, Lose, ReadData, OpenPreview
<1>10. CASE Put(t) \/ Answer(t)
  <2>1. task[t] \in Action /\ task[t].op = "action" /\ task[t].at \in {"put", "answer"}
    BY <1>1, <1>10, TaskFields DEF Put, Answer, Acts
  <2>2. dialog.form = task[t].form
    BY <2>1 DEF AboutChosen
  <2>3. UNCHANGED <<dialog, selected, viewer, token>> \/ CloseAfter(t)
    BY <1>10 DEF Put, Answer
  <2> QED BY <1>2, <1>3, <2>1, <2>2, <2>3, ClosedAfter
<1>11. CASE Handle(t)
  <2>1. UNCHANGED <<selected, viewer, token>>
    BY <1>11 DEF Handle
  <2>2. \/ UNCHANGED dialog
        \/ /\ task[t].op = "action" /\ task[t].at # "apply"
           /\ dialog.form = task[t].form
           /\ \E d : dialog' = [dialog EXCEPT !.done = d]
    BY <1>11 DEF Handle, Acts
  <2>3. CASE UNCHANGED dialog
    BY <1>2, <2>1, <2>3
  <2>4. CASE dialog' # dialog
    <3>1. task[t].form \in Forms
      BY <1>1, <2>2, <2>4, TaskFields DEF Action
    <3>2. dialog # NoDialog
      BY <2>2, <2>4, <3>1, DialogIs, ConsoleAssumption
    <3> QED BY <1>4, <2>1, <2>2, <2>4, <3>2
  <2> QED BY <2>3, <2>4
<1>12. CASE ApplyData(t)
  <2>1. dialog = NoDialog /\ viewer.on = None /\ UNCHANGED <<dialog, viewer>>
    BY <1>12 DEF ApplyData, AboutChosen
  <2> QED BY <1>3, <2>1
<1>13. ASSUME NEW k \in scene.views, NEW i \in Ids, OpenAttachments(t, k, i)
       PROVE  Chosen'
  <2>1. /\ selected' = [selected EXCEPT ![k] = i]
        /\ viewer' = [viewer EXCEPT !.on = k, !.row = i, !.list[k] = 0, !.preview = None]
        /\ token # None /\ UNCHANGED <<token, dialog>>
        /\ NothingOpen
    BY <1>13 DEF OpenAttachments, LoggedIn
  <2>2. k \in Kinds
    BY SceneIs DEF Typed
  <2>3. /\ viewer'.on = k /\ viewer'.row = i /\ viewer'.list[k] = 0
        /\ viewer'.preview = None /\ selected'[k] = i
    BY <2>1, <2>2 DEF Typed, PageTyped
  <2>4. i # 0 /\ dialog' = NoDialog
    BY <2>1, NothingViewed, ConsoleAssumption DEF Ids
  <2> QED BY <2>1, <2>3, <2>4 DEF Chosen
<1>14. CASE AttachmentsListed(t) \/ Previewed(t)
  <2>1. /\ task[t].op = "view" /\ task[t] \in Looking
        /\ UNCHANGED <<dialog, selected, token>>
    BY <1>1, <1>14, TaskFields DEF AttachmentsListed, Previewed, Views
  <2>2. viewer.on = task[t].kind /\ viewer.row = task[t].id /\ viewer.on \in Kinds
        /\ viewer.on # None
    BY <2>1, ConsoleAssumption DEF AboutChosen, Looking
  <2>3. dialog = NoDialog /\ token # None
    BY <2>2 DEF Chosen
  <2>4. \/ viewer' = [viewer EXCEPT !.list[viewer.on] = viewer.row]
        \/ viewer' = [viewer EXCEPT !.preview = <<viewer.on, viewer.row>>]
    BY <1>14, <2>2 DEF AttachmentsListed, Previewed
  <2>5. /\ viewer'.on = viewer.on /\ viewer'.row = viewer.row
        /\ viewer'.list[viewer.on] \in {viewer.list[viewer.on], viewer.row}
        /\ viewer'.preview \in {viewer.preview, <<viewer.on, viewer.row>>}
    BY <2>2, <2>4 DEF Typed, PageTyped
  <2> QED BY <2>1, <2>2, <2>3, <2>5 DEF Chosen
<1> QED BY <1>5, <1>6, <1>7, <1>9, <1>10, <1>11, <1>12, <1>13, <1>14 DEF TaskStep

LEMMA MeantStep ==
    ASSUME Typed, OneTask, Kept, Meant, [Next]_vars
    PROVE  Meant'
<1>1. SUFFICES ASSUME Orderly'
               PROVE  Chosen' /\ \A s \in Tasks : AboutChosen(s)'
  BY DEF Meant
<1>2. /\ Quiet /\ expired = {} /\ Quiet'
      /\ Settled /\ Chosen /\ \A s \in Tasks : AboutChosen(s)
  BY <1>1, OrderlyBefore DEF Orderly, Kept, Meant
<1>3. ASSUME NEW t \in Tasks, TaskStep(t)
      PROVE  Chosen' /\ \A s \in Tasks : AboutChosen(s)'
  <2>1. ASSUME NEW s \in Tasks, s # t PROVE AboutChosen(s)'
    BY <1>2, <1>3, <2>1, OthersIdle, IdleIsMeant
  <2>2. AboutChosen(t)'
    BY <1>2, <1>3, TaskIsMeant
  <2> QED BY <1>2, <1>3, <2>1, <2>2, PageIsMeant
<1>4. CASE UNCHANGED <<dialog, selected, viewer, token, task>>
  BY <1>2, <1>4 DEF Chosen, AboutChosen
<1>5. CASE OtherStep
  BY <1>4, <1>5 DEF OtherStep, OthersAdd, OthersStep, OthersDelete, WindowEnds,
    Expire, RestartApi
<1> QED BY <1>1, <1>2, <1>3, <1>4, <1>5, UserMeant DEF Next, vars, sessionVars

(* For a user who waits, while the session lasts: the rows that an action   *)
(* sends are those that its dialog was opened for or that the user chose in *)
(* it, although refreshes replace the selection of page.tsx, and the        *)
(* attachments on the page are those of the row whose dialog was opened.    *)
THEOREM ActionsAreAsMeant ==
    Spec => []AsMeant
<1> DEFINE Inv == Waiting /\ Meant
<1>1. Init => Inv
  <2>1. Init => Chosen
    BY DEF Init, Chosen, NoView
  <2>2. Init => \A t \in Tasks : AboutChosen(t)
    BY DEF Init, AboutChosen, Idle
  <2>3. Init => Waiting
    BY InitSound DEF Waiting, Init, OneTask, Kept, Settled, Holds, Idle
  <2> QED BY <2>1, <2>2, <2>3 DEF Meant
<1>2. Inv /\ [Next]_vars => Inv'
  BY SoundStep, OneTaskStep, KeptStep, MeantStep DEF Waiting, Sound
<1>3. Inv => AsMeant
  BY DEF Meant, Orderly, Chosen, AboutChosen, AsMeant, RefsAsMeant, OwnAttachments, Viewing
<1> HIDE DEF Inv
<1> QED BY <1>1, <1>2, <1>3, PTL DEF Spec
=============================================================================
