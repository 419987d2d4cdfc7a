---- MODULE FrontendProofs ----
(***************************************************************************)
(* The two modules of the browser, for any number of calls, accounts,      *)
(* pages and clicks.                                                       *)
(*                                                                         *)
(* First ApiClient: its inductive invariant, a lemma an action, with the   *)
(* types, the order within each call and the session in a step each.  Then *)
(* Portal: facts about its constants, about entries and about calls, one   *)
(* lemma an action over these, and the invariant that follows.             *)
(***************************************************************************)
EXTENDS ApiClient, Portal, WellFoundedInduction, TLAPS

----
(* The calls of an operator's page. *)

\* What a call may be for.
LEMMA AskTyped ==
    ASSUME NEW c \in Calls, NEW ask \in Asks[c]
    PROVE  ask.op \in Ops /\ ask.as \in Accounts
BY AsksAssumption

\* A step that leaves the store and the refreshes alone leaves the session alone.
LEMMA SessionUntouched ==
    ASSUME TypeOK, RenewsOwn, SessionKept, UNCHANGED <<store, history, renews, retried>>,
           \A c \in Calls : at'[c] = "renewing" => at[c] = "renewing"
    PROVE  RenewsOwn' /\ SessionKept'
<1>1. Undisturbed' => Undisturbed
  BY DEF Undisturbed, TypeOK, history
<1> QED
  BY <1>1 DEF RenewsOwn, SessionKept, store, history

\* What Call leaves true.
LEMMA CallKeeps ==
    ASSUME IInv, NEW c \in Calls, NEW ask \in Asks[c], Call(c, ask) PROVE IInv'
<1>1. TypeOK'
  BY AskTyped DEF IInv, TypeOK, Ops, Call, Send, store, history
<1>2. RefusedUnchanged'
  <2> SUFFICES ASSUME NEW d \in Calls PROVE InOrder(d)'
    BY DEF RefusedUnchanged
  <2>1. CASE d = c
    BY <2>1, AskTyped DEF IInv, TypeOK, RefusedUnchanged, InOrder, Call, Send, store,
       history, Ops
  <2>2. CASE d # c
    BY <2>2 DEF IInv, TypeOK, RefusedUnchanged, InOrder, Call, Send, store, history
  <2> QED
    BY <2>1, <2>2
<1>3. RenewsOwn' /\ SessionKept'
  BY SessionUntouched DEF IInv, TypeOK, Call, Send, call
<1>4. ExecutedOnce'
  BY <1>2 DEF RefusedUnchanged, InOrder, ExecutedOnce
<1> QED
  BY <1>1, <1>2, <1>3, <1>4 DEF IInv

\* What Login leaves true.
LEMMA LoginKeeps ==
    ASSUME IInv, NEW c \in Calls, NEW ask \in Asks[c], Login(c, ask) PROVE IInv'
<1>1. TypeOK'
  BY AskTyped DEF IInv, TypeOK, Ops, Login, Send, store, history
<1>2. RefusedUnchanged'
  <2> SUFFICES ASSUME NEW d \in Calls PROVE InOrder(d)'
    BY DEF RefusedUnchanged
  <2>1. CASE d = c
    BY <2>1, AskTyped DEF IInv, TypeOK, RefusedUnchanged, InOrder, Login, Send, store,
       history, Ops
  <2>2. CASE d # c
    BY <2>2 DEF IInv, TypeOK, RefusedUnchanged, InOrder, Login, Send, store, history
  <2> QED
    BY <2>1, <2>2
<1>3. RenewsOwn' /\ SessionKept'
  BY SessionUntouched DEF IInv, TypeOK, Login, Send, call
<1>4. ExecutedOnce'
  BY <1>2 DEF RefusedUnchanged, InOrder, ExecutedOnce
<1> QED
  BY <1>1, <1>2, <1>3, <1>4 DEF IInv

\* What SignOut leaves true.
LEMMA SignOutKeeps ==
    ASSUME IInv, SignOut PROVE IInv'
<1>1. TypeOK'
  BY DEF IInv, TypeOK, SignOut, LogOut, call, api
<1>2. RefusedUnchanged'
  BY DEF IInv, TypeOK, RefusedUnchanged, InOrder, SignOut, LogOut, call, api
<1>3. RenewsOwn' /\ SessionKept'
  BY DEF IInv, RenewsOwn, SessionKept, SignOut, call
<1>4. ExecutedOnce'
  BY <1>2 DEF RefusedUnchanged, InOrder, ExecutedOnce
<1> QED
  BY <1>1, <1>2, <1>3, <1>4 DEF IInv

\* What Unload leaves true.
LEMMA UnloadKeeps ==
    ASSUME IInv, Unload PROVE IInv'
<1>1. TypeOK'
  BY DEF IInv, TypeOK, Unload, store, api, history
<1>2. RefusedUnchanged'
  BY DEF IInv, TypeOK, RefusedUnchanged, InOrder, Unload, store, api, history
<1>3. RenewsOwn' /\ SessionKept'
  <2>1. Undisturbed' => Undisturbed
    BY DEF IInv, TypeOK, Undisturbed, Unload
  <2> QED
    BY <2>1 DEF IInv, TypeOK, RenewsOwn, SessionKept, Unload, store
<1>4. ExecutedOnce'
  BY <1>2 DEF RefusedUnchanged, InOrder, ExecutedOnce
<1> QED
  BY <1>1, <1>2, <1>3, <1>4 DEF IInv

\* What Authenticate leaves true.
LEMMA AuthenticateKeeps ==
    ASSUME IInv, NEW c \in Calls, Authenticate(c) PROVE IInv'
<1>1. TypeOK'
  BY DEF IInv, TypeOK, Authenticate, Answers, store, call, history
<1>2. RefusedUnchanged'
  <2> SUFFICES ASSUME NEW d \in Calls PROVE InOrder(d)'
    BY DEF RefusedUnchanged
  <2>1. CASE d = c
    BY <2>1 DEF IInv, TypeOK, RefusedUnchanged, InOrder, Authenticate, Answers, store, call,
       history
  <2>2. CASE d # c
    BY <2>2 DEF IInv, TypeOK, RefusedUnchanged, InOrder, Authenticate, Answers, store, call,
       history
  <2> QED
    BY <2>1, <2>2
<1>3. RenewsOwn' /\ SessionKept'
  BY SessionUntouched DEF IInv, TypeOK, Authenticate, Answers, call
<1>4. ExecutedOnce'
  BY <1>2 DEF RefusedUnchanged, InOrder, ExecutedOnce
<1> QED
  BY <1>1, <1>2, <1>3, <1>4 DEF IInv

\* What CheckLogin leaves true.
LEMMA CheckLoginKeeps ==
    ASSUME IInv, NEW c \in Calls, CheckLogin(c) PROVE IInv'
<1>1. TypeOK'
  BY DEF IInv, TypeOK, CheckLogin, Answers, store, call, history
<1>2. RefusedUnchanged'
  <2> SUFFICES ASSUME NEW d \in Calls PROVE InOrder(d)'
    BY DEF RefusedUnchanged
  <2>1. CASE d = c
    BY <2>1 DEF IInv, TypeOK, RefusedUnchanged, InOrder, CheckLogin, Answers, store, call,
       history
  <2>2. CASE d # c
    BY <2>2 DEF IInv, TypeOK, RefusedUnchanged, InOrder, CheckLogin, Answers, store, call,
       history
  <2> QED
    BY <2>1, <2>2
<1>3. RenewsOwn' /\ SessionKept'
  BY SessionUntouched DEF IInv, TypeOK, CheckLogin, Answers, call
<1>4. ExecutedOnce'
  BY <1>2 DEF RefusedUnchanged, InOrder, ExecutedOnce
<1> QED
  BY <1>1, <1>2, <1>3, <1>4 DEF IInv

\* What Change leaves true.
LEMMA ChangeKeeps ==
    ASSUME IInv, NEW c \in Calls, Change(c) PROVE IInv'
<1>1. TypeOK'
  <2>1. changes[c] = 0
    BY DEF IInv, RefusedUnchanged, InOrder, Change
  <2>2. changes' \in [Calls -> 0..2]
    BY <2>1 DEF IInv, TypeOK, Change
  <2> QED
    BY <2>2 DEF IInv, TypeOK, Change, Answers, store, call, history
<1>2. RefusedUnchanged'
  <2> SUFFICES ASSUME NEW d \in Calls PROVE InOrder(d)'
    BY DEF RefusedUnchanged
  <2>1. CASE d = c
    <3>0. InOrder(c) /\ handler[c] = "passed"
      BY DEF IInv, RefusedUnchanged, Change
    <3>1. changes[c] = 0
      BY <3>0 DEF InOrder
    <3>2. \/ changes'[c] = 0 /\ handler'[c] = "ok" /\ op[c] = "read"
          \/ changes'[c] = 0 /\ handler'[c] = "refused"
          \/ changes'[c] = 1 /\ handler'[c] = "changed"
      BY <3>1 DEF IInv, TypeOK, Change, Answers
    <3>3. op' = op /\ as' = as /\ at' = at /\ outcome' = outcome
      BY DEF Change, call
    <3>4. at[c] \notin {"idle", "renewing"} /\ (outcome[c] = "ok" => op[c] \notin {"change", "password"})
      BY <3>0, <3>1 DEF InOrder
    <3>5. InOrder(c)'
      <4>1. CASE changes'[c] = 0 /\ handler'[c] = "ok" /\ op[c] = "read"
        BY <4>1, <3>0, <3>3, <3>4 DEF InOrder
      <4>2. CASE changes'[c] = 0 /\ handler'[c] = "refused"
        BY <4>2, <3>0, <3>3, <3>4 DEF InOrder
      <4>3. CASE changes'[c] = 1 /\ handler'[c] = "changed"
        <5>1. changes'[c] <= 1
          BY <4>3
        <5>2. handler'[c] \notin {"none", "arrived", "passed", "refused"}
          BY <4>3
        <5> QED
          BY <5>1, <5>2, <4>3, <3>0, <3>3, <3>4, Zenon DEF InOrder
      <4> QED
        BY <3>2, <4>1, <4>2, <4>3
    <3> QED
      BY <2>1, <3>5
  <2>2. CASE d # c
    BY SMTT(20), ZenonT(60), <2>2 DEF IInv, TypeOK, RefusedUnchanged, InOrder, Change, Answers, store, call,
       history
  <2> QED
    BY <2>1, <2>2
<1>3. RenewsOwn' /\ SessionKept'
  BY SessionUntouched DEF IInv, TypeOK, Change, Answers, call
<1>4. ExecutedOnce'
  BY <1>2 DEF RefusedUnchanged, InOrder, ExecutedOnce
<1> QED
  BY <1>1, <1>2, <1>3, <1>4 DEF IInv

\* What Reply leaves true.
LEMMA ReplyKeeps ==
    ASSUME IInv, NEW c \in Calls, Reply(c) PROVE IInv'
<1>1. TypeOK'
  BY DEF IInv, TypeOK, Reply, Answers, store, call, history
<1>2. RefusedUnchanged'
  <2> SUFFICES ASSUME NEW d \in Calls PROVE InOrder(d)'
    BY DEF RefusedUnchanged
  <2>1. CASE d = c
    BY <2>1 DEF IInv, TypeOK, RefusedUnchanged, InOrder, Reply, Answers, store, call,
       history
  <2>2. CASE d # c
    BY <2>2 DEF IInv, TypeOK, RefusedUnchanged, InOrder, Reply, Answers, store, call,
       history
  <2> QED
    BY <2>1, <2>2
<1>3. RenewsOwn' /\ SessionKept'
  BY SessionUntouched DEF IInv, TypeOK, Reply, Answers, call
<1>4. ExecutedOnce'
  BY <1>2 DEF RefusedUnchanged, InOrder, ExecutedOnce
<1> QED
  BY <1>1, <1>2, <1>3, <1>4 DEF IInv

\* What Fail leaves true.
LEMMA FailKeeps ==
    ASSUME IInv, NEW c \in Calls, Fail(c) PROVE IInv'
<1>1. TypeOK'
  BY DEF IInv, TypeOK, Fail, Answers, store, call, history
<1>2. RefusedUnchanged'
  <2> SUFFICES ASSUME NEW d \in Calls PROVE InOrder(d)'
    BY DEF RefusedUnchanged
  <2>1. CASE d = c
    BY <2>1 DEF IInv, TypeOK, RefusedUnchanged, InOrder, Fail, Answers, store, call, history
  <2>2. CASE d # c
    BY <2>2 DEF IInv, TypeOK, RefusedUnchanged, InOrder, Fail, Answers, store, call, history
  <2> QED
    BY <2>1, <2>2
<1>3. RenewsOwn' /\ SessionKept'
  BY SessionUntouched DEF IInv, TypeOK, Fail, Answers, call
<1>4. ExecutedOnce'
  BY <1>2 DEF RefusedUnchanged, InOrder, ExecutedOnce
<1> QED
  BY <1>1, <1>2, <1>3, <1>4 DEF IInv

\* What DeleteAccount leaves true.
LEMMA DeleteAccountKeeps ==
    ASSUME IInv, NEW a \in Accounts, DeleteAccount(a) PROVE IInv'
<1>1. TypeOK'
  BY DEF IInv, TypeOK, DeleteAccount, store, call, history
<1>2. RefusedUnchanged'
  BY DEF IInv, TypeOK, RefusedUnchanged, InOrder, DeleteAccount, store, call, history
<1>3. RenewsOwn' /\ SessionKept'
  BY SessionUntouched DEF IInv, TypeOK, DeleteAccount, call
<1>4. ExecutedOnce'
  BY <1>2 DEF RefusedUnchanged, InOrder, ExecutedOnce
<1> QED
  BY <1>1, <1>2, <1>3, <1>4 DEF IInv

\* What Succeed leaves true.
LEMMA SucceedKeeps ==
    ASSUME IInv, NEW c \in Calls, Succeed(c) PROVE IInv'
<1>1. TypeOK'
  <2>1. op[c] = "login" => as[c] \in Accounts
    BY DEF IInv, RefusedUnchanged, InOrder
  <2> QED
    BY <2>1 DEF IInv, TypeOK, Succeed, Settle, store, api, history
<1>2. RefusedUnchanged'
  <2> SUFFICES ASSUME NEW d \in Calls PROVE InOrder(d)'
    BY DEF RefusedUnchanged
  <2>1. CASE d = c
    BY <2>1 DEF IInv, TypeOK, RefusedUnchanged, InOrder, Succeed, Settle, store, api,
       history
  <2>2. CASE d # c
    BY <2>2 DEF IInv, TypeOK, RefusedUnchanged, InOrder, Succeed, Settle, store, api,
       history
  <2> QED
    BY <2>1, <2>2
<1>3. RenewsOwn' /\ SessionKept'
  <2>1. CASE op[c] = "login"
    <3>1. as[c] # NoAccount
      BY <2>1, AccountsAssumption DEF IInv, RefusedUnchanged, InOrder
    <3>2. \A d \in Calls : at'[d] = "renewing" <=> at[d] = "renewing"
      BY DEF IInv, TypeOK, Succeed, Settle
    <3> QED
      BY <2>1, <3>1, <3>2 DEF IInv, TypeOK, Succeed, RenewsOwn, SessionKept
  <2>2. CASE op[c] # "login"
    BY <2>2, SessionUntouched DEF IInv, TypeOK, Succeed, Settle
  <2> QED
    BY <2>1, <2>2
<1>4. ExecutedOnce'
  BY <1>2 DEF RefusedUnchanged, InOrder, ExecutedOnce
<1> QED
  BY <1>1, <1>2, <1>3, <1>4 DEF IInv

\* What Reject leaves true.
LEMMA RejectKeeps ==
    ASSUME IInv, NEW c \in Calls, Reject(c) PROVE IInv'
<1>1. TypeOK'
  BY DEF IInv, TypeOK, Reject, Settle, store, api, history
<1>2. RefusedUnchanged'
  <2> SUFFICES ASSUME NEW d \in Calls PROVE InOrder(d)'
    BY DEF RefusedUnchanged
  <2>1. CASE d = c
    BY <2>1 DEF IInv, TypeOK, RefusedUnchanged, InOrder, Reject, Settle, store, api, history
  <2>2. CASE d # c
    BY <2>2 DEF IInv, TypeOK, RefusedUnchanged, InOrder, Reject, Settle, store, api, history
  <2> QED
    BY <2>1, <2>2
<1>3. RenewsOwn' /\ SessionKept'
  BY SessionUntouched DEF IInv, TypeOK, Reject, Settle, call
<1>4. ExecutedOnce'
  BY <1>2 DEF RefusedUnchanged, InOrder, ExecutedOnce
<1> QED
  BY <1>1, <1>2, <1>3, <1>4 DEF IInv

\* What Renew leaves true.
LEMMA RenewKeeps ==
    ASSUME IInv, NEW c \in Calls, Renew(c) PROVE IInv'
<1>1. TypeOK'
  BY DEF IInv, TypeOK, Renew, Settle, LogOut, store, api, history
<1>2. RefusedUnchanged'
  <2> SUFFICES ASSUME NEW d \in Calls PROVE InOrder(d)'
    BY DEF RefusedUnchanged
  <2>1. CASE d = c
    BY <2>1 DEF IInv, TypeOK, RefusedUnchanged, InOrder, Renew, Settle, LogOut, store, api,
       history
  <2>2. CASE d # c
    BY <2>2 DEF IInv, TypeOK, RefusedUnchanged, InOrder, Renew, Settle, LogOut, store, api,
       history
  <2> QED
    BY <2>1, <2>2
<1>3. RenewsOwn' /\ SessionKept'
  <2>1. Undisturbed' => Undisturbed
    BY DEF IInv, TypeOK, RenewsOwn, Undisturbed, Renew, Settle, history
  <2>2. CASE tokens # NoAccount
    BY <2>1, <2>2 DEF IInv, TypeOK, RenewsOwn, SessionKept, Renew, store, history
  <2>3. CASE tokens = NoAccount
    BY <2>1, <2>3 DEF IInv, TypeOK, RenewsOwn, SessionKept, Renew, Settle, history
  <2> QED
    BY <2>2, <2>3
<1>4. ExecutedOnce'
  BY <1>2 DEF RefusedUnchanged, InOrder, ExecutedOnce
<1> QED
  BY <1>1, <1>2, <1>3, <1>4 DEF IInv

\* What Renewed leaves true.
LEMMA RenewedKeeps ==
    ASSUME IInv, NEW c \in Calls, Renewed(c) PROVE IInv'
<1>1. TypeOK'
  BY DEF IInv, TypeOK, Renewed, Send, history
<1>2. RefusedUnchanged'
  <2> SUFFICES ASSUME NEW d \in Calls PROVE InOrder(d)'
    BY DEF RefusedUnchanged
  <2>1. CASE d = c
    BY <2>1 DEF IInv, TypeOK, RefusedUnchanged, InOrder, Renewed, Send, history
  <2>2. CASE d # c
    BY <2>2 DEF IInv, TypeOK, RefusedUnchanged, InOrder, Renewed, Send, history
  <2> QED
    BY <2>1, <2>2
<1>3. RenewsOwn' /\ SessionKept'
  <2>1. Undisturbed' => Undisturbed /\ c \notin older
    BY DEF IInv, TypeOK, Undisturbed, Renewed, Send, history
  <2> QED
    BY <2>1 DEF IInv, TypeOK, RenewsOwn, SessionKept, Renewed, Send, history
<1>4. ExecutedOnce'
  BY <1>2 DEF RefusedUnchanged, InOrder, ExecutedOnce
<1> QED
  BY <1>1, <1>2, <1>3, <1>4 DEF IInv

\* What RenewFails leaves true.
LEMMA RenewFailsKeeps ==
    ASSUME IInv, NEW c \in Calls, RenewFails(c) PROVE IInv'
<1>1. TypeOK'
  BY DEF IInv, TypeOK, RenewFails, Settle, LogOut, api
<1>2. RefusedUnchanged'
  <2> SUFFICES ASSUME NEW d \in Calls PROVE InOrder(d)'
    BY DEF RefusedUnchanged
  <2>1. CASE d = c
    BY <2>1 DEF IInv, TypeOK, RefusedUnchanged, InOrder, RenewFails, Settle, LogOut, api
  <2>2. CASE d # c
    BY <2>2 DEF IInv, TypeOK, RefusedUnchanged, InOrder, RenewFails, Settle, LogOut, api
  <2> QED
    BY <2>1, <2>2
<1>3. RenewsOwn' /\ SessionKept'
  <2>1. ~ended' => ~Undisturbed'
    BY DEF IInv, TypeOK, Undisturbed, RenewFails, Settle
  <2> QED
    BY <2>1 DEF IInv, TypeOK, RenewsOwn, SessionKept, RenewFails, Settle
<1>4. ExecutedOnce'
  BY <1>2 DEF RefusedUnchanged, InOrder, ExecutedOnce
<1> QED
  BY <1>1, <1>2, <1>3, <1>4 DEF IInv

\* Every step keeps the invariant.
LEMMA NextKeeps == ASSUME IInv, [Next]_vars PROVE IInv'
<1>1. CASE UNCHANGED vars
  <2>1. RenewsOwn' /\ SessionKept'
    BY <1>1, SessionUntouched DEF IInv, vars, call
  <2> QED
    BY <1>1, <2>1 DEF IInv, TypeOK, RefusedUnchanged, InOrder, ExecutedOnce, vars, store, call,
       api, history
<1>2. CASE Next
  BY <1>2, CallKeeps, LoginKeeps, SignOutKeeps, UnloadKeeps, AuthenticateKeeps,
     CheckLoginKeeps, ChangeKeeps, ReplyKeeps, FailKeeps, DeleteAccountKeeps, SucceedKeeps,
     RejectKeeps, RenewKeeps, RenewedKeeps, RenewFailsKeeps DEF Next
<1> QED
  BY <1>1, <1>2

\* The inductive invariant of the client's calls: its types, that a refused call
\* has changed nothing, and what follows from it.
THEOREM CallsInvariant == Spec => []IInv
<1>1. Init => IInv
  BY AccountsAssumption DEF Init, IInv, TypeOK, RefusedUnchanged, InOrder, RenewsOwn,
     ExecutedOnce, SessionKept, Ops
<1>2. IInv /\ [Next]_vars => IInv'
  BY NextKeeps
<1> QED
  BY <1>1, <1>2, PTL DEF Spec

\* No click is carried out twice, however calls are refused and sent again, and
\* success is reported only of what was done.
THEOREM ClicksAreCarriedOutOnce == Spec => []ExecutedOnce
<1>1. IInv => ExecutedOnce
  BY DEF IInv
<1> QED
  BY <1>1, CallsInvariant, PTL

\* A session ends by a sign-out or by a failed refresh of its own tokens, and is
\* disturbed by nothing but a refresh that was under way before it.
THEOREM SessionIsKept == Spec => []SessionKept
<1>1. IInv => SessionKept
  BY DEF IInv
<1> QED
  BY <1>1, CallsInvariant, PTL

----
(* The portal: constants. *)

\* Of functions with disjoint domains, Joined has at each point the one defined there.
LEMMA JoinedAt ==
    ASSUME NEW fs, NEW n \in DOMAIN fs, NEW x \in DOMAIN fs[n],
           \A m \in DOMAIN fs : x \in DOMAIN fs[m] => m = n
    PROVE  x \in DOMAIN Joined(fs) /\ Joined(fs)[x] = fs[n][x]
BY DEF Joined

\* The operations, group by group.
LEMMA OperationsAre ==
    /\ DOMAIN UserSteps = {"create_user", "operate_on_user"}
    /\ DOMAIN LicenseSteps = {"change_license"}
    /\ DOMAIN AlertSteps = {"handle_alert"}
    /\ DOMAIN SyncSteps = {"sync"}
    /\ DOMAIN OnboardSteps = {"onboard"}
    /\ DOMAIN AccountSteps = {"create_account", "delete_account"}
    /\ Operations = {"create_user", "operate_on_user", "change_license", "handle_alert",
                     "sync", "onboard", "create_account", "delete_account"}
<1>1. /\ DOMAIN UserSteps = {"create_user", "operate_on_user"}
      /\ DOMAIN LicenseSteps = {"change_license"}
      /\ DOMAIN AlertSteps = {"handle_alert"}
      /\ DOMAIN SyncSteps = {"sync"}
      /\ DOMAIN OnboardSteps = {"onboard"}
      /\ DOMAIN AccountSteps = {"create_account", "delete_account"}
  BY DEF UserSteps, LicenseSteps, AlertSteps, SyncSteps, OnboardSteps, AccountSteps
<1> QED BY <1>1 DEF Operations, Steps, Joined

\* The steps of each.
LEMMA StepsAre ==
    /\ Steps["create_user"] = << AuditStep >>
    /\ Steps["operate_on_user"] = << <<"check", "entra_users">>, AuditStep >>
    /\ Steps["change_license"] = << <<"check", "entra_users">>, AuditStep >>
    /\ Steps["handle_alert"] =
          << <<"check", "security_alerts">>, <<"write", "security_alerts">>, AuditStep >>
    /\ Steps["sync"] =
          << <<"check", "tenants">>, <<"write", "entra_users">>, <<"write", "entra_groups">>,
             <<"try", "conditional_access_policies">>, <<"try", "managed_devices">>,
             <<"try", "license_info">>, <<"write", "tenants">>, AuditStep >>
    /\ Steps["onboard"] = << <<"check", "tenants">>, <<"write", "tenants">>, AuditStep >>
    /\ \A o \in {"create_account", "delete_account"} :
          Steps[o] = << <<"check", "dashboard_users">>, <<"write", "dashboard_users">>, AuditStep >>
<1> DEFINE fs == <<UserSteps, LicenseSteps, AlertSteps, SyncSteps, OnboardSteps, AccountSteps>>
<1>1. ASSUME NEW n \in 1..6, NEW o \in DOMAIN fs[n] PROVE Steps[o] = fs[n][o]
  <2>1. \A m \in DOMAIN fs : o \in DOMAIN fs[m] => m = n
    BY OperationsAre
  <2> QED BY <2>1, JoinedAt DEF Steps
<1> QED BY <1>1, OperationsAre
        DEF UserSteps, LicenseSteps, AlertSteps, SyncSteps, OnboardSteps, AccountSteps

\* Every operation has its steps.
LEMMA StepsAreSequences ==
    ASSUME NEW o \in Operations
    PROVE  Len(Steps[o]) \in Nat \ {0} /\ DOMAIN Steps[o] = 1..Len(Steps[o])
<1> USE DEF AuditStep
<1>1. CASE Steps[o] = << AuditStep >>
  BY <1>1
<1>2. ASSUME NEW t, Steps[o] = << <<"check", t>>, AuditStep >>
      PROVE  Len(Steps[o]) \in Nat \ {0} /\ DOMAIN Steps[o] = 1..Len(Steps[o])
  BY <1>2
<1>3. ASSUME NEW t, Steps[o] = << <<"check", t>>, <<"write", t>>, AuditStep >>
      PROVE  Len(Steps[o]) \in Nat \ {0} /\ DOMAIN Steps[o] = 1..Len(Steps[o])
  BY <1>3
<1>4. CASE o = "sync"
  BY <1>4, StepsAre
<1>5. \/ Steps[o] = << AuditStep >>
      \/ \E t : Steps[o] = << <<"check", t>>, AuditStep >>
      \/ \E t : Steps[o] = << <<"check", t>>, <<"write", t>>, AuditStep >>
      \/ o = "sync"
  BY StepsAre, OperationsAre, Zenon
<1> QED BY <1>1, <1>2, <1>3, <1>4, <1>5

\* Each operation has the button of one page.
LEMMA PagesAre ==
    /\ DOMAIN Buttons = {"user_list", "user", "alerts", "tenant", "onboard", "settings"}
    /\ \A o \in Operations : PageOf(o) =
          CASE o = "create_user" -> "user_list"
            [] o \in {"operate_on_user", "change_license"} -> "user"
            [] o = "handle_alert" -> "alerts"
            [] o = "sync" -> "tenant"
            [] o = "onboard" -> "onboard"
            [] OTHER -> "settings"
    /\ \A p \in DOMAIN Buttons : \A o \in Buttons[p] : o \in Operations /\ PageOf(o) = p
<1>1. DOMAIN Buttons = {"user_list", "user", "alerts", "tenant", "onboard", "settings"}
  BY DEF Buttons
<1>2. /\ Buttons["user_list"] = {"create_user"}
      /\ Buttons["user"] = {"operate_on_user", "change_license"}
      /\ Buttons["alerts"] = {"handle_alert"}
      /\ Buttons["tenant"] = {"sync"}
      /\ Buttons["onboard"] = {"onboard"}
      /\ Buttons["settings"] = {"create_account", "delete_account"}
  BY DEF Buttons
<1>3. \A p \in DOMAIN Buttons : \A o \in Buttons[p] : o \in Operations
  BY <1>1, <1>2, OperationsAre
<1>4. ASSUME NEW p \in DOMAIN Buttons, NEW o \in Buttons[p] PROVE PageOf(o) = p
  <2>1. \A r \in DOMAIN Buttons : o \in Buttons[r] => r = p
    BY <1>1, <1>2, <1>4
  <2> QED BY <2>1 DEF PageOf
<1>5. \A o \in Operations : PageOf(o) =
          CASE o = "create_user" -> "user_list"
            [] o \in {"operate_on_user", "change_license"} -> "user"
            [] o = "handle_alert" -> "alerts"
            [] o = "sync" -> "tenant"
            [] o = "onboard" -> "onboard"
            [] OTHER -> "settings"
  BY <1>1, <1>2, <1>4, OperationsAre
<1> QED BY <1>1, <1>3, <1>4, <1>5

\* The queries, and the tables of those that the pages with buttons show.
LEMMA QueriesAre ==
    /\ Queries = {"users", "user_stats", "user", "user_licenses", "groups", "policies", "devices",
                  "device_overview", "alerts", "tenants", "tenant", "overview", "compliance",
                  "agents", "audit_trail", "accounts"}
    /\ \A q \in Queries : Len(Reads[q]) \in Nat /\ DOMAIN Reads[q] = 1..Len(Reads[q])
    /\ \A q \in {"users", "user_stats", "user"} : TablesOf({q}) = {"entra_users"}
    /\ TablesOf({"user_licenses"}) = {"entra_users", "license_info"}
<1> DEFINE fs == <<UserReads, LicenseReads, GroupReads, PolicyReads, DeviceReads, AlertReads,
                   TenantReads, DashboardReads, AgentReads, AuditReads, AccountReads>>
<1>1. /\ DOMAIN UserReads = {"users", "user_stats", "user"}
      /\ DOMAIN LicenseReads = {"user_licenses"}
      /\ DOMAIN GroupReads = {"groups"}
      /\ DOMAIN PolicyReads = {"policies"}
      /\ DOMAIN DeviceReads = {"devices", "device_overview"}
      /\ DOMAIN AlertReads = {"alerts"}
      /\ DOMAIN TenantReads = {"tenants", "tenant"}
      /\ DOMAIN DashboardReads = {"overview", "compliance"}
      /\ DOMAIN AgentReads = {"agents"}
      /\ DOMAIN AuditReads = {"audit_trail"}
      /\ DOMAIN AccountReads = {"accounts"}
  BY DEF UserReads, LicenseReads, GroupReads, PolicyReads, DeviceReads, AlertReads,
         TenantReads, DashboardReads, AgentReads, AuditReads, AccountReads
<1>2. ASSUME NEW n \in 1..11, NEW q \in DOMAIN fs[n] PROVE Reads[q] = fs[n][q]
  <2>1. \A m \in DOMAIN fs : q \in DOMAIN fs[m] => m = n
    BY <1>1
  <2>2. Reads = Joined(fs)
    BY DEF Reads
  <2>3. DOMAIN fs = 1..11
    OBVIOUS
  <2> HIDE DEF fs
  <2> QED BY <2>1, <2>2, <2>3, <1>2, JoinedAt
<1>3. Queries = UNION {DOMAIN fs[n] : n \in 1..11}
  BY DEF Queries, Reads, Joined
<1>4. Queries = {"users", "user_stats", "user", "user_licenses", "groups", "policies", "devices",
                 "device_overview", "alerts", "tenants", "tenant", "overview", "compliance",
                 "agents", "audit_trail", "accounts"}
  BY <1>1, <1>3
<1>5. \A n \in 1..11 : \A q \in DOMAIN fs[n] :
          Len(fs[n][q]) \in Nat /\ DOMAIN fs[n][q] = 1..Len(fs[n][q])
  BY <1>1 DEF UserReads, LicenseReads, GroupReads, PolicyReads, DeviceReads, AlertReads,
         TenantReads, DashboardReads, AgentReads, AuditReads, AccountReads
<1>6. \A q \in Queries : Len(Reads[q]) \in Nat /\ DOMAIN Reads[q] = 1..Len(Reads[q])
  BY <1>2, <1>3, <1>5
<1>7. /\ Reads["users"] = << {"entra_users"}, {"entra_users"} >>
      /\ Reads["user_stats"] = [i \in 1..6 |-> {"entra_users"}]
      /\ Reads["user"] = << {"entra_users"} >>
      /\ Reads["user_licenses"] = << {"entra_users"}, {"license_info"} >>
  <2>1. \A q \in {"users", "user_stats", "user"} : Reads[q] = UserReads[q]
    BY <1>1, <1>2
  <2>2. Reads["user_licenses"] = LicenseReads["user_licenses"]
    BY <1>1, <1>2
  <2> QED BY <2>1, <2>2 DEF UserReads, LicenseReads
<1>8. \A q \in {"users", "user_stats", "user"} : TablesOf({q}) = {"entra_users"}
  BY <1>7 DEF TablesOf
<1>9. TablesOf({"user_licenses"}) = {"entra_users", "license_info"}
  BY <1>7 DEF TablesOf
<1> QED BY <1>4, <1>6, <1>8, <1>9

\* What the pages with buttons show.
LEMMA ShowsAre ==
    /\ Shows["user_list"] = {"users", "user_stats"}
    /\ Shows["user"] = {"user", "user_licenses"}
    /\ Shows["alerts"] = {"alerts"}
    /\ Shows["tenant"] = {"tenant"}
    /\ Shows["onboard"] = {}
    /\ Shows["settings"] = {"accounts"}
    /\ \A p \in DOMAIN Shows : Shows[p] \subseteq Queries
<1> DEFINE fs == <<UserListPage, UserDetailPage, GroupListPage, PolicyListPage, AlertListPage,
                   DeviceListPage, TenantListPage, TenantDetailPage, OnboardTenantPage,
                   DashboardPage, AgentListPage, AuditTrailPage, SettingsPage, LoginPage>>
           of == <<"user_list", "user", "groups", "policies", "alerts", "devices", "tenants",
                   "tenant", "onboard", "dashboard", "agents", "audit", "settings",
                   "login">>
<1>1. \A n \in 1..14 : DOMAIN fs[n] = {of[n]}
  BY DEF UserListPage, UserDetailPage, GroupListPage, PolicyListPage, AlertListPage,
         DeviceListPage, TenantListPage, TenantDetailPage, OnboardTenantPage,
         DashboardPage, AgentListPage, AuditTrailPage, SettingsPage, LoginPage
<1>2. \A n, m \in 1..14 : of[n] = of[m] => n = m
  OBVIOUS
<1>3. DOMAIN fs = 1..14
  OBVIOUS
<1>4. \A n \in 1..14 : Shows[of[n]] = fs[n][of[n]]
  <2>1. Shows = Joined(fs)
    BY DEF Shows
  <2> HIDE DEF fs, of
  <2>2. ASSUME NEW n \in 1..14 PROVE Joined(fs)[of[n]] = fs[n][of[n]]
    BY <1>1, <1>2, <1>3, JoinedAt
  <2> QED BY <2>1, <2>2
<1>5. DOMAIN Shows = {of[n] : n \in 1..14}
  <2> HIDE DEF of
  <2>1. DOMAIN Joined(fs) = UNION {DOMAIN fs[n] : n \in DOMAIN fs}
    BY DEF Joined
  <2> QED BY <1>1, <1>3, <2>1, SMTT(30) DEF Shows
<1>6. /\ Shows[of[1]] = {"users", "user_stats"} /\ Shows[of[2]] = {"user", "user_licenses"}
      /\ Shows[of[5]] = {"alerts"} /\ Shows[of[8]] = {"tenant"} /\ Shows[of[9]] = {}
      /\ Shows[of[13]] = {"accounts"}
  BY <1>4 DEF UserListPage, UserDetailPage, AlertListPage, TenantDetailPage, OnboardTenantPage,
              SettingsPage
<1>7. \A n \in 1..14 : fs[n][of[n]] \subseteq Queries
  <2>1. \A n \in {3, 4, 6, 7} : fs[n][of[n]] \subseteq Queries
    BY QueriesAre DEF GroupListPage, PolicyListPage, DeviceListPage, TenantListPage
  <2>2. \A n \in {10, 11, 12, 14} : fs[n][of[n]] \subseteq Queries
    BY QueriesAre DEF DashboardPage, AgentListPage, AuditTrailPage, LoginPage
  <2> HIDE DEF fs, of
  <2>3. \A n \in {1, 2, 5, 8, 9, 13} : Shows[of[n]] \subseteq Queries
    BY QueriesAre, <1>6
  <2> QED BY <2>1, <2>2, <2>3, <1>4
<1>8. \A p \in DOMAIN Shows : Shows[p] \subseteq Queries
  BY <1>4, <1>5, <1>7
<1> QED BY <1>6, <1>8

\* What the operations that change rows make stale.
LEMMA InvalidatesAre ==
    /\ Invalidates["handle_alert"] = {"alerts"}
    /\ Invalidates["sync"] = {"tenant"}
    /\ \A o \in {"create_account", "delete_account"} : Invalidates[o] = {"accounts"}
<1> DEFINE fs == <<ListInvalidation, LicenseInvalidation, AlertInvalidation,
                   SyncInvalidation, AccountInvalidation, NoInvalidation>>
<1>1. /\ DOMAIN ListInvalidation = {"create_user"}
      /\ DOMAIN LicenseInvalidation = {"change_license"}
      /\ DOMAIN AlertInvalidation = {"handle_alert"}
      /\ DOMAIN SyncInvalidation = {"sync"}
      /\ DOMAIN AccountInvalidation = {"create_account", "delete_account"}
      /\ DOMAIN NoInvalidation = {"operate_on_user", "onboard"}
  BY DEF ListInvalidation, LicenseInvalidation, AlertInvalidation, SyncInvalidation,
         AccountInvalidation, NoInvalidation
<1>2. ASSUME NEW n \in 1..6, NEW o \in DOMAIN fs[n] PROVE Invalidates[o] = fs[n][o]
  <2>1. \A m \in DOMAIN fs : o \in DOMAIN fs[m] => m = n
    BY <1>1
  <2>2. Invalidates = Joined(fs) /\ DOMAIN fs = 1..6
    BY DEF Invalidates
  <2> HIDE DEF fs
  <2> QED BY <2>1, <2>2, <1>2, JoinedAt
<1>3. /\ Invalidates["handle_alert"] = AlertInvalidation["handle_alert"]
      /\ Invalidates["sync"] = SyncInvalidation["sync"]
      /\ \A o \in {"create_account", "delete_account"} : Invalidates[o] = AccountInvalidation[o]
  BY <1>1, <1>2
<1> QED BY <1>3 DEF AlertInvalidation, SyncInvalidation, AccountInvalidation

\* Of what a page shows, an operation's answer marks every query that reads what it wrote.
LEMMA WrittenIsMarked ==
    ASSUME NEW o \in Operations, NEW q \in Shows[PageOf(o)], q \notin Invalidates[o],
           NEW j \in DOMAIN Steps[o], Steps[o][j][1] # "check"
    PROVE  Steps[o][j][2] \notin TablesOf({q})
<1>1. CASE o \in {"create_user", "operate_on_user", "change_license"}
  <2>1. CASE o = "create_user"
    <3>1. Steps[o] = << AuditStep >> /\ q \in {"users", "user_stats"}
      BY <2>1, StepsAre, PagesAre, ShowsAre
    <3>2. Steps[o][j][2] = "portal_audit_log"
      BY <3>1 DEF AuditStep
    <3> QED BY <3>1, <3>2, QueriesAre
  <2>2. CASE o \in {"operate_on_user", "change_license"}
    <3>1. Steps[o] = << <<"check", "entra_users">>, AuditStep >>
      BY <2>2, StepsAre
    <3>2. Steps[o][j][2] = "portal_audit_log"
      BY <3>1 DEF AuditStep
    <3>3. q \in {"user", "user_licenses"}
      BY <2>2, PagesAre, ShowsAre
    <3> QED BY <3>2, <3>3, QueriesAre
  <2> QED BY <1>1, <2>1, <2>2
<1>2. CASE o \in {"handle_alert", "sync", "create_account", "delete_account"}
  BY <1>2, PagesAre, ShowsAre, InvalidatesAre
<1>3. CASE o = "onboard"
  BY <1>3, PagesAre, ShowsAre
<1> QED BY <1>1, <1>2, <1>3, OperationsAre

\* Every set of naturals that is not empty has a least element.
LEMMA LeastExists ==
    ASSUME NEW S \in SUBSET Nat, S # {}
    PROVE  \E m \in S : \A n \in S : m <= n
<1> DEFINE R == {z \in Nat \X Nat : z[1] < z[2]}
<1>1. IsWellFoundedOn(R, Nat)
  <2>1. R = OpToRel(<, Nat)
    BY DEF OpToRel
  <2> QED BY <2>1, NatLessThanWellFounded
<1>2. PICK m \in S : \A n \in S : <<n, m>> \notin R
  <2> HIDE DEF R
  <2> QED BY <1>1, WFMin, Zenon
<1>3. ASSUME NEW n \in S PROVE m <= n
  <2>1. <<n, m>> \in Nat \X Nat /\ <<n, m>>[1] = n /\ <<n, m>>[2] = m
    OBVIOUS
  <2>2. ~(<<n, m>>[1] < <<n, m>>[2])
    BY <1>2, <2>1, Zenon
  <2> HIDE DEF R
  <2> QED BY <2>1, <2>2
<1> QED BY <1>3

\* The next statement is one of those that are left, or the end.
LEMMA NextStepExists ==
    ASSUME NEW q \in Queries, NEW i \in 1..Len(Reads[q]) + 1, NEW seen
    PROVE  NextStep(q, i, seen) \in i..Len(Reads[q]) + 1
<1> DEFINE end == Len(Reads[q]) + 1
           S == {j \in i..end : j < end => ~(Reads[q][j] \subseteq seen)}
<1>1. Len(Reads[q]) \in Nat
  BY QueriesAre
<1>2. S \subseteq Nat /\ end \in S
  BY <1>1
<1>3. PICK j \in S : \A n \in S : j <= n
  <2> HIDE DEF S
  <2> QED BY <1>2, LeastExists
<1>4. /\ j \in i..end
      /\ j <= Len(Reads[q]) => ~(Reads[q][j] \subseteq seen)
      /\ \A n \in i..j - 1 : Reads[q][n] \subseteq seen
  BY <1>1, <1>3
<1> QED BY <1>4 DEF NextStep

\* The keys and tables of the pages that are opened.
LEMMA KeysAre ==
    /\ Observed \subseteq Queries
    /\ \A q \in Observed : TablesOf({q}) \subseteq Tables
    /\ \A q \in Observed : \A j \in DOMAIN Reads[q] : Reads[q][j] \subseteq TablesOf({q})
    /\ \A k \in Keys : k[1] \in Observed /\ k[2] \in {0, 1} /\ k = <<k[1], k[2]>>
    /\ \A q \in Observed : \A p \in {0, 1} : Key(q, p) \in Keys
<1>1. Observed \subseteq Queries
  BY PagesAssumption, ShowsAre DEF Observed
<1>2. \A q \in Observed : TablesOf({q}) \subseteq Tables
  BY DEF TablesOf, Tables
<1>3. \A q \in Observed : \A j \in DOMAIN Reads[q] : Reads[q][j] \subseteq TablesOf({q})
  BY DEF TablesOf
<1>4. \A k \in Keys : k[1] \in Observed /\ k[2] \in {0, 1} /\ k = <<k[1], k[2]>>
  BY DEF Keys
<1>5. \A q \in Observed : \A p \in {0, 1} : Key(q, p) \in Keys
  BY DEF Keys, Key
<1> QED BY <1>1, <1>2, <1>3, <1>4, <1>5

\* A page observes keys of its own.
LEMMA MountedAreKeys ==
    ASSUME NEW p \in Pages, NEW ch \in {0, 1}, NEW c
    PROVE  Mounted(p, ch, c) \subseteq Keys
<1>1. Shows[p] \subseteq Observed
  BY DEF Observed
<1> QED BY <1>1, KeysAre DEF Mounted

\* Entries.
LEMMA EmptyIsEntry == \A q : IsEntry(Empty, q)
BY DEF IsEntry, IsVersions, Empty

\* A fetch that begins keeps the rows and has seen nothing.
LEMMA BegunIsEntry ==
    ASSUME NEW e, NEW q, IsEntry(e, q)
    PROVE  /\ IsEntry(Begun(e), q)
           /\ Begun(e).data = e.data /\ Begun(e).stale = e.stale /\ Begun(e).seen = <<>>
<1>1. /\ Begun(e).data = e.data /\ Begun(e).stale = e.stale /\ Begun(e).seen = <<>>
      /\ Begun(e) \in [data: {e.data}, stale: BOOLEAN, step: Nat, seen: {<<>>}, tries: {0, 1},
                       auth: {"fresh", "renewing", "renewed"}, overtaken: BOOLEAN]
  BY DEF IsEntry, Begun
<1>2. IsVersions(<<>>, q)
  BY DEF IsVersions
<1> QED BY <1>1, <1>2 DEF IsEntry

\* It makes an entry fresh that shows nothing, or nothing it takes for up to date.
LEMMA BegunIsFresh ==
    ASSUME NEW e, NEW q, IsEntry(e, q), HasData(e) => e.stale, NEW w
    PROVE  Fresh(Begun(e), w)
<1>1. AsNew(<<>>, w)
  BY DEF AsNew
<1> QED BY <1>1, BegunIsEntry DEF Fresh, HasData

\* Observers who come leave entries entries, and fresh ones fresh.
LEMMA OpenedKeeps ==
    ASSUME NEW c, IsCache(c), NEW ks
    PROVE  /\ IsCache(Opened(c, ks))
           /\ \A k \in Keys : \A w : Fresh(c[k], w) => Fresh(Opened(c, ks)[k], w)
<1>1. Opened(c, ks) = [k \in Keys |-> Opened(c, ks)[k]]
  BY DEF Opened
<1>2. ASSUME NEW k \in Keys
      PROVE  /\ IsEntry(Opened(c, ks)[k], k[1])
             /\ \A w : Fresh(c[k], w) => Fresh(Opened(c, ks)[k], w)
  <2>1. CASE Opened(c, ks)[k] = c[k]
    BY <2>1 DEF IsCache
  <2>2. CASE Opened(c, ks)[k] = Begun(c[k]) /\ (HasData(c[k]) => c[k].stale)
    BY <2>2, BegunIsEntry, BegunIsFresh DEF IsCache
  <2> QED BY <2>1, <2>2 DEF Opened
<1> QED BY <1>1, <1>2 DEF IsCache

\* An entry that is marked old, started over or overtaken is fresh.
LEMMA InvalidatedKeeps ==
    ASSUME NEW e, NEW q, IsEntry(e, q), NEW mounted \in BOOLEAN
    PROVE  IsEntry(Invalidated(e, mounted), q) /\ \A w : Fresh(Invalidated(e, mounted), w)
<1> DEFINE marked == [e EXCEPT !.stale = HasData(e)]
<1>1. IsEntry(marked, q) /\ marked.data = e.data /\ marked.stale = HasData(e)
  BY DEF IsEntry, IsVersions, HasData
<1>2. CASE mounted /\ (HasData(e) \/ ~Busy(e))
  <2>1. Invalidated(e, mounted) = Begun(marked)
    BY <1>2 DEF Invalidated
  <2> HIDE DEF marked
  <2> QED BY <1>1, <2>1, BegunIsEntry, BegunIsFresh DEF HasData
<1>3. CASE ~(mounted /\ (HasData(e) \/ ~Busy(e)))
  <2>1. Invalidated(e, mounted) = [marked EXCEPT !.overtaken = Busy(e)]
    BY <1>3 DEF Invalidated
  <2>2. IsEntry(Invalidated(e, mounted), q)
    BY <2>1 DEF IsEntry, IsVersions, HasData, Busy
  <2>3. /\ Invalidated(e, mounted).overtaken = Busy(e)
        /\ Invalidated(e, mounted).stale = HasData(e)
        /\ Invalidated(e, mounted).data = e.data
        /\ Invalidated(e, mounted).step = e.step
    BY <2>1 DEF IsEntry
  <2> QED BY <2>2, <2>3 DEF Fresh, HasData, Busy
<1> QED BY <1>2, <1>3

\* Calls.
LEMMA CallsChangedOneByOne ==
    ASSUME calls \in Seq(CallRecords), NEW f, f = [i \in DOMAIN calls |-> f[i]],
           \A i \in DOMAIN calls : f[i] \in CallRecords
    PROVE  f \in Seq(CallRecords)
<1>1. DOMAIN f = 1..Len(calls) /\ Len(calls) \in Nat
  OBVIOUS
<1> QED BY <1>1

\* The same when one of them changes.
LEMMA OneCallChanged ==
    ASSUME calls \in Seq(CallRecords), NEW i \in DOMAIN calls, NEW c \in CallRecords
    PROVE  /\ [calls EXCEPT ![i] = c] \in Seq(CallRecords)
           /\ DOMAIN [calls EXCEPT ![i] = c] = DOMAIN calls
           /\ [calls EXCEPT ![i] = c][i] = c
           /\ \A j \in DOMAIN calls \ {i} : [calls EXCEPT ![i] = c][j] = calls[j]
OBVIOUS

\* A call of which at most the page's view has changed, and not to "ok".
Follows(d, c) ==
    /\ d \in CallRecords
    /\ d.op = c.op /\ d.param = c.param /\ d.marks = c.marks /\ d.step = c.step
    /\ d.wrote = c.wrote /\ d.answer = c.answer
    /\ d.shown = "ok" => c.shown = "ok"

\* Steps that change no table and no more of the calls than that.
LEMMA CacheStepInv ==
    ASSUME PortalInv, page' \in Pages, choice' \in {0, 1}, events' \in 0..MaxEvents, db' = db,
           IsCache(cache'),
           calls' \in Seq(CallRecords), DOMAIN calls' = DOMAIN calls,
           \A i \in DOMAIN calls : Follows(calls'[i], calls[i]),
           \A k \in Keys : \A i \in DOMAIN calls :
               OfItsPage(k, calls[i]) /\ Fresh(cache[k], calls[i].wrote)
                   => Fresh(cache'[k], calls[i].wrote)
    PROVE  PortalInv'
<1>1. PortalTypeOK'
  BY DEF PortalInv, PortalTypeOK, IsCache
<1>2. ASSUME NEW i \in DOMAIN calls'
      PROVE  (StepByStep(calls[i]) /\ Done(calls[i], db) /\ Shown(calls[i], cache))'
  <2> DEFINE d == calls'[i]
             c == calls[i]
  <2>1. StepByStep(c) /\ Done(c, db) /\ Shown(c, cache) /\ i \in DOMAIN calls
    BY <1>2 DEF PortalInv
  <2>2. /\ d.op = c.op /\ d.param = c.param /\ d.marks = c.marks /\ d.step = c.step
        /\ d.wrote = c.wrote /\ d.answer = c.answer
        /\ d.shown = "ok" => c.shown = "ok"
    BY <2>1 DEF Follows
  <2>3. \A k \in Keys : OfItsPage(k, c) /\ Fresh(cache[k], c.wrote) => Fresh(cache'[k], c.wrote)
    BY <2>1
  <2> HIDE DEF d, c
  <2>4. StepByStep(d)
    BY <2>1, <2>2 DEF StepByStep
  <2>5. Done(d, db')
    BY <2>1, <2>2 DEF Done
  <2>6. Shown(d, cache')
    BY <2>1, <2>2, <2>3 DEF Shown, OfItsPage
  <2> QED BY <2>4, <2>5, <2>6 DEF d
<1> QED BY <1>1, <1>2 DEF PortalInv

\* Every call is a record of the type.
LEMMA CallsAreRecords == PortalTypeOK => \A i \in DOMAIN calls : calls[i] \in CallRecords
BY DEF PortalTypeOK

\* What the page sees of a call may change so.
LEMMA Following ==
    ASSUME NEW c \in CallRecords
    PROVE  /\ Follows(c, c) /\ Follows([c EXCEPT !.left = TRUE], c)
           /\ \A x \in {"gone", "failed"} : Follows([c EXCEPT !.shown = x], c)
BY DEF CallRecords, Follows

\* A call follows itself.
LEMMA Follow == PortalTypeOK => \A i \in DOMAIN calls : Follows(calls[i], calls[i])
BY CallsAreRecords, Following

\* The portal's invariant holds at the start.
LEMMA PortalInitInv == PortalInit => PortalInv
<1> SUFFICES ASSUME PortalInit PROVE PortalInv
  OBVIOUS
<1>1. IsCache([k \in Keys |-> Empty])
  BY EmptyIsEntry DEF IsCache
<1>2. IsCache(cache)
  BY <1>1, OpenedKeeps DEF PortalInit
<1> QED BY <1>2, EventsAssumption DEF PortalInit, PortalInv, PortalTypeOK

\* What opening a page leaves true.
LEMMA GoToInv ==
    ASSUME PortalInv, NEW p \in Pages, NEW ch \in {0, 1}, GoTo(p, ch), db' = db,
           events' \in 0..MaxEvents
    PROVE  PortalInv'
<1>1. PortalTypeOK
  BY DEF PortalInv
<1>2. \A k \in Keys : \A w : Fresh(cache[k], w) => Fresh(cache'[k], w)
  BY <1>1, OpenedKeeps DEF PortalTypeOK, GoTo
<1>3. IsCache(cache')
  BY <1>1, OpenedKeeps DEF PortalTypeOK, GoTo
<1>4. /\ DOMAIN calls' = DOMAIN calls
      /\ calls' = [i \in DOMAIN calls |-> calls'[i]]
      /\ \A i \in DOMAIN calls : calls'[i] = [calls[i] EXCEPT !.left = TRUE]
  BY DEF GoTo, LeftBehind
<1>5. \A i \in DOMAIN calls : Follows(calls'[i], calls[i])
  BY <1>1, <1>4, CallsAreRecords, Following
<1>6. calls' \in Seq(CallRecords)
  BY <1>1, <1>4, <1>5, CallsChangedOneByOne DEF PortalTypeOK, Follows
<1> QED BY <1>2, <1>3, <1>4, <1>5, <1>6, CacheStepInv DEF GoTo

\* What Visit leaves true.
LEMMA VisitInv == ASSUME PortalInv, NEW p \in Pages, Visit(p) PROVE PortalInv'
<1>1. events' \in 0..MaxEvents
  BY EventsAssumption DEF PortalInv, PortalTypeOK, Visit, Counted
<1> QED BY <1>1, GoToInv DEF Visit

\* What ChooseFilter leaves true.
LEMMA ChooseFilterInv == ASSUME PortalInv, ChooseFilter PROVE PortalInv'
<1>1. PortalTypeOK
  BY DEF PortalInv
<1>2. events' \in 0..MaxEvents /\ choice' \in {0, 1}
  BY <1>1, EventsAssumption DEF PortalTypeOK, ChooseFilter, Counted
<1>3. IsCache(cache') /\ \A k \in Keys : \A w : Fresh(cache[k], w) => Fresh(cache'[k], w)
  BY <1>1, OpenedKeeps DEF PortalTypeOK, ChooseFilter
<1>4. \A i \in DOMAIN calls : Follows(calls'[i], calls[i])
  BY <1>1, Follow DEF ChooseFilter
<1> QED BY <1>1, <1>2, <1>3, <1>4, CacheStepInv DEF ChooseFilter, PortalTypeOK

\* What loading a page leaves true.
LEMMA LoadInv ==
    ASSUME PortalInv, NEW p \in Pages, Load(p), events' \in 0..MaxEvents PROVE PortalInv'
<1>1. PortalTypeOK
  BY DEF PortalInv
<1> DEFINE empty == [k \in Keys |-> Empty]
<1>3. IsCache(empty) /\ \A k \in Keys : \A w : Fresh(empty[k], w)
  BY EmptyIsEntry DEF IsCache, Fresh, Empty, HasData, Busy
<1>4. IsCache(cache') /\ \A k \in Keys : \A w : Fresh(cache'[k], w)
  <2> HIDE DEF empty
  <2>1. \E ks : cache' = Opened(empty, ks)
    BY DEF Load, empty
  <2> QED BY <1>3, <2>1, OpenedKeeps
<1>5. /\ DOMAIN calls' = DOMAIN calls
      /\ calls' = [i \in DOMAIN calls |-> calls'[i]]
      /\ \A i \in DOMAIN calls :
            calls'[i] = calls[i] \/ calls'[i] = [calls[i] EXCEPT !.shown = "gone"]
  BY DEF Load
<1>6. \A i \in DOMAIN calls : Follows(calls'[i], calls[i])
  BY <1>1, <1>5, CallsAreRecords, Following
<1>7. calls' \in Seq(CallRecords)
  BY <1>1, <1>5, <1>6, CallsChangedOneByOne DEF PortalTypeOK, Follows
<1> QED BY <1>1, <1>4, <1>5, <1>6, <1>7, CacheStepInv DEF Load, PortalTypeOK

\* What Reload leaves true.
LEMMA ReloadInv == ASSUME PortalInv, Reload PROVE PortalInv'
<1>1. events' \in 0..MaxEvents
  BY EventsAssumption DEF PortalInv, PortalTypeOK, Reload, Counted
<1>2. PICK p \in {page, "login"} : Load(p)
  BY DEF Reload
<1>3. p \in Pages
  BY PagesAssumption DEF PortalInv, PortalTypeOK
<1> QED BY <1>1, <1>2, <1>3, LoadInv

\* What RefreshFails leaves true.
LEMMA RefreshFailsInv == ASSUME PortalInv, NEW k \in Keys, RefreshFails(k) PROVE PortalInv'
BY LoadInv, PagesAssumption DEF PortalInv, PortalTypeOK, RefreshFails

\* Steps that change one entry only.
LEMMA EntryStepInv ==
    ASSUME PortalInv, NEW k \in Keys, NEW e, IsEntry(e, k[1]),
           cache' = [cache EXCEPT ![k] = e],
           events' \in 0..MaxEvents, UNCHANGED <<db, page, choice, calls>>,
           \A i \in DOMAIN calls :
               OfItsPage(k, calls[i]) /\ Fresh(cache[k], calls[i].wrote) => Fresh(e, calls[i].wrote)
    PROVE  PortalInv'
<1>1. PortalTypeOK
  BY DEF PortalInv
<1>2. IsCache(cache')
  BY <1>1 DEF PortalTypeOK, IsCache
<1>3. \A j \in Keys : cache'[j] = IF j = k THEN e ELSE cache[j]
  BY <1>1 DEF PortalTypeOK, IsCache
<1>4. \A i \in DOMAIN calls : Follows(calls'[i], calls[i])
  BY <1>1, Follow
<1>5. \A j \in Keys : \A i \in DOMAIN calls :
          OfItsPage(j, calls[i]) /\ Fresh(cache[j], calls[i].wrote) => Fresh(cache'[j], calls[i].wrote)
  BY <1>3
<1> QED BY <1>1, <1>2, <1>4, <1>5, CacheStepInv DEF PortalTypeOK

\* What the invariant says of one entry and the database.
LEMMA EntryOf ==
    ASSUME PortalInv, NEW k \in Keys
    PROVE  /\ IsEntry(cache[k], k[1])
           /\ events \in 0..MaxEvents
           /\ \A t \in TablesOf({k[1]}) : t \in Tables /\ db[t] \in Nat
           /\ \A i \in DOMAIN calls :
                 /\ calls[i].wrote \in [Tables -> Nat]
                 /\ \A t \in TablesOf({k[1]}) : db[t] >= calls[i].wrote[t]
<1>1. PortalTypeOK
  BY DEF PortalInv
<1>2. TablesOf({k[1]}) \subseteq Tables
  BY KeysAre
<1>3. \A i \in DOMAIN calls : calls[i].wrote \in [Tables -> Nat]
  BY <1>1, CallsAreRecords DEF CallRecords
<1>4. \A i \in DOMAIN calls : \A t \in Tables : calls[i].wrote[t] <= db[t]
  BY DEF PortalInv, Done
<1> QED BY <1>1, <1>2, <1>3, <1>4 DEF PortalTypeOK, IsCache

\* What Read leaves true.
LEMMA ReadInv == ASSUME PortalInv, NEW k \in Keys, Read(k) PROVE PortalInv'
<1> DEFINE e == cache[k]
           row == Reads[k[1]][e.step]
           seen == [t \in DOMAIN e.seen \cup row |-> IF t \in DOMAIN e.seen THEN e.seen[t] ELSE db[t]]
           step == NextStep(k[1], e.step + 1, DOMAIN seen)
           new == [e EXCEPT !.seen = seen, !.step = step]
<1>1. IsEntry(e, k[1]) /\ events \in 0..MaxEvents
  BY EntryOf
<1>2. e.step \in Nat \ {0} /\ e.step <= Len(Reads[k[1]]) /\ Len(Reads[k[1]]) \in Nat
      /\ k[1] \in Queries
  BY <1>1, KeysAre, QueriesAre DEF Read, Busy, IsEntry
<1>3. row \subseteq TablesOf({k[1]})
  <2>1. k[1] \in Observed /\ e.step \in DOMAIN Reads[k[1]]
    <3>1. DOMAIN Reads[k[1]] = 1..Len(Reads[k[1]])
      BY <1>2, QueriesAre
    <3>2. k[1] \in Observed
      BY KeysAre
    <3> HIDE DEF e
    <3> QED BY <1>2, <3>1, <3>2
  <2> HIDE DEF e
  <2> QED BY <2>1, KeysAre
<1>4. IsVersions(seen, k[1])
  <2>1. \A t \in row : db[t] \in Nat
    BY <1>3, EntryOf
  <2>2. DOMAIN e.seen \subseteq TablesOf({k[1]}) /\ \A t \in DOMAIN e.seen : e.seen[t] \in Nat
    BY <1>1 DEF IsEntry, IsVersions
  <2> HIDE DEF e, row
  <2> QED BY <1>3, <2>1, <2>2 DEF IsVersions
<1>5. step \in Nat
  <2> HIDE DEF seen
  <2>1. step \in e.step + 1..Len(Reads[k[1]]) + 1
    BY <1>2, NextStepExists
  <2> QED BY <1>2, <2>1
<1>6. new.seen = seen /\ new.step = step /\ new.data = e.data /\ new.stale = e.stale
      /\ new.overtaken = e.overtaken
      /\ new \in [data: {e.data}, stale: BOOLEAN, step: Nat, seen: {seen}, tries: {0, 1},
                  auth: {"fresh", "renewing", "renewed"}, overtaken: BOOLEAN]
  <2> HIDE DEF seen, step
  <2> QED BY <1>1, <1>5 DEF IsEntry
<1>7. cache' = [cache EXCEPT ![k] = new]
  <2>1. cache' = [cache EXCEPT ![k].seen = seen, ![k].step = step]
    BY DEF Read
  <2> HIDE DEF seen, step
  <2> QED BY <2>1 DEF PortalInv, PortalTypeOK, IsCache
<1>8. ASSUME NEW i \in DOMAIN calls, Fresh(e, calls[i].wrote) PROVE Fresh(new, calls[i].wrote)
  <2>1. Busy(e)
    BY DEF Read
  <2>2. ASSUME ~e.overtaken PROVE AsNew(seen, calls[i].wrote)
    <3>1. AsNew(e.seen, calls[i].wrote)
      BY <1>8, <2>1, <2>2 DEF Fresh
    <3> QED BY <1>3, <3>1, EntryOf DEF AsNew
  <2> HIDE DEF seen, step, new
  <2> QED BY <1>6, <1>8, <2>1, <2>2 DEF Fresh, HasData, Busy
<1>9. IsEntry(new, k[1])
  <2> HIDE DEF seen, step, new
  <2> QED BY <1>1, <1>4, <1>6 DEF IsEntry
<1> HIDE DEF new
<1> QED BY <1>1, <1>7, <1>8, <1>9, EntryStepInv DEF Read

\* What FetchFails leaves true.
LEMMA FetchFailsInv == ASSUME PortalInv, NEW k \in Keys, FetchFails(k) PROVE PortalInv'
<1> DEFINE e == cache[k]
           again == e.tries < Retries(k) /\ k \in Mounted(page, choice, cache)
           step == IF again THEN 1 ELSE 0
           tries == IF again THEN e.tries + 1 ELSE 0
           new == [e EXCEPT !.seen = <<>>, !.step = step, !.tries = tries, !.auth = "fresh"]
<1>1. IsEntry(e, k[1]) /\ events \in 0..MaxEvents
  BY EntryOf
<1>2. step \in Nat /\ tries \in {0, 1}
  BY <1>1 DEF IsEntry, Retries
<1>3. /\ new.seen = <<>> /\ new.data = e.data /\ new.stale = e.stale /\ new.overtaken = e.overtaken
      /\ new \in [data: {e.data}, stale: BOOLEAN, step: Nat, seen: {<<>>}, tries: {0, 1},
                  auth: {"fresh", "renewing", "renewed"}, overtaken: BOOLEAN]
  <2> HIDE DEF step, tries
  <2> QED BY <1>1, <1>2 DEF IsEntry
<1>4. cache' = [cache EXCEPT ![k] = new]
  <2>1. cache' = [cache EXCEPT ![k].seen = <<>>, ![k].step = step, ![k].tries = tries,
                               ![k].auth = "fresh"]
    BY DEF FetchFails
  <2> HIDE DEF step, tries
  <2> QED BY <2>1 DEF PortalInv, PortalTypeOK, IsCache
<1> HIDE DEF new
<1>5. IsEntry(new, k[1])
  <2>1. IsVersions(<<>>, k[1])
    BY DEF IsVersions
  <2> QED BY <1>1, <1>3, <2>1 DEF IsEntry
<1>6. \A w : Fresh(e, w) => Fresh(new, w)
  BY <1>3 DEF Fresh, HasData, AsNew
<1> QED BY <1>1, <1>4, <1>5, <1>6, EntryStepInv DEF FetchFails

\* What a 401, and the new tokens after it, leave true.
LEMMA TokensInv ==
    ASSUME PortalInv, NEW k \in Keys, FetchRefused(k) \/ FetchRenewed(k) PROVE PortalInv'
<1> DEFINE e == cache[k]
<1>1. PICK a \in {"renewing", "renewed"} : cache' = [cache EXCEPT ![k].auth = a]
  BY DEF FetchRefused, FetchRenewed
<1> DEFINE new == [e EXCEPT !.auth = a]
<1>2. IsEntry(new, k[1]) /\ \A w : Fresh(e, w) => Fresh(new, w)
  BY EntryOf DEF IsEntry, IsVersions, Fresh, HasData, Busy
<1>3. cache' = [cache EXCEPT ![k] = new]
  BY <1>1 DEF PortalInv, PortalTypeOK, IsCache
<1>4. events' \in 0..MaxEvents
  BY EntryOf DEF FetchRefused, FetchRenewed
<1> HIDE DEF new
<1> QED BY <1>2, <1>3, <1>4, EntryStepInv DEF FetchRefused, FetchRenewed

\* What AgeOut leaves true.
LEMMA AgeOutInv == ASSUME PortalInv, NEW k \in Keys, AgeOut(k) PROVE PortalInv'
<1> DEFINE e == cache[k]
           new == [e EXCEPT !.stale = TRUE]
<1>1. events' \in 0..MaxEvents
  BY EventsAssumption DEF AgeOut, Counted, PortalInv, PortalTypeOK
<1>2. IsEntry(new, k[1]) /\ \A w : Fresh(e, w) => Fresh(new, w)
  BY EntryOf DEF IsEntry, IsVersions, Fresh, HasData, Busy
<1>3. cache' = [cache EXCEPT ![k] = new]
  BY DEF AgeOut, PortalInv, PortalTypeOK, IsCache
<1> HIDE DEF new
<1> QED BY <1>1, <1>2, <1>3, EntryStepInv DEF AgeOut

\* What Forget leaves true.
LEMMA ForgetInv == ASSUME PortalInv, NEW k \in Keys, Forget(k) PROVE PortalInv'
<1>1. events' \in 0..MaxEvents
  BY EventsAssumption DEF Forget, Counted, PortalInv, PortalTypeOK
<1>2. IsEntry(Empty, k[1]) /\ \A w : Fresh(Empty, w)
  BY EmptyIsEntry DEF Fresh, Empty, HasData, Busy
<1> QED BY <1>1, <1>2, EntryStepInv DEF Forget

\* No operation changes the list of agents on its page.
LEMMA PollInv == ASSUME PortalInv, Poll PROVE PortalInv'
<1>1. AgentKey \in Keys
  BY MountedAreKeys DEF Poll, PortalInv, PortalTypeOK
<1>2. IsEntry(cache[AgentKey], AgentKey[1]) /\ events \in 0..MaxEvents
  BY <1>1, EntryOf
<1>3. cache' = [cache EXCEPT ![AgentKey] = Begun(cache[AgentKey])]
  BY <1>1 DEF Poll, PortalInv, PortalTypeOK, IsCache
<1>4. AgentKey[1] = "agents"
  BY DEF AgentKey, Key
<1>5. \A i \in DOMAIN calls : ~OfItsPage(AgentKey, calls[i])
  <2>1. \A i \in DOMAIN calls : calls[i].op \in Operations
    BY CallsAreRecords DEF PortalInv, CallRecords
  <2>2. \A o \in Operations : "agents" \notin Shows[PageOf(o)]
    BY OperationsAre, PagesAre, ShowsAre
  <2> QED BY <1>4, <2>1, <2>2 DEF OfItsPage
<1> QED BY <1>1, <1>2, <1>3, <1>5, BegunIsEntry, EntryStepInv DEF Poll

\* What Arrive leaves true.
LEMMA ArriveInv == ASSUME PortalInv, NEW k \in Keys, Arrive(k) PROVE PortalInv'
<1> DEFINE e == cache[k]
           new == [e EXCEPT !.data = e.seen, !.stale = FALSE, !.step = 0, !.seen = <<>>,
                            !.tries = 0, !.auth = "fresh"]
           c == [cache EXCEPT ![k] = new]
<1>1. IsEntry(e, k[1]) /\ IsCache(cache)
  BY EntryOf DEF PortalInv, PortalTypeOK
<1>2. Busy(e)
  <2>1. e.step \in Nat /\ Len(Reads[k[1]]) \in Nat
    BY <1>1, KeysAre, QueriesAre DEF IsEntry
  <2> QED BY <2>1 DEF Arrive, Busy
<1>3. /\ new.seen = <<>> /\ new.data = e.seen /\ new.step = 0 /\ new.overtaken = e.overtaken
      /\ new \in [data: {e.seen}, stale: BOOLEAN, step: Nat, seen: {<<>>}, tries: {0, 1},
                  auth: {"fresh", "renewing", "renewed"}, overtaken: BOOLEAN]
  BY <1>1 DEF IsEntry
<1>4. \E ks : cache' = Opened(c, ks)
  <2>1. c = [cache EXCEPT ![k].data = e.seen, ![k].stale = FALSE,
                          ![k].step = 0, ![k].seen = <<>>, ![k].tries = 0,
                          ![k].auth = "fresh"]
    BY <1>1 DEF IsCache
  <2> HIDE DEF new, c
  <2> QED BY <2>1 DEF Arrive
<1> HIDE DEF new
<1>5. IsEntry(new, k[1])
  <2>1. IsVersions(<<>>, k[1])
    BY DEF IsVersions
  <2> QED BY <1>1, <1>3, <2>1 DEF IsEntry
<1>6. \A w : Fresh(e, w) => Fresh(new, w)
  BY <1>2, <1>3 DEF Fresh, Busy
<1>7. IsCache(c) /\ \A j \in Keys : \A w : Fresh(cache[j], w) => Fresh(c[j], w)
  BY <1>1, <1>5, <1>6 DEF IsCache
<1>8. IsCache(cache') /\ \A j \in Keys : \A w : Fresh(cache[j], w) => Fresh(cache'[j], w)
  <2> HIDE DEF c
  <2> QED BY <1>4, <1>7, OpenedKeeps
<1>9. \A i \in DOMAIN calls : Follows(calls'[i], calls[i])
  BY Follow DEF Arrive, PortalInv
<1> QED BY <1>8, <1>9, CacheStepInv DEF Arrive, PortalInv, PortalTypeOK

\* What Disappoint leaves true.
LEMMA DisappointInv == ASSUME PortalInv, NEW i \in DOMAIN calls, Disappoint(i) PROVE PortalInv'
<1> DEFINE c == [calls[i] EXCEPT !.shown = "failed"]
<1>1. PortalTypeOK
  BY DEF PortalInv
<1>2. Follows(c, calls[i])
  BY <1>1, CallsAreRecords, Following
<1>3. calls' = [calls EXCEPT ![i] = c]
  BY DEF Disappoint
<1>4. c \in CallRecords
  BY <1>2 DEF Follows
<1>5. /\ calls' \in Seq(CallRecords) /\ DOMAIN calls' = DOMAIN calls
      /\ calls'[i] = c /\ \A j \in DOMAIN calls \ {i} : calls'[j] = calls[j]
  <2> HIDE DEF c
  <2> QED BY <1>1, <1>3, <1>4, OneCallChanged DEF PortalTypeOK
<1>6. \A j \in DOMAIN calls : Follows(calls'[j], calls[j])
  BY <1>1, <1>2, <1>5, Follow
<1> QED BY <1>1, <1>5, <1>6, CacheStepInv DEF Disappoint, PortalTypeOK

\* Steps of the calls.
LEMMA CallStepInv ==
    ASSUME PortalInv, UNCHANGED <<page, choice, cache>>, events' \in 0..MaxEvents,
           db' \in [Tables -> Nat], \A t \in Tables : db[t] <= db'[t],
           calls' \in Seq(CallRecords),
           \A i \in DOMAIN calls' :
               \/ i \in DOMAIN calls /\ calls'[i] = calls[i]
               \/ StepByStep(calls'[i]) /\ Done(calls'[i], db') /\ calls'[i].shown # "ok"
    PROVE  PortalInv'
<1>1. PortalTypeOK
  BY DEF PortalInv
<1>2. PortalTypeOK'
  BY <1>1 DEF PortalTypeOK, IsCache
<1>3. ASSUME NEW i \in DOMAIN calls', i \in DOMAIN calls, calls'[i] = calls[i]
      PROVE  (StepByStep(calls[i]) /\ Done(calls[i], db) /\ Shown(calls[i], cache))'
  <2>1. StepByStep(calls[i]) /\ Done(calls[i], db) /\ Shown(calls[i], cache) /\ calls[i].wrote \in [Tables -> Nat]
    BY <1>1, <1>3, CallsAreRecords DEF PortalInv, CallRecords
  <2>2. Done(calls[i], db')
    <3>1. \A u \in Tables : calls[i].wrote[u] <= db[u]
      BY <2>1 DEF Done
    <3>2. \A u \in Tables : calls[i].wrote[u] <= db'[u]
      BY <1>1, <2>1, <3>1 DEF PortalTypeOK
    <3> QED BY <2>1, <3>2 DEF Done
  <2>3. Shown(calls[i], cache')
    BY <2>1
  <2> QED BY <1>3, <2>1, <2>2, <2>3
<1>4. ASSUME NEW i \in DOMAIN calls', calls'[i].shown # "ok" PROVE Shown(calls'[i], cache')
  BY <1>4 DEF Shown
<1> QED BY <1>2, <1>3, <1>4 DEF PortalInv

\* What OthersWrite leaves true.
LEMMA OthersWriteInv == ASSUME PortalInv, NEW t \in Shared, OthersWrite(t) PROVE PortalInv'
<1>1. events' \in 0..MaxEvents
  BY EventsAssumption DEF PortalInv, PortalTypeOK, OthersWrite, Counted
<1>2. db' \in [Tables -> Nat] /\ \A u \in Tables : db[u] <= db'[u]
  BY SharedAssumption DEF PortalInv, PortalTypeOK, OthersWrite
<1> QED BY <1>1, <1>2, CallStepInv DEF OthersWrite, PortalInv, PortalTypeOK

\* What Click leaves true.
LEMMA ClickInv == ASSUME PortalInv, NEW o \in Operations, Click(o) PROVE PortalInv'
<1> DEFINE c == [op |-> o, param |-> choice, marks |-> choice, step |-> 1,
                 wrote |-> [t \in Tables |-> 0], answer |-> "none",
                 shown |-> "pending", left |-> FALSE]
<1>1. PortalTypeOK
  BY DEF PortalInv
<1>2. c \in CallRecords
  BY <1>1 DEF CallRecords, PortalTypeOK
<1>3. events' \in 0..MaxEvents
  BY <1>1, EventsAssumption DEF PortalTypeOK, Click, Counted
<1>4. PageOf(o) \in Pages
  BY <1>1, PagesAre DEF Click, PortalTypeOK
<1>5. Len(Steps[o]) \in Nat \ {0}
  BY StepsAreSequences
<1>6. StepByStep(c)
  BY <1>1, <1>4, <1>5 DEF StepByStep, PortalTypeOK
<1>7. Done(c, db')
  BY <1>1 DEF Done, Click, PortalTypeOK
<1>8. calls' = Append(calls, c)
  BY DEF Click
<1>9. c.shown # "ok"
  OBVIOUS
<1> HIDE DEF c
<1>10. calls' \in Seq(CallRecords)
  BY <1>1, <1>2, <1>8 DEF PortalTypeOK
<1>11. ASSUME NEW i \in DOMAIN calls'
       PROVE  (i \in DOMAIN calls /\ calls'[i] = calls[i]) \/ calls'[i] = c
  BY <1>1, <1>2, <1>8, <1>11 DEF PortalTypeOK
<1>12. \A i \in DOMAIN calls' :
          \/ i \in DOMAIN calls /\ calls'[i] = calls[i]
          \/ StepByStep(calls'[i]) /\ Done(calls'[i], db') /\ calls'[i].shown # "ok"
  BY <1>6, <1>7, <1>9, <1>11
<1>13. db' = db /\ \A t \in Tables : db[t] <= db'[t]
  BY <1>1 DEF Click, PortalTypeOK
<1> QED BY <1>1, <1>3, <1>10, <1>12, <1>13, CallStepInv DEF Click, PortalTypeOK

\* A call that is being worked on, at the next of its steps.
LEMMA AtWork ==
    ASSUME PortalInv, NEW i \in DOMAIN calls, Working(i)
    PROVE  LET c == calls[i]
               s == Steps[c.op][c.step]
           IN  /\ c \in CallRecords /\ PageOf(c.op) \in Pages /\ c.marks \in {c.param, 1}
               /\ c.step \in 1..Len(Steps[c.op]) /\ DOMAIN Steps[c.op] = 1..Len(Steps[c.op])
               /\ Len(Steps[c.op]) \in Nat
               /\ c.shown # "ok"
               /\ \A t \in Tables : c.wrote[t] \in Nat /\ db[t] \in Nat /\ c.wrote[t] <= db[t]
<1> DEFINE c == calls[i]
<1>1. c \in CallRecords
  BY CallsAreRecords DEF PortalInv
<1>2. StepByStep(c) /\ Done(c, db) /\ c.answer = "none"
  BY DEF PortalInv, Working
<1>3. c.op \in Operations /\ c.step \in Nat \ {0} /\ c.wrote \in [Tables -> Nat]
  BY <1>1 DEF CallRecords
<1> HIDE DEF c
<1>4. Len(Steps[c.op]) \in Nat /\ DOMAIN Steps[c.op] = 1..Len(Steps[c.op])
  BY <1>3, StepsAreSequences
<1>5. c.step \in 1..Len(Steps[c.op]) /\ c.shown # "ok"
  BY <1>2, <1>3, <1>4 DEF StepByStep
<1>6. PageOf(c.op) \in Pages /\ c.marks \in {c.param, 1}
  BY <1>2 DEF StepByStep
<1>7. \A t \in Tables : c.wrote[t] \in Nat /\ db[t] \in Nat /\ c.wrote[t] <= db[t]
  BY <1>2, <1>3 DEF Done, PortalInv, PortalTypeOK
<1> QED BY <1>1, <1>4, <1>5, <1>6, <1>7 DEF c

\* One call moves on, and the database does not go back.
LEMMA OneCallInv ==
    ASSUME PortalInv, NEW i \in DOMAIN calls, NEW c \in CallRecords,
           calls' = [calls EXCEPT ![i] = c], UNCHANGED <<page, choice, cache, events>>,
           db' \in [Tables -> Nat], \A t \in Tables : db[t] <= db'[t],
           StepByStep(c), Done(c, db'), c.shown # "ok"
    PROVE  PortalInv'
<1>1. /\ calls' \in Seq(CallRecords) /\ DOMAIN calls' = DOMAIN calls
      /\ calls'[i] = c /\ \A j \in DOMAIN calls \ {i} : calls'[j] = calls[j]
  BY OneCallChanged DEF PortalInv, PortalTypeOK
<1> QED BY <1>1, CallStepInv DEF PortalInv, PortalTypeOK

\* What Execute leaves true.
LEMMA ExecuteInv == ASSUME PortalInv, NEW i \in DOMAIN calls, Execute(i) PROVE PortalInv'
<1> DEFINE c == calls[i]
           s == Steps[c.op][c.step]
           t == s[2]
           writes == s[1] # "check" /\ t \in Tables
           answer == IF c.step = Len(Steps[c.op]) THEN "ok" ELSE "none"
           wrote == IF writes THEN [c.wrote EXCEPT ![t] = db[t] + 1] ELSE c.wrote
           after == [c EXCEPT !.step = c.step + 1, !.answer = answer]
           new == [after EXCEPT !.wrote = wrote]
<1>1. /\ c \in CallRecords /\ PageOf(c.op) \in Pages /\ c.marks \in {c.param, 1}
      /\ c.step \in 1..Len(Steps[c.op]) /\ DOMAIN Steps[c.op] = 1..Len(Steps[c.op])
      /\ Len(Steps[c.op]) \in Nat
      /\ c.shown # "ok"
      /\ \A u \in Tables : c.wrote[u] \in Nat /\ db[u] \in Nat /\ c.wrote[u] <= db[u]
  BY AtWork DEF Execute
<1>2. Done(c, db) /\ c.wrote \in [Tables -> Nat] /\ db \in [Tables -> Nat]
  BY <1>1 DEF PortalInv, PortalTypeOK, CallRecords
<1>3. /\ wrote \in [Tables -> Nat]
      /\ \A u \in Tables : wrote[u] = IF writes /\ u = t THEN db[u] + 1 ELSE c.wrote[u]
  <2> HIDE DEF c, s
  <2> QED BY <1>1, <1>2
<1>4. db' = IF writes THEN [db EXCEPT ![t] = db[t] + 1] ELSE db
  BY DEF Execute
<1>5. /\ db' \in [Tables -> Nat]
      /\ \A u \in Tables : db'[u] = IF writes /\ u = t THEN db[u] + 1 ELSE db[u]
  <2> HIDE DEF c, s
  <2> QED BY <1>2, <1>4
<1>6. After(i) = after /\ after.wrote = c.wrote
  BY <1>1 DEF After, CallRecords
<1>7. calls' = [calls EXCEPT ![i] = new]
  <2> HIDE DEF after
  <2> QED BY <1>6 DEF Execute
<1>8. /\ new \in CallRecords /\ new.op = c.op /\ new.param = c.param /\ new.marks = c.marks
      /\ new.step = c.step + 1 /\ new.wrote = wrote
      /\ new.answer = answer /\ new.shown = c.shown
  <2>1. answer \in {"none", "ok"} /\ c.step + 1 \in Nat \ {0}
    BY <1>1
  <2> HIDE DEF c, wrote, answer
  <2> QED BY <1>1, <1>3, <2>1 DEF CallRecords
<1>10. ASSUME NEW u \in Tables, wrote[u] > 0
       PROVE  \E j \in DOMAIN Steps[c.op] : Steps[c.op][j][1] # "check" /\ Steps[c.op][j][2] = u
  <2>1. CASE writes /\ u = t
    BY <1>1, <2>1
  <2>2. CASE ~(writes /\ u = t)
    <3>1. c.wrote[u] > 0
      <4> HIDE DEF writes, t, wrote, c
      <4> QED BY <1>3, <1>10, <2>2
    <3> HIDE DEF c
    <3> QED BY <1>2, <3>1 DEF Done
  <2> QED BY <2>1, <2>2
<1> HIDE DEF c, s, t, writes, wrote, after, new
<1>11. StepByStep(new)
  BY <1>1, <1>8 DEF StepByStep
<1>12. \A u \in Tables : wrote[u] <= db'[u] /\ db[u] <= db'[u]
  BY <1>1, <1>3, <1>5
<1>13. Done(new, db')
  BY <1>8, <1>10, <1>12 DEF Done
<1> QED BY <1>5, <1>7, <1>8, <1>1, <1>11, <1>12, <1>13, OneCallInv DEF Execute

\* What StatementFails leaves true.
LEMMA StatementFailsInv ==
    ASSUME PortalInv, NEW i \in DOMAIN calls, StatementFails(i) PROVE PortalInv'
<1> DEFINE c == calls[i]
           s == Steps[c.op][c.step]
           new == IF s[1] \in {"try", "audit"} THEN After(i) ELSE [c EXCEPT !.answer = "failed"]
<1>1. /\ c \in CallRecords /\ PageOf(c.op) \in Pages /\ c.marks \in {c.param, 1}
      /\ c.step \in 1..Len(Steps[c.op]) /\ DOMAIN Steps[c.op] = 1..Len(Steps[c.op])
      /\ Len(Steps[c.op]) \in Nat
      /\ c.shown # "ok"
      /\ \A u \in Tables : c.wrote[u] \in Nat /\ db[u] \in Nat /\ c.wrote[u] <= db[u]
  BY AtWork DEF StatementFails
<1>2. Done(c, db) /\ db \in [Tables -> Nat]
  BY DEF PortalInv, PortalTypeOK
<1>3. calls' = [calls EXCEPT ![i] = new] /\ db' = db
  BY DEF StatementFails
<1>4. new \in CallRecords /\ StepByStep(new) /\ Done(new, db) /\ new.shown # "ok"
  <2>1. CASE s[1] \in {"try", "audit"}
    <3>1. /\ new \in CallRecords /\ new.op = c.op /\ new.param = c.param /\ new.marks = c.marks
          /\ new.step = c.step + 1 /\ new.wrote = c.wrote
          /\ new.answer = IF c.step = Len(Steps[c.op]) THEN "ok" ELSE "none"
          /\ new.shown = c.shown
      <4> DEFINE answer == IF c.step = Len(Steps[c.op]) THEN "ok" ELSE "none"
      <4>1. new = [c EXCEPT !.step = c.step + 1, !.answer = answer]
        BY <2>1 DEF After
      <4>2. answer \in {"none", "ok"} /\ c.step + 1 \in Nat \ {0}
        BY <1>1
      <4>3. new.answer = answer
        <5> HIDE DEF new, c, s, answer
        <5> QED BY <1>1, <4>1 DEF CallRecords
      <4>4. /\ new \in CallRecords /\ new.op = c.op /\ new.param = c.param /\ new.marks = c.marks
            /\ new.step = c.step + 1 /\ new.wrote = c.wrote
            /\ new.shown = c.shown
        <5> HIDE DEF new, c, s, answer
        <5> QED BY <1>1, <4>1, <4>2 DEF CallRecords
      <4> QED BY <4>3, <4>4
    <3> HIDE DEF new
    <3>2. StepByStep(new)
      BY <1>1, <3>1 DEF StepByStep
    <3>3. Done(new, db)
      <4> HIDE DEF c, s
      <4> QED BY <1>2, <3>1 DEF Done
    <3> QED BY <1>1, <3>1, <3>2, <3>3
  <2>2. CASE s[1] \notin {"try", "audit"}
    <3>1. /\ new \in CallRecords /\ new.op = c.op /\ new.param = c.param /\ new.marks = c.marks
          /\ new.step = c.step /\ new.wrote = c.wrote
          /\ new.answer = "failed" /\ new.shown = c.shown
      <4>1. new = [c EXCEPT !.answer = "failed"]
        BY <2>2
      <4> HIDE DEF new, s
      <4> QED BY <1>1, <4>1 DEF CallRecords
    <3> HIDE DEF new
    <3>2. StepByStep(new)
      BY <1>1, <3>1 DEF StepByStep
    <3>3. Done(new, db)
      <4> HIDE DEF c, s
      <4> QED BY <1>2, <3>1 DEF Done
    <3> QED BY <1>1, <3>1, <3>2, <3>3
  <2> QED BY <2>1, <2>2
<1> HIDE DEF new
<1>5. Done(new, db')
  BY <1>3, <1>4
<1>6. \A u \in Tables : db[u] <= db'[u]
  BY <1>1, <1>3
<1> QED BY <1>2, <1>3, <1>4, <1>5, <1>6, OneCallInv DEF StatementFails

\* A call after the answer of some call has arrived.
Heard(d, c) ==
    /\ d \in CallRecords
    /\ d.op = c.op /\ d.param = c.param /\ d.step = c.step /\ d.wrote = c.wrote
    /\ d.answer = c.answer
    /\ d.marks \in {c.marks, 1}

\* The ways a call changes when an answer arrives.
LEMMA Hearing ==
    ASSUME NEW c \in CallRecords
    PROVE  /\ Heard(c, c) /\ Heard([c EXCEPT !.left = TRUE], c) /\ Heard([c EXCEPT !.marks = 1], c)
           /\ [c EXCEPT !.left = TRUE].shown = c.shown /\ [c EXCEPT !.marks = 1].shown = c.shown
           /\ Heard([c EXCEPT !.shown = "ok"], c) /\ [c EXCEPT !.shown = "ok"].shown = "ok"
           /\ [c EXCEPT !.shown = "ok"].marks = c.marks
BY DEF CallRecords, Heard

\* The calls after the answer of call i.
LEMMA ConfirmedCalls ==
    ASSUME PortalTypeOK, NEW i \in DOMAIN calls, Confirm(i)
    PROVE  /\ calls' \in Seq(CallRecords) /\ DOMAIN calls' = DOMAIN calls
           /\ \A j \in DOMAIN calls :
                 Heard(calls'[j], calls[j]) /\ (j # i => calls'[j].shown = calls[j].shown)
           /\ calls[i].op # "onboard" => calls'[i].marks = calls[i].marks
<1> DEFINE c == [calls[i] EXCEPT !.shown = "ok"]
           answered == [calls EXCEPT ![i] = c]
<1>1. \A j \in DOMAIN calls : calls[j] \in CallRecords
  BY CallsAreRecords
<1>2. Heard(c, calls[i]) /\ c \in CallRecords /\ c.marks = calls[i].marks
  <2>1. Heard(c, calls[i]) /\ c.marks = calls[i].marks
    BY <1>1, Hearing
  <2> QED BY <2>1 DEF Heard
<1>3. /\ answered \in Seq(CallRecords) /\ DOMAIN answered = DOMAIN calls
      /\ answered[i] = c /\ \A j \in DOMAIN calls \ {i} : answered[j] = calls[j]
  <2> HIDE DEF c
  <2> QED BY <1>2, OneCallChanged DEF PortalTypeOK
<1>4. \/ calls' = answered
      \/ calls[i].op = "onboard" /\ calls' = LeftBehind(answered)
      \/ calls[i].op = "onboard" /\ calls' = TurnedTo(1, answered)
  BY DEF Confirm
<1> HIDE DEF c, answered
<1>5. DOMAIN calls' = DOMAIN calls /\ calls' = [j \in DOMAIN calls |-> calls'[j]]
  BY <1>3, <1>4 DEF LeftBehind, TurnedTo
<1>6. \A j \in DOMAIN calls :
          \/ calls'[j] = answered[j]
          \/ calls[i].op = "onboard" /\ calls'[j] = [answered[j] EXCEPT !.left = TRUE]
          \/ calls[i].op = "onboard" /\ calls'[j] = [answered[j] EXCEPT !.marks = 1]
  BY <1>3, <1>4 DEF LeftBehind, TurnedTo
<1>7. ASSUME NEW j \in DOMAIN calls
      PROVE  /\ Heard(calls'[j], calls[j])
             /\ j # i => calls'[j].shown = calls[j].shown
             /\ calls[i].op # "onboard" => calls'[i].marks = calls[i].marks
  <2>1. answered[j] \in CallRecords /\ Heard(answered[j], calls[j])
        /\ (j # i => answered[j].shown = calls[j].shown)
    BY <1>1, <1>2, <1>3, Hearing DEF Heard
  <2>2. Heard(calls'[j], answered[j]) /\ calls'[j].shown = answered[j].shown
    BY <1>6, <2>1, Hearing
  <2>3. Heard(calls'[j], calls[j])
    BY <2>1, <2>2 DEF Heard
  <2> QED BY <1>2, <1>3, <1>6, <2>1, <2>2, <2>3
<1>8. calls' \in Seq(CallRecords)
  <2>1. \A j \in DOMAIN calls : calls'[j] \in CallRecords
    BY <1>7 DEF Heard
  <2> QED BY <1>5, <2>1, CallsChangedOneByOne DEF PortalTypeOK
<1> QED BY <1>5, <1>7, <1>8

\* The entries after it: those it concerns are fresh, the others as fresh as they were.
LEMMA ConfirmedCache ==
    ASSUME PortalTypeOK, NEW i \in DOMAIN calls, Confirm(i)
    PROVE  /\ IsCache(cache')
           /\ \A k \in Keys : \A w : Fresh(cache[k], w) => Fresh(cache'[k], w)
           /\ \A k \in Concerned(i) : \A w : Fresh(cache'[k], w)
<1> DEFINE c == [k \in Keys |->
                   IF k \in Concerned(i)
                   THEN Invalidated(cache[k], k \in Mounted(page, choice, cache)) ELSE cache[k]]
<1>1. IsCache(cache)
  BY DEF PortalTypeOK
<1>2. ASSUME NEW k \in Keys
      PROVE  /\ IsEntry(c[k], k[1])
             /\ \A w : Fresh(cache[k], w) \/ k \in Concerned(i) => Fresh(c[k], w)
  <2>1. IsEntry(cache[k], k[1])
    BY <1>1 DEF IsCache
  <2>2. (k \in Mounted(page, choice, cache)) \in BOOLEAN
    OBVIOUS
  <2>3. CASE k \in Concerned(i)
    BY <2>1, <2>2, <2>3, InvalidatedKeeps
  <2>4. CASE k \notin Concerned(i)
    BY <2>1, <2>4
  <2> QED BY <2>3, <2>4
<1>3. c = [k \in Keys |-> c[k]]
  OBVIOUS
<1>4. cache' = c \/ \E ks : cache' = Opened(c, ks)
  BY DEF Confirm
<1>5. Concerned(i) \subseteq Keys
  BY DEF Concerned
<1> HIDE DEF c
<1>6. IsCache(c)
  BY <1>2, <1>3 DEF IsCache
<1>7. IsCache(cache') /\ \A k \in Keys : \A w : Fresh(c[k], w) => Fresh(cache'[k], w)
  BY <1>4, <1>6, OpenedKeeps
<1> QED BY <1>2, <1>5, <1>7

\* A query of its page that an operation's answer does not mark reads nothing it wrote.
LEMMA UnmarkedIsUntouched ==
    ASSUME NEW c \in CallRecords, NEW d, Done(c, d), NEW k \in Keys, OfItsPage(k, c),
           k[1] \notin Invalidates[c.op], NEW e, IsEntry(e, k[1])
    PROVE  Fresh(e, c.wrote)
<1>1. c.op \in Operations /\ c.wrote \in [Tables -> Nat]
  BY DEF CallRecords
<1>2. ASSUME NEW t \in TablesOf({k[1]}) PROVE t \in Tables /\ c.wrote[t] = 0
  <2>1. t \in Tables
    BY KeysAre
  <2>2. ~ \E j \in DOMAIN Steps[c.op] : Steps[c.op][j][1] # "check" /\ Steps[c.op][j][2] = t
    BY <1>1, WrittenIsMarked DEF OfItsPage
  <2>3. ~(c.wrote[t] > 0)
    BY <2>1, <2>2 DEF Done
  <2> QED BY <1>1, <2>1, <2>3
<1>3. \A f : IsVersions(f, k[1]) => AsNew(f, c.wrote)
  BY <1>2 DEF IsVersions, AsNew
<1> QED BY <1>3 DEF IsEntry, Fresh

\* What the arrival of an answer leaves true.
LEMMA ConfirmInv == ASSUME PortalInv, NEW i \in DOMAIN calls, Confirm(i) PROVE PortalInv'
<1>1. PortalTypeOK
  BY DEF PortalInv
<1>2. /\ calls' \in Seq(CallRecords) /\ DOMAIN calls' = DOMAIN calls
      /\ \A j \in DOMAIN calls :
            Heard(calls'[j], calls[j]) /\ (j # i => calls'[j].shown = calls[j].shown)
      /\ calls[i].op # "onboard" => calls'[i].marks = calls[i].marks
  BY <1>1, ConfirmedCalls
<1>3. /\ IsCache(cache')
      /\ \A k \in Keys : \A w : Fresh(cache[k], w) => Fresh(cache'[k], w)
      /\ \A k \in Concerned(i) : \A w : Fresh(cache'[k], w)
  BY <1>1, ConfirmedCache
<1>4. db' = db /\ events' = events /\ calls[i].answer = "ok"
  BY DEF Confirm
<1>5. page' \in Pages /\ choice' \in {0, 1}
  <2>1. calls[i].op = "onboard" => "tenant" \in Pages
    BY PagesAssumption, PagesAre, OperationsAre DEF PortalInv, StepByStep
  <2> QED BY <1>1, <2>1 DEF Confirm, PortalTypeOK
<1>6. PortalTypeOK'
  BY <1>1, <1>2, <1>3, <1>4, <1>5 DEF PortalTypeOK
<1>7. ASSUME NEW j \in DOMAIN calls
      PROVE  StepByStep(calls'[j]) /\ Done(calls'[j], db') /\ Shown(calls'[j], cache')
  <2> DEFINE d == calls'[j]
             c == calls[j]
  <2>1. StepByStep(c) /\ Done(c, db) /\ Shown(c, cache) /\ c \in CallRecords
    BY <1>1, CallsAreRecords DEF PortalInv
  <2>2. /\ d.op = c.op /\ d.param = c.param /\ d.step = c.step /\ d.wrote = c.wrote
        /\ d.answer = c.answer /\ d.marks \in {c.marks, 1}
        /\ j # i => d.shown = c.shown
        /\ j = i => c.answer = "ok"
        /\ d \in CallRecords
    BY <1>2, <1>4 DEF Heard
  <2>3. j = i /\ c.op # "onboard" => d.marks = c.marks
    BY <1>2
  <2>4. j = i => Concerned(i) = {k \in Keys : k[1] \in Invalidates[c.op] /\ (k[1] = "tenant" => k[2] = c.marks)}
    BY DEF Concerned
  <2> HIDE DEF c, d
  <2>5. StepByStep(d)
    BY <2>1, <2>2 DEF StepByStep
  <2>6. Done(d, db')
    BY <2>1, <2>2, <1>4 DEF Done
  <2>7. ASSUME d.shown = "ok", d.marks = d.param, NEW k \in Keys, OfItsPage(k, d)
        PROVE  Fresh(cache'[k], d.wrote)
    <3>1. OfItsPage(k, c)
      BY <2>2, <2>7 DEF OfItsPage
    <3>2. CASE j # i
      <4>1. c.shown = "ok" /\ c.marks = c.param
        BY <2>1, <2>2, <2>7, <3>2 DEF StepByStep, CallRecords
      <4>2. Fresh(cache[k], c.wrote)
        BY <2>1, <3>1, <4>1 DEF Shown
      <4> QED BY <1>3, <2>2, <4>2
    <3>3. CASE j = i /\ k[1] \in Invalidates[c.op] /\ c.op # "onboard"
      <4>1. k \in Concerned(i)
        BY <2>2, <2>3, <2>4, <2>7, <3>1, <3>3 DEF OfItsPage
      <4> QED BY <1>3, <4>1
    <3>4. CASE k[1] \notin Invalidates[c.op]
      <4>1. IsEntry(cache'[k], k[1])
        BY <1>3 DEF IsCache
      <4> QED BY <2>1, <2>2, <3>1, <3>4, <4>1, UnmarkedIsUntouched
    <3>5. c.op # "onboard"
      BY <3>1, PagesAre, ShowsAre, OperationsAre DEF OfItsPage
    <3> QED BY <3>2, <3>3, <3>4, <3>5
  <2> QED BY <2>5, <2>6, <2>7 DEF Shown, d
<1> QED BY <1>2, <1>6, <1>7 DEF PortalInv

\* The invariant is inductive.
LEMMA PortalNextInv == PortalInv /\ [PortalNext]_portalVars => PortalInv'
<1> SUFFICES ASSUME PortalInv, [PortalNext]_portalVars PROVE PortalInv'
  OBVIOUS
<1>1. CASE \E p \in Pages : Visit(p)
  BY <1>1, VisitInv
<1>2. CASE ChooseFilter \/ Reload \/ Poll
  BY <1>2, ChooseFilterInv, ReloadInv, PollInv
<1>3. CASE \E o \in Operations : Click(o)
  BY <1>3, ClickInv
<1>4. CASE \E t \in Shared : OthersWrite(t)
  BY <1>4, OthersWriteInv
<1>5. CASE FetchNext
  BY <1>5, ReadInv, ArriveInv, FetchFailsInv, TokensInv, RefreshFailsInv, AgeOutInv, ForgetInv
     DEF FetchNext
<1>6. CASE CallNext
  BY <1>6, ExecuteInv, StatementFailsInv, ConfirmInv, DisappointInv DEF CallNext
<1>7. CASE UNCHANGED portalVars
  BY <1>7 DEF portalVars, PortalInv, PortalTypeOK, IsCache
<1> QED BY <1>1, <1>2, <1>3, <1>4, <1>5, <1>6, <1>7 DEF PortalNext

\* It holds in every state of the portal, for any pages, bounds and writers.
THEOREM PortalInvariant == PortalSpec => []PortalInv
<1>1. PortalInit => PortalInv
  BY PortalInitInv
<1> QED BY <1>1, PortalNextInv, PTL DEF PortalSpec

\* ChangeIsShown: once an operation is shown as done, no list of its page passes for up to
\* date without the change, whatever was under way and whatever filters were chosen
\* (AlertListPage.tsx:28, TenantDetailPage.tsx:34, SettingsPage.tsx:146).
THEOREM ShownWithItsChange == PortalSpec => []ChangeIsShown
<1>1. PortalInv => ChangeIsShown
  BY DEF PortalInv, Shown, OfItsPage, Fresh, AsNew, ChangeIsShown
<1> QED BY <1>1, PortalInvariant, PTL
====
