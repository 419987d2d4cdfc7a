---- MODULE ApiClient ----
(***************************************************************************)
(* The calls an operator's page makes to the API: the interceptors of      *)
(* frontend/src/services/api.ts, the store of tokens they share            *)
(* (frontend/src/store/auth.ts) and, at the other end, what decides        *)
(* between an answer and a 401.                                            *)
(*                                                                         *)
(* A call whose answer is a 401 asks for new tokens and is sent once more. *)
(* Several calls do so side by side, while the operator signs out and in.  *)
(* The store is one page's; it is persisted at every change, so a reload   *)
(* finds it as it was.  Access and refresh token are always set together:  *)
(* a pair is the account it was issued to.                                 *)
(***************************************************************************)
EXTENDS Naturals

CONSTANTS
    Calls, Accounts, NoAccount,
    Asks        \* what each call may be for: an operation, the account of a login

Ops == {"read", "change", "password", "login"}

ASSUME AccountsAssumption == NoAccount \notin Accounts
ASSUME AsksAssumption == Asks \in [Calls -> SUBSET [op: Ops, as: Accounts]]

VARIABLES
    user,       \* of the store; isAuthenticated is that there is one
    tokens,     \* accessToken and refreshToken
    op,         \* what each call is for
    as,         \* the account a login names
    at,         \* where the call is in the client
    carries,    \* its Authorization header
    renews,     \* the refresh token it has posted
    retried,    \* original._retry
    outcome,    \* what the page was told
    handler,    \* how far the API has come with its latest request
    changes,    \* how often the API has done what it asks for
    live,       \* accounts the API has
    signedIn,   \* the last account to sign in (history)
    ended,      \* it has signed out, or a refresh of its own has failed, since (history)
    older       \* the calls that were renewing when it signed in (history)

store == <<user, tokens>>
call == <<op, as, at, carries, renews, retried, outcome>>
api == <<handler, changes, live>>
history == <<signedIn, ended, older>>
vars == <<store, call, api, history>>

TypeOK ==
    /\ user \in Accounts \cup {NoAccount}
    /\ tokens \in Accounts \cup {NoAccount}
    /\ op \in [Calls -> Ops]
    /\ as \in [Calls -> Accounts \cup {NoAccount}]
    /\ at \in [Calls -> {"idle", "sent", "renewing", "settled"}]
    /\ carries \in [Calls -> Accounts \cup {NoAccount}]
    /\ renews \in [Calls -> Accounts \cup {NoAccount}]
    /\ retried \in [Calls -> BOOLEAN]
    /\ outcome \in [Calls -> {"none", "ok", "error"}]
    /\ handler \in [Calls -> {"none", "arrived", "passed", "changed", "ok", "refused", "error"}]
    /\ changes \in [Calls -> 0..2]
    /\ live \subseteq Accounts
    /\ signedIn \in Accounts \cup {NoAccount}
    /\ ended \in BOOLEAN
    /\ older \subseteq Calls

Init ==
    /\ user = NoAccount /\ tokens = NoAccount
    /\ op = [c \in Calls |-> "read"]
    /\ as = [c \in Calls |-> NoAccount]
    /\ at = [c \in Calls |-> "idle"]
    /\ carries = [c \in Calls |-> NoAccount]
    /\ renews = [c \in Calls |-> NoAccount]
    /\ retried = [c \in Calls |-> FALSE]
    /\ outcome = [c \in Calls |-> "none"]
    /\ handler = [c \in Calls |-> "none"]
    /\ changes = [c \in Calls |-> 0]
    /\ live = Accounts
    /\ signedIn = NoAccount /\ ended = TRUE /\ older = {}

\* The request interceptor puts the stored token on whatever is sent.
Send(c, token) ==
    /\ at' = [at EXCEPT ![c] = "sent"]
    /\ carries' = [carries EXCEPT ![c] = token]
    /\ handler' = [handler EXCEPT ![c] = "arrived"]

Settle(c, what) ==
    /\ at' = [at EXCEPT ![c] = "settled"]
    /\ outcome' = [outcome EXCEPT ![c] = what]

Answers(c, what) == handler' = [handler EXCEPT ![c] = what]

LogOut == user' = NoAccount /\ tokens' = NoAccount

----
(* The operator. *)

\* A protected page calls the API; a page is protected by isAuthenticated only.
Call(c, ask) ==
    /\ at[c] = "idle" /\ ask.op # "login" /\ user # NoAccount
    /\ op' = [op EXCEPT ![c] = ask.op]
    /\ Send(c, tokens)
    /\ UNCHANGED <<store, as, renews, retried, outcome, changes, live, history>>

\* The login page, which is there for whoever is signed in already, too.
Login(c, ask) ==
    /\ at[c] = "idle" /\ ask.op = "login"
    /\ op' = [op EXCEPT ![c] = "login"]
    /\ as' = [as EXCEPT ![c] = ask.as]
    /\ Send(c, tokens)
    /\ UNCHANGED <<store, renews, retried, outcome, changes, live, history>>

SignOut ==
    /\ user # NoAccount
    /\ LogOut
    /\ ended' = TRUE
    /\ UNCHANGED <<call, api, signedIn, older>>

\* The page is left, by the operator or, a moment after a failed refresh, by
\* window.location: its calls are no more, though the API goes on with them.
Unload ==
    /\ at' = [c \in Calls |-> IF at[c] \in {"sent", "renewing"} THEN "settled" ELSE at[c]]
    /\ older' = {c \in older : at[c] # "renewing"}
    /\ UNCHANGED <<store, op, as, carries, renews, retried, outcome, api, signedIn, ended>>

----
(* The API. *)

\* authenticate: an access token may have expired, however new its call is.
Authenticate(c) ==
    /\ handler[c] = "arrived" /\ op[c] # "login"
    /\ \/ carries[c] # NoAccount /\ Answers(c, "passed")
       \/ Answers(c, "refused")
    /\ UNCHANGED <<store, call, changes, live, history>>

\* The routes of a login: a wrong password is a 401 as well.
CheckLogin(c) ==
    /\ handler[c] = "arrived" /\ op[c] = "login"
    /\ \/ as[c] \in live /\ Answers(c, "ok")
       \/ Answers(c, "refused")
    /\ UNCHANGED <<store, call, changes, live, history>>

\* The password changed first, the current one checked afterwards.
ChangeThenCheck(c) ==
    /\ handler[c] = "passed"
    /\ IF op[c] \in {"change", "password"}
       THEN /\ changes' = [changes EXCEPT ![c] = @ + 1]
            /\ \/ Answers(c, "changed")
               \/ op[c] = "password" /\ Answers(c, "refused")
       ELSE Answers(c, "ok") /\ UNCHANGED changes
    /\ UNCHANGED <<store, call, live, history>>

\* The handler proper.  Only that of a change of password answers 401 itself,
\* for a wrong current one.
Change(c) ==
    /\ handler[c] = "passed"
    /\ \/ op[c] = "read" /\ Answers(c, "ok") /\ UNCHANGED changes
       \/ op[c] = "password" /\ Answers(c, "refused") /\ UNCHANGED changes
       \/ /\ op[c] \in {"change", "password"}
          /\ changes' = [changes EXCEPT ![c] = @ + 1]
          /\ Answers(c, "changed")
    /\ UNCHANGED <<store, call, live, history>>

\* The audit record, then the answer.
Reply(c) ==
    /\ handler[c] = "changed"
    /\ Answers(c, "ok")
    /\ UNCHANGED <<store, call, changes, live, history>>

\* The rate limit, a missing permission or row, a failing statement.
Fail(c) ==
    /\ handler[c] \in {"arrived", "passed", "changed"}
    /\ Answers(c, "error")
    /\ UNCHANGED <<store, call, changes, live, history>>

DeleteAccount(a) ==
    /\ a \in live
    /\ live' = live \ {a}
    /\ UNCHANGED <<store, call, handler, changes, history>>

----
(* The client's end of a call. *)

\* A login's answer is put into the store by the page that asked.
Succeed(c) ==
    /\ at[c] = "sent" /\ handler[c] = "ok"
    /\ Settle(c, "ok")
    /\ IF op[c] = "login"
       THEN /\ user' = as[c] /\ tokens' = as[c]
            /\ signedIn' = as[c] /\ ended' = FALSE
            /\ older' = {d \in Calls : at[d] = "renewing"}
       ELSE UNCHANGED <<store, history>>
    /\ UNCHANGED <<op, as, carries, renews, retried, api>>

\* An error, a second 401, or no answer within the 30 s of the client: nothing
\* is repeated, and the page is told.
Reject(c) ==
    /\ at[c] = "sent"
    /\ Settle(c, "error")
    /\ UNCHANGED <<store, op, as, carries, renews, retried, api, history>>

\* The refresh token of the call's session posted, not the one stored by now.
RenewOwn(c) ==
    /\ at[c] = "sent" /\ handler[c] = "refused" /\ ~retried[c]
    /\ retried' = [retried EXCEPT ![c] = TRUE]
    /\ IF tokens # NoAccount /\ carries[c] # NoAccount
       THEN /\ at' = [at EXCEPT ![c] = "renewing"]
            /\ renews' = [renews EXCEPT ![c] = carries[c]]
            /\ UNCHANGED <<store, outcome>>
       ELSE /\ Settle(c, "error")
            /\ LogOut
            /\ UNCHANGED renews
    /\ UNCHANGED <<op, as, carries, api, history>>

\* The mark forgotten that the call has been tried again.
RenewUnmarked(c) ==
    /\ at[c] = "sent" /\ handler[c] = "refused" /\ tokens # NoAccount
    /\ at' = [at EXCEPT ![c] = "renewing"]
    /\ renews' = [renews EXCEPT ![c] = tokens]
    /\ UNCHANGED <<store, op, as, carries, retried, outcome, api, history>>

\* The first 401 of a call.  What is posted is the refresh token that is stored
\* now; where there is none, the page goes to the login page.
Renew(c) ==
    /\ at[c] = "sent" /\ handler[c] = "refused" /\ ~retried[c]
    /\ retried' = [retried EXCEPT ![c] = TRUE]
    /\ IF tokens # NoAccount
       THEN /\ at' = [at EXCEPT ![c] = "renewing"]
            /\ renews' = [renews EXCEPT ![c] = tokens]
            /\ UNCHANGED <<store, outcome>>
       ELSE /\ Settle(c, "error")
            /\ LogOut
            /\ UNCHANGED renews
    /\ UNCHANGED <<op, as, carries, api, history>>

\* New tokens: they replace those stored, and the call is sent again.
Renewed(c) ==
    /\ at[c] = "renewing" /\ renews[c] \in live
    /\ tokens' = renews[c]
    /\ Send(c, renews[c])
    /\ UNCHANGED <<user, op, as, renews, retried, outcome, changes, live, history>>

\* The account is gone, or no answer came: the page is logged out, whoever is
\* signed in by now.
RenewFails(c) ==
    /\ at[c] = "renewing"
    /\ Settle(c, "error")
    /\ LogOut
    /\ ended' = (ended \/ c \notin older)
    /\ UNCHANGED <<op, as, carries, renews, retried, api, signedIn, older>>

Next ==
    \/ \E c \in Calls : \E ask \in Asks[c] : Call(c, ask)
    \/ \E c \in Calls : \E ask \in Asks[c] : Login(c, ask)
    \/ SignOut
    \/ Unload
    \/ \E c \in Calls : Authenticate(c)
    \/ \E c \in Calls : CheckLogin(c)
    \/ \E c \in Calls : Change(c)
    \/ \E c \in Calls : Reply(c)
    \/ \E c \in Calls : Fail(c)
    \/ \E a \in Accounts : DeleteAccount(a)
    \/ \E c \in Calls : Succeed(c)
    \/ \E c \in Calls : Reject(c)
    \/ \E c \in Calls : Renew(c)
    \/ \E c \in Calls : Renewed(c)
    \/ \E c \in Calls : RenewFails(c)

Spec == Init /\ [][Next]_vars

\* The client's own timer, and that a refresh, which has none, is answered or
\* its connection breaks.  Nothing is assumed of the API's handlers.
Fairness ==
    \A c \in Calls : WF_vars(Reject(c)) /\ WF_vars(Renewed(c) \/ RenewFails(c))

FairSpec == Spec /\ Fairness

----
(* Correctness. *)

\* One click is one change: a call that was sent twice was carried out at most
\* once, as every 401 comes before the statement that changes something, and a
\* page that is told of success can rely on it.
ExecutedOnce ==
    \A c \in Calls :
        /\ changes[c] <= 1
        /\ outcome[c] = "ok" /\ op[c] \in {"change", "password"} => changes[c] = 1

\* No refresh that was under way when the operator signed in has ended since.
Undisturbed == \A c \in older : at[c] = "renewing"

\* Until it signs out, or a refresh that posted its own tokens fails, an account
\* stays signed in and the page keeps its tokens and no one else's: also when
\* tokens expire under several calls, a second 401 comes, and calls that were sent
\* for an earlier account are answered, refused, refreshed and sent again.  One
\* thing the interceptor does not keep away from it, and it is the one exception
\* here: a refresh of an earlier session that is answered only after the sign-in
\* puts back the earlier account's tokens, and one that fails logs the new
\* operator out (api.ts:28-33).
SessionKept == ~ended /\ Undisturbed => user = signedIn /\ tokens = signedIn

\* Whatever the API answers, and however often with a 401, a call comes to an
\* end.
EveryCallSettles == \A c \in Calls : at[c] = "sent" ~> at[c] = "settled"

----
(* What the inductive invariant adds. *)

\* A 401 is answered before anything is changed, and only a call that was
\* refused is sent again.
InOrder(c) ==
    /\ handler[c] \in {"none", "arrived", "passed", "refused"} => changes[c] = 0
    /\ at[c] = "renewing" => handler[c] = "refused"
    /\ at[c] = "idle" => handler[c] = "none"
    /\ handler[c] \in {"changed", "ok"} /\ op[c] \in {"change", "password"} => changes[c] = 1
    /\ outcome[c] = "ok" => at[c] = "settled"
    /\ op[c] = "login" => as[c] \in Accounts
    /\ changes[c] <= 1
    /\ outcome[c] = "ok" /\ op[c] \in {"change", "password"} => changes[c] = 1

RefusedUnchanged == \A c \in Calls : InOrder(c)

\* A session's account, and what its calls have posted: the session's own tokens.
\* A call posts only once.
RenewsOwn ==
    /\ ~ended => signedIn # NoAccount
    /\ \A c \in Calls : at[c] = "renewing" \/ c \in older => retried[c]
    /\ ~ended /\ Undisturbed =>
          \A c \in Calls \ older : at[c] = "renewing" => renews[c] = signedIn

IInv ==
    /\ TypeOK /\ RefusedUnchanged /\ RenewsOwn
    /\ ExecutedOnce /\ SessionKept
====
