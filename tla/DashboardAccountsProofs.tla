---- MODULE DashboardAccountsProofs ----
(***************************************************************************)
(* Accounts stay unique, and what has ended serves nobody, for any number  *)
(* of requests, replicas and Entra users.                                  *)
(***************************************************************************)
EXTENDS DashboardAccounts, TLAPS

USE BodiesAssumption, DistinctAssumption DEF Body, Roles

LEMMA InitIInv == Init => IInv
<1> SUFFICES ASSUME Init PROVE IInv
  OBVIOUS
<1>1. TypeOK
  BY DEF Init, TypeOK
<1>2. HandlersMatch /\ OneAccountPerIdentity /\ AnswersAreTrue
  BY DEF Init, HandlersMatch, OneAccountPerIdentity, AnswersAreTrue
<1>3. SessionsFresh /\ SsoOnce
  BY DEF Init, SessionsFresh, SsoOnce, Consumed
<1>4. LateIsRefused /\ CredentialsEnd
  BY DEF Init, LateIsRefused, CredentialsEnd
<1> QED BY <1>1, <1>2, <1>3, <1>4 DEF IInv

----
(* What steps have in common. *)

\* A request keeps what it asks for once it has arrived, and goes forward.
Remembered ==
    \A x \in Requests : at[x] # "idle" =>
        /\ body'[x] = body[x] /\ token'[x] = token[x] /\ names'[x] = names[x]
        /\ late'[x] = late[x]
        /\ at'[x] # "idle"
        /\ at[x] \in {"written", "done"} => at'[x] \in {"written", "done"}

\* What has ended has ended for good.
EndsStay ==
    /\ \A a \in Requests : AccountEnded(a) => AccountEnded(a)'
    /\ \A w \in Requests : PasswordEnded(w) => PasswordEnded(w)'

\* No row is written: what had ended has still ended.
LEMMA RowsKept ==
  ASSUME IInv, Remembered, UNCHANGED row
  PROVE  EndsStay /\ OneAccountPerIdentity'
<1>1. \A a \in Requests : AccountEnded(a) => AccountEnded(a)'
  BY DEF row, AccountEnded
<1>2. \A w, a \in Requests : Opens(w, a)' => Opens(w, a)
  BY DEF row, Opens
<1>3. \A w \in Requests : PasswordEnded(w) => PasswordEnded(w)'
  BY <1>2 DEF row, Remembered, PasswordEnded, IInv, TypeOK
<1>4. \A a \in live : EmailOf(a)' = EmailOf(a)
  BY DEF Remembered, EmailOf, IInv, TypeOK, HandlersMatch
<1>5. OneAccountPerIdentity'
  BY <1>4 DEF row, OneAccountPerIdentity, IInv
<1> QED BY <1>1, <1>3, <1>5 DEF EndsStay

\* No callback is let through: sessions stay as they were used.
LEMMA SessionsKept ==
  ASSUME IInv, Remembered, UNCHANGED sso,
         \A x \in Requests : Consumed(x)' => Consumed(x)
  PROVE  SessionsFresh' /\ SsoOnce'
<1>1. \A x \in Requests : Consumed(x)' => Consumed(x) /\ body'[x] = body[x]
  BY DEF Remembered, Consumed
<1>2. SessionsFresh'
  BY <1>1 DEF sso, SessionsFresh, IInv
<1>3. SsoOnce'
  BY <1>1 DEF SsoOnce, IInv
<1> QED BY <1>2, <1>3

\* Nobody arrives, and who was late is not answered ok nor let on.
LEMMA LateKept ==
  ASSUME IInv, Remembered, EndsStay,
         \A x \in Requests : late'[x] => late[x],
         \A x \in Requests : late[x] =>
            at'[x] \in {"started", "done"} /\ reply'[x] # "ok"
  PROVE  LateIsRefused' /\ CredentialsEnd'
<1>1. \A x \in Requests : late[x] => at[x] # "idle"
  BY DEF IInv, HandlersMatch
<1>2. LateIsRefused'
  <2> SUFFICES ASSUME NEW x \in Requests, late'[x]
               PROVE  /\ at'[x] \in {"started", "done"}
                      /\ \/ body'[x].op \in {"refresh", "password"} /\ AccountEnded(token[x])'
                         \/ body'[x].op \in {"login", "password"} /\ PasswordEnded(names[x])'
    BY DEF LateIsRefused
  <2>1. late[x] /\ body'[x] = body[x] /\ token'[x] = token[x] /\ names'[x] = names[x]
    BY <1>1 DEF Remembered
  <2>2. CASE body[x].op \in {"refresh", "password"} /\ AccountEnded(token[x])
    <3>1. AccountEnded(token[x])'
      BY <2>1, <2>2 DEF EndsStay, AccountEnded, IInv, TypeOK
    <3> QED BY <2>1, <2>2, <3>1
  <2>3. CASE body[x].op \in {"login", "password"} /\ PasswordEnded(names[x])
    <3>1. PasswordEnded(names[x])'
      BY <2>1, <2>3 DEF EndsStay, PasswordEnded
    <3> QED BY <2>1, <2>3, <3>1
  <2> QED BY <2>1, <2>2, <2>3 DEF LateIsRefused, IInv
<1>3. CredentialsEnd'
  BY DEF CredentialsEnd
<1> QED BY <1>2, <1>3

LEMMA StartIInv ==
  ASSUME IInv, NEW p \in Replicas, Start(p)
  PROVE  IInv'
<1> USE DEF Start, Launched, request, row, sso, Ends, Goes
<1>1. Remembered
  BY DEF TypeOK, IInv, HandlersMatch, Remembered, request
<1>2. TypeOK'
  BY DEF TypeOK, IInv
<1>3. HandlersMatch'
  BY DEF TypeOK, HandlersMatch, IInv
<1>4. AnswersAreTrue'
  BY DEF TypeOK, HandlersMatch, AnswersAreTrue, IInv
<1>5. EndsStay /\ OneAccountPerIdentity'
  BY <1>1, RowsKept DEF row
<1>6. SessionsFresh' /\ SsoOnce'
  <2>1. \A x \in Requests : Consumed(x)' => Consumed(x)
    BY DEF TypeOK, IInv, HandlersMatch, Consumed
  <2> QED BY <1>1, <2>1, SessionsKept DEF sso
<1>7. LateIsRefused' /\ CredentialsEnd'
  <2>1. \A x \in Requests : late'[x] => late[x]
    BY DEF request, TypeOK, IInv
  <2>2. \A x \in Requests : late[x] => at'[x] \in {"started", "done"} /\ reply'[x] # "ok"
    BY DEF TypeOK, IInv, HandlersMatch, LateIsRefused, CredentialsEnd, AccountEnded, PasswordEnded
  <2> QED BY <1>1, <1>5, <2>1, <2>2, LateKept
<1> QED BY <1>1, <1>2, <1>3, <1>4, <1>5, <1>6, <1>7 DEF IInv

LEMMA SeedDefaultAdminIInv ==
  ASSUME IInv, NEW p \in Replicas, NEW r \in Requests, NEW b \in Bodies,
         SeedDefaultAdmin(p, r, b)
  PROVE  IInv'
<1> USE DEF SeedDefaultAdmin, Launched, request, row, sso, Ends, Goes
<1>1. Remembered
  BY DEF TypeOK, IInv, HandlersMatch, Remembered, request
<1>2. TypeOK'
  BY DEF TypeOK, IInv
<1>3. HandlersMatch'
  BY DEF TypeOK, HandlersMatch, IInv
<1>4. AnswersAreTrue'
  BY DEF TypeOK, HandlersMatch, AnswersAreTrue, IInv
<1>5. EndsStay /\ OneAccountPerIdentity'
  BY <1>1, RowsKept DEF row
<1>6. SessionsFresh' /\ SsoOnce'
  <2>1. \A x \in Requests : Consumed(x)' => Consumed(x)
    BY DEF TypeOK, IInv, HandlersMatch, Consumed
  <2> QED BY <1>1, <2>1, SessionsKept DEF sso
<1>7. LateIsRefused' /\ CredentialsEnd'
  <2>1. \A x \in Requests : late'[x] => late[x]
    BY DEF request, TypeOK, IInv
  <2>2. \A x \in Requests : late[x] => at'[x] \in {"started", "done"} /\ reply'[x] # "ok"
    BY DEF TypeOK, IInv, HandlersMatch, LateIsRefused, CredentialsEnd, AccountEnded, PasswordEnded
  <2> QED BY <1>1, <1>5, <2>1, <2>2, LateKept
<1> QED BY <1>1, <1>2, <1>3, <1>4, <1>5, <1>6, <1>7 DEF IInv

LEMMA InsertDefaultAdminIInv ==
  ASSUME IInv, NEW r \in Requests, InsertDefaultAdmin(r)
  PROVE  IInv'
<1> USE DEF InsertDefaultAdmin, Insert, request, row, sso, Ends, Goes
<1>1. Remembered
  BY DEF TypeOK, IInv, HandlersMatch, Remembered, request
<1>2. TypeOK'
  <2>1. body[r] \in Bodies
    BY DEF IInv, HandlersMatch
  <2>2. live' \subseteq ever' /\ ever' \subseteq Requests
    BY DEF TypeOK, IInv
  <2>3. password' \in [Requests -> Requests \cup {DefaultPassword, NoPassword}]
    BY DEF TypeOK, IInv
  <2>4. identity' \in [Requests -> Identities \cup {NoIdentity}]
    BY <2>1 DEF TypeOK, IInv
  <2>5. /\ at' \in [Requests -> {"idle", "started", "checked", "written", "done"}]
        /\ reply' \in [Requests -> {"none", "ok", "refused", "conflict", "invalidState",
                                     "failed"}]
    BY DEF TypeOK, IInv
  <2>6. found' \in [Requests -> Requests \cup {NoAccount}] /\ up' \subseteq Replicas
    BY DEF TypeOK, IInv, HandlersMatch
  <2> QED BY <2>2, <2>3, <2>4, <2>5, <2>6 DEF TypeOK, IInv
<1>3. HandlersMatch'
  BY DEF TypeOK, HandlersMatch, IInv
<1>4. AnswersAreTrue'
  BY DEF TypeOK, HandlersMatch, AnswersAreTrue, IInv
<1>5. EndsStay /\ OneAccountPerIdentity'
  <2>1. \A a \in Requests : AccountEnded(a) => AccountEnded(a)'
    BY DEF TypeOK, IInv, HandlersMatch, AccountEnded
  <2>2. \A w \in Requests : PasswordEnded(w) => PasswordEnded(w)'
    BY DEF TypeOK, IInv, HandlersMatch, PasswordEnded, Opens
  <2>3. OneAccountPerIdentity'
    BY DEF TypeOK, IInv, HandlersMatch, OneAccountPerIdentity, EmailOf, Clash
  <2> QED BY <2>1, <2>2, <2>3 DEF EndsStay
<1>6. SessionsFresh' /\ SsoOnce'
  <2>1. \A x \in Requests : Consumed(x)' => Consumed(x)
    BY DEF TypeOK, IInv, HandlersMatch, Consumed
  <2> QED BY <1>1, <2>1, SessionsKept DEF sso
<1>7. LateIsRefused' /\ CredentialsEnd'
  <2>1. \A x \in Requests : late'[x] => late[x]
    BY DEF request, TypeOK, IInv
  <2>2. \A x \in Requests : late[x] => at'[x] \in {"started", "done"} /\ reply'[x] # "ok"
    BY DEF TypeOK, IInv, HandlersMatch, LateIsRefused, CredentialsEnd, AccountEnded, PasswordEnded
  <2> QED BY <1>1, <1>5, <2>1, <2>2, LateKept
<1> QED BY <1>1, <1>2, <1>3, <1>4, <1>5, <1>6, <1>7 DEF IInv

LEMMA ArriveToProveIInv ==
  ASSUME IInv, NEW r \in Requests, NEW p \in Replicas, NEW b \in Bodies,
         NEW a \in Requests, NEW w \in Requests \cup {DefaultPassword},
         ArriveToProve(r, p, b, a, w)
  PROVE  IInv'
<1> USE DEF ArriveToProve, Receive, row, sso, Goes
<1>1. Remembered
  <2>1. at[r] = "idle"
    OBVIOUS
  <2>2. ASSUME NEW x \in Requests, x # r
        PROVE  late'[x] = late[x]
    BY <2>2 DEF TypeOK, IInv
  <2>3. ASSUME NEW x \in Requests, x # r
        PROVE  /\ body'[x] = body[x] /\ token'[x] = token[x] /\ names'[x] = names[x]
               /\ at'[x] = at[x]
    BY <2>3 DEF TypeOK, IInv
  <2> HIDE DEF ArriveToProve
  <2> QED BY <2>1, <2>2, <2>3 DEF Remembered
<1>2. TypeOK'
  BY DEF TypeOK, IInv
<1>3. HandlersMatch'
  BY DEF TypeOK, HandlersMatch, IInv
<1>4. AnswersAreTrue'
  BY DEF TypeOK, HandlersMatch, AnswersAreTrue, IInv
<1>5. EndsStay /\ OneAccountPerIdentity'
  BY <1>1, RowsKept DEF row
<1>6. SessionsFresh' /\ SsoOnce'
  <2>1. \A x \in Requests : Consumed(x)' => Consumed(x)
    BY DEF TypeOK, IInv, HandlersMatch, Consumed
  <2> QED BY <1>1, <2>1, SessionsKept DEF sso
<1>7. LateIsRefused' /\ CredentialsEnd'
  <2> DEFINE Ended(x) == \/ body'[x].op \in {"refresh", "password"} /\ AccountEnded(token[x])'
                         \/ body'[x].op \in {"login", "password"} /\ PasswordEnded(names[x])'
  <2>1. ASSUME late'[r]
        PROVE  at'[r] = "started" /\ reply'[r] = "none" /\ Ended(r)
    <3>1. /\ at'[r] = "started" /\ body'[r] = b /\ token'[r] = a /\ names'[r] = w
          /\ reply'[r] = "none"
      BY DEF TypeOK, IInv, HandlersMatch
    <3>2. \/ b.op # "login" /\ AccountEnded(a)
          \/ b.op # "refresh" /\ PasswordEnded(w)
      BY <2>1 DEF TypeOK, IInv
    <3>3. AccountEnded(a) => AccountEnded(a)'
      BY <1>5 DEF EndsStay
    <3>4. PasswordEnded(w) => PasswordEnded(w)'
      BY <1>5 DEF EndsStay, PasswordEnded
    <3>5. b.op \in {"login", "refresh", "password"}
      OBVIOUS
    <3>6. AccountEnded(token[r])' <=> AccountEnded(a)'
      BY <3>1 DEF AccountEnded
    <3>7. PasswordEnded(names[r])' <=> PasswordEnded(w)'
      BY <3>1 DEF PasswordEnded
    <3> HIDE DEF ArriveToProve
    <3> QED BY <3>1, <3>2, <3>3, <3>4, <3>5, <3>6, <3>7
  <2>2. ASSUME NEW x \in Requests, x # r, late'[x]
        PROVE  at'[x] \in {"started", "done"} /\ reply'[x] # "ok" /\ Ended(x)
    <3>1. /\ late[x] /\ at'[x] = at[x] /\ reply'[x] = reply[x] /\ body'[x] = body[x]
          /\ token'[x] = token[x] /\ names'[x] = names[x]
      BY <2>2 DEF TypeOK, IInv
    <3>2. at[x] \in {"started", "done"} /\ reply[x] # "ok"
      BY <3>1 DEF IInv, LateIsRefused, CredentialsEnd
    <3>3. \/ body[x].op \in {"refresh", "password"} /\ AccountEnded(token[x])
          \/ body[x].op \in {"login", "password"} /\ PasswordEnded(names[x])
      BY <3>1 DEF IInv, LateIsRefused
    <3>4. AccountEnded(token[x]) => AccountEnded(token[x])'
      BY <1>5, <3>1 DEF EndsStay, AccountEnded, IInv, TypeOK
    <3>5. PasswordEnded(names[x]) => PasswordEnded(names[x])'
      BY <1>5, <3>1 DEF EndsStay, PasswordEnded
    <3> HIDE DEF ArriveToProve
    <3> QED BY <3>1, <3>2, <3>3, <3>4, <3>5
  <2>3. LateIsRefused'
    BY <2>1, <2>2 DEF LateIsRefused
  <2>4. CredentialsEnd'
    BY <2>1, <2>2 DEF CredentialsEnd
  <2> QED BY <2>3, <2>4
<1> QED BY <1>1, <1>2, <1>3, <1>4, <1>5, <1>6, <1>7 DEF IInv

LEMMA ArriveToManageIInv ==
  ASSUME IInv, NEW r \in Requests, NEW p \in Replicas, NEW b \in Bodies,
         NEW a \in Requests, NEW t \in Requests,
         ArriveToManage(r, p, b, a, t)
  PROVE  IInv'
<1> USE DEF ArriveToManage, Receive, row, sso, Ends, Goes
<1>1. Remembered
  BY DEF TypeOK, IInv, HandlersMatch, Remembered, request
<1>2. TypeOK'
  BY DEF TypeOK, IInv
<1>3. HandlersMatch'
  BY DEF TypeOK, HandlersMatch, IInv
<1>4. AnswersAreTrue'
  BY DEF TypeOK, HandlersMatch, AnswersAreTrue, IInv
<1>5. EndsStay /\ OneAccountPerIdentity'
  BY <1>1, RowsKept DEF row
<1>6. SessionsFresh' /\ SsoOnce'
  <2>1. \A x \in Requests : Consumed(x)' => Consumed(x)
    BY DEF TypeOK, IInv, HandlersMatch, Consumed
  <2> QED BY <1>1, <2>1, SessionsKept DEF sso
<1>7. LateIsRefused' /\ CredentialsEnd'
  <2>1. \A x \in Requests : late'[x] => late[x]
    BY DEF request, TypeOK, IInv
  <2>2. \A x \in Requests : late[x] => at'[x] \in {"started", "done"} /\ reply'[x] # "ok"
    BY DEF TypeOK, IInv, HandlersMatch, LateIsRefused, CredentialsEnd, AccountEnded, PasswordEnded
  <2> QED BY <1>1, <1>5, <2>1, <2>2, LateKept
<1> QED BY <1>1, <1>2, <1>3, <1>4, <1>5, <1>6, <1>7 DEF IInv

LEMMA SsoAuthorizeIInv ==
  ASSUME IInv, NEW p \in Replicas, NEW s \in States,
         SsoAuthorize(p, s)
  PROVE  IInv'
<1> USE DEF SsoAuthorize, request, row
<1>1. Remembered
  BY DEF TypeOK, IInv, HandlersMatch, Remembered, request
<1>2. TypeOK'
  BY DEF TypeOK, IInv
<1>3. HandlersMatch'
  BY DEF TypeOK, HandlersMatch, IInv
<1>4. AnswersAreTrue'
  BY DEF TypeOK, HandlersMatch, AnswersAreTrue, IInv
<1>5. EndsStay /\ OneAccountPerIdentity'
  BY <1>1, RowsKept DEF row
<1>6. SessionsFresh' /\ SsoOnce'
  BY DEF TypeOK, IInv, HandlersMatch, SessionsFresh, SsoOnce, Consumed
<1>7. LateIsRefused' /\ CredentialsEnd'
  <2>1. \A x \in Requests : late'[x] => late[x]
    BY DEF request, TypeOK, IInv
  <2>2. \A x \in Requests : late[x] => at'[x] \in {"started", "done"} /\ reply'[x] # "ok"
    BY DEF TypeOK, IInv, HandlersMatch, LateIsRefused, CredentialsEnd, AccountEnded, PasswordEnded
  <2> QED BY <1>1, <1>5, <2>1, <2>2, LateKept
<1> QED BY <1>1, <1>2, <1>3, <1>4, <1>5, <1>6, <1>7 DEF IInv

LEMMA SweepSessionIInv ==
  ASSUME IInv, NEW p \in Replicas, NEW s \in States,
         SweepSession(p, s)
  PROVE  IInv'
<1> USE DEF SweepSession, request, row
<1>1. Remembered
  BY DEF TypeOK, IInv, HandlersMatch, Remembered, request
<1>2. TypeOK'
  BY DEF TypeOK, IInv
<1>3. HandlersMatch'
  BY DEF TypeOK, HandlersMatch, IInv
<1>4. AnswersAreTrue'
  BY DEF TypeOK, HandlersMatch, AnswersAreTrue, IInv
<1>5. EndsStay /\ OneAccountPerIdentity'
  BY <1>1, RowsKept DEF row
<1>6. SessionsFresh' /\ SsoOnce'
  BY DEF TypeOK, IInv, HandlersMatch, SessionsFresh, SsoOnce, Consumed
<1>7. LateIsRefused' /\ CredentialsEnd'
  <2>1. \A x \in Requests : late'[x] => late[x]
    BY DEF request, TypeOK, IInv
  <2>2. \A x \in Requests : late[x] => at'[x] \in {"started", "done"} /\ reply'[x] # "ok"
    BY DEF TypeOK, IInv, HandlersMatch, LateIsRefused, CredentialsEnd, AccountEnded, PasswordEnded
  <2> QED BY <1>1, <1>5, <2>1, <2>2, LateKept
<1> QED BY <1>1, <1>2, <1>3, <1>4, <1>5, <1>6, <1>7 DEF IInv

LEMMA SsoCallbackIInv ==
  ASSUME IInv, NEW r \in Requests, NEW p \in Replicas, NEW b \in Bodies,
         SsoCallback(r, p, b)
  PROVE  IInv'
<1> USE DEF SsoCallback, Receive, row, Ends, Goes
<1>1. Remembered
  BY DEF TypeOK, IInv, HandlersMatch, Remembered, request
<1>2. TypeOK'
  BY DEF TypeOK, IInv
<1>3. HandlersMatch'
  BY DEF TypeOK, HandlersMatch, IInv
<1>4. AnswersAreTrue'
  BY DEF TypeOK, HandlersMatch, AnswersAreTrue, IInv
<1>5. EndsStay /\ OneAccountPerIdentity'
  BY <1>1, RowsKept DEF row
<1>6. SessionsFresh' /\ SsoOnce'
  BY DEF TypeOK, IInv, HandlersMatch, SessionsFresh, SsoOnce, Consumed
<1>7. LateIsRefused' /\ CredentialsEnd'
  <2>1. \A x \in Requests : late'[x] => late[x]
    BY DEF request, TypeOK, IInv
  <2>2. \A x \in Requests : late[x] => at'[x] \in {"started", "done"} /\ reply'[x] # "ok"
    BY DEF TypeOK, IInv, HandlersMatch, LateIsRefused, CredentialsEnd, AccountEnded, PasswordEnded
  <2> QED BY <1>1, <1>5, <2>1, <2>2, LateKept
<1> QED BY <1>1, <1>2, <1>3, <1>4, <1>5, <1>6, <1>7 DEF IInv

LEMMA LoginIInv ==
  ASSUME IInv, NEW r \in Requests, Login(r)
  PROVE  IInv'
<1> USE DEF Login, request, row, sso, Ends, Goes
<1>1. Remembered
  BY DEF TypeOK, IInv, HandlersMatch, Remembered, request
<1>2. TypeOK'
  BY DEF TypeOK, IInv
<1>3. HandlersMatch'
  BY DEF TypeOK, HandlersMatch, IInv
<1>4. AnswersAreTrue'
  BY DEF TypeOK, HandlersMatch, AnswersAreTrue, IInv
<1>5. EndsStay /\ OneAccountPerIdentity'
  BY <1>1, RowsKept DEF row
<1>6. SessionsFresh' /\ SsoOnce'
  <2>1. \A x \in Requests : Consumed(x)' => Consumed(x)
    BY DEF TypeOK, IInv, HandlersMatch, Consumed
  <2> QED BY <1>1, <2>1, SessionsKept DEF sso
<1>7. LateIsRefused' /\ CredentialsEnd'
  <2>1. \A x \in Requests : late'[x] => late[x]
    BY DEF request, TypeOK, IInv
  <2>2. \A x \in Requests : late[x] => at'[x] \in {"started", "done"} /\ reply'[x] # "ok"
    BY DEF TypeOK, IInv, HandlersMatch, LateIsRefused, CredentialsEnd, AccountEnded, PasswordEnded
  <2> QED BY <1>1, <1>5, <2>1, <2>2, LateKept
<1> QED BY <1>1, <1>2, <1>3, <1>4, <1>5, <1>6, <1>7 DEF IInv

LEMMA RefreshIInv ==
  ASSUME IInv, NEW r \in Requests, Refresh(r)
  PROVE  IInv'
<1> USE DEF Refresh, request, row, sso, Ends, Goes
<1>1. Remembered
  BY DEF TypeOK, IInv, HandlersMatch, Remembered, request
<1>2. TypeOK'
  BY DEF TypeOK, IInv
<1>3. HandlersMatch'
  BY DEF TypeOK, HandlersMatch, IInv
<1>4. AnswersAreTrue'
  BY DEF TypeOK, HandlersMatch, AnswersAreTrue, IInv
<1>5. EndsStay /\ OneAccountPerIdentity'
  BY <1>1, RowsKept DEF row
<1>6. SessionsFresh' /\ SsoOnce'
  <2>1. \A x \in Requests : Consumed(x)' => Consumed(x)
    BY DEF TypeOK, IInv, HandlersMatch, Consumed
  <2> QED BY <1>1, <2>1, SessionsKept DEF sso
<1>7. LateIsRefused' /\ CredentialsEnd'
  <2>1. \A x \in Requests : late'[x] => late[x]
    BY DEF request, TypeOK, IInv
  <2>2. \A x \in Requests : late[x] => at'[x] \in {"started", "done"} /\ reply'[x] # "ok"
    BY DEF TypeOK, IInv, HandlersMatch, LateIsRefused, CredentialsEnd, AccountEnded, PasswordEnded
  <2> QED BY <1>1, <1>5, <2>1, <2>2, LateKept
<1> QED BY <1>1, <1>2, <1>3, <1>4, <1>5, <1>6, <1>7 DEF IInv

LEMMA CheckPasswordIInv ==
  ASSUME IInv, NEW r \in Requests, CheckPassword(r)
  PROVE  IInv'
<1> USE DEF CheckPassword, request, row, sso, Ends, Goes
<1>1. Remembered
  BY DEF TypeOK, IInv, HandlersMatch, Remembered, request
<1>2. TypeOK'
  BY DEF TypeOK, IInv
<1>3. HandlersMatch'
  BY DEF TypeOK, HandlersMatch, IInv
<1>4. AnswersAreTrue'
  BY DEF TypeOK, HandlersMatch, AnswersAreTrue, IInv
<1>5. EndsStay /\ OneAccountPerIdentity'
  BY <1>1, RowsKept DEF row
<1>6. SessionsFresh' /\ SsoOnce'
  <2>1. \A x \in Requests : Consumed(x)' => Consumed(x)
    BY DEF TypeOK, IInv, HandlersMatch, Consumed
  <2> QED BY <1>1, <2>1, SessionsKept DEF sso
<1>7. LateIsRefused' /\ CredentialsEnd'
  <2>1. \A x \in Requests : late'[x] => late[x]
    BY DEF request, TypeOK, IInv
  <2>2. \A x \in Requests : late[x] => at'[x] \in {"started", "done"} /\ reply'[x] # "ok"
    BY DEF TypeOK, IInv, HandlersMatch, LateIsRefused, CredentialsEnd, AccountEnded, PasswordEnded
  <2> QED BY <1>1, <1>5, <2>1, <2>2, LateKept
<1> QED BY <1>1, <1>2, <1>3, <1>4, <1>5, <1>6, <1>7 DEF IInv

LEMMA ChangePasswordIInv ==
  ASSUME IInv, NEW r \in Requests, ChangePassword(r)
  PROVE  IInv'
<1> USE DEF ChangePassword, request, sso, Goes
<1>1. Remembered
  BY DEF TypeOK, IInv, HandlersMatch, Remembered, request
<1>2. TypeOK'
  BY DEF TypeOK, IInv
<1>3. HandlersMatch'
  BY DEF TypeOK, HandlersMatch, IInv
<1>4. AnswersAreTrue'
  BY DEF TypeOK, HandlersMatch, AnswersAreTrue, IInv
<1>5. EndsStay /\ OneAccountPerIdentity'
  <2>1. \A a \in Requests : AccountEnded(a) => AccountEnded(a)'
    BY DEF TypeOK, IInv, HandlersMatch, AccountEnded
  <2>2. \A w \in Requests : PasswordEnded(w) => PasswordEnded(w)'
    BY DEF TypeOK, IInv, HandlersMatch, PasswordEnded, Opens
  <2>3. OneAccountPerIdentity'
    BY DEF TypeOK, IInv, HandlersMatch, OneAccountPerIdentity, EmailOf, Clash
  <2> QED BY <2>1, <2>2, <2>3 DEF EndsStay
<1>6. SessionsFresh' /\ SsoOnce'
  <2>1. \A x \in Requests : Consumed(x)' => Consumed(x)
    BY DEF TypeOK, IInv, HandlersMatch, Consumed
  <2> QED BY <1>1, <2>1, SessionsKept DEF sso
<1>7. LateIsRefused' /\ CredentialsEnd'
  <2>1. \A x \in Requests : late'[x] => late[x]
    BY DEF request, TypeOK, IInv
  <2>2. \A x \in Requests : late[x] => at'[x] \in {"started", "done"} /\ reply'[x] # "ok"
    BY DEF TypeOK, IInv, HandlersMatch, LateIsRefused, CredentialsEnd, AccountEnded, PasswordEnded
  <2> QED BY <1>1, <1>5, <2>1, <2>2, LateKept
<1> QED BY <1>1, <1>2, <1>3, <1>4, <1>5, <1>6, <1>7 DEF IInv

LEMMA CheckUniqueIInv ==
  ASSUME IInv, NEW r \in Requests, CheckUnique(r)
  PROVE  IInv'
<1> USE DEF CheckUnique, request, row, sso, Ends, Goes
<1>1. Remembered
  BY DEF TypeOK, IInv, HandlersMatch, Remembered, request
<1>2. TypeOK'
  BY DEF TypeOK, IInv
<1>3. HandlersMatch'
  BY DEF TypeOK, HandlersMatch, IInv
<1>4. AnswersAreTrue'
  BY DEF TypeOK, HandlersMatch, AnswersAreTrue, IInv
<1>5. EndsStay /\ OneAccountPerIdentity'
  BY <1>1, RowsKept DEF row
<1>6. SessionsFresh' /\ SsoOnce'
  <2>1. \A x \in Requests : Consumed(x)' => Consumed(x)
    BY DEF TypeOK, IInv, HandlersMatch, Consumed
  <2> QED BY <1>1, <2>1, SessionsKept DEF sso
<1>7. LateIsRefused' /\ CredentialsEnd'
  <2>1. \A x \in Requests : late'[x] => late[x]
    BY DEF request, TypeOK, IInv
  <2>2. \A x \in Requests : late[x] => at'[x] \in {"started", "done"} /\ reply'[x] # "ok"
    BY DEF TypeOK, IInv, HandlersMatch, LateIsRefused, CredentialsEnd, AccountEnded, PasswordEnded
  <2> QED BY <1>1, <1>5, <2>1, <2>2, LateKept
<1> QED BY <1>1, <1>2, <1>3, <1>4, <1>5, <1>6, <1>7 DEF IInv

LEMMA CreateAccountIInv ==
  ASSUME IInv, NEW r \in Requests, CreateAccount(r)
  PROVE  IInv'
<1> USE DEF CreateAccount, Insert, request, row, sso, Ends, Goes
<1>1. Remembered
  BY DEF TypeOK, IInv, HandlersMatch, Remembered, request
<1>2. TypeOK'
  <2>1. body[r] \in Bodies
    BY DEF IInv, HandlersMatch
  <2>2. live' \subseteq ever' /\ ever' \subseteq Requests
    BY DEF TypeOK, IInv
  <2>3. password' \in [Requests -> Requests \cup {DefaultPassword, NoPassword}]
    BY DEF TypeOK, IInv
  <2>4. identity' \in [Requests -> Identities \cup {NoIdentity}]
    BY <2>1 DEF TypeOK, IInv
  <2>5. /\ at' \in [Requests -> {"idle", "started", "checked", "written", "done"}]
        /\ reply' \in [Requests -> {"none", "ok", "refused", "conflict", "invalidState",
                                     "failed"}]
    BY DEF TypeOK, IInv
  <2>6. found' \in [Requests -> Requests \cup {NoAccount}] /\ up' \subseteq Replicas
    BY DEF TypeOK, IInv, HandlersMatch
  <2> QED BY <2>2, <2>3, <2>4, <2>5, <2>6 DEF TypeOK, IInv
<1>3. HandlersMatch'
  BY DEF TypeOK, HandlersMatch, IInv
<1>4. AnswersAreTrue'
  BY DEF TypeOK, HandlersMatch, AnswersAreTrue, IInv
<1>5. EndsStay /\ OneAccountPerIdentity'
  <2>1. \A a \in Requests : AccountEnded(a) => AccountEnded(a)'
    BY DEF TypeOK, IInv, HandlersMatch, AccountEnded
  <2>2. \A w \in Requests : PasswordEnded(w) => PasswordEnded(w)'
    BY DEF TypeOK, IInv, HandlersMatch, PasswordEnded, Opens
  <2>3. OneAccountPerIdentity'
    BY DEF TypeOK, IInv, HandlersMatch, OneAccountPerIdentity, EmailOf, Clash
  <2> QED BY <2>1, <2>2, <2>3 DEF EndsStay
<1>6. SessionsFresh' /\ SsoOnce'
  <2>1. \A x \in Requests : Consumed(x)' => Consumed(x)
    BY DEF TypeOK, IInv, HandlersMatch, Consumed
  <2> QED BY <1>1, <2>1, SessionsKept DEF sso
<1>7. LateIsRefused' /\ CredentialsEnd'
  <2>1. \A x \in Requests : late'[x] => late[x]
    BY DEF request, TypeOK, IInv
  <2>2. \A x \in Requests : late[x] => at'[x] \in {"started", "done"} /\ reply'[x] # "ok"
    BY DEF TypeOK, IInv, HandlersMatch, LateIsRefused, CredentialsEnd, AccountEnded, PasswordEnded
  <2> QED BY <1>1, <1>5, <2>1, <2>2, LateKept
<1> QED BY <1>1, <1>2, <1>3, <1>4, <1>5, <1>6, <1>7 DEF IInv

LEMMA CheckTargetIInv ==
  ASSUME IInv, NEW r \in Requests, CheckTarget(r)
  PROVE  IInv'
<1> USE DEF CheckTarget, request, row, sso, Ends, Goes
<1>1. Remembered
  BY DEF TypeOK, IInv, HandlersMatch, Remembered, request
<1>2. TypeOK'
  BY DEF TypeOK, IInv
<1>3. HandlersMatch'
  BY DEF TypeOK, HandlersMatch, IInv
<1>4. AnswersAreTrue'
  BY DEF TypeOK, HandlersMatch, AnswersAreTrue, IInv
<1>5. EndsStay /\ OneAccountPerIdentity'
  BY <1>1, RowsKept DEF row
<1>6. SessionsFresh' /\ SsoOnce'
  <2>1. \A x \in Requests : Consumed(x)' => Consumed(x)
    BY DEF TypeOK, IInv, HandlersMatch, Consumed
  <2> QED BY <1>1, <2>1, SessionsKept DEF sso
<1>7. LateIsRefused' /\ CredentialsEnd'
  <2>1. \A x \in Requests : late'[x] => late[x]
    BY DEF request, TypeOK, IInv
  <2>2. \A x \in Requests : late[x] => at'[x] \in {"started", "done"} /\ reply'[x] # "ok"
    BY DEF TypeOK, IInv, HandlersMatch, LateIsRefused, CredentialsEnd, AccountEnded, PasswordEnded
  <2> QED BY <1>1, <1>5, <2>1, <2>2, LateKept
<1> QED BY <1>1, <1>2, <1>3, <1>4, <1>5, <1>6, <1>7 DEF IInv

LEMMA DeleteAccountIInv ==
  ASSUME IInv, NEW r \in Requests, DeleteAccount(r)
  PROVE  IInv'
<1> USE DEF DeleteAccount, request, sso, Goes
<1>1. Remembered
  BY DEF TypeOK, IInv, HandlersMatch, Remembered, request
<1>2. TypeOK'
  <2>1. body[r] \in Bodies
    BY DEF IInv, HandlersMatch
  <2>2. live' \subseteq ever' /\ ever' \subseteq Requests
    BY DEF TypeOK, IInv
  <2>3. password' \in [Requests -> Requests \cup {DefaultPassword, NoPassword}]
    BY DEF TypeOK, IInv
  <2>4. identity' \in [Requests -> Identities \cup {NoIdentity}]
    BY <2>1 DEF TypeOK, IInv
  <2>5. /\ at' \in [Requests -> {"idle", "started", "checked", "written", "done"}]
        /\ reply' \in [Requests -> {"none", "ok", "refused", "conflict", "invalidState",
                                     "failed"}]
    BY DEF TypeOK, IInv
  <2>6. found' \in [Requests -> Requests \cup {NoAccount}] /\ up' \subseteq Replicas
    BY DEF TypeOK, IInv, HandlersMatch
  <2> QED BY <2>2, <2>3, <2>4, <2>5, <2>6 DEF TypeOK, IInv
<1>3. HandlersMatch'
  BY DEF TypeOK, HandlersMatch, IInv
<1>4. AnswersAreTrue'
  BY DEF TypeOK, HandlersMatch, AnswersAreTrue, IInv
<1>5. EndsStay /\ OneAccountPerIdentity'
  <2>1. \A a \in Requests : AccountEnded(a) => AccountEnded(a)'
    BY DEF TypeOK, IInv, HandlersMatch, AccountEnded
  <2>2. \A w \in Requests : PasswordEnded(w) => PasswordEnded(w)'
    BY DEF TypeOK, IInv, HandlersMatch, PasswordEnded, Opens
  <2>3. OneAccountPerIdentity'
    BY DEF TypeOK, IInv, HandlersMatch, OneAccountPerIdentity, EmailOf, Clash
  <2> QED BY <2>1, <2>2, <2>3 DEF EndsStay
<1>6. SessionsFresh' /\ SsoOnce'
  <2>1. \A x \in Requests : Consumed(x)' => Consumed(x)
    BY DEF TypeOK, IInv, HandlersMatch, Consumed
  <2> QED BY <1>1, <2>1, SessionsKept DEF sso
<1>7. LateIsRefused' /\ CredentialsEnd'
  <2>1. \A x \in Requests : late'[x] => late[x]
    BY DEF request, TypeOK, IInv
  <2>2. \A x \in Requests : late[x] => at'[x] \in {"started", "done"} /\ reply'[x] # "ok"
    BY DEF TypeOK, IInv, HandlersMatch, LateIsRefused, CredentialsEnd, AccountEnded, PasswordEnded
  <2> QED BY <1>1, <1>5, <2>1, <2>2, LateKept
<1> QED BY <1>1, <1>2, <1>3, <1>4, <1>5, <1>6, <1>7 DEF IInv

LEMMA FindIdentityIInv ==
  ASSUME IInv, NEW r \in Requests, FindIdentity(r)
  PROVE  IInv'
<1> USE DEF FindIdentity, request, row, sso, Ends, Goes
<1>1. Remembered
  BY DEF TypeOK, IInv, HandlersMatch, Remembered, request
<1>2. TypeOK'
  BY DEF TypeOK, IInv
<1>3. HandlersMatch'
  BY DEF TypeOK, HandlersMatch, IInv
<1>4. AnswersAreTrue'
  BY DEF TypeOK, HandlersMatch, AnswersAreTrue, IInv
<1>5. EndsStay /\ OneAccountPerIdentity'
  BY <1>1, RowsKept DEF row
<1>6. SessionsFresh' /\ SsoOnce'
  <2>1. \A x \in Requests : Consumed(x)' => Consumed(x)
    BY DEF TypeOK, IInv, HandlersMatch, Consumed
  <2> QED BY <1>1, <2>1, SessionsKept DEF sso
<1>7. LateIsRefused' /\ CredentialsEnd'
  <2>1. \A x \in Requests : late'[x] => late[x]
    BY DEF request, TypeOK, IInv
  <2>2. \A x \in Requests : late[x] => at'[x] \in {"started", "done"} /\ reply'[x] # "ok"
    BY DEF TypeOK, IInv, HandlersMatch, LateIsRefused, CredentialsEnd, AccountEnded, PasswordEnded
  <2> QED BY <1>1, <1>5, <2>1, <2>2, LateKept
<1> QED BY <1>1, <1>2, <1>3, <1>4, <1>5, <1>6, <1>7 DEF IInv

LEMMA ProvisionIInv ==
  ASSUME IInv, NEW r \in Requests, Provision(r)
  PROVE  IInv'
<1> USE DEF Provision, Insert, request, row, sso, Ends, Goes
<1>1. Remembered
  BY DEF TypeOK, IInv, HandlersMatch, Remembered, request
<1>2. TypeOK'
  <2>1. body[r] \in Bodies
    BY DEF IInv, HandlersMatch
  <2>2. live' \subseteq ever' /\ ever' \subseteq Requests
    BY DEF TypeOK, IInv
  <2>3. password' \in [Requests -> Requests \cup {DefaultPassword, NoPassword}]
    BY DEF TypeOK, IInv
  <2>4. identity' \in [Requests -> Identities \cup {NoIdentity}]
    BY <2>1 DEF TypeOK, IInv
  <2>5. /\ at' \in [Requests -> {"idle", "started", "checked", "written", "done"}]
        /\ reply' \in [Requests -> {"none", "ok", "refused", "conflict", "invalidState",
                                     "failed"}]
    BY DEF TypeOK, IInv
  <2>6. found' \in [Requests -> Requests \cup {NoAccount}] /\ up' \subseteq Replicas
    BY DEF TypeOK, IInv, HandlersMatch
  <2> QED BY <2>2, <2>3, <2>4, <2>5, <2>6 DEF TypeOK, IInv
<1>3. HandlersMatch'
  BY DEF TypeOK, HandlersMatch, IInv
<1>4. AnswersAreTrue'
  BY DEF TypeOK, HandlersMatch, AnswersAreTrue, IInv
<1>5. EndsStay /\ OneAccountPerIdentity'
  <2>1. \A a \in Requests : AccountEnded(a) => AccountEnded(a)'
    BY DEF TypeOK, IInv, HandlersMatch, AccountEnded
  <2>2. \A w \in Requests : PasswordEnded(w) => PasswordEnded(w)'
    BY DEF TypeOK, IInv, HandlersMatch, PasswordEnded, Opens
  <2>3. OneAccountPerIdentity'
    BY DEF TypeOK, IInv, HandlersMatch, OneAccountPerIdentity, EmailOf, Clash
  <2> QED BY <2>1, <2>2, <2>3 DEF EndsStay
<1>6. SessionsFresh' /\ SsoOnce'
  <2>1. \A x \in Requests : Consumed(x)' => Consumed(x)
    BY DEF TypeOK, IInv, HandlersMatch, Consumed
  <2> QED BY <1>1, <2>1, SessionsKept DEF sso
<1>7. LateIsRefused' /\ CredentialsEnd'
  <2>1. \A x \in Requests : late'[x] => late[x]
    BY DEF request, TypeOK, IInv
  <2>2. \A x \in Requests : late[x] => at'[x] \in {"started", "done"} /\ reply'[x] # "ok"
    BY DEF TypeOK, IInv, HandlersMatch, LateIsRefused, CredentialsEnd, AccountEnded, PasswordEnded
  <2> QED BY <1>1, <1>5, <2>1, <2>2, LateKept
<1> QED BY <1>1, <1>2, <1>3, <1>4, <1>5, <1>6, <1>7 DEF IInv

LEMMA LinkIInv ==
  ASSUME IInv, NEW r \in Requests, Link(r)
  PROVE  IInv'
<1> USE DEF Link, request, sso, Ends, Goes
<1>1. Remembered
  BY DEF TypeOK, IInv, HandlersMatch, Remembered, request
<1>2. TypeOK'
  <2>1. body[r] \in Bodies
    BY DEF IInv, HandlersMatch
  <2>2. live' \subseteq ever' /\ ever' \subseteq Requests
    BY DEF TypeOK, IInv
  <2>3. password' \in [Requests -> Requests \cup {DefaultPassword, NoPassword}]
    BY DEF TypeOK, IInv
  <2>4. identity' \in [Requests -> Identities \cup {NoIdentity}]
    BY <2>1 DEF TypeOK, IInv
  <2>5. /\ at' \in [Requests -> {"idle", "started", "checked", "written", "done"}]
        /\ reply' \in [Requests -> {"none", "ok", "refused", "conflict", "invalidState",
                                     "failed"}]
    BY DEF TypeOK, IInv
  <2>6. found' \in [Requests -> Requests \cup {NoAccount}] /\ up' \subseteq Replicas
    BY DEF TypeOK, IInv, HandlersMatch
  <2> QED BY <2>2, <2>3, <2>4, <2>5, <2>6 DEF TypeOK, IInv
<1>3. HandlersMatch'
  BY DEF TypeOK, HandlersMatch, IInv
<1>4. AnswersAreTrue'
  BY DEF TypeOK, HandlersMatch, AnswersAreTrue, IInv
<1>5. EndsStay /\ OneAccountPerIdentity'
  <2>1. \A a \in Requests : AccountEnded(a) => AccountEnded(a)'
    BY DEF TypeOK, IInv, HandlersMatch, AccountEnded
  <2>2. \A w \in Requests : PasswordEnded(w) => PasswordEnded(w)'
    BY DEF TypeOK, IInv, HandlersMatch, PasswordEnded, Opens
  <2>3. OneAccountPerIdentity'
    BY DEF TypeOK, IInv, HandlersMatch, OneAccountPerIdentity, EmailOf, Clash
  <2> QED BY <2>1, <2>2, <2>3 DEF EndsStay
<1>6. SessionsFresh' /\ SsoOnce'
  <2>1. \A x \in Requests : Consumed(x)' => Consumed(x)
    BY DEF TypeOK, IInv, HandlersMatch, Consumed
  <2> QED BY <1>1, <2>1, SessionsKept DEF sso
<1>7. LateIsRefused' /\ CredentialsEnd'
  <2>1. \A x \in Requests : late'[x] => late[x]
    BY DEF request, TypeOK, IInv
  <2>2. \A x \in Requests : late[x] => at'[x] \in {"started", "done"} /\ reply'[x] # "ok"
    BY DEF TypeOK, IInv, HandlersMatch, LateIsRefused, CredentialsEnd, AccountEnded, PasswordEnded
  <2> QED BY <1>1, <1>5, <2>1, <2>2, LateKept
<1> QED BY <1>1, <1>2, <1>3, <1>4, <1>5, <1>6, <1>7 DEF IInv

LEMMA FinishIInv ==
  ASSUME IInv, NEW r \in Requests, Finish(r)
  PROVE  IInv'
<1> USE DEF Finish, request, row, sso, Ends, Goes
<1>1. Remembered
  BY DEF TypeOK, IInv, HandlersMatch, Remembered, request
<1>2. TypeOK'
  BY DEF TypeOK, IInv
<1>3. HandlersMatch'
  BY DEF TypeOK, HandlersMatch, IInv
<1>4. AnswersAreTrue'
  BY DEF TypeOK, HandlersMatch, AnswersAreTrue, IInv
<1>5. EndsStay /\ OneAccountPerIdentity'
  BY <1>1, RowsKept DEF row
<1>6. SessionsFresh' /\ SsoOnce'
  <2>1. \A x \in Requests : Consumed(x)' => Consumed(x)
    BY DEF TypeOK, IInv, HandlersMatch, Consumed
  <2> QED BY <1>1, <2>1, SessionsKept DEF sso
<1>7. LateIsRefused' /\ CredentialsEnd'
  <2>1. \A x \in Requests : late'[x] => late[x]
    BY DEF request, TypeOK, IInv
  <2>2. \A x \in Requests : late[x] => at'[x] \in {"started", "done"} /\ reply'[x] # "ok"
    BY DEF TypeOK, IInv, HandlersMatch, LateIsRefused, CredentialsEnd, AccountEnded, PasswordEnded
  <2> QED BY <1>1, <1>5, <2>1, <2>2, LateKept
<1> QED BY <1>1, <1>2, <1>3, <1>4, <1>5, <1>6, <1>7 DEF IInv

LEMMA FailIInv ==
  ASSUME IInv, NEW r \in Requests, Fail(r)
  PROVE  IInv'
<1> USE DEF Fail, request, row, sso, Ends, Goes
<1>1. Remembered
  BY DEF TypeOK, IInv, HandlersMatch, Remembered, request
<1>2. TypeOK'
  BY DEF TypeOK, IInv
<1>3. HandlersMatch'
  BY DEF TypeOK, HandlersMatch, IInv
<1>4. AnswersAreTrue'
  BY DEF TypeOK, HandlersMatch, AnswersAreTrue, IInv
<1>5. EndsStay /\ OneAccountPerIdentity'
  BY <1>1, RowsKept DEF row
<1>6. SessionsFresh' /\ SsoOnce'
  <2>1. \A x \in Requests : Consumed(x)' => Consumed(x)
    BY DEF TypeOK, IInv, HandlersMatch, Consumed
  <2> QED BY <1>1, <2>1, SessionsKept DEF sso
<1>7. LateIsRefused' /\ CredentialsEnd'
  <2>1. \A x \in Requests : late'[x] => late[x]
    BY DEF request, TypeOK, IInv
  <2>2. \A x \in Requests : late[x] => at'[x] \in {"started", "done"} /\ reply'[x] # "ok"
    BY DEF TypeOK, IInv, HandlersMatch, LateIsRefused, CredentialsEnd, AccountEnded, PasswordEnded
  <2> QED BY <1>1, <1>5, <2>1, <2>2, LateKept
<1> QED BY <1>1, <1>2, <1>3, <1>4, <1>5, <1>6, <1>7 DEF IInv

LEMMA CrashIInv ==
  ASSUME IInv, NEW p \in Replicas, Crash(p)
  PROVE  IInv'
<1> USE DEF Crash, request, row
<1>1. Remembered
  BY DEF TypeOK, IInv, HandlersMatch, Remembered, request
<1>2. TypeOK'
  BY DEF TypeOK, IInv
<1>3. HandlersMatch'
  BY DEF TypeOK, HandlersMatch, IInv
<1>4. AnswersAreTrue'
  BY DEF TypeOK, HandlersMatch, AnswersAreTrue, IInv
<1>5. EndsStay /\ OneAccountPerIdentity'
  BY <1>1, RowsKept DEF row
<1>6. SessionsFresh' /\ SsoOnce'
  BY DEF TypeOK, IInv, HandlersMatch, SessionsFresh, SsoOnce, Consumed
<1>7. LateIsRefused' /\ CredentialsEnd'
  <2>1. \A x \in Requests : late'[x] => late[x]
    BY DEF request, TypeOK, IInv
  <2>2. \A x \in Requests : late[x] => at'[x] \in {"started", "done"} /\ reply'[x] # "ok"
    BY DEF TypeOK, IInv, HandlersMatch, LateIsRefused, CredentialsEnd, AccountEnded, PasswordEnded
  <2> QED BY <1>1, <1>5, <2>1, <2>2, LateKept
<1> QED BY <1>1, <1>2, <1>3, <1>4, <1>5, <1>6, <1>7 DEF IInv

LEMMA NextIInv == IInv /\ [Next]_vars => IInv'
<1> SUFFICES ASSUME IInv, [Next]_vars PROVE IInv'
  OBVIOUS
<1>1. CASE Next
  BY <1>1, StartIInv,
     SeedDefaultAdminIInv,
     InsertDefaultAdminIInv,
     ArriveToProveIInv,
     ArriveToManageIInv,
     SsoAuthorizeIInv,
     SweepSessionIInv,
     SsoCallbackIInv,
     LoginIInv,
     RefreshIInv,
     CheckPasswordIInv,
     ChangePasswordIInv,
     CheckUniqueIInv,
     CreateAccountIInv,
     CheckTargetIInv,
     DeleteAccountIInv,
     FindIdentityIInv,
     ProvisionIInv,
     LinkIInv,
     FinishIInv,
     FailIInv,
     CrashIInv DEF Next
<1>2. CASE UNCHANGED vars
  BY <1>2 DEF vars, request, row, sso, IInv, TypeOK, HandlersMatch, OneAccountPerIdentity,
     AnswersAreTrue, SessionsFresh, SsoOnce, LateIsRefused, CredentialsEnd, Consumed, EmailOf,
     AccountEnded, PasswordEnded, Opens
<1> QED BY <1>1, <1>2

\* The inductive invariant holds in every reachable state, TypeOK with it.
THEOREM AccountsInvariant == Spec => []IInv
BY InitIInv, NextIInv, PTL DEF Spec

\* An e-mail and an Entra user have one account, however requests race.
THEOREM AccountsAreUnique == Spec => []OneAccountPerIdentity
<1>1. IInv => OneAccountPerIdentity
  BY DEF IInv
<1> QED BY <1>1, AccountsInvariant, PTL

\* A refresh token of a deleted account and a replaced password serve nobody.
THEOREM EndedCredentialsAreRefused == Spec => []CredentialsEnd
<1>1. IInv => CredentialsEnd
  BY DEF IInv
<1> QED BY <1>1, AccountsInvariant, PTL

\* The session of a sign-in serves one callback.
THEOREM SignInIsSingleUse == Spec => []SsoOnce
<1>1. IInv => SsoOnce
  BY DEF IInv
<1> QED BY <1>1, AccountsInvariant, PTL

\* A step that brings no session and no callback is a stutter of the sessions.
LEMMA ServedKept ==
  ASSUME UNCHANGED sso,
         \A x \in Requests : /\ Consumed(x)' <=> Consumed(x)
                             /\ Consumed(x) => body'[x] = body[x]
  PROVE  UNCHANGED <<[s \in States |-> SessionOf(s)], [s \in States |-> ServedBy(s)]>>
<1>1. \A s \in States : SessionOf(s)' = SessionOf(s)
  BY DEF sso, SessionOf
<1>2. \A s \in States : ServedBy(s)' = ServedBy(s)
  BY DEF ServedBy
<1> QED BY <1>1, <1>2

\* The handler of a request goes on: whether it got past its session stays.
LEMMA HandlerKeepsServed ==
  ASSUME IInv, NEW r \in Requests,
         \/ InsertDefaultAdmin(r) \/ Login(r) \/ Refresh(r) \/ CheckPassword(r)
         \/ ChangePassword(r) \/ CheckUnique(r) \/ CreateAccount(r) \/ CheckTarget(r)
         \/ DeleteAccount(r) \/ FindIdentity(r) \/ Provision(r) \/ Link(r) \/ Finish(r)
         \/ Fail(r)
  PROVE  UNCHANGED <<[s \in States |-> SessionOf(s)], [s \in States |-> ServedBy(s)]>>
<1> USE DEF Goes, Ends
<1>1. UNCHANGED <<request, sso>>
  BY DEF InsertDefaultAdmin, Login, Refresh, CheckPassword, ChangePassword, CheckUnique,
         CreateAccount, CheckTarget, DeleteAccount, FindIdentity, Provision, Link, Finish, Fail
<1>2. \E to \in {"checked", "written", "done"},
         outcome \in {"none", "ok", "refused", "conflict", "failed"} :
         /\ at[r] \in {"started", "checked", "written"}
         /\ at' = [at EXCEPT ![r] = to]
         /\ reply' = [reply EXCEPT ![r] = outcome]
  <2>1. at[r] \in {"started", "checked", "written"}
    BY DEF InsertDefaultAdmin, Login, Refresh, CheckPassword, ChangePassword, CheckUnique,
         CreateAccount, CheckTarget, DeleteAccount, FindIdentity, Provision, Link, Finish, Fail
  <2>2. reply = [reply EXCEPT ![r] = "none"]
    BY <2>1 DEF IInv, TypeOK, HandlersMatch
  <2> QED BY <2>1, <2>2 DEF InsertDefaultAdmin, Login, Refresh, CheckPassword, ChangePassword,
         CheckUnique, CreateAccount, CheckTarget, DeleteAccount, FindIdentity, Provision, Link,
         Finish, Fail
<1>3. \A x \in Requests : Consumed(x)' <=> Consumed(x)
  BY <1>1, <1>2 DEF IInv, TypeOK, HandlersMatch, request, Consumed
<1> QED BY <1>1, <1>3, ServedKept DEF request

\* A request that comes with no state, and the start of a process.
LEMMA ArrivalKeepsServed ==
  ASSUME IInv, NEW r \in Requests, UNCHANGED sso,
         body' = [body EXCEPT ![r] = body'[r]],
         body'[r].op # "sso", at[r] = "idle",
         \A x \in Requests \ {r} : at'[x] = at[x] /\ reply'[x] = reply[x]
  PROVE  UNCHANGED <<[s \in States |-> SessionOf(s)], [s \in States |-> ServedBy(s)]>>
<1>1. \A x \in Requests : /\ Consumed(x)' <=> Consumed(x)
                          /\ Consumed(x) => body'[x] = body[x]
  BY DEF IInv, TypeOK, Consumed
<1> QED BY <1>1, ServedKept DEF sso

\* Every step of a handler maps to a step of the one-time sessions or to none.
LEMMA SessionStep ==
  ASSUME IInv, Next
  PROVE  \/ SignIns!Next
         \/ UNCHANGED <<[s \in States |-> SessionOf(s)], [s \in States |-> ServedBy(s)]>>
<1> DEFINE Same == UNCHANGED <<[s \in States |-> SessionOf(s)], [s \in States |-> ServedBy(s)]>>
<1>1. ASSUME NEW p \in Replicas, Start(p)
      PROVE  Same
  BY <1>1, ServedKept DEF Start, request, Consumed
<1>2. ASSUME NEW p \in Replicas, NEW r \in Requests, NEW b \in Bodies, SeedDefaultAdmin(p, r, b)
      PROVE  Same
  BY <1>2, ArrivalKeepsServed DEF SeedDefaultAdmin, Goes, IInv, TypeOK
<1>3. ASSUME NEW r \in Requests, NEW a \in Requests, NEW p \in Replicas, NEW b \in Bodies,
             NEW w \in Requests \cup {DefaultPassword}, ArriveToProve(r, p, b, a, w)
      PROVE  Same
  BY <1>3, ArrivalKeepsServed DEF ArriveToProve, Receive, Goes, IInv, TypeOK
<1>4. ASSUME NEW r \in Requests, NEW a \in Requests, NEW t \in Requests, NEW p \in Replicas,
             NEW b \in Bodies, ArriveToManage(r, p, b, a, t)
      PROVE  Same
  <2>1. UNCHANGED sso /\ at[r] = "idle" /\ b.op # "sso" /\ body' = [body EXCEPT ![r] = b]
    BY <1>4 DEF ArriveToManage, Receive
  <2>2. \A x \in Requests \ {r} : at'[x] = at[x] /\ reply'[x] = reply[x]
    BY <1>4 DEF ArriveToManage, Goes, Ends, IInv, TypeOK
  <2>3. body'[r] = b
    BY <2>1 DEF IInv, TypeOK
  <2> QED BY <2>1, <2>2, <2>3, ArrivalKeepsServed
<1>5. ASSUME NEW p \in Replicas, NEW s \in States, SsoAuthorize(p, s)
      PROVE  SignIns!Issue(s)
  <2>1. SessionOf(s) = "unissued" /\ SessionOf(s)' = "open"
    BY <1>5 DEF SsoAuthorize, SessionOf, IInv, TypeOK
  <2>2. \A z \in States \ {s} : SessionOf(z)' = SessionOf(z)
    BY <1>5 DEF SsoAuthorize, SessionOf, IInv, TypeOK
  <2>3. \A z \in States : ServedBy(z)' = ServedBy(z)
    BY <1>5 DEF SsoAuthorize, request, ServedBy, Consumed
  <2> QED BY <2>1, <2>2, <2>3 DEF SignIns!Issue, SignIns!Become
<1>6. ASSUME NEW p \in Replicas, NEW s \in States, SweepSession(p, s)
      PROVE  SignIns!Close({s})
  <2>1. SessionOf(s) = "open" /\ SessionOf(s)' = "closed"
    BY <1>6 DEF SweepSession, SessionOf, SessionsFresh, IInv, TypeOK
  <2>2. \A z \in States \ {s} : SessionOf(z)' = SessionOf(z)
    BY <1>6 DEF SweepSession, SessionOf, IInv, TypeOK
  <2>3. \A z \in States : ServedBy(z)' = ServedBy(z)
    BY <1>6 DEF SweepSession, request, ServedBy, Consumed
  <2> QED BY <2>1, <2>2, <2>3 DEF SignIns!Close
<1>7. ASSUME NEW r \in Requests, NEW p \in Replicas, NEW b \in Bodies, SsoCallback(r, p, b)
      PROVE  SignIns!Redeem(b.state, r) \/ Same
  <2> DEFINE s == b.state
  <2>1. b.op = "sso" /\ s \in States
    BY <1>7 DEF SsoCallback
  <2>2. at[r] = "idle" /\ reply[r] = "none" /\ body' = [body EXCEPT ![r] = b]
    BY <1>7 DEF SsoCallback, Receive, IInv, HandlersMatch
  <2>3. \A x \in Requests \ {r} : (Consumed(x)' <=> Consumed(x)) /\ body'[x] = body[x]
    BY <1>7 DEF SsoCallback, Receive, Goes, Ends, Consumed, IInv, TypeOK
  <2>4. ~Consumed(r)
    BY <2>2 DEF Consumed
  <2>5. CASE s \in sessions[p]
    <3>1. SessionOf(s) = "open" /\ SessionOf(s)' = "closed"
      BY <1>7, <2>5 DEF SsoCallback, SessionOf, SessionsFresh, IInv, TypeOK
    <3>2. \A z \in States \ {s} : SessionOf(z)' = SessionOf(z)
      BY <1>7 DEF SsoCallback, SessionOf, IInv, TypeOK
    <3>3. Consumed(r)' /\ body'[r] = b
      BY <1>7, <2>1, <2>2, <2>5 DEF SsoCallback, Goes, Consumed, IInv, TypeOK
    <3>4. \A x \in Requests : Consumed(x) => body[x].state # s
      BY <2>5 DEF SessionsFresh, IInv
    <3>5. ServedBy(s)' = {r}
      BY <2>3, <3>3, <3>4 DEF ServedBy
    <3>6. \A z \in States \ {s} : ServedBy(z)' = ServedBy(z)
      BY <2>3, <2>4, <3>3 DEF ServedBy
    <3>7. SignIns!Redeem(s, r)
      BY <2>1, <3>1, <3>2, <3>5, <3>6 DEF SignIns!Redeem, SignIns!Become
    <3> QED BY <3>7
  <2>6. CASE s \notin sessions[p]
    <3>1. UNCHANGED sso
      BY <1>7, <2>6 DEF SsoCallback, sso, IInv, TypeOK
    <3>2. ~Consumed(r)'
      BY <1>7, <2>6 DEF SsoCallback, Ends, Consumed, IInv, TypeOK
    <3>3. \A x \in Requests : /\ Consumed(x)' <=> Consumed(x)
                              /\ Consumed(x) => body'[x] = body[x]
      BY <2>3, <2>4, <3>2
    <3> QED BY <3>1, <3>3, ServedKept
  <2> QED BY <2>5, <2>6
<1>8. ASSUME NEW p \in Replicas, Crash(p)
      PROVE  SignIns!Close(sessions[p])
  <2>1. \A s \in sessions[p] : SessionOf(s) = "open" /\ SessionOf(s)' = "closed"
    BY <1>8 DEF Crash, SessionOf, SessionsFresh, IInv, TypeOK
  <2>2. \A z \in States \ sessions[p] : SessionOf(z)' = SessionOf(z)
    BY <1>8 DEF Crash, SessionOf, IInv, TypeOK
  <2>3. \A x \in Requests : Consumed(x)' <=> Consumed(x)
    BY <1>8 DEF Crash, Consumed, request, HandlersMatch, IInv, TypeOK
  <2>4. \A z \in States : ServedBy(z)' = ServedBy(z)
    BY <1>8, <2>3 DEF Crash, request, ServedBy
  <2> QED BY <2>1, <2>2, <2>4 DEF SignIns!Close, IInv, TypeOK
<1>9. ASSUME NEW p \in Replicas PROVE sessions[p] \in SUBSET States
  BY DEF IInv, TypeOK
<1>10. ASSUME NEW b \in Bodies PROVE b.state \in States
  OBVIOUS
<1>11. CASE \E p \in Replicas, s \in States : SsoAuthorize(p, s)
  BY <1>5, <1>11 DEF SignIns!Next
<1>12. CASE \E p \in Replicas, s \in States : SweepSession(p, s)
  <2>1. \A s \in States : {s} \in SUBSET States
    OBVIOUS
  <2> QED BY <1>6, <1>12, <2>1 DEF SignIns!Next
<1>13. CASE \E r \in Requests, p \in Replicas, b \in Bodies : SsoCallback(r, p, b)
  <2> PICK r \in Requests, p \in Replicas, b \in Bodies : SsoCallback(r, p, b)
    BY <1>13
  <2>1. SignIns!Redeem(b.state, r) \/ Same
    BY <1>7
  <2>2. b.state \in States
    BY <1>10
  <2> HIDE DEF Same
  <2>3. SignIns!Next \/ Same
    BY <2>1, <2>2, Zenon DEF SignIns!Next
  <2> QED BY <2>3 DEF Same
<1>14. CASE \E p \in Replicas : Crash(p)
  BY <1>8, <1>9, <1>14 DEF SignIns!Next
<1> HIDE DEF Same
<1>15. Same \/ SignIns!Next
  BY <1>1, <1>2, <1>3, <1>4, <1>11, <1>12, <1>13, <1>14, HandlerKeepsServed DEF Next, Same
<1> QED BY <1>15 DEF Same

\* The Maps of all replicas implement one-time sessions: a state lets one
\* callback in and stays closed, wherever and however often it is sent.
THEOREM SignInsAreOneTime == Spec => SignInIsOneTime
<1>1. Init => SignIns!Init
  BY DEF Init, SessionOf, ServedBy, Consumed, SignIns!Init
<1>2. IInv /\ [Next]_vars =>
         [SignIns!Next]_(<<[s \in States |-> SessionOf(s)], [s \in States |-> ServedBy(s)]>>)
  <2> SUFFICES ASSUME UNCHANGED vars
               PROVE  UNCHANGED <<[s \in States |-> SessionOf(s)], [s \in States |-> ServedBy(s)]>>
    BY SessionStep
  <2> QED BY ServedKept DEF vars, request, Consumed
<1> QED BY <1>1, <1>2, AccountsInvariant, PTL DEF Spec, SignInIsOneTime, SignIns!Spec, SignIns!vars

\* What a creation, a deletion or a sign-on was answered is true of the table.
THEOREM AccountAnswersAreTrue == Spec => []AnswersAreTrue
<1>1. IInv => AnswersAreTrue
  BY DEF IInv
<1> QED BY <1>1, AccountsInvariant, PTL

\* Neither a deletion nor a link to Microsoft is ever undone.
THEOREM AccountsOnlyGoForward == Spec => AccountsGoForward
<1> DEFINE A == \A a \in ever :
          /\ a \notin live => a \notin live'
          /\ identity[a] # NoIdentity => identity'[a] # NoIdentity
<1>1. IInv /\ [Next]_vars => [A]_vars
  <2> SUFFICES ASSUME IInv, Next, NEW a \in ever
               PROVE  /\ a \notin live => a \notin live'
                      /\ identity[a] # NoIdentity => identity'[a] # NoIdentity
    OBVIOUS
  <2> USE DEF IInv, TypeOK, HandlersMatch
  <2>1. CASE \E r \in Requests : InsertDefaultAdmin(r) \/ CreateAccount(r) \/ Provision(r)
    BY <2>1 DEF InsertDefaultAdmin, CreateAccount, Provision, Insert, row
  <2>2. CASE \E r \in Requests : ChangePassword(r) \/ DeleteAccount(r)
    BY <2>2 DEF ChangePassword, DeleteAccount
  <2>3. CASE \E r \in Requests : Link(r)
    BY <2>3 DEF Link
  <2>4. CASE UNCHANGED row
    BY <2>4 DEF row
  <2> QED BY <2>1, <2>2, <2>3, <2>4 DEF Next, Start, SeedDefaultAdmin, ArriveToProve,
             ArriveToManage, SsoAuthorize, SweepSession, SsoCallback, Login, Refresh,
             CheckPassword, CheckUnique, CheckTarget, FindIdentity, Finish, Fail, Crash
<1> QED BY <1>1, AccountsInvariant, PTL DEF Spec, AccountsGoForward
====
