---- MODULE TenantLifecycleProofs ----
(***************************************************************************)
(* The tenants table stays consistent, and no sync decides about a tenant, *)
(* for any number of requests, replicas, customers and settings.           *)
(***************************************************************************)
EXTENDS TenantLifecycle, TLAPS

USE BodiesAssumption, ReplicaAssumption DEF Body, Creations

LEMMA InitIInv == Init => IInv
<1> SUFFICES ASSUME Init PROVE IInv
  OBVIOUS
<1>1. TypeOK
  BY DEF Init, TypeOK
<1>2. HandlersMatch /\ OneTenantPerDirectory /\ AnswersAreTrue
  BY DEF Init, HandlersMatch, OneTenantPerDirectory, AnswersAreTrue, Exists, Clash
<1>3. SessionsFresh /\ ConsentOnce
  BY DEF Init, SessionsFresh, ConsentOnce, Consumed
<1>4. SeenFromRequests /\ SettingsFromRequests
  BY DEF Init, SeenFromRequests, SettingsFromRequests, Exists
<1> QED BY <1>1, <1>2, <1>3, <1>4 DEF IInv

\* A request keeps what it asks for once it has arrived.
Remembered ==
    \A x \in Requests : at[x] # "idle" =>
        at'[x] # "idle" /\ body'[x] = body[x] /\ tenant'[x] = tenant[x]

\* Where a step reads no config and writes none, settings stay accounted for.
LEMMA SeenKept ==
  ASSUME IInv, Remembered, UNCHANGED seen,
         \A x \in Requests : at'[x] = "checked" =>
            /\ at[x] = "checked" \/ (at[x] = "started" /\ body[x].op # "update")
            /\ at[x] # "idle"
  PROVE  SeenFromRequests'
<1> SUFFICES ASSUME NEW x \in Requests, at'[x] = "checked", body'[x].op = "update",
                    NEW f \in Settings
             PROVE  FromRequest(tenant[x], f, seen[x][f])'
  BY DEF SeenFromRequests
<1>1. at[x] = "checked" /\ body'[x] = body[x] /\ tenant'[x] = tenant[x]
  BY DEF Remembered
<1>2. FromRequest(tenant[x], f, seen[x][f]) /\ seen[x][f] \in Requests
  BY <1>1 DEF IInv, TypeOK, SeenFromRequests
<1> QED BY <1>1, <1>2 DEF Remembered, FromRequest

LEMMA SettingsKept ==
  ASSUME IInv, Remembered, UNCHANGED config,
         \A t \in Requests : Exists(t)' => Exists(t)
  PROVE  SettingsFromRequests'
<1> SUFFICES ASSUME NEW t \in Requests, Exists(t)', NEW f \in Settings
             PROVE  FromRequest(t, f, config[t][f])'
  BY DEF SettingsFromRequests
<1>1. FromRequest(t, f, config[t][f]) /\ config[t][f] \in Requests
  BY DEF IInv, TypeOK, SettingsFromRequests
<1> QED BY <1>1 DEF Remembered, FromRequest

LEMMA ArriveIInv ==
  ASSUME IInv, NEW r \in Requests, NEW t \in Requests, NEW p \in Replicas, NEW b \in Bodies,
         Arrive(r, p, b, t)
  PROVE  IInv'
<1> USE DEF Arrive, IInv, request, row, consent, Receive
<1>1. TypeOK'
  BY DEF TypeOK
<1>2. HandlersMatch'
  BY DEF TypeOK, HandlersMatch, Creates, Exists
<1>3. OneTenantPerDirectory'
  BY DEF TypeOK, HandlersMatch, OneTenantPerDirectory, Clash, Exists
<1>4. AnswersAreTrue'
  BY DEF TypeOK, HandlersMatch, AnswersAreTrue, Creates, Exists
<1>5. SessionsFresh'
  BY DEF TypeOK, HandlersMatch, SessionsFresh, Consumed
<1>6. ConsentOnce'
  BY DEF TypeOK, HandlersMatch, SessionsFresh, ConsentOnce, Consumed
<1>7. SeenFromRequests'
  <2>1. Remembered
    BY DEF TypeOK, Remembered
  <2>2. \A x \in Requests : at'[x] = "checked" =>
           /\ at[x] = "checked" \/ (at[x] = "started" /\ body[x].op # "update")
           /\ at[x] # "idle"
    BY DEF TypeOK, Creates
  <2> QED BY <2>1, <2>2, SeenKept
<1>8. SettingsFromRequests'
  <2>1. Remembered
    BY DEF TypeOK, Remembered
  <2>2. \A x \in Requests : Exists(x)' => Exists(x)
    BY DEF TypeOK, HandlersMatch, Exists
  <2> QED BY <2>1, <2>2, SettingsKept
<1> QED BY <1>1, <1>2, <1>3, <1>4, <1>5, <1>6, <1>7, <1>8

LEMMA ConsentStartIInv ==
  ASSUME IInv, NEW p \in Replicas, NEW s \in States,
         ConsentStart(p, s)
  PROVE  IInv'
<1> USE DEF ConsentStart, IInv, request, row, consent
<1>1. TypeOK'
  BY DEF TypeOK
<1>2. HandlersMatch'
  BY DEF TypeOK, HandlersMatch, Creates, Exists
<1>3. OneTenantPerDirectory'
  BY DEF TypeOK, HandlersMatch, OneTenantPerDirectory, Clash, Exists
<1>4. AnswersAreTrue'
  BY DEF TypeOK, HandlersMatch, AnswersAreTrue, Creates, Exists
<1>5. SessionsFresh'
  BY DEF TypeOK, HandlersMatch, SessionsFresh, Consumed
<1>6. ConsentOnce'
  BY DEF TypeOK, HandlersMatch, SessionsFresh, ConsentOnce, Consumed
<1>7. SeenFromRequests'
  <2>1. Remembered
    BY DEF TypeOK, Remembered
  <2>2. \A x \in Requests : at'[x] = "checked" =>
           /\ at[x] = "checked" \/ (at[x] = "started" /\ body[x].op # "update")
           /\ at[x] # "idle"
    BY DEF TypeOK, Creates
  <2> QED BY <2>1, <2>2, SeenKept
<1>8. SettingsFromRequests'
  <2>1. Remembered
    BY DEF TypeOK, Remembered
  <2>2. \A x \in Requests : Exists(x)' => Exists(x)
    BY DEF TypeOK, HandlersMatch, Exists
  <2> QED BY <2>1, <2>2, SettingsKept
<1> QED BY <1>1, <1>2, <1>3, <1>4, <1>5, <1>6, <1>7, <1>8

LEMMA SweepSessionIInv ==
  ASSUME IInv, NEW p \in Replicas, NEW s \in States,
         SweepSession(p, s)
  PROVE  IInv'
<1> USE DEF SweepSession, IInv, request, row, consent
<1>1. TypeOK'
  BY DEF TypeOK
<1>2. HandlersMatch'
  BY DEF TypeOK, HandlersMatch, Creates, Exists
<1>3. OneTenantPerDirectory'
  BY DEF TypeOK, HandlersMatch, OneTenantPerDirectory, Clash, Exists
<1>4. AnswersAreTrue'
  BY DEF TypeOK, HandlersMatch, AnswersAreTrue, Creates, Exists
<1>5. SessionsFresh'
  BY DEF TypeOK, HandlersMatch, SessionsFresh, Consumed
<1>6. ConsentOnce'
  BY DEF TypeOK, HandlersMatch, SessionsFresh, ConsentOnce, Consumed
<1>7. SeenFromRequests'
  <2>1. Remembered
    BY DEF TypeOK, Remembered
  <2>2. \A x \in Requests : at'[x] = "checked" =>
           /\ at[x] = "checked" \/ (at[x] = "started" /\ body[x].op # "update")
           /\ at[x] # "idle"
    BY DEF TypeOK, Creates
  <2> QED BY <2>1, <2>2, SeenKept
<1>8. SettingsFromRequests'
  <2>1. Remembered
    BY DEF TypeOK, Remembered
  <2>2. \A x \in Requests : Exists(x)' => Exists(x)
    BY DEF TypeOK, HandlersMatch, Exists
  <2> QED BY <2>1, <2>2, SettingsKept
<1> QED BY <1>1, <1>2, <1>3, <1>4, <1>5, <1>6, <1>7, <1>8

LEMMA ConsentCompleteIInv ==
  ASSUME IInv, NEW r \in Requests, NEW p \in Replicas, NEW b \in Bodies, NEW granted \in BOOLEAN,
         ConsentComplete(r, p, b, granted)
  PROVE  IInv'
<1> USE DEF ConsentComplete, IInv, request, row, consent, Receive, Answer
<1>1. TypeOK'
  BY DEF TypeOK
<1>2. HandlersMatch'
  BY DEF TypeOK, HandlersMatch, Creates, Exists
<1>3. OneTenantPerDirectory'
  BY DEF TypeOK, HandlersMatch, OneTenantPerDirectory, Clash, Exists
<1>4. AnswersAreTrue'
  BY DEF TypeOK, HandlersMatch, AnswersAreTrue, Creates, Exists
<1>5. SessionsFresh'
  BY DEF TypeOK, HandlersMatch, SessionsFresh, Consumed
<1>6. ConsentOnce'
  BY DEF TypeOK, HandlersMatch, SessionsFresh, ConsentOnce, Consumed
<1>7. SeenFromRequests'
  <2>1. Remembered
    BY DEF TypeOK, Remembered
  <2>2. \A x \in Requests : at'[x] = "checked" =>
           /\ at[x] = "checked" \/ (at[x] = "started" /\ body[x].op # "update")
           /\ at[x] # "idle"
    BY DEF TypeOK, Creates
  <2> QED BY <2>1, <2>2, SeenKept
<1>8. SettingsFromRequests'
  <2>1. Remembered
    BY DEF TypeOK, Remembered
  <2>2. \A x \in Requests : Exists(x)' => Exists(x)
    BY DEF TypeOK, HandlersMatch, Exists
  <2> QED BY <2>1, <2>2, SettingsKept
<1> QED BY <1>1, <1>2, <1>3, <1>4, <1>5, <1>6, <1>7, <1>8

LEMMA CheckUniqueIInv ==
  ASSUME IInv, NEW r \in Requests,
         CheckUnique(r)
  PROVE  IInv'
<1> USE DEF CheckUnique, IInv, request, row, consent, Answer
<1>1. TypeOK'
  BY DEF TypeOK
<1>2. HandlersMatch'
  BY DEF TypeOK, HandlersMatch, Creates, Exists
<1>3. OneTenantPerDirectory'
  BY DEF TypeOK, HandlersMatch, OneTenantPerDirectory, Clash, Exists
<1>4. AnswersAreTrue'
  BY DEF TypeOK, HandlersMatch, AnswersAreTrue, Creates, Exists
<1>5. SessionsFresh'
  <2>1. \A x \in Requests : Consumed(x)' => Consumed(x)
    BY DEF TypeOK, HandlersMatch, Consumed
  <2> QED BY <2>1 DEF SessionsFresh
<1>6. ConsentOnce'
  <2>1. \A x \in Requests : Consumed(x)' => Consumed(x)
    BY DEF TypeOK, HandlersMatch, Consumed
  <2> QED BY <2>1 DEF ConsentOnce
<1>7. SeenFromRequests'
  <2>1. Remembered
    BY DEF TypeOK, Remembered
  <2>2. \A x \in Requests : at'[x] = "checked" =>
           /\ at[x] = "checked" \/ (at[x] = "started" /\ body[x].op # "update")
           /\ at[x] # "idle"
    BY DEF TypeOK, Creates
  <2> QED BY <2>1, <2>2, SeenKept
<1>8. SettingsFromRequests'
  <2>1. Remembered
    BY DEF TypeOK, Remembered
  <2>2. \A x \in Requests : Exists(x)' => Exists(x)
    BY DEF TypeOK, HandlersMatch, Exists
  <2> QED BY <2>1, <2>2, SettingsKept
<1> QED BY <1>1, <1>2, <1>3, <1>4, <1>5, <1>6, <1>7, <1>8

LEMMA InsertTenantIInv ==
  ASSUME IInv, NEW r \in Requests,
         InsertTenant(r)
  PROVE  IInv'
<1> USE DEF InsertTenant, IInv, request, row, consent, Answer, Advance, NewRow
<1>1. TypeOK'
  <2>1. status' \in [Requests -> {"none", "onboarding", "active", "suspended", "offboarding"}]
    BY DEF TypeOK
  <2>2. config' \in [Requests -> [Settings -> Requests]]
    <3>1. CASE UNCHANGED config
      BY <3>1 DEF TypeOK
    <3>2. CASE config' = [config EXCEPT ![r] = [f \in Settings |-> r]]
      <4> HIDE DEF InsertTenant
      <4> QED BY <3>2 DEF TypeOK
    <3> QED BY <3>1, <3>2
  <2>3. /\ at' \in [Requests -> {"idle", "started", "checked", "written", "audited", "done"}]
        /\ reply' \in [Requests -> {"none", "ok", "conflict", "notFound", "invalidState",
                                    "denied", "failed"}]
    BY DEF TypeOK
  <2> QED BY <2>1, <2>2, <2>3 DEF TypeOK
<1>2. HandlersMatch'
  BY DEF TypeOK, HandlersMatch, Creates, Exists
<1>3. OneTenantPerDirectory'
  BY DEF TypeOK, HandlersMatch, OneTenantPerDirectory, Clash, Exists
<1>4. AnswersAreTrue'
  <2>1. \A x \in Requests \ {r} :
           at'[x] = at[x] /\ reply'[x] = reply[x] /\ status'[x] = status[x]
    BY DEF TypeOK
  <2>2. at'[r] = "written" \/ reply'[r] = "failed"
    BY DEF TypeOK
  <2>3. \A x \in Requests : Creates(x)' = Creates(x)
    BY DEF Creates
  <2>4. AnswersAreTrue
    OBVIOUS
  <2> HIDE DEF InsertTenant, IInv
  <2> QED BY <2>1, <2>2, <2>3, <2>4 DEF AnswersAreTrue, Exists
<1>5. SessionsFresh'
  <2>1. ASSUME NEW x \in Requests, Consumed(x)' PROVE Consumed(x)
    <3>1. CASE x = r
      <4>1. at[r] # "idle" /\ reply[r] = "none"
        BY DEF HandlersMatch
      <4> QED BY <2>1, <3>1, <4>1 DEF Consumed
    <3>2. CASE x # r
      <4>1. at'[x] = at[x] /\ reply'[x] = reply[x]
        BY <3>2 DEF TypeOK
      <4> QED BY <2>1, <4>1 DEF Consumed
    <3> QED BY <3>1, <3>2
  <2> QED BY <2>1 DEF SessionsFresh
<1>6. ConsentOnce'
  <2>1. ASSUME NEW x \in Requests, Consumed(x)' PROVE Consumed(x)
    <3>1. CASE x = r
      <4>1. at[r] # "idle" /\ reply[r] = "none"
        BY DEF HandlersMatch
      <4> QED BY <2>1, <3>1, <4>1 DEF Consumed
    <3>2. CASE x # r
      <4>1. at'[x] = at[x] /\ reply'[x] = reply[x]
        BY <3>2 DEF TypeOK
      <4> QED BY <2>1, <4>1 DEF Consumed
    <3> QED BY <3>1, <3>2
  <2> QED BY <2>1 DEF ConsentOnce
<1>7. SeenFromRequests'
  <2>1. Remembered
    BY DEF TypeOK, Remembered
  <2>2. \A x \in Requests : at'[x] = "checked" =>
           /\ at[x] = "checked" \/ (at[x] = "started" /\ body[x].op # "update")
           /\ at[x] # "idle"
    BY DEF TypeOK, Creates
  <2> QED BY <2>1, <2>2, SeenKept
<1>8. SettingsFromRequests'
  <2> SUFFICES ASSUME NEW t \in Requests, Exists(t)', NEW f \in Settings
               PROVE  FromRequest(t, f, config[t][f])'
    BY DEF SettingsFromRequests
  <2>1. CASE t = r
    <3>1. config'[r] = [g \in Settings |-> r]
      BY <2>1 DEF TypeOK, HandlersMatch, Exists
    <3> QED BY <2>1, <3>1 DEF FromRequest
  <2>2. CASE t # r
    <3>1. Exists(t) /\ config'[t] = config[t]
      BY <2>2 DEF TypeOK, Exists
    <3>2. FromRequest(t, f, config[t][f])
      BY <3>1 DEF SettingsFromRequests
    <3> QED BY SMTT(30), <3>1, <3>2 DEF TypeOK, FromRequest
  <2> QED BY <2>1, <2>2
<1> QED BY <1>1, <1>2, <1>3, <1>4, <1>5, <1>6, <1>7, <1>8

LEMMA ReadTenantIInv ==
  ASSUME IInv, NEW r \in Requests,
         ReadTenant(r)
  PROVE  IInv'
<1> USE DEF ReadTenant, IInv, request, row, consent, Answer
<1>1. TypeOK'
  BY DEF TypeOK
<1>2. HandlersMatch'
  <2> SUFFICES ASSUME NEW x \in Requests
               PROVE  /\ at'[x] = "idle" => home[x] = NoReplica /\ ~Exists(x)
                      /\ at'[x] # "idle" => body[x] \in Bodies
                      /\ Exists(x) => at'[x] \in {"written", "audited", "done"} /\ Creates(x)
                      /\ at'[x] # "done" => reply'[x] = "none"
                      /\ at'[x] \in {"written", "audited"} /\ Creates(x) => Exists(x)
                      /\ at'[x] \in {"checked", "written", "audited"} /\ ~Creates(x) => Exists(tenant[x])
    BY DEF HandlersMatch, Exists, Creates
  <2>1. CASE x = r
    <3>1. CASE Exists(tenant[r])
      <4>1. at'[r] = "checked" /\ reply'[r] = "none"
        BY <3>1 DEF TypeOK, HandlersMatch
      <4> QED BY <2>1, <3>1, <4>1 DEF HandlersMatch
    <3>2. CASE ~Exists(tenant[r])
      <4>1. at'[r] = "done"
        BY <3>2 DEF TypeOK
      <4> QED BY <2>1, <4>1 DEF HandlersMatch
    <3> QED BY <3>1, <3>2
  <2>2. CASE x # r
    <3>1. at'[x] = at[x] /\ reply'[x] = reply[x]
      BY <2>2 DEF TypeOK
    <3> QED BY <3>1 DEF HandlersMatch
  <2> QED BY <2>1, <2>2
<1>3. OneTenantPerDirectory'
  BY DEF TypeOK, HandlersMatch, OneTenantPerDirectory, Clash, Exists
<1>4. AnswersAreTrue'
  BY DEF TypeOK, HandlersMatch, AnswersAreTrue, Creates, Exists
<1>5. SessionsFresh'
  <2>1. ASSUME NEW x \in Requests, Consumed(x)' PROVE Consumed(x)
    <3>1. CASE x = r
      <4>1. at[r] # "idle" /\ reply[r] = "none"
        BY DEF HandlersMatch
      <4> QED BY <2>1, <3>1, <4>1 DEF Consumed
    <3>2. CASE x # r
      <4>1. at'[x] = at[x] /\ reply'[x] = reply[x]
        BY <3>2 DEF TypeOK
      <4> QED BY <2>1, <4>1 DEF Consumed
    <3> QED BY <3>1, <3>2
  <2> QED BY <2>1 DEF SessionsFresh
<1>6. ConsentOnce'
  <2>1. ASSUME NEW x \in Requests, Consumed(x)' PROVE Consumed(x)
    <3>1. CASE x = r
      <4>1. at[r] # "idle" /\ reply[r] = "none"
        BY DEF HandlersMatch
      <4> QED BY <2>1, <3>1, <4>1 DEF Consumed
    <3>2. CASE x # r
      <4>1. at'[x] = at[x] /\ reply'[x] = reply[x]
        BY <3>2 DEF TypeOK
      <4> QED BY <2>1, <4>1 DEF Consumed
    <3> QED BY <3>1, <3>2
  <2> QED BY <2>1 DEF ConsentOnce
<1>7. SeenFromRequests'
  <2> SUFFICES ASSUME NEW x \in Requests, at'[x] = "checked", body[x].op = "update",
                      NEW f \in Settings
               PROVE  FromRequest(tenant[x], f, seen[x][f])'
    BY DEF SeenFromRequests
  <2>1. CASE x # r
    <3>1. FromRequest(tenant[x], f, seen[x][f]) /\ seen'[x] = seen[x]
      <4>1. at'[x] = at[x] /\ seen'[x] = seen[x]
        BY <2>1 DEF TypeOK
      <4> QED BY <4>1 DEF SeenFromRequests
    <3>2. seen[x][f] \in Requests
      BY DEF TypeOK
    <3>3. \A y \in Requests : at[y] # "idle" => at'[y] # "idle"
      BY DEF TypeOK
    <3> QED BY <3>1, <3>2, <3>3 DEF FromRequest
  <2>2. CASE x = r
    <3>1. seen'[r] = config[tenant[r]] /\ Exists(tenant[r]) /\ tenant[r] \in Requests
      BY <2>2 DEF TypeOK
    <3>2. FromRequest(tenant[r], f, config[tenant[r]][f])
      BY <3>1 DEF SettingsFromRequests
    <3> QED BY <2>2, <3>1, <3>2 DEF TypeOK, FromRequest
  <2> QED BY <2>1, <2>2
<1>8. SettingsFromRequests'
  <2>1. Remembered
    BY DEF TypeOK, Remembered
  <2>2. \A x \in Requests : Exists(x)' => Exists(x)
    BY DEF TypeOK, HandlersMatch, Exists
  <2> QED BY <2>1, <2>2, SettingsKept
<1> QED BY <1>1, <1>2, <1>3, <1>4, <1>5, <1>6, <1>7, <1>8

LEMMA UpdateTenantIInv ==
  ASSUME IInv, NEW r \in Requests,
         UpdateTenant(r)
  PROVE  IInv'
<1> USE DEF UpdateTenant, IInv, request, row, consent, Advance
<1>1. TypeOK'
  <2>1. body[r] \in Bodies /\ tenant[r] \in Requests
    BY DEF TypeOK, HandlersMatch
  <2>2. status' \in [Requests -> {"none", "onboarding", "active", "suspended", "offboarding"}]
    <3>1. body[r].status \in {"unchanged", "active", "suspended"}
      BY <2>1
    <3> QED BY <2>1, <3>1 DEF TypeOK
  <2>3. config' \in [Requests -> [Settings -> Requests]]
    <3>1. [f \in Settings |-> IF f \in body[r].settings THEN r ELSE seen[r][f]]
             \in [Settings -> Requests]
      BY DEF TypeOK
    <3> QED BY <2>1, <3>1 DEF TypeOK
  <2>4. at' \in [Requests -> {"idle", "started", "checked", "written", "audited", "done"}]
    BY DEF TypeOK
  <2> QED BY <2>2, <2>3, <2>4 DEF TypeOK
<1>2. HandlersMatch'
  BY SMTT(20), ZenonT(60) DEF TypeOK, HandlersMatch, Creates, Exists
<1>3. OneTenantPerDirectory'
  <2>1. \A t \in Requests : Exists(t)' => Exists(t)
    BY DEF TypeOK, HandlersMatch, Exists, Creates
  <2>2. \A t, x \in Requests : Clash(t, x)' => Clash(t, x)
    BY <2>1 DEF Clash
  <2> QED BY <2>1, <2>2 DEF OneTenantPerDirectory
<1>4. AnswersAreTrue'
  BY SMTT(20), ZenonT(60) DEF TypeOK, HandlersMatch, AnswersAreTrue, Creates, Exists
<1>5. SessionsFresh'
  BY DEF TypeOK, HandlersMatch, SessionsFresh, Consumed
<1>6. ConsentOnce'
  BY DEF TypeOK, HandlersMatch, SessionsFresh, ConsentOnce, Consumed
<1>7. SeenFromRequests'
  <2>1. Remembered
    BY DEF TypeOK, Remembered
  <2>2. \A x \in Requests : at'[x] = "checked" =>
           /\ at[x] = "checked" \/ (at[x] = "started" /\ body[x].op # "update")
           /\ at[x] # "idle"
    BY DEF TypeOK, Creates
  <2> QED BY <2>1, <2>2, SeenKept
<1>8. SettingsFromRequests'
  <2> SUFFICES ASSUME NEW t \in Requests, Exists(t)', NEW f \in Settings
               PROVE  FromRequest(t, f, config[t][f])'
    BY DEF SettingsFromRequests
  <2>1. Exists(t) /\ FromRequest(t, f, config[t][f])
    <3>1. Exists(t)
      BY DEF TypeOK, HandlersMatch, Exists, Creates
    <3> QED BY <3>1 DEF SettingsFromRequests
  <2>2. \A x \in Requests : at[x] # "idle" => at'[x] # "idle"
    BY DEF TypeOK
  <2>3. CASE config'[t][f] = config[t][f]
    <3>1. config[t][f] \in Requests
      BY DEF TypeOK
    <3> QED BY <2>1, <2>2, <2>3, <3>1 DEF FromRequest
  <2>4. CASE config'[t][f] # config[t][f]
    <3>1. t = tenant[r] /\ body[r].settings # {}
      BY <2>4 DEF TypeOK
    <3>2. config'[t][f] = IF f \in body[r].settings THEN r ELSE seen[r][f]
      BY <3>1 DEF TypeOK
    <3>3. CASE f \in body[r].settings
      BY <2>2, <3>1, <3>2, <3>3 DEF TypeOK, FromRequest
    <3>4. CASE f \notin body[r].settings
      <4>1. FromRequest(t, f, seen[r][f])
        <5>1. at[r] = "checked" /\ body[r].op = "update"
          OBVIOUS
        <5> QED BY <3>1, <5>1 DEF SeenFromRequests
      <4>2. seen[r][f] \in Requests
        BY DEF TypeOK
      <4>3. config'[t][f] = seen[r][f]
        BY <3>2, <3>4
      <4> QED BY <2>2, <4>1, <4>2, <4>3 DEF FromRequest
    <3> QED BY <3>3, <3>4
  <2> QED BY <2>3, <2>4
<1> QED BY <1>1, <1>2, <1>3, <1>4, <1>5, <1>6, <1>7, <1>8

LEMMA OffboardTenantIInv ==
  ASSUME IInv, NEW r \in Requests,
         OffboardTenant(r)
  PROVE  IInv'
<1> USE DEF OffboardTenant, IInv, request, row, consent, Advance
<1>1. TypeOK'
  BY DEF TypeOK
<1>2. HandlersMatch'
  <2>1. /\ UNCHANGED <<body, home, tenant, reply>> /\ ~Creates(r)
        /\ at[r] = "checked" /\ at' = [at EXCEPT ![r] = "written"]
    BY DEF Creates
  <2>2. \A t \in Requests : Exists(t)' <=> Exists(t)
    BY <2>1 DEF TypeOK, HandlersMatch, Exists
  <2>3. \A x \in Requests : Creates(x)' <=> Creates(x)
    BY <2>1 DEF Creates
  <2>4. tenant \in [Requests -> Requests] /\ HandlersMatch
        /\ at \in [Requests -> {"idle", "started", "checked", "written", "audited", "done"}]
    BY DEF TypeOK
  <2> HIDE DEF OffboardTenant, IInv
  <2> QED BY <2>1, <2>2, <2>3, <2>4 DEF HandlersMatch
<1>3. OneTenantPerDirectory'
  <2>1. \A t \in Requests : Exists(t)' => Exists(t)
    BY DEF TypeOK, HandlersMatch, Exists, Creates
  <2>2. \A t, x \in Requests : Clash(t, x)' => Clash(t, x)
    BY <2>1 DEF Clash
  <2> QED BY <2>1, <2>2 DEF OneTenantPerDirectory
<1>4. AnswersAreTrue'
  BY DEF TypeOK, HandlersMatch, AnswersAreTrue, Creates, Exists
<1>5. SessionsFresh'
  BY DEF TypeOK, HandlersMatch, SessionsFresh, Consumed
<1>6. ConsentOnce'
  BY DEF TypeOK, HandlersMatch, SessionsFresh, ConsentOnce, Consumed
<1>7. SeenFromRequests'
  <2>1. Remembered
    BY DEF TypeOK, Remembered
  <2>2. \A x \in Requests : at'[x] = "checked" =>
           /\ at[x] = "checked" \/ (at[x] = "started" /\ body[x].op # "update")
           /\ at[x] # "idle"
    BY DEF TypeOK, Creates
  <2> QED BY <2>1, <2>2, SeenKept
<1>8. SettingsFromRequests'
  <2>1. Remembered
    BY DEF TypeOK, Remembered
  <2>2. \A x \in Requests : Exists(x)' => Exists(x)
    BY DEF TypeOK, HandlersMatch, Exists, Creates
  <2> QED BY <2>1, <2>2, SettingsKept
<1> QED BY <1>1, <1>2, <1>3, <1>4, <1>5, <1>6, <1>7, <1>8

LEMMA FinishSyncIInv ==
  ASSUME IInv, NEW r \in Requests,
         FinishSync(r)
  PROVE  IInv'
<1> USE DEF FinishSync, IInv, request, row, consent, Advance
<1>1. TypeOK'
  BY DEF TypeOK
<1>2. HandlersMatch'
  BY DEF TypeOK, HandlersMatch, Creates, Exists
<1>3. OneTenantPerDirectory'
  BY DEF TypeOK, HandlersMatch, OneTenantPerDirectory, Clash, Exists
<1>4. AnswersAreTrue'
  BY DEF TypeOK, HandlersMatch, AnswersAreTrue, Creates, Exists
<1>5. SessionsFresh'
  BY DEF TypeOK, HandlersMatch, SessionsFresh, Consumed
<1>6. ConsentOnce'
  BY DEF TypeOK, HandlersMatch, SessionsFresh, ConsentOnce, Consumed
<1>7. SeenFromRequests'
  <2>1. Remembered
    BY DEF TypeOK, Remembered
  <2>2. \A x \in Requests : at'[x] = "checked" =>
           /\ at[x] = "checked" \/ (at[x] = "started" /\ body[x].op # "update")
           /\ at[x] # "idle"
    BY DEF TypeOK, Creates
  <2> QED BY <2>1, <2>2, SeenKept
<1>8. SettingsFromRequests'
  <2>1. Remembered
    BY DEF TypeOK, Remembered
  <2>2. \A x \in Requests : Exists(x)' => Exists(x)
    BY DEF TypeOK, HandlersMatch, Exists
  <2> QED BY <2>1, <2>2, SettingsKept
<1> QED BY <1>1, <1>2, <1>3, <1>4, <1>5, <1>6, <1>7, <1>8

LEMMA AuditIInv ==
  ASSUME IInv, NEW r \in Requests, NEW recorded \in BOOLEAN,
         Audit(r, recorded)
  PROVE  IInv'
<1> USE DEF Audit, IInv, request, row, consent, Advance
<1>1. TypeOK'
  BY DEF TypeOK
<1>2. HandlersMatch'
  BY DEF TypeOK, HandlersMatch, Creates, Exists
<1>3. OneTenantPerDirectory'
  BY DEF TypeOK, HandlersMatch, OneTenantPerDirectory, Clash, Exists
<1>4. AnswersAreTrue'
  BY DEF TypeOK, HandlersMatch, AnswersAreTrue, Creates, Exists
<1>5. SessionsFresh'
  <2>1. \A x \in Requests : Consumed(x)' => Consumed(x)
    BY DEF TypeOK, HandlersMatch, Consumed
  <2> QED BY <2>1 DEF SessionsFresh
<1>6. ConsentOnce'
  <2>1. \A x \in Requests : Consumed(x)' => Consumed(x)
    BY DEF TypeOK, HandlersMatch, Consumed
  <2> QED BY <2>1 DEF ConsentOnce
<1>7. SeenFromRequests'
  <2>1. Remembered
    BY DEF TypeOK, Remembered
  <2>2. \A x \in Requests : at'[x] = "checked" =>
           /\ at[x] = "checked" \/ (at[x] = "started" /\ body[x].op # "update")
           /\ at[x] # "idle"
    BY DEF TypeOK, Creates
  <2> QED BY <2>1, <2>2, SeenKept
<1>8. SettingsFromRequests'
  <2>1. Remembered
    BY DEF TypeOK, Remembered
  <2>2. \A x \in Requests : Exists(x)' => Exists(x)
    BY DEF TypeOK, HandlersMatch, Exists
  <2> QED BY <2>1, <2>2, SettingsKept
<1> QED BY <1>1, <1>2, <1>3, <1>4, <1>5, <1>6, <1>7, <1>8

LEMMA ReplyIInv ==
  ASSUME IInv, NEW r \in Requests,
         Reply(r)
  PROVE  IInv'
<1> USE DEF Reply, IInv, request, row, consent, Answer
<1>1. TypeOK'
  BY DEF TypeOK
<1>2. HandlersMatch'
  BY DEF TypeOK, HandlersMatch, Creates, Exists
<1>3. OneTenantPerDirectory'
  BY DEF TypeOK, HandlersMatch, OneTenantPerDirectory, Clash, Exists
<1>4. AnswersAreTrue'
  BY DEF TypeOK, HandlersMatch, AnswersAreTrue, Creates, Exists
<1>5. SessionsFresh'
  <2>1. \A x \in Requests : Consumed(x)' => Consumed(x)
    BY DEF TypeOK, HandlersMatch, Consumed
  <2> QED BY <2>1 DEF SessionsFresh
<1>6. ConsentOnce'
  <2>1. \A x \in Requests : Consumed(x)' => Consumed(x)
    BY DEF TypeOK, HandlersMatch, Consumed
  <2> QED BY <2>1 DEF ConsentOnce
<1>7. SeenFromRequests'
  <2>1. Remembered
    BY DEF TypeOK, Remembered
  <2>2. \A x \in Requests : at'[x] = "checked" =>
           /\ at[x] = "checked" \/ (at[x] = "started" /\ body[x].op # "update")
           /\ at[x] # "idle"
    BY DEF TypeOK, Creates
  <2> QED BY <2>1, <2>2, SeenKept
<1>8. SettingsFromRequests'
  <2>1. Remembered
    BY DEF TypeOK, Remembered
  <2>2. \A x \in Requests : Exists(x)' => Exists(x)
    BY DEF TypeOK, HandlersMatch, Exists
  <2> QED BY <2>1, <2>2, SettingsKept
<1> QED BY <1>1, <1>2, <1>3, <1>4, <1>5, <1>6, <1>7, <1>8

LEMMA FailIInv ==
  ASSUME IInv, NEW r \in Requests,
         Fail(r)
  PROVE  IInv'
<1> USE DEF Fail, IInv, request, row, consent, Answer
<1>1. TypeOK'
  BY DEF TypeOK
<1>2. HandlersMatch'
  BY DEF TypeOK, HandlersMatch, Creates, Exists
<1>3. OneTenantPerDirectory'
  BY DEF TypeOK, HandlersMatch, OneTenantPerDirectory, Clash, Exists
<1>4. AnswersAreTrue'
  BY DEF TypeOK, HandlersMatch, AnswersAreTrue, Creates, Exists
<1>5. SessionsFresh'
  <2>1. \A x \in Requests : Consumed(x)' => Consumed(x)
    BY DEF TypeOK, HandlersMatch, Consumed
  <2> QED BY <2>1 DEF SessionsFresh
<1>6. ConsentOnce'
  <2>1. \A x \in Requests : Consumed(x)' => Consumed(x)
    BY DEF TypeOK, HandlersMatch, Consumed
  <2> QED BY <2>1 DEF ConsentOnce
<1>7. SeenFromRequests'
  <2>1. Remembered
    BY DEF TypeOK, Remembered
  <2>2. \A x \in Requests : at'[x] = "checked" =>
           /\ at[x] = "checked" \/ (at[x] = "started" /\ body[x].op # "update")
           /\ at[x] # "idle"
    BY DEF TypeOK, Creates
  <2> QED BY <2>1, <2>2, SeenKept
<1>8. SettingsFromRequests'
  <2>1. Remembered
    BY DEF TypeOK, Remembered
  <2>2. \A x \in Requests : Exists(x)' => Exists(x)
    BY DEF TypeOK, HandlersMatch, Exists
  <2> QED BY <2>1, <2>2, SettingsKept
<1> QED BY <1>1, <1>2, <1>3, <1>4, <1>5, <1>6, <1>7, <1>8

LEMMA CrashIInv ==
  ASSUME IInv, NEW p \in Replicas,
         Crash(p)
  PROVE  IInv'
<1> USE DEF Crash, IInv, request, row, consent
<1>1. TypeOK'
  BY DEF TypeOK
<1>2. HandlersMatch'
  BY DEF TypeOK, HandlersMatch, Creates, Exists
<1>3. OneTenantPerDirectory'
  BY DEF TypeOK, HandlersMatch, OneTenantPerDirectory, Clash, Exists
<1>4. AnswersAreTrue'
  BY DEF TypeOK, HandlersMatch, AnswersAreTrue, Creates, Exists
<1>5. SessionsFresh'
  BY DEF TypeOK, HandlersMatch, SessionsFresh, Consumed
<1>6. ConsentOnce'
  BY DEF TypeOK, HandlersMatch, SessionsFresh, ConsentOnce, Consumed
<1>7. SeenFromRequests'
  <2>1. Remembered
    BY DEF TypeOK, Remembered
  <2>2. \A x \in Requests : at'[x] = "checked" =>
           /\ at[x] = "checked" \/ (at[x] = "started" /\ body[x].op # "update")
           /\ at[x] # "idle"
    BY DEF TypeOK, Creates
  <2> QED BY <2>1, <2>2, SeenKept
<1>8. SettingsFromRequests'
  <2>1. Remembered
    BY DEF TypeOK, Remembered
  <2>2. \A x \in Requests : Exists(x)' => Exists(x)
    BY DEF TypeOK, HandlersMatch, Exists
  <2> QED BY <2>1, <2>2, SettingsKept
<1> QED BY <1>1, <1>2, <1>3, <1>4, <1>5, <1>6, <1>7, <1>8

LEMMA NextIInv == IInv /\ [Next]_vars => IInv'
<1> SUFFICES ASSUME IInv, [Next]_vars PROVE IInv'
  OBVIOUS
<1>1. CASE Next
  BY <1>1, ArriveIInv, ConsentStartIInv, SweepSessionIInv, ConsentCompleteIInv,
     CheckUniqueIInv, InsertTenantIInv, ReadTenantIInv, UpdateTenantIInv, OffboardTenantIInv,
     FinishSyncIInv, AuditIInv, ReplyIInv, FailIInv, CrashIInv DEF Next
<1>2. CASE UNCHANGED vars
  BY <1>2 DEF vars, request, row, consent, IInv, TypeOK, HandlersMatch,
     OneTenantPerDirectory, AnswersAreTrue, SessionsFresh, ConsentOnce, SeenFromRequests,
     SettingsFromRequests, FromRequest, Consumed, Clash, Exists, Creates
<1> QED BY <1>1, <1>2

\* The inductive invariant holds in every reachable state, TypeOK with it.
THEOREM LifecycleInvariant == Spec => []IInv
BY InitIInv, NextIInv, PTL DEF Spec

\* A domain and a directory belong to one tenant, however requests race.
THEOREM TenantsAreUnique == Spec => []OneTenantPerDirectory
<1>1. IInv => OneTenantPerDirectory
  BY DEF IInv
<1> QED BY <1>1, LifecycleInvariant, PTL

\* What a creation was answered is true of the table.
THEOREM CreationsAreAnswered == Spec => []AnswersAreTrue
<1>1. IInv => AnswersAreTrue
  BY DEF IInv
<1> QED BY <1>1, LifecycleInvariant, PTL

\* No consent session serves two completions.
THEOREM ConsentIsSingleUse == Spec => []ConsentOnce
<1>1. IInv => ConsentOnce
  BY DEF IInv
<1> QED BY <1>1, LifecycleInvariant, PTL

\* A step that brings no session and no completion is a stutter of the sessions.
LEMMA ServedKept ==
  ASSUME UNCHANGED <<request, consent>>,
         \A x \in Requests : (at[x] = "idle") <=> (at'[x] = "idle"),
         \A x \in Requests : (reply[x] = "invalidState") <=> (reply'[x] = "invalidState")
  PROVE  UNCHANGED <<[s \in States |-> SessionOf(s)], [s \in States |-> ServedBy(s)]>>
<1>1. \A s \in States : SessionOf(s)' = SessionOf(s)
  BY DEF consent, SessionOf
<1>2. \A x \in Requests : Consumed(x)' <=> Consumed(x)
  BY DEF request, Consumed
<1>3. \A s \in States : ServedBy(s)' = ServedBy(s)
  BY <1>2, Zenon DEF request, ServedBy
<1> QED BY <1>1, <1>3

\* Every step of a handler maps to a step of the one-time sessions or to none.
LEMMA SessionStep ==
  ASSUME IInv, Next
  PROVE  \/ Consents!Next
         \/ UNCHANGED <<[s \in States |-> SessionOf(s)], [s \in States |-> ServedBy(s)]>>
<1> USE DEF IInv, TypeOK
<1>1. ASSUME NEW r \in Requests, NEW t \in Requests, NEW p \in Replicas, NEW b \in Bodies,
             Arrive(r, p, b, t)
      PROVE  UNCHANGED <<[s \in States |-> SessionOf(s)], [s \in States |-> ServedBy(s)]>>
  <2>1. \A s \in States : SessionOf(s)' = SessionOf(s)
    BY <1>1 DEF Arrive, consent, SessionOf
  <2>2. \A x \in Requests : /\ Consumed(x)' <=> Consumed(x)
                            /\ Consumed(x) => body'[x] = body[x]
    BY <1>1 DEF Arrive, Receive, Consumed
  <2>3. \A s \in States : ServedBy(s)' = ServedBy(s)
    BY <2>2 DEF ServedBy
  <2> QED BY <2>1, <2>3
<1>2. ASSUME NEW p \in Replicas, NEW s \in States, ConsentStart(p, s)
      PROVE  Consents!Issue(s)
  <2>1. SessionOf(s) = "unissued" /\ SessionOf(s)' = "open"
    BY <1>2 DEF ConsentStart, SessionOf
  <2>2. \A z \in States \ {s} : SessionOf(z)' = SessionOf(z)
    BY <1>2 DEF ConsentStart, SessionOf
  <2>3. \A z \in States : ServedBy(z)' = ServedBy(z)
    BY <1>2 DEF ConsentStart, request, ServedBy, Consumed
  <2> QED BY <2>1, <2>2, <2>3 DEF Consents!Issue, Consents!Become
<1>3. ASSUME NEW p \in Replicas, NEW s \in States, SweepSession(p, s)
      PROVE  Consents!Close({s})
  <2>1. SessionOf(s) = "open" /\ SessionOf(s)' = "closed"
    BY <1>3 DEF SweepSession, SessionOf, SessionsFresh
  <2>2. \A z \in States \ {s} : SessionOf(z)' = SessionOf(z)
    BY <1>3 DEF SweepSession, SessionOf
  <2>3. \A z \in States : ServedBy(z)' = ServedBy(z)
    BY <1>3 DEF SweepSession, request, ServedBy, Consumed
  <2> QED BY <2>1, <2>2, <2>3 DEF Consents!Close
<1>4. ASSUME NEW r \in Requests, NEW p \in Replicas, NEW b \in Bodies, NEW granted \in BOOLEAN,
             ConsentComplete(r, p, b, granted), b.state \in sessions[p]
      PROVE  Consents!Redeem(b.state, r)
  <2> DEFINE s == b.state
  <2>0. s \in States
    BY <1>4
  <2>1. SessionOf(s) = "open" /\ SessionOf(s)' = "closed"
    BY <1>4 DEF ConsentComplete, SessionOf, SessionsFresh
  <2>2. \A z \in States \ {s} : SessionOf(z)' = SessionOf(z)
    BY <1>4 DEF ConsentComplete, SessionOf
  <2>3. \A x \in Requests \ {r} : /\ Consumed(x)' <=> Consumed(x)
                                  /\ body'[x] = body[x]
    BY <1>4 DEF ConsentComplete, Receive, Answer, Consumed
  <2>4. ~Consumed(r) /\ Consumed(r)' /\ body'[r] = b
    <3>1. at[r] = "idle" /\ reply[r] = "none" /\ b.op = "consent" /\ body' = [body EXCEPT ![r] = b]
      BY <1>4 DEF ConsentComplete, Receive, HandlersMatch
    <3>2. at'[r] # "idle" /\ reply'[r] # "invalidState"
      BY <1>4, <3>1 DEF ConsentComplete, Answer
    <3> QED BY <3>1, <3>2 DEF Consumed
  <2>5. \A x \in Requests : Consumed(x) => body[x].state # s
    BY <1>4 DEF SessionsFresh
  <2>6. ServedBy(s)' = {r}
    BY <2>3, <2>4, <2>5 DEF ServedBy
  <2>7. \A z \in States \ {s} : ServedBy(z)' = ServedBy(z)
    BY <2>3, <2>4 DEF ServedBy
  <2> QED BY <2>0, <2>1, <2>2, <2>6, <2>7 DEF Consents!Redeem, Consents!Become
<1>5. ASSUME NEW r \in Requests, NEW p \in Replicas, NEW b \in Bodies, NEW granted \in BOOLEAN,
             ConsentComplete(r, p, b, granted), b.state \notin sessions[p]
      PROVE  UNCHANGED <<[s \in States |-> SessionOf(s)], [s \in States |-> ServedBy(s)]>>
  <2>1. \A s \in States : SessionOf(s)' = SessionOf(s)
    BY <1>5 DEF ConsentComplete, SessionOf
  <2>2. \A x \in Requests : /\ Consumed(x)' <=> Consumed(x)
                            /\ Consumed(x) => body'[x] = body[x]
    BY <1>5 DEF ConsentComplete, Receive, Answer, Consumed
  <2>3. \A s \in States : ServedBy(s)' = ServedBy(s)
    BY <2>2 DEF ServedBy
  <2> QED BY <2>1, <2>3
<1>6. ASSUME NEW p \in Replicas, Crash(p)
      PROVE  Consents!Close(sessions[p])
  <2>1. \A s \in sessions[p] : SessionOf(s) = "open" /\ SessionOf(s)' = "closed"
    BY <1>6 DEF Crash, SessionOf, SessionsFresh
  <2>2. \A z \in States \ sessions[p] : SessionOf(z)' = SessionOf(z)
    BY <1>6 DEF Crash, SessionOf
  <2>3. \A x \in Requests : Consumed(x)' <=> Consumed(x)
    BY <1>6 DEF Crash, Consumed, request, HandlersMatch
  <2>4. \A z \in States : ServedBy(z)' = ServedBy(z)
    BY <1>6, <2>3 DEF Crash, request, ServedBy
  <2>5. \A s \in States : SessionOf(s)' =
           IF s \in sessions[p] THEN "closed" ELSE [z \in States |-> SessionOf(z)][s]
    BY <2>1, <2>2
  <2> QED BY <2>1, <2>4, <2>5 DEF Consents!Close
<1>7. ASSUME NEW r \in Requests,
             \/ CheckUnique(r) \/ InsertTenant(r) \/ ReadTenant(r) \/ UpdateTenant(r)
             \/ OffboardTenant(r) \/ FinishSync(r) \/ Reply(r) \/ Fail(r)
             \/ \E recorded \in BOOLEAN : Audit(r, recorded)
      PROVE  UNCHANGED <<[s \in States |-> SessionOf(s)], [s \in States |-> ServedBy(s)]>>
  <2> USE DEF Advance, Answer, CheckUnique, InsertTenant, ReadTenant, UpdateTenant,
              OffboardTenant, FinishSync, Fail, Audit, Reply
  <2>1. UNCHANGED <<request, consent>>
    BY <1>7
  <2>2. \A x \in Requests : (at[x] = "idle") <=> (at'[x] = "idle")
    BY <1>7
  <2>3. \A x \in Requests : (reply[x] = "invalidState") <=> (reply'[x] = "invalidState")
    BY <1>7 DEF HandlersMatch
  <2> QED BY <2>1, <2>2, <2>3, ServedKept
<1>8. \A p \in Replicas : sessions[p] \in SUBSET States
  OBVIOUS
<1>9. \A s \in States : {s} \in SUBSET States
  OBVIOUS
<1>10. \A b \in Bodies : b.state \in States
  BY BodiesAssumption DEF Body
<1>11. ASSUME NEW r \in Requests, NEW p \in Replicas, NEW b \in Bodies, NEW granted \in BOOLEAN,
              ConsentComplete(r, p, b, granted)
       PROVE  \/ Consents!Next
              \/ UNCHANGED <<[s \in States |-> SessionOf(s)], [s \in States |-> ServedBy(s)]>>
  <2>1. CASE b.state \in sessions[p]
    <3>1. Consents!Redeem(b.state, r)
      BY <1>4, <1>11, <2>1
    <3> HIDE DEF IInv, TypeOK
    <3> QED BY <3>1, <1>10 DEF Consents!Next
  <2>2. CASE b.state \notin sessions[p]
    BY <1>5, <1>11, <2>2
  <2> QED BY <2>1, <2>2
<1>12. CASE \E p \in Replicas, s \in States : ConsentStart(p, s)
  BY <1>2, <1>12 DEF Consents!Next
<1>13. CASE \E p \in Replicas, s \in States : SweepSession(p, s)
  BY <1>3, <1>9, <1>13 DEF Consents!Next
<1>14. CASE \E p \in Replicas : Crash(p)
  BY <1>6, <1>8, <1>14 DEF Consents!Next
<1> HIDE DEF IInv, TypeOK
<1> QED BY <1>1, <1>7, <1>11, <1>12, <1>13, <1>14 DEF Next

\* The Maps of all replicas implement one-time sessions: a state lets one
\* completion in and stays closed, wherever and however often it is sent.
THEOREM ConsentsAreOneTime == Spec => ConsentIsOneTime
<1>1. Init => Consents!Init
  BY DEF Init, SessionOf, ServedBy, Consumed, Consents!Init
<1>2. IInv /\ [Next]_vars => [Consents!Next]_(<<[s \in States |-> SessionOf(s)], [s \in States |-> ServedBy(s)]>>)
  <2> SUFFICES ASSUME UNCHANGED vars
               PROVE  UNCHANGED <<[s \in States |-> SessionOf(s)], [s \in States |-> ServedBy(s)]>>
    BY SessionStep
  <2> QED BY ServedKept DEF vars
<1> QED BY <1>1, <1>2, LifecycleInvariant, PTL DEF Spec, ConsentIsOneTime, Consents!Spec, Consents!vars

\* Every setting has a value some request of this tenant asked for.
THEOREM SettingsAreAskedFor == Spec => []SettingsFromRequests
<1>1. IInv => SettingsFromRequests
  BY DEF IInv
<1> QED BY <1>1, LifecycleInvariant, PTL

\* Once a tenant is active, suspended or offboarding, its status changes only
\* by a request for that status: by no sync, however late it ends.
THEOREM OnlyOperatorsDecide == Spec => OperatorsDecide
<1> DEFINE A == \A t \in Requests :
          status[t] \in {"active", "suspended", "offboarding"} /\ status'[t] # status[t] =>
              \E r \in Requests :
                  /\ tenant[r] = t
                  /\ at[r] = "checked" /\ at'[r] = "written"
                  /\ \/ body[r].op = "update" /\ status'[t] = body[r].status
                     \/ body[r].op = "offboard" /\ status'[t] = "offboarding"
<1>1. IInv /\ [Next]_vars => [A]_vars
  <2> SUFFICES ASSUME IInv, Next, NEW t \in Requests,
                      status[t] \in {"active", "suspended", "offboarding"},
                      status'[t] # status[t]
               PROVE  \E r \in Requests :
                  /\ tenant[r] = t
                  /\ at[r] = "checked" /\ at'[r] = "written"
                  /\ \/ body[r].op = "update" /\ status'[t] = body[r].status
                     \/ body[r].op = "offboard" /\ status'[t] = "offboarding"
    OBVIOUS
  <2>1. CASE \E r \in Requests : InsertTenant(r)
    BY SMTT(20), ZenonT(60), <2>1 DEF InsertTenant, NewRow, row, IInv, TypeOK, HandlersMatch, Exists
  <2>2. CASE \E r \in Requests : UpdateTenant(r)
    BY <2>2 DEF UpdateTenant, Advance, IInv, TypeOK
  <2>3. CASE \E r \in Requests : OffboardTenant(r)
    BY <2>3 DEF OffboardTenant, Advance, IInv, TypeOK
  <2>4. CASE \E r \in Requests : FinishSync(r)
    BY <2>4 DEF FinishSync, IInv, TypeOK
  <2>5. CASE UNCHANGED status
    BY <2>5
  <2> QED BY <2>1, <2>2, <2>3, <2>4, <2>5 DEF Next, row, Arrive, ConsentStart, SweepSession,
             ConsentComplete, CheckUnique, ReadTenant, Audit, Reply, Fail, Crash
<1> QED BY <1>1, LifecycleInvariant, PTL DEF Spec, OperatorsDecide

\* A record stays true where a step leaves the tenants alone.
LEMMA EffectsKept ==
  ASSUME IInv, EffectsStand, AuditIsTrue, Remembered, UNCHANGED row, audited' \subseteq Requests,
         \A x \in Requests : at[x] \notin {"idle", "started"} => at'[x] \notin {"idle", "started"},
         \A x \in Requests : at'[x] \in {"written", "audited"} => at[x] \in {"written", "audited"},
         \A x \in audited' : /\ at'[x] \in {"audited", "done"}
                             /\ reply'[x] \in {"none", "ok"}
                             /\ at[x] \in {"written", "audited"} \/ x \in audited
  PROVE  EffectsStand' /\ AuditIsTrue'
<1>1. ASSUME NEW r \in Requests,
             at[r] \in {"written", "audited"} \/ r \in audited
      PROVE  (TookEffect(r) /\ (Creates(r) \/ Exists(tenant[r])))'
  <2>1. at[r] \notin {"idle", "started"} /\ TookEffect(r) /\ (Creates(r) \/ Exists(tenant[r]))
    BY <1>1 DEF EffectsStand
  <2>2. /\ body'[r] = body[r] /\ tenant'[r] = tenant[r]
        /\ UNCHANGED <<status, config>>
    BY <2>1 DEF Remembered, row
  <2>3. \A q \in Requests : Rival(q, r) => /\ Rival(q, r)'
                                           /\ StatusAsked(q)' = StatusAsked(q)
                                           /\ SettingsAsked(q)' = SettingsAsked(q)
    BY <2>2 DEF Rival, Remembered, StatusAsked, SettingsAsked
  <2>4. /\ StatusAsked(r)' = StatusAsked(r) /\ SettingsAsked(r)' = SettingsAsked(r)
        /\ Creates(r)' = Creates(r)
    BY <2>2 DEF StatusAsked, SettingsAsked, Creates
  <2> QED BY <2>1, <2>2, <2>3, <2>4 DEF TookEffect, Exists
<1>2. AuditIsTrue'
  BY <1>1 DEF AuditIsTrue
<1> QED BY <1>1, <1>2 DEF EffectsStand

\* The statements that change a tenant.
Writes(q) == InsertTenant(q) \/ UpdateTenant(q) \/ OffboardTenant(q) \/ FinishSync(q)

\* What one of them does to the tenants, and that it asked for it.
LEMMA WriteStep ==
  ASSUME IInv, NEW q \in Requests, Writes(q)
  PROVE  /\ at[q] = "checked" /\ UNCHANGED <<request, audited>>
         /\ \A r \in Requests \ {q} : at'[r] = at[r] /\ reply'[r] = reply[r]
         /\ \A t \in Requests : Exists(t) => Exists(t)'
         /\ \A t \in Requests : Exists(t) /\ status'[t] # status[t] =>
               tenant[q] = t /\ (status[t] # "onboarding" => StatusAsked(q) # "unchanged")
                             /\ status'[t] # "onboarding"
         /\ \A t \in Requests : Exists(t) /\ config'[t] # config[t] =>
               tenant[q] = t /\ SettingsAsked(q) # {}
<1> USE DEF IInv, TypeOK, HandlersMatch, Exists, Advance, Answer
<1>1. CASE InsertTenant(q)
  <2>1. ~Exists(q) /\ at[q] = "checked"
    BY <1>1 DEF InsertTenant
  <2>2. \A t \in Requests \ {q} : status'[t] = status[t] /\ config'[t] = config[t]
    BY <1>1 DEF InsertTenant, NewRow, row
  <2>3. /\ UNCHANGED <<request, audited>>
        /\ \A r \in Requests \ {q} : at'[r] = at[r] /\ reply'[r] = reply[r]
    BY <1>1 DEF InsertTenant
  <2> QED BY <2>1, <2>2, <2>3
<1>2. CASE UpdateTenant(q)
  <2>1. body[q].status \in {"unchanged", "active", "suspended"} /\ body[q].op = "update"
    BY <1>2, BodiesAssumption DEF UpdateTenant, Body
  <2>2. /\ at[q] = "checked" /\ UNCHANGED <<request, audited>>
        /\ \A r \in Requests \ {q} : at'[r] = at[r] /\ reply'[r] = reply[r]
    BY <1>2 DEF UpdateTenant
  <2>3. /\ tenant[q] \in Requests
        /\ \A t \in Requests \ {tenant[q]} : status'[t] = status[t] /\ config'[t] = config[t]
        /\ status'[tenant[q]] = IF body[q].status = "unchanged" THEN status[tenant[q]]
                               ELSE body[q].status
        /\ body[q].settings = {} => config'[tenant[q]] = config[tenant[q]]
    BY <1>2 DEF UpdateTenant
  <2>4. StatusAsked(q) = body[q].status /\ SettingsAsked(q) = body[q].settings
    BY <2>1 DEF StatusAsked, SettingsAsked
  <2> QED BY <2>1, <2>2, <2>3, <2>4
<1>3. CASE OffboardTenant(q)
  BY <1>3 DEF OffboardTenant, StatusAsked
<1>4. CASE FinishSync(q)
  BY <1>4 DEF FinishSync
<1> QED BY <1>1, <1>2, <1>3, <1>4 DEF Writes

\* The change is there when its statement is executed.
LEMMA WriteTakesEffect ==
  ASSUME IInv, NEW q \in Requests, Writes(q), at'[q] # "done"
  PROVE  (TookEffect(q) /\ (Creates(q) \/ Exists(tenant[q])))'
<1> USE DEF IInv, TypeOK, HandlersMatch, Exists, Advance, Answer, StatusAsked, SettingsAsked, Creates
<1>1. CASE InsertTenant(q)
  BY <1>1 DEF InsertTenant, NewRow, TookEffect, request
<1>2. CASE UpdateTenant(q)
  <2>1. body[q].status \in {"unchanged", "active", "suspended"} /\ body[q].op = "update"
    BY <1>2, BodiesAssumption DEF UpdateTenant, Body
  <2>2. tenant[q] \in Requests /\ UNCHANGED request /\ Exists(tenant[q])
    BY <1>2 DEF UpdateTenant
  <2>3. body[q].status # "unchanged" => status'[tenant[q]] = body[q].status
    BY <1>2 DEF UpdateTenant
  <2>4. \A f \in body[q].settings : config'[tenant[q]][f] = q
    <3>1. body[q].settings \subseteq Settings
      BY <1>2, BodiesAssumption DEF UpdateTenant, Body
    <3> QED BY <1>2, <3>1 DEF UpdateTenant
  <2>5. Exists(tenant[q])'
    BY <2>2, WriteStep DEF request
  <2> QED BY <2>1, <2>2, <2>3, <2>4, <2>5 DEF TookEffect, request
<1>3. CASE OffboardTenant(q)
  BY <1>3 DEF OffboardTenant, TookEffect, request
<1>4. CASE FinishSync(q)
  BY <1>4 DEF FinishSync, TookEffect, request
<1> QED BY <1>1, <1>2, <1>3, <1>4 DEF Writes

\* A record stays true while another request changes a tenant: it is a rival of
\* all that was changed before, unless it is a sync, which changes nothing then.
LEMMA EffectsChanged ==
  ASSUME IInv, EffectsStand, AuditIsTrue, Remembered, NEW q \in Requests, Writes(q)
  PROVE  EffectsStand' /\ AuditIsTrue'
<1>1. /\ at[q] = "checked" /\ UNCHANGED <<request, audited>>
      /\ \A r \in Requests \ {q} : at'[r] = at[r] /\ reply'[r] = reply[r]
      /\ \A t \in Requests : Exists(t) => Exists(t)'
  BY WriteStep
<1>2. q \notin audited
  BY <1>1 DEF EffectsStand
<1>3. ASSUME NEW r \in Requests \ {q},
             at[r] \in {"written", "audited"} \/ r \in audited
      PROVE  (TookEffect(r) /\ (Creates(r) \/ Exists(tenant[r])))'
  <2>1. /\ TookEffect(r) /\ (Creates(r) \/ Exists(tenant[r]))
        /\ at[r] # "idle" /\ tenant[r] \in Requests
    BY <1>3 DEF EffectsStand, IInv, TypeOK
  <2>2. /\ StatusAsked(r)' = StatusAsked(r) /\ SettingsAsked(r)' = SettingsAsked(r)
        /\ Creates(r)' = Creates(r) /\ body'[r] = body[r] /\ tenant'[r] = tenant[r]
    BY <1>1 DEF request, StatusAsked, SettingsAsked, Creates
  <2>3. CASE Creates(r)
    <3>1. StatusAsked(r) = "unchanged" /\ SettingsAsked(r) = {} /\ body[r].op # "sync"
      BY <2>3 DEF StatusAsked, SettingsAsked, Creates, Creations
    <3>2. Exists(r)'
      BY <1>1, <2>1, <2>3 DEF TookEffect
    <3> QED BY <2>2, <2>3, <3>1, <3>2 DEF TookEffect
  <2>4. CASE ~Creates(r)
    <3> DEFINE t == tenant[r]
    <3>1. Exists(t) /\ Exists(t)' /\ t \in Requests
      BY <1>1, <2>1, <2>2, <2>4 DEF Exists
    <3>2. /\ status'[t] # status[t] =>
               /\ tenant[q] = t /\ status'[t] # "onboarding"
               /\ status[t] # "onboarding" => StatusAsked(q) # "unchanged"
          /\ config'[t] # config[t] => tenant[q] = t /\ SettingsAsked(q) # {}
      BY <3>1, WriteStep
    <3>3. /\ StatusAsked(q)' = StatusAsked(q) /\ SettingsAsked(q)' = SettingsAsked(q)
          /\ tenant[q] = t => Rival(q, r)'
      <4>1. at'[q] \notin {"idle", "started"}
        BY <1>1 DEF Writes, InsertTenant, UpdateTenant, OffboardTenant, FinishSync, Advance,
                    Answer, IInv, TypeOK
      <4> QED BY <1>1, <2>2, <4>1 DEF request, StatusAsked, SettingsAsked, Rival
    <3>4. \A x \in Requests : Rival(x, r) => Rival(x, r)' \/ x = q
      BY <1>1 DEF Rival, request
    <3>5. \A x \in Requests : StatusAsked(x)' = StatusAsked(x) /\ SettingsAsked(x)' = SettingsAsked(x)
      BY <1>1 DEF request, StatusAsked, SettingsAsked
    <3>6. \A x \in Requests : Rival(x, r) => Rival(x, r)'
      BY <1>1, <3>3, <3>4 DEF Rival
    <3>7. StatusAsked(r) # "onboarding"
      BY <1>3, BodiesAssumption DEF StatusAsked, Body, IInv, HandlersMatch, EffectsStand
    <3>8. (body[r].op = "sync" => status[t] \notin {"none", "onboarding"})'
      BY <2>1, <2>2, <3>1, <3>2 DEF TookEffect, Exists
    <3>9. StatusAsked(r) # "unchanged" =>
            \/ status'[t] = StatusAsked(r)
            \/ \E x \in Requests : Rival(x, r)' /\ StatusAsked(x) # "unchanged"
      BY <2>1, <3>2, <3>3, <3>6, <3>7 DEF TookEffect
    <3>10. \A f \in SettingsAsked(r) :
            \/ config'[t][f] = r
            \/ \E x \in Requests : Rival(x, r)' /\ SettingsAsked(x) # {}
      BY <2>1, <3>2, <3>3, <3>6 DEF TookEffect
    <3> QED BY <2>2, <2>4, <3>1, <3>5, <3>8, <3>9, <3>10 DEF TookEffect
  <2> QED BY <2>3, <2>4
<1>4. at'[q] # "done" => (TookEffect(q) /\ (Creates(q) \/ Exists(tenant[q])))'
  BY WriteTakesEffect
<1>5. AuditIsTrue'
  BY <1>1, <1>2, <1>3 DEF AuditIsTrue, IInv, TypeOK
<1>6. EffectsStand'
  <2> SUFFICES ASSUME NEW r \in Requests
               PROVE  /\ r \in audited => at'[r] \in {"audited", "done"}
                      /\ at'[r] \in {"written", "audited"} \/ r \in audited =>
                            (TookEffect(r) /\ (Creates(r) \/ Exists(tenant[r])))'
    BY <1>1 DEF EffectsStand
  <2>1. CASE r = q
    BY <1>2, <1>4, <2>1
  <2>2. CASE r # q
    BY <1>1, <1>3, <2>2 DEF EffectsStand
  <2> QED BY <2>1, <2>2
<1> QED BY <1>5, <1>6

LEMMA RememberedStep ==
  ASSUME IInv, Next
  PROVE  Remembered
<1> USE DEF IInv, TypeOK, Remembered, request, Advance, Answer, Receive
<1>1. CASE \E r, t \in Requests, p \in Replicas, b \in Bodies : Arrive(r, p, b, t)
  BY <1>1 DEF Arrive
<1>2. CASE \E r \in Requests, p \in Replicas, b \in Bodies, granted \in BOOLEAN :
              ConsentComplete(r, p, b, granted)
  BY <1>2 DEF ConsentComplete
<1>3. CASE \E p \in Replicas, s \in States : ConsentStart(p, s) \/ SweepSession(p, s)
  BY <1>3 DEF ConsentStart, SweepSession
<1>4. CASE \E p \in Replicas : Crash(p)
  BY <1>4 DEF Crash
<1>5. CASE \E r \in Requests : Writes(r)
  BY <1>5 DEF Writes, InsertTenant, UpdateTenant, OffboardTenant, FinishSync
<1>6. CASE \E r \in Requests : \/ CheckUnique(r) \/ ReadTenant(r) \/ Reply(r) \/ Fail(r)
                               \/ \E recorded \in BOOLEAN : Audit(r, recorded)
  BY <1>6 DEF CheckUnique, ReadTenant, Reply, Fail, Audit
<1> QED BY <1>1, <1>2, <1>3, <1>4, <1>5, <1>6 DEF Next, Writes

\* A handler records itself last, and only a rival undoes what it has done.
LEMMA AuditStep ==
  ASSUME IInv, EffectsStand, AuditIsTrue, Next
  PROVE  EffectsStand' /\ AuditIsTrue'
<1>1. Remembered /\ IInv'
  BY RememberedStep, NextIInv
<1>2. audited' \subseteq Requests
  BY <1>1 DEF IInv, TypeOK
<1>3. CASE \E r \in Requests : Writes(r)
  BY <1>1, <1>3, EffectsChanged
<1>4. CASE ~\E r \in Requests : Writes(r)
  <2> USE DEF IInv, TypeOK, EffectsStand, AuditIsTrue, Advance, Answer, Receive
  <2>1. UNCHANGED row
    BY <1>4 DEF Next, Writes, row, Arrive, ConsentStart, SweepSession, ConsentComplete,
                CheckUnique, ReadTenant, Audit, Reply, Fail, Crash
  <2>2. \A x \in Requests :
           at[x] \notin {"idle", "started"} => at'[x] \notin {"idle", "started"}
    BY <1>4 DEF Next, Writes, Arrive, ConsentStart, SweepSession, ConsentComplete, CheckUnique,
                ReadTenant, Audit, Reply, Fail, Crash
  <2>3. \A x \in Requests :
           at'[x] \in {"written", "audited"} => at[x] \in {"written", "audited"}
    BY <1>4 DEF Next, Writes, Arrive, ConsentStart, SweepSession, ConsentComplete, CheckUnique,
                ReadTenant, Audit, Reply, Fail, Crash
  <2>4. \A x \in audited' : /\ at'[x] \in {"audited", "done"}
                            /\ reply'[x] \in {"none", "ok"}
                            /\ at[x] \in {"written", "audited"} \/ x \in audited
    <3>1. CASE \E r, t \in Requests, p \in Replicas, b \in Bodies : Arrive(r, p, b, t)
      BY <3>1 DEF Arrive
    <3>2. CASE \E p \in Replicas, s \in States : ConsentStart(p, s) \/ SweepSession(p, s)
      BY <3>2 DEF ConsentStart, SweepSession
    <3>3. CASE \E r \in Requests, p \in Replicas, b \in Bodies, granted \in BOOLEAN :
                  ConsentComplete(r, p, b, granted)
      <4> PICK r \in Requests, p \in Replicas, b \in Bodies, granted \in BOOLEAN :
                  ConsentComplete(r, p, b, granted)
        BY <3>3
      <4>1. at[r] = "idle" /\ audited' = audited
        BY DEF ConsentComplete
      <4>2. \A x \in Requests \ {r} : at'[x] = at[x] /\ reply'[x] = reply[x]
        BY DEF ConsentComplete
      <4> QED BY <4>1, <4>2
    <3>4. CASE \E r \in Requests : CheckUnique(r) \/ ReadTenant(r) \/ Fail(r)
      BY <3>4 DEF CheckUnique, ReadTenant, Fail
    <3>5. CASE \E r \in Requests, recorded \in BOOLEAN : Audit(r, recorded)
      BY <3>5 DEF Audit, HandlersMatch
    <3>6. CASE \E r \in Requests : Reply(r)
      BY <3>6 DEF Reply
    <3>7. CASE \E p \in Replicas : Crash(p)
      BY <3>7 DEF Crash
    <3> QED BY <1>4, <3>1, <3>2, <3>3, <3>4, <3>5, <3>6, <3>7 DEF Next, Writes
  <2> QED BY <1>1, <1>2, <2>1, <2>2, <2>3, <2>4, EffectsKept
<1> QED BY <1>3, <1>4

\* The audit trail tells of nothing that did not happen: what is recorded was not
\* refused, it took effect, and only a later change of an operator undoes it.
THEOREM AuditTrailIsTrue == Spec => []AuditIsTrue
<1>1. Init => EffectsStand /\ AuditIsTrue
  BY DEF Init, EffectsStand, AuditIsTrue
<1>2. IInv /\ EffectsStand /\ AuditIsTrue /\ [Next]_vars => EffectsStand' /\ AuditIsTrue'
  <2> SUFFICES ASSUME IInv, EffectsStand, AuditIsTrue, UNCHANGED vars
               PROVE  EffectsStand' /\ AuditIsTrue'
    BY AuditStep
  <2>1. Remembered
    BY DEF vars, request, Remembered
  <2> QED BY <2>1, EffectsKept DEF vars, EffectsStand, AuditIsTrue, IInv, TypeOK
<1> QED BY <1>1, <1>2, LifecycleInvariant, PTL DEF Spec
====
