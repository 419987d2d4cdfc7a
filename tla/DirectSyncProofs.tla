---- MODULE DirectSyncProofs ----
(* The properties of DirectSync, for any number of syncs, objects and versions. *)
EXTENDS DirectSync, TLAPS

\* The types hold at the start and after every step.
LEMMA InitTypes == Init => TypeOK
BY VersionAssumption DEF Init, TypeOK, Version, Nothing

LEMMA StepTypes == TypeOK /\ [Next]_vars => TypeOK'
<1> SUFFICES ASSUME TypeOK, [Next]_vars PROVE TypeOK'
  OBVIOUS
<1> USE VersionAssumption DEF TypeOK, Version, Nothing, Sections, progress, history
<1>1. ASSUME NEW o \in Objects, Change(o) PROVE TypeOK'
  BY <1>1 DEF Change
<1>2. ASSUME NEW o \in Objects, Delete(o) PROVE TypeOK'
  BY <1>2 DEF Delete
<1>3. ASSUME NEW s \in Syncs, Start(s) PROVE TypeOK'
  BY <1>3 DEF Start, Enter, Listed
<1>4. ASSUME NEW s \in Syncs, NEW page \in SUBSET Objects, ReadPage(s, page) PROVE TypeOK'
  BY <1>4 DEF ReadPage, Read
<1>5. ASSUME NEW s \in Syncs, NEW o \in Objects, StoreRow(s, o) PROVE TypeOK'
  BY <1>5 DEF StoreRow
<1>6. ASSUME NEW s \in Syncs, NextSection(s) PROVE TypeOK'
  BY <1>6 DEF NextSection, Enter, Listed
<1>7. ASSUME NEW s \in Syncs, SkipSection(s) PROVE TypeOK'
  BY <1>7 DEF SkipSection, Enter, Listed
<1>8. ASSUME NEW s \in Syncs, Finish(s) PROVE TypeOK'
  BY <1>8 DEF Finish
<1>9. ASSUME NEW s \in Syncs, Fail(s) PROVE TypeOK'
  BY <1>9 DEF Fail
<1>10. CASE UNCHANGED vars
  BY <1>10 DEF vars
<1> QED BY <1>1, <1>2, <1>3, <1>4, <1>5, <1>6, <1>7, <1>8, <1>9, <1>10 DEF Next

\* The invariant holds at the start.
LEMMA InitInvariant == Init => IInv
<1> SUFFICES ASSUME Init PROVE IInv
  OBVIOUS
<1>1. TypeOK
  BY InitTypes
<1>2. Sides /\ CopiesFollow /\ CompletedIsComplete
  BY <1>1 DEF Init, Sides, Running, CopiesFollow, CompletedIsComplete, Nothing, TypeOK, Version
<1>3. \A s \in Syncs : Found(s) /\ FoundFresh(s) /\ StaysFresh(s) /\ Forward(s)
  BY DEF Init, Found, FoundFresh, StaysFresh, Forward, Running
<1> QED BY <1>1, <1>2, <1>3 DEF IInv

\* A change of the directory keeps the invariant: an object comes back to no row or batch.
LEMMA KeepsChange ==
    ASSUME IInv, NEW o \in Objects, Change(o)
    PROVE  IInv'
<1>1. TypeOK /\ TypeOK' /\ Sides /\ CopiesFollow /\ CompletedIsComplete
  BY StepTypes DEF IInv, Next
<1>2. \A x \in Syncs : Found(x) /\ FoundFresh(x) /\ StaysFresh(x) /\ Forward(x)
  BY DEF IInv
<1> USE SectionAssumption, VersionAssumption DEF TypeOK, Version, Sections, Required, Running, progress, history
<1>3. Sides'
  BY <1>1 DEF Sides, Change
<1>4. CopiesFollow'
  BY <1>1 DEF CopiesFollow, Change
<1>5. CompletedIsComplete'
  BY <1>1 DEF CompletedIsComplete, Stayed, Change
<1>6. ASSUME NEW x \in Syncs PROVE Found(x)'
  BY <1>1, <1>2 DEF Found, Stayed, Change
<1>7. ASSUME NEW x \in Syncs PROVE FoundFresh(x)'
  BY <1>2 DEF FoundFresh, Stayed, Change
<1>8. ASSUME NEW x \in Syncs PROVE StaysFresh(x)'
  BY <1>1, <1>2 DEF StaysFresh, Stayed, Change
<1>9. ASSUME NEW x \in Syncs PROVE Forward(x)'
  BY <1>2 DEF Forward, Change
<1> QED BY <1>1, <1>3, <1>4, <1>5, <1>6, <1>7, <1>8, <1>9 DEF IInv

\* So does a deletion, which takes the object out of what must have stayed.
LEMMA KeepsDelete ==
    ASSUME IInv, NEW o \in Objects, Delete(o)
    PROVE  IInv'
<1>1. TypeOK /\ TypeOK' /\ Sides /\ CopiesFollow /\ CompletedIsComplete
  BY StepTypes DEF IInv, Next
<1>2. \A x \in Syncs : Found(x) /\ FoundFresh(x) /\ StaysFresh(x) /\ Forward(x)
  BY DEF IInv
<1> USE SectionAssumption, VersionAssumption DEF TypeOK, Version, Sections, Required, Running, progress, history
<1>3. Sides'
  BY <1>1 DEF Sides, Delete
<1>4. CopiesFollow'
  BY <1>1 DEF CopiesFollow, Delete
<1>5. CompletedIsComplete'
  BY <1>1 DEF CompletedIsComplete, Stayed, Delete
<1>6. ASSUME NEW x \in Syncs PROVE Found(x)'
  BY <1>2 DEF Found, Stayed, Delete
<1>7. ASSUME NEW x \in Syncs PROVE FoundFresh(x)'
  BY <1>2 DEF FoundFresh, Stayed, Delete
<1>8. ASSUME NEW x \in Syncs PROVE StaysFresh(x)'
  BY <1>2 DEF StaysFresh, Stayed, Delete
<1>9. ASSUME NEW x \in Syncs PROVE Forward(x)'
  BY <1>2 DEF Forward, Delete
<1> QED BY <1>1, <1>3, <1>4, <1>5, <1>6, <1>7, <1>8, <1>9 DEF IInv

\* A sync that starts beside another marks both as overlapping.
LEMMA KeepsStart ==
    ASSUME IInv, NEW s \in Syncs, Start(s)
    PROVE  IInv'
<1>1. TypeOK /\ TypeOK' /\ Sides /\ CopiesFollow /\ CompletedIsComplete
  BY StepTypes DEF IInv, Next
<1>2. \A x \in Syncs : Found(x) /\ FoundFresh(x) /\ StaysFresh(x) /\ Forward(x)
  BY DEF IInv
<1> USE SectionAssumption, VersionAssumption DEF TypeOK, Version, Sections, Required, Running, progress, history
<1>3. Sides'
  BY <1>1 DEF Sides, Start, Enter
<1>4. CopiesFollow'
  BY <1>1 DEF CopiesFollow, Start, Enter, Nothing
<1>5. CompletedIsComplete'
  <2>1. \A x \in Syncs : result'[x] = "ok" => x # s
    BY <1>1 DEF Start, Sides
  <2>2. ASSUME NEW x \in Syncs, x # s PROVE Stayed(x)' = Stayed(x)
    BY <1>1, <2>2 DEF Start, Stayed
  <2>3. ASSUME NEW x \in Syncs, result'[x] = "ok", NEW o \in Stayed(x)' PROVE rows'[o] # 0
    <3>1. x # s /\ result[x] = "ok" /\ rows' = rows
      BY <2>1, <2>3 DEF Start
    <3>2. o \in Stayed(x)
      BY <2>2, <2>3, <3>1
    <3> QED BY <1>1, <3>1, <3>2 DEF CompletedIsComplete
  <2> QED BY <2>3 DEF CompletedIsComplete
<1>6. ASSUME NEW x \in Syncs PROVE Found(x)'
  BY <1>1, <1>2 DEF Found, Stayed, Start, Enter, Listed, Nothing
<1>7. ASSUME NEW x \in Syncs PROVE FoundFresh(x)'
  BY <1>1 DEF FoundFresh, Stayed, Start, Enter, Listed
<1>8. ASSUME NEW x \in Syncs PROVE StaysFresh(x)'
  BY <1>1, <1>2 DEF StaysFresh, Stayed, Sides, Start, Enter, Nothing
<1>9. ASSUME NEW x \in Syncs PROVE Forward(x)'
  BY <1>1 DEF Forward, Start, Enter, Nothing
<1> QED BY <1>1, <1>3, <1>4, <1>5, <1>6, <1>7, <1>8, <1>9 DEF IInv

\* What a page brings is at least as new as the start of any sync before it.
LEMMA KeepsReadPage ==
    ASSUME IInv, NEW s \in Syncs, NEW page \in SUBSET Objects, ReadPage(s, page)
    PROVE  IInv'
<1>1. TypeOK /\ TypeOK' /\ Sides /\ CopiesFollow /\ CompletedIsComplete
  BY StepTypes DEF IInv, Next
<1>2. \A x \in Syncs : Found(x) /\ FoundFresh(x) /\ StaysFresh(x) /\ Forward(x)
  BY DEF IInv
<1> USE SectionAssumption, VersionAssumption DEF TypeOK, Version, Sections, Required, Running, progress, history
<1>3. Sides'
  BY <1>1 DEF Sides, ReadPage
<1>4. CopiesFollow'
  BY <1>1 DEF CopiesFollow, ReadPage, Read
<1>5. CompletedIsComplete'
  BY <1>1 DEF CompletedIsComplete, Stayed, ReadPage
<1>6. ASSUME NEW x \in Syncs PROVE Found(x)'
  BY <1>1, <1>2 DEF Found, Stayed, ReadPage, Read
<1>7. ASSUME NEW x \in Syncs PROVE FoundFresh(x)'
  BY <1>1, <1>2 DEF FoundFresh, Found, Stayed, ReadPage, Read
<1>8. ASSUME NEW x \in Syncs PROVE StaysFresh(x)'
  BY <1>2 DEF StaysFresh, Stayed, ReadPage, Read
<1>9. ASSUME NEW x \in Syncs PROVE Forward(x)'
  BY <1>1, <1>2 DEF Forward, CopiesFollow, ReadPage, Read
<1> QED BY <1>1, <1>3, <1>4, <1>5, <1>6, <1>7, <1>8, <1>9 DEF IInv

\* A row goes back only while syncs overlap.
LEMMA KeepsStoreRow ==
    ASSUME IInv, NEW s \in Syncs, NEW o \in Objects, StoreRow(s, o)
    PROVE  IInv'
<1>1. TypeOK /\ TypeOK' /\ Sides /\ CopiesFollow /\ CompletedIsComplete
  BY StepTypes DEF IInv, Next
<1>2. \A x \in Syncs : Found(x) /\ FoundFresh(x) /\ StaysFresh(x) /\ Forward(x)
  BY DEF IInv
<1> USE SectionAssumption, VersionAssumption DEF TypeOK, Version, Sections, Required, Running, progress, history
<1>3. Sides'
  BY <1>1 DEF Sides, StoreRow
<1>4. CopiesFollow'
  BY <1>1 DEF CopiesFollow, StoreRow
<1>5. CompletedIsComplete'
  BY <1>1 DEF CompletedIsComplete, Stayed, StoreRow, ToStore
<1>6. ASSUME NEW x \in Syncs PROVE Found(x)'
  BY <1>1, <1>2 DEF Found, Stayed, StoreRow, ToStore
<1>7. ASSUME NEW x \in Syncs PROVE FoundFresh(x)'
  BY <1>1, <1>2 DEF FoundFresh, Found, Stayed, Sides, StoreRow, ToStore
<1>8. ASSUME NEW x \in Syncs PROVE StaysFresh(x)'
  BY <1>2 DEF StaysFresh, Stayed, StoreRow, ToStore
<1>9. ASSUME NEW x \in Syncs PROVE Forward(x)'
  BY <1>1, <1>2 DEF Forward, Sides, StoreRow
<1> QED BY <1>1, <1>3, <1>4, <1>5, <1>6, <1>7, <1>8, <1>9 DEF IInv

\* A section is left when all of it is stored.
LEMMA KeepsNextSection ==
    ASSUME IInv, NEW s \in Syncs, NextSection(s)
    PROVE  IInv'
<1>1. TypeOK /\ TypeOK' /\ Sides /\ CopiesFollow /\ CompletedIsComplete
  BY StepTypes DEF IInv, Next
<1>2. \A x \in Syncs : Found(x) /\ FoundFresh(x) /\ StaysFresh(x) /\ Forward(x)
  BY DEF IInv
<1> USE SectionAssumption, VersionAssumption DEF TypeOK, Version, Sections, Required, Running, progress, history
<1>3. Sides'
  BY <1>1 DEF Sides, NextSection, Enter
<1>4. CopiesFollow'
  BY <1>1 DEF CopiesFollow, NextSection, Enter, Nothing
<1>5. CompletedIsComplete'
  BY <1>1 DEF CompletedIsComplete, Stayed, NextSection
<1>6. ASSUME NEW x \in Syncs PROVE Found(x)'
  BY <1>1, <1>2 DEF Found, Stayed, NextSection, Enter, Listed, ToStore, Nothing
<1>7. ASSUME NEW x \in Syncs PROVE FoundFresh(x)'
  BY <1>1, <1>2 DEF FoundFresh, Stayed, NextSection, Enter, Listed, ToStore
<1>8. ASSUME NEW x \in Syncs PROVE StaysFresh(x)'
  BY <1>2 DEF StaysFresh, Stayed, NextSection, Enter, Nothing
<1>9. ASSUME NEW x \in Syncs PROVE Forward(x)'
  BY <1>2 DEF Forward, NextSection, Enter, Nothing
<1> QED BY <1>1, <1>3, <1>4, <1>5, <1>6, <1>7, <1>8, <1>9 DEF IInv

\* A section that is left out is not one of those that must be whole.
LEMMA KeepsSkipSection ==
    ASSUME IInv, NEW s \in Syncs, SkipSection(s)
    PROVE  IInv'
<1>1. TypeOK /\ TypeOK' /\ Sides /\ CopiesFollow /\ CompletedIsComplete
  BY StepTypes DEF IInv, Next
<1>2. \A x \in Syncs : Found(x) /\ FoundFresh(x) /\ StaysFresh(x) /\ Forward(x)
  BY DEF IInv
<1> USE SectionAssumption, VersionAssumption DEF TypeOK, Version, Sections, Required, Running, progress, history
<1>3. Sides'
  BY <1>1 DEF Sides, SkipSection, Enter
<1>4. CopiesFollow'
  BY <1>1 DEF CopiesFollow, SkipSection, Enter, Nothing
<1>5. CompletedIsComplete'
  BY <1>1 DEF CompletedIsComplete, Stayed, SkipSection
<1>6. ASSUME NEW x \in Syncs PROVE Found(x)'
  BY <1>2 DEF Found, Stayed, SkipSection, Enter, Nothing
<1>7. ASSUME NEW x \in Syncs PROVE FoundFresh(x)'
  BY <1>2 DEF FoundFresh, Stayed, SkipSection, Enter
<1>8. ASSUME NEW x \in Syncs PROVE StaysFresh(x)'
  BY <1>2 DEF StaysFresh, Stayed, SkipSection, Enter, Nothing
<1>9. ASSUME NEW x \in Syncs PROVE Forward(x)'
  BY <1>2 DEF Forward, SkipSection, Enter, Nothing
<1> QED BY <1>1, <1>3, <1>4, <1>5, <1>6, <1>7, <1>8, <1>9 DEF IInv

\* The last statement comes after all sections.
LEMMA KeepsFinish ==
    ASSUME IInv, NEW s \in Syncs, Finish(s)
    PROVE  IInv'
<1>1. TypeOK /\ TypeOK' /\ Sides /\ CopiesFollow /\ CompletedIsComplete
  BY StepTypes DEF IInv, Next
<1>2. \A x \in Syncs : Found(x) /\ FoundFresh(x) /\ StaysFresh(x) /\ Forward(x)
  BY DEF IInv
<1> USE SectionAssumption, VersionAssumption DEF TypeOK, Version, Sections, Required, Running, progress, history
<1>3. Sides'
  BY <1>1 DEF Sides, Finish
<1>4. CopiesFollow'
  BY <1>1 DEF CopiesFollow, Finish
<1>5. CompletedIsComplete'
  BY SMTT(30), <1>1, <1>2 DEF CompletedIsComplete, Found, Stayed, Finish
<1>6. ASSUME NEW x \in Syncs PROVE Found(x)'
  BY <1>2 DEF Found, Stayed, Finish
<1>7. ASSUME NEW x \in Syncs PROVE FoundFresh(x)'
  BY <1>2 DEF FoundFresh, Stayed, Finish
<1>8. ASSUME NEW x \in Syncs PROVE StaysFresh(x)'
  BY <1>1, <1>2 DEF StaysFresh, FoundFresh, Found, Stayed, Sides, Finish
<1>9. ASSUME NEW x \in Syncs PROVE Forward(x)'
  BY <1>2 DEF Forward, Finish
<1> QED BY <1>1, <1>3, <1>4, <1>5, <1>6, <1>7, <1>8, <1>9 DEF IInv

\* A failure promises nothing.
LEMMA KeepsFail ==
    ASSUME IInv, NEW s \in Syncs, Fail(s)
    PROVE  IInv'
<1>1. TypeOK /\ TypeOK' /\ Sides /\ CopiesFollow /\ CompletedIsComplete
  BY StepTypes DEF IInv, Next
<1>2. \A x \in Syncs : Found(x) /\ FoundFresh(x) /\ StaysFresh(x) /\ Forward(x)
  BY DEF IInv
<1> USE SectionAssumption, VersionAssumption DEF TypeOK, Version, Sections, Required, Running, progress, history
<1>3. Sides'
  BY <1>1 DEF Sides, Fail
<1>4. CopiesFollow'
  BY <1>1 DEF CopiesFollow, Fail
<1>5. CompletedIsComplete'
  BY <1>1 DEF CompletedIsComplete, Stayed, Fail
<1>6. ASSUME NEW x \in Syncs PROVE Found(x)'
  BY <1>2 DEF Found, Stayed, Fail
<1>7. ASSUME NEW x \in Syncs PROVE FoundFresh(x)'
  BY <1>2 DEF FoundFresh, Stayed, Fail
<1>8. ASSUME NEW x \in Syncs PROVE StaysFresh(x)'
  BY <1>2 DEF StaysFresh, Stayed, Fail
<1>9. ASSUME NEW x \in Syncs PROVE Forward(x)'
  BY <1>2 DEF Forward, Fail
<1> QED BY <1>1, <1>3, <1>4, <1>5, <1>6, <1>7, <1>8, <1>9 DEF IInv

\* Every step keeps the invariant.
LEMMA StepInvariant == IInv /\ [Next]_vars => IInv'
<1> SUFFICES ASSUME IInv, [Next]_vars PROVE IInv'
  OBVIOUS
<1>1. ASSUME NEW o \in Objects, Change(o) PROVE IInv'
  BY <1>1, KeepsChange
<1>2. ASSUME NEW o \in Objects, Delete(o) PROVE IInv'
  BY <1>2, KeepsDelete
<1>3. ASSUME NEW s \in Syncs, Start(s) PROVE IInv'
  BY <1>3, KeepsStart
<1>4. ASSUME NEW s \in Syncs, NEW page \in SUBSET Objects, ReadPage(s, page) PROVE IInv'
  BY <1>4, KeepsReadPage
<1>5. ASSUME NEW s \in Syncs, NEW o \in Objects, StoreRow(s, o) PROVE IInv'
  BY <1>5, KeepsStoreRow
<1>6. ASSUME NEW s \in Syncs, NextSection(s) PROVE IInv'
  BY <1>6, KeepsNextSection
<1>7. ASSUME NEW s \in Syncs, SkipSection(s) PROVE IInv'
  BY <1>7, KeepsSkipSection
<1>8. ASSUME NEW s \in Syncs, Finish(s) PROVE IInv'
  BY <1>8, KeepsFinish
<1>9. ASSUME NEW s \in Syncs, Fail(s) PROVE IInv'
  BY <1>9, KeepsFail
<1>10. CASE UNCHANGED vars
  <2>1. /\ TypeOK' /\ Sides' /\ CopiesFollow'
        /\ CompletedIsComplete'
    BY <1>10 DEF IInv, TypeOK, Sides, CopiesFollow, CompletedIsComplete, Stayed, Running, vars, progress, history
  <2>2. \A s \in Syncs : Found(s)' /\ FoundFresh(s)'
    BY <1>10 DEF IInv, Found, FoundFresh, Stayed, Running, vars, progress, history
  <2>3. \A s \in Syncs : StaysFresh(s)' /\ Forward(s)'
    BY <1>10 DEF IInv, StaysFresh, Forward, Stayed, Running, vars, progress, history
  <2> QED BY <2>1, <2>2, <2>3 DEF IInv
<1> QED BY <1>1, <1>2, <1>3, <1>4, <1>5, <1>6, <1>7, <1>8, <1>9, <1>10 DEF Next

----
\* The inductive invariant of the syncs of one tenant, with the types.
THEOREM SyncInvariant == Spec => []IInv
<1>1. Init => IInv
  BY InitInvariant
<1>2. IInv /\ [Next]_vars => IInv'
  BY StepInvariant
<1> QED BY <1>1, <1>2, PTL DEF Spec

\* A sync that answers "Sync completed" has left a row for every user and group
\* that was there throughout (direct-sync.ts, syncTenant).
THEOREM CompletedSyncsAreComplete == Spec => []CompletedIsComplete
<1>1. IInv => CompletedIsComplete
  BY DEF IInv
<1> QED BY <1>1, SyncInvariant, PTL

\* ... and the rows of one that ran alone are never older than its start.
THEOREM CompletedSyncsAreFresh == Spec => []CompletedIsFresh
<1>1. IInv => CompletedIsFresh
  BY DEF IInv, StaysFresh, CompletedIsFresh
<1> QED BY <1>1, SyncInvariant, PTL

\* A row goes back to older data only while syncs overlap.
THEOREM RowsOnlyGoForward == Spec => RowsGoForward
<1> DEFINE Step == \A o \in Objects : rows'[o] < rows[o] => \E s \in overlapped : Running(s)
<1>1. IInv /\ [Next]_vars => [Step]_vars
  <2> SUFFICES ASSUME IInv, Next PROVE Step
    BY DEF vars
  <2>1. TypeOK
    BY DEF IInv
  <2>2. ASSUME NEW s \in Syncs, NEW o \in Objects, StoreRow(s, o) PROVE Step
    <3>1. CASE s \in overlapped
      BY <2>2, <3>1 DEF StoreRow
    <3>2. CASE s \notin overlapped
      <4>1. batch[s][o] >= rows[o]
        BY <2>2, <3>2 DEF IInv, Forward, StoreRow, ToStore
      <4>2. \A p \in Objects : rows'[p] = IF p = o THEN batch[s][o] ELSE rows[p]
        BY <2>1, <2>2 DEF StoreRow, TypeOK
      <4>3. \A n \in Version : ~(n < n)
        BY VersionAssumption DEF Version
      <4>4. rows[o] \in Version /\ batch[s][o] \in Version /\ \A p \in Objects : rows[p] \in Version
        BY <2>1, <2>2 DEF TypeOK
      <4>5. ~(batch[s][o] < rows[o])
        BY <4>1, <4>4, VersionAssumption DEF Version
      <4> QED BY <4>2, <4>3, <4>4, <4>5
    <3> QED BY <3>1, <3>2
  <2>3. ASSUME rows' = rows PROVE Step
    BY <2>1, <2>3, VersionAssumption DEF TypeOK, Version
  <2>4. rows' = rows \/ \E s \in Syncs, o \in Objects : StoreRow(s, o)
    BY DEF Next, Change, Delete, Start, ReadPage, NextSection, SkipSection, Finish, Fail
  <2> QED BY <2>2, <2>3, <2>4
<1>2. Spec => [][Step]_vars
  BY <1>1, SyncInvariant, PTL DEF Spec
<1> QED BY <1>2 DEF RowsGoForward
====
