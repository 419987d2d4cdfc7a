---- MODULE DirectSync ----
(***************************************************************************)
(* syncTenant of src/src/api/services/direct-sync.ts: the portal's copy of *)
(* one customer's directory.                                               *)
(*                                                                         *)
(* A sync reads the directory section by section, page by page, and stores *)
(* what it read row by row.  Nothing keeps two syncs of a tenant apart, at *)
(* one replica or at several, and the directory changes meanwhile.         *)
(***************************************************************************)
EXTENDS Naturals

CONSTANTS
    Syncs,          \* calls of syncTenant for the tenant
    Objects,        \* users, groups, ..., each with its own entra_object_id
    SectionOf,      \* the section an object is listed in
    MaxVersion      \* bound: changes of an object

\* In the order of the code: users, groups, policies, devices, licenses.
Sections == 1..5

\* Sections whose failure fails the sync; the others are tried.
Required == {1, 2}

\* Sections read through paginate.
Paged == {1, 2, 4}

ASSUME SectionAssumption == SectionOf \in [Objects -> Sections]
ASSUME VersionAssumption == MaxVersion \in Nat \ {0}

VARIABLES
    directory,  \* the version of each object in the customer's directory, 0 without it
    rows,       \* the version its row is from, 0 without a row
    section,    \* of each sync: 0 before it starts, 6 when only its last statement is left
    unread,     \* objects of the section on the pages not read yet
    batch,      \* versions read and not stored yet, 0 for none
    result,     \* its answer
    atStart,    \* the directory when it started
    deleted,    \* objects deleted since
    overlapped  \* syncs that ran while another was running

progress == <<section, unread, batch>>
history == <<atStart, deleted, overlapped>>
vars == <<directory, rows, progress, result, history>>

Version == 0..MaxVersion

\* The types: a sync stays within the sections, and between its last section and
\* its answer.
TypeOK ==
    /\ directory \in [Objects -> Version]
    /\ rows \in [Objects -> Version]
    /\ section \in [Syncs -> 0..6]
    /\ unread \in [Syncs -> SUBSET Objects]
    /\ batch \in [Syncs -> [Objects -> Version]]
    /\ result \in [Syncs -> {"none", "ok", "failed"}]
    /\ atStart \in [Syncs -> [Objects -> Version]]
    /\ deleted \in [Syncs -> SUBSET Objects]
    /\ overlapped \subseteq Syncs

Nothing == [o \in Objects |-> 0]

Init ==
    /\ directory \in [Objects -> 0..1]
    /\ rows = Nothing
    /\ section = [s \in Syncs |-> 0]
    /\ unread = [s \in Syncs |-> {}]
    /\ batch = [s \in Syncs |-> Nothing]
    /\ result = [s \in Syncs |-> "none"]
    /\ atStart = [s \in Syncs |-> Nothing]
    /\ deleted = [s \in Syncs |-> {}]
    /\ overlapped = {}

Running(s) == section[s] # 0 /\ result[s] = "none"

Listed(i) == {o \in Objects : SectionOf[o] = i}

ToStore(s) == {o \in Objects : batch[s][o] # 0}

----
(* The customer's directory. *)

\* An object is created or changes; a deleted one does not come back.
Change(o) ==
    /\ directory[o] < MaxVersion
    /\ directory[o] = 0 => rows[o] = 0 /\ \A s \in Syncs : o \notin deleted[s] /\ batch[s][o] = 0
    /\ directory' = [directory EXCEPT ![o] = @ + 1]
    /\ UNCHANGED <<rows, progress, result, history>>

Delete(o) ==
    /\ directory[o] # 0
    /\ directory' = [directory EXCEPT ![o] = 0]
    /\ deleted' = [s \in Syncs |-> IF Running(s) THEN deleted[s] \cup {o} ELSE deleted[s]]
    /\ UNCHANGED <<rows, progress, result, atStart, overlapped>>

----
(* A sync. *)

Enter(s, i) ==
    /\ section' = [section EXCEPT ![s] = i]
    /\ unread' = [unread EXCEPT ![s] = Listed(i)]
    /\ batch' = [batch EXCEPT ![s] = Nothing]

\* The tenant's row is read, and its credentials are tried.
Start(s) ==
    /\ section[s] = 0
    /\ Enter(s, 1)
    /\ atStart' = [atStart EXCEPT ![s] = directory]
    /\ overlapped' = LET others == {t \in Syncs : Running(t)} IN
                     IF others = {} THEN overlapped ELSE overlapped \cup others \cup {s}
    /\ UNCHANGED <<directory, rows, result, deleted>>

Read(s, page) ==
    /\ Running(s)
    /\ unread[s] # {}
    /\ batch' = [batch EXCEPT ![s] =
                   [o \in Objects |-> IF o \in page THEN directory[o] ELSE batch[s][o]]]

\* The first page taken for the whole answer.
ReadFirstPage(s, page) ==
    /\ page # {} /\ page \subseteq unread[s]
    /\ Read(s, page)
    /\ unread' = [unread EXCEPT ![s] = {}]
    /\ UNCHANGED <<directory, rows, section, result, history>>

\* One request to Graph: an answer holds the objects of its page as they are
\* by then.  An object that stays in the directory is on one page.
ReadPage(s, page) ==
    /\ page # {} /\ page \subseteq unread[s]
    /\ section[s] \notin Paged => page = unread[s]
    /\ Read(s, page)
    /\ unread' = [unread EXCEPT ![s] = @ \ page]
    /\ UNCHANGED <<directory, rows, section, result, history>>

\* An INSERT ... ON CONFLICT DO NOTHING.
StoreNewRow(s, o) ==
    /\ Running(s) /\ unread[s] = {}
    /\ o \in ToStore(s)
    /\ rows' = [rows EXCEPT ![o] = IF @ = 0 THEN batch[s][o] ELSE @]
    /\ batch' = [batch EXCEPT ![s][o] = 0]
    /\ UNCHANGED <<directory, section, unread, result, history>>

\* The upsert of one object; the rows of a section follow its last page.
StoreRow(s, o) ==
    /\ Running(s) /\ unread[s] = {}
    /\ o \in ToStore(s)
    /\ rows' = [rows EXCEPT ![o] = batch[s][o]]
    /\ batch' = [batch EXCEPT ![s][o] = 0]
    /\ UNCHANGED <<directory, section, unread, result, history>>

NextSection(s) ==
    /\ Running(s) /\ section[s] \in Sections
    /\ unread[s] = {} /\ ToStore(s) = {}
    /\ Enter(s, section[s] + 1)
    /\ UNCHANGED <<directory, rows, result, history>>

\* The users' and groups' failures taken for missing permissions as well.
SkipAnySection(s) ==
    /\ Running(s) /\ section[s] \in Sections
    /\ Enter(s, section[s] + 1)
    /\ UNCHANGED <<directory, rows, result, history>>

\* A read or an upsert of an optional section fails: the rest of the section is
\* left out.
SkipSection(s) ==
    /\ Running(s) /\ section[s] \in Sections \ Required
    /\ Enter(s, section[s] + 1)
    /\ UNCHANGED <<directory, rows, result, history>>

\* The tenant's row: last_sync_at, agent_status and, when onboarding, status.
Finish(s) ==
    /\ Running(s) /\ section[s] = 6
    /\ result' = [result EXCEPT ![s] = "ok"]
    /\ UNCHANGED <<directory, rows, progress, history>>

\* A failure that clears the section it was in.
FailClears(s) ==
    /\ Running(s)
    /\ result' = [result EXCEPT ![s] = "failed"]
    /\ rows' = [o \in Objects |-> IF SectionOf[o] = section[s] THEN 0 ELSE rows[o]]
    /\ UNCHANGED <<directory, progress, history>>

\* Anything else that fails, or the end of the process.
Fail(s) ==
    /\ Running(s)
    /\ result' = [result EXCEPT ![s] = "failed"]
    /\ UNCHANGED <<directory, rows, progress, history>>

Next ==
    \/ \E o \in Objects : Change(o)
    \/ \E o \in Objects : Delete(o)
    \/ \E s \in Syncs : Start(s)
    \/ \E s \in Syncs, page \in SUBSET Objects : ReadPage(s, page)
    \/ \E s \in Syncs, o \in Objects : StoreRow(s, o)
    \/ \E s \in Syncs : NextSection(s)
    \/ \E s \in Syncs : SkipSection(s)
    \/ \E s \in Syncs : Finish(s)
    \/ \E s \in Syncs : Fail(s)

Spec == Init /\ [][Next]_vars

----
(* Correctness. *)

\* Users and groups that were in the directory from the start of s to its end.
Stayed(s) ==
    {o \in Objects : SectionOf[o] \in Required /\ atStart[s][o] # 0 /\ o \notin deleted[s]}

\* A sync that answers "Sync completed" has left a row for every user and group
\* that was there throughout, however the listing was paged, whatever other
\* syncs did and whatever failed in the other sections.
CompletedIsComplete ==
    \A s \in Syncs : result[s] = "ok" => \A o \in Stayed(s) : rows[o] # 0

\* ... and, unless another sync ran at the same time, the rows are never older
\* than its start, then or later.
CompletedIsFresh ==
    \A s \in Syncs : result[s] = "ok" /\ s \notin overlapped =>
        \A o \in Stayed(s) : rows[o] >= atStart[s][o]

\* A row goes back to older data only while syncs overlap.
RowsGoForward ==
    [][\A o \in Objects : rows'[o] < rows[o] => \E s \in overlapped : Running(s)]_vars

----
(* The inductive invariant. *)

\* Two syncs that run side by side are both known to overlap; a sync answers
\* after its last section.
Sides ==
    /\ \A s, t \in Syncs : Running(s) /\ Running(t) /\ s # t => s \in overlapped
    /\ \A s \in Syncs : result[s] # "none" => section[s] # 0
    /\ \A s \in Syncs : result[s] = "ok" => section[s] = 6

\* Rows and batches are copies of what the directory holds or has held.
CopiesFollow ==
    \A o \in Objects : directory[o] # 0 =>
        /\ rows[o] <= directory[o]
        /\ \A s \in Syncs : batch[s][o] <= directory[o]

\* An object of a section the sync is in is still to be read, read, or stored;
\* one of a section behind it is stored.
Found(s) ==
    Running(s) => \A o \in Stayed(s) :
        /\ directory[o] >= atStart[s][o]
        /\ batch[s][o] # 0 => batch[s][o] >= atStart[s][o]
        /\ section[s] = SectionOf[o] => o \in unread[s] \/ batch[s][o] # 0 \/ rows[o] # 0
        /\ section[s] > SectionOf[o] => rows[o] # 0

\* ... and a sync that runs alone has stored what is not older than its start.
FoundFresh(s) ==
    Running(s) /\ s \notin overlapped => \A o \in Stayed(s) :
        /\ section[s] = SectionOf[o] =>
              o \in unread[s] \/ batch[s][o] # 0 \/ rows[o] >= atStart[s][o]
        /\ section[s] > SectionOf[o] => rows[o] >= atStart[s][o]

\* After such a sync nothing older is to be had, nor about to be stored.
StaysFresh(s) ==
    result[s] = "ok" /\ s \notin overlapped => \A o \in Stayed(s) :
        /\ rows[o] >= atStart[s][o]
        /\ directory[o] # 0 => directory[o] >= atStart[s][o]
        /\ \A t \in Syncs : Running(t) /\ batch[t][o] # 0 => batch[t][o] >= atStart[s][o]

\* What a sync that runs alone is about to store is not older than the row.
Forward(s) ==
    Running(s) /\ s \notin overlapped =>
        \A o \in Objects : batch[s][o] # 0 => batch[s][o] >= rows[o]

IInv ==
    /\ TypeOK
    /\ Sides
    /\ CopiesFollow
    /\ CompletedIsComplete
    /\ \A s \in Syncs : Found(s) /\ FoundFresh(s) /\ StaysFresh(s) /\ Forward(s)
====
