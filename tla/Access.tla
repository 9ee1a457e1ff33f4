------------------------------- MODULE Access --------------------------------
(***************************************************************************)
(* Who is a user of the web app: createUser of lib/users-db.ts, called by  *)
(* the registration (api/auth/register), by the access page of the admin   *)
(* panel (apps/admin, app/access/page.tsx) and by other clients of         *)
(* /api/admin/users, the page's other operations, which suspend users,     *)
(* take them back and delete them, and the updates of a user's other       *)
(* fields: the documents he submits (api/kyc, api/kyb, and with the        *)
(* registration), his bank account (api/admin/homologate) and what a       *)
(* client patches.  updateUser writes the whole document it read back, so  *)
(* these updates write a status too.                                       *)
(*                                                                         *)
(* createUser puts two optional fields into the document as it was given   *)
(* them, and Firestore, as firebase-admin.ts sets it up, refuses a         *)
(* document with undefined fields.  The registration gives neither field   *)
(* and the page one of them; only another client may give both.            *)
(*                                                                         *)
(* The page shows the list it last received; each of its operations is     *)
(* followed by a reading of the list, and no reading is cancelled.  A      *)
(* user is his phone, which nothing here updates, and his status; PINs and *)
(* the rest of his document are in module Users.                           *)
(***************************************************************************)
EXTENDS Integers, FiniteSets

CONSTANTS
    Ids,       \* what generateUserId draws
    Phones,
    Pages,     \* administrators, each at the access page
    App,       \* who registers himself and submits his documents
    Client,    \* who calls /api/admin with every field
    Calls,     \* requests under way
    Loads,     \* bound: lists under way
    MaxCalls   \* bound: requests sent

VARIABLES
    users,     \* len_users
    call,      \* per request: what it asks for, of whom, from where, and how far it is
    load,      \* per reading of the list: its page and what was read
    rows,      \* per page: the list shown
    sentCalls,
    shownDeleted, \* history: per page, the users it has shown as deleted
    mixed,     \* history: pages that had two lists under way
    alongside, \* history: phones of creations that were under way together
    revived    \* history: users brought back by who could have known they were deleted

accessVars == <<users, call, load, rows, sentCalls, shownDeleted, mixed, alongside, revived>>

NoCall == [kind |-> "none"]
NoLoad == [at |-> "none"]

InitWith(first) ==
    /\ users = first
    /\ call = [c \in Calls |-> NoCall]
    /\ load = [l \in Loads |-> NoLoad]
    /\ rows = [p \in Pages |-> {}]
    /\ sentCalls = 0
    /\ shownDeleted = [p \in Pages |-> {}]
    /\ mixed = {} /\ alongside = {} /\ revived = {}

Init == InitWith({})

Send(c, request) ==
    /\ call[c] = NoCall /\ sentCalls < MaxCalls
    /\ sentCalls' = sentCalls + 1
    /\ call' = [call EXCEPT ![c] = request]

Deleted(id) == \E u \in users : u.id = id /\ u.status = "deleted"

-----------------------------------------------------------------------------
(* createUser.                                                             *)

\* Another creation of that phone has not ended.
Beside(c, phone) ==
    \E d \in Calls \ {c} : call[d].kind = "create" /\ call[d].phone = phone

\* Mutant: the phone is not looked for.
FreeAnyway(phone) == TRUE

\* getUserByPhone finds a user whatever his status.
FreePhone(phone) == \A u \in users : u.phone # phone

\* The registration, a client, or the form of the page, whose button is never disabled.
Create(c, p, phone) ==
    /\ Send(c, [kind |-> "create", phone |-> phone, page |-> p, at |-> "sent"])
    /\ alongside' = alongside \cup (IF Beside(c, phone) THEN {phone} ELSE {})
    /\ UNCHANGED <<users, load, rows, shownDeleted, mixed, revived>>

\* The phone is looked for, and then the document written.
LookUp(c) ==
    /\ call[c].kind = "create" /\ call[c].at = "sent"
    /\ IF FreePhone(call[c].phone)
       THEN call' = [call EXCEPT ![c].at = "free"]
       ELSE call' = [call EXCEPT ![c] = NoCall]
    /\ UNCHANGED <<users, load, rows, sentCalls, shownDeleted, mixed, alongside, revived>>

Store(c, id) ==
    /\ call[c].kind = "create" /\ call[c].at = "free" /\ call[c].page = Client
    /\ \A u \in users : u.id # id
    /\ users' = users \cup {[id |-> id, phone |-> call[c].phone, status |-> "active"]}
    /\ call' = [call EXCEPT ![c].at = "done"]
    /\ UNCHANGED <<load, rows, sentCalls, shownDeleted, mixed, alongside, revived>>

-----------------------------------------------------------------------------
(* The page.                                                               *)

\* Mutant: every row has every button.
OfferedAlways(p, id, status) == \E row \in rows[p] : row.id = id

\* The buttons of a row: an active user can be suspended, a suspended one reactivated.
Offered(p, id, status) ==
    \E row \in rows[p] :
        /\ row.id = id
        /\ \/ row.status = "active" /\ status = "suspended"
           \/ row.status = "suspended" /\ status = "active"

UpdateStatus(c, p, id, status) ==
    /\ Offered(p, id, status)
    /\ Send(c, [kind |-> "status", id |-> id, status |-> status, page |-> p, at |-> "sent",
                knew |-> id \in shownDeleted[p] /\ p \notin mixed])
    /\ UNCHANGED <<users, load, rows, shownDeleted, mixed, alongside, revived>>

\* A user that is not deleted can be, once the administrator confirms.
DeleteUser(c, p, id) ==
    /\ \E row \in rows[p] : row.id = id /\ row.status # "deleted"
    /\ Send(c, [kind |-> "status", id |-> id, status |-> "deleted", page |-> p, at |-> "sent",
                knew |-> FALSE])
    /\ UNCHANGED <<users, load, rows, shownDeleted, mixed, alongside, revived>>

\* An update of other fields keeps the status.
UpdateFields(c, p, id) ==
    /\ \E u \in users : u.id = id
    /\ Send(c, [kind |-> "status", id |-> id, status |-> "kept", page |-> p, at |-> "sent",
                knew |-> Deleted(id)])
    /\ UNCHANGED <<users, load, rows, shownDeleted, mixed, alongside, revived>>

\* Mutant: the user an update writes back is active, as a new one is.
ActiveAgain(u) == "active"

\* ...snap.data(): the status the document had when it was read.
Kept(u) == u.status

\* updateUser reads the document before it writes it; what it reads of the status
\* matters to the updates that give none.
ReadStatus(c) ==
    /\ call[c].kind = "status" /\ call[c].status = "kept"
    /\ \E u \in users :
          /\ u.id = call[c].id
          /\ call' = [call EXCEPT ![c].status = Kept(u)]
    /\ UNCHANGED <<users, load, rows, sentCalls, shownDeleted, mixed, alongside, revived>>

\* The calls, of which those for a user who is deleted no longer do not know he was.
Forgotten(id, status) ==
    [c \in Calls |->
        IF status # "deleted" /\ call[c].kind = "status" /\ call[c].id = id
        THEN [call[c] EXCEPT !.knew = FALSE] ELSE call[c]]

\* updateUser and softDeleteUser write the status, whatever it has become.
SetStatus(c) ==
    /\ call[c].kind = "status" /\ call[c].at = "sent" /\ call[c].status # "kept"
    /\ LET id == call[c].id
           status == call[c].status
       IN /\ users' = {IF u.id = id THEN [u EXCEPT !.status = status] ELSE u : u \in users}
          /\ revived' = IF call[c].knew /\ Deleted(id) /\ status # "deleted"
                        THEN revived \cup {id} ELSE revived
          /\ shownDeleted' = IF status = "deleted" THEN shownDeleted
                             ELSE [p \in Pages |-> shownDeleted[p] \ {id}]
          /\ call' = [Forgotten(id, status) EXCEPT ![c].at = "done"]
    /\ UNCHANGED <<load, rows, sentCalls, mixed, alongside>>

Ask(p, l) ==
    /\ load[l] = NoLoad
    /\ load' = [load EXCEPT ![l] = [at |-> "sent", page |-> p]]
    /\ mixed' = IF \E k \in Loads : load[k] # NoLoad /\ load[k].page = p THEN mixed \cup {p} ELSE mixed

\* The page is opened, or the list refreshed.
Refresh(p, l) ==
    /\ Ask(p, l)
    /\ UNCHANGED <<users, call, rows, sentCalls, shownDeleted, alongside, revived>>

\* The answer to an operation of the page, after which it reads the list again.
Answer(c, l) ==
    /\ call[c].kind # "none" /\ call[c].page \in Pages /\ call[c].at = "done"
    /\ Ask(call[c].page, l)
    /\ call' = [call EXCEPT ![c] = NoCall]
    /\ UNCHANGED <<users, rows, sentCalls, shownDeleted, alongside, revived>>

\* The registration or the client has its answer, an answer is lost, or a request fails
\* before it has written.
Abandon(c) ==
    /\ call[c].kind # "none"
    /\ call' = [call EXCEPT ![c] = NoCall]
    /\ UNCHANGED <<users, load, rows, sentCalls, shownDeleted, mixed, alongside, revived>>

ReadRows(l) ==
    /\ load[l].at = "sent"
    /\ load' = [load EXCEPT ![l] = [at |-> "read", page |-> @.page, rows |-> users]]
    /\ UNCHANGED <<users, call, rows, sentCalls, shownDeleted, mixed, alongside, revived>>

\* In the order in which the answers arrive.
Land(l) ==
    /\ load[l].at = "read"
    /\ LET p == load[l].page IN
          /\ rows' = [rows EXCEPT ![p] = load[l].rows]
          /\ shownDeleted' = [shownDeleted EXCEPT ![p] =
                @ \cup {row.id : row \in {r \in load[l].rows : r.status = "deleted" /\ Deleted(r.id)}}]
    /\ load' = [load EXCEPT ![l] = NoLoad]
    /\ UNCHANGED <<users, call, sentCalls, mixed, alongside, revived>>

LoseRows(l) ==
    /\ load[l] # NoLoad
    /\ load' = [load EXCEPT ![l] = NoLoad]
    /\ UNCHANGED <<users, call, rows, sentCalls, shownDeleted, mixed, alongside, revived>>

Next ==
    \/ \E c \in Calls :
          \/ \E p \in Pages \cup {App, Client}, phone \in Phones : Create(c, p, phone)
          \/ LookUp(c) \/ ReadStatus(c) \/ SetStatus(c) \/ Abandon(c)
          \/ \E id \in Ids : Store(c, id)
          \/ \E p \in Pages, id \in Ids :
                \/ \E status \in {"active", "suspended"} : UpdateStatus(c, p, id, status)
                \/ DeleteUser(c, p, id)
          \/ \E p \in {App, Client}, id \in Ids : UpdateFields(c, p, id)
          \/ \E l \in Loads : Answer(c, l)
    \/ \E p \in Pages, l \in Loads : Refresh(p, l)
    \/ \E l \in Loads : ReadRows(l) \/ Land(l) \/ LoseRows(l)

Spec == Init /\ [][Next]_accessVars

-----------------------------------------------------------------------------
(* Who the users are.                                                      *)

\* Two users have one phone only if they were being created together: createUser looks
\* for the phone and writes in two calls (users-db.ts lines 132-161; line 9 has the
\* phone unique).
PhonesOwn ==
    \A u, v \in users : u.phone = v.phone => u = v \/ u.phone \in alongside

\* A deleted user is brought back only by who could not know of it: a page that had not
\* yet shown him as deleted, or whose lists arrived in another order than they were
\* read (access/page.tsx lines 96-110, 139-153, 310-325), or an update of other fields
\* that was sent before he was deleted and writes back what it read (users-db.ts lines
\* 168-187), which it may do after every page has shown him as deleted.
RevivedUnaware == revived = {}

=============================================================================
