-------------------------------- MODULE Users --------------------------------
(***************************************************************************)
(* One user of the web app: his document of len_users (lib/users-db.ts),   *)
(* the documents of his KYC and KYB submissions (lib/identity.ts,          *)
(* lib/kyb.ts), and the requests of others and his own that write them.    *)
(*                                                                         *)
(* updateUser writes the whole document back as it was read, with the      *)
(* updates over it, and no transaction holds the two together: what others *)
(* wrote in between is undone.  authenticateUser reads the document once   *)
(* and writes the count of failures, or their end, in one later call whose *)
(* failure it ignores.                                                     *)
(*                                                                         *)
(* A lock is its place in the order of locks; a PIN is the number of times *)
(* it was reset.  What a user is shown, and his bank account's number, are *)
(* left out.  The user exists: createUser is not part of the module.       *)
(***************************************************************************)
EXTENDS Integers, Sequences

CONSTANTS
    Requests,
    MAX_ATTEMPTS,
    MaxRequests,  \* bound: requests that are begun
    MaxLosses     \* bound: writes that fail, and requests that stop before one

VARIABLES
    member,      \* the user's document
    submission,  \* the status of his KYC and of his KYB submission
    locks,       \* the locks ever set: is each still in force?
    serving,     \* what each request does next and what it has read
    begun, losses,
    tries,       \* history: wrong PINs answered since the last right one
    waited,      \* history: locks that ran out since then
    undone,      \* history: tries and locks that a write took back, never recorded, or
                 \* decided on a document that was no longer what was read
    latest,      \* history: the kind of submission written last
    crossed      \* history: a submission's writes met those of another request

userVars == <<member, submission, locks, serving, begun, losses,
              tries, waited, undone, latest, crossed>>

Kinds == {"kyc", "kyb"}

Free == [step |-> "free"]

Init ==
    /\ member = [status |-> "active", pin |-> 0, failed |-> 0, lock |-> 0,
                 level |-> 0, kyc |-> "none", account |-> "virtual"]
    /\ submission = [k \in Kinds |-> "none"]
    /\ locks = <<>>
    /\ serving = [r \in Requests |-> Free]
    /\ begun = 0 /\ losses = 0
    /\ tries = 0 /\ waited = 0 /\ undone = 0
    /\ latest = "none" /\ crossed = FALSE

At(r, step) == serving[r].step = step

Do(r, next) == serving' = [serving EXCEPT ![r] = next]

\* A request arrives and is at its first call.
Arrive(r, next) ==
    /\ At(r, "free") /\ begun < MaxRequests
    /\ begun' = begun + 1
    /\ Do(r, next)

Positive(n) == IF n > 0 THEN n ELSE 0

-----------------------------------------------------------------------------
(* authenticateUser.                                                       *)

Locked(u) == u.lock # 0 /\ locks[u.lock]

\* Mutant: only the status is looked at.
MayTryPINLocked(u) == u.status = "active"

MayTryPIN(u) == u.status = "active" /\ ~Locked(u)

\* The document is read, and everything decided on what was read.
SignIn(r, right) ==
    /\ Arrive(r, [step |-> "answering", right |-> right, read |-> member])
    /\ MayTryPIN(member)
    /\ UNCHANGED <<member, submission, locks, losses, tries, waited, undone, latest, crossed>>

Counted(u, failed, lock) == [u EXCEPT !.failed = failed, !.lock = lock]

\* The one write, with no look at what it writes over, and the answer.
AnswerRight(r) ==
    /\ At(r, "answering") /\ serving[r].right
    /\ member' = Counted(member, 0, 0)
    /\ tries' = 0 /\ waited' = 0 /\ undone' = 0
    /\ Do(r, Free)
    /\ UNCHANGED <<submission, locks, begun, losses, latest, crossed>>

\* The document has had other failures or another lock since it was read.
Late(read) == IF read.failed > member.failed \/ read.lock # member.lock THEN 1 ELSE 0

AnswerWrong(r) ==
    /\ At(r, "answering") /\ ~serving[r].right
    /\ LET failed == serving[r].read.failed + 1 IN
          /\ IF failed >= MAX_ATTEMPTS
             THEN /\ locks' = Append(locks, TRUE)
                  /\ member' = Counted(member, failed, Len(locks) + 1)
             ELSE /\ member' = Counted(member, failed, member.lock)
                  /\ UNCHANGED locks
          /\ undone' = undone + Positive(member.failed + 1 - failed) + Late(serving[r].read)
    /\ tries' = tries + 1
    /\ Do(r, Free)
    /\ UNCHANGED <<submission, begun, losses, waited, latest, crossed>>

\* The write fails: the catch ignores it and the answer is the same.
AnswerUnrecorded(r) ==
    /\ At(r, "answering") /\ losses < MaxLosses
    /\ losses' = losses + 1
    /\ IF serving[r].right
       THEN tries' = 0 /\ waited' = 0 /\ undone' = 0
       ELSE tries' = tries + 1 /\ undone' = undone + 1 /\ UNCHANGED waited
    /\ Do(r, Free)
    /\ UNCHANGED <<member, submission, locks, begun, latest, crossed>>

\* The time of a lock comes.
Expire ==
    /\ \E l \in DOMAIN locks : locks[l] /\ locks' = [locks EXCEPT ![l] = FALSE]
    /\ waited' = waited + 1
    /\ UNCHANGED <<member, submission, serving, begun, losses, tries, undone, latest, crossed>>

-----------------------------------------------------------------------------
(* updateUser, and those that call it.                                     *)

Merge(u, updates) == [f \in DOMAIN u |-> IF f \in DOMAIN updates THEN updates[f] ELSE u[f]]

Updating(updates) == [step |-> "reading", kind |-> "none", updates |-> updates]

\* PATCH of the admin's page, and homologate.
UpdateUser(r) ==
    /\ \/ \E s \in {"active", "suspended"} : Arrive(r, Updating([status |-> s]))
       \/ Arrive(r, Updating([account |-> "bank"]))
    /\ UNCHANGED <<member, submission, locks, losses, tries, waited, undone, latest, crossed>>

Read(r) ==
    /\ At(r, "reading")
    /\ Do(r, [step |-> "writing", kind |-> serving[r].kind, updates |-> serving[r].updates,
              read |-> member])
    /\ UNCHANGED <<member, submission, locks, begun, losses, tries, waited, undone, latest, crossed>>

\* The document as it was read, the updates over it, replaces what it has become.
Write(r) ==
    /\ At(r, "writing")
    /\ LET read == serving[r].read IN
          /\ member' = Merge(read, serving[r].updates)
          /\ undone' = undone + Positive(member.failed - read.failed)
                              + (IF read.lock # member.lock THEN 1 ELSE 0)
          /\ crossed' = (crossed \/ read.kyc # member.kyc)
    /\ Do(r, Free)
    /\ UNCHANGED <<submission, locks, begun, losses, tries, waited, latest>>

\* updateUserPin and softDeleteUser write their one field.
ResetPin(r) ==
    /\ At(r, "free") /\ begun < MaxRequests
    /\ begun' = begun + 1
    /\ member' = [member EXCEPT !.pin = @ + 1]
    /\ UNCHANGED <<submission, locks, serving, losses, tries, waited, undone, latest, crossed>>

SoftDelete(r) ==
    /\ At(r, "free") /\ begun < MaxRequests
    /\ begun' = begun + 1
    /\ member' = [member EXCEPT !.status = "deleted"]
    /\ UNCHANGED <<submission, locks, serving, losses, tries, waited, undone, latest, crossed>>

-----------------------------------------------------------------------------
(* submitKyc, submitKyb, reviewKyc, reviewKyb: the submission first, then  *)
(* the user's document.                                                    *)

\* Requests that have written a submission and not yet the user.
Unfinished == {r \in Requests : serving[r].step \in {"reading", "writing"} /\ serving[r].kind \in Kinds}

Submitted(kind) == [kyc |-> "in_review"]

\* Mutant: a rejection is written to the submission alone.
ReviewedKept(kind, verdict) ==
    IF verdict = "approved"
    THEN [kyc |-> verdict, level |-> IF kind = "kyc" THEN 2 ELSE 3]
    ELSE [f \in {} |-> verdict]

Reviewed(kind, verdict) ==
    IF verdict = "approved"
    THEN [kyc |-> verdict, level |-> IF kind = "kyc" THEN 2 ELSE 3]
    ELSE [kyc |-> verdict]

\* The submission is written; the user's document will be.
WriteSubmission(r, kind, status, updates) ==
    /\ Arrive(r, [step |-> "reading", kind |-> kind, updates |-> updates])
    /\ submission' = [submission EXCEPT ![kind] = status]
    /\ latest' = kind
    /\ crossed' = (crossed \/ Unfinished # {})
    /\ UNCHANGED <<member, locks, losses, tries, waited, undone>>

Submit(r, kind) == WriteSubmission(r, kind, "in_review", Submitted(kind))

Review(r, kind) ==
    \E verdict \in {"approved", "rejected"} :
        WriteSubmission(r, kind, verdict, Reviewed(kind, verdict))

\* A call of a request throws: what it has written remains.
Stop(r) ==
    /\ serving[r].step \in {"reading", "writing"} /\ losses < MaxLosses
    /\ losses' = losses + 1
    /\ crossed' = (crossed \/ serving[r].kind \in Kinds)
    /\ Do(r, Free)
    /\ UNCHANGED <<member, submission, locks, begun, tries, waited, undone, latest>>

-----------------------------------------------------------------------------
Next ==
    \/ \E r \in Requests :
          \/ \E right \in BOOLEAN : SignIn(r, right)
          \/ AnswerRight(r) \/ AnswerWrong(r) \/ AnswerUnrecorded(r)
          \/ UpdateUser(r) \/ Read(r) \/ Write(r) \/ ResetPin(r) \/ SoftDelete(r)
          \/ \E kind \in Kinds : Submit(r, kind) \/ Review(r, kind)
          \/ Stop(r)
    \/ Expire

Spec == Init /\ [][Next]_userVars

-----------------------------------------------------------------------------
(* What the web app keeps true of a user's sign-ins and of his standing.   *)

\* Wrong PINs are answered MAX_ATTEMPTS times, and from then on once per lock
\* that ran out; more of them only as far as a write failed, or was decided on
\* or wrote over a document that was no longer what was read, and so took
\* tries and locks back (users-db.ts lines 241-272 against 168-187).
LockoutHolds == tries <= MAX_ATTEMPTS + waited + undone

\* Between requests the user's document and his submission tell the same: the
\* status is that of the submission that was written last, whatever sign-ins
\* and updates came in between, unless two requests crossed or one stopped
\* between its two writes (identity.ts lines 66-118, kyb.ts lines 80-144).
StatusFollowsSubmission ==
    latest # "none" /\ ~crossed /\ Unfinished = {} => member.kyc = submission[latest]

=============================================================================
