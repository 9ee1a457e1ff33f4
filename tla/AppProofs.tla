------------------------------ MODULE AppProofs ------------------------------
(***************************************************************************)
(* Proofs about the web app: its users, card payments, the demonstration   *)
(* users, who becomes a user, the page for MiniPay, the browser, the pages *)
(* of the ledger's users, the forms for a withdrawal and for sending       *)
(* coins, and swaps of coins; for any number of each, and any amounts,     *)
(* rates and bounds that the assumptions of AppProperties allow.           *)
(***************************************************************************)
EXTENDS AppProperties, Sums, FiniteSetTheorems, TLAPS

KycStatuses == {"none", "in_review", "approved", "rejected"}

Documents ==
    [status : {"active", "suspended", "deleted"}, pin : Nat, failed : Nat, lock : Nat,
     level : 0..3, kyc : KycStatuses,
     account : {"virtual", "bank"}]

\* What updateUser is called with; never a count of failures or a lock.
Changes ==
    [status : {"active", "suspended"}] \cup [account : {"bank"}]
      \cup [kyc : {"in_review", "approved", "rejected"}]
      \cup [kyc : {"in_review", "approved", "rejected"}, level : 0..3]

\* A document whose lock, if it has one, was set.
Sound(u) == u \in Documents /\ u.lock \in 0..Len(locks)

StepOK(s) ==
    /\ s.step \in {"free", "answering", "reading", "writing"}
    /\ s.step = "answering" => Sound(s.read) /\ ~Locked(s.read)
    /\ s.step \in {"reading", "writing"} => s.updates \in Changes
    /\ s.step = "writing" => Sound(s.read)

TypeInv ==
    /\ locks \in Seq(BOOLEAN)
    /\ Sound(member)
    /\ serving = [r \in Requests |-> serving[r]]
    /\ \A r \in Requests : StepOK(serving[r])
    /\ tries \in Nat /\ waited \in Nat /\ undone \in Nat

\* What is not taken back is counted in the document; and whoever may try a PIN
\* finds one wrong answer still allowed.
CountInv ==
    /\ tries <= undone + member.failed
    /\ tries <= MAX_ATTEMPTS + waited + undone
    /\ ~Locked(member) => tries < MAX_ATTEMPTS + waited + undone

-----------------------------------------------------------------------------
\* updateUser leaves failures and lock as they were read.
LEMMA MergeKeeps ==
    ASSUME NEW u \in Documents, NEW updates \in Changes
    PROVE  /\ Merge(u, updates) \in Documents
           /\ Merge(u, updates).failed = u.failed
           /\ Merge(u, updates).lock = u.lock
  <1>1. CASE updates \in [status : {"active", "suspended"}]
    BY <1>1 DEF Merge, Documents, KycStatuses
  <1>2. CASE updates \in [account : {"bank"}]
    BY <1>2 DEF Merge, Documents, KycStatuses
  <1>3. CASE updates \in [kyc : {"in_review", "approved", "rejected"}]
    BY <1>3 DEF Merge, Documents, KycStatuses
  <1>4. CASE updates \in [kyc : {"in_review", "approved", "rejected"}, level : 0..3]
    BY <1>4 DEF Merge, Documents, KycStatuses
  <1>5. QED
    BY <1>1, <1>2, <1>3, <1>4 DEF Changes

\* authenticateUser replaces the count of failures and the lock.
LEMMA CountedFields ==
    ASSUME NEW u \in Documents, NEW n \in Nat, NEW l \in Nat
    PROVE  /\ Counted(u, n, l) \in Documents
           /\ Counted(u, n, l).failed = n
           /\ Counted(u, n, l).lock = l
  <1> DEFINE v == [u EXCEPT !.failed = n]
             w == [v EXCEPT !.lock = l]
  <1>1. v \in Documents /\ v.failed = n
    BY DEF Documents
  <1>2. w \in Documents /\ w.failed = v.failed /\ w.lock = l
    <2> HIDE DEF v
    <2>1. QED
      BY <1>1 DEF Documents
  <1>3. Counted(u, n, l) = w
    BY DEF Counted
  <1>4. QED
    BY <1>1, <1>2, <1>3, Zenon

-----------------------------------------------------------------------------
(* Locks: one more is set, or one runs out; a lock that is not in force    *)
(* never comes back.                                                       *)

LocksStep ==
    \/ locks' = locks
    \/ locks' = Append(locks, TRUE)
    \/ \E l \in DOMAIN locks : locks' = [locks EXCEPT ![l] = FALSE]

\* Every step does to the locks one of these.
LEMMA LocksNext ==
    ASSUME [Next]_userVars
    PROVE  LocksStep
  <1>1. CASE Expire
    BY <1>1 DEF Expire, LocksStep
  <1>2. ASSUME NEW r \in Requests, AnswerWrong(r)
        PROVE  LocksStep
    BY <1>2 DEF AnswerWrong, LocksStep
  <1>3. CASE UNCHANGED userVars
    BY <1>3 DEF userVars, LocksStep
  <1>4. ASSUME NEW r \in Requests,
               \/ \E right \in BOOLEAN : SignIn(r, right)
               \/ AnswerRight(r) \/ AnswerUnrecorded(r)
               \/ UpdateUser(r) \/ Read(r) \/ Write(r) \/ ResetPin(r) \/ SoftDelete(r)
               \/ \E kind \in Kinds : Submit(r, kind) \/ Review(r, kind)
               \/ Stop(r)
        PROVE  LocksStep
    BY <1>4 DEF SignIn, AnswerRight, AnswerUnrecorded, UpdateUser, Read, Write, ResetPin,
                SoftDelete, Submit, Review, WriteSubmission, Stop, LocksStep
  <1>5. QED
    BY <1>1, <1>2, <1>3, <1>4 DEF Next

\* Locks are not lost, and stay out of force.
LEMMA LocksTyped ==
    ASSUME locks \in Seq(BOOLEAN), LocksStep
    PROVE  /\ locks' \in Seq(BOOLEAN)
           /\ Len(locks') >= Len(locks)
           /\ \A l \in 1..Len(locks) : ~locks[l] => ~locks'[l]
  <1>1. CASE locks' = locks
    BY <1>1
  <1>2. CASE locks' = Append(locks, TRUE)
    BY <1>2
  <1>3. ASSUME NEW l \in DOMAIN locks, locks' = [locks EXCEPT ![l] = FALSE]
        PROVE  /\ locks' \in Seq(BOOLEAN)
               /\ Len(locks') >= Len(locks)
               /\ \A k \in 1..Len(locks) : ~locks[k] => ~locks'[k]
    BY <1>3
  <1>4. QED
    BY <1>1, <1>2, <1>3 DEF LocksStep

\* A document that was read stays sound, and free of a lock.
LEMMA SoundStays ==
    ASSUME locks \in Seq(BOOLEAN), LocksStep, NEW u, Sound(u)
    PROVE  Sound(u)' /\ (~Locked(u) => ~Locked(u)')
  BY LocksTyped DEF Sound, Locked

\* So does what a request holds.
LEMMA StepStays ==
    ASSUME locks \in Seq(BOOLEAN), LocksStep, NEW s, StepOK(s)
    PROVE  StepOK(s)'
  BY SoundStays DEF StepOK

\* One request goes on with something sound; the others still hold what is.
LEMMA ServingNext ==
    ASSUME TypeInv, LocksStep, NEW r \in Requests, NEW next, StepOK(next)', Do(r, next)
    PROVE  /\ serving' = [q \in Requests |-> serving'[q]]
           /\ \A q \in Requests : StepOK(serving[q])'
  <1>1. /\ serving' = [q \in Requests |-> serving'[q]]
        /\ serving'[r] = next
        /\ \A q \in Requests \ {r} : serving'[q] = serving[q]
    BY DEF Do, TypeInv
  <1>2. ASSUME NEW q \in Requests \ {r}
        PROVE  StepOK(serving[q])'
    BY <1>1, StepStays DEF TypeInv
  <1>3. QED
    BY <1>1, <1>2

\* No request goes on.
LEMMA ServingSame ==
    ASSUME TypeInv, LocksStep, UNCHANGED serving
    PROVE  /\ serving' = [q \in Requests |-> serving'[q]]
           /\ \A q \in Requests : StepOK(serving[q])'
  BY StepStays DEF TypeInv

-----------------------------------------------------------------------------
(* Type correctness.                                                       *)

\* An active user without failures is well typed.
LEMMA TypeInit == Init => TypeInv
  BY DEF Init, TypeInv, Sound, Documents, KycStatuses, StepOK, Free

\* Types, and that nobody holds a document he might not try a PIN on, are inductive.
LEMMA TypeNext ==
    ASSUME MAX_ATTEMPTS \in Nat \ {0}, TypeInv, [Next]_userVars
    PROVE  TypeInv'
  <1>1. LocksStep /\ locks' \in Seq(BOOLEAN)
    BY LocksNext, LocksTyped DEF TypeInv
  <1>2. ASSUME UNCHANGED member
        PROVE  Sound(member)'
    BY <1>1, <1>2, SoundStays DEF TypeInv
  <1>3. StepOK(Free)'
    BY DEF StepOK, Free
  <1>4. ASSUME NEW r \in Requests, NEW right \in BOOLEAN, SignIn(r, right)
        PROVE  TypeInv'
    <2>1. StepOK([step |-> "answering", right |-> right, read |-> member])'
      <3>1. Sound(member) /\ ~Locked(member) /\ UNCHANGED <<member, locks>>
        BY <1>4 DEF SignIn, MayTryPIN, TypeInv
      <3>2. QED
        BY <3>1 DEF StepOK, Sound, Locked
    <2>2. QED
      BY <1>1, <1>2, <1>4, <2>1, ServingNext DEF SignIn, Arrive, TypeInv
  <1>5. ASSUME NEW r \in Requests, AnswerRight(r)
        PROVE  TypeInv'
    <2>1. /\ member' = Counted(member, 0, 0)
          /\ member \in Documents /\ locks' = locks
      BY <1>5 DEF AnswerRight, TypeInv, Sound
    <2>2. member' \in Documents /\ member'.lock = 0
      <3>1. 0 \in Nat
        OBVIOUS
      <3>2. QED
        BY <2>1, <3>1, CountedFields, Zenon
    <2>3. Sound(member)'
      BY <2>1, <2>2 DEF Sound, TypeInv
    <2>4. QED
      BY <1>1, <1>3, <1>5, <2>3, ServingNext DEF AnswerRight, TypeInv
  <1>6. ASSUME NEW r \in Requests, AnswerWrong(r)
        PROVE  TypeInv'
    <2>1. StepOK(serving[r]) /\ serving[r].step = "answering"
      BY <1>6 DEF AnswerWrong, At, TypeInv
    <2> DEFINE failed == serving[r].read.failed + 1
    <2>2. failed \in Nat /\ member.failed \in Nat /\ member \in Documents
      BY <2>1 DEF StepOK, Sound, Documents, TypeInv
    <2>3. Sound(member)'
      <3>1. CASE failed >= MAX_ATTEMPTS
        <4>1. /\ locks' = Append(locks, TRUE)
              /\ member' = Counted(member, failed, Len(locks) + 1)
          BY <1>6, <3>1, Zenon DEF AnswerWrong
        <4>2. Len(locks) + 1 \in Nat /\ Len(locks') = Len(locks) + 1
          BY <4>1 DEF TypeInv
        <4>3. member' \in Documents /\ member'.lock = Len(locks) + 1
          <5> HIDE DEF failed
          <5>1. QED
            BY <2>2, <4>1, <4>2, CountedFields, Zenon
        <4>4. QED
          BY <4>2, <4>3 DEF Sound
      <3>2. CASE ~(failed >= MAX_ATTEMPTS)
        <4>1. member' = Counted(member, failed, member.lock) /\ locks' = locks
          BY <1>6, <3>2, Zenon DEF AnswerWrong
        <4>2. member' \in Documents /\ member'.lock = member.lock
          <5>1. member.lock \in Nat
            BY <2>2 DEF Documents
          <5> HIDE DEF failed
          <5>2. QED
            BY <2>2, <4>1, <5>1, CountedFields, Zenon
        <4>3. QED
          BY <4>1, <4>2 DEF Sound, TypeInv
      <3>3. QED
        BY <3>1, <3>2
    <2>4. undone' \in Nat
      <3>1. undone' = undone + Positive(member.failed + 1 - failed) + Late(serving[r].read)
        BY <1>6 DEF AnswerWrong
      <3>2. Positive(member.failed + 1 - failed) \in Nat /\ Late(serving[r].read) \in Nat
        BY <2>2 DEF Positive, Late
      <3>3. QED
        BY <3>1, <3>2 DEF TypeInv
    <2>5. QED
      BY <1>1, <1>3, <1>6, <2>3, <2>4, ServingNext DEF AnswerWrong, TypeInv
  <1>7. ASSUME NEW r \in Requests, AnswerUnrecorded(r)
        PROVE  TypeInv'
    <2>1. tries' \in Nat /\ waited' \in Nat /\ undone' \in Nat
      BY <1>7 DEF AnswerUnrecorded, TypeInv
    <2>2. QED
      BY <1>1, <1>2, <1>3, <1>7, <2>1, ServingNext DEF AnswerUnrecorded, TypeInv
  <1>8. CASE Expire
    BY <1>1, <1>2, <1>8, ServingSame DEF Expire, TypeInv
  <1>9. ASSUME NEW r \in Requests, UpdateUser(r)
        PROVE  TypeInv'
    <2>1. PICK updates \in Changes : Do(r, Updating(updates))
      BY <1>9 DEF UpdateUser, Arrive, Changes
    <2>2. StepOK(Updating(updates))'
      BY DEF StepOK, Updating
    <2>3. QED
      BY <1>1, <1>2, <1>9, <2>1, <2>2, ServingNext DEF UpdateUser, TypeInv
  <1>10. ASSUME NEW r \in Requests, Read(r)
         PROVE  TypeInv'
    <2>1. StepOK(serving[r]) /\ serving[r].step = "reading"
      BY <1>10 DEF Read, At, TypeInv
    <2>2. PICK next : next = [step |-> "writing", kind |-> serving[r].kind,
                              updates |-> serving[r].updates, read |-> member]
      OBVIOUS
    <2>3. StepOK(next)'
      <3>1. serving[r].updates \in Changes /\ Sound(member) /\ UNCHANGED <<member, locks>>
        BY <1>10, <2>1 DEF StepOK, Read, TypeInv
      <3>2. next.step = "writing" /\ next.updates \in Changes /\ next.read = member
        BY <2>2, <3>1
      <3>3. QED
        BY <3>1, <3>2 DEF StepOK, Sound
    <2>4. QED
      BY <1>1, <1>2, <1>10, <2>2, <2>3, ServingNext DEF Read, TypeInv
  <1>11. ASSUME NEW r \in Requests, Write(r)
         PROVE  TypeInv'
    <2>1. StepOK(serving[r]) /\ serving[r].step = "writing"
      BY <1>11 DEF Write, At, TypeInv
    <2>2. /\ member' \in Documents
          /\ member'.lock = serving[r].read.lock
      BY <1>11, <2>1, MergeKeeps DEF Write, StepOK, Sound
    <2>3. Sound(member)'
      BY <1>1, <1>11, <2>1, <2>2 DEF Write, StepOK, Sound
    <2>4. undone' \in Nat
      <3> DEFINE locked == IF serving[r].read.lock # member.lock THEN 1 ELSE 0
      <3>1. undone' = undone + Positive(member.failed - serving[r].read.failed) + locked
        BY <1>11 DEF Write
      <3>2. serving[r].read.failed \in Nat /\ member.failed \in Nat
        BY <2>1 DEF StepOK, Sound, Documents, TypeInv
      <3>3. Positive(member.failed - serving[r].read.failed) \in Nat /\ locked \in Nat
        BY <3>2 DEF Positive
      <3> HIDE DEF locked
      <3>4. QED
        BY <3>1, <3>3 DEF TypeInv
    <2>5. QED
      BY <1>1, <1>3, <1>11, <2>3, <2>4, ServingNext DEF Write, TypeInv
  <1>12. ASSUME NEW r \in Requests, ResetPin(r) \/ SoftDelete(r)
         PROVE  TypeInv'
    <2>1. Sound(member)'
      BY <1>12 DEF ResetPin, SoftDelete, TypeInv, Sound, Documents
    <2>2. QED
      BY <1>1, <1>12, <2>1, ServingSame DEF ResetPin, SoftDelete, TypeInv
  <1>13. ASSUME NEW r \in Requests, NEW kind \in Kinds, Submit(r, kind) \/ Review(r, kind)
         PROVE  TypeInv'
    <2>1. PICK status \in {"in_review", "approved", "rejected"}, updates \in Changes :
             WriteSubmission(r, kind, status, updates)
      <3>1. Submitted(kind) \in Changes
        BY DEF Submitted, Changes
      <3>2. ASSUME NEW verdict \in {"approved", "rejected"}
            PROVE  Reviewed(kind, verdict) \in Changes
        BY DEF Reviewed, Changes
      <3>3. CASE Submit(r, kind)
        BY <3>1, <3>3, Zenon DEF Submit
      <3>4. CASE Review(r, kind)
        BY <3>2, <3>4, Zenon DEF Review
      <3>5. QED
        BY <1>13, <3>3, <3>4
    <2>2. StepOK([step |-> "reading", kind |-> kind, updates |-> updates])'
      BY DEF StepOK
    <2>3. QED
      BY <1>1, <1>2, <2>1, <2>2, ServingNext DEF WriteSubmission, Arrive, TypeInv
  <1>14. ASSUME NEW r \in Requests, Stop(r)
         PROVE  TypeInv'
    BY <1>1, <1>2, <1>3, <1>14, ServingNext DEF Stop, TypeInv
  <1>15. CASE UNCHANGED userVars
    BY <1>1, <1>2, <1>15, ServingSame DEF userVars, TypeInv
  <1>16. QED
    BY <1>4, <1>5, <1>6, <1>7, <1>8, <1>9, <1>10, <1>11, <1>12, <1>13, <1>14, <1>15 DEF Next

-----------------------------------------------------------------------------
(* The count of wrong answers.                                             *)

\* No PIN was tried.
LEMMA CountInit ==
    ASSUME MAX_ATTEMPTS \in Nat \ {0}, Init
    PROVE  CountInv
  BY DEF Init, CountInv, Locked

\* What is taken back is at least what the count went down by.
LEMMA PositiveBounds ==
    ASSUME NEW n \in Int
    PROVE  Positive(n) \in Nat /\ Positive(n) >= n
  BY DEF Positive

\* A step that writes no document and counts nothing new; a lock may run out.
LEMMA CountSame ==
    ASSUME MAX_ATTEMPTS \in Nat \ {0}, TypeInv, CountInv, LocksStep, UNCHANGED locks,
           member'.failed = member.failed, member'.lock = member.lock,
           UNCHANGED <<tries, waited, undone>>
    PROVE  CountInv'
  BY DEF CountInv, Locked

\* The count is inductive: an answer decided on the document as it is was allowed.
LEMMA CountNext ==
    ASSUME MAX_ATTEMPTS \in Nat \ {0}, TypeInv, CountInv, [Next]_userVars
    PROVE  CountInv'
  <1> USE DEF CountInv
  <1>1. /\ LocksStep
        /\ member.failed \in Nat /\ member.lock \in 0..Len(locks)
        /\ tries \in Nat /\ waited \in Nat /\ undone \in Nat
        /\ locks \in Seq(BOOLEAN)
    BY LocksNext DEF TypeInv, Sound, Documents
  <1>2. ASSUME NEW r \in Requests,
               \/ \E right \in BOOLEAN : SignIn(r, right)
               \/ UpdateUser(r) \/ Read(r) \/ Stop(r)
               \/ \E kind \in Kinds : Submit(r, kind) \/ Review(r, kind)
        PROVE  CountInv'
    BY <1>1, <1>2, CountSame DEF SignIn, UpdateUser, Read, Stop, Submit, Review, WriteSubmission
  <1>3. ASSUME NEW r \in Requests, AnswerRight(r)
        PROVE  CountInv'
    <2>1. member' = Counted(member, 0, 0) /\ tries' = 0 /\ waited' = 0 /\ undone' = 0
      BY <1>3 DEF AnswerRight
    <2>2. member'.lock = 0 /\ member'.failed = 0
      <3>1. 0 \in Nat /\ member \in Documents
        BY DEF TypeInv, Sound
      <3>2. QED
        BY <2>1, <3>1, CountedFields
    <2>3. QED
      BY <2>1, <2>2 DEF Locked
  <1>4. ASSUME NEW r \in Requests, AnswerWrong(r)
        PROVE  CountInv'
    <2> DEFINE read == serving[r].read
               failed == read.failed + 1
               lost == Positive(member.failed + 1 - failed)
               late == Late(read)
    <2>1. Sound(read) /\ ~Locked(read)
      BY <1>4 DEF AnswerWrong, At, TypeInv, StepOK
    <2>2. read.failed \in Nat /\ failed \in Nat /\ read.lock \in 0..Len(locks)
      BY <2>1 DEF Sound, Documents
    <2>3. tries' = tries + 1 /\ waited' = waited /\ undone' = undone + lost + late
      BY <1>4 DEF AnswerWrong
    <2>4. /\ lost \in Nat /\ late \in Nat
          /\ lost >= member.failed + 1 - failed
          /\ \/ lost + late >= 1
             \/ lost + late = 0 /\ read.lock = member.lock
      <3>1. member.failed + 1 - failed \in Int
        BY <1>1, <2>2
      <3>2. lost \in Nat /\ lost >= member.failed + 1 - failed
        BY <3>1, PositiveBounds, Zenon
      <3>3. /\ late \in {0, 1}
            /\ late = 0 => read.lock = member.lock
        BY DEF Late
      <3> HIDE DEF lost, late, failed, read
      <3>4. QED
        BY <3>2, <3>3
    <2>5. \/ /\ failed >= MAX_ATTEMPTS /\ locks' = Append(locks, TRUE)
             /\ member' = Counted(member, failed, Len(locks) + 1)
          \/ /\ ~(failed >= MAX_ATTEMPTS) /\ locks' = locks
             /\ member' = Counted(member, failed, member.lock)
      BY <1>4, Zenon DEF AnswerWrong
    <2>6. member \in Documents /\ member.lock \in Nat /\ Len(locks) + 1 \in Nat
      BY <1>1 DEF TypeInv, Sound
    <2>7. /\ member'.failed = failed
          /\ \/ /\ locks' = Append(locks, TRUE) /\ member'.lock = Len(locks) + 1
             \/ /\ ~(failed >= MAX_ATTEMPTS) /\ locks' = locks /\ member'.lock = member.lock
      <3> HIDE DEF failed
      <3>1. ASSUME NEW l \in Nat, member' = Counted(member, failed, l)
            PROVE  member'.failed = failed /\ member'.lock = l
        <4>1. /\ Counted(member, failed, l).failed = failed
              /\ Counted(member, failed, l).lock = l
          <5>1. failed \in Nat
            BY <2>2
          <5>2. member \in Documents
            BY <2>6
          <5>3. QED
            BY <5>1, <5>2, CountedFields
        <4>2. QED
          BY <3>1, <4>1, Zenon
      <3>2. QED
        BY <2>5, <2>6, <3>1, Zenon
    <2>8. read.lock = member.lock => ~Locked(member)
      BY <2>1 DEF Locked
    <2> HIDE DEF lost, late, failed, read
    <2>9. tries' <= undone' + member'.failed
      BY <1>1, <2>2, <2>3, <2>4, <2>7
    \* Either the answer was decided on the document as it is, and that one may
    \* be tried; or something is taken back.
    <2>10. tries' <= MAX_ATTEMPTS + waited' + undone'
      BY <1>1, <2>3, <2>4, <2>8
    <2>11. ASSUME ~Locked(member)'
           PROVE  tries' < MAX_ATTEMPTS + waited' + undone'
      <3>1. CASE locks' = Append(locks, TRUE) /\ member'.lock = Len(locks) + 1
        BY <1>1, <2>11, <3>1 DEF Locked
      <3>2. CASE ~(failed >= MAX_ATTEMPTS)
        BY <1>1, <2>2, <2>3, <2>4, <2>7, <2>9, <3>2
      <3>3. QED
        BY <2>7, <3>1, <3>2
    <2>12. QED
      BY <2>9, <2>10, <2>11
  <1>5. ASSUME NEW r \in Requests, AnswerUnrecorded(r)
        PROVE  CountInv'
    <2>1. /\ member' = member /\ locks' = locks
          /\ \/ tries' = 0 /\ waited' = 0 /\ undone' = 0
             \/ tries' = tries + 1 /\ undone' = undone + 1 /\ waited' = waited
      BY <1>5 DEF AnswerUnrecorded
    <2>2. QED
      BY <1>1, <2>1 DEF Locked
  <1>6. CASE Expire
    <2>1. waited' = waited + 1 /\ UNCHANGED <<member, tries, undone>>
      BY <1>6 DEF Expire
    <2>2. QED
      BY <1>1, <2>1
  <1>7. ASSUME NEW r \in Requests, Write(r)
        PROVE  CountInv'
    <2> DEFINE read == serving[r].read
    <2>1. Sound(read) /\ serving[r].updates \in Changes
      BY <1>7 DEF Write, At, TypeInv, StepOK
    <2>2. read.failed \in Nat
      BY <2>1 DEF Sound, Documents
    <2>3. /\ member' = Merge(read, serving[r].updates) /\ locks' = locks
          /\ undone' = undone + Positive(member.failed - read.failed)
                              + (IF read.lock # member.lock THEN 1 ELSE 0)
          /\ tries' = tries /\ waited' = waited
      BY <1>7 DEF Write
    <2>4. member'.failed = read.failed /\ member'.lock = read.lock
      BY <2>1, <2>3, MergeKeeps DEF Sound
    <2>5. CASE read.lock = member.lock
      BY <1>1, <2>2, <2>3, <2>4, <2>5 DEF Positive, Locked
    <2>6. CASE read.lock # member.lock
      <3>1. undone' = undone + Positive(member.failed - read.failed) + 1
        BY <2>3, <2>6
      <3>2. Positive(member.failed - read.failed) \in Nat
            /\ Positive(member.failed - read.failed) >= member.failed - read.failed
        BY <1>1, <2>2 DEF Positive
      <3>3. QED
        BY <1>1, <2>2, <2>3, <2>4, <3>1, <3>2
    <2>7. QED
      BY <2>5, <2>6
  <1>8. ASSUME NEW r \in Requests, ResetPin(r) \/ SoftDelete(r)
        PROVE  CountInv'
    <2>1. member'.failed = member.failed /\ member'.lock = member.lock
      BY <1>8 DEF ResetPin, SoftDelete, TypeInv, Sound, Documents
    <2>2. QED
      BY <1>1, <1>8, <2>1, CountSame DEF ResetPin, SoftDelete
  <1>9. CASE UNCHANGED userVars
    BY <1>1, <1>9, CountSame DEF userVars
  <1>10. QED
    BY <1>2, <1>3, <1>4, <1>5, <1>6, <1>7, <1>8, <1>9 DEF Next

\* However many requests try PINs of one user at a time, and whatever updates of
\* his document they meet, a wrong PIN is answered MAX_ATTEMPTS times, once more
\* per lock that ran out, and once more per try or lock that a write took back
\* (users-db.ts lines 241-272).
THEOREM WrongPINsAreLocked ==
    ASSUME MAX_ATTEMPTS \in Nat \ {0}
    PROVE  Spec => []LockoutHolds
  <1>1. Init => TypeInv /\ CountInv
    BY TypeInit, CountInit
  <1>2. TypeInv /\ CountInv /\ [Next]_userVars => (TypeInv /\ CountInv)'
    BY TypeNext, CountNext
  <1>3. CountInv => LockoutHolds
    BY DEF CountInv, LockoutHolds
  <1>4. QED
    BY <1>1, <1>2, <1>3, PTL DEF Spec

-----------------------------------------------------------------------------
(* The standing of the user.                                               *)

\* The requests between two writes of a submission carry its status, others none.
KindOK(s) ==
    s.step \in {"reading", "writing"} =>
        /\ "kyc" \in DOMAIN s.updates <=> s.kind \in Kinds
        /\ s.step = "writing" => s.read \in Documents

KindInv == \A r \in Requests : KindOK(serving[r])

\* One request at most is between its two writes, and it carries the status of
\* the submission written last; without one, the document has that status.
StandingInv ==
    latest # "none" /\ ~crossed =>
        /\ Unfinished = {} => member.kyc = submission[latest]
        /\ \A r \in Unfinished : serving[r].updates.kyc = submission[latest]
        /\ \A r, q \in Unfinished : r = q

\* No submission was written.
LEMMA StandingInit ==
    ASSUME Init
    PROVE  KindInv /\ StandingInv
  BY DEF Init, KindInv, KindOK, StandingInv, Free

\* Whatever request goes on, the others are where they were.
LEMMA OthersStay ==
    ASSUME TypeInv, NEW r \in Requests, NEW next, Do(r, next)
    PROVE  serving'[r] = next /\ \A q \in Requests \ {r} : serving'[q] = serving[q]
  BY DEF TypeInv, Do

\* Is the request between two writes of a submission?
Carries(s) == s.step \in {"reading", "writing"} /\ s.kind \in Kinds

\* A step of one request that changes no status, begins or ends no submission.
LEMMA StandingSame ==
    ASSUME TypeInv, KindInv, StandingInv, UNCHANGED <<submission, latest>>, crossed => crossed',
           member'.kyc = member.kyc,
           NEW r \in Requests, NEW next, Do(r, next), KindOK(next),
           Carries(next) <=> Carries(serving[r]),
           Carries(next) => next.updates = serving[r].updates
    PROVE  (KindInv /\ StandingInv)'
  <1>1. serving'[r] = next /\ \A q \in Requests \ {r} : serving'[q] = serving[q]
    BY OthersStay
  <1>2. KindInv'
    BY <1>1 DEF KindInv, KindOK
  <1>3. Unfinished' = Unfinished
    BY <1>1 DEF Unfinished, Carries
  <1>4. \A q \in Unfinished : serving'[q].updates = serving[q].updates
    BY <1>1 DEF Unfinished, Carries
  <1>5. QED
    BY <1>2, <1>3, <1>4 DEF StandingInv

\* A step that no request takes.
LEMMA StandingIdle ==
    ASSUME KindInv, StandingInv, UNCHANGED <<submission, latest, crossed, serving>>,
           member'.kyc = member.kyc
    PROVE  (KindInv /\ StandingInv)'
  BY DEF KindInv, KindOK, StandingInv, Unfinished

\* authenticateUser leaves the status alone.
LEMMA CountedStatus ==
    ASSUME NEW u \in Documents, NEW n \in Nat, NEW l \in Nat
    PROVE  Counted(u, n, l).kyc = u.kyc
  <1> DEFINE v == [u EXCEPT !.failed = n]
             w == [v EXCEPT !.lock = l]
  <1>1. v \in Documents /\ v.kyc = u.kyc
    BY DEF Documents
  <1>2. w.kyc = v.kyc
    <2> HIDE DEF v
    <2>1. QED
      BY <1>1 DEF Documents
  <1>3. Counted(u, n, l) = w
    BY DEF Counted
  <1>4. QED
    BY <1>1, <1>2, <1>3, Zenon

\* updateUser replaces the status only where it is among the updates.
LEMMA MergeStatus ==
    ASSUME NEW u \in Documents, NEW updates
    PROVE  Merge(u, updates).kyc = IF "kyc" \in DOMAIN updates THEN updates.kyc ELSE u.kyc
  BY DEF Merge, Documents

\* A submission is written: the request carries its status until the document
\* has it.
LEMMA SubmissionWritten ==
    ASSUME TypeInv, KindInv, NEW r \in Requests, NEW kind \in Kinds, NEW status, NEW updates,
           WriteSubmission(r, kind, status, updates),
           "kyc" \in DOMAIN updates, updates.kyc = status, submission \in [Kinds -> KycStatuses]
    PROVE  (KindInv /\ StandingInv)'
  <1>1. PICK next : next = [step |-> "reading", kind |-> kind, updates |-> updates]
    OBVIOUS
  <1>2. /\ Do(r, next) /\ latest' = kind
        /\ submission' = [submission EXCEPT ![kind] = status]
        /\ ~crossed' => Unfinished = {}
    BY <1>1 DEF WriteSubmission, Arrive
  <1>3. serving'[r] = next /\ \A q \in Requests \ {r} : serving'[q] = serving[q]
    BY <1>2, OthersStay
  <1>4. KindInv'
    BY <1>1, <1>3 DEF KindInv, KindOK
  <1>5. ASSUME ~crossed'
        PROVE  Unfinished' = {r}
    BY <1>1, <1>2, <1>3, <1>5 DEF Unfinished
  <1>6. submission'[kind] = status
    BY <1>2
  <1>7. QED
    BY <1>1, <1>2, <1>3, <1>4, <1>5, <1>6 DEF StandingInv

\* The standing is inductive.
LEMMA StandingNext ==
    ASSUME MAX_ATTEMPTS \in Nat \ {0}, TypeInv, KindInv, StandingInv,
           submission \in [Kinds -> KycStatuses], [Next]_userVars
    PROVE  (KindInv /\ StandingInv)'
  <1>1. /\ KindOK(Free) /\ ~Carries(Free)
        /\ \A s : s.step = "answering" => KindOK(s) /\ ~Carries(s)
    BY DEF KindOK, Carries, Free
  <1>2. ASSUME NEW r \in Requests, NEW right \in BOOLEAN, SignIn(r, right)
        PROVE  (KindInv /\ StandingInv)'
    <2>1. PICK next : next = [step |-> "answering", right |-> right, read |-> member]
      OBVIOUS
    <2>2. Do(r, next) /\ ~Carries(serving[r]) /\ UNCHANGED <<submission, latest, crossed, member>>
      BY <1>2, <2>1 DEF SignIn, Arrive, At, Carries
    <2>3. QED
      BY <1>1, <2>1, <2>2, StandingSame
  <1>3. ASSUME NEW r \in Requests, AnswerRight(r) \/ AnswerWrong(r) \/ AnswerUnrecorded(r)
        PROVE  (KindInv /\ StandingInv)'
    <2>1. /\ Do(r, Free) /\ ~Carries(serving[r]) /\ UNCHANGED <<submission, latest, crossed>>
      BY <1>3 DEF AnswerRight, AnswerWrong, AnswerUnrecorded, At, Carries
    <2>2. StepOK(serving[r]) /\ serving[r].step = "answering" /\ member \in Documents
      BY <1>3 DEF AnswerRight, AnswerWrong, AnswerUnrecorded, At, TypeInv, Sound
    <2>3. /\ serving[r].read.failed + 1 \in Nat /\ 0 \in Nat
          /\ member.lock \in Nat /\ Len(locks) + 1 \in Nat
      BY <2>2 DEF StepOK, Sound, Documents, TypeInv
    <2>4. member' = member \/ \E n, l \in Nat : member' = Counted(member, n, l)
      BY <1>3, <2>3, Zenon DEF AnswerRight, AnswerWrong, AnswerUnrecorded
    <2>5. member'.kyc = member.kyc
      BY <2>2, <2>4, CountedStatus
    <2>6. QED
      BY <1>1, <2>1, <2>5, StandingSame
  <1>4. ASSUME NEW r \in Requests, UpdateUser(r)
        PROVE  (KindInv /\ StandingInv)'
    <2>1. PICK updates : /\ Do(r, Updating(updates)) /\ "kyc" \notin DOMAIN updates
                         /\ ~Carries(serving[r])
                         /\ UNCHANGED <<submission, latest, crossed, member>>
      BY <1>4 DEF UpdateUser, Arrive, At, Carries
    <2>2. KindOK(Updating(updates)) /\ ~Carries(Updating(updates))
      BY <2>1 DEF KindOK, Carries, Updating, Kinds
    <2>3. QED
      BY <2>1, <2>2, StandingSame
  <1>5. ASSUME NEW r \in Requests, Read(r)
        PROVE  (KindInv /\ StandingInv)'
    <2>1. PICK next : next = [step |-> "writing", kind |-> serving[r].kind,
                              updates |-> serving[r].updates, read |-> member]
      OBVIOUS
    <2>2. /\ Do(r, next) /\ serving[r].step = "reading"
          /\ UNCHANGED <<submission, latest, crossed, member>>
      BY <1>5, <2>1 DEF Read, At
    <2>3. KindOK(next) /\ (Carries(next) <=> Carries(serving[r]))
      BY <2>1, <2>2 DEF KindInv, KindOK, Carries, TypeInv, Sound
    <2>4. QED
      BY <2>1, <2>2, <2>3, StandingSame
  <1>6. ASSUME NEW r \in Requests, Write(r)
        PROVE  (KindInv /\ StandingInv)'
    <2>1. /\ member' = Merge(serving[r].read, serving[r].updates)
          /\ crossed' = (crossed \/ serving[r].read.kyc # member.kyc)
          /\ Do(r, Free) /\ serving[r].step = "writing" /\ UNCHANGED <<submission, latest>>
      BY <1>6 DEF Write, At
    <2>2. /\ serving[r].read \in Documents
          /\ "kyc" \in DOMAIN serving[r].updates <=> serving[r].kind \in Kinds
      BY <2>1 DEF KindInv, KindOK
    <2>3. member'.kyc = IF serving[r].kind \in Kinds THEN serving[r].updates.kyc
                                                    ELSE serving[r].read.kyc
      BY <2>1, <2>2, MergeStatus
    <2>4. serving'[r] = Free /\ \A q \in Requests \ {r} : serving'[q] = serving[q]
      BY <2>1, OthersStay
    <2>5. KindInv'
      BY <1>1, <2>4 DEF KindInv, KindOK
    <2>6. CASE serving[r].kind \in Kinds
      <3>1. r \in Unfinished /\ Unfinished' = Unfinished \ {r}
        BY <2>1, <2>4, <2>6 DEF Unfinished, Free
      <3>2. QED
        BY <2>1, <2>3, <2>5, <2>6, <3>1 DEF StandingInv
    <2>7. CASE serving[r].kind \notin Kinds
      <3>1. Unfinished' = Unfinished /\ r \notin Unfinished
        BY <2>1, <2>4, <2>7 DEF Unfinished, Free
      <3>2. \A q \in Unfinished : serving'[q] = serving[q]
        BY <2>4, <3>1 DEF Unfinished
      <3>3. QED
        BY <2>1, <2>3, <2>5, <2>7, <3>1, <3>2 DEF StandingInv
    <2>8. QED
      BY <2>6, <2>7
  <1>7. ASSUME NEW r \in Requests, ResetPin(r) \/ SoftDelete(r)
        PROVE  (KindInv /\ StandingInv)'
    <2>1. member'.kyc = member.kyc
      BY <1>7 DEF ResetPin, SoftDelete, TypeInv, Sound, Documents
    <2>2. QED
      BY <1>7, <2>1, StandingIdle DEF ResetPin, SoftDelete
  <1>8. ASSUME NEW r \in Requests, NEW kind \in Kinds, Submit(r, kind) \/ Review(r, kind)
        PROVE  (KindInv /\ StandingInv)'
    <2>1. CASE Submit(r, kind)
      BY <2>1, SubmissionWritten DEF Submit, Submitted
    <2>2. CASE Review(r, kind)
      <3>1. PICK verdict : /\ verdict \in {"approved", "rejected"}
                           /\ WriteSubmission(r, kind, verdict, Reviewed(kind, verdict))
        BY <2>2 DEF Review
      <3>2. /\ "kyc" \in DOMAIN Reviewed(kind, verdict)
            /\ Reviewed(kind, verdict).kyc = verdict
        BY DEF Reviewed
      <3>3. QED
        BY <3>1, <3>2, SubmissionWritten
    <2>3. QED
      BY <1>8, <2>1, <2>2
  <1>9. ASSUME NEW r \in Requests, Stop(r)
        PROVE  (KindInv /\ StandingInv)'
    <2>1. /\ Do(r, Free) /\ serving[r].step \in {"reading", "writing"}
          /\ crossed' = (crossed \/ serving[r].kind \in Kinds)
          /\ UNCHANGED <<submission, latest, member>>
      BY <1>9 DEF Stop
    <2>2. serving'[r] = Free /\ \A q \in Requests \ {r} : serving'[q] = serving[q]
      BY <2>1, OthersStay
    <2>3. CASE serving[r].kind \in Kinds
      BY <1>1, <2>1, <2>2, <2>3 DEF KindInv, KindOK, StandingInv
    <2>4. CASE serving[r].kind \notin Kinds
      BY <1>1, <2>1, <2>4, StandingSame DEF Carries
    <2>5. QED
      BY <2>3, <2>4
  <1>10. CASE Expire
    BY <1>10, StandingIdle DEF Expire
  <1>11. CASE UNCHANGED userVars
    BY <1>11, StandingIdle DEF userVars
  <1>12. QED
    BY <1>2, <1>3, <1>4, <1>5, <1>6, <1>7, <1>8, <1>9, <1>10, <1>11 DEF Next

\* Submissions have a status.
LEMMA SubmissionType ==
    ASSUME submission \in [Kinds -> KycStatuses], [Next]_userVars
    PROVE  submission' \in [Kinds -> KycStatuses]
  <1>1. ASSUME NEW r \in Requests, NEW kind \in Kinds, Submit(r, kind) \/ Review(r, kind)
        PROVE  submission' \in [Kinds -> KycStatuses]
    <2>1. PICK status \in KycStatuses : submission' = [submission EXCEPT ![kind] = status]
      <3>1. CASE Submit(r, kind)
        BY <3>1 DEF Submit, WriteSubmission, KycStatuses
      <3>2. CASE Review(r, kind)
        <4>1. PICK verdict \in {"approved", "rejected"} :
                 submission' = [submission EXCEPT ![kind] = verdict]
          BY <3>2, Zenon DEF Review, WriteSubmission
        <4>2. QED
          BY <4>1 DEF KycStatuses
      <3>3. QED
        BY <1>1, <3>1, <3>2
    <2>2. QED
      BY <2>1
  <1>2. QED
    BY <1>1 DEF Next, userVars, SignIn, AnswerRight, AnswerWrong, AnswerUnrecorded, UpdateUser,
                Read, Write, ResetPin, SoftDelete, Stop, Expire

\* Whatever sign-ins and updates come between the two writes of a submission or a
\* review, the user has in the end the status that was written last, unless two
\* of them crossed or one stopped half way (identity.ts lines 66-118, kyb.ts
\* lines 80-144).
THEOREM StandingFollows ==
    ASSUME MAX_ATTEMPTS \in Nat \ {0}
    PROVE  Spec => []StatusFollowsSubmission
  <1> DEFINE Inv == TypeInv /\ KindInv /\ StandingInv /\ submission \in [Kinds -> KycStatuses]
  <1>1. Init => Inv
    <2>1. Init => submission \in [Kinds -> KycStatuses]
      BY DEF Init, KycStatuses
    <2>2. QED
      BY <2>1, TypeInit, StandingInit
  <1>2. Inv /\ [Next]_userVars => Inv'
    BY TypeNext, StandingNext, SubmissionType
  <1>3. Inv => StatusFollowsSubmission
    BY DEF StandingInv, StatusFollowsSubmission
  <1>4. QED
    BY <1>1, <1>2, <1>3, PTL DEF Spec

CardTypeInv ==
    /\ balance \in Int
    /\ amount \in [Payments -> Nat]
    /\ payment \in [Payments -> {"new", "asked", "approved", "rejected",
                                 "refused", "burning", "burned"}]
    /\ seen \in [Payments -> Int]

\* Until coins are spent the balance covers what was read, and what was read
\* covers what was approved.
ApprovalInv ==
    \A p \in Payments :
       /\ p \in C!Outstanding \ spoiled => balance >= seen[p]
       /\ payment[p] \in {"approved", "burning", "refused"} => C!Covers(p)
       /\ payment[p] = "refused" => p \in spoiled

-----------------------------------------------------------------------------
\* Initially nothing was read.
LEMMA CardInit ==
    ASSUME C!Init
    PROVE  CardTypeInv /\ ApprovalInv
  <1>1. CardTypeInv
    <2>0. CardAmounts \subseteq Nat
      BY CardAssumption
    <2>1. amount \in [Payments -> Nat]
      <3>1. amount \in [Payments -> CardAmounts]
        BY DEF C!Init
      <3>2. QED
        BY <2>0, <3>1
    <2>2. QED
      BY <2>1, CardAssumption DEF C!Init, CardTypeInv
  <1>2. \A p \in Payments : payment[p] = "new"
    BY DEF C!Init
  <1>3. QED
    BY <1>1, <1>2 DEF ApprovalInv, C!Outstanding

\* A payment moves on, without coins being moved.
LEMMA PaymentMoves ==
    ASSUME CardTypeInv, ApprovalInv, UNCHANGED <<balance, amount, spoiled>>,
           NEW p \in Payments,
           NEW to \in {"asked", "approved", "rejected", "refused", "burning"},
           payment' = [payment EXCEPT ![p] = to],
           \/ to # "asked" /\ seen' = seen
           \/ to = "asked" /\ seen' = [seen EXCEPT ![p] = balance],
           to \in {"approved", "burning", "refused"} => p \in C!Outstanding /\ C!Covers(p),
           to = "refused" => p \in spoiled
    PROVE  (CardTypeInv /\ ApprovalInv)'
  <1>1. CardTypeInv'
    BY DEF CardTypeInv
  <1>2. ASSUME NEW q \in Payments
        PROVE  /\ (q \in C!Outstanding \ spoiled)' => balance' >= seen'[q]
               /\ payment'[q] \in {"approved", "burning", "refused"} => C!Covers(q)'
               /\ payment'[q] = "refused" => q \in spoiled'
    <2>1. CASE q = p
      <3>1. payment'[p] = to
        BY DEF CardTypeInv
      <3>2. CASE to # "asked" /\ seen' = seen
        <4>1. p \in (C!Outstanding \ spoiled)' => balance' >= seen'[p]
          <5>1. ASSUME p \in (C!Outstanding \ spoiled)'
                PROVE  p \in C!Outstanding \ spoiled
            BY <3>1, <3>2, <5>1 DEF C!Outstanding
          <5>2. QED
            BY <3>2, <5>1 DEF ApprovalInv
        <4>2. to \in {"approved", "burning", "refused"} => C!Covers(p)'
          BY <3>2 DEF C!Covers
        <4>3. QED
          BY <2>1, <3>1, <4>1, <4>2
      <3>3. CASE to = "asked" /\ seen' = [seen EXCEPT ![p] = balance]
        <4>1. seen'[p] = balance'
          BY <3>3 DEF CardTypeInv
        <4>2. QED
          BY <2>1, <3>1, <3>3, <4>1 DEF CardTypeInv
      <3>4. QED
        BY <3>2, <3>3
    <2>2. CASE q # p
      BY <2>2 DEF CardTypeInv, ApprovalInv, C!Outstanding, C!Covers
    <2>3. QED
      BY <2>1, <2>2
  <1>3. QED
    BY <1>1, <1>2 DEF ApprovalInv

\* Coins arrive.
LEMMA CoinsArrive ==
    ASSUME CardTypeInv, ApprovalInv, UNCHANGED <<amount, payment, seen, spoiled>>,
           NEW n \in Nat, balance' = balance + n
    PROVE  (CardTypeInv /\ ApprovalInv)'
  BY DEF CardTypeInv, ApprovalInv, C!Outstanding, C!Covers

\* Types and what approvals are worth are inductive together.
LEMMA CardNext ==
    ASSUME CardTypeInv, ApprovalInv, [C!Next]_C!cardPaymentVars
    PROVE  (CardTypeInv /\ ApprovalInv)'
  <1>1. ASSUME NEW p \in Payments, C!Reject(p)
        PROVE  (CardTypeInv /\ ApprovalInv)'
    BY <1>1, PaymentMoves DEF C!Reject
  <1>2. ASSUME NEW p \in Payments, C!Ask(p)
        PROVE  (CardTypeInv /\ ApprovalInv)'
    BY <1>2, PaymentMoves DEF C!Ask
  <1>3. ASSUME NEW p \in Payments, C!Answer(p)
        PROVE  (CardTypeInv /\ ApprovalInv)'
    <2>1. p \in C!Outstanding
      BY <1>3 DEF C!Answer, C!Outstanding
    <2>2. QED
      BY <1>3, <2>1, PaymentMoves DEF C!Answer
  \* The balance is below what was read, so coins were spent.
  <1>4. ASSUME NEW p \in Payments, p \in C!Outstanding, C!Covers(p), ~(balance >= amount[p])
        PROVE  p \in spoiled
    BY <1>4 DEF ApprovalInv, C!Covers, CardTypeInv
  <1>5. ASSUME NEW p \in Payments, C!Capture(p)
        PROVE  (CardTypeInv /\ ApprovalInv)'
    <2>1. p \in C!Outstanding /\ C!Covers(p)
      BY <1>5 DEF C!Capture, C!Outstanding, ApprovalInv
    <2>2. QED
      BY <1>4, <1>5, <2>1, PaymentMoves DEF C!Capture
  <1>6. ASSUME NEW p \in Payments, C!Burn(p)
        PROVE  (CardTypeInv /\ ApprovalInv)'
    <2>1. p \in C!Outstanding /\ C!Covers(p)
      BY <1>6 DEF C!Burn, C!Outstanding, ApprovalInv
    <2>2. CASE balance >= amount[p]
      <3>1. /\ balance' = balance - amount[p]
            /\ payment' = [payment EXCEPT ![p] = "burned"]
            /\ spoiled' = spoiled \cup (C!Outstanding \ {p})
            /\ UNCHANGED <<amount, seen>>
        BY <1>6, <2>2 DEF C!Burn, C!Spend
      <3>2. CardTypeInv'
        BY <3>1 DEF CardTypeInv
      <3>3. (C!Outstanding \ spoiled)' = {}
        BY <3>1 DEF C!Outstanding, CardTypeInv
      <3>4. QED
        BY <3>1, <3>2, <3>3 DEF ApprovalInv, C!Covers, CardTypeInv
    <2>3. CASE ~(balance >= amount[p])
      BY <1>4, <1>6, <2>1, <2>3, PaymentMoves DEF C!Burn
    <2>4. QED
      BY <2>2, <2>3
  <1>7. ASSUME NEW p \in Payments, C!GiveBack(p)
        PROVE  (CardTypeInv /\ ApprovalInv)'
    <2>1. amount[p] \in Nat
      BY DEF CardTypeInv
    <2>2. QED
      BY <1>7, <2>1, CoinsArrive DEF C!GiveBack
  <1>8. CASE C!TopUp
    <2>1. PICK n \in CardAmounts : balance' = balance + n
      BY <1>8 DEF C!TopUp
    <2>2. n \in Nat
      BY CardAssumption
    <2>3. QED
      BY <1>8, <2>1, <2>2, CoinsArrive DEF C!TopUp
  <1>9. CASE C!SpendElsewhere
    <2>1. /\ balance' \in Int
          /\ spoiled' = spoiled \cup C!Outstanding
          /\ UNCHANGED <<amount, payment, seen>>
      BY <1>9 DEF C!SpendElsewhere, C!Spend, CardTypeInv
    <2>2. (C!Outstanding \ spoiled)' = {}
      BY <2>1 DEF C!Outstanding
    <2>3. QED
      BY <2>1, <2>2 DEF ApprovalInv, C!Covers, CardTypeInv
  <1>10. CASE UNCHANGED C!cardPaymentVars
    BY <1>10 DEF C!cardPaymentVars, CardTypeInv, ApprovalInv, C!Outstanding, C!Covers
  <1>11. QED
    BY <1>1, <1>2, <1>3, <1>5, <1>6, <1>7, <1>8, <1>9, <1>10 DEF C!Next

\* A refused payment had its coins spent.
LEMMA RefusedSpent == C!Spec => []ApprovalInv
  <1>1. C!Init => CardTypeInv /\ ApprovalInv
    BY CardInit
  <1>2. CardTypeInv /\ ApprovalInv /\ [C!Next]_C!cardPaymentVars => (CardTypeInv /\ ApprovalInv)'
    BY CardNext
  <1>3. QED
    BY <1>1, <1>2, PTL DEF C!Spec

\* A payment that was approved and cannot be burned had its coins spent after
\* its balance was read, whatever the number of payments and the amounts
\* (authorize/route.ts lines 84-112, transactions/route.ts lines 80-94).
THEOREM RefusalsExplained == C!Spec => []RefusedWasSpent
  <1>1. ApprovalInv => RefusedWasSpent
    BY DEF ApprovalInv, RefusedWasSpent, C!RefusedWasSpent
  <1>2. QED
    BY <1>1, RefusedSpent, PTL

-----------------------------------------------------------------------------
(* The demonstration users.                                                *)

DemoDocument == [coins : Int, received : SUBSET DemoTransfers, by : {"owner", "system"}]
DemoCopy     == [coins : Int, received : SUBSET DemoTransfers]
DemoTransfer == [step : {"none"}]
                  \cup [step : {"saved", "done"}, from : DemoUsers, to : DemoUsers, amount : DemoAmounts]
                  \cup [step : {"read", "done"}, from : DemoUsers, to : DemoUsers, amount : DemoAmounts,
                        seen : DemoDocument]

DemoTypes ==
    /\ document \in [DemoUsers -> DemoDocument]
    /\ local \in [DemoUsers -> DemoCopy]
    /\ transfer \in [DemoTransfers -> DemoTransfer]
    /\ IsFiniteSet(D!UnderWay)

\* What is recorded as received has arrived, and, undisturbed, a copy that knows
\* all its document does has its coins.
DemoInv ==
    /\ \A u \in DemoUsers : \A t \in document[u].received \cup local[u].received : D!At(t, "done")
    /\ \A s \in DemoTransfers : D!At(s, "read") => \A t \in transfer[s].seen.received : D!At(t, "done")
    /\ ~disturbed => \A u \in DemoUsers : D!Unseen(u) = {} => local[u].coins = document[u].coins

\* The coins in the documents and those under way.
CoinsHeld  == SumFunctionOnSet([u \in DemoUsers |-> document[u].coins], DemoUsers)
CoinsMoved == SumFunctionOnSet([t \in D!UnderWay |-> transfer[t].amount], D!UnderWay)

\* Both together are the coins there were at the beginning.
CoinsKept ==
    ~disturbed =>
        CoinsHeld + CoinsMoved = SumFunctionOnSet([u \in DemoUsers |-> DemoOpening], DemoUsers)

\* Amounts are numbers.
LEMMA DemoAmountsAreInt == \A n \in DemoAmounts : n \in Int
  BY DemoAssumption

\* A transfer that has begun says who, to whom and how much.
LEMMA DemoTransferTyped ==
    ASSUME DemoTypes, NEW t \in DemoTransfers, transfer[t].step # "none"
    PROVE  /\ transfer[t].from \in DemoUsers /\ transfer[t].to \in DemoUsers
           /\ transfer[t].amount \in DemoAmounts /\ transfer[t].amount \in Int
           /\ transfer[t].step \in {"saved", "read", "done"}
           /\ transfer[t].step = "read" => transfer[t].seen \in DemoDocument
  <1>1. transfer[t] \in DemoTransfer
    BY DEF DemoTypes
  <1>2. /\ transfer[t].from \in DemoUsers /\ transfer[t].to \in DemoUsers
        /\ transfer[t].amount \in DemoAmounts
        /\ \/ transfer[t].step \in {"saved", "done"}
           \/ transfer[t].step \in {"read", "done"} /\ transfer[t].seen \in DemoDocument
    BY <1>1 DEF DemoTransfer
  <1>3. transfer[t].amount \in Int
    BY <1>2, DemoAmountsAreInt, Zenon
  <1>4. QED
    BY <1>2, <1>3

\* A document rewritten changes the coins held by the difference.
LEMMA HeldChanges ==
    ASSUME DemoTypes, NEW u \in DemoUsers, NEW d \in DemoDocument,
           document' = [document EXCEPT ![u] = d]
    PROVE  CoinsHeld' = CoinsHeld - document[u].coins + d.coins
  <1> DEFINE before == [x \in DemoUsers |-> document[x].coins]
             after  == [x \in DemoUsers |-> document'[x].coins]
  <1>1. \A x \in DemoUsers : document[x].coins \in Int /\ before[x] = document[x].coins
    BY DEF DemoTypes, DemoDocument
  <1>2. \A x \in DemoUsers \ {u} : after[x] = before[x]
    BY DEF DemoTypes
  <1>3. after[u] = d.coins /\ d.coins \in Int
    BY DEF DemoTypes, DemoDocument
  <1>4. CoinsHeld = SumFunctionOnSet(before, DemoUsers) /\ CoinsHeld' = SumFunctionOnSet(after, DemoUsers)
    BY DEF CoinsHeld
  <1> HIDE DEF before, after
  <1>5. SumFunctionOnSet(after, DemoUsers) = SumFunctionOnSet(before, DemoUsers) - before[u] + after[u]
    <2>1. IsFiniteSet(DemoUsers) /\ \A x \in DemoUsers : before[x] \in Int
      BY <1>1, DemoAssumption
    <2>2. QED
      BY <1>2, <1>3, <2>1, SumUpdate
  <1>6. QED
    BY <1>1, <1>3, <1>4, <1>5

\* Documents that stay hold what they held.
LEMMA HeldStays ==
    ASSUME UNCHANGED document
    PROVE  CoinsHeld' = CoinsHeld
  BY DEF CoinsHeld

\* Transfers that are the same ones under way move what they moved.
LEMMA MovedStays ==
    ASSUME D!UnderWay' = D!UnderWay, \A t \in D!UnderWay : transfer'[t].amount = transfer[t].amount
    PROVE  CoinsMoved' = CoinsMoved
  <1>1. PICK z : z = D!UnderWay
    OBVIOUS
  <1>2. [t \in z |-> transfer'[t].amount] = [t \in z |-> transfer[t].amount]
    BY <1>1
  <1>3. QED
    BY <1>1, <1>2 DEF CoinsMoved

\* A transfer that begins adds its amount to what is under way.
LEMMA MovedGrows ==
    ASSUME DemoTypes, NEW t \in DemoTransfers, t \notin D!UnderWay, D!UnderWay' = D!UnderWay \cup {t},
           \A s \in D!UnderWay : transfer'[s].amount = transfer[s].amount,
           transfer'[t].amount \in Int
    PROVE  CoinsMoved' = CoinsMoved + transfer'[t].amount
  <1>1. PICK z, g : z = D!UnderWay \cup {t} /\ g = [s \in z |-> transfer'[s].amount]
    OBVIOUS
  <1> DEFINE before == [s \in D!UnderWay |-> transfer[s].amount]
  <1>2. CoinsMoved' = SumFunctionOnSet(g, z) /\ CoinsMoved = SumFunctionOnSet(before, D!UnderWay)
    BY <1>1 DEF CoinsMoved
  <1>3. \A s \in D!UnderWay : before[s] \in Int /\ g[s] = before[s]
    BY <1>1, DemoTransferTyped DEF D!UnderWay
  <1>4. g[t] = transfer'[t].amount /\ g[t] \in Int
    BY <1>1
  <1>5. IsFiniteSet(D!UnderWay) /\ t \notin D!UnderWay
    BY DEF DemoTypes
  <1> HIDE DEF before
  <1>6. SumFunctionOnSet(g, D!UnderWay \cup {t}) = SumFunctionOnSet(before, D!UnderWay) + g[t]
    <2>1. IsFiniteSet(D!UnderWay) /\ \A s \in D!UnderWay : before[s] \in Int
      BY <1>3, <1>5
    <2>2. t \notin D!UnderWay /\ g[t] \in Int /\ \A s \in D!UnderWay : g[s] = before[s]
      BY <1>3, <1>4, <1>5
    <2>3. SumFunctionOnSet(g, D!UnderWay \cup {t}) = SumFunctionOnSet(g, D!UnderWay) + g[t]
      <3>1. \A s \in D!UnderWay : g[s] \in Int
        BY <2>1, <2>2
      <3>2. QED
        BY <2>1, <2>2, <3>1, SumAdd
    <2>4. SumFunctionOnSet(g, D!UnderWay) = SumFunctionOnSet(before, D!UnderWay)
      BY <2>1, <2>2, SumSame
    <2>5. QED
      BY <2>3, <2>4
  <1>7. QED
    BY <1>1, <1>2, <1>4, <1>6

\* A transfer that ends takes its amount out of what is under way.
LEMMA MovedShrinks ==
    ASSUME DemoTypes, NEW t \in D!UnderWay, D!UnderWay' = D!UnderWay \ {t},
           \A s \in D!UnderWay \ {t} : transfer'[s].amount = transfer[s].amount
    PROVE  CoinsMoved' = CoinsMoved - transfer[t].amount
  <1>1. PICK z, g : z = D!UnderWay \ {t} /\ g = [s \in z |-> transfer'[s].amount]
    OBVIOUS
  <1> DEFINE before == [s \in D!UnderWay |-> transfer[s].amount]
  <1>2. CoinsMoved' = SumFunctionOnSet(g, z) /\ CoinsMoved = SumFunctionOnSet(before, D!UnderWay)
    BY <1>1 DEF CoinsMoved
  <1>3. \A s \in D!UnderWay : before[s] \in Int
    BY DemoTransferTyped DEF D!UnderWay
  <1>4. before[t] = transfer[t].amount /\ \A s \in z : g[s] = before[s]
    BY <1>1
  <1>5. IsFiniteSet(D!UnderWay) /\ IsFiniteSet(z)
    BY <1>1, FS_Subset DEF DemoTypes
  <1> HIDE DEF before
  <1>6. SumFunctionOnSet(before, D!UnderWay) = before[t] + SumFunctionOnSet(before, D!UnderWay \ {t})
    BY <1>3, <1>5, SumRemove
  <1>7. \A s \in z : before[s] \in Int
    BY <1>1, <1>3
  <1>8. SumFunctionOnSet(g, z) = SumFunctionOnSet(before, z)
    BY <1>4, <1>5, <1>7, SumSame
  <1>9. SumFunctionOnSet(before, z) \in Int
    BY <1>5, <1>7, SumInt
  <1>10. before[t] \in Int
    BY <1>3
  <1>11. QED
    BY <1>1, <1>2, <1>4, <1>6, <1>8, <1>9, <1>10

\* The coins are a number.
LEMMA CoinsAreInt ==
    ASSUME DemoTypes
    PROVE  CoinsHeld \in Int /\ CoinsMoved \in Int
  <1>1. \A x \in DemoUsers : [u \in DemoUsers |-> document[u].coins][x] \in Int
    BY DEF DemoTypes, DemoDocument
  <1>2. CoinsHeld \in Int
    BY <1>1, SumInt, DemoAssumption DEF CoinsHeld
  <1>3. \A x \in D!UnderWay : [t \in D!UnderWay |-> transfer[t].amount][x] \in Int
    BY DemoTransferTyped DEF D!UnderWay
  <1>4. CoinsMoved \in Int
    BY <1>3, SumInt DEF CoinsMoved, DemoTypes
  <1>5. QED
    BY <1>2, <1>4

-----------------------------------------------------------------------------
\* Sending: the sender's document loses what is under way from now on.
LEMMA DemoSend ==
    ASSUME DemoTypes, DemoInv, CoinsKept,
           NEW t \in DemoTransfers, NEW u \in DemoUsers, NEW v \in DemoUsers, NEW n \in DemoAmounts,
           D!Send(t, u, v, n)
    PROVE  DemoTypes' /\ DemoInv' /\ CoinsKept'
  <1>0. /\ document \in [DemoUsers -> DemoDocument] /\ local \in [DemoUsers -> DemoCopy]
        /\ transfer \in [DemoTransfers -> DemoTransfer] /\ IsFiniteSet(D!UnderWay) /\ n \in Int
    BY DemoAssumption DEF DemoTypes
  <1>1. PICK copy : copy = [local[u] EXCEPT !.coins = D!Positive(@ - n)]
    OBVIOUS
  <1>2. /\ transfer[t].step = "none"
        /\ local' = [local EXCEPT ![u] = copy]
        /\ document' = [document EXCEPT ![u] = D!Saved(copy)]
        /\ transfer' = [transfer EXCEPT ![t] = [step |-> "saved", from |-> u, to |-> v, amount |-> n]]
        /\ disturbed' = (disturbed \/ n > local[u].coins \/ D!Unseen(u) # {})
    BY <1>1 DEF D!Send, D!At, D!Flush
  <1>3. /\ copy \in DemoCopy /\ copy.received = local[u].received
        /\ local[u].coins \in Int
        /\ n <= local[u].coins => copy.coins = local[u].coins - n
    <2>1. local[u] \in DemoCopy
      BY <1>0
    <2>2. local[u].coins \in Int /\ D!Positive(local[u].coins - n) \in Int
          /\ (n <= local[u].coins => D!Positive(local[u].coins - n) = local[u].coins - n)
      BY <1>0, <2>1 DEF DemoCopy, D!Positive
    <2>3. copy = [local[u] EXCEPT !.coins = D!Positive(local[u].coins - n)]
      BY <1>1
    <2>4. QED
      BY <2>1, <2>2, <2>3 DEF DemoCopy
  <1>4. D!Saved(copy) \in DemoDocument /\ D!Saved(copy).coins = copy.coins
        /\ D!Saved(copy).received = copy.received
    BY <1>3 DEF D!Saved, DemoDocument, DemoCopy
  <1>5. D!UnderWay' = D!UnderWay \cup {t} /\ t \notin D!UnderWay
    BY <1>0, <1>2 DEF D!UnderWay
  <1>6. [step |-> "saved", from |-> u, to |-> v, amount |-> n] \in DemoTransfer
    BY DEF DemoTransfer
  <1>7. DemoTypes'
    <2>1. document' \in [DemoUsers -> DemoDocument] /\ local' \in [DemoUsers -> DemoCopy]
      BY <1>0, <1>2, <1>3, <1>4
    <2>2. transfer' \in [DemoTransfers -> DemoTransfer]
      BY <1>0, <1>2, <1>6
    <2>3. IsFiniteSet(D!UnderWay')
      BY <1>0, <1>5, FS_AddElement
    <2>4. QED
      BY <2>1, <2>2, <2>3 DEF DemoTypes
  <1>8. DemoInv'
    <2>1. \A s \in DemoTransfers : D!At(s, "done")' <=> D!At(s, "done")
      BY <1>0, <1>2 DEF D!At
    <2>2. ASSUME NEW x \in DemoUsers, NEW s \in document'[x].received \cup local'[x].received
          PROVE  D!At(s, "done")'
      <3>1. s \in document[x].received \cup local[x].received
        BY <1>0, <1>2, <1>3, <1>4, <2>2
      <3>2. s \in DemoTransfers
        BY <1>0, <3>1 DEF DemoDocument, DemoCopy
      <3>3. QED
        BY <2>1, <3>1, <3>2 DEF DemoInv
    <2>3. ASSUME NEW s \in DemoTransfers, D!At(s, "read")', NEW q \in transfer'[s].seen.received
          PROVE  D!At(q, "done")'
      <3>1. s # t /\ transfer'[s] = transfer[s] /\ transfer[s].step = "read"
        BY <1>0, <1>2, <2>3 DEF D!At
      <3>2. q \in DemoTransfers
        BY <2>3, <3>1, DemoTransferTyped DEF DemoDocument
      <3>3. QED
        BY <2>1, <2>3, <3>1, <3>2 DEF DemoInv, D!At
    <2>4. ASSUME ~disturbed', NEW x \in DemoUsers, D!Unseen(x)' = {}
          PROVE  local'[x].coins = document'[x].coins
      BY <1>0, <1>2, <1>4, <2>4 DEF DemoInv, D!Unseen
    <2>5. QED
      BY <2>2, <2>3, <2>4 DEF DemoInv
  <1>9. ASSUME ~disturbed'
        PROVE  CoinsHeld' + CoinsMoved' = CoinsHeld + CoinsMoved
    <2>1. ~disturbed /\ n <= local[u].coins /\ D!Unseen(u) = {}
      <3>1. ~disturbed /\ ~(n > local[u].coins) /\ D!Unseen(u) = {}
        BY <1>2, <1>9, Zenon
      <3>2. QED
        BY <1>0, <1>3, <3>1
    <2>2. document[u].coins = local[u].coins
      BY <2>1 DEF DemoInv
    <2>3. CoinsHeld' = CoinsHeld - document[u].coins + copy.coins
      BY <1>2, <1>4, HeldChanges
    <2>4. CoinsMoved' = CoinsMoved + n
      <3>1. transfer'[t].amount = n /\ \A s \in D!UnderWay : transfer'[s].amount = transfer[s].amount
        BY <1>0, <1>2, <1>5 DEF D!UnderWay
      <3>2. QED
        BY <1>0, <1>5, <3>1, MovedGrows
    <2>5. QED
      BY <1>0, <1>3, <2>1, <2>2, <2>3, <2>4, CoinsAreInt
  <1>10. CoinsKept'
    BY <1>2, <1>9 DEF CoinsKept
  <1>11. QED
    BY <1>7, <1>8, <1>10

\* A transfer that is marked done.
LEMMA DemoDone ==
    ASSUME DemoTypes, NEW t \in DemoTransfers, transfer[t].step \in {"saved", "read"},
           transfer' = [transfer EXCEPT ![t].step = "done"]
    PROVE  /\ transfer' \in [DemoTransfers -> DemoTransfer]
           /\ D!UnderWay' = D!UnderWay \ {t} /\ t \in D!UnderWay /\ IsFiniteSet(D!UnderWay')
           /\ D!At(t, "done")' /\ \A s \in DemoTransfers \ {t} : transfer'[s] = transfer[s]
           /\ \A s \in D!UnderWay \ {t} : transfer'[s].amount = transfer[s].amount
  <1>1. transfer \in [DemoTransfers -> DemoTransfer] /\ IsFiniteSet(D!UnderWay)
    BY DEF DemoTypes
  <1>2. PICK next : next = [transfer[t] EXCEPT !.step = "done"]
    OBVIOUS
  <1>3. next \in DemoTransfer /\ next.step = "done"
    <2>1. transfer[t] \in DemoTransfer
      BY <1>1
    <2>2. QED
      BY <1>2, <2>1 DEF DemoTransfer
  <1>4. transfer' = [transfer EXCEPT ![t] = next]
    BY <1>1, <1>2
  <1>5. transfer' \in [DemoTransfers -> DemoTransfer] /\ transfer'[t] = next
        /\ \A s \in DemoTransfers \ {t} : transfer'[s] = transfer[s]
    BY <1>1, <1>3, <1>4
  <1>6. D!UnderWay' = D!UnderWay \ {t} /\ t \in D!UnderWay
    BY <1>3, <1>5 DEF D!UnderWay
  <1>7. IsFiniteSet(D!UnderWay \ {t})
    BY <1>1, FS_RemoveElement
  <1>8. QED
    BY <1>3, <1>5, <1>6, <1>7 DEF D!At, D!UnderWay

\* A failing save leaves the sender with more than the copy has.
LEMMA DemoSendUnsaved ==
    ASSUME DemoTypes, DemoInv,
           NEW t \in DemoTransfers, NEW u \in DemoUsers, NEW v \in DemoUsers, NEW n \in DemoAmounts,
           D!SendUnsaved(t, u, v, n)
    PROVE  DemoTypes' /\ DemoInv' /\ CoinsKept'
  <1>0. /\ document \in [DemoUsers -> DemoDocument] /\ local \in [DemoUsers -> DemoCopy]
        /\ transfer \in [DemoTransfers -> DemoTransfer] /\ IsFiniteSet(D!UnderWay) /\ n \in Int
    BY DemoAssumption DEF DemoTypes
  <1>1. PICK copy : copy = [local[u] EXCEPT !.coins = D!Positive(@ - n)]
    OBVIOUS
  <1>2. /\ transfer[t].step = "none" /\ document' = document /\ disturbed'
        /\ transfer' = [transfer EXCEPT ![t] = [step |-> "saved", from |-> u, to |-> v, amount |-> n]]
    BY DEF D!SendUnsaved, D!At
  <1>3. local' = [local EXCEPT ![u] = copy]
    BY <1>0, <1>1 DEF D!SendUnsaved
  <1>4. copy \in DemoCopy /\ copy.received = local[u].received
    <2>1. local[u] \in DemoCopy
      BY <1>0
    <2>2. D!Positive(local[u].coins - n) \in Int
      BY <1>0, <2>1 DEF DemoCopy, D!Positive
    <2>3. copy = [local[u] EXCEPT !.coins = D!Positive(local[u].coins - n)]
      BY <1>1
    <2>4. QED
      BY <2>1, <2>2, <2>3 DEF DemoCopy
  <1>5. D!UnderWay' = D!UnderWay \cup {t}
    BY <1>0, <1>2 DEF D!UnderWay
  <1>6. [step |-> "saved", from |-> u, to |-> v, amount |-> n] \in DemoTransfer
    BY DEF DemoTransfer
  <1>7. DemoTypes'
    <2>1. document' \in [DemoUsers -> DemoDocument] /\ local' \in [DemoUsers -> DemoCopy]
      BY <1>0, <1>2, <1>3, <1>4
    <2>2. transfer' \in [DemoTransfers -> DemoTransfer]
      BY <1>0, <1>2, <1>6
    <2>3. IsFiniteSet(D!UnderWay')
      BY <1>0, <1>5, FS_AddElement
    <2>4. QED
      BY <2>1, <2>2, <2>3 DEF DemoTypes
  <1>8. \A s \in DemoTransfers : D!At(s, "done")' <=> D!At(s, "done")
    BY <1>0, <1>2 DEF D!At
  <1>9. ASSUME NEW x \in DemoUsers, NEW s \in document'[x].received \cup local'[x].received
        PROVE  D!At(s, "done")'
    <2>1. s \in document[x].received \cup local[x].received
      BY <1>0, <1>2, <1>3, <1>4, <1>9
    <2>2. s \in DemoTransfers
      BY <1>0, <2>1 DEF DemoDocument, DemoCopy
    <2>3. QED
      BY <1>8, <2>1, <2>2 DEF DemoInv
  <1>10. ASSUME NEW s \in DemoTransfers, D!At(s, "read")', NEW q \in transfer'[s].seen.received
         PROVE  D!At(q, "done")'
    <2>1. s # t /\ transfer'[s] = transfer[s] /\ transfer[s].step = "read"
      BY <1>0, <1>2, <1>10 DEF D!At
    <2>2. q \in DemoTransfers
      BY <1>10, <2>1, DemoTransferTyped DEF DemoDocument
    <2>3. QED
      BY <1>8, <1>10, <2>1, <2>2 DEF DemoInv, D!At
  <1>11. QED
    BY <1>2, <1>7, <1>9, <1>10 DEF DemoInv, CoinsKept

\* Reading the recipient's document moves nothing.
LEMMA DemoRead ==
    ASSUME DemoTypes, DemoInv, CoinsKept, NEW t \in DemoTransfers, D!ReadRecipient(t)
    PROVE  DemoTypes' /\ DemoInv' /\ CoinsKept'
  <1>0. /\ document \in [DemoUsers -> DemoDocument] /\ local \in [DemoUsers -> DemoCopy]
        /\ transfer \in [DemoTransfers -> DemoTransfer] /\ IsFiniteSet(D!UnderWay)
    BY DEF DemoTypes
  <1>1. transfer[t].step = "saved" /\ UNCHANGED <<document, local, disturbed>>
    BY DEF D!ReadRecipient, D!At
  <1>2. PICK next : next = [step |-> "read", from |-> transfer[t].from, to |-> transfer[t].to,
                            amount |-> transfer[t].amount, seen |-> document[transfer[t].to]]
    OBVIOUS
  <1>3. transfer' = [transfer EXCEPT ![t] = next]
    BY <1>0, <1>2 DEF D!ReadRecipient
  <1>4. transfer[t].from \in DemoUsers /\ transfer[t].to \in DemoUsers /\ transfer[t].amount \in DemoAmounts
    BY <1>1, DemoTransferTyped
  <1>5. document[transfer[t].to] \in DemoDocument
    BY <1>0, <1>4
  <1>6. next \in DemoTransfer /\ next.step = "read" /\ next.amount = transfer[t].amount
        /\ next.seen = document[transfer[t].to]
    BY <1>2, <1>4, <1>5 DEF DemoTransfer
  <1>7. transfer' \in [DemoTransfers -> DemoTransfer] /\ transfer'[t] = next
        /\ \A s \in DemoTransfers \ {t} : transfer'[s] = transfer[s]
    BY <1>0, <1>3, <1>6
  <1>8. D!UnderWay' = D!UnderWay /\ \A s \in D!UnderWay : transfer'[s].amount = transfer[s].amount
    BY <1>1, <1>6, <1>7 DEF D!UnderWay
  <1>9. DemoTypes'
    BY <1>0, <1>1, <1>7, <1>8 DEF DemoTypes
  <1>10. \A s \in DemoTransfers : D!At(s, "done")' <=> D!At(s, "done")
    BY <1>1, <1>6, <1>7 DEF D!At
  <1>11. ASSUME NEW x \in DemoUsers, NEW s \in document'[x].received \cup local'[x].received
         PROVE  D!At(s, "done")'
    <2>1. s \in document[x].received \cup local[x].received
      BY <1>1, <1>11
    <2>2. s \in DemoTransfers
      BY <1>0, <2>1 DEF DemoDocument, DemoCopy
    <2>3. QED
      BY <1>10, <2>1, <2>2 DEF DemoInv
  <1>12. ASSUME NEW s \in DemoTransfers, D!At(s, "read")', NEW q \in transfer'[s].seen.received
         PROVE  D!At(q, "done")'
    <2>1. CASE s = t
      <3>1. q \in document[transfer[t].to].received
        BY <1>6, <1>7, <1>12, <2>1
      <3>2. q \in DemoTransfers
        BY <1>5, <3>1 DEF DemoDocument
      <3>3. QED
        BY <1>4, <1>10, <3>1, <3>2 DEF DemoInv
    <2>2. CASE s # t
      <3>1. transfer'[s] = transfer[s] /\ transfer[s].step = "read"
        BY <1>7, <1>12, <2>2 DEF D!At
      <3>2. q \in DemoTransfers
        BY <1>12, <3>1, DemoTransferTyped DEF DemoDocument
      <3>3. QED
        BY <1>10, <1>12, <3>1, <3>2 DEF DemoInv, D!At
    <2>3. QED
      BY <2>1, <2>2
  <1>13. DemoInv'
    <2>1. \A x \in DemoUsers : D!Unseen(x)' = D!Unseen(x)
      BY <1>1 DEF D!Unseen
    <2>2. ~disturbed' => \A x \in DemoUsers : D!Unseen(x)' = {} => local'[x].coins = document'[x].coins
      BY <1>1, <2>1 DEF DemoInv
    <2>3. QED
      BY <1>11, <1>12, <2>2 DEF DemoInv
  <1>14. CoinsHeld' = CoinsHeld /\ CoinsMoved' = CoinsMoved
    BY <1>1, <1>8, HeldStays, MovedStays
  <1>15. CoinsKept'
    BY <1>1, <1>14 DEF CoinsKept
  <1>16. QED
    BY <1>9, <1>13, <1>15

\* Crediting: what was under way is the recipient's, who does not know of it yet.
LEMMA DemoCredit ==
    ASSUME DemoTypes, DemoInv, CoinsKept, NEW t \in DemoTransfers, D!Credit(t)
    PROVE  DemoTypes' /\ DemoInv' /\ CoinsKept'
  <1>0. /\ document \in [DemoUsers -> DemoDocument] /\ local \in [DemoUsers -> DemoCopy]
        /\ transfer \in [DemoTransfers -> DemoTransfer] /\ IsFiniteSet(D!UnderWay)
    BY DEF DemoTypes
  <1>1. transfer[t].step = "read" /\ local' = local
        /\ transfer' = [transfer EXCEPT ![t].step = "done"]
    BY DEF D!Credit, D!At
  <1>2. PICK v, was, d : /\ v = transfer[t].to /\ was = transfer[t].seen
                          /\ d = [coins |-> was.coins + transfer[t].amount,
                                  received |-> was.received \cup {t}, by |-> "system"]
    OBVIOUS
  <1>3. document' = [document EXCEPT ![v] = d] /\ disturbed' = (disturbed \/ document[v] # was)
    BY <1>2 DEF D!Credit
  <1>4. v \in DemoUsers /\ was \in DemoDocument /\ transfer[t].amount \in Int
    BY <1>1, <1>2, DemoTransferTyped
  <1>5. d \in DemoDocument /\ d.coins = was.coins + transfer[t].amount /\ d.received = was.received \cup {t}
    BY <1>2, <1>4 DEF DemoDocument
  <1>6. /\ transfer' \in [DemoTransfers -> DemoTransfer]
        /\ D!UnderWay' = D!UnderWay \ {t} /\ t \in D!UnderWay /\ IsFiniteSet(D!UnderWay')
        /\ D!At(t, "done")' /\ \A s \in DemoTransfers \ {t} : transfer'[s] = transfer[s]
        /\ \A s \in D!UnderWay \ {t} : transfer'[s].amount = transfer[s].amount
    BY <1>1, DemoDone
  <1>7. document' \in [DemoUsers -> DemoDocument]
    BY <1>0, <1>3, <1>5
  <1>8. DemoTypes'
    BY <1>0, <1>1, <1>6, <1>7 DEF DemoTypes
  <1>9. \A s \in DemoTransfers : D!At(s, "done") => D!At(s, "done")'
    BY <1>6 DEF D!At
  <1>10. \A s \in was.received : s \in DemoTransfers /\ D!At(s, "done")'
    <2>1. \A s \in was.received : D!At(s, "done")
      BY <1>1, <1>2 DEF DemoInv, D!At
    <2>2. QED
      BY <1>4, <1>9, <2>1 DEF DemoDocument
  <1>11. ASSUME NEW x \in DemoUsers, NEW s \in document'[x].received \cup local'[x].received
         PROVE  D!At(s, "done")'
    <2>1. CASE s \in document[x].received \cup local[x].received
      <3>1. s \in DemoTransfers
        BY <1>0, <2>1 DEF DemoDocument, DemoCopy
      <3>2. QED
        BY <1>9, <2>1, <3>1 DEF DemoInv
    <2>2. CASE s \notin document[x].received \cup local[x].received
      <3>1. x = v /\ s \in d.received
        BY <1>0, <1>1, <1>3, <1>11, <2>2
      <3>2. QED
        BY <1>5, <1>6, <1>10, <3>1
    <2>3. QED
      BY <2>1, <2>2
  <1>12. ASSUME NEW s \in DemoTransfers, D!At(s, "read")', NEW q \in transfer'[s].seen.received
         PROVE  D!At(q, "done")'
    <2>1. s # t /\ transfer'[s] = transfer[s] /\ transfer[s].step = "read"
      BY <1>6, <1>12 DEF D!At
    <2>2. q \in DemoTransfers
      BY <1>12, <2>1, DemoTransferTyped DEF DemoDocument
    <2>3. QED
      BY <1>9, <1>12, <2>1, <2>2 DEF DemoInv, D!At
  <1>13. ASSUME ~disturbed', NEW x \in DemoUsers, D!Unseen(x)' = {}
         PROVE  local'[x].coins = document'[x].coins
    <2>1. t \notin local[v].received
      BY <1>1, <1>4 DEF DemoInv, D!At
    <2>2. x # v
      BY <1>0, <1>1, <1>3, <1>4, <1>5, <1>13, <2>1 DEF D!Unseen
    <2>3. document'[x] = document[x] /\ D!Unseen(x) = {}
      BY <1>0, <1>1, <1>3, <1>13, <2>2 DEF D!Unseen
    <2>4. ~disturbed
      BY <1>3, <1>13, Zenon
    <2>5. QED
      BY <1>1, <2>3, <2>4 DEF DemoInv
  <1>14. ASSUME ~disturbed'
         PROVE  CoinsHeld' + CoinsMoved' = CoinsHeld + CoinsMoved
    <2>1. document[v] = was
      BY <1>3, <1>14, Zenon
    <2>2. CoinsHeld' = CoinsHeld - document[v].coins + d.coins
      BY <1>3, <1>4, <1>5, HeldChanges
    <2>3. CoinsMoved' = CoinsMoved - transfer[t].amount
      BY <1>6, MovedShrinks
    <2>4. was.coins \in Int
      BY <1>4 DEF DemoDocument
    <2>5. QED
      BY <1>4, <1>5, <2>1, <2>2, <2>3, <2>4, CoinsAreInt
  <1>15. CoinsKept'
    <2>1. ~disturbed' => ~disturbed
      BY <1>3, Zenon
    <2>2. QED
      BY <1>14, <2>1 DEF CoinsKept
  <1>16. QED
    BY <1>8, <1>11, <1>12, <1>13, <1>15 DEF DemoInv

\* A credit that fails ends the transfer.
LEMMA DemoCreditFails ==
    ASSUME DemoTypes, DemoInv, NEW t \in DemoTransfers, D!CreditFails(t)
    PROVE  DemoTypes' /\ DemoInv' /\ CoinsKept'
  <1>0. /\ document \in [DemoUsers -> DemoDocument] /\ local \in [DemoUsers -> DemoCopy]
    BY DEF DemoTypes
  <1>1. transfer[t].step \in {"saved", "read"} /\ UNCHANGED <<document, local>> /\ disturbed'
        /\ transfer' = [transfer EXCEPT ![t].step = "done"]
    BY DEF D!CreditFails
  <1>2. /\ transfer' \in [DemoTransfers -> DemoTransfer] /\ IsFiniteSet(D!UnderWay')
        /\ D!At(t, "done")' /\ \A s \in DemoTransfers \ {t} : transfer'[s] = transfer[s]
    BY <1>1, DemoDone
  <1>3. \A s \in DemoTransfers : D!At(s, "done") => D!At(s, "done")'
    BY <1>2 DEF D!At
  <1>4. ASSUME NEW x \in DemoUsers, NEW s \in document'[x].received \cup local'[x].received
        PROVE  D!At(s, "done")'
    <2>1. s \in document[x].received \cup local[x].received
      BY <1>1, <1>4
    <2>2. s \in DemoTransfers
      BY <1>0, <2>1 DEF DemoDocument, DemoCopy
    <2>3. QED
      BY <1>3, <2>1, <2>2 DEF DemoInv
  <1>5. ASSUME NEW s \in DemoTransfers, D!At(s, "read")', NEW q \in transfer'[s].seen.received
        PROVE  D!At(q, "done")'
    <2>1. s # t /\ transfer'[s] = transfer[s] /\ transfer[s].step = "read"
      BY <1>2, <1>5 DEF D!At
    <2>2. q \in DemoTransfers
      BY <1>5, <2>1, DemoTransferTyped DEF DemoDocument
    <2>3. QED
      BY <1>3, <1>5, <2>1, <2>2 DEF DemoInv, D!At
  <1>6. DemoTypes'
    BY <1>0, <1>1, <1>2 DEF DemoTypes
  <1>7. QED
    BY <1>1, <1>4, <1>5, <1>6 DEF DemoInv, CoinsKept

\* Saving: undisturbed, the document already has the copy's coins.
LEMMA DemoSave ==
    ASSUME DemoTypes, DemoInv, CoinsKept, NEW u \in DemoUsers, D!SaveScheduled(u)
    PROVE  DemoTypes' /\ DemoInv' /\ CoinsKept'
  <1>0. /\ document \in [DemoUsers -> DemoDocument] /\ local \in [DemoUsers -> DemoCopy]
        /\ transfer \in [DemoTransfers -> DemoTransfer] /\ IsFiniteSet(D!UnderWay)
    BY DEF DemoTypes
  <1>1. PICK d : d = D!Saved(local[u])
    OBVIOUS
  <1>2. document' = [document EXCEPT ![u] = d] /\ UNCHANGED <<local, transfer>>
        /\ disturbed' = (disturbed \/ D!Unseen(u) # {})
    BY <1>1 DEF D!SaveScheduled
  <1>3. d \in DemoDocument /\ d.coins = local[u].coins /\ d.received = local[u].received
    <2>1. local[u] \in DemoCopy
      BY <1>0
    <2>2. QED
      BY <1>1, <2>1 DEF D!Saved, DemoDocument, DemoCopy
  <1>4. D!UnderWay' = D!UnderWay /\ \A s \in D!UnderWay : transfer'[s].amount = transfer[s].amount
    BY <1>2 DEF D!UnderWay
  <1>5. DemoTypes'
    <2>1. document' \in [DemoUsers -> DemoDocument]
      BY <1>0, <1>2, <1>3
    <2>2. QED
      BY <1>0, <1>2, <1>4, <2>1 DEF DemoTypes
  <1>6. \A s : D!At(s, "done")' <=> D!At(s, "done")
    BY <1>2 DEF D!At
  <1>7. ASSUME NEW x \in DemoUsers, NEW s \in document'[x].received \cup local'[x].received
        PROVE  D!At(s, "done")'
    <2>1. s \in document[x].received \cup local[x].received
      BY <1>0, <1>2, <1>3, <1>7
    <2>2. QED
      BY <1>6, <2>1 DEF DemoInv
  <1>8. \A s \in DemoTransfers : D!At(s, "read")' => \A q \in transfer'[s].seen.received : D!At(q, "done")'
    BY <1>2, <1>6 DEF DemoInv, D!At
  <1>9. ~disturbed' => ~disturbed /\ D!Unseen(u) = {}
    BY <1>2, Zenon
  <1>10. ASSUME ~disturbed', NEW x \in DemoUsers, D!Unseen(x)' = {}
         PROVE  local'[x].coins = document'[x].coins
    BY <1>0, <1>2, <1>3, <1>9, <1>10 DEF DemoInv, D!Unseen
  <1>11. ASSUME ~disturbed'
         PROVE  CoinsHeld' = CoinsHeld /\ CoinsMoved' = CoinsMoved
    <2>1. d.coins = document[u].coins
      BY <1>3, <1>9, <1>11 DEF DemoInv
    <2>2. CoinsHeld' = CoinsHeld - document[u].coins + d.coins
      BY <1>2, <1>3, HeldChanges
    <2>3. document[u].coins \in Int
      BY <1>0 DEF DemoDocument
    <2>4. QED
      BY <1>4, <2>1, <2>2, <2>3, CoinsAreInt, MovedStays
  <1>12. CoinsKept'
    BY <1>9, <1>11 DEF CoinsKept
  <1>13. QED
    BY <1>5, <1>7, <1>8, <1>10, <1>12 DEF DemoInv

\* The copy follows the document, and what the page was doing may be over.
LEMMA DemoFollow ==
    ASSUME DemoTypes, DemoInv, CoinsKept, NEW u \in DemoUsers, D!Listen(u) \/ D!Reload(u)
    PROVE  DemoTypes' /\ DemoInv' /\ CoinsKept'
  <1>0. /\ document \in [DemoUsers -> DemoDocument] /\ local \in [DemoUsers -> DemoCopy]
        /\ transfer \in [DemoTransfers -> DemoTransfer] /\ IsFiniteSet(D!UnderWay)
    BY DEF DemoTypes
  <1>1. PICK copy : copy = [coins |-> document[u].coins, received |-> document[u].received]
    OBVIOUS
  <1>2. local' = [local EXCEPT ![u] = copy] /\ document' = document
        /\ (~disturbed' => ~disturbed /\ transfer' = transfer)
    <2>1. CASE D!Listen(u)
      <3>1. local' = [local EXCEPT ![u] = copy] /\ UNCHANGED <<document, transfer, disturbed>>
        BY <1>1, <2>1 DEF D!Listen
      <3>2. QED
        BY <3>1
    <2>2. CASE D!Reload(u)
      <3>1. local' = [local EXCEPT ![u] = copy] /\ document' = document
        BY <1>1, <2>2 DEF D!Reload
      <3>2. ~disturbed' => ~disturbed /\ transfer' = transfer
        BY <2>2, Zenon DEF D!Reload
      <3>3. QED
        BY <3>1, <3>2
    <2>3. QED
      BY <2>1, <2>2
  <1>3. copy \in DemoCopy /\ copy.coins = document[u].coins /\ copy.received = document[u].received
    <2>1. document[u] \in DemoDocument
      BY <1>0
    <2>2. QED
      BY <1>1, <2>1 DEF DemoDocument, DemoCopy
  <1>4. /\ transfer' \in [DemoTransfers -> DemoTransfer]
        /\ \A s \in DemoTransfers : transfer'[s] = transfer[s] \/ transfer'[s].step = "done"
    <2>1. CASE D!Listen(u)
      BY <1>0, <2>1 DEF D!Listen
    <2>2. CASE D!Reload(u)
      <3>1. transfer' = [s \in DemoTransfers |->
                           IF transfer[s].step \in {"saved", "read"} /\ transfer[s].from = u
                           THEN [transfer[s] EXCEPT !.step = "done"] ELSE transfer[s]]
        BY <2>2 DEF D!Reload
      <3>2. ASSUME NEW s \in DemoTransfers, transfer[s].step \in {"saved", "read"}
            PROVE  /\ [transfer[s] EXCEPT !.step = "done"] \in DemoTransfer
                   /\ [transfer[s] EXCEPT !.step = "done"].step = "done"
        <4>1. transfer[s] \in DemoTransfer
          BY <1>0
        <4>2. QED
          BY <3>2, <4>1 DEF DemoTransfer
      <3>3. ASSUME NEW s \in DemoTransfers
            PROVE  /\ transfer'[s] \in DemoTransfer
                   /\ transfer'[s] = transfer[s] \/ transfer'[s].step = "done"
        <4>1. \/ transfer'[s] = transfer[s]
              \/ /\ transfer[s].step \in {"saved", "read"}
                 /\ transfer'[s] = [transfer[s] EXCEPT !.step = "done"]
          BY <3>1
        <4>2. QED
          BY <1>0, <3>2, <4>1
      <3>4. transfer' \in [DemoTransfers -> DemoTransfer]
        BY <3>1, <3>3
      <3>5. QED
        BY <3>3, <3>4
    <2>3. QED
      BY <2>1, <2>2
  <1>5. D!UnderWay' \subseteq D!UnderWay
    BY <1>4 DEF D!UnderWay
  <1>6. DemoTypes'
    <2>1. local' \in [DemoUsers -> DemoCopy]
      BY <1>0, <1>2, <1>3
    <2>2. QED
      BY <1>0, <1>2, <1>4, <1>5, <2>1, FS_Subset DEF DemoTypes
  <1>7. \A s \in DemoTransfers : D!At(s, "done") => D!At(s, "done")'
    BY <1>4 DEF D!At
  <1>8. ASSUME NEW x \in DemoUsers, NEW s \in document'[x].received \cup local'[x].received
        PROVE  D!At(s, "done")'
    <2>1. s \in document[x].received \cup local[x].received
      BY <1>0, <1>2, <1>3, <1>8
    <2>2. s \in DemoTransfers
      BY <1>0, <2>1 DEF DemoDocument, DemoCopy
    <2>3. QED
      BY <1>7, <2>1, <2>2 DEF DemoInv
  <1>9. ASSUME NEW s \in DemoTransfers, D!At(s, "read")', NEW q \in transfer'[s].seen.received
        PROVE  D!At(q, "done")'
    <2>1. transfer'[s] = transfer[s] /\ transfer[s].step = "read"
      BY <1>4, <1>9 DEF D!At
    <2>2. q \in DemoTransfers
      BY <1>9, <2>1, DemoTransferTyped DEF DemoDocument
    <2>3. QED
      BY <1>7, <1>9, <2>1, <2>2 DEF DemoInv, D!At
  <1>11. ASSUME ~disturbed', NEW x \in DemoUsers, D!Unseen(x)' = {}
         PROVE  local'[x].coins = document'[x].coins
    BY <1>0, <1>2, <1>3, <1>11 DEF DemoInv, D!Unseen
  <1>12. ASSUME ~disturbed'
         PROVE  CoinsHeld' = CoinsHeld /\ CoinsMoved' = CoinsMoved
    <2>1. D!UnderWay' = D!UnderWay /\ \A s \in D!UnderWay : transfer'[s].amount = transfer[s].amount
      BY <1>2, <1>12 DEF D!UnderWay
    <2>2. QED
      BY <1>2, <2>1, HeldStays, MovedStays
  <1>13. CoinsKept'
    BY <1>2, <1>12 DEF CoinsKept
  <1>14. QED
    BY <1>6, <1>8, <1>9, <1>11, <1>13 DEF DemoInv

\* A step that leaves documents, copies and transfers alone.
LEMMA DemoStutter ==
    ASSUME DemoTypes, DemoInv, CoinsKept,
           UNCHANGED <<document, local, transfer, disturbed>>
    PROVE  DemoTypes' /\ DemoInv' /\ CoinsKept'
  BY DEF DemoTypes, DemoInv, CoinsKept, CoinsHeld, CoinsMoved, D!UnderWay, D!Unseen, D!At

-----------------------------------------------------------------------------
\* Nothing of the demonstration users' coins is made or lost, but by the events
\* named, for any number of users, transfers and mishaps.
LEMMA DemoCoinsKept == D!Spec => []CoinsKept
  <1>1. D!Init => DemoTypes /\ DemoInv /\ CoinsKept
    <2> SUFFICES ASSUME D!Init PROVE DemoTypes /\ DemoInv /\ CoinsKept
      OBVIOUS
    <2>0. DemoOpening \in Int
      BY DemoAssumption
    <2>1. D!UnderWay = {} /\ \A t \in DemoTransfers : transfer[t].step = "none"
      BY DEF D!Init, D!UnderWay
    <2>2. DemoTypes
      <3>1. document \in [DemoUsers -> DemoDocument] /\ local \in [DemoUsers -> DemoCopy]
        BY <2>0 DEF D!Init, DemoDocument, DemoCopy
      <3>2. transfer \in [DemoTransfers -> DemoTransfer]
        BY DEF D!Init, DemoTransfer
      <3>3. QED
        BY <2>1, <3>1, <3>2, FS_EmptySet DEF DemoTypes
    <2>3. DemoInv
      BY <2>1 DEF D!Init, DemoInv, D!At
    <2>4. [u \in DemoUsers |-> document[u].coins] = [u \in DemoUsers |-> DemoOpening]
      BY DEF D!Init
    <2>5. CoinsMoved = 0
      BY <2>1, SumEmpty DEF CoinsMoved
    <2>6. CoinsHeld = SumFunctionOnSet([u \in DemoUsers |-> DemoOpening], DemoUsers)
      BY <2>4 DEF CoinsHeld
    <2>7. CoinsHeld \in Int
      BY <2>2, CoinsAreInt
    <2>8. CoinsHeld + CoinsMoved = CoinsHeld
      BY <2>5, <2>7
    <2>9. QED
      BY <2>2, <2>3, <2>6, <2>8 DEF CoinsKept
  <1>2. DemoTypes /\ DemoInv /\ CoinsKept /\ [D!Next]_D!demoVars
          => (DemoTypes /\ DemoInv /\ CoinsKept)'
    <2> SUFFICES ASSUME DemoTypes, DemoInv, CoinsKept, [D!Next]_D!demoVars
                 PROVE  DemoTypes' /\ DemoInv' /\ CoinsKept'
      OBVIOUS
    <2>1. CASE UNCHANGED D!demoVars
      BY <2>1, DemoStutter DEF D!demoVars
    <2>2. ASSUME NEW u \in DemoUsers, D!SaveFails(u)
          PROVE  DemoTypes' /\ DemoInv' /\ CoinsKept'
      BY <2>2, DemoStutter DEF D!SaveFails
    <2>3. QED
      BY <2>1, <2>2, DemoSend, DemoSendUnsaved, DemoRead, DemoCredit, DemoCreditFails, DemoSave,
         DemoFollow DEF D!Next
  <1>3. QED
    BY <1>1, <1>2, PTL DEF D!Spec

\* The sum of an instance is the sum.
LEMMA DemoSum ==
    ASSUME NEW f, NEW s
    PROVE  D!SumFunctionOnSet(f, s) = SumFunctionOnSet(f, s)
  BY DEF D!SumFunctionOnSet, D!FoldFunctionOnSet, D!MapThenFoldSet,
         SumFunctionOnSet, FoldFunctionOnSet, MapThenFoldSet

\* Nothing of the demonstration users' coins is made or lost, but by the events
\* named, for any number of users, transfers and mishaps.
THEOREM DemoCoinsAddUp == D!Spec => []NothingMadeOrLost
  <1>1. CoinsKept => NothingMadeOrLost
    BY DemoSum DEF CoinsKept, CoinsHeld, CoinsMoved, NothingMadeOrLost, D!NothingMadeOrLost
  <1>2. QED
    BY <1>1, DemoCoinsKept, PTL

-----------------------------------------------------------------------------
(* Who is a user.                                                          *)

Statuses == {"active", "suspended", "deleted"}

Member == [id : Ids, phone : UserPhones, status : Statuses]

CreateCall == [kind : {"create"}, phone : UserPhones, page : AdminPages \cup {App, Client},
               at : {"sent", "free", "done"}]
StatusCall == [kind : {"status"}, id : Ids, status : Statuses \cup {"kept"},
               page : AdminPages \cup {App, Client}, at : {"sent", "done"}, knew : BOOLEAN]

RowsRead == [at : {"read"}, page : AdminPages, rows : SUBSET Member]

AccessTypes ==
    /\ users \in SUBSET Member
    /\ call \in [AccessCalls -> {K!NoCall} \cup CreateCall \cup StatusCall]
    /\ load \in [Loads -> {K!NoLoad} \cup [at : {"sent"}, page : AdminPages] \cup RowsRead]
    /\ rows \in [AdminPages -> SUBSET Member]
    /\ shownDeleted \in [AdminPages -> SUBSET Ids]

Creates(c) == call[c].kind = "create"

\* A phone that is taken while its creation goes on, and one that is being created
\* twice, were under way together.
PhoneInv ==
    /\ \A c \in AccessCalls : Creates(c) /\ call[c].at = "free" =>
          ((\E u \in users : u.phone = call[c].phone) => call[c].phone \in alongside)
    /\ \A c, d \in AccessCalls : Creates(c) /\ Creates(d) /\ c # d /\ call[c].phone = call[d].phone =>
          call[c].phone \in alongside

\* The records of one user are one record.
OneEach(members) == \A u, v \in members : u.id = v.id => u = v

\* All that is said of the user is that he is deleted.
SaidDeleted(id, members) == \A u \in members : u.id = id => u.status = "deleted"

ReadRowsOf(l, p) == load[l].at = "read" /\ load[l].page = p

\* Who is known to be deleted is, and a request that knows it leaves him so.
KnewInv ==
    \A c \in AccessCalls : call[c].kind = "status" /\ call[c].knew =>
        /\ call[c].status \in {"kept", "deleted"}
        /\ \E u \in users : u.id = call[c].id
        /\ SaidDeleted(call[c].id, users)

\* Whom a page has shown as deleted is deleted, and its lists, which come one after
\* the other, say so.
DeletedInv ==
    /\ OneEach(users)
    /\ \A l \in Loads : load[l].at = "read" => OneEach(load[l].rows)
    /\ \A p \in AdminPages \ mixed : \A k, l \in Loads :
          load[k] # K!NoLoad /\ load[l] # K!NoLoad /\ load[k].page = p /\ load[l].page = p => k = l
    /\ \A p \in AdminPages \ mixed : \A id \in shownDeleted[p] :
          /\ \E u \in users : u.id = id
          /\ SaidDeleted(id, users) /\ SaidDeleted(id, rows[p])
          /\ \A l \in Loads : ReadRowsOf(l, p) => SaidDeleted(id, load[l].rows)
    /\ KnewInv

\* A creation or an update, by its kind.
LEMMA CallTyped ==
    ASSUME AccessTypes, NEW c \in AccessCalls
    PROVE  /\ call[c].kind \in {"none", "create", "status"}
           /\ call[c].kind = "none" => call[c] = K!NoCall
           /\ call[c].kind = "create" => call[c] \in CreateCall
           /\ call[c].kind = "status" => call[c] \in StatusCall
           /\ K!NoCall.kind = "none"
  BY DEF AccessTypes, K!NoCall, CreateCall, StatusCall

\* A reading of the list, by how far it is.
LEMMA LoadTyped ==
    ASSUME AccessTypes, NEW l \in Loads
    PROVE  /\ load[l].at \in {"none", "sent", "read"}
           /\ load[l].at = "none" <=> load[l] = K!NoLoad
           /\ load[l] # K!NoLoad => load[l].page \in AdminPages
           /\ load[l].at = "read" => load[l] \in RowsRead
           /\ K!NoLoad.at = "none"
  BY DEF AccessTypes, K!NoLoad, RowsRead

-----------------------------------------------------------------------------
(* Phones.                                                                 *)

\* Calls that go on: each creation is one of before with its phone, and one that is
\* free now was so or has just found its phone free.
LEMMA PhonesStay ==
    ASSUME AccessTypes, PhoneInv, K!PhonesOwn, alongside \subseteq alongside',
           \A u \in users' : \E v \in users : v.phone = u.phone,
           \A u, v \in users' : u.phone = v.phone => u = v \/ u.phone \in alongside,
           \A c \in AccessCalls : Creates(c)' =>
              /\ Creates(c) /\ call'[c].phone = call[c].phone
              /\ call'[c].at = "free" => call[c].at = "free" \/ K!FreePhone(call[c].phone)
    PROVE  PhoneInv' /\ K!PhonesOwn'
  <1>1. K!PhonesOwn'
    BY DEF K!PhonesOwn
  <1>2. ASSUME NEW c \in AccessCalls, Creates(c)', call'[c].at = "free",
               NEW u \in users', u.phone = call'[c].phone
        PROVE  call'[c].phone \in alongside'
    <2>1. PICK v \in users : v.phone = u.phone
      BY <1>2
    <2>2. ~K!FreePhone(call[c].phone) /\ call[c].at = "free" /\ Creates(c)
          /\ call'[c].phone = call[c].phone /\ v.phone = call[c].phone
      BY <1>2, <2>1 DEF K!FreePhone
    <2>3. QED
      BY <2>2 DEF PhoneInv
  <1>3. ASSUME NEW c \in AccessCalls, NEW d \in AccessCalls, Creates(c)', Creates(d)', c # d,
               call'[c].phone = call'[d].phone
        PROVE  call'[c].phone \in alongside'
    BY <1>3 DEF PhoneInv
  <1>4. QED
    BY <1>1, <1>2, <1>3 DEF PhoneInv, Creates

\* A creation begins.
LEMMA CreateKeeps ==
    ASSUME AccessTypes, PhoneInv, K!PhonesOwn, NEW c \in AccessCalls, NEW p \in AdminPages \cup {App, Client},
           NEW phone \in UserPhones, K!Create(c, p, phone)
    PROVE  AccessTypes' /\ PhoneInv' /\ K!PhonesOwn'
  <1>1. PICK made : made = [kind |-> "create", phone |-> phone, page |-> p, at |-> "sent"]
    OBVIOUS
  <1>2. /\ call[c] = K!NoCall /\ call' = [call EXCEPT ![c] = made]
        /\ UNCHANGED <<users, load, rows, shownDeleted>>
        /\ alongside' = alongside \cup (IF K!Beside(c, phone) THEN {phone} ELSE {})
    BY <1>1 DEF K!Create, K!Send
  <1>3. made \in CreateCall /\ made.kind = "create" /\ made.phone = phone /\ made.at = "sent"
    BY <1>1 DEF CreateCall
  <1>4. call'[c] = made /\ \A d \in AccessCalls \ {c} : call'[d] = call[d]
    BY <1>2 DEF AccessTypes
  <1>5. AccessTypes'
    BY <1>2, <1>3 DEF AccessTypes
  <1>6. ~Creates(c)
    BY <1>2 DEF Creates, K!NoCall
  <1>7. K!PhonesOwn'
    BY <1>2 DEF K!PhonesOwn
  <1>8. ASSUME NEW d \in AccessCalls, Creates(d)', call'[d].at = "free",
               NEW u \in users', u.phone = call'[d].phone
        PROVE  call'[d].phone \in alongside'
    BY <1>2, <1>3, <1>4, <1>8 DEF PhoneInv, Creates
  <1>9. ASSUME NEW d \in AccessCalls, NEW e \in AccessCalls, Creates(d)', Creates(e)', d # e,
               call'[d].phone = call'[e].phone
        PROVE  call'[d].phone \in alongside'
    <2>1. CASE d # c /\ e # c
      BY <1>2, <1>4, <1>9, <2>1 DEF PhoneInv, Creates
    <2>2. CASE d = c \/ e = c
      <3>1. K!Beside(c, phone) /\ call'[d].phone = phone
        BY <1>3, <1>4, <1>9, <2>2 DEF K!Beside, Creates
      <3>2. QED
        BY <1>2, <3>1
    <2>3. QED
      BY <2>1, <2>2
  <1>10. QED
    BY <1>5, <1>7, <1>8, <1>9 DEF PhoneInv, Creates

\* A creation ends with a document.
LEMMA StoreKeeps ==
    ASSUME AccessTypes, PhoneInv, K!PhonesOwn, NEW c \in AccessCalls, NEW id \in Ids, K!Store(c, id)
    PROVE  AccessTypes' /\ PhoneInv' /\ K!PhonesOwn'
  <1>1. PICK w, next : /\ w = [id |-> id, phone |-> call[c].phone, status |-> "active"]
                       /\ next = [call[c] EXCEPT !.at = "done"]
    OBVIOUS
  <1>2. /\ Creates(c) /\ call[c].at = "free" /\ users' = users \cup {w}
        /\ call' = [call EXCEPT ![c] = next]
        /\ UNCHANGED <<load, rows, shownDeleted, alongside>>
    BY <1>1 DEF K!Store, Creates, AccessTypes
  <1>3. call[c] \in CreateCall
    BY <1>2, CallTyped DEF Creates
  <1>4. w \in Member /\ w.phone = call[c].phone
    BY <1>1, <1>3 DEF Member, CreateCall, Statuses
  <1>5. next \in CreateCall /\ next.at = "done" /\ next.phone = call[c].phone /\ next.kind = "create"
    BY <1>1, <1>3 DEF CreateCall
  <1>6. call'[c] = next /\ \A d \in AccessCalls \ {c} : call'[d] = call[d]
    BY <1>2 DEF AccessTypes
  <1>7. AccessTypes'
    BY <1>2, <1>4, <1>5 DEF AccessTypes
  <1>8. ASSUME NEW u \in users', NEW v \in users', u.phone = v.phone, u # v
        PROVE  u.phone \in alongside'
    <2>1. CASE u \in users /\ v \in users
      BY <1>2, <1>8, <2>1 DEF K!PhonesOwn
    <2>2. CASE u = w \/ v = w
      <3>1. \E x \in users : x.phone = call[c].phone
        BY <1>2, <1>4, <1>8, <2>2
      <3>2. QED
        BY <1>2, <1>4, <1>8, <2>2, <3>1 DEF PhoneInv
    <2>3. QED
      BY <1>2, <2>1, <2>2
  <1>9. ASSUME NEW d \in AccessCalls, Creates(d)', call'[d].at = "free",
               NEW u \in users', u.phone = call'[d].phone
        PROVE  call'[d].phone \in alongside'
    <2>1. d # c /\ Creates(d) /\ call[d].at = "free" /\ call'[d] = call[d]
      BY <1>5, <1>6, <1>9 DEF Creates
    <2>2. CASE u \in users
      BY <1>2, <1>9, <2>1, <2>2 DEF PhoneInv
    <2>3. CASE u = w
      BY <1>2, <1>4, <1>9, <2>1, <2>3 DEF PhoneInv
    <2>4. QED
      BY <1>2, <2>2, <2>3
  <1>10. ASSUME NEW d \in AccessCalls, NEW e \in AccessCalls, Creates(d)', Creates(e)', d # e,
                call'[d].phone = call'[e].phone
         PROVE  call'[d].phone \in alongside'
    <2>1. \A f \in AccessCalls : Creates(f)' => Creates(f) /\ call'[f].phone = call[f].phone
      BY <1>2, <1>5, <1>6 DEF Creates
    <2>2. QED
      BY <1>2, <1>10, <2>1 DEF PhoneInv
  <1>11. QED
    BY <1>7, <1>8, <1>9, <1>10 DEF PhoneInv, K!PhonesOwn, Creates

\* A status is written into the documents with that id.
LEMMA StatusWritten ==
    ASSUME AccessTypes, NEW c \in AccessCalls, K!SetStatus(c)
    PROVE  /\ users' \in SUBSET Member
           /\ call[c] \in StatusCall /\ call[c].status \in Statuses
           /\ \A u \in users' : \E v \in users :
                 /\ u.id = v.id /\ u.phone = v.phone
                 /\ IF v.id = call[c].id THEN u.status = call[c].status ELSE u = v
           /\ \A v \in users : \E u \in users' : u.id = v.id
  <1>1. call[c] \in StatusCall /\ call[c].status \in Statuses
    BY CallTyped DEF K!SetStatus, StatusCall
  <1>2. users' = {IF u.id = call[c].id THEN [u EXCEPT !.status = call[c].status] ELSE u : u \in users}
    BY DEF K!SetStatus
  <1>3. ASSUME NEW v \in users
        PROVE  LET u == IF v.id = call[c].id THEN [v EXCEPT !.status = call[c].status] ELSE v
               IN  /\ u \in Member /\ u.id = v.id /\ u.phone = v.phone
                   /\ IF v.id = call[c].id THEN u.status = call[c].status ELSE u = v
    <2>1. v \in Member /\ call[c].status \in Statuses
      BY <1>1 DEF AccessTypes, StatusCall
    <2>2. QED
      BY <2>1 DEF Member
  <1>4. QED
    BY <1>1, <1>2, <1>3

\* The requests keep whom they are about, and only forget that he was deleted.
LEMMA CallsWritten ==
    ASSUME AccessTypes, NEW c \in AccessCalls, K!SetStatus(c)
    PROVE  /\ call' \in [AccessCalls -> {K!NoCall} \cup CreateCall \cup StatusCall]
           /\ \A d \in AccessCalls : call[d].kind # "status" => call'[d] = call[d]
           /\ \A d \in AccessCalls : call[d].kind = "status" =>
                 /\ call'[d] \in StatusCall /\ call'[d].kind = "status"
                 /\ call'[d].id = call[d].id /\ call'[d].status = call[d].status
                 /\ call'[d].knew => /\ call[d].knew
                                     /\ call[c].status = "deleted" \/ call[d].id # call[c].id
  <1>1. PICK status, id : status = call[c].status /\ id = call[c].id
    OBVIOUS
  <1>2. PICK f : f = K!Forgotten(id, status)
    OBVIOUS
  <1>3. call[c].kind = "status" /\ call' = [f EXCEPT ![c].at = "done"]
    BY <1>1, <1>2 DEF K!SetStatus
  <1>4. \A d \in AccessCalls : f[d] = IF status # "deleted" /\ call[d].kind = "status" /\ call[d].id = id
                                     THEN [call[d] EXCEPT !.knew = FALSE] ELSE call[d]
    BY <1>2 DEF K!Forgotten
  <1>5. DOMAIN f = AccessCalls
    BY <1>2 DEF K!Forgotten
  <1>6. ASSUME NEW d \in AccessCalls, call[d].kind = "status"
        PROVE  /\ call'[d] \in StatusCall /\ call'[d].kind = "status"
               /\ call'[d].id = call[d].id /\ call'[d].status = call[d].status
               /\ call'[d].knew => /\ call[d].knew
                                   /\ call[c].status = "deleted" \/ call[d].id # call[c].id
    <2>1. call[d] \in StatusCall
      BY <1>6, CallTyped
    <2>2. /\ f[d] \in StatusCall /\ f[d].kind = "status"
          /\ f[d].id = call[d].id /\ f[d].status = call[d].status
          /\ f[d].knew => call[d].knew /\ (status = "deleted" \/ call[d].id # id)
      <3>1. CASE status # "deleted" /\ call[d].id = id
        <4>1. f[d] = [call[d] EXCEPT !.knew = FALSE]
          BY <1>4, <1>6, <3>1
        <4>2. QED
          BY <2>1, <4>1 DEF StatusCall
      <3>2. CASE ~(status # "deleted" /\ call[d].id = id)
        <4>1. f[d] = call[d]
          BY <1>4, <3>2
        <4>2. QED
          BY <1>6, <2>1, <3>2, <4>1
      <3>3. QED
        BY <3>1, <3>2
    <2>3. call'[d] = IF d = c THEN [f[d] EXCEPT !.at = "done"] ELSE f[d]
      BY <1>3, <1>5
    <2>4. CASE d = c
      <3>1. call'[d] = [f[d] EXCEPT !.at = "done"]
        BY <2>3, <2>4
      <3>2. QED
        BY <1>1, <2>2, <3>1 DEF StatusCall
    <2>5. CASE d # c
      BY <1>1, <2>2, <2>3, <2>5
    <2>6. QED
      BY <2>4, <2>5
  <1>7. ASSUME NEW d \in AccessCalls, call[d].kind # "status"
        PROVE  call'[d] = call[d]
    <2>1. d # c /\ f[d] = call[d]
      BY <1>3, <1>4, <1>7
    <2>2. QED
      BY <1>3, <1>5, <2>1
  <1>8. DOMAIN call' = AccessCalls /\ call' = [d \in DOMAIN call' |-> call'[d]]
    BY <1>3, <1>5
  <1>9. \A d \in AccessCalls : call'[d] \in {K!NoCall} \cup CreateCall \cup StatusCall
    BY <1>6, <1>7 DEF AccessTypes
  <1>10. QED
    BY <1>6, <1>7, <1>8, <1>9

\* Two documents that became one were one, so phones stay apart.
LEMMA SetStatusKeeps ==
    ASSUME AccessTypes, PhoneInv, K!PhonesOwn, NEW c \in AccessCalls, K!SetStatus(c)
    PROVE  AccessTypes' /\ PhoneInv' /\ K!PhonesOwn'
  <1>2. UNCHANGED <<load, rows, alongside>>
    BY DEF K!SetStatus
  <1>4. shownDeleted' \in [AdminPages -> SUBSET Ids]
    BY DEF K!SetStatus, AccessTypes
  <1>5. AccessTypes'
    BY <1>2, <1>4, StatusWritten, CallsWritten DEF AccessTypes
  <1>6. ASSUME NEW u \in users', NEW v \in users', u.phone = v.phone
        PROVE  u = v \/ u.phone \in alongside
    <2>1. users' = {IF x.id = call[c].id THEN [x EXCEPT !.status = call[c].status] ELSE x : x \in users}
      BY DEF K!SetStatus
    <2>2. PICK x \in users : u = IF x.id = call[c].id THEN [x EXCEPT !.status = call[c].status] ELSE x
      BY <2>1
    <2>3. PICK y \in users : v = IF y.id = call[c].id THEN [y EXCEPT !.status = call[c].status] ELSE y
      BY <2>1
    <2>4. u.phone = x.phone /\ v.phone = y.phone
      <3>1. x \in Member /\ y \in Member
        BY DEF AccessTypes
      <3>2. QED
        BY <2>2, <2>3, <3>1 DEF Member
    <2>5. x = y \/ x.phone \in alongside
      BY <1>6, <2>4 DEF K!PhonesOwn
    <2>6. QED
      BY <2>2, <2>3, <2>4, <2>5
  <1>7. \A d \in AccessCalls : Creates(d)' =>
              /\ Creates(d) /\ call'[d].phone = call[d].phone
              /\ call'[d].at = "free" => call[d].at = "free"
    BY CallsWritten DEF Creates
  <1>8. \A u \in users' : \E v \in users : v.phone = u.phone
    <2>1. ASSUME NEW u \in users'
          PROVE  \E v \in users : v.phone = u.phone
      <3>1. PICK v \in users : u.phone = v.phone
        BY StatusWritten
      <3>2. QED
        BY <3>1
    <2>2. QED
      BY <2>1
  <1>9. alongside \subseteq alongside'
    BY <1>2
  <1>10. PhoneInv' /\ K!PhonesOwn'
    BY <1>6, <1>7, <1>8, <1>9, PhonesStay
  <1>11. QED
    BY <1>5, <1>10

\* Calls are answered or given up, and other calls are made.
LEMMA PhonesLeft ==
    ASSUME AccessTypes, PhoneInv, K!PhonesOwn, UNCHANGED <<users, alongside>>,
           \A c \in AccessCalls : Creates(c)' =>
              /\ Creates(c) /\ call'[c].phone = call[c].phone
              /\ call'[c].at = "free" => call[c].at = "free" \/ K!FreePhone(call[c].phone)
    PROVE  PhoneInv' /\ K!PhonesOwn'
  <1>1. \A u \in users' : \E v \in users : v.phone = u.phone
    OBVIOUS
  <1>2. \A u, v \in users' : u.phone = v.phone => u = v \/ u.phone \in alongside
    BY DEF K!PhonesOwn
  <1>3. alongside \subseteq alongside'
    OBVIOUS
  <1>4. QED
    BY <1>1, <1>2, <1>3, PhonesStay

-----------------------------------------------------------------------------
(* Users that were shown as deleted.                                       *)

\* While users are left alone, so is what requests know of them: each is one of before,
\* one that knows nothing, or one that has read that its user is deleted.
LEMMA KnewLeft ==
    ASSUME KnewInv, UNCHANGED users,
           \A c \in AccessCalls : call'[c].kind = "status" /\ call'[c].knew => call'[c] = call[c]
    PROVE  KnewInv'
  BY DEF KnewInv, SaidDeleted

\* Lists, pages and users are left alone, and no request brings back a user shown as deleted.
LEMMA DeletedLeft ==
    ASSUME DeletedInv, UNCHANGED <<users, load, rows, shownDeleted, mixed>>, KnewInv'
    PROVE  DeletedInv'
  BY DEF DeletedInv, ReadRowsOf

\* A request for a status of a user on the list.
LEMMA RequestKeeps ==
    ASSUME AccessTypes, PhoneInv, K!PhonesOwn, DeletedInv,
           NEW c \in AccessCalls, NEW p \in AdminPages, NEW id \in Ids,
           \/ \E status \in {"active", "suspended"} : K!UpdateStatus(c, p, id, status)
           \/ K!DeleteUser(c, p, id)
    PROVE  AccessTypes' /\ PhoneInv' /\ K!PhonesOwn' /\ DeletedInv'
  <1>1. PICK made \in StatusCall : /\ call[c] = K!NoCall /\ call' = [call EXCEPT ![c] = made]
                                   /\ ~made.knew
    <2>1. ASSUME NEW status \in {"active", "suspended"}, K!UpdateStatus(c, p, id, status)
          PROVE  \E made \in StatusCall : /\ call[c] = K!NoCall /\ call' = [call EXCEPT ![c] = made]
                                          /\ ~made.knew
      <3>1. PICK row \in rows[p] : row.id = id /\ row.status # "deleted"
        BY <2>1 DEF K!UpdateStatus, K!Offered
      <3>2. ~(id \in shownDeleted[p] /\ p \notin mixed)
        BY <3>1 DEF DeletedInv, SaidDeleted
      <3>3. PICK made : made = [kind |-> "status", id |-> id, status |-> status, page |-> p,
                                      at |-> "sent", knew |-> FALSE]
        OBVIOUS
      <3>4. call[c] = K!NoCall /\ call' = [call EXCEPT ![c] = made]
        <4>1. (id \in shownDeleted[p] /\ p \notin mixed) = FALSE
          BY <3>2
        <4>2. QED
          BY <2>1, <3>3, <4>1 DEF K!UpdateStatus, K!Send
      <3>5. made \in StatusCall /\ ~made.knew
        BY <3>3 DEF StatusCall, Statuses
      <3>6. QED
        BY <3>4, <3>5
    <2>2. CASE K!DeleteUser(c, p, id)
      <3>1. PICK made : made = [kind |-> "status", id |-> id, status |-> "deleted", page |-> p,
                                      at |-> "sent", knew |-> FALSE]
        OBVIOUS
      <3>2. call[c] = K!NoCall /\ call' = [call EXCEPT ![c] = made]
        BY <2>2, <3>1 DEF K!DeleteUser, K!Send
      <3>3. made \in StatusCall /\ ~made.knew
        BY <3>1 DEF StatusCall, Statuses
      <3>4. QED
        BY <3>2, <3>3
    <2>3. QED
      BY <2>1, <2>2
  <1>2. UNCHANGED <<users, load, rows, shownDeleted, mixed, alongside>>
    BY DEF K!UpdateStatus, K!DeleteUser
  <1>3. call'[c] = made /\ made.kind = "status" /\ \A d \in AccessCalls \ {c} : call'[d] = call[d]
    BY <1>1 DEF AccessTypes, StatusCall
  <1>4. AccessTypes'
    BY <1>1, <1>2 DEF AccessTypes
  <1>5. PhoneInv' /\ K!PhonesOwn'
    BY <1>2, <1>3, PhonesLeft DEF Creates
  <1>6. KnewInv'
    BY <1>1, <1>2, <1>3, KnewLeft DEF DeletedInv
  <1>7. DeletedInv'
    BY <1>2, <1>6, DeletedLeft
  <1>8. QED
    BY <1>4, <1>5, <1>7

\* An update of other fields, which may know that its user is deleted.
LEMMA UpdateKeeps ==
    ASSUME AccessTypes, PhoneInv, K!PhonesOwn, DeletedInv,
           NEW c \in AccessCalls, NEW p \in {App, Client}, NEW id \in Ids, K!UpdateFields(c, p, id)
    PROVE  AccessTypes' /\ PhoneInv' /\ K!PhonesOwn' /\ DeletedInv'
  <1>1. PICK made : made = [kind |-> "status", id |-> id, status |-> "kept", page |-> p, at |-> "sent",
                            knew |-> K!Deleted(id)]
    OBVIOUS
  <1>2. /\ call[c] = K!NoCall /\ call' = [call EXCEPT ![c] = made]
        /\ UNCHANGED <<users, load, rows, shownDeleted, mixed, alongside>>
    BY <1>1 DEF K!UpdateFields, K!Send
  <1>3. /\ made \in StatusCall /\ made.kind = "status" /\ made.id = id /\ made.status = "kept"
        /\ made.knew => K!Deleted(id)
    <2>1. K!Deleted(id) \in BOOLEAN
      BY DEF K!Deleted
    <2>2. QED
      BY <1>1, <2>1 DEF StatusCall
  <1>4. call'[c] = made /\ \A d \in AccessCalls \ {c} : call'[d] = call[d]
    BY <1>2 DEF AccessTypes
  <1>5. AccessTypes'
    BY <1>2, <1>3 DEF AccessTypes
  <1>6. PhoneInv' /\ K!PhonesOwn'
    BY <1>2, <1>3, <1>4, PhonesLeft DEF Creates
  <1>7. made.knew => SaidDeleted(id, users) /\ \E u \in users : u.id = id
    BY <1>3 DEF K!Deleted, DeletedInv, OneEach, SaidDeleted
  <1>8. KnewInv'
    BY <1>2, <1>3, <1>4, <1>7 DEF DeletedInv, KnewInv, SaidDeleted
  <1>9. QED
    BY <1>2, <1>5, <1>6, <1>8, DeletedLeft

\* It reads the status: of a user it knows to be deleted, that he is.
LEMMA ReadStatusKeeps ==
    ASSUME AccessTypes, PhoneInv, K!PhonesOwn, DeletedInv, NEW c \in AccessCalls, K!ReadStatus(c)
    PROVE  AccessTypes' /\ PhoneInv' /\ K!PhonesOwn' /\ DeletedInv'
  <1>1. PICK u \in users : u.id = call[c].id /\ call' = [call EXCEPT ![c].status = u.status]
    BY DEF K!ReadStatus, K!Kept
  <1>2. PICK next : next = [call[c] EXCEPT !.status = u.status]
    OBVIOUS
  <1>3. /\ call[c].kind = "status" /\ call' = [call EXCEPT ![c] = next]
        /\ UNCHANGED <<users, load, rows, shownDeleted, mixed, alongside>>
    BY <1>1, <1>2 DEF K!ReadStatus, AccessTypes
  <1>4. call[c] \in StatusCall /\ u.status \in Statuses
    BY <1>3, CallTyped DEF AccessTypes, Member
  <1>5. /\ next \in StatusCall /\ next.kind = "status" /\ next.id = call[c].id /\ next.status = u.status
        /\ next.knew = call[c].knew
    BY <1>2, <1>4 DEF StatusCall
  <1>6. call'[c] = next /\ \A d \in AccessCalls \ {c} : call'[d] = call[d]
    BY <1>3 DEF AccessTypes
  <1>7. AccessTypes'
    BY <1>3, <1>5 DEF AccessTypes
  <1>8. PhoneInv' /\ K!PhonesOwn'
    BY <1>3, <1>5, <1>6, PhonesLeft DEF Creates
  <1>9. call[c].knew => /\ u.status = "deleted" /\ SaidDeleted(call[c].id, users)
                        /\ \E v \in users : v.id = call[c].id
    BY <1>1, <1>3 DEF DeletedInv, KnewInv, SaidDeleted
  <1>10. KnewInv'
    BY <1>3, <1>5, <1>6, <1>9 DEF DeletedInv, KnewInv, SaidDeleted
  <1>11. QED
    BY <1>3, <1>7, <1>8, <1>10, DeletedLeft

\* A new user has an id of his own.
LEMMA StoreDeleted ==
    ASSUME AccessTypes, DeletedInv, NEW c \in AccessCalls, NEW id \in Ids, K!Store(c, id)
    PROVE  DeletedInv'
  <1>1. PICK w : w = [id |-> id, phone |-> call[c].phone, status |-> "active"]
    OBVIOUS
  <1>2. /\ users' = users \cup {w} /\ w.id = id /\ \A u \in users : u.id # id
        /\ UNCHANGED <<load, rows, shownDeleted, mixed>>
    BY <1>1 DEF K!Store
  <1>3. OneEach(users')
    BY <1>2 DEF DeletedInv, OneEach
  <1>4. KnewInv'
    <2>1. call[c].kind = "create" /\ call' = [call EXCEPT ![c].at = "done"]
      BY DEF K!Store
    <2>2. call'[c].kind = "create" /\ \A d \in AccessCalls \ {c} : call'[d] = call[d]
      <3>1. call[c] \in CreateCall
        BY <2>1, CallTyped
      <3>2. QED
        BY <2>1, <3>1 DEF AccessTypes, CreateCall
    <2>3. ASSUME NEW d \in AccessCalls, call'[d].kind = "status", call'[d].knew
          PROVE  /\ call'[d].status \in {"kept", "deleted"}
                 /\ \E u \in users' : u.id = call'[d].id
                 /\ SaidDeleted(call'[d].id, users')
      <3>1. d # c
        BY <2>2, <2>3
      <3>2. call'[d] = call[d]
        BY <2>2, <3>1
      <3>3. /\ call[d].status \in {"kept", "deleted"}
            /\ \E u \in users : u.id = call[d].id
            /\ SaidDeleted(call[d].id, users)
        BY <2>3, <3>2 DEF DeletedInv, KnewInv
      <3>4. QED
        BY <1>2, <3>2, <3>3 DEF SaidDeleted
    <2>4. QED
      BY <2>3 DEF KnewInv
  <1>5. ASSUME NEW p \in AdminPages \ mixed', NEW i \in shownDeleted'[p]
        PROVE  (\E u \in users' : u.id = i) /\ SaidDeleted(i, users')
    <2>1. (\E u \in users : u.id = i) /\ SaidDeleted(i, users)
      BY <1>2, <1>5 DEF DeletedInv
    <2>2. QED
      BY <1>2, <2>1, SMTT(60) DEF SaidDeleted
  <1>6. QED
    BY <1>2, <1>3, <1>4, <1>5 DEF DeletedInv, ReadRowsOf

\* A user who is no longer deleted is no longer shown as such.
LEMMA SetStatusDeleted ==
    ASSUME AccessTypes, DeletedInv, K!RevivedUnaware, NEW c \in AccessCalls, K!SetStatus(c)
    PROVE  DeletedInv' /\ K!RevivedUnaware'
  <1>1. /\ users' \in SUBSET Member
        /\ call[c] \in StatusCall
        /\ \A u \in users' : \E v \in users :
              /\ u.id = v.id /\ u.phone = v.phone
              /\ IF v.id = call[c].id THEN u.status = call[c].status ELSE u = v
        /\ \A v \in users : \E u \in users' : u.id = v.id
    BY StatusWritten
  <1>2. call[c].knew => call[c].status = "deleted"
    BY <1>1 DEF K!SetStatus, DeletedInv, KnewInv
  <1>3. UNCHANGED <<load, rows, mixed>> /\ K!RevivedUnaware'
    BY <1>2 DEF K!SetStatus, K!RevivedUnaware
  <1>4. ASSUME NEW d \in AccessCalls, call'[d].kind = "status", call'[d].knew
        PROVE  /\ call'[d].status \in {"kept", "deleted"}
               /\ \E u \in users' : u.id = call'[d].id
               /\ SaidDeleted(call'[d].id, users')
    <2>1. /\ call[d].kind = "status" /\ call[d].knew
          /\ call'[d].id = call[d].id /\ call'[d].status = call[d].status
          /\ call[c].status = "deleted" \/ call[d].id # call[c].id
      BY <1>4, CallsWritten
    <2>2. /\ call[d].status \in {"kept", "deleted"}
          /\ \E u \in users : u.id = call[d].id
          /\ SaidDeleted(call[d].id, users)
      BY <2>1 DEF DeletedInv, KnewInv
    <2>3. QED
      BY <1>1, <2>1, <2>2 DEF SaidDeleted
  <1>5. OneEach(users')
    <2>1. ASSUME NEW u \in users', NEW v \in users', u.id = v.id
          PROVE  u = v
      <3>1. users' = {IF x.id = call[c].id THEN [x EXCEPT !.status = call[c].status] ELSE x : x \in users}
        BY DEF K!SetStatus
      <3>2. PICK x \in users : u = IF x.id = call[c].id THEN [x EXCEPT !.status = call[c].status] ELSE x
        BY <3>1
      <3>3. PICK y \in users : v = IF y.id = call[c].id THEN [y EXCEPT !.status = call[c].status] ELSE y
        BY <3>1
      <3>4. u.id = x.id /\ v.id = y.id
        <4>1. x \in Member /\ y \in Member
          BY DEF AccessTypes
        <4>2. QED
          BY <3>2, <3>3, <4>1 DEF Member
      <3>5. x = y
        BY <2>1, <3>4 DEF DeletedInv, OneEach
      <3>6. QED
        BY <3>2, <3>3, <3>5
    <2>2. QED
      BY <2>1 DEF OneEach
  <1>6. ASSUME NEW p \in AdminPages \ mixed, NEW i \in shownDeleted'[p]
        PROVE  /\ i \in shownDeleted[p]
               /\ (\E u \in users' : u.id = i) /\ SaidDeleted(i, users')
    <2>1. /\ i \in shownDeleted[p]
          /\ i = call[c].id => call[c].status = "deleted"
      BY <1>6 DEF K!SetStatus, AccessTypes
    <2>2. (\E u \in users : u.id = i) /\ SaidDeleted(i, users)
      BY <1>6, <2>1 DEF DeletedInv
    <2>3. QED
      BY <1>1, <2>1, <2>2 DEF SaidDeleted
  <1>7. QED
    BY <1>3, <1>4, <1>5, <1>6 DEF DeletedInv, KnewInv, ReadRowsOf

\* A page reads its list: the second that is under way marks it.
LEMMA AskKeeps ==
    ASSUME AccessTypes, DeletedInv, NEW p \in AdminPages, NEW l \in Loads, K!Ask(p, l),
           UNCHANGED <<users, rows, shownDeleted>>, KnewInv',
           call' \in [AccessCalls -> {K!NoCall} \cup CreateCall \cup StatusCall]
    PROVE  AccessTypes' /\ DeletedInv'
  <1>1. PICK r : r = [at |-> "sent", page |-> p]
    OBVIOUS
  <1>2. /\ load[l] = K!NoLoad /\ load' = [load EXCEPT ![l] = r]
        /\ mixed \subseteq mixed'
        /\ p \notin mixed' => \A k \in Loads : load[k] = K!NoLoad \/ load[k].page # p
    BY <1>1 DEF K!Ask
  <1>3. r \in [at : {"sent"}, page : AdminPages] /\ r.at = "sent" /\ r.page = p
    BY <1>1
  <1>4. load'[l] = r /\ \A k \in Loads \ {l} : load'[k] = load[k]
    BY <1>2 DEF AccessTypes
  <1>5. AccessTypes'
    BY <1>2, <1>3 DEF AccessTypes
  <1>6. ASSUME NEW q \in AdminPages \ mixed', NEW k \in Loads, NEW m \in Loads,
               load'[k] # K!NoLoad, load'[m] # K!NoLoad, load'[k].page = q, load'[m].page = q
        PROVE  k = m
    <2>1. CASE k # l /\ m # l
      BY <1>2, <1>4, <1>6, <2>1 DEF DeletedInv
    <2>2. CASE k = l /\ m # l
      BY <1>2, <1>3, <1>4, <1>6, <2>2
    <2>3. CASE k # l /\ m = l
      BY <1>2, <1>3, <1>4, <1>6, <2>3
    <2>4. QED
      BY <2>1, <2>2, <2>3
  <1>7. \A k \in Loads, q \in AdminPages : load'[k].at = "read" => load[k].at = "read" /\ load'[k] = load[k]
    BY <1>3, <1>4
  <1>8. QED
    BY <1>2, <1>5, <1>6, <1>7 DEF DeletedInv, ReadRowsOf

\* The list is read: it says of each user what is so.
LEMMA ReadRowsKeeps ==
    ASSUME AccessTypes, DeletedInv, NEW l \in Loads, K!ReadRows(l)
    PROVE  AccessTypes' /\ DeletedInv'
  <1>1. PICK r : r = [at |-> "read", page |-> load[l].page, rows |-> users]
    OBVIOUS
  <1>2. /\ load[l].at = "sent" /\ load' = [load EXCEPT ![l] = r]
        /\ UNCHANGED <<users, call, rows, shownDeleted, mixed>>
    BY <1>1 DEF K!ReadRows, AccessTypes
  <1>3. load[l] # K!NoLoad /\ load[l].page \in AdminPages
    BY <1>2, LoadTyped
  <1>4. r \in RowsRead /\ r.at = "read" /\ r.page = load[l].page /\ r.rows = users /\ r # K!NoLoad
    BY <1>1, <1>3 DEF RowsRead, AccessTypes, K!NoLoad
  <1>5. load'[l] = r /\ \A k \in Loads \ {l} : load'[k] = load[k]
    BY <1>2 DEF AccessTypes
  <1>6. AccessTypes'
    BY <1>2, <1>4 DEF AccessTypes
  <1>7. \A k \in Loads : load'[k].at = "read" => OneEach(load'[k].rows)
    BY <1>4, <1>5 DEF DeletedInv
  <1>8. \A k \in Loads : load'[k] # K!NoLoad => load[k] # K!NoLoad /\ load'[k].page = load[k].page
    BY <1>3, <1>4, <1>5
  <1>9. \A q \in AdminPages \ mixed' : \A k, m \in Loads :
          load'[k] # K!NoLoad /\ load'[m] # K!NoLoad /\ load'[k].page = q /\ load'[m].page = q => k = m
    BY <1>2, <1>8 DEF DeletedInv
  <1>10. ASSUME NEW q \in AdminPages \ mixed', NEW i \in shownDeleted'[q], NEW k \in Loads, ReadRowsOf(k, q)'
         PROVE  SaidDeleted(i, load'[k].rows)
    <2>1. SaidDeleted(i, users) /\ (k # l /\ ReadRowsOf(k, q) => SaidDeleted(i, load[k].rows))
      BY <1>2, <1>10 DEF DeletedInv
    <2>2. QED
      BY <1>4, <1>5, <1>10, <2>1 DEF ReadRowsOf
  <1>11. KnewInv'
    BY <1>2, KnewLeft DEF DeletedInv
  <1>12. QED
    BY <1>2, <1>6, <1>7, <1>9, <1>10, <1>11 DEF DeletedInv

\* The list is shown: whom it has as deleted, and who is so still, is known to be.
LEMMA LandKeeps ==
    ASSUME AccessTypes, DeletedInv, NEW l \in Loads, K!Land(l)
    PROVE  AccessTypes' /\ DeletedInv'
  <1>1. PICK p, gone : /\ p = load[l].page
                       /\ gone = {row.id : row \in {r \in load[l].rows : r.status = "deleted" /\ K!Deleted(r.id)}}
    OBVIOUS
  <1>2. load[l].at = "read" /\ load[l] \in RowsRead /\ load[l] # K!NoLoad
    BY LoadTyped DEF K!Land
  <1>3. p \in AdminPages /\ load[l].rows \in SUBSET Member
    BY <1>1, <1>2 DEF RowsRead
  <1>4. /\ rows' = [rows EXCEPT ![p] = load[l].rows]
        /\ shownDeleted' = [shownDeleted EXCEPT ![p] = @ \cup gone]
        /\ load' = [load EXCEPT ![l] = K!NoLoad]
        /\ UNCHANGED <<users, call, mixed>>
    BY <1>1 DEF K!Land
  <1>5. gone \in SUBSET Ids
    BY <1>1, <1>3 DEF Member
  <1>6. AccessTypes'
    BY <1>3, <1>4, <1>5 DEF AccessTypes
  <1>7. load'[l] = K!NoLoad /\ \A k \in Loads \ {l} : load'[k] = load[k]
    BY <1>4 DEF AccessTypes
  <1>8. \A k \in Loads : load'[k].at = "read" => OneEach(load'[k].rows)
    BY <1>7 DEF DeletedInv, K!NoLoad
  <1>9. \A q \in AdminPages \ mixed' : \A k, m \in Loads :
          load'[k] # K!NoLoad /\ load'[m] # K!NoLoad /\ load'[k].page = q /\ load'[m].page = q => k = m
    BY <1>4, <1>7 DEF DeletedInv
  <1>10. ASSUME NEW q \in AdminPages \ mixed', NEW i \in shownDeleted'[q]
         PROVE  /\ \E u \in users' : u.id = i
                /\ SaidDeleted(i, users') /\ SaidDeleted(i, rows'[q])
                /\ \A k \in Loads : ReadRowsOf(k, q)' => SaidDeleted(i, load'[k].rows)
    <2>1. CASE q # p
      <3>1. shownDeleted'[q] = shownDeleted[q] /\ rows'[q] = rows[q]
        BY <1>4, <2>1 DEF AccessTypes
      <3>2. \A k \in Loads : ReadRowsOf(k, q)' => ReadRowsOf(k, q) /\ load'[k] = load[k]
        BY <1>7 DEF ReadRowsOf, K!NoLoad
      <3>3. QED
        BY <1>4, <1>10, <3>1, <3>2 DEF DeletedInv
    <2>2. CASE q = p
      <3>1. rows'[p] = load[l].rows /\ shownDeleted'[p] = shownDeleted[p] \cup gone /\ p \notin mixed
        BY <1>3, <1>4, <1>10, <2>2 DEF AccessTypes
      <3>2. \A k \in Loads : ~ReadRowsOf(k, p)'
        <4>1. ASSUME NEW k \in Loads, ReadRowsOf(k, p)'
              PROVE  FALSE
          <5>1. k # l /\ load[k].at = "read" /\ load[k].page = p
            BY <1>7, <4>1 DEF ReadRowsOf, K!NoLoad
          <5>2. load[k] # K!NoLoad
            BY <5>1, LoadTyped
          <5>3. QED
            BY <1>1, <1>2, <1>3, <3>1, <5>1, <5>2 DEF DeletedInv
        <4>2. QED
          BY <4>1
      <3>3. CASE i \in shownDeleted[p]
        <4>1. ReadRowsOf(l, p)
          BY <1>1, <1>2 DEF ReadRowsOf
        <4>2. (\E u \in users : u.id = i) /\ SaidDeleted(i, users) /\ SaidDeleted(i, load[l].rows)
          BY <1>3, <3>1, <3>3, <4>1 DEF DeletedInv
        <4>3. QED
          BY <1>4, <2>2, <3>1, <3>2, <4>2
      <3>4. CASE i \in gone
        <4>1. PICK row \in load[l].rows : row.id = i /\ row.status = "deleted" /\ K!Deleted(i)
          BY <1>1, <3>4
        <4>2. SaidDeleted(i, load[l].rows)
          BY <1>2, <4>1 DEF DeletedInv, OneEach, SaidDeleted
        <4>3. (\E u \in users : u.id = i) /\ SaidDeleted(i, users)
          BY <4>1 DEF K!Deleted, DeletedInv, OneEach, SaidDeleted
        <4>4. QED
          BY <1>4, <2>2, <3>1, <3>2, <4>2, <4>3
      <3>5. QED
        BY <1>10, <2>2, <3>1, <3>3, <3>4
    <2>3. QED
      BY <2>1, <2>2
  <1>11. KnewInv'
    BY <1>4, KnewLeft DEF DeletedInv
  <1>12. QED
    BY <1>4, <1>6, <1>8, <1>9, <1>10, <1>11 DEF DeletedInv

\* A list that is lost.
LEMMA LoseRowsKeeps ==
    ASSUME AccessTypes, DeletedInv, NEW l \in Loads, K!LoseRows(l)
    PROVE  AccessTypes' /\ DeletedInv'
  <1>1. load' = [load EXCEPT ![l] = K!NoLoad] /\ UNCHANGED <<users, call, rows, shownDeleted, mixed>>
    BY DEF K!LoseRows
  <1>2. load'[l] = K!NoLoad /\ \A k \in Loads \ {l} : load'[k] = load[k]
    BY <1>1 DEF AccessTypes
  <1>3. AccessTypes'
    BY <1>1 DEF AccessTypes
  <1>4. \A k \in Loads : load'[k].at = "read" => load'[k] = load[k]
    BY <1>2 DEF K!NoLoad
  <1>5. \A k \in Loads : load'[k] # K!NoLoad => load'[k] = load[k]
    BY <1>2
  <1>6. KnewInv'
    BY <1>1, KnewLeft DEF DeletedInv
  <1>7. QED
    BY <1>1, <1>3, <1>4, <1>5, <1>6 DEF DeletedInv, ReadRowsOf

-----------------------------------------------------------------------------
AccessInv ==
    AccessTypes /\ PhoneInv /\ K!PhonesOwn /\ DeletedInv /\ K!RevivedUnaware

\* Calls that look for a phone, are answered or are given up.
LEMMA CallEnds ==
    ASSUME AccessInv, NEW c \in AccessCalls, NEW next \in {K!NoCall} \cup CreateCall,
           call' = [call EXCEPT ![c] = next], UNCHANGED users,
           next # K!NoCall => /\ Creates(c) /\ next.phone = call[c].phone
                              /\ next.at = "free" => K!FreePhone(call[c].phone)
    PROVE  /\ call' \in [AccessCalls -> {K!NoCall} \cup CreateCall \cup StatusCall]
           /\ KnewInv'
           /\ \A d \in AccessCalls : Creates(d)' =>
                 /\ Creates(d) /\ call'[d].phone = call[d].phone
                 /\ call'[d].at = "free" => call[d].at = "free" \/ K!FreePhone(call[d].phone)
  <1>1. call'[c] = next /\ \A d \in AccessCalls \ {c} : call'[d] = call[d]
    BY DEF AccessInv, AccessTypes
  <1>2. next.kind # "status" /\ (next.kind = "create" => next # K!NoCall)
    BY DEF K!NoCall, CreateCall
  <1>3. call' \in [AccessCalls -> {K!NoCall} \cup CreateCall \cup StatusCall]
    BY DEF AccessInv, AccessTypes
  <1>4. KnewInv'
    <2>1. \A d \in AccessCalls : call'[d].kind = "status" => call'[d] = call[d]
      BY <1>1, <1>2
    <2>2. QED
      BY <2>1, KnewLeft DEF AccessInv, DeletedInv
  <1>5. ASSUME NEW d \in AccessCalls, Creates(d)'
        PROVE  /\ Creates(d) /\ call'[d].phone = call[d].phone
               /\ call'[d].at = "free" => call[d].at = "free" \/ K!FreePhone(call[d].phone)
    <2>1. CASE d = c
      <3>1. call'[d] = next
        BY <1>1, <2>1
      <3>2. next.kind = "create"
        BY <1>5, <3>1 DEF Creates
      <3>3. next # K!NoCall
        BY <1>2, <3>2
      <3>4. QED
        BY <2>1, <3>1, <3>3
    <2>2. CASE d # c
      <3>1. call'[d] = call[d]
        BY <1>1, <2>2
      <3>2. QED
        BY <1>5, <3>1 DEF Creates
    <2>3. QED
      BY <2>1, <2>2
  <1>6. QED
    BY <1>3, <1>4, <1>5

\* Each step keeps all of it.
LEMMA AccessNext ==
    ASSUME AccessInv, [K!Next]_K!accessVars
    PROVE  AccessInv'
  <1> USE DEF AccessInv
  <1>1. ASSUME NEW c \in AccessCalls, NEW p \in AdminPages \cup {App, Client}, NEW phone \in UserPhones,
               K!Create(c, p, phone)
        PROVE  AccessInv'
    <2>1. PICK made : made = [kind |-> "create", phone |-> phone, page |-> p, at |-> "sent"]
      OBVIOUS
    <2>2. call' = [call EXCEPT ![c] = made] /\ made.kind = "create"
      BY <1>1, <2>1 DEF K!Create, K!Send
    <2>3. KnewInv'
      <3>1. \A d \in AccessCalls : call'[d].kind = "status" => call'[d] = call[d]
        BY <2>2 DEF AccessTypes
      <3>2. QED
        BY <1>1, <3>1, KnewLeft DEF K!Create, DeletedInv
    <2>4. DeletedInv'
      BY <1>1, <2>3, DeletedLeft DEF K!Create
    <2>5. K!RevivedUnaware'
      BY <1>1 DEF K!Create, K!RevivedUnaware
    <2>6. QED
      BY <1>1, <2>4, <2>5, CreateKeeps
  <1>2. ASSUME NEW c \in AccessCalls, K!LookUp(c) \/ K!Abandon(c)
        PROVE  AccessInv'
    <2>1. PICK next \in {K!NoCall} \cup CreateCall :
             /\ call' = [call EXCEPT ![c] = next]
             /\ next # K!NoCall => /\ Creates(c) /\ next.phone = call[c].phone
                                   /\ next.at = "free" => K!FreePhone(call[c].phone)
      <3>1. CASE call' = [call EXCEPT ![c] = K!NoCall]
        BY <3>1
      <3>2. CASE K!LookUp(c) /\ call' # [call EXCEPT ![c] = K!NoCall]
        <4>1. PICK next : next = [call[c] EXCEPT !.at = "free"]
          OBVIOUS
        <4>2. call[c].kind = "create" /\ K!FreePhone(call[c].phone) /\ call' = [call EXCEPT ![c] = next]
          BY <3>2, <4>1 DEF K!LookUp, AccessTypes
        <4>3. call[c] \in CreateCall
          BY <4>2, CallTyped
        <4>4. next \in CreateCall /\ next.phone = call[c].phone
          BY <4>1, <4>3 DEF CreateCall
        <4>5. QED
          BY <4>2, <4>4 DEF Creates
      <3>3. QED
        BY <1>2, <3>1, <3>2 DEF K!Abandon
    <2>2. /\ call' \in [AccessCalls -> {K!NoCall} \cup CreateCall \cup StatusCall]
          /\ KnewInv'
          /\ \A d \in AccessCalls : Creates(d)' =>
                /\ Creates(d) /\ call'[d].phone = call[d].phone
                /\ call'[d].at = "free" => call[d].at = "free" \/ K!FreePhone(call[d].phone)
      <3>1. UNCHANGED users
        BY <1>2 DEF K!LookUp, K!Abandon
      <3>2. QED
        BY <2>1, <3>1, CallEnds
    <2>3. UNCHANGED <<users, load, rows, shownDeleted, mixed, alongside, revived>>
      BY <1>2 DEF K!LookUp, K!Abandon
    <2>4. AccessTypes' /\ K!RevivedUnaware'
      BY <2>2, <2>3 DEF AccessTypes, K!RevivedUnaware
    <2>5. PhoneInv' /\ K!PhonesOwn'
      BY <2>2, <2>3, PhonesLeft
    <2>6. DeletedInv'
      BY <2>2, <2>3, DeletedLeft
    <2>7. QED
      BY <2>4, <2>5, <2>6
  <1>3. ASSUME NEW c \in AccessCalls, NEW id \in Ids, K!Store(c, id)
        PROVE  AccessInv'
    BY <1>3, StoreKeeps, StoreDeleted DEF K!Store, K!RevivedUnaware
  <1>4. ASSUME NEW c \in AccessCalls, K!SetStatus(c)
        PROVE  AccessInv'
    BY <1>4, SetStatusKeeps, SetStatusDeleted
  <1>5. ASSUME NEW c \in AccessCalls, NEW p \in AdminPages, NEW id \in Ids,
               \/ \E status \in {"active", "suspended"} : K!UpdateStatus(c, p, id, status)
               \/ K!DeleteUser(c, p, id)
        PROVE  AccessInv'
    <2>1. K!RevivedUnaware'
      BY <1>5 DEF K!UpdateStatus, K!DeleteUser, K!RevivedUnaware
    <2>2. AccessTypes' /\ PhoneInv' /\ K!PhonesOwn' /\ DeletedInv'
      BY <1>5, RequestKeeps
    <2>3. QED
      BY <2>1, <2>2
  <1>6. ASSUME NEW c \in AccessCalls, NEW l \in Loads, K!Answer(c, l)
        PROVE  AccessInv'
    <2>1. /\ call[c].page \in AdminPages /\ K!Ask(call[c].page, l)
          /\ call' = [call EXCEPT ![c] = K!NoCall]
          /\ UNCHANGED <<users, rows, shownDeleted, alongside, revived>>
      BY <1>6 DEF K!Answer
    <2>2. /\ call' \in [AccessCalls -> {K!NoCall} \cup CreateCall \cup StatusCall]
          /\ KnewInv'
          /\ \A d \in AccessCalls : Creates(d)' =>
                /\ Creates(d) /\ call'[d].phone = call[d].phone
                /\ call'[d].at = "free" => call[d].at = "free" \/ K!FreePhone(call[d].phone)
      BY <2>1, CallEnds
    <2>3. AccessTypes' /\ DeletedInv'
      BY <2>1, <2>2, AskKeeps
    <2>4. PhoneInv' /\ K!PhonesOwn'
      BY <2>1, <2>2, PhonesLeft
    <2>5. QED
      BY <2>1, <2>3, <2>4 DEF K!RevivedUnaware
  <1>7. ASSUME NEW p \in AdminPages, NEW l \in Loads, K!Refresh(p, l)
        PROVE  AccessInv'
    <2>1. K!Ask(p, l) /\ UNCHANGED <<users, call, rows, shownDeleted, alongside, revived>>
      BY <1>7 DEF K!Refresh
    <2>2. KnewInv' /\ call' \in [AccessCalls -> {K!NoCall} \cup CreateCall \cup StatusCall]
      BY <2>1, KnewLeft DEF AccessTypes, DeletedInv
    <2>5. AccessTypes' /\ DeletedInv'
      BY <2>1, <2>2, AskKeeps
    <2>3. PhoneInv' /\ K!PhonesOwn' /\ K!RevivedUnaware'
      BY <2>1, PhonesLeft DEF Creates, K!RevivedUnaware
    <2>4. QED
      BY <2>3, <2>5
  <1>8. ASSUME NEW l \in Loads, K!ReadRows(l) \/ K!Land(l) \/ K!LoseRows(l)
        PROVE  AccessInv'
    <2>1. AccessTypes' /\ DeletedInv'
      BY <1>8, ReadRowsKeeps, LandKeeps, LoseRowsKeeps
    <2>2. UNCHANGED <<users, call, alongside, revived>>
      BY <1>8 DEF K!ReadRows, K!Land, K!LoseRows
    <2>3. PhoneInv' /\ K!PhonesOwn' /\ K!RevivedUnaware'
      BY <2>2, PhonesLeft DEF Creates, K!RevivedUnaware
    <2>4. QED
      BY <2>1, <2>3
  <1>9. CASE UNCHANGED K!accessVars
    <2>1. UNCHANGED <<users, call, load, rows, shownDeleted, mixed, alongside, revived>>
      BY <1>9 DEF K!accessVars
    <2>2. PhoneInv' /\ K!PhonesOwn' /\ K!RevivedUnaware' /\ AccessTypes'
      BY <2>1, PhonesLeft DEF Creates, K!RevivedUnaware, AccessTypes
    <2>3. DeletedInv'
      BY <2>1, KnewLeft, DeletedLeft DEF DeletedInv
    <2>4. QED
      BY <2>2, <2>3
  <1>10. ASSUME NEW c \in AccessCalls, NEW p \in {App, Client}, NEW id \in Ids, K!UpdateFields(c, p, id)
         PROVE  AccessInv'
    <2>1. K!RevivedUnaware'
      BY <1>10 DEF K!UpdateFields, K!RevivedUnaware
    <2>2. QED
      BY <1>10, <2>1, UpdateKeeps
  <1>11. ASSUME NEW c \in AccessCalls, K!ReadStatus(c)
         PROVE  AccessInv'
    <2>1. K!RevivedUnaware'
      BY <1>11 DEF K!ReadStatus, K!RevivedUnaware
    <2>2. QED
      BY <1>11, <2>1, ReadStatusKeeps
  <1>12. QED
    BY <1>1, <1>2, <1>3, <1>4, <1>5, <1>6, <1>7, <1>8, <1>9, <1>10, <1>11 DEF K!Next

\* All of it holds of users, calls and pages in every state.
LEMMA AccessHolds == K!Spec => []AccessInv
  <1>1. K!Init => AccessInv
    <2> SUFFICES ASSUME K!Init PROVE AccessInv
      OBVIOUS
    <2>1. /\ users = {} /\ rows = [p \in AdminPages |-> {}] /\ shownDeleted = [p \in AdminPages |-> {}]
          /\ \A c \in AccessCalls : call[c] = K!NoCall
          /\ \A l \in Loads : load[l] = K!NoLoad
          /\ call \in [AccessCalls -> {K!NoCall}] /\ load \in [Loads -> {K!NoLoad}] /\ revived = {}
      BY DEF K!Init, K!InitWith
    <2>2. AccessTypes
      BY <2>1 DEF AccessTypes
    <2>3. QED
      BY <2>1, <2>2 DEF AccessInv, PhoneInv, K!PhonesOwn, DeletedInv, KnewInv, K!RevivedUnaware, Creates,
                        OneEach, K!NoCall, K!NoLoad, ReadRowsOf
  <1>2. AccessInv /\ [K!Next]_K!accessVars => AccessInv'
    BY AccessNext
  <1>3. QED
    BY <1>1, <1>2, PTL DEF K!Spec

\* However many are created, listed, suspended and deleted from however many pages, and
\* however their other fields are updated meanwhile: users have one phone only if they
\* were created together, and who is deleted is brought back only by a page that has
\* not shown it, or that received two lists crossed, or by an update that was sent
\* before he was deleted (users-db.ts lines 132-187, access/page.tsx lines 96-110,
\* 139-153, 310-325).
THEOREM AccountsStayKept == K!Spec => []AccountsKept
  <1>1. AccessInv => AccountsKept
    BY DEF AccessInv, AccountsKept
  <1>2. QED
    BY <1>1, AccessHolds, PTL

-----------------------------------------------------------------------------
(* The page for MiniPay: connecting.                                       *)

ConnectSteps == {"none", "connecting", "opening", "refreshing"}

MiniTypes ==
    /\ opening \in [MiniCalls -> [step : ConnectSteps, account : WalletAccounts \cup {NoAccount}]]
    /\ address \in WalletAccounts \cup {NoAccount}

\* While a call connects no other is under way, and the page shows no balance.
ConnectInv ==
    config.deployed /\ ~clicked =>
       /\ \A c \in MiniCalls : opening[c].step \in {"connecting", "opening"} =>
             view \in {"loading", "connect"} /\ \A d \in MiniCalls \ {c} : opening[d].step = "none"
       /\ \A c \in MiniCalls : opening[c].step = "refreshing" => view \in {"dashboard", "send"}
       /\ \A c \in MiniCalls : opening[c].step \in {"opening", "refreshing"} => opening[c].account = address
       /\ \A s \in Sends : send[s].at # "none" => view \in {"dashboard", "send"}

SendsTyped == send \in [Sends -> [at : {"none", "asked", "sent", "over"}, shown : BOOLEAN]]

MiniInv == MiniTypes /\ SendsTyped /\ ConnectInv /\ M!OwnBalanceShown

\* A call is what it was or what was begun.
LEMMA CallChanges ==
    ASSUME MiniTypes, NEW c \in MiniCalls, NEW o \in [step : ConnectSteps, account : WalletAccounts \cup {NoAccount}],
           opening' = [opening EXCEPT ![c] = o]
    PROVE  /\ opening' \in [MiniCalls -> [step : ConnectSteps, account : WalletAccounts \cup {NoAccount}]]
           /\ opening'[c] = o /\ \A d \in MiniCalls \ {c} : opening'[d] = opening[d]
  BY DEF MiniTypes

\* Leaving the form changes no more than whether sends are shown.
LEMMA ShowSends ==
    ASSUME SendsTyped, NEW v, M!Show(v)
    PROVE  SendsTyped' /\ \A s \in Sends : send'[s].at # "none" => send[s].at # "none"
  <1>1. CASE UNCHANGED send
    BY <1>1 DEF SendsTyped
  <1>2. CASE M!Unmount
    <2>1. send' = [s \in Sends |-> [send[s] EXCEPT !.shown = FALSE]]
      BY <1>2 DEF M!Unmount
    <2>2. ASSUME NEW s \in Sends
          PROVE  /\ send'[s] \in [at : {"none", "asked", "sent", "over"}, shown : BOOLEAN]
                 /\ send'[s].at = send[s].at
      <3>1. send[s] \in [at : {"none", "asked", "sent", "over"}, shown : BOOLEAN]
            /\ send'[s] = [send[s] EXCEPT !.shown = FALSE]
        BY <2>1 DEF SendsTyped
      <3>2. send'[s] \in [at : {"none", "asked", "sent", "over"}, shown : BOOLEAN]
        BY <3>1
      <3>3. send'[s].at = send[s].at
        BY <3>1
      <3>4. QED
        BY <3>2, <3>3
    <2>3. QED
      BY <2>1, <2>2 DEF SendsTyped
  <1>3. QED
    BY <1>1, <1>2 DEF M!Show

\* Calls to the wallet keep the balance shown with its account.
LEMMA ConnectKeeps ==
    ASSUME MiniInv, NEW c \in MiniCalls,
           \/ M!Initialize(c) \/ M!ClickConnect(c) \/ M!ConnectRefused(c) \/ M!WrongNetwork(c)
           \/ \E a \in WalletAccounts : M!Connected(c, a)
           \/ M!LandBalance(c) \/ M!Refresh(c) \/ M!Done(c)
    PROVE  MiniInv'
  <1> USE DEF MiniInv
  <1> DEFINE O == [step : ConnectSteps, account : WalletAccounts \cup {NoAccount}]
  <1>0. \A x \in ConnectSteps, a \in WalletAccounts \cup {NoAccount} : [step |-> x, account |-> a] \in O
    OBVIOUS
  <1>1. M!NoCall \in O /\ M!NoCall.step = "none"
    BY DEF M!NoCall, ConnectSteps
  <1>2. \A d \in MiniCalls : opening[d] \in O
    BY DEF MiniTypes
  <1>3. CASE M!Initialize(c)
    <2>1. view = "loading" /\ \A d \in MiniCalls : opening[d].step = "none"
      BY <1>3 DEF M!Initialize, M!Idle
    <2>2. UNCHANGED <<config, address, balanceOf, clicked, successHash, screen, send>>
      BY <1>3 DEF M!Initialize, M!paying
    <2>3. CASE UNCHANGED opening /\ view' \in {"connect", "no-wallet"}
      BY <2>1, <2>2, <2>3 DEF MiniTypes, SendsTyped, ConnectInv, M!OwnBalanceShown
    <2>4. CASE M!Begin(c, "connecting", NoAccount) /\ UNCHANGED view
      <3>1. PICK o : o = [step |-> "connecting", account |-> NoAccount]
        OBVIOUS
      <3>2. o \in O /\ o.step = "connecting" /\ opening' = [opening EXCEPT ![c] = o]
        BY <2>4, <3>1 DEF M!Begin, ConnectSteps
      <3>3. opening' \in [MiniCalls -> O] /\ opening'[c] = o /\ \A d \in MiniCalls \ {c} : opening'[d] = opening[d]
        BY <3>2, CallChanges
      <3>4. QED
        BY <2>1, <2>2, <2>4, <3>2, <3>3 DEF MiniTypes, SendsTyped, ConnectInv, M!OwnBalanceShown
    <2>5. QED
      BY <1>3, <2>3, <2>4 DEF M!Initialize
  <1>4. CASE M!ClickConnect(c)
    <2>1. PICK o : o = [step |-> "connecting", account |-> NoAccount]
      OBVIOUS
    <2>2. /\ view = "connect" /\ o \in O /\ o.step = "connecting" /\ opening' = [opening EXCEPT ![c] = o]
          /\ UNCHANGED <<config, view, address, balanceOf, successHash, screen, send>>
      BY <1>4, <2>1 DEF M!ClickConnect, M!Begin, ConnectSteps, M!paying
    <2>3. opening' \in [MiniCalls -> O] /\ opening'[c] = o /\ \A d \in MiniCalls \ {c} : opening'[d] = opening[d]
      BY <2>2, CallChanges
    <2>4. ~clicked' => ~clicked /\ \A d \in MiniCalls : opening[d].step = "none"
      BY <1>4, Zenon DEF M!ClickConnect, M!Idle
    <2>5. QED
      BY <2>2, <2>3, <2>4 DEF MiniTypes, SendsTyped, ConnectInv, M!OwnBalanceShown
  <1>5. CASE M!ConnectRefused(c)
    <2>1. /\ opening' = [opening EXCEPT ![c] = M!NoCall]
          /\ UNCHANGED <<config, view, address, balanceOf, clicked, successHash, screen, send>>
      BY <1>5 DEF M!ConnectRefused, M!paying
    <2>2. opening' \in [MiniCalls -> O] /\ opening'[c] = M!NoCall /\ \A d \in MiniCalls \ {c} : opening'[d] = opening[d]
      BY <1>1, <2>1, CallChanges
    <2>3. QED
      BY <1>1, <2>1, <2>2 DEF MiniTypes, SendsTyped, ConnectInv, M!OwnBalanceShown
  <1>6. CASE M!WrongNetwork(c)
    <2>1. /\ opening[c].step = "connecting" /\ opening' = [opening EXCEPT ![c] = M!NoCall]
          /\ view' = "wrong-network" /\ M!Show("wrong-network")
          /\ UNCHANGED <<config, address, balanceOf, clicked>>
      BY <1>6 DEF M!WrongNetwork, M!Show
    <2>2. opening' \in [MiniCalls -> O] /\ opening'[c] = M!NoCall /\ \A d \in MiniCalls \ {c} : opening'[d] = opening[d]
      BY <1>1, <2>1, CallChanges
    <2>3. SendsTyped' /\ \A s \in Sends : send'[s].at # "none" => send[s].at # "none"
      BY <2>1, ShowSends
    <2>4. MiniTypes'
      BY <2>1, <2>2 DEF MiniTypes
    <2>5. ASSUME config.deployed, ~clicked
          PROVE  /\ \A d \in MiniCalls : opening'[d].step = "none"
                 /\ \A s \in Sends : send'[s].at = "none"
      BY <1>1, <2>1, <2>2, <2>3, <2>5 DEF ConnectInv
    <2>6. QED
      BY <2>1, <2>3, <2>4, <2>5 DEF ConnectInv, M!OwnBalanceShown
  <1>7. ASSUME NEW a \in WalletAccounts, M!Connected(c, a)
        PROVE  MiniInv'
    <2>1. /\ opening[c].step = "connecting" /\ address' = a
          /\ UNCHANGED <<config, balanceOf, clicked>>
      BY <1>7 DEF M!Connected
    <2>2. CASE config.deployed
      <3>1. PICK o : o = [step |-> "opening", account |-> a]
        OBVIOUS
      <3>2. /\ o \in O /\ o.step = "opening" /\ o.account = a
            /\ opening' = [opening EXCEPT ![c] = o] /\ UNCHANGED <<view, send>>
        BY <1>7, <2>2, <3>1 DEF M!Connected, ConnectSteps
      <3>3. opening' \in [MiniCalls -> O] /\ opening'[c] = o /\ \A d \in MiniCalls \ {c} : opening'[d] = opening[d]
        BY <3>2, CallChanges
      <3>4. MiniTypes' /\ SendsTyped'
        BY <2>1, <3>2, <3>3 DEF MiniTypes, SendsTyped
      <3>5. ASSUME ~clicked
            PROVE  view \in {"loading", "connect"} /\ \A d \in MiniCalls \ {c} : opening'[d].step = "none"
        BY <2>1, <2>2, <3>3, <3>5 DEF ConnectInv
      <3>6. ConnectInv'
        BY <2>1, <3>2, <3>3, <3>5 DEF ConnectInv
      <3>7. M!OwnBalanceShown'
        BY <2>1, <3>2, <3>5 DEF M!OwnBalanceShown
      <3>8. QED
        BY <3>4, <3>6, <3>7
    <2>3. CASE ~config.deployed
      <3>1. opening' = [opening EXCEPT ![c] = M!NoCall] /\ M!Show("dashboard")
        BY <1>7, <2>3 DEF M!Connected
      <3>2. opening' \in [MiniCalls -> O]
        BY <1>1, <3>1, CallChanges
      <3>3. SendsTyped'
        BY <3>1, ShowSends
      <3>4. QED
        BY <2>1, <2>3, <3>2, <3>3 DEF MiniTypes, ConnectInv, M!OwnBalanceShown
    <2>4. QED
      BY <2>2, <2>3
  <1>8. CASE M!LandBalance(c)
    <2>1. /\ opening[c].step \in {"opening", "refreshing"} /\ balanceOf' = opening[c].account
          /\ opening' = [opening EXCEPT ![c] = M!NoCall]
          /\ UNCHANGED <<config, address, clicked>>
      BY <1>8 DEF M!LandBalance
    <2>2. opening' \in [MiniCalls -> O] /\ opening'[c] = M!NoCall /\ \A d \in MiniCalls \ {c} : opening'[d] = opening[d]
      BY <1>1, <2>1, CallChanges
    <2>3. /\ SendsTyped' /\ \A s \in Sends : send'[s].at # "none" => send[s].at # "none"
          /\ opening[c].step = "opening" => view' = "dashboard"
          /\ opening[c].step = "refreshing" => view' = view
      <3>1. CASE opening[c].step = "opening"
        BY <1>8, <3>1, ShowSends DEF M!LandBalance, M!Show
      <3>2. CASE opening[c].step = "refreshing"
        BY <1>8, <3>2 DEF M!LandBalance, SendsTyped
      <3>3. QED
        BY <2>1, <3>1, <3>2
    <2>4. MiniTypes'
      BY <2>1, <2>2 DEF MiniTypes
    <2>5. ASSUME config.deployed, ~clicked
          PROVE  balanceOf' = address'
      BY <2>1, <2>5 DEF ConnectInv
    <2>6. ConnectInv'
      <3> SUFFICES ASSUME config.deployed, ~clicked
                   PROVE  ConnectInv'
        BY <2>1 DEF ConnectInv
      <3>1. CASE opening[c].step = "opening"
        <4>1. \A d \in MiniCalls : opening'[d].step = "none"
          BY <1>1, <2>2, <3>1 DEF ConnectInv
        <4>2. QED
          BY <2>3, <3>1, <4>1 DEF ConnectInv
      <3>2. CASE opening[c].step = "refreshing"
        <4>1. view' = view /\ view \in {"dashboard", "send"}
          BY <2>3, <3>2 DEF ConnectInv
        <4>2. \A d \in MiniCalls : opening'[d].step # "none" => opening'[d] = opening[d]
          BY <1>1, <2>2
        <4>3. QED
          BY <2>1, <2>2, <2>3, <4>1, <4>2 DEF ConnectInv
      <3>3. QED
        BY <2>1, <3>1, <3>2
    <2>7. QED
      BY <2>1, <2>3, <2>4, <2>5, <2>6 DEF M!OwnBalanceShown
  <1>9. CASE M!Refresh(c) \/ M!Done(c)
    <2>1. PICK o : o = [step |-> "refreshing", account |-> address]
      OBVIOUS
    <2>2. /\ view = "dashboard" /\ opening' = [opening EXCEPT ![c] = o]
          /\ UNCHANGED <<config, view, address, balanceOf, clicked, send>>
      BY <1>9, <2>1 DEF M!Refresh, M!Done, M!Dashboard, M!Begin, M!paying
    <2>3. o \in O /\ o.step = "refreshing" /\ o.account = address
      BY <2>1 DEF MiniTypes, ConnectSteps
    <2>4. opening' \in [MiniCalls -> O] /\ opening'[c] = o /\ \A d \in MiniCalls \ {c} : opening'[d] = opening[d]
      BY <2>2, <2>3, CallChanges
    <2>5. MiniTypes' /\ SendsTyped'
      BY <2>2, <2>4 DEF MiniTypes, SendsTyped
    <2>6. ASSUME config.deployed, ~clicked, NEW d \in MiniCalls, opening'[d].step \in {"connecting", "opening"}
          PROVE  FALSE
      <3>1. d # c /\ opening[d].step \in {"connecting", "opening"}
        BY <2>3, <2>4, <2>6
      <3>2. QED
        BY <2>2, <2>6, <3>1 DEF ConnectInv
    <2>7. ConnectInv' /\ M!OwnBalanceShown'
      BY <2>2, <2>3, <2>4, <2>6 DEF ConnectInv, M!OwnBalanceShown
    <2>8. QED
      BY <2>5, <2>7
  <1>10. QED
    BY <1>3, <1>4, <1>5, <1>6, <1>7, <1>8, <1>9

\* Payments begin only where the balance is shown, and leave it alone.
LEMMA PayKeeps ==
    ASSUME MiniInv, M!OpenSend \/ M!Back \/ M!Insufficient
                    \/ \E s \in Sends : M!Press(s) \/ M!WalletSends(s) \/ M!Succeed(s) \/ M!Fail(s)
    PROVE  MiniInv'
  <1> USE DEF MiniInv
  <1>1. CASE M!OpenSend
    BY <1>1 DEF M!OpenSend, M!Dashboard, M!connecting, M!paying, MiniTypes, SendsTyped, ConnectInv, M!OwnBalanceShown
  <1>2. CASE M!Back
    <2>1. view = "send" /\ view' = "dashboard" /\ M!Show("dashboard")
          /\ UNCHANGED <<config, address, balanceOf, opening, clicked>>
      BY <1>2 DEF M!Back, M!Show, M!connecting
    <2>2. SendsTyped' /\ \A s \in Sends : send'[s].at # "none" => send[s].at # "none"
      BY <2>1, ShowSends
    <2>3. QED
      BY <2>1, <2>2 DEF MiniTypes, ConnectInv, M!OwnBalanceShown
  <1>3. CASE M!Insufficient
    BY <1>3 DEF M!Insufficient, M!connecting, MiniTypes, SendsTyped, ConnectInv, M!OwnBalanceShown
  <1>4. ASSUME NEW s \in Sends, M!Press(s) \/ M!WalletSends(s) \/ M!Succeed(s) \/ M!Fail(s)
        PROVE  MiniInv'
    <2>1. UNCHANGED <<config, address, balanceOf, opening, clicked>>
      BY <1>4 DEF M!Press, M!WalletSends, M!Succeed, M!Fail, M!connecting
    <2>2. PICK to \in [at : {"none", "asked", "sent", "over"}, shown : BOOLEAN] :
             send' = [send EXCEPT ![s] = to]
      <3>1. CASE M!WalletSends(s)
        <4>1. send[s] \in [at : {"none", "asked", "sent", "over"}, shown : BOOLEAN]
          BY DEF SendsTyped
        <4>2. [send[s] EXCEPT !.at = "sent"] \in [at : {"none", "asked", "sent", "over"}, shown : BOOLEAN]
          BY <4>1
        <4>3. send' = [send EXCEPT ![s] = [send[s] EXCEPT !.at = "sent"]]
          BY <3>1 DEF M!WalletSends, SendsTyped
        <4>4. QED
          BY <4>2, <4>3
      <3>2. CASE M!Press(s) \/ M!Succeed(s) \/ M!Fail(s)
        BY <3>2 DEF M!Press, M!Succeed, M!Fail
      <3>3. QED
        BY <1>4, <3>1, <3>2
    <2>3. SendsTyped' /\ \A t \in Sends \ {s} : send'[t] = send[t]
      BY <2>2 DEF SendsTyped
    <2>4. view' = view \/ view' = "send"
      <3>1. CASE M!Succeed(s)
        BY <3>1 DEF M!Succeed
      <3>2. CASE M!Press(s) \/ M!WalletSends(s) \/ M!Fail(s)
        BY <3>2 DEF M!Press, M!WalletSends, M!Fail
      <3>3. QED
        BY <1>4, <3>1, <3>2
    <2>5. view = "send" \/ send[s].at # "none"
      <3>1. CASE M!Press(s)
        BY <3>1 DEF M!Press, M!MayPress
      <3>2. CASE M!WalletSends(s) \/ M!Succeed(s) \/ M!Fail(s)
        BY <3>2 DEF M!WalletSends, M!Succeed, M!Fail
      <3>3. QED
        BY <1>4, <3>1, <3>2
    <2>6. ASSUME config.deployed, ~clicked
          PROVE  view \in {"dashboard", "send"} /\ view' \in {"dashboard", "send"}
      <3>1. view \in {"dashboard", "send"}
        BY <2>5, <2>6 DEF ConnectInv
      <3>2. QED
        BY <2>4, <3>1
    <2>7. ConnectInv'
      BY <2>1, <2>6 DEF ConnectInv
    <2>8. M!OwnBalanceShown'
      BY <2>1, <2>6 DEF M!OwnBalanceShown
    <2>9. QED
      BY <2>1, <2>3, <2>7, <2>8 DEF MiniTypes
  <1>5. QED
    BY <1>1, <1>2, <1>3, <1>4

\* The balance shown is the account's in every state.
LEMMA OwnBalanceHolds == M!Spec => []MiniInv
  <1>1. M!Init => MiniInv
    <2> SUFFICES ASSUME M!Init PROVE MiniInv
      OBVIOUS
    <2>1. \A c \in MiniCalls : opening[c].step = "none"
      BY DEF M!Init, M!NoCall
    <2>2. \A s \in Sends : send[s].at = "none"
      BY DEF M!Init, M!NoSend
    <2>3. MiniTypes /\ SendsTyped
      BY DEF M!Init, MiniTypes, SendsTyped, M!NoCall, M!NoSend, ConnectSteps
    <2>4. view = "loading"
      BY DEF M!Init
    <2>5. QED
      BY <2>1, <2>2, <2>3, <2>4 DEF MiniInv, ConnectInv, M!OwnBalanceShown
  <1>2. MiniInv /\ [M!Next]_M!miniVars => MiniInv'
    <2> SUFFICES ASSUME MiniInv, [M!Next]_M!miniVars PROVE MiniInv'
      OBVIOUS
    <2>1. CASE UNCHANGED M!miniVars
      BY <2>1 DEF M!miniVars, MiniInv, MiniTypes, SendsTyped, ConnectInv, M!OwnBalanceShown
    <2>2. QED
      BY <2>1, ConnectKeeps, PayKeeps DEF M!Next
  <1>3. QED
    BY <1>1, <1>2, PTL DEF M!Spec

-----------------------------------------------------------------------------
(* The page for MiniPay: paying.                                           *)

\* Counting of an instance is counting.
LEMMA MiniCount ==
    ASSUME NEW these
    PROVE  M!Cardinality(these) = Cardinality(these)
  BY DEF M!Cardinality, Cardinality

\* Payments that may yet be sent, and payments the form waits for.
Unsent  == {s \in Sends : send[s].at = "asked"}
Awaited == {s \in Sends : send[s].shown /\ send[s].at \in {"asked", "sent"}}

\* The form waits for one payment, and each other that was or may be sent was misreported.
PaidInv ==
    /\ sent \in Nat /\ misinformed \in Nat
    /\ sent + Cardinality(Unsent) <= misinformed + Cardinality(Awaited)
    /\ \A s, t \in Awaited : s = t
    /\ Awaited # {} => screen = "pending" /\ view = "send"

\* Sends are finitely many, so those waited for can be counted.
LEMMA PaidSets ==
    /\ IsFiniteSet(Unsent) /\ Cardinality(Unsent) \in Nat
    /\ IsFiniteSet(Awaited) /\ Cardinality(Awaited) \in Nat
  <1>1. Unsent \subseteq Sends /\ Awaited \subseteq Sends
    BY DEF Unsent, Awaited
  <1>2. QED
    BY <1>1, MiniAssumption, FS_Subset, FS_CardinalityType

\* At most one is waited for, so one more is sent than misreported.
LEMMA PaidOnce ==
    ASSUME PaidInv
    PROVE  M!SentOnce
  <1>1. Cardinality(Awaited) <= 1
    <2>1. CASE Awaited = {}
      BY <2>1, FS_EmptySet
    <2>2. CASE Awaited # {}
      <3>1. PICK s : s \in Awaited
        BY <2>2
      <3>2. Awaited = {s}
        BY <3>1 DEF PaidInv
      <3>3. Cardinality({s}) = 1
        BY FS_Singleton
      <3>4. QED
        BY <3>2, <3>3
    <2>3. QED
      BY <2>1, <2>2
  <1>2. QED
    BY <1>1, PaidSets DEF PaidInv, M!SentOnce

\* What leaves the form is reported as left.
LEMMA ShowPaid ==
    ASSUME SendsTyped, PaidInv, NEW v, M!Show(v), UNCHANGED sent
    PROVE  PaidInv'
  <1>1. CASE view = "send" /\ v # "send"
    <2>1. /\ screen' = "idle"
          /\ send' = [s \in Sends |-> [send[s] EXCEPT !.shown = FALSE]]
          /\ misinformed' = misinformed + Cardinality(Awaited)
      BY <1>1, MiniCount DEF M!Show, M!Unmount, Awaited
    <2>2. \A s \in Sends : send'[s].at = send[s].at /\ ~send'[s].shown
      BY <2>1 DEF SendsTyped
    <2>3. Unsent' = Unsent /\ Awaited' = {}
      BY <2>2 DEF Unsent, Awaited
    <2>4. Cardinality(Unsent)' = Cardinality(Unsent) /\ Cardinality(Awaited)' = 0
      BY <2>3, FS_EmptySet
    <2>5. QED
      BY <2>1, <2>3, <2>4, PaidSets DEF PaidInv
  <1>2. CASE ~(view = "send" /\ v # "send")
    <2>1. view' = v /\ UNCHANGED <<screen, send, misinformed>>
      BY <1>2 DEF M!Show
    <2>2. Unsent' = Unsent /\ Awaited' = Awaited
      BY <2>1 DEF Unsent, Awaited
    <2>3. Awaited # {} => v = "send"
      BY <1>2 DEF PaidInv
    <2>4. QED
      BY <2>1, <2>2, <2>3 DEF PaidInv
  <1>3. QED
    BY <1>1, <1>2

\* A step that leaves the form, its payments and what was counted alone.
LEMMA PaidLeft ==
    ASSUME PaidInv, UNCHANGED <<send, sent, misinformed>>,
           Awaited # {} => screen' = screen /\ view' = view
    PROVE  PaidInv'
  <1>1. Unsent' = Unsent /\ Awaited' = Awaited
    BY DEF Unsent, Awaited
  <1>2. QED
    BY <1>1 DEF PaidInv

\* Each step keeps the count.
LEMMA PaidNext ==
    ASSUME MiniInv, PaidInv, [M!Next]_M!miniVars
    PROVE  PaidInv'
  <1>0. SendsTyped
    BY DEF MiniInv
  <1>1. ASSUME NEW c \in MiniCalls, M!Initialize(c)
        PROVE  PaidInv'
    <2>1. view = "loading" /\ UNCHANGED <<send, sent, misinformed>>
      BY <1>1 DEF M!Initialize, M!paying
    <2>2. Awaited = {}
      BY <2>1 DEF PaidInv
    <2>3. QED
      BY <2>1, <2>2, PaidLeft
  <1>2. ASSUME NEW c \in MiniCalls, M!ClickConnect(c) \/ M!ConnectRefused(c) \/ M!Refresh(c) \/ M!Done(c)
        PROVE  PaidInv'
    <2>1. UNCHANGED <<view, screen, send, sent, misinformed>>
      BY <1>2 DEF M!ClickConnect, M!ConnectRefused, M!Refresh, M!Done, M!paying
    <2>2. QED
      BY <2>1, PaidLeft
  <1>3. ASSUME NEW c \in MiniCalls, M!WrongNetwork(c)
        PROVE  PaidInv'
    BY <1>0, <1>3, ShowPaid DEF M!WrongNetwork
  <1>4. ASSUME NEW c \in MiniCalls, NEW a \in WalletAccounts, M!Connected(c, a)
        PROVE  PaidInv'
    <2>1. CASE M!Show("dashboard")
      BY <1>0, <1>4, <2>1, ShowPaid DEF M!Connected
    <2>2. CASE UNCHANGED <<view, screen, send, misinformed>>
      BY <1>4, <2>2, PaidLeft DEF M!Connected
    <2>3. QED
      BY <1>4, <2>1, <2>2 DEF M!Connected
  <1>5. ASSUME NEW c \in MiniCalls, M!LandBalance(c)
        PROVE  PaidInv'
    <2>1. CASE M!Show("dashboard")
      BY <1>0, <1>5, <2>1, ShowPaid DEF M!LandBalance
    <2>2. CASE UNCHANGED <<view, screen, send, misinformed>>
      BY <1>5, <2>2, PaidLeft DEF M!LandBalance
    <2>3. QED
      BY <1>5, <2>1, <2>2 DEF M!LandBalance
  <1>6. CASE M!OpenSend
    <2>1. view = "dashboard" /\ UNCHANGED <<send, sent, misinformed>>
      BY <1>6 DEF M!OpenSend, M!Dashboard, M!paying
    <2>2. Awaited = {}
      BY <2>1 DEF PaidInv
    <2>3. QED
      BY <2>1, <2>2, PaidLeft
  <1>7. CASE M!Back
    BY <1>0, <1>7, ShowPaid DEF M!Back
  <1>8. CASE M!Insufficient
    <2>1. screen # "pending" /\ UNCHANGED <<send, sent, misinformed>>
      BY <1>8 DEF M!Insufficient, M!MayPress
    <2>2. Awaited = {}
      BY <2>1 DEF PaidInv
    <2>3. QED
      BY <2>1, <2>2, PaidLeft
  <1>9. ASSUME NEW s \in Sends, M!Press(s)
        PROVE  PaidInv'
    <2>1. /\ send[s].at = "none" /\ send' = [send EXCEPT ![s] = [at |-> "asked", shown |-> TRUE]]
          /\ screen' = "pending" /\ view' = "send" /\ screen # "pending"
          /\ UNCHANGED <<sent, misinformed>>
      BY <1>9 DEF M!Press, M!MayPress, M!NoSend
    <2>2. Awaited = {}
      BY <2>1 DEF PaidInv
    <2>3. /\ Unsent' = Unsent \cup {s} /\ s \notin Unsent
          /\ Awaited' = {s}
      BY <1>0, <2>1, <2>2 DEF Unsent, Awaited, SendsTyped
    <2>4. Cardinality(Unsent)' = Cardinality(Unsent) + 1 /\ Cardinality(Awaited)' = 1
      BY <2>3, PaidSets, FS_AddElement, FS_Singleton
    <2>5. Cardinality(Awaited) = 0
      BY <2>2, FS_EmptySet
    <2>6. QED
      BY <2>1, <2>3, <2>4, <2>5, PaidSets DEF PaidInv
  <1>10. ASSUME NEW s \in Sends, M!WalletSends(s)
         PROVE  PaidInv'
    <2>1. /\ send[s].at = "asked" /\ send' = [send EXCEPT ![s].at = "sent"] /\ sent' = sent + 1
          /\ UNCHANGED <<view, screen, misinformed>>
      BY <1>10 DEF M!WalletSends
    <2>2. /\ send'[s].at = "sent" /\ send'[s].shown = send[s].shown
          /\ \A t \in Sends \ {s} : send'[t] = send[t]
      BY <1>0, <2>1 DEF SendsTyped
    <2>3. Unsent' = Unsent \ {s} /\ s \in Unsent /\ Awaited' = Awaited
      BY <2>1, <2>2 DEF Unsent, Awaited
    <2>4. Cardinality(Unsent)' = Cardinality(Unsent) - 1
      BY <2>3, PaidSets, FS_RemoveElement
    <2>5. QED
      BY <2>1, <2>3, <2>4, PaidSets DEF PaidInv
  <1>11. ASSUME NEW s \in Sends, M!Succeed(s) \/ M!Fail(s)
         PROVE  PaidInv'
    <2>1. /\ send[s].at \in {"asked", "sent"}
          /\ send' = [send EXCEPT ![s] = [at |-> "over", shown |-> FALSE]]
          /\ misinformed' = IF send[s].shown /\ send[s].at = "sent" THEN misinformed + 1 ELSE misinformed
          /\ ~send[s].shown => screen' = screen
          /\ view' = view \/ view' = "send"
          /\ sent' = sent
      BY <1>11 DEF M!Succeed, M!Fail
    <2>2. Unsent' = Unsent \ {s} /\ Awaited' = Awaited \ {s}
      BY <1>0, <2>1 DEF Unsent, Awaited, SendsTyped
    <2>3. s \in Awaited => Awaited' = {}
      BY <2>2 DEF PaidInv
    <2>4. s \in Awaited <=> send[s].shown
      BY <1>0, <2>1 DEF Awaited, SendsTyped
    <2>5. s \in Unsent <=> send[s].at = "asked"
      BY DEF Unsent
    <2>6. /\ Cardinality(Unsent)' = IF s \in Unsent THEN Cardinality(Unsent) - 1 ELSE Cardinality(Unsent)
          /\ Cardinality(Awaited)' = IF s \in Awaited THEN Cardinality(Awaited) - 1 ELSE Cardinality(Awaited)
      BY <2>2, PaidSets, FS_RemoveElement
    <2>7. sent' + Cardinality(Unsent)' <= misinformed' + Cardinality(Awaited)' /\ misinformed' \in Nat
      BY <2>1, <2>4, <2>5, <2>6, PaidSets DEF PaidInv
    <2>8. Awaited' # {} => screen' = "pending" /\ view' = "send"
      BY <2>1, <2>2, <2>3, <2>4 DEF PaidInv
    <2>9. QED
      BY <2>1, <2>2, <2>7, <2>8 DEF PaidInv
  <1>12. CASE UNCHANGED M!miniVars
    BY <1>12, PaidLeft DEF M!miniVars
  <1>13. QED
    BY <1>1, <1>2, <1>3, <1>4, <1>5, <1>6, <1>7, <1>8, <1>9, <1>10, <1>11, <1>12 DEF M!Next

\* The user's one payment is sent once, or was misreported as often as it was repeated.
LEMMA SentOnceHolds == M!Spec => []M!SentOnce
  <1>1. M!Init => PaidInv
    <2> SUFFICES ASSUME M!Init PROVE PaidInv
      OBVIOUS
    <2>1. Unsent = {} /\ Awaited = {}
      BY DEF M!Init, M!NoSend, Unsent, Awaited
    <2>2. sent = 0 /\ misinformed = 0
      BY DEF M!Init
    <2>3. QED
      BY <2>1, <2>2, FS_EmptySet DEF PaidInv
  <1>2. MiniInv /\ PaidInv /\ [M!Next]_M!miniVars => PaidInv'
    BY PaidNext
  <1>3. PaidInv => M!SentOnce
    BY PaidOnce
  <1>4. QED
    BY <1>1, <1>2, <1>3, OwnBalanceHolds, PTL DEF M!Spec

-----------------------------------------------------------------------------
(* The browser.                                                            *)

Shown == [of : People \cup {B!Nobody}, coins : Int, fiat : Int]

SyncOf == [of : People \cup {B!Nobody}, balance : {"none", "asked", "told", "refused", "shown"},
           coins : Int, list : {"none", "asked", "told", "refused", "failed"}]

FormOf == [step : {"confirmed", "executing"}, kind : {"buy", "sell"}, amount : BrowserAmounts,
           stale : BOOLEAN]

BrowserTypes ==
    /\ ledger \in [People -> [coins : Int, posted : Int]]
    /\ auth \in People \cup {B!Nobody}
    /\ shown \in Shown /\ base \in Int
    /\ sync \in [Syncs -> SyncOf]
    /\ form \in {B!NoForm} \cup FormOf

\* A call that awaits its balance is somebody's.
AskedFor == \A s \in Syncs : sync[s].balance = "asked" => sync[s].of \in People

\* Between its wallets and its transactions, a call is for whose wallets are shown.
FillInv == \A s \in Syncs : sync[s].balance = "shown" /\ sync[s].of # shown.of => between

\* What is bought or sold is on hand while nothing fills the store.
TradeInv == form # B!NoForm /\ ~form.stale => form.amount <= B!OnHand(form.kind)

BrowserInv == BrowserTypes /\ AskedFor /\ FillInv /\ TradeInv
                /\ B!OwnMoneyShown /\ B!HistoryFits /\ B!NothingFromNothing

\* The form is absent or has all its fields.
LEMMA FormTyped ==
    ASSUME BrowserTypes
    PROVE  /\ form = B!NoForm \/ form \in FormOf
           /\ form.step \in {"confirmed", "executing"} => form \in FormOf
           /\ \A g \in FormOf : g # B!NoForm /\ g.amount \in Nat
  <1>1. BrowserAmounts \subseteq Nat
    BY BrowserAssumption
  <1>2. B!NoForm.step = "none"
    BY DEF B!NoForm
  <1>3. \A g \in FormOf : g.step # "none" /\ g.amount \in BrowserAmounts
    BY DEF FormOf
  <1>4. \A g \in FormOf : g # B!NoForm /\ g.amount \in Nat
    BY <1>1, <1>2, <1>3
  <1>5. form = B!NoForm \/ form \in FormOf
    BY DEF BrowserTypes
  <1>6. QED
    BY <1>2, <1>4, <1>5

\* A call is replaced.
LEMMA SyncChanges ==
    ASSUME BrowserTypes, NEW s \in Syncs, NEW next \in SyncOf, sync' = [sync EXCEPT ![s] = next]
    PROVE  /\ sync' \in [Syncs -> SyncOf] /\ sync'[s] = next
           /\ \A r \in Syncs \ {s} : sync'[r] = sync[r]
  BY DEF BrowserTypes

\* No call is under way.
LEMMA IdleTyped == B!Idle \in SyncOf /\ B!Idle.balance = "none"
  BY DEF B!Idle, SyncOf

\* The store and what was counted stay; a call that shows wallets now did before.
LEMMA StoreStays ==
    ASSUME BrowserInv, UNCHANGED <<shown, listed, base, oneSided, between, form>>,
           ledger' \in [People -> [coins : Int, posted : Int]],
           auth' \in People \cup {B!Nobody}, B!OwnMoneyShown',
           sync' \in [Syncs -> SyncOf], AskedFor',
           \A s \in Syncs : sync'[s].balance = "shown" =>
              sync[s].balance = "shown" /\ sync'[s].of = sync[s].of
    PROVE  BrowserInv'
  <1>1. BrowserTypes'
    BY DEF BrowserInv, BrowserTypes
  <1>2. TradeInv'
    BY DEF BrowserInv, TradeInv, B!OnHand
  <1>3. B!HistoryFits'
    BY DEF BrowserInv, B!HistoryFits
  <1>4. B!NothingFromNothing'
    BY DEF BrowserInv, B!NothingFromNothing
  <1>5. FillInv'
    BY DEF BrowserInv, FillInv
  <1>6. QED
    BY <1>1, <1>2, <1>3, <1>4, <1>5 DEF BrowserInv

\* The form changes, and what it does to the store leaves whose it is.
LEMMA FormChanges ==
    ASSUME BrowserInv, UNCHANGED <<listed, oneSided, between, ledger, caught, stray>>,
           shown' \in Shown, shown'.of = shown.of, base' \in Int,
           auth' = auth \/ auth' = B!Nobody,
           sync' \in [Syncs -> SyncOf],
           \A s \in Syncs : sync'[s] = sync[s] \/ sync'[s] = B!Idle,
           form' \in {B!NoForm} \cup FormOf, TradeInv', B!NothingFromNothing'
    PROVE  BrowserInv'
  <1>1. BrowserTypes'
    BY DEF BrowserInv, BrowserTypes
  <1>2. AskedFor'
    BY IdleTyped DEF BrowserInv, AskedFor
  <1>3. FillInv'
    BY IdleTyped DEF BrowserInv, FillInv
  <1>4. B!OwnMoneyShown'
    BY DEF BrowserInv, B!OwnMoneyShown
  <1>5. B!HistoryFits'
    BY DEF BrowserInv, B!HistoryFits
  <1>6. QED
    BY <1>1, <1>2, <1>3, <1>4, <1>5 DEF BrowserInv

\* Filling the store: what is on the form is stale from now on.
LEMMA FillKeeps ==
    ASSUME BrowserInv, NEW u \in People \cup {B!Nobody}, NEW n \in Int, B!Fill(u, n)
    PROVE  /\ shown' \in Shown /\ base' \in Int /\ form' \in {B!NoForm} \cup FormOf
           /\ shown'.of = u
           /\ TradeInv' /\ B!NothingFromNothing'
           /\ \A s \in Syncs : sync[s].balance = "shown" /\ sync[s].of # u => between'
  <1>1. /\ shown' = [of |-> u, coins |-> n, fiat |-> 0] /\ base' = n
        /\ form' = IF form = B!NoForm THEN form ELSE [form EXCEPT !.stale = TRUE]
    BY DEF B!Fill
  <1>2. shown' \in Shown /\ shown'.of = u /\ shown'.fiat = 0 /\ shown'.coins = n
    BY <1>1 DEF Shown
  <1>3. form' \in {B!NoForm} \cup FormOf /\ (form' # B!NoForm => form'.stale)
    <2>1. CASE form = B!NoForm
      BY <1>1, <2>1
    <2>2. CASE form # B!NoForm
      <3>1. form \in FormOf
        BY <2>2, FormTyped DEF BrowserInv
      <3>2. [form EXCEPT !.stale = TRUE] \in FormOf /\ [form EXCEPT !.stale = TRUE].stale
        BY <3>1 DEF FormOf
      <3>3. QED
        BY <1>1, <2>2, <3>2
    <2>3. QED
      BY <2>1, <2>2
  <1>4. TradeInv' /\ B!NothingFromNothing'
    BY <1>1, <1>2, <1>3 DEF TradeInv, B!NothingFromNothing
  <1>5. \A s \in Syncs : sync[s].balance = "shown" /\ sync[s].of # u => between'
    BY DEF B!Fill
  <1>6. QED
    BY <1>1, <1>2, <1>3, <1>4, <1>5

-----------------------------------------------------------------------------
\* Registering fills and empties the store for the new user.
LEMMA RegisteredKeeps ==
    ASSUME BrowserInv, NEW u \in People, B!Registered(u)
    PROVE  BrowserInv'
  <1>1. /\ auth' = u /\ ~stray' /\ B!Fill(u, 0) /\ listed' = u /\ UNCHANGED <<ledger, sync>>
    BY DEF B!Registered
  <1>2. /\ shown' \in Shown /\ base' \in Int /\ form' \in {B!NoForm} \cup FormOf
        /\ shown'.of = u
        /\ TradeInv' /\ B!NothingFromNothing'
        /\ \A s \in Syncs : sync[s].balance = "shown" /\ sync[s].of # u => between'
    BY <1>1, FillKeeps
  <1>3. BrowserTypes' /\ AskedFor' /\ FillInv' /\ B!OwnMoneyShown' /\ B!HistoryFits'
    BY <1>1, <1>2 DEF BrowserInv, BrowserTypes, AskedFor, FillInv, B!OwnMoneyShown, B!HistoryFits
  <1>4. QED
    BY <1>2, <1>3 DEF BrowserInv

\* Wallets arrive: late ones are a stray filling.
LEMMA LandBalanceKeeps ==
    ASSUME BrowserInv, NEW s \in Syncs, B!LandBalance(s)
    PROVE  BrowserInv'
  <1>1. PICK u, n : u = sync[s].of /\ n = sync[s].coins
    OBVIOUS
  <1>2. sync[s] \in SyncOf /\ u \in People \cup {B!Nobody} /\ n \in Int
    BY <1>1 DEF BrowserInv, BrowserTypes, SyncOf
  <1>3. PICK next : next = [sync[s] EXCEPT !.balance = "shown"]
    OBVIOUS
  <1>4. next \in SyncOf /\ next.of = u /\ next.balance = "shown"
    BY <1>1, <1>2, <1>3 DEF SyncOf
  <1>5. B!Fill(u, n) /\ UNCHANGED <<ledger, auth, listed>>
    BY <1>1 DEF B!LandBalance, B!accounts
  <1>6. sync' = [sync EXCEPT ![s] = next]
    BY <1>3 DEF B!LandBalance, BrowserInv, BrowserTypes
  <1>7. oneSided' /\ (u # auth => stray')
    BY <1>1, Zenon DEF B!LandBalance
  <1>8. /\ shown' \in Shown /\ base' \in Int /\ form' \in {B!NoForm} \cup FormOf
        /\ shown'.of = u
        /\ TradeInv' /\ B!NothingFromNothing'
        /\ \A r \in Syncs : sync[r].balance = "shown" /\ sync[r].of # u => between'
    BY <1>2, <1>5, FillKeeps
  <1>9. /\ sync' \in [Syncs -> SyncOf] /\ sync'[s] = next
        /\ \A r \in Syncs \ {s} : sync'[r] = sync[r]
    BY <1>4, <1>6, SyncChanges DEF BrowserInv
  <1>10. BrowserTypes'
    BY <1>5, <1>8, <1>9 DEF BrowserInv, BrowserTypes
  <1>11. FillInv'
    BY <1>4, <1>8, <1>9 DEF FillInv
  <1>12. AskedFor'
    BY <1>4, <1>9 DEF BrowserInv, AskedFor
  <1>13. B!OwnMoneyShown' /\ B!HistoryFits'
    BY <1>5, <1>7, <1>8 DEF B!OwnMoneyShown, B!HistoryFits
  <1>14. QED
    BY <1>8, <1>10, <1>11, <1>12, <1>13 DEF BrowserInv

\* Transactions arrive for whose wallets are there, or it was counted.
LEMMA LandListKeeps ==
    ASSUME BrowserInv, NEW s \in Syncs, B!LandList(s)
    PROVE  BrowserInv'
  <1>1. /\ sync[s].balance = "shown" /\ listed' = sync[s].of /\ sync' = [sync EXCEPT ![s] = B!Idle]
        /\ UNCHANGED <<ledger, auth, shown, form, base, caught, stray, between>>
    BY DEF B!LandList, B!accounts, B!screen
  <1>2. /\ sync' \in [Syncs -> SyncOf] /\ sync'[s] = B!Idle
        /\ \A r \in Syncs \ {s} : sync'[r] = sync[r]
    BY <1>1, IdleTyped, SyncChanges DEF BrowserInv
  <1>3. B!HistoryFits'
    BY <1>1 DEF BrowserInv, FillInv, B!HistoryFits
  <1>4. FillInv'
    BY <1>1, <1>2, IdleTyped DEF BrowserInv, FillInv
  <1>5. AskedFor'
    BY <1>1, <1>2, IdleTyped DEF BrowserInv, AskedFor
  <1>6. BrowserTypes' /\ TradeInv' /\ B!NothingFromNothing' /\ B!OwnMoneyShown'
    BY <1>1, <1>2 DEF BrowserInv, BrowserTypes, TradeInv, B!OnHand, B!NothingFromNothing, B!OwnMoneyShown
  <1>7. QED
    BY <1>3, <1>4, <1>5, <1>6 DEF BrowserInv

\* Calls that begin, are answered, fail or are thrown away.
LEMMA CallKeeps ==
    ASSUME BrowserInv, NEW s \in Syncs, NEW next \in SyncOf, sync' = [sync EXCEPT ![s] = next],
           next.balance = "shown" => sync[s].balance = "shown" /\ next.of = sync[s].of,
           next.balance = "asked" => next.of \in People,
           UNCHANGED <<shown, listed, base, oneSided, between, ledger, form>>,
           auth' \in People \cup {B!Nobody}, B!OwnMoneyShown'
    PROVE  BrowserInv'
  <1>1. /\ sync' \in [Syncs -> SyncOf] /\ sync'[s] = next
        /\ \A r \in Syncs \ {s} : sync'[r] = sync[r]
    BY SyncChanges DEF BrowserInv
  <1>2. AskedFor'
    BY <1>1 DEF BrowserInv, AskedFor
  <1>3. \A r \in Syncs : sync'[r].balance = "shown" =>
           sync[r].balance = "shown" /\ sync'[r].of = sync[r].of
    BY <1>1
  <1>4. ledger' \in [People -> [coins : Int, posted : Int]]
    BY DEF BrowserInv, BrowserTypes
  <1>5. QED
    BY <1>1, <1>2, <1>3, <1>4, StoreStays

\* The call that is made.
LEMMA Asked ==
    ASSUME NEW s, NEW u \in People, B!Ask(s, u)
    PROVE  \E next \in SyncOf : /\ sync' = [sync EXCEPT ![s] = next]
                                /\ next.balance = "asked" /\ next.of = u
  <1>1. PICK next : next = [B!Idle EXCEPT !.of = u, !.balance = "asked", !.list = "asked"]
    OBVIOUS
  <1>2. next = [of |-> u, balance |-> "asked", coins |-> 0, list |-> "asked"]
    BY <1>1 DEF B!Idle
  <1>3. next \in SyncOf /\ next.balance = "asked" /\ next.of = u
    BY <1>2 DEF SyncOf
  <1>4. QED
    BY <1>1, <1>3 DEF B!Ask

\* Signing in and the frame of the pages make a call.
LEMMA AskingKeeps ==
    ASSUME BrowserInv, NEW s \in Syncs, B!Call(s) \/ \E u \in People : B!SignedIn(u, s)
    PROVE  BrowserInv'
  <1>1. CASE B!Call(s)
    <2>1. auth \in People /\ B!Ask(s, auth)
      BY <1>1 DEF B!Call, BrowserInv, BrowserTypes
    <2>2. PICK next \in SyncOf : sync' = [sync EXCEPT ![s] = next] /\ next.balance = "asked" /\ next.of = auth
      BY <2>1, Asked
    <2>3. UNCHANGED <<shown, listed, base, oneSided, between, ledger, form, auth, caught, stray>>
      BY <1>1 DEF B!Call, B!accounts, B!store, B!screen, B!history
    <2>4. B!OwnMoneyShown'
      BY <2>3 DEF BrowserInv, B!OwnMoneyShown
    <2>5. QED
      BY <2>1, <2>2, <2>3, <2>4, CallKeeps
  <1>2. ASSUME NEW u \in People, B!SignedIn(u, s)
        PROVE  BrowserInv'
    <2>1. B!Ask(s, u) /\ auth' = u
      BY <1>2 DEF B!SignedIn
    <2>2. PICK next \in SyncOf : sync' = [sync EXCEPT ![s] = next] /\ next.balance = "asked" /\ next.of = u
      BY <2>1, Asked
    <2>3. UNCHANGED <<shown, listed, base, oneSided, between, ledger, form>>
      BY <1>2 DEF B!SignedIn, B!accounts, B!store, B!screen
    <2>4. B!OwnMoneyShown'
      BY <1>2 DEF B!SignedIn, B!OwnMoneyShown
    <2>5. QED
      BY <2>1, <2>2, <2>3, <2>4, CallKeeps
  <1>3. QED
    BY <1>1, <1>2

\* The answers to a call are read, or it ends.
LEMMA AnswersKeep ==
    ASSUME BrowserInv, NEW s \in Syncs,
           B!ReadBalance(s) \/ B!ReadList(s) \/ B!NoList(s) \/ B!LandInVain(s)
    PROVE  BrowserInv'
  <1>1. UNCHANGED <<shown, listed, base, oneSided, between, ledger, form, auth, caught, stray>>
    BY DEF B!ReadBalance, B!ReadList, B!NoList, B!LandInVain, B!accounts, B!store, B!screen, B!history
  <1>2. B!OwnMoneyShown'
    BY <1>1 DEF BrowserInv, B!OwnMoneyShown
  <1>3. sync[s] \in SyncOf /\ auth' \in People \cup {B!Nobody}
    BY <1>1 DEF BrowserInv, BrowserTypes
  <1>4. CASE B!ReadBalance(s)
    <2>1. sync[s].of \in People
      BY <1>4 DEF B!ReadBalance, BrowserInv, AskedFor
    <2>2. PICK n : n = ledger[sync[s].of].coins
      OBVIOUS
    <2>3. n \in Int
      BY <2>1, <2>2 DEF BrowserInv, BrowserTypes
    <2>4. PICK answer \in {"told", "refused"} :
             sync' = [sync EXCEPT ![s].balance = answer, ![s].coins = n]
      BY <1>4, <2>2 DEF B!ReadBalance
    <2>5. PICK next : next = [sync[s] EXCEPT !.balance = answer, !.coins = n]
      OBVIOUS
    <2>6. next \in SyncOf /\ next.balance = answer
      BY <1>3, <2>3, <2>5 DEF SyncOf
    <2>7. sync' = [sync EXCEPT ![s] = next]
      BY <2>4, <2>5 DEF BrowserInv, BrowserTypes
    <2>8. QED
      BY <1>1, <1>2, <1>3, <2>6, <2>7, CallKeeps
  <1>5. CASE B!ReadList(s)
    <2>1. PICK answer \in {"told", "refused", "failed"} : sync' = [sync EXCEPT ![s].list = answer]
      BY <1>5 DEF B!ReadList
    <2>2. PICK next : next = [sync[s] EXCEPT !.list = answer]
      OBVIOUS
    <2>3. next \in SyncOf /\ next.balance = sync[s].balance /\ next.of = sync[s].of
      BY <1>3, <2>1, <2>2 DEF SyncOf
    <2>4. sync' = [sync EXCEPT ![s] = next]
      BY <2>1, <2>2 DEF BrowserInv, BrowserTypes
    <2>5. next.balance = "asked" => next.of \in People
      BY <2>3 DEF BrowserInv, AskedFor
    <2>6. QED
      BY <1>1, <1>2, <1>3, <2>3, <2>4, <2>5, CallKeeps
  <1>6. CASE B!NoList(s) \/ B!LandInVain(s)
    <2>1. sync' = [sync EXCEPT ![s] = B!Idle]
      BY <1>6 DEF B!NoList, B!LandInVain
    <2>2. QED
      BY <1>1, <1>2, <1>3, <2>1, IdleTyped, CallKeeps
  <1>7. QED
    BY <1>4, <1>5, <1>6

\* Signing out, loading the page again, and the form before its PIN is entered.
LEMMA ScreenKeeps ==
    ASSUME BrowserInv,
           \/ B!SignOut \/ B!Reload \/ B!Leave \/ B!EnterPIN
           \/ \E kind \in {"buy", "sell"}, m \in BrowserAmounts : B!Confirm(kind, m)
    PROVE  BrowserInv'
  <1>1. UNCHANGED <<shown, listed, base, oneSided, between, ledger, caught, stray>>
    BY DEF B!SignOut, B!Reload, B!Leave, B!EnterPIN, B!Confirm, B!accounts, B!store, B!history
  <1>2. auth' = auth \/ auth' = B!Nobody
    BY DEF B!SignOut, B!Reload, B!Leave, B!EnterPIN, B!Confirm
  <1>3. shown' \in Shown /\ shown'.of = shown.of /\ base' \in Int
    BY <1>1 DEF BrowserInv, BrowserTypes
  <1>4. B!NothingFromNothing'
    BY <1>1 DEF BrowserInv, B!NothingFromNothing
  <1>5. /\ sync' \in [Syncs -> SyncOf]
        /\ \A s \in Syncs : sync'[s] = sync[s] \/ sync'[s] = B!Idle
    <2>1. CASE sync' = sync
      BY <2>1 DEF BrowserInv, BrowserTypes
    <2>2. CASE sync' = [s \in Syncs |-> B!Idle]
      BY <2>2, IdleTyped
    <2>3. QED
      BY <2>1, <2>2 DEF B!SignOut, B!Reload, B!Leave, B!EnterPIN, B!Confirm
  <1>6. form' \in {B!NoForm} \cup FormOf /\ TradeInv'
    <2>1. CASE form' = form
      <3>1. form' \in {B!NoForm} \cup FormOf
        BY <2>1 DEF BrowserInv, BrowserTypes
      <3>2. TradeInv'
        BY <1>1, <2>1 DEF BrowserInv, TradeInv, B!OnHand
      <3>3. QED
        BY <3>1, <3>2
    <2>2. CASE form' = B!NoForm
      BY <2>2 DEF TradeInv
    <2>3. CASE B!EnterPIN
      <3>1. form \in FormOf /\ form # B!NoForm
        BY <2>3, FormTyped DEF B!EnterPIN, BrowserInv
      <3>2. PICK g : g = [form EXCEPT !.step = "executing"]
        OBVIOUS
      <3>3. g \in FormOf /\ g.stale = form.stale /\ g.amount = form.amount /\ g.kind = form.kind
        BY <3>1, <3>2 DEF FormOf
      <3>4. form' = g
        BY <2>3, <3>2 DEF B!EnterPIN
      <3>5. TradeInv'
        BY <1>1, <3>1, <3>3, <3>4 DEF BrowserInv, TradeInv, B!OnHand
      <3>6. QED
        BY <3>3, <3>4, <3>5
    <2>4. ASSUME NEW kind \in {"buy", "sell"}, NEW m \in BrowserAmounts, B!Confirm(kind, m)
          PROVE  form' \in {B!NoForm} \cup FormOf /\ TradeInv'
      <3>1. /\ form' = [step |-> "confirmed", kind |-> kind, amount |-> m, stale |-> FALSE]
            /\ m <= B!OnHand(kind)
        BY <2>4 DEF B!Confirm, B!Valid
      <3>2. form' \in FormOf /\ form'.amount = m /\ form'.kind = kind
        BY <3>1 DEF FormOf
      <3>3. TradeInv'
        BY <1>1, <3>1, <3>2 DEF TradeInv, B!OnHand
      <3>4. QED
        BY <3>2, <3>3
    <2>5. QED
      BY <2>1, <2>2, <2>3, <2>4 DEF B!SignOut, B!Reload, B!Leave
  <1>7. UNCHANGED <<listed, oneSided, between, ledger, caught, stray>>
    BY <1>1
  <1>8. QED
    BY <1>2, <1>3, <1>4, <1>5, <1>6, <1>7, FormChanges

\* A sale brings no more than what was sold: half a per cent less, rounded.
LEMMA ProceedsBounded ==
    ASSUME NEW f \in Int, NEW a \in Nat
    PROVE  B!WithProceeds(f, a) \in Int /\ B!WithProceeds(f, a) <= f + a
  BY DEF B!WithProceeds

\* A purchase or a sale is carried out on the store alone.
LEMMA TradesKeep ==
    ASSUME BrowserInv, B!Buy \/ B!Sell
    PROVE  BrowserInv'
  <1>1. /\ form' = B!NoForm /\ form.step = "executing"
        /\ base' = IF form.stale THEN shown'.coins + shown'.fiat ELSE base
        /\ UNCHANGED <<ledger, auth, listed, sync, caught, stray, oneSided, between>>
    BY DEF B!Buy, B!Sell, B!accounts
  <1>2. form \in FormOf /\ form # B!NoForm /\ form.amount \in Nat
    BY <1>1, FormTyped DEF BrowserInv
  <1>3. shown \in Shown /\ shown.coins \in Int /\ shown.fiat \in Int /\ base \in Int
        /\ shown.coins + shown.fiat <= base
    BY DEF BrowserInv, BrowserTypes, Shown, B!NothingFromNothing
  <1>4. ~form.stale => form.amount <= B!OnHand(form.kind)
    BY <1>2 DEF BrowserInv, TradeInv
  <1>5. /\ shown' \in Shown /\ shown'.of = shown.of
        /\ ~form.stale => shown'.coins + shown'.fiat <= shown.coins + shown.fiat
    <2>1. CASE shown' = shown
      BY <1>3, <2>1
    <2>2. CASE B!Buy /\ shown' # shown
      <3>1. PICK c, f : c = shown.coins + form.amount /\ f = B!Positive(shown.fiat - form.amount)
        OBVIOUS
      <3>2. c \in Int /\ f \in Int
        BY <1>2, <1>3, <3>1 DEF B!Positive
      <3>3. ~form.stale => c + f <= shown.coins + shown.fiat
        BY <1>2, <1>3, <1>4, <2>2, <3>1 DEF B!Positive, B!OnHand, B!Buy
      <3>4. shown' = [shown EXCEPT !.coins = c, !.fiat = f]
        BY <2>2, <3>1 DEF B!Buy
      <3>5. shown' \in Shown /\ shown'.of = shown.of /\ shown'.coins = c /\ shown'.fiat = f
        BY <1>3, <3>2, <3>4 DEF Shown
      <3>6. QED
        BY <3>3, <3>5
    <2>3. CASE B!Sell /\ shown' # shown
      <3>1. PICK c, f : c = B!Positive(shown.coins - form.amount) /\ f = B!WithProceeds(shown.fiat, form.amount)
        OBVIOUS
      <3>2. c \in Int /\ f \in Int /\ f <= shown.fiat + form.amount
        <4>1. /\ B!WithProceeds(shown.fiat, form.amount) \in Int
              /\ B!WithProceeds(shown.fiat, form.amount) <= shown.fiat + form.amount
          BY <1>2, <1>3, ProceedsBounded
        <4>2. c \in Int
          BY <1>2, <1>3, <3>1 DEF B!Positive
        <4>3. QED
          BY <3>1, <4>1, <4>2
      <3>3. form.kind = "sell"
        BY <2>3 DEF B!Sell
      <3>4. ~form.stale => c + f <= shown.coins + shown.fiat
        BY <1>2, <1>3, <1>4, <3>1, <3>2, <3>3 DEF B!Positive, B!OnHand
      <3>5. shown' = [shown EXCEPT !.coins = c, !.fiat = f]
        BY <2>3, <3>1 DEF B!Sell
      <3>6. shown' \in Shown /\ shown'.of = shown.of /\ shown'.coins = c /\ shown'.fiat = f
        BY <1>3, <3>2, <3>5 DEF Shown
      <3>7. QED
        BY <3>4, <3>6
    <2>4. QED
      BY <2>1, <2>2, <2>3
  <1>6. shown'.coins \in Int /\ shown'.fiat \in Int
    BY <1>5 DEF Shown
  <1>7. base' \in Int /\ shown'.coins + shown'.fiat <= base'
    BY <1>1, <1>3, <1>5, <1>6
  <1>8. B!NothingFromNothing' /\ TradeInv'
    BY <1>1, <1>7 DEF B!NothingFromNothing, TradeInv
  <1>9. /\ UNCHANGED <<listed, oneSided, between, ledger, caught, stray>>
        /\ form' \in {B!NoForm} \cup FormOf
        /\ sync' \in [Syncs -> SyncOf] /\ \A s \in Syncs : sync'[s] = sync[s] \/ sync'[s] = B!Idle
    BY <1>1 DEF BrowserInv, BrowserTypes
  <1>10. QED
    BY <1>1, <1>5, <1>7, <1>8, <1>9, FormChanges

\* What is booked and who signs in leave the browser as it was.
LEMMA ServerKeeps ==
    ASSUME BrowserInv, NEW u \in People,
           B!Submit(u) \/ B!Denied(u) \/ \E n \in BrowserAmounts : B!Book(u, n) \/ B!Book(u, -n)
    PROVE  BrowserInv'
  <1>1. UNCHANGED <<shown, listed, base, oneSided, between, form, auth, caught, stray, sync>>
    BY DEF B!Submit, B!Denied, B!Book, B!store, B!screen, B!history
  <1>2. ledger' \in [People -> [coins : Int, posted : Int]]
    <2>1. CASE ledger' = ledger
      BY <2>1 DEF BrowserInv, BrowserTypes
    <2>2. ASSUME NEW n \in Int, B!Book(u, n)
          PROVE  ledger' \in [People -> [coins : Int, posted : Int]]
      <3>1. ledger[u] \in [coins : Int, posted : Int]
        BY DEF BrowserInv, BrowserTypes
      <3>2. PICK entry : entry = [coins |-> ledger[u].coins + n, posted |-> ledger[u].posted + 1]
        OBVIOUS
      <3>3. entry \in [coins : Int, posted : Int]
        BY <3>1, <3>2
      <3>4. ledger' = [ledger EXCEPT ![u] = entry]
        BY <2>2, <3>2 DEF B!Book
      <3>5. QED
        BY <3>3, <3>4 DEF BrowserInv, BrowserTypes
    <2>3. \A n \in BrowserAmounts : n \in Int /\ -n \in Int
      BY BrowserAssumption
    <2>4. QED
      BY <2>1, <2>2, <2>3 DEF B!Submit, B!Denied, B!accounts
  <1>3. B!OwnMoneyShown' /\ AskedFor'
    BY <1>1 DEF BrowserInv, B!OwnMoneyShown, AskedFor
  <1>4. auth' \in People \cup {B!Nobody} /\ sync' \in [Syncs -> SyncOf]
    BY <1>1 DEF BrowserInv, BrowserTypes
  <1>5. QED
    BY <1>1, <1>2, <1>3, <1>4, StoreStays

\* At first nothing is shown.
LEMMA BrowserInit == B!Init => BrowserInv
  <1> SUFFICES ASSUME B!Init PROVE BrowserInv
    OBVIOUS
  <1>1. \A u \in People : [coins |-> IF u \in Newcomers THEN 0 ELSE Opening, posted |-> 0]
                             \in [coins : Int, posted : Int]
    BY BrowserAssumption
  <1>2. ledger \in [People -> [coins : Int, posted : Int]]
    BY <1>1 DEF B!Init
  <1>3. sync \in [Syncs -> SyncOf] /\ \A s \in Syncs : sync[s] = B!Idle
    BY IdleTyped DEF B!Init
  <1>4. BrowserTypes
    BY <1>2, <1>3 DEF B!Init, BrowserTypes, Shown
  <1>5. AskedFor /\ FillInv
    BY <1>3, IdleTyped DEF AskedFor, FillInv
  <1>6. TradeInv /\ B!OwnMoneyShown /\ B!HistoryFits /\ B!NothingFromNothing
    BY DEF B!Init, TradeInv, B!OwnMoneyShown, B!HistoryFits, B!NothingFromNothing
  <1>7. QED
    BY <1>4, <1>5, <1>6 DEF BrowserInv

\* Every step keeps what is known of the browser.
LEMMA BrowserSteps == BrowserInv /\ [B!Next]_B!browserVars => BrowserInv'
  <1> SUFFICES ASSUME BrowserInv, [B!Next]_B!browserVars PROVE BrowserInv'
    OBVIOUS
  <1>1. CASE UNCHANGED B!browserVars
    <2>1. UNCHANGED <<shown, listed, base, oneSided, between, form, auth, caught, stray, sync, ledger>>
      BY <1>1 DEF B!browserVars, B!accounts, B!store, B!screen, B!history
    <2>2. B!OwnMoneyShown' /\ AskedFor'
      BY <2>1 DEF BrowserInv, B!OwnMoneyShown, AskedFor
    <2>3. /\ auth' \in People \cup {B!Nobody} /\ sync' \in [Syncs -> SyncOf]
          /\ ledger' \in [People -> [coins : Int, posted : Int]]
      BY <2>1 DEF BrowserInv, BrowserTypes
    <2>4. QED
      BY <2>1, <2>2, <2>3, StoreStays
  <1>2. CASE B!Next
    <2>1. ASSUME NEW u \in People,
                 \/ B!Submit(u) \/ B!Denied(u) \/ B!Registered(u)
                 \/ \E s \in Syncs : B!SignedIn(u, s)
                 \/ \E n \in BrowserAmounts : B!Book(u, n) \/ B!Book(u, -n)
          PROVE  BrowserInv'
      BY <2>1, ServerKeeps, RegisteredKeeps, AskingKeeps
    <2>2. ASSUME NEW s \in Syncs,
                 \/ B!Call(s) \/ B!ReadBalance(s) \/ B!ReadList(s) \/ B!LandBalance(s)
                 \/ B!LandList(s) \/ B!NoList(s) \/ B!LandInVain(s)
          PROVE  BrowserInv'
      BY <2>2, AskingKeeps, AnswersKeep, LandBalanceKeeps, LandListKeeps
    <2>3. CASE \/ B!SignOut \/ B!Reload \/ B!Leave \/ B!EnterPIN \/ B!Buy \/ B!Sell
               \/ \E kind \in {"buy", "sell"}, m \in BrowserAmounts : B!Confirm(kind, m)
      BY <2>3, ScreenKeeps, TradesKeep
    <2>4. QED
      BY <1>2, <2>1, <2>2, <2>3 DEF B!Next
  <1>3. QED
    BY <1>1, <1>2

\* What is known of the browser holds at every moment.
LEMMA BrowserHolds == B!Spec => []BrowserInv
  <1>1. QED
    BY BrowserInit, BrowserSteps, PTL DEF B!Spec

\* A browser shows the wallets of whoever is signed in, with his own transactions, and the
\* page for MiniPay those of the wallet that is connected, up to what was counted.
THEOREM BrowserShowsOwn == B!Spec /\ M!Spec => []OwnAccountShown
  <1>1. BrowserInv /\ MiniInv => OwnAccountShown
    BY DEF BrowserInv, MiniInv, OwnAccountShown, B!OwnAccountShown
  <1>2. QED
    BY <1>1, BrowserHolds, OwnBalanceHolds, PTL

-----------------------------------------------------------------------------
(* The pages of the ledger's users.                                        *)

PageState == [dialogue : BOOLEAN, loading : BOOLEAN, told : {"nothing", "failed", "done"}]

RequestState == [at : {"unsent", "sent", "refused", "booked", "syncing", "over"},
                 page : P!PageNames \cup {"none"}, awaited : BOOLEAN]

PageTypes ==
    /\ page \in [P!PageNames -> PageState]
    /\ request \in [PageRequests -> RequestState]
    /\ booked \in [P!PageNames -> Int] /\ misled \in [P!PageNames -> Int]

\* The requests of a page that the route may yet book.
AtServer(k) == {r \in PageRequests : request[r].page = k /\ request[r].at = "sent"}

\* A page that was told of its operation, or will be, accounts for one booking.
Covered(k) == page[k].told = "done"
                  \/ \E r \in PageRequests : P!Awaits(k, r) /\ request[r].at \in {"sent", "booked", "syncing"}

\* A page waits for one request, and whatever else was or may be booked was misreported.
PageOK(k) ==
    /\ \A r \in PageRequests : P!Awaits(k, r) => page[k].loading /\ page[k].told # "done"
    /\ \A r, s \in PageRequests : P!Awaits(k, r) /\ P!Awaits(k, s) => r = s
    /\ booked[k] + Cardinality(AtServer(k)) <= misled[k] + (IF Covered(k) THEN 1 ELSE 0)

PagesInv == PageTypes /\ \A k \in P!PageNames : PageOK(k)

\* The requests at the server can be counted; one more or one less is one.
LEMMA ServerCount ==
    ASSUME NEW k
    PROVE  /\ IsFiniteSet(AtServer(k)) /\ Cardinality(AtServer(k)) \in Nat
           /\ \A r \in AtServer(k) : Cardinality(AtServer(k) \ {r}) = Cardinality(AtServer(k)) - 1
           /\ \A r : r \notin AtServer(k) =>
                 Cardinality(AtServer(k) \cup {r}) = Cardinality(AtServer(k)) + 1
  <1>1. AtServer(k) \subseteq PageRequests
    BY DEF AtServer
  <1>2. IsFiniteSet(AtServer(k)) /\ Cardinality(AtServer(k)) \in Nat
    BY <1>1, PagesAssumption, FS_Subset, FS_CardinalityType
  <1>3. \A r \in AtServer(k) : Cardinality(AtServer(k) \ {r}) = Cardinality(AtServer(k)) - 1
    BY <1>2, FS_RemoveElement
  <1>4. \A r : r \notin AtServer(k) => Cardinality(AtServer(k) \cup {r}) = Cardinality(AtServer(k)) + 1
    BY <1>2, FS_AddElement
  <1>5. QED
    BY <1>2, <1>3, <1>4

\* A page whose requests and whose counts stay is as it was.
LEMMA OtherPage ==
    ASSUME NEW k, PageOK(k), page'[k] = page[k], booked'[k] = booked[k], misled'[k] = misled[k],
           \A r \in PageRequests : request'[r] = request[r] \/ (request'[r].page # k /\ request[r].page # k)
    PROVE  PageOK(k)'
  <1>1. AtServer(k)' = AtServer(k)
    BY DEF AtServer
  <1>2. Cardinality(AtServer(k))' = Cardinality(AtServer(k))
    BY <1>1
  <1>3. \A r \in PageRequests : P!Awaits(k, r)' = P!Awaits(k, r)
    BY DEF P!Awaits
  <1>4. Covered(k)' = Covered(k)
    BY DEF Covered, P!Awaits
  <1>5. QED
    BY <1>2, <1>3, <1>4 DEF PageOK

\* A page and the request it is about.
LEMMA RequestChanges ==
    ASSUME PageTypes, NEW r \in PageRequests, NEW next \in RequestState,
           request' = [request EXCEPT ![r] = next]
    PROVE  /\ request' \in [PageRequests -> RequestState] /\ request'[r] = next
           /\ \A s \in PageRequests \ {r} : request'[s] = request[s]
  BY DEF PageTypes

\* A page, and the others, which stay.
LEMMA PageChanges ==
    ASSUME PageTypes, NEW k \in P!PageNames, NEW next \in PageState,
           page' = [page EXCEPT ![k] = next]
    PROVE  /\ page' \in [P!PageNames -> PageState] /\ page'[k] = next
           /\ \A l \in P!PageNames \ {k} : page'[l] = page[l]
  BY DEF PageTypes

\* The dialogue is opened or closed.
LEMMA DialogueKeeps ==
    ASSUME PagesInv, NEW k \in P!PageNames, P!OpenDialogue(k) \/ P!CloseDialogue(k)
    PROVE  PagesInv'
  <1>0. PageTypes /\ page[k] \in PageState
    BY DEF PagesInv, PageTypes
  <1>1. PICK open \in BOOLEAN : page' = [page EXCEPT ![k].dialogue = open]
    BY DEF P!OpenDialogue, P!CloseDialogue
  <1>2. PICK next : next = [page[k] EXCEPT !.dialogue = open]
    OBVIOUS
  <1>3. next \in PageState /\ next.loading = page[k].loading /\ next.told = page[k].told
    BY <1>0, <1>2 DEF PageState
  <1>4. page' = [page EXCEPT ![k] = next]
    BY <1>1, <1>2 DEF PageTypes
  <1>5. /\ page' \in [P!PageNames -> PageState] /\ page'[k] = next
        /\ \A l \in P!PageNames \ {k} : page'[l] = page[l]
    BY <1>0, <1>3, <1>4, PageChanges
  <1>6. UNCHANGED <<request, booked, misled>>
    BY DEF P!OpenDialogue, P!CloseDialogue
  <1>7. PageTypes'
    BY <1>0, <1>5, <1>6 DEF PageTypes
  <1>8. PageOK(k)'
    <2>1. AtServer(k)' = AtServer(k) /\ \A r \in PageRequests : P!Awaits(k, r)' = P!Awaits(k, r)
      BY <1>6 DEF AtServer, P!Awaits
    <2>2. Covered(k)' = Covered(k)
      BY <1>3, <1>5, <1>6 DEF Covered, P!Awaits
    <2>3. Cardinality(AtServer(k))' = Cardinality(AtServer(k)) /\ PageOK(k)
      BY <2>1 DEF PagesInv
    <2>4. QED
      BY <1>3, <1>5, <1>6, <2>1, <2>2, <2>3 DEF PageOK
  <1>9. \A l \in P!PageNames \ {k} : PageOK(l)'
    BY <1>5, <1>6, OtherPage DEF PagesInv
  <1>10. QED
    BY <1>7, <1>8, <1>9 DEF PagesInv

\* A page that sends its request waits for no other.
LEMMA ConfirmKeeps ==
    ASSUME PagesInv, NEW k \in P!PageNames, NEW r \in PageRequests, P!Confirm(k, r)
    PROVE  PagesInv'
  <1>0. PageTypes /\ page[k] \in PageState /\ PageOK(k)
    BY DEF PagesInv, PageTypes
  <1>1. PICK next : next = [page[k] EXCEPT !.loading = TRUE, !.told = "nothing"]
    OBVIOUS
  <1>2. next \in PageState /\ next.loading /\ next.told = "nothing"
    BY <1>0, <1>1 DEF PageState
  <1>3. page' = [page EXCEPT ![k] = next]
    BY <1>1 DEF P!Confirm, PagesInv, PageTypes
  <1>4. /\ page' \in [P!PageNames -> PageState] /\ page'[k] = next
        /\ \A l \in P!PageNames \ {k} : page'[l] = page[l]
    BY <1>0, <1>2, <1>3, PageChanges
  <1>5. PICK posted : posted = [at |-> "sent", page |-> k, awaited |-> TRUE]
    OBVIOUS
  <1>6. posted \in RequestState /\ posted.at = "sent" /\ posted.page = k /\ posted.awaited
    BY <1>5 DEF RequestState
  <1>7. request' = [request EXCEPT ![r] = posted]
    BY <1>5 DEF P!Confirm
  <1>8. /\ request' \in [PageRequests -> RequestState] /\ request'[r] = posted
        /\ \A s \in PageRequests \ {r} : request'[s] = request[s]
    BY <1>0, <1>6, <1>7, RequestChanges
  <1>9. /\ ~page[k].loading /\ page[k].told # "done"
        /\ request[r].at = "unsent" /\ request[r].page = "none"
        /\ UNCHANGED <<booked, misled>>
    BY DEF P!Confirm, P!MayConfirm, P!NoRequest
  <1>10. PageTypes'
    BY <1>0, <1>4, <1>8, <1>9 DEF PageTypes
  <1>11. PageOK(k)'
    <2>1. \A s \in PageRequests : ~P!Awaits(k, s)
      BY <1>0, <1>9 DEF PageOK
    <2>2. \A s \in PageRequests : P!Awaits(k, s)' => s = r
      BY <1>8, <2>1 DEF P!Awaits
    <2>3. Covered(k)' /\ ~Covered(k)
      BY <1>6, <1>8, <1>9, <2>1 DEF Covered, P!Awaits
    <2>4. AtServer(k)' = AtServer(k) \cup {r} /\ r \notin AtServer(k)
      BY <1>6, <1>8, <1>9 DEF AtServer
    <2>5. Cardinality(AtServer(k))' = Cardinality(AtServer(k)) + 1
      BY <2>4, ServerCount
    <2>6. booked[k] \in Int /\ misled[k] \in Int /\ Cardinality(AtServer(k)) \in Nat
      BY <1>0, ServerCount DEF PageTypes
    <2>7. QED
      BY <1>0, <1>2, <1>4, <1>9, <2>2, <2>3, <2>5, <2>6 DEF PageOK
  <1>12. \A l \in P!PageNames \ {k} : PageOK(l)'
    <2>1. ASSUME NEW l \in P!PageNames \ {k}
          PROVE  PageOK(l)'
      <3>1. request'[r].page # l /\ request[r].page # l
        BY <1>6, <1>8, <1>9 DEF P!PageNames
      <3>2. QED
        BY <1>4, <1>8, <1>9, <3>1, OtherPage DEF PagesInv
    <2>2. QED
      BY <2>1
  <1>13. QED
    BY <1>10, <1>11, <1>12 DEF PagesInv

\* The route answers: a page that waits for what was refused accounts for nothing.
LEMMA RouteKeeps ==
    ASSUME PagesInv, NEW k \in P!PageNames, NEW r \in PageRequests, request[r].page = k,
           request[r].at = "sent", page' = page,
           NEW what \in {"refused", "booked"}, request' = [request EXCEPT ![r].at = what],
           booked' \in [P!PageNames -> Int], misled' \in [P!PageNames -> Int],
           \A l \in P!PageNames \ {k} : booked'[l] = booked[l] /\ misled'[l] = misled[l],
           \/ what = "refused" /\ booked'[k] - booked[k] <= misled'[k] - misled[k]
           \/ what = "booked" /\ booked'[k] = booked[k] + 1 /\ misled'[k] = misled[k]
    PROVE  PagesInv'
  <1>0. PageTypes /\ request[r] \in RequestState /\ PageOK(k)
    BY DEF PagesInv, PageTypes
  <1>1. PICK next : next = [request[r] EXCEPT !.at = what]
    OBVIOUS
  <1>2. next \in RequestState /\ next.at = what /\ next.page = k /\ next.awaited = request[r].awaited
    BY <1>0, <1>1 DEF RequestState
  <1>3. request' = [request EXCEPT ![r] = next]
    BY <1>1 DEF PagesInv, PageTypes
  <1>4. /\ request' \in [PageRequests -> RequestState] /\ request'[r] = next
        /\ \A s \in PageRequests \ {r} : request'[s] = request[s]
    BY <1>0, <1>2, <1>3, RequestChanges
  <1>5. PageTypes'
    BY <1>0, <1>4 DEF PageTypes
  <1>6. PageOK(k)'
    <2>1. AtServer(k)' = AtServer(k) \ {r} /\ r \in AtServer(k)
      BY <1>2, <1>4 DEF AtServer
    <2>2. Cardinality(AtServer(k))' = Cardinality(AtServer(k)) - 1
      BY <2>1, ServerCount
    <2>3. \A s \in PageRequests : P!Awaits(k, s)' = P!Awaits(k, s)
      BY <1>2, <1>4 DEF P!Awaits
    <2>4. what = "booked" /\ Covered(k) => Covered(k)'
      BY <1>2, <1>4, <2>3 DEF Covered
    <2>5. /\ booked[k] \in Int /\ misled[k] \in Int /\ Cardinality(AtServer(k)) \in Nat
          /\ booked'[k] \in Int /\ misled'[k] \in Int
      BY <1>0, ServerCount DEF PageTypes
    <2>6. booked'[k] + Cardinality(AtServer(k))' <= misled'[k] + (IF Covered(k)' THEN 1 ELSE 0)
      BY <1>0, <2>2, <2>4, <2>5 DEF PageOK
    <2>7. QED
      BY <1>0, <2>3, <2>6 DEF PageOK
  <1>7. \A l \in P!PageNames \ {k} : PageOK(l)'
    BY <1>2, <1>4, OtherPage DEF PagesInv
  <1>8. QED
    BY <1>5, <1>6, <1>7 DEF PagesInv

\* What the route does with a request.
LEMMA RouteSteps ==
    ASSUME PagesInv, NEW k \in P!PageNames, NEW r \in PageRequests, request[r].page = k,
           P!Refuse(r) \/ P!Book(r) \/ P!BookAndFail(r)
    PROVE  PagesInv'
  <1>0. booked \in [P!PageNames -> Int] /\ misled \in [P!PageNames -> Int]
    BY DEF PagesInv, PageTypes
  <1>1. request[r].at = "sent" /\ page' = page
    BY DEF P!Refuse, P!Book, P!BookAndFail
  <1>2. CASE P!Refuse(r)
    <2>1. booked' = booked /\ misled' = misled /\ request' = [request EXCEPT ![r].at = "refused"]
      BY <1>2 DEF P!Refuse, P!Answered
    <2>2. booked'[k] - booked[k] <= misled'[k] - misled[k]
      BY <1>0, <2>1
    <2>3. QED
      BY <1>0, <1>1, <2>1, <2>2, RouteKeeps
  <1>3. CASE P!Book(r)
    <2>1. /\ booked' = [booked EXCEPT ![k] = @ + 1] /\ misled' = misled
          /\ request' = [request EXCEPT ![r].at = "booked"]
      BY <1>3 DEF P!Book, P!Answered
    <2>2. /\ booked' \in [P!PageNames -> Int] /\ booked'[k] = booked[k] + 1
          /\ \A l \in P!PageNames \ {k} : booked'[l] = booked[l]
      BY <1>0, <2>1
    <2>3. QED
      BY <1>0, <1>1, <2>1, <2>2, RouteKeeps
  <1>4. CASE P!BookAndFail(r)
    <2>1. /\ booked' = [booked EXCEPT ![k] = @ + 1] /\ misled' = [misled EXCEPT ![k] = @ + 1]
          /\ request' = [request EXCEPT ![r].at = "refused"]
      BY <1>4 DEF P!BookAndFail, P!Answered
    <2>2. /\ booked' \in [P!PageNames -> Int] /\ misled' \in [P!PageNames -> Int]
          /\ booked'[k] - booked[k] <= misled'[k] - misled[k]
          /\ \A l \in P!PageNames \ {k} : booked'[l] = booked[l] /\ misled'[l] = misled[l]
      BY <1>0, <2>1
    <2>3. QED
      BY <1>0, <1>1, <2>1, <2>2, RouteKeeps
  <1>5. QED
    BY <1>2, <1>3, <1>4

\* The answer a page waits for: it is done, or another request may follow.
LEMMA AnswerKeeps ==
    ASSUME PagesInv, NEW k \in P!PageNames, NEW r \in PageRequests, NEW next \in PageState,
           P!Finish(k, r, next), P!Awaits(k, r), booked' = booked,
           misled' \in [P!PageNames -> Int],
           \A l \in P!PageNames \ {k} : misled'[l] = misled[l],
           misled[k] <= misled'[k],
           \/ next.told = "done" /\ request[r].at = "syncing"
           \/ request[r].at = "refused"
           \/ request[r].at = "booked" /\ misled'[k] = misled[k] + 1
    PROVE  PagesInv'
  <1>0. PageTypes /\ request[r] \in RequestState /\ page[k] \in PageState /\ PageOK(k)
    BY DEF PagesInv, PageTypes
  <1>1. /\ page' \in [P!PageNames -> PageState] /\ page'[k] = next
        /\ \A l \in P!PageNames \ {k} : page'[l] = page[l]
    BY <1>0, PageChanges DEF P!Finish
  <1>2. PICK over : over = [request[r] EXCEPT !.at = "over", !.awaited = FALSE]
    OBVIOUS
  <1>3. over \in RequestState /\ over.at = "over" /\ ~over.awaited /\ over.page = request[r].page
    BY <1>0, <1>2 DEF RequestState
  <1>4. request' = [request EXCEPT ![r] = over]
    BY <1>2 DEF P!Finish, PagesInv, PageTypes
  <1>5. /\ request' \in [PageRequests -> RequestState] /\ request'[r] = over
        /\ \A s \in PageRequests \ {r} : request'[s] = request[s]
    BY <1>0, <1>3, <1>4, RequestChanges
  <1>6. request[r].page = k
    BY DEF P!Awaits
  <1>7. PageTypes'
    BY <1>0, <1>1, <1>5 DEF PageTypes
  <1>8. PageOK(k)'
    <2>1. AtServer(k)' = AtServer(k)
      BY <1>3, <1>5 DEF AtServer
    <2>2. Cardinality(AtServer(k))' = Cardinality(AtServer(k))
      BY <2>1
    <2>3. \A s \in PageRequests : ~P!Awaits(k, s)'
      BY <1>0, <1>3, <1>5 DEF P!Awaits, PageOK
    <2>4. Covered(k) => request[r].at \in {"booked", "syncing"}
      BY <1>0 DEF Covered, PageOK
    <2>5. request[r].at = "syncing" => Covered(k)'
      BY <1>1 DEF Covered
    <2>6. /\ booked[k] \in Int /\ misled[k] \in Int /\ Cardinality(AtServer(k)) \in Nat
          /\ misled'[k] \in Int
      BY <1>0, ServerCount DEF PageTypes
    <2>7. booked'[k] + Cardinality(AtServer(k))' <= misled'[k] + (IF Covered(k)' THEN 1 ELSE 0)
      BY <1>0, <2>2, <2>4, <2>5, <2>6 DEF PageOK
    <2>8. QED
      BY <2>3, <2>7 DEF PageOK
  <1>9. \A l \in P!PageNames \ {k} : PageOK(l)'
    BY <1>1, <1>3, <1>5, <1>6, OtherPage DEF PagesInv
  <1>10. QED
    BY <1>7, <1>8, <1>9 DEF PagesInv

\* What a page does of an answer, or of its loss.
LEMMA AnswerSteps ==
    ASSUME PagesInv, NEW k \in P!PageNames, NEW r \in PageRequests,
           P!ShowFailure(k, r) \/ P!ShowLost(k, r) \/ P!ShowSuccess(k, r)
    PROVE  PagesInv'
  <1>0. page[k] \in PageState /\ misled \in [P!PageNames -> Int]
    BY DEF PagesInv, PageTypes
  <1>1. P!Fail(k) \in PageState
    <2>1. PICK open \in BOOLEAN : P!Fail(k) = [page[k] EXCEPT !.loading = FALSE, !.told = "failed", !.dialogue = open]
      <3>1. CASE k = "send"
        BY <3>1 DEF P!Fail
      <3>2. CASE k # "send"
        <4>1. P!Fail(k) = [page[k] EXCEPT !.loading = FALSE, !.told = "failed", !.dialogue = page[k].dialogue]
          BY <1>0, <3>2 DEF P!Fail, PageState
        <4>2. page[k].dialogue \in BOOLEAN
          BY <1>0 DEF PageState
        <4>3. QED
          BY <4>1, <4>2
      <3>3. QED
        BY <3>1, <3>2
    <2>2. QED
      BY <1>0, <2>1 DEF PageState
  <1>2. CASE P!ShowFailure(k, r)
    <2>1. /\ P!Finish(k, r, P!Fail(k)) /\ P!Awaits(k, r) /\ request[r].at = "refused"
          /\ booked' = booked /\ misled' = misled
      BY <1>2 DEF P!ShowFailure
    <2>2. misled[k] <= misled'[k]
      BY <1>0, <2>1
    <2>3. QED
      BY <1>0, <1>1, <2>1, <2>2, AnswerKeeps
  <1>3. CASE P!ShowLost(k, r)
    <2>1. /\ P!Finish(k, r, P!Fail(k)) /\ P!Awaits(k, r) /\ request[r].at \in {"refused", "booked"}
          /\ booked' = booked
          /\ misled' = [misled EXCEPT ![k] = IF request[r].at = "booked" THEN @ + 1 ELSE @]
      BY <1>3 DEF P!ShowLost
    <2>2. /\ misled' \in [P!PageNames -> Int] /\ \A l \in P!PageNames \ {k} : misled'[l] = misled[l]
          /\ misled[k] <= misled'[k]
          /\ request[r].at = "booked" => misled'[k] = misled[k] + 1
      BY <1>0, <2>1
    <2>3. QED
      BY <1>1, <2>1, <2>2, AnswerKeeps
  <1>4. CASE P!ShowSuccess(k, r)
    <2>1. PICK next : next = [dialogue |-> FALSE, loading |-> FALSE, told |-> "done"]
      OBVIOUS
    <2>2. next \in PageState /\ next.told = "done"
      BY <2>1 DEF PageState
    <2>3. /\ P!Finish(k, r, next) /\ P!Awaits(k, r) /\ request[r].at = "syncing"
          /\ booked' = booked /\ misled' = misled
      BY <1>4, <2>1 DEF P!ShowSuccess
    <2>4. misled[k] <= misled'[k]
      BY <1>0, <2>3
    <2>5. QED
      BY <1>0, <2>2, <2>3, <2>4, AnswerKeeps
  <1>5. QED
    BY <1>2, <1>3, <1>4

\* The balances are read once it was booked.
LEMMA SyncKeeps ==
    ASSUME PagesInv, NEW k \in P!PageNames, NEW r \in PageRequests, P!Sync(k, r)
    PROVE  PagesInv'
  <1>0. PageTypes /\ request[r] \in RequestState /\ PageOK(k)
    BY DEF PagesInv, PageTypes
  <1>1. PICK next : next = [request[r] EXCEPT !.at = "syncing"]
    OBVIOUS
  <1>2. /\ next \in RequestState /\ next.at = "syncing" /\ next.page = request[r].page
        /\ next.awaited = request[r].awaited
    BY <1>0, <1>1 DEF RequestState
  <1>3. request' = [request EXCEPT ![r] = next]
    BY <1>1 DEF P!Sync, P!Answered, PagesInv, PageTypes
  <1>4. /\ request' \in [PageRequests -> RequestState] /\ request'[r] = next
        /\ \A s \in PageRequests \ {r} : request'[s] = request[s]
    BY <1>0, <1>2, <1>3, RequestChanges
  <1>5. P!Awaits(k, r) /\ request[r].page = k /\ request[r].at = "booked" /\ UNCHANGED <<page, booked, misled>>
    BY DEF P!Sync, P!Awaits
  <1>6. PageTypes'
    BY <1>0, <1>4, <1>5 DEF PageTypes
  <1>7. PageOK(k)'
    <2>1. AtServer(k)' = AtServer(k)
      BY <1>2, <1>4, <1>5 DEF AtServer
    <2>2. Cardinality(AtServer(k))' = Cardinality(AtServer(k))
      BY <2>1
    <2>3. \A s \in PageRequests : P!Awaits(k, s)' = P!Awaits(k, s)
      BY <1>2, <1>4 DEF P!Awaits
    <2>4. Covered(k)' /\ Covered(k)
      BY <1>2, <1>4, <1>5, <2>3 DEF Covered
    <2>5. QED
      BY <1>0, <1>5, <2>2, <2>3, <2>4 DEF PageOK
  <1>8. \A l \in P!PageNames \ {k} : PageOK(l)'
    BY <1>2, <1>4, <1>5, OtherPage DEF PagesInv
  <1>9. QED
    BY <1>6, <1>7, <1>8 DEF PagesInv

\* A page that is left while it waits is told of nothing, which is counted.
LEMMA LeaveKeeps ==
    ASSUME PagesInv, NEW k \in P!PageNames, P!Leave(k)
    PROVE  PagesInv'
  <1>0. PageTypes /\ PageOK(k)
    BY DEF PagesInv
  <1>1. P!Fresh(k) \in PageState /\ P!Fresh(k).told = "nothing"
    BY DEF P!Fresh, PageState
  <1>2. /\ page' \in [P!PageNames -> PageState] /\ page'[k] = P!Fresh(k)
        /\ \A l \in P!PageNames \ {k} : page'[l] = page[l]
    BY <1>0, <1>1, PageChanges DEF P!Leave
  <1>3. ASSUME NEW r \in PageRequests
        PROVE  /\ request'[r] \in RequestState
               /\ request'[r].page = request[r].page /\ request'[r].at = request[r].at
               /\ ~P!Awaits(k, r)'
               /\ request[r].page # k => request'[r] = request[r]
    <2>1. request'[r] = IF P!Awaits(k, r) THEN [request[r] EXCEPT !.awaited = FALSE] ELSE request[r]
      BY DEF P!Leave
    <2>2. request[r] \in RequestState
      BY <1>0 DEF PageTypes
    <2>3. CASE P!Awaits(k, r)
      <3>1. PICK next : next = [request[r] EXCEPT !.awaited = FALSE]
        OBVIOUS
      <3>2. next \in RequestState /\ next.page = request[r].page /\ next.at = request[r].at /\ ~next.awaited
        BY <2>2, <3>1 DEF RequestState
      <3>3. request'[r] = next
        BY <2>1, <2>3, <3>1
      <3>4. request[r].page = k
        BY <2>3 DEF P!Awaits
      <3>5. QED
        BY <3>2, <3>3, <3>4 DEF P!Awaits
    <2>4. CASE ~P!Awaits(k, r)
      <3>1. request'[r] = request[r]
        BY <2>1, <2>4
      <3>2. QED
        BY <2>2, <2>4, <3>1 DEF P!Awaits
    <2>5. QED
      BY <2>3, <2>4
  <1>4. request' \in [PageRequests -> RequestState]
    <2>1. request' = [r \in PageRequests |-> request'[r]]
      BY DEF P!Leave
    <2>2. QED
      BY <1>3, <2>1
  <1>5. /\ page[k].told # "done" /\ booked' = booked
        /\ misled' = [misled EXCEPT ![k] = IF page[k].loading THEN @ + 1 ELSE @]
    BY DEF P!Leave
  <1>6. /\ misled' \in [P!PageNames -> Int]
        /\ \A l \in P!PageNames \ {k} : misled'[l] = misled[l]
        /\ misled[k] <= misled'[k] /\ (page[k].loading => misled'[k] = misled[k] + 1)
    BY <1>0, <1>5 DEF PageTypes
  <1>7. PageTypes'
    BY <1>0, <1>2, <1>4, <1>5, <1>6 DEF PageTypes
  <1>8. PageOK(k)'
    <2>1. AtServer(k)' = AtServer(k)
      BY <1>3 DEF AtServer
    <2>2. Cardinality(AtServer(k))' = Cardinality(AtServer(k))
      BY <2>1
    <2>3. Covered(k) => page[k].loading
      BY <1>0, <1>5 DEF Covered, PageOK
    <2>4. /\ booked[k] \in Int /\ misled[k] \in Int /\ Cardinality(AtServer(k)) \in Nat
          /\ misled'[k] \in Int
      BY <1>0, <1>6, ServerCount DEF PageTypes
    <2>5. booked'[k] + Cardinality(AtServer(k))' <= misled'[k] + (IF Covered(k)' THEN 1 ELSE 0)
      BY <1>0, <1>5, <1>6, <2>2, <2>3, <2>4 DEF PageOK
    <2>6. QED
      BY <1>3, <2>5 DEF PageOK
  <1>9. \A l \in P!PageNames \ {k} : PageOK(l)'
    <2>1. \A l \in P!PageNames \ {k}, r \in PageRequests :
             request'[r] = request[r] \/ (request'[r].page # l /\ request[r].page # l)
      BY <1>3
    <2>2. QED
      BY <1>2, <1>5, <1>6, <2>1, OtherPage DEF PagesInv
  <1>10. QED
    BY <1>7, <1>8, <1>9 DEF PagesInv

\* What a user means once is booked once in every state.
LEMMA PagesHold == P!Spec => []PagesInv
  <1>1. P!Init => PagesInv
    <2> SUFFICES ASSUME P!Init PROVE PagesInv
      OBVIOUS
    <2>1. \A r \in PageRequests : request[r] = P!NoRequest
      BY DEF P!Init
    <2>2. PageTypes
      BY DEF P!Init, PageTypes, PageState, RequestState, P!Fresh, P!NoRequest
    <2>3. ASSUME NEW k \in P!PageNames
          PROVE  PageOK(k)
      <3>1. AtServer(k) = {} /\ \A r \in PageRequests : ~P!Awaits(k, r)
        BY <2>1 DEF AtServer, P!Awaits, P!NoRequest
      <3>2. Cardinality(AtServer(k)) = 0 /\ booked[k] = 0 /\ misled[k] = 0
        BY <3>1, FS_EmptySet DEF P!Init
      <3>3. QED
        BY <3>1, <3>2 DEF PageOK
    <2>4. QED
      BY <2>2, <2>3 DEF PagesInv
  <1>2. PagesInv /\ [P!Next]_P!pageVars => PagesInv'
    <2> SUFFICES ASSUME PagesInv, [P!Next]_P!pageVars PROVE PagesInv'
      OBVIOUS
    <2>1. CASE UNCHANGED P!pageVars
      <3>1. UNCHANGED <<page, request, booked, misled>>
        BY <2>1 DEF P!pageVars
      <3>2. PageTypes' /\ \A k \in P!PageNames : PageOK(k)'
        BY <3>1, OtherPage DEF PagesInv, PageTypes
      <3>3. QED
        BY <3>2 DEF PagesInv
    <2>2. CASE P!Next
      <3>1. PICK k \in P!PageNames :
              \/ P!OpenDialogue(k) \/ P!CloseDialogue(k) \/ P!Leave(k)
              \/ \E r \in PageRequests :
                    \/ P!Confirm(k, r)
                    \/ P!ShowFailure(k, r) \/ P!ShowLost(k, r) \/ P!Sync(k, r) \/ P!ShowSuccess(k, r)
                    \/ request[r].page = k /\ (P!Refuse(r) \/ P!Book(r) \/ P!BookAndFail(r))
        BY <2>2 DEF P!Next
      <3>2. QED
        BY <3>1, DialogueKeeps, LeaveKeeps, ConfirmKeeps, AnswerSteps, SyncKeeps, RouteSteps
    <2>3. QED
      BY <2>1, <2>2
  <1>3. QED
    BY <1>1, <1>2, PTL DEF P!Spec

\* At most one booking is accounted for.
LEMMA PagesBookOnce ==
    ASSUME PagesInv
    PROVE  P!BookedOnce
  <1>1. ASSUME NEW k \in P!PageNames
        PROVE  booked[k] <= 1 + misled[k]
    <2>1. booked[k] \in Int /\ misled[k] \in Int /\ Cardinality(AtServer(k)) \in Nat
      BY ServerCount DEF PagesInv, PageTypes
    <2>2. QED
      BY <2>1 DEF PagesInv, PageOK
  <1>2. QED
    BY <1>1 DEF P!BookedOnce

-----------------------------------------------------------------------------
(* The withdrawal as its user sees it.                                     *)

WithdrawalForm ==
    [step : {"accounts", "add", "amount", "confirm", "success"}, selected : BankAccounts \cup {None},
     cents : Int, dialogue : BOOLEAN, loading : BOOLEAN, knew : Int, of : Withdrawals \cup {None},
     touched : BOOLEAN]

AnyRule == [fee_permille : Int, fee_min : Int, fee_max : Int]

\* A request that was sent
AskedOf ==
    [at : {"asked", "booked", "short", "refused", "synced"}, awaited : BOOLEAN,
     account : BankAccounts, cents : Int, promised : Int, kept : BOOLEAN, knew : Int,
     outrun : BOOLEAN, net : Int, by : AnyRule]

NotAsked == [at : {"unsent"}, awaited : {FALSE}]

WithdrawTypes ==
    /\ bankForm \in WithdrawalForm
    /\ \A r \in Withdrawals : asked[r] \in NotAsked \cup AskedOf
    /\ asked = [r \in Withdrawals |-> asked[r]]
    /\ funds \in Int /\ postings \in Int /\ rule \in AnyRule
    /\ shownFunds \in [cents : Int, postings : Int]

\* An amount was there when so many postings were known, if that was all of them.
Covers(cents, n) == n <= postings /\ (n = postings => cents <= funds)

\* The account selected is of the user's country and saved, or the timer removed it.
SelectedOK(a) == a = None \/ (CountryOf[a] = Country /\ a \in saved \cup faded)

\* What the form needs before each step.
FormOK(g) ==
    /\ SelectedOK(g.selected)
    /\ g.step \in {"amount", "confirm"} => g.selected # None
    /\ g.dialogue => g.step = "confirm" /\ place = "withdraw"
    /\ g.step = "confirm" => Covers(g.cents, g.knew)

\* The balance shown is the balance, or a posting is not known yet.
FundsInv == shownFunds.postings <= postings /\ (shownFunds.postings = postings => shownFunds.cents = funds)

\* The form has what was posted, unless it was changed since.
SameAs(g, r) == g.touched \/ (g.selected = asked[r].account /\ g.cents = asked[r].cents)

\* The page waits for one request, and only while it is open.
WaitInv ==
    /\ \A r \in Withdrawals : asked[r].awaited =>
          place = "withdraw" /\ bankForm.loading /\ SameAs(bankForm, r)
    /\ \A r, s \in Withdrawals : asked[r].awaited /\ asked[s].awaited => r = s

\* What is known of a request that was sent
SentOK(q) ==
    /\ CountryOf[q.account] = Country /\ (q.kept \/ q.account \in faded)
    /\ q.promised = W!EstNet(q.cents)
    /\ q.at = "asked" => Covers(q.cents, q.knew)
    /\ q.at \in {"booked", "synced"} => q.net = W!Net(q.by, q.cents)
    /\ q.at = "short" => q.outrun

SentInv == \A r \in Withdrawals : asked[r] \in AskedOf => SentOK(asked[r])

\* The voucher is of a request that was sent.
VoucherInv == bankForm.step = "success" => bankForm.of \in Withdrawals /\ asked[bankForm.of] \in AskedOf
                                           /\ SameAs(bankForm, bankForm.of)

WithdrawInv == WithdrawTypes /\ FormOK(bankForm) /\ FundsInv /\ WaitInv /\ SentInv /\ VoucherInv

\* A request was sent or not, and its fields are typed.
LEMMA AskedTyped ==
    ASSUME WithdrawTypes
    PROVE  \A r \in Withdrawals : /\ asked[r].at # "unsent" <=> asked[r] \in AskedOf
                                  /\ asked[r].awaited => asked[r] \in AskedOf
  BY DEF WithdrawTypes, AskedOf, NotAsked

\* The fee of a rule of whole numbers is a whole number.
LEMMA NetTyped ==
    ASSUME NEW q \in AnyRule, NEW n \in Int
    PROVE  W!Net(q, n) \in Int
  <1>1. PICK p, lo, hi \in Int : p = q.fee_permille /\ lo = q.fee_min /\ hi = q.fee_max
    BY DEF AnyRule
  <1>2. n * p \in Int
    BY <1>1
  <1>3. W!RaisedFee(q, n) \in Int
    BY <1>1, <1>2 DEF W!RaisedFee
  <1>4. W!CappedFee(q, n) \in Int
    BY <1>1, <1>3 DEF W!CappedFee
  <1>5. QED
    BY <1>4 DEF W!Net, W!Fee, W!RoundDiv

\* What the page expects is the rule of a collection without rules.
LEMMA EstimateIsSeeded == W!Estimate = W!Seeded /\ W!Seeded \in AnyRule
  BY DEF W!Estimate, W!Seeded, AnyRule

\* What the page promises is a whole number.
LEMMA PromiseTyped ==
    ASSUME NEW n \in Int
    PROVE  W!EstNet(n) \in Int
  BY NetTyped, EstimateIsSeeded DEF W!EstNet

\* The invariant is what a withdrawal as it was meant needs.
LEMMA MeantFollows ==
    ASSUME WithdrawInv
    PROVE  W!WithdrawnAsMeant
  <1>1. \A r \in W!Sent : asked[r] \in AskedOf /\ SentOK(asked[r])
    BY AskedTyped DEF WithdrawInv, SentInv, W!Sent
  <1>2. W!PaidToSaved /\ W!ShortWasOutrun
    BY <1>1 DEF W!PaidToSaved, W!ShortWasOutrun, SentOK
  <1>3. W!NetAsPromised
    BY <1>1, EstimateIsSeeded DEF W!NetAsPromised, SentOK, W!EstNet
  <1>4. W!VoucherTells
    BY DEF WithdrawInv, VoucherInv, W!VoucherTells, W!Voucher, SameAs
  <1>5. QED
    BY <1>2, <1>3, <1>4 DEF W!WithdrawnAsMeant

-----------------------------------------------------------------------------
\* The user changes the form, or it stays: a change under a request is seen.
LEMMA SetKeeps ==
    ASSUME WithdrawInv, NEW new \in WithdrawalForm, W!Set(new),
           new.loading = bankForm.loading, new.touched = bankForm.touched,
           new.step # "success", faded' = faded, FormOK(new)'
    PROVE  WithdrawInv'
  <1>0. WithdrawTypes
    BY DEF WithdrawInv
  <1>1. UNCHANGED <<place, asked, shownFunds, funds, rule, postings>>
    BY DEF W!Set, W!server
  <1>2. PICK b \in BOOLEAN :
           /\ bankForm' = [new EXCEPT !.touched = b]
           /\ new.touched => b
           /\ bankForm.loading /\ ~(new.selected = bankForm.selected /\ new.cents = bankForm.cents) => b
    <2>1. PICK b : b = (new.touched \/ (bankForm.loading /\ <<new.selected, new.cents>> # <<bankForm.selected, bankForm.cents>>))
      OBVIOUS
    <2>2. bankForm' = [new EXCEPT !.touched = b]
      BY <2>1 DEF W!Set
    <2>3. new.touched \in BOOLEAN
      BY DEF WithdrawalForm
    <2>4. b \in BOOLEAN /\ (new.touched => b)
          /\ (bankForm.loading /\ ~(new.selected = bankForm.selected /\ new.cents = bankForm.cents) => b)
      BY <2>1, <2>3
    <2>5. QED
      BY <2>2, <2>4
  <1>3. /\ bankForm' \in WithdrawalForm /\ bankForm'.touched = b
        /\ bankForm'.step = new.step /\ bankForm'.selected = new.selected /\ bankForm'.cents = new.cents
        /\ bankForm'.dialogue = new.dialogue /\ bankForm'.loading = bankForm.loading /\ bankForm'.knew = new.knew
    BY <1>2 DEF WithdrawalForm
  <1>4. WithdrawTypes'
    BY <1>0, <1>1, <1>3 DEF WithdrawTypes
  <1>5. FormOK(bankForm)'
    BY <1>1, <1>3 DEF FormOK, SelectedOK, Covers
  <1>6. FundsInv'
    BY <1>1 DEF WithdrawInv, FundsInv
  <1>7. WaitInv'
    BY <1>1, <1>2, <1>3 DEF WithdrawInv, WaitInv, SameAs
  <1>8. SentInv'
    BY <1>1 DEF WithdrawInv, SentInv, SentOK, Covers
  <1>9. VoucherInv'
    BY <1>3 DEF VoucherInv
  <1>10. QED
    BY <1>4, <1>5, <1>6, <1>7, <1>8, <1>9 DEF WithdrawInv

\* The steps of the form before the request.
LEMMA FormSteps ==
    ASSUME WithdrawInv,
           \/ \E a \in BankAccounts : W!Choose(a) \/ W!Delete(a)
           \/ W!NewAccount \/ W!Continue \/ W!AmountNext \/ W!Back \/ W!OpenDialogue \/ W!CloseDialogue
           \/ \E cents \in WithdrawAmounts \cup {shownFunds.cents} : W!Type(cents)
    PROVE  WithdrawInv'
  <1>0. /\ bankForm \in WithdrawalForm /\ FormOK(bankForm) /\ FundsInv
        /\ shownFunds.cents \in Int /\ shownFunds.postings \in Int /\ funds \in Int /\ postings \in Int
    BY DEF WithdrawInv, WithdrawTypes
  <1> DEFINE Goes(new) == /\ new \in WithdrawalForm /\ W!Set(new) /\ new.loading = bankForm.loading
                          /\ new.touched = bankForm.touched /\ new.step # "success"
                          /\ faded' = faded /\ FormOK(new)'
  <1>1. ASSUME NEW new, Goes(new)
        PROVE  WithdrawInv'
    BY <1>1, SetKeeps
  <1>2. ASSUME NEW a \in BankAccounts, W!Choose(a)
        PROVE  WithdrawInv'
    <2>1. PICK new : new = [bankForm EXCEPT !.selected = a]
      OBVIOUS
    <2>2. /\ new \in WithdrawalForm /\ new.selected = a /\ new.step = bankForm.step
          /\ new.loading = bankForm.loading /\ new.touched = bankForm.touched /\ new.dialogue = bankForm.dialogue
      BY <1>0, <2>1 DEF WithdrawalForm
    <2>3. /\ W!Set(new) /\ bankForm.step = "accounts" /\ ~bankForm.dialogue /\ UNCHANGED <<saved, faded>>
          /\ a \in saved /\ CountryOf[a] = Country
      BY <1>2, <2>1 DEF W!Choose, W!On, W!Offered, W!Mine, W!kept
    <2>4. FormOK(new)'
      BY <2>2, <2>3 DEF FormOK, SelectedOK
    <2>5. QED
      BY <1>1, <2>2, <2>3, <2>4
  <1>3. ASSUME NEW a \in BankAccounts, W!Delete(a)
        PROVE  WithdrawInv'
    <2>1. PICK b : b = (IF bankForm.selected = a THEN None ELSE bankForm.selected)
      OBVIOUS
    <2>2. PICK new : new = [bankForm EXCEPT !.selected = b]
      OBVIOUS
    <2>3. b \in BankAccounts \cup {None}
      BY <1>0, <2>1 DEF WithdrawalForm
    <2>4. /\ new \in WithdrawalForm /\ new.selected = b /\ new.step = bankForm.step
          /\ new.loading = bankForm.loading /\ new.touched = bankForm.touched /\ new.dialogue = bankForm.dialogue
      BY <1>0, <2>2, <2>3 DEF WithdrawalForm
    <2>5. /\ W!Set(new) /\ bankForm.step = "accounts" /\ ~bankForm.dialogue
          /\ saved' = saved \ {a} /\ faded' = faded
      BY <1>3, <2>1, <2>2 DEF W!Delete, W!On
    <2>6. FormOK(new)'
      BY <1>0, <2>1, <2>4, <2>5 DEF FormOK, SelectedOK
    <2>7. QED
      BY <1>1, <2>4, <2>5, <2>6
  <1>4. CASE W!NewAccount
    <2>1. PICK new : new = [bankForm EXCEPT !.step = "add"]
      OBVIOUS
    <2>2. /\ new \in WithdrawalForm /\ new.selected = bankForm.selected /\ new.step = "add"
          /\ new.loading = bankForm.loading /\ new.touched = bankForm.touched /\ new.dialogue = bankForm.dialogue
      BY <1>0, <2>1 DEF WithdrawalForm
    <2>3. W!Set(new) /\ ~bankForm.dialogue /\ UNCHANGED <<saved, faded>>
      BY <1>4, <2>1 DEF W!NewAccount, W!On, W!kept
    <2>4. FormOK(new)'
      BY <1>0, <2>2, <2>3 DEF FormOK, SelectedOK
    <2>5. QED
      BY <1>1, <2>2, <2>3, <2>4
  <1>5. CASE W!Continue
    <2>1. PICK new : new = [bankForm EXCEPT !.step = "amount"]
      OBVIOUS
    <2>2. /\ new \in WithdrawalForm /\ new.selected = bankForm.selected /\ new.step = "amount"
          /\ new.loading = bankForm.loading /\ new.touched = bankForm.touched /\ new.dialogue = bankForm.dialogue
      BY <1>0, <2>1 DEF WithdrawalForm
    <2>3. W!Set(new) /\ ~bankForm.dialogue /\ bankForm.selected # None /\ UNCHANGED <<saved, faded>>
      BY <1>5, <2>1 DEF W!Continue, W!On, W!kept
    <2>4. FormOK(new)'
      BY <1>0, <2>2, <2>3 DEF FormOK, SelectedOK
    <2>5. QED
      BY <1>1, <2>2, <2>3, <2>4
  <1>6. CASE W!AmountNext
    <2>1. PICK new : new = [bankForm EXCEPT !.step = "confirm", !.knew = shownFunds.postings]
      OBVIOUS
    <2>2. /\ new \in WithdrawalForm /\ new.selected = bankForm.selected /\ new.step = "confirm"
          /\ new.knew = shownFunds.postings /\ new.cents = bankForm.cents /\ bankForm.cents \in Int
          /\ new.loading = bankForm.loading /\ new.touched = bankForm.touched /\ new.dialogue = bankForm.dialogue
      BY <1>0, <2>1 DEF WithdrawalForm
    <2>3. /\ W!Set(new) /\ bankForm.step = "amount" /\ ~bankForm.dialogue /\ bankForm.cents <= shownFunds.cents
          /\ UNCHANGED <<saved, faded>>
      BY <1>6, <2>1 DEF W!AmountNext, W!On, W!kept
    <2>4. funds' = funds /\ postings' = postings
      BY <2>3 DEF W!Set, W!server
    <2>5. Covers(new.cents, new.knew)'
      BY <1>0, <2>2, <2>3, <2>4 DEF Covers, FundsInv
    <2>6. FormOK(new)'
      BY <1>0, <2>2, <2>3, <2>5 DEF FormOK, SelectedOK
    <2>7. QED
      BY <1>1, <2>2, <2>3, <2>6
  <1>7. CASE W!Back
    <2>1. PICK b : b = (IF bankForm.step = "confirm" THEN "amount" ELSE "accounts")
      OBVIOUS
    <2>2. PICK new : new = [bankForm EXCEPT !.step = b]
      OBVIOUS
    <2>3. /\ new \in WithdrawalForm /\ new.selected = bankForm.selected /\ new.step = b
          /\ b \in {"amount", "accounts"} /\ (b = "amount" => bankForm.step = "confirm")
          /\ new.loading = bankForm.loading /\ new.touched = bankForm.touched /\ new.dialogue = bankForm.dialogue
      BY <1>0, <2>1, <2>2 DEF WithdrawalForm
    <2>4. W!Set(new) /\ ~bankForm.dialogue /\ UNCHANGED <<saved, faded>>
      BY <1>7, <2>1, <2>2 DEF W!Back, W!On, W!kept
    <2>5. FormOK(new)'
      BY <1>0, <2>3, <2>4 DEF FormOK, SelectedOK
    <2>6. QED
      BY <1>1, <2>3, <2>4, <2>5
  <1>8. CASE W!OpenDialogue \/ W!CloseDialogue
    <2>1. PICK b \in BOOLEAN : (W!OpenDialogue /\ b) \/ (W!CloseDialogue /\ ~b)
      BY <1>8
    <2>2. PICK new : new = [bankForm EXCEPT !.dialogue = b]
      OBVIOUS
    <2>3. /\ new \in WithdrawalForm /\ new.selected = bankForm.selected /\ new.step = bankForm.step
          /\ new.knew = bankForm.knew /\ new.cents = bankForm.cents
          /\ new.loading = bankForm.loading /\ new.touched = bankForm.touched /\ new.dialogue = b
      BY <1>0, <2>1, <2>2 DEF WithdrawalForm
    <2>4. /\ W!Set(new) /\ UNCHANGED <<saved, faded>>
          /\ bankForm.step = "confirm" /\ (b => place = "withdraw")
      <3>1. CASE W!OpenDialogue /\ b
        <4>1. [bankForm EXCEPT !.dialogue = TRUE] = new
          BY <2>2, <3>1
        <4>2. QED
          BY <3>1, <4>1 DEF W!OpenDialogue, W!On, W!kept
      <3>2. CASE W!CloseDialogue /\ ~b
        <4>1. [bankForm EXCEPT !.dialogue = FALSE] = new
          BY <2>1, <2>2, <3>2
        <4>2. bankForm.dialogue
          BY <3>2 DEF W!CloseDialogue
        <4>3. QED
          BY <1>0, <3>2, <4>1, <4>2 DEF W!CloseDialogue, W!kept, FormOK
      <3>3. QED
        BY <2>1, <3>1, <3>2
    <2>5. place' = place /\ funds' = funds /\ postings' = postings
      BY <2>4 DEF W!Set, W!server
    <2>6. FormOK(new)'
      BY <1>0, <2>3, <2>4, <2>5 DEF FormOK, SelectedOK, Covers
    <2>7. QED
      BY <1>1, <2>3, <2>4, <2>6
  <1>9. ASSUME NEW cents \in WithdrawAmounts \cup {shownFunds.cents}, W!Type(cents)
        PROVE  WithdrawInv'
    <2>1. PICK new : new = [bankForm EXCEPT !.cents = cents]
      OBVIOUS
    <2>2. cents \in Int
      <3>1. WithdrawAmounts \subseteq Nat
        BY WithdrawAssumption
      <3>2. QED
        BY <1>0, <3>1
    <2>3. /\ new \in WithdrawalForm /\ new.selected = bankForm.selected /\ new.step = bankForm.step
          /\ new.loading = bankForm.loading /\ new.touched = bankForm.touched /\ new.dialogue = bankForm.dialogue
      BY <1>0, <2>1, <2>2 DEF WithdrawalForm
    <2>4. W!Set(new) /\ bankForm.step = "amount" /\ ~bankForm.dialogue /\ UNCHANGED <<saved, faded>>
      BY <1>9, <2>1 DEF W!Type, W!On, W!kept
    <2>5. FormOK(new)'
      BY <1>0, <2>3, <2>4 DEF FormOK, SelectedOK
    <2>6. QED
      BY <1>1, <2>3, <2>4, <2>5
  <1>10. QED
    BY <1>2, <1>3, <1>4, <1>5, <1>6, <1>7, <1>8, <1>9

\* The accounts are saved and removed; one that is removed by the timer was faded.
LEMMA AccountSteps ==
    ASSUME WithdrawInv, NEW a \in BankAccounts,
           W!AddThere(a) \/ W!DeleteThere(a) \/ W!FadeOut(a) \/ W!AddHere(a)
    PROVE  WithdrawInv'
  <1>0. bankForm \in WithdrawalForm /\ FormOK(bankForm) /\ WithdrawTypes
    BY DEF WithdrawInv, WithdrawTypes
  <1>1. /\ UNCHANGED <<place, asked, shownFunds, funds, rule, postings>>
        /\ faded \subseteq faded' /\ saved \cup faded \subseteq saved' \cup faded'
    BY DEF W!AddThere, W!DeleteThere, W!FadeOut, W!AddHere, W!Save, W!server
  <1>2. /\ bankForm' \in WithdrawalForm /\ bankForm'.selected = bankForm.selected /\ bankForm'.cents = bankForm.cents
        /\ bankForm'.touched = bankForm.touched /\ bankForm'.loading = bankForm.loading
        /\ bankForm'.dialogue = bankForm.dialogue
        /\ (bankForm' = bankForm \/ (bankForm'.step = "accounts" /\ bankForm.step = "add"))
    <2>1. CASE bankForm' = bankForm
      BY <1>0, <2>1
    <2>2. CASE W!AddHere(a)
      BY <1>0, <2>2 DEF W!AddHere, WithdrawalForm
    <2>3. QED
      BY <2>1, <2>2 DEF W!AddThere, W!DeleteThere, W!FadeOut
  <1>3. WithdrawTypes'
    BY <1>0, <1>1, <1>2 DEF WithdrawTypes
  <1>4. FormOK(bankForm)'
    BY <1>0, <1>1, <1>2 DEF FormOK, SelectedOK, Covers
  <1>5. FundsInv' /\ WaitInv'
    BY <1>1, <1>2 DEF WithdrawInv, FundsInv, WaitInv, SameAs
  <1>6. SentInv'
    BY <1>1 DEF WithdrawInv, SentInv, SentOK, Covers
  <1>7. VoucherInv'
    BY <1>1, <1>2 DEF WithdrawInv, VoucherInv, SameAs
  <1>8. QED
    BY <1>3, <1>4, <1>5, <1>6, <1>7 DEF WithdrawInv

-----------------------------------------------------------------------------
\* Pages are opened and left, and the dashboard reads the balance.
LEMMA PageSteps ==
    ASSUME WithdrawInv, W!OpenAccounts \/ W!OpenWithdraw \/ W!Leave \/ W!Refresh
    PROVE  WithdrawInv'
  <1>0. /\ bankForm \in WithdrawalForm /\ FormOK(bankForm) /\ WithdrawTypes /\ FundsInv
        /\ \A r \in Withdrawals : asked[r] \in NotAsked \cup AskedOf
    BY DEF WithdrawInv, WithdrawTypes
  <1>1. UNCHANGED <<funds, rule, postings, saved, faded>>
    BY DEF W!OpenAccounts, W!OpenWithdraw, W!Leave, W!Refresh, W!server, W!kept
  <1>2. W!NewForm \in WithdrawalForm /\ W!NewForm.selected = None /\ W!NewForm.step = "accounts" /\ ~W!NewForm.dialogue
    BY DEF W!NewForm, WithdrawalForm
  <1>3. CASE W!OpenAccounts \/ W!OpenWithdraw
    <2>1. /\ UNCHANGED <<asked, shownFunds>> /\ place # "withdraw"
          /\ bankForm' = W!NewForm \/ (bankForm' = bankForm /\ place' = "accounts")
      BY <1>3 DEF W!OpenAccounts, W!OpenWithdraw
    <2>2. WithdrawTypes'
      BY <1>0, <1>1, <1>2, <2>1 DEF WithdrawTypes
    <2>3. FormOK(bankForm)'
      BY <1>0, <1>1, <1>2, <2>1 DEF FormOK, SelectedOK, Covers
    <2>4. FundsInv' /\ SentInv'
      BY <1>1, <2>1 DEF WithdrawInv, FundsInv, SentInv, SentOK, Covers
    <2>5. WaitInv'
      BY <2>1 DEF WithdrawInv, WaitInv
    <2>6. VoucherInv'
      BY <1>2, <2>1 DEF WithdrawInv, VoucherInv, SameAs
    <2>7. QED
      BY <2>2, <2>3, <2>4, <2>5, <2>6 DEF WithdrawInv
  <1>4. CASE W!Leave
    <2>1. bankForm' = W!NewForm /\ shownFunds' = shownFunds
      BY <1>4 DEF W!Leave
    <2>2. asked' = [r \in Withdrawals |-> [asked[r] EXCEPT !.awaited = FALSE]]
      BY <1>4 DEF W!Leave
    <2>3. ASSUME NEW r \in Withdrawals
          PROVE  /\ asked'[r] \in NotAsked \cup AskedOf /\ ~asked'[r].awaited
                 /\ asked'[r] \in AskedOf => SentOK(asked'[r])
      <3>1. asked'[r] = [asked[r] EXCEPT !.awaited = FALSE]
        BY <2>2
      <3>2. CASE asked[r] \in NotAsked
        <4>1. asked'[r] \in NotAsked /\ ~asked'[r].awaited /\ asked'[r].at = "unsent"
          BY <3>1, <3>2 DEF NotAsked
        <4>2. QED
          BY <4>1 DEF AskedOf
      <3>3. CASE asked[r] \in AskedOf
        <4>1. /\ asked'[r] \in AskedOf /\ ~asked'[r].awaited /\ asked'[r].at = asked[r].at
              /\ asked'[r].account = asked[r].account /\ asked'[r].kept = asked[r].kept
              /\ asked'[r].cents = asked[r].cents /\ asked'[r].promised = asked[r].promised
              /\ asked'[r].knew = asked[r].knew /\ asked'[r].net = asked[r].net
              /\ asked'[r].by = asked[r].by /\ asked'[r].outrun = asked[r].outrun
          BY <3>1, <3>3 DEF AskedOf
        <4>2. SentOK(asked[r])
          BY <3>3 DEF WithdrawInv, SentInv
        <4>3. SentOK(asked'[r])
          BY <4>1, <4>2 DEF SentOK
        <4>4. QED
          BY <4>1, <4>3
      <3>4. QED
        BY <1>0, <3>2, <3>3
    <2>4. WithdrawTypes'
      BY <1>0, <1>1, <1>2, <2>1, <2>2, <2>3 DEF WithdrawTypes
    <2>5. FormOK(bankForm)' /\ VoucherInv'
      BY <1>2, <2>1 DEF FormOK, SelectedOK, VoucherInv
    <2>6. WaitInv' /\ FundsInv'
      BY <1>0, <1>1, <2>1, <2>3 DEF WaitInv, FundsInv
    <2>7. SentInv'
      BY <1>1, <2>3 DEF SentInv, SentOK, Covers
    <2>8. QED
      BY <2>4, <2>5, <2>6, <2>7 DEF WithdrawInv
  <1>5. CASE W!Refresh
    <2>1. UNCHANGED <<place, bankForm, asked>> /\ shownFunds' = [cents |-> funds, postings |-> postings]
      BY <1>5 DEF W!Refresh
    <2>2. WithdrawTypes' /\ FundsInv'
      BY <1>0, <1>1, <2>1 DEF WithdrawTypes, FundsInv
    <2>3. FormOK(bankForm)' /\ WaitInv' /\ VoucherInv'
      BY <1>1, <2>1 DEF WithdrawInv, FormOK, SelectedOK, Covers, WaitInv, VoucherInv, SameAs
    <2>4. SentInv'
      BY <1>1, <2>1 DEF WithdrawInv, SentInv, SentOK, Covers
    <2>5. QED
      BY <2>2, <2>3, <2>4 DEF WithdrawInv
  <1>6. QED
    BY <1>3, <1>4, <1>5

\* The confirmation posts what is on the form; the page waited for nothing.
LEMMA ConfirmSteps ==
    ASSUME WithdrawInv, NEW r \in Withdrawals, W!Confirm(r)
    PROVE  WithdrawInv'
  <1>0. /\ bankForm \in WithdrawalForm /\ FormOK(bankForm) /\ WithdrawTypes /\ bankForm.cents \in Int
        /\ rule \in AnyRule /\ bankForm.knew \in Int
    BY DEF WithdrawInv, WithdrawTypes, WithdrawalForm
  <1>1. /\ bankForm.dialogue /\ ~bankForm.loading
        /\ bankForm' = [bankForm EXCEPT !.loading = TRUE, !.touched = FALSE]
        /\ UNCHANGED <<saved, faded, place, shownFunds, funds, rule, postings>>
    BY DEF W!Confirm, W!MayConfirm, W!kept, W!server
  <1>2. PICK b : b = (bankForm.selected \in saved)
    OBVIOUS
  <1>3. PICK q : q = [at |-> "asked", awaited |-> TRUE, account |-> bankForm.selected, cents |-> bankForm.cents,
                      promised |-> W!EstNet(bankForm.cents), kept |-> b, knew |-> bankForm.knew,
                      outrun |-> FALSE, net |-> 0, by |-> rule]
    OBVIOUS
  <1>4. asked' = [asked EXCEPT ![r] = q]
    BY <1>2, <1>3 DEF W!Confirm, W!Post
  <1>5. /\ bankForm.step = "confirm" /\ place = "withdraw" /\ bankForm.selected \in BankAccounts
        /\ CountryOf[bankForm.selected] = Country /\ bankForm.selected \in saved \cup faded
        /\ Covers(bankForm.cents, bankForm.knew)
    BY <1>0, <1>1 DEF FormOK, SelectedOK, WithdrawalForm
  <1>6. q \in AskedOf
    <2>1. b \in BOOLEAN /\ W!EstNet(bankForm.cents) \in Int
      BY <1>0, <1>2, PromiseTyped
    <2>2. QED
      BY <1>0, <1>3, <1>5, <2>1 DEF AskedOf
  <1>7. SentOK(q)
    BY <1>2, <1>3, <1>5 DEF SentOK
  <1>8. asked'[r] = q /\ \A s \in Withdrawals \ {r} : asked'[s] = asked[s]
    BY <1>0, <1>4 DEF WithdrawTypes
  <1>9. /\ bankForm' \in WithdrawalForm /\ bankForm'.selected = bankForm.selected /\ bankForm'.cents = bankForm.cents
        /\ bankForm'.step = bankForm.step /\ bankForm'.loading /\ bankForm'.dialogue = bankForm.dialogue
        /\ bankForm'.knew = bankForm.knew
    BY <1>0, <1>1 DEF WithdrawalForm
  <1>10. asked' = [s \in Withdrawals |-> asked'[s]]
    BY <1>0, <1>4 DEF WithdrawTypes
  <1>11. WithdrawTypes'
    BY <1>0, <1>1, <1>6, <1>8, <1>9, <1>10 DEF WithdrawTypes
  <1>12. FormOK(bankForm)'
    BY <1>0, <1>1, <1>9 DEF FormOK, SelectedOK, Covers
  <1>13. FundsInv'
    BY <1>1 DEF WithdrawInv, FundsInv
  <1>14. WaitInv'
    <2>1. \A s \in Withdrawals \ {r} : ~asked'[s].awaited
      BY <1>1, <1>8 DEF WithdrawInv, WaitInv
    <2>2. SameAs(bankForm, r)'
      BY <1>3, <1>8, <1>9 DEF SameAs
    <2>3. QED
      BY <1>1, <1>5, <1>9, <2>1, <2>2 DEF WaitInv
  <1>15. SentInv'
    <2>1. \A s \in Withdrawals : asked'[s] \in AskedOf => SentOK(asked'[s])
      BY <1>7, <1>8 DEF WithdrawInv, SentInv
    <2>2. QED
      BY <1>1, <2>1 DEF SentInv, SentOK, Covers
  <1>16. VoucherInv'
    BY <1>5, <1>9 DEF VoucherInv
  <1>17. QED
    BY <1>11, <1>12, <1>13, <1>14, <1>15, <1>16 DEF WithdrawInv

\* What the server does of a request: the page goes on.
LEMMA BankKeeps ==
    ASSUME WithdrawInv, NEW r \in Withdrawals, NEW q \in AskedOf, asked[r] \in AskedOf,
           asked' = [asked EXCEPT ![r] = q],
           q.awaited = asked[r].awaited, q.account = asked[r].account, q.cents = asked[r].cents,
           UNCHANGED <<bankForm, place, saved, faded, rule>>,
           funds' \in Int, postings' \in Int, FundsInv',
           (funds' = funds /\ postings' = postings) \/ postings' = postings + 1,
           shownFunds' \in [cents : Int, postings : Int], SentOK(q)'
    PROVE  WithdrawInv'
  <1>0. WithdrawTypes /\ postings \in Int
    BY DEF WithdrawInv, WithdrawTypes
  <1>1. /\ asked'[r] = q /\ \A s \in Withdrawals \ {r} : asked'[s] = asked[s]
        /\ asked' = [s \in Withdrawals |-> asked'[s]]
    BY <1>0 DEF WithdrawTypes
  <1>2. WithdrawTypes'
    BY <1>0, <1>1 DEF WithdrawTypes
  <1>3. \A cents, n \in Int : Covers(cents, n) => Covers(cents, n)'
    BY <1>0 DEF Covers
  <1>4. FormOK(bankForm)'
    <2>1. bankForm.cents \in Int /\ bankForm.knew \in Int
      BY <1>0 DEF WithdrawTypes, WithdrawalForm
    <2>2. QED
      BY <1>3, <2>1 DEF WithdrawInv, FormOK, SelectedOK
  <1>5. \A s \in Withdrawals : /\ asked'[s].awaited = asked[s].awaited
                               /\ asked[s] \in AskedOf => /\ asked'[s] \in AskedOf
                                                          /\ asked'[s].account = asked[s].account
                                                          /\ asked'[s].cents = asked[s].cents
    BY <1>1
  <1>6. \A s \in Withdrawals : asked[s] \in AskedOf /\ SameAs(bankForm, s) => SameAs(bankForm, s)'
    BY <1>5 DEF SameAs
  <1>7. WaitInv'
    BY <1>0, <1>5, <1>6, AskedTyped DEF WithdrawInv, WaitInv
  <1>8. SentInv'
    <2>1. ASSUME NEW s \in Withdrawals, asked'[s] \in AskedOf, s # r
          PROVE  SentOK(asked[s])'
      <3>1. asked'[s] = asked[s] /\ asked[s].cents \in Int /\ asked[s].knew \in Int /\ SentOK(asked[s])
        BY <1>1, <2>1 DEF WithdrawInv, SentInv, AskedOf
      <3>2. QED
        BY <1>3, <3>1 DEF SentOK
    <2>2. QED
      BY <1>1, <2>1 DEF SentInv
  <1>9. VoucherInv'
    BY <1>5, <1>6 DEF WithdrawInv, VoucherInv
  <1>10. QED
    BY <1>2, <1>4, <1>7, <1>8, <1>9 DEF WithdrawInv

\* A request that was sent is booked, refused, and shown in the balances.
LEMMA BankSteps ==
    ASSUME WithdrawInv, NEW r \in Withdrawals, W!Book(r) \/ W!Short(r) \/ W!Refuse(r) \/ W!Sync(r)
    PROVE  WithdrawInv'
  <1>0. /\ WithdrawTypes /\ FundsInv /\ postings \in Int /\ funds \in Int /\ rule \in AnyRule
        /\ shownFunds \in [cents : Int, postings : Int]
    BY DEF WithdrawInv, WithdrawTypes
  <1>1. asked[r].at \in {"asked", "booked"}
    BY DEF W!Book, W!Short, W!Refuse, W!Sync
  <1>2. asked[r] \in AskedOf /\ SentOK(asked[r])
    BY <1>0, <1>1, AskedTyped DEF WithdrawInv, SentInv
  <1>3. /\ asked[r].cents \in Int /\ asked[r].knew \in Int
    BY <1>2 DEF AskedOf
  <1>4. UNCHANGED <<bankForm, place, saved, faded, rule>>
    BY DEF W!Book, W!Short, W!Refuse, W!Sync, W!pageOnly, W!kept, W!server
  <1>5. CASE W!Book(r)
    <2>1. PICK n : n = W!Net(rule, asked[r].cents)
      OBVIOUS
    <2>2. n \in Int
      BY <1>0, <1>3, <2>1, NetTyped
    <2>3. PICK q : q = [asked[r] EXCEPT !.at = "booked", !.by = rule, !.net = n]
      OBVIOUS
    <2>4. /\ q \in AskedOf /\ q.at = "booked" /\ q.by = rule /\ q.net = n
          /\ q.awaited = asked[r].awaited /\ q.account = asked[r].account /\ q.cents = asked[r].cents
          /\ q.kept = asked[r].kept /\ q.promised = asked[r].promised
      BY <1>0, <1>2, <2>2, <2>3 DEF AskedOf
    <2>5. /\ asked' = [asked EXCEPT ![r] = q] /\ shownFunds' = shownFunds
          /\ funds' = funds - asked[r].cents /\ postings' = postings + 1
      BY <1>5, <2>1, <2>3 DEF W!Book, W!pageOnly, WithdrawInv, WithdrawTypes
    <2>6. SentOK(q)'
      BY <1>2, <1>4, <2>1, <2>4 DEF SentOK
    <2>7. FundsInv' /\ funds' \in Int /\ postings' \in Int /\ shownFunds' \in [cents : Int, postings : Int]
      BY <1>0, <1>3, <2>5 DEF FundsInv
    <2>8. QED
      BY <1>2, <1>4, <2>4, <2>5, <2>6, <2>7, BankKeeps
  <1>6. CASE W!Short(r)
    <2>1. PICK b : b = (postings > asked[r].knew)
      OBVIOUS
    <2>2. b = TRUE
      <3>1. asked[r].at = "asked" /\ asked[r].cents > funds
        BY <1>6 DEF W!Short
      <3>2. Covers(asked[r].cents, asked[r].knew)
        BY <1>2, <3>1 DEF SentOK
      <3>3. postings > asked[r].knew
        BY <1>0, <1>3, <3>1, <3>2 DEF Covers
      <3>4. QED
        BY <2>1, <3>3
    <2>3. PICK q : q = [asked[r] EXCEPT !.at = "short", !.outrun = b]
      OBVIOUS
    <2>4. /\ q \in AskedOf /\ q.at = "short" /\ q.outrun
          /\ q.awaited = asked[r].awaited /\ q.account = asked[r].account /\ q.cents = asked[r].cents
          /\ q.kept = asked[r].kept /\ q.promised = asked[r].promised
      BY <1>2, <2>2, <2>3 DEF AskedOf
    <2>5. asked' = [asked EXCEPT ![r] = q] /\ UNCHANGED <<shownFunds, funds, postings>>
      BY <1>6, <2>1, <2>3 DEF W!Short, W!pageOnly, W!server, WithdrawInv, WithdrawTypes
    <2>6. SentOK(q)'
      BY <1>2, <1>4, <2>4 DEF SentOK
    <2>7. FundsInv' /\ funds' \in Int /\ postings' \in Int /\ shownFunds' \in [cents : Int, postings : Int]
      BY <1>0, <2>5 DEF FundsInv
    <2>8. QED
      BY <1>2, <1>4, <2>4, <2>5, <2>6, <2>7, BankKeeps
  <1>7. CASE W!Refuse(r) \/ W!Sync(r)
    <2>1. PICK at \in {"refused", "synced"} :
             /\ asked' = [asked EXCEPT ![r].at = at]
             /\ at = "synced" => asked[r].at = "booked"
      BY <1>7 DEF W!Refuse, W!Sync
    <2>2. PICK q : q = [asked[r] EXCEPT !.at = at]
      OBVIOUS
    <2>3. /\ q \in AskedOf /\ q.at = at /\ q.by = asked[r].by /\ q.net = asked[r].net
          /\ q.awaited = asked[r].awaited /\ q.account = asked[r].account /\ q.cents = asked[r].cents
          /\ q.kept = asked[r].kept /\ q.promised = asked[r].promised
      BY <1>2, <2>2 DEF AskedOf
    <2>4. asked' = [asked EXCEPT ![r] = q]
      BY <2>1, <2>2 DEF WithdrawInv, WithdrawTypes
    <2>5. SentOK(q)'
      BY <1>2, <1>4, <2>1, <2>3 DEF SentOK
    <2>6. /\ UNCHANGED <<funds, postings>>
          /\ shownFunds' = shownFunds \/ shownFunds' = [cents |-> funds, postings |-> postings]
      BY <1>7 DEF W!Refuse, W!Sync, W!pageOnly, W!server
    <2>7. FundsInv' /\ funds' \in Int /\ postings' \in Int /\ shownFunds' \in [cents : Int, postings : Int]
      BY <1>0, <2>6 DEF FundsInv
    <2>8. QED
      BY <1>2, <1>4, <2>3, <2>4, <2>5, <2>6, <2>7, BankKeeps
  <1>8. QED
    BY <1>5, <1>6, <1>7

\* Another movement was not known when an amount was accepted; the rule is the server's.
LEMMA ElsewhereSteps ==
    ASSUME WithdrawInv,
           (\E cents \in WithdrawAmounts : W!OtherPosting(cents)) \/ \E new \in Rules : W!EditRule(new)
    PROVE  WithdrawInv'
  <1>0. WithdrawTypes /\ FundsInv /\ postings \in Int /\ funds \in Int /\ rule \in AnyRule
    BY DEF WithdrawInv, WithdrawTypes
  <1>1. UNCHANGED <<saved, faded, place, bankForm, shownFunds, asked>>
    BY DEF W!OtherPosting, W!EditRule, W!pageOnly, W!kept
  <1>2. rule' \in AnyRule
    <2>1. Rules \subseteq AnyRule
      BY WithdrawAssumption DEF AnyRule
    <2>2. QED
      BY <1>0, <2>1 DEF W!OtherPosting, W!EditRule
  <1>3. /\ funds' \in Int /\ postings' \in Int
        /\ (funds' = funds /\ postings' = postings) \/ postings' = postings + 1
    <2>1. WithdrawAmounts \subseteq Nat
      BY WithdrawAssumption
    <2>2. QED
      BY <1>0, <2>1 DEF W!OtherPosting, W!EditRule
  <1>4. \A cents, n \in Int : Covers(cents, n) => Covers(cents, n)'
    BY <1>0, <1>3 DEF Covers
  <1>5. WithdrawTypes'
    BY <1>0, <1>1, <1>2, <1>3 DEF WithdrawTypes
  <1>6. FormOK(bankForm)'
    <2>1. bankForm.cents \in Int /\ bankForm.knew \in Int
      BY <1>0 DEF WithdrawTypes, WithdrawalForm
    <2>2. QED
      BY <1>1, <1>4, <2>1 DEF WithdrawInv, FormOK, SelectedOK
  <1>7. FundsInv'
    <2>1. shownFunds.postings \in Int
      BY <1>0 DEF WithdrawTypes
    <2>2. QED
      BY <1>0, <1>1, <1>3, <2>1 DEF FundsInv
  <1>8. WaitInv' /\ VoucherInv'
    BY <1>1 DEF WithdrawInv, WaitInv, VoucherInv, SameAs
  <1>9. SentInv'
    <2>1. ASSUME NEW r \in Withdrawals, asked[r] \in AskedOf
          PROVE  SentOK(asked[r])'
      <3>1. asked[r].cents \in Int /\ asked[r].knew \in Int /\ SentOK(asked[r])
        BY <2>1 DEF WithdrawInv, SentInv, AskedOf
      <3>2. QED
        BY <1>1, <1>4, <3>1 DEF SentOK
    <2>2. QED
      BY <1>1, <2>1 DEF SentInv
  <1>10. QED
    BY <1>5, <1>6, <1>7, <1>8, <1>9 DEF WithdrawInv

\* The answer: the voucher is made from the form, which waited for this request.
LEMMA AnsweredSteps ==
    ASSUME WithdrawInv, NEW r \in Withdrawals, W!Succeed(r) \/ W!Fail(r)
    PROVE  WithdrawInv'
  <1>0. WithdrawTypes /\ bankForm \in WithdrawalForm /\ FormOK(bankForm)
    BY DEF WithdrawInv, WithdrawTypes
  <1>1. /\ asked[r].awaited /\ asked' = [asked EXCEPT ![r].awaited = FALSE]
        /\ UNCHANGED <<saved, faded, place, shownFunds, funds, rule, postings>>
    BY DEF W!Succeed, W!Fail, W!kept, W!server
  <1>2. asked[r] \in AskedOf /\ SentOK(asked[r]) /\ SameAs(bankForm, r)
    BY <1>0, <1>1, AskedTyped DEF WithdrawInv, SentInv, WaitInv
  <1>3. PICK q : q = [asked[r] EXCEPT !.awaited = FALSE]
    OBVIOUS
  <1>4. /\ q \in AskedOf /\ ~q.awaited /\ q.at = asked[r].at
        /\ q.account = asked[r].account /\ q.kept = asked[r].kept
        /\ q.cents = asked[r].cents /\ q.promised = asked[r].promised
        /\ q.knew = asked[r].knew /\ q.net = asked[r].net
        /\ q.by = asked[r].by /\ q.outrun = asked[r].outrun
    BY <1>2, <1>3 DEF AskedOf
  <1>5. asked' = [asked EXCEPT ![r] = q]
    BY <1>1, <1>3 DEF WithdrawInv, WithdrawTypes
  <1>6. /\ asked'[r] = q /\ \A s \in Withdrawals \ {r} : asked'[s] = asked[s]
        /\ asked' = [s \in Withdrawals |-> asked'[s]]
    BY <1>0, <1>5 DEF WithdrawTypes
  <1>7. \A s \in Withdrawals : ~asked'[s].awaited
    BY <1>1, <1>4, <1>6 DEF WithdrawInv, WaitInv
  <1>8. SentOK(q)
    BY <1>2, <1>4 DEF SentOK
  <1>9. SentInv'
    <2>1. \A s \in Withdrawals : asked'[s] \in AskedOf => SentOK(asked'[s])
      BY <1>6, <1>8 DEF WithdrawInv, SentInv
    <2>2. QED
      BY <1>1, <2>1 DEF SentInv, SentOK, Covers
  <1>10. FundsInv' /\ WaitInv'
    BY <1>1, <1>7 DEF WithdrawInv, FundsInv, WaitInv
  <1>11. /\ bankForm' \in WithdrawalForm /\ bankForm'.selected = bankForm.selected /\ bankForm'.cents = bankForm.cents
         /\ bankForm'.touched = bankForm.touched /\ bankForm'.knew = bankForm.knew
         /\ \/ bankForm'.step = "success" /\ ~bankForm'.dialogue /\ bankForm'.of = r
            \/ bankForm'.step = bankForm.step /\ bankForm'.dialogue = bankForm.dialogue /\ bankForm'.of = bankForm.of
    <2>1. CASE W!Succeed(r)
      BY <1>0, <2>1 DEF W!Succeed, WithdrawalForm
    <2>2. CASE W!Fail(r)
      BY <1>0, <2>2 DEF W!Fail, WithdrawalForm
    <2>3. QED
      BY <2>1, <2>2
  <1>12. WithdrawTypes'
    BY <1>0, <1>1, <1>4, <1>6, <1>11 DEF WithdrawTypes
  <1>13. FormOK(bankForm)'
    BY <1>0, <1>1, <1>11 DEF FormOK, SelectedOK, Covers
  <1>14. \A s \in Withdrawals : asked[s] \in AskedOf =>
            /\ asked'[s] \in AskedOf /\ asked'[s].account = asked[s].account
            /\ asked'[s].cents = asked[s].cents
    BY <1>4, <1>6
  <1>15. \A s \in Withdrawals : asked[s] \in AskedOf /\ SameAs(bankForm, s) => SameAs(bankForm, s)'
    BY <1>11, <1>14 DEF SameAs
  <1>16. VoucherInv'
    BY <1>2, <1>11, <1>14, <1>15 DEF WithdrawInv, VoucherInv
  <1>17. QED
    BY <1>9, <1>10, <1>12, <1>13, <1>16 DEF WithdrawInv

\* A withdrawal is what its user meant in every state.
LEMMA WithdrawHolds == W!Spec => []WithdrawInv
  <1>1. W!Init => WithdrawInv
    <2> SUFFICES ASSUME W!Init PROVE WithdrawInv
      OBVIOUS
    <2>1. W!NewForm \in WithdrawalForm /\ W!NewForm.selected = None /\ W!NewForm.step = "accounts" /\ ~W!NewForm.dialogue
      BY DEF W!NewForm, WithdrawalForm
    <2>2. \A r \in Withdrawals : asked[r] \in NotAsked /\ ~asked[r].awaited /\ asked[r] \notin AskedOf
      <3>1. W!Unsent \in NotAsked /\ ~W!Unsent.awaited /\ W!Unsent.at = "unsent"
        BY DEF W!Unsent, NotAsked
      <3>2. W!Unsent \notin AskedOf
        BY <3>1 DEF AskedOf
      <3>3. QED
        BY <3>1, <3>2 DEF W!Init
    <2>3. WithdrawOpening \in Int
      BY WithdrawAssumption
    <2>4. WithdrawTypes
      BY <2>1, <2>2, <2>3, EstimateIsSeeded DEF W!Init, WithdrawTypes
    <2>5. FormOK(bankForm) /\ FundsInv /\ WaitInv /\ SentInv /\ VoucherInv
      BY <2>1, <2>2 DEF W!Init, FormOK, SelectedOK, FundsInv, WaitInv, SentInv, VoucherInv
    <2>6. QED
      BY <2>4, <2>5 DEF WithdrawInv
  <1>2. WithdrawInv /\ [W!Next]_W!withdrawPageVars => WithdrawInv'
    <2> SUFFICES ASSUME WithdrawInv, [W!Next]_W!withdrawPageVars PROVE WithdrawInv'
      OBVIOUS
    <2>1. CASE UNCHANGED W!withdrawPageVars
      <3>1. UNCHANGED <<saved, faded, place, bankForm, asked, funds, shownFunds, rule, postings>>
        BY <2>1 DEF W!withdrawPageVars
      <3>2. WithdrawTypes' /\ FormOK(bankForm)' /\ FundsInv'
        BY <3>1 DEF WithdrawInv, WithdrawTypes, FormOK, SelectedOK, Covers, FundsInv
      <3>3. WaitInv' /\ SentInv' /\ VoucherInv'
        BY <3>1 DEF WithdrawInv, WaitInv, SameAs, SentInv, SentOK, Covers, VoucherInv
      <3>4. QED
        BY <3>2, <3>3 DEF WithdrawInv
    <2>2. CASE W!Next
      <3>1. CASE W!OpenAccounts \/ W!OpenWithdraw \/ W!Leave \/ W!Refresh
        BY <3>1, PageSteps
      <3>2. CASE \/ \E a \in BankAccounts : W!Choose(a) \/ W!Delete(a)
                 \/ W!NewAccount \/ W!Continue \/ W!AmountNext \/ W!Back \/ W!OpenDialogue \/ W!CloseDialogue
                 \/ \E cents \in WithdrawAmounts \cup {shownFunds.cents} : W!Type(cents)
        BY <3>2, FormSteps
      <3>3. CASE \E a \in BankAccounts : W!AddThere(a) \/ W!DeleteThere(a) \/ W!FadeOut(a) \/ W!AddHere(a)
        BY <3>3, AccountSteps
      <3>4. CASE (\E cents \in WithdrawAmounts : W!OtherPosting(cents)) \/ \E new \in Rules : W!EditRule(new)
        BY <3>4, ElsewhereSteps
      <3>5. CASE \E r \in Withdrawals :
                    W!Confirm(r) \/ W!Book(r) \/ W!Short(r) \/ W!Refuse(r) \/ W!Sync(r) \/ W!Succeed(r) \/ W!Fail(r)
        BY <3>5, ConfirmSteps, BankSteps, AnsweredSteps
      <3>6. QED
        BY <2>2, <3>1, <3>2, <3>3, <3>4, <3>5 DEF W!Next
    <2>3. QED
      BY <2>1, <2>2
  <1>3. QED
    BY <1>1, <1>2, PTL DEF W!Spec

-----------------------------------------------------------------------------
(* Sending coins as the sender sees it.                                    *)

\* What may be in the field, and whom it may name
Texts == Numbers \cup {Empty} \cup Demos
Whom  == {OwnerOf[p] : p \in Texts} \cup {NobodyThere, Sender}

FieldsOf == [amount : SendAmounts \cup {0}, from : SendCoins, to : SendCoins]

TransferOf ==
    [at : {"asked", "booked", "refused", "done", "failed"}, to : Whom, name : Whom \cup Texts,
     what : FieldsOf, number : Texts, wanted : FieldsOf, astray : BOOLEAN]

NotSent == [at : {"unsent"}]

SendTypes ==
    /\ text \in Texts /\ info \in Whom
    /\ lookUp \in [LookUps -> Numbers \cup {Empty} \cup Demos]
    /\ fields \in FieldsOf /\ quote \in {F!NoQuote} \cup FieldsOf
    /\ astray \in BOOLEAN /\ touched \in BOOLEAN
    /\ \A t \in CoinTransfers : sending[t] \in NotSent \cup TransferOf
    /\ sending = [t \in CoinTransfers |-> sending[t]]

\* Whom the coins will go to is whose number is in the field, or an answer was late.
FoundInv == info = NobodyThere \/ info = OwnerOf[text] \/ astray

\* The quote on the screen is for what is on the form.
QuoteInv == step = "quote" /\ quote # F!NoQuote => quote = fields

\* Not answered yet
UnderWay(t) == sending[t].at \in {"asked", "booked", "refused"}

\* What the voucher is made from is what was posted, unless it was changed since.
Tells(t) == touched \/ F!Voucher = [name |-> sending[t].name, what |-> sending[t].what]

OneInv ==
    /\ \A t \in CoinTransfers : UnderWay(t) => loading /\ Tells(t)
    /\ \A t, u \in CoinTransfers : UnderWay(t) /\ UnderWay(u) => t = u

\* Whom a transfer was posted to
ReachesOK(q) == q.to = NobodyThere \/ q.to = OwnerOf[q.number] \/ q.astray

PostedOK(q) ==
    /\ ReachesOK(q)
    /\ q.at \in {"booked", "done"} => q.to # NobodyThere
    /\ q.what = q.wanted

PostedInv == \A t \in CoinTransfers : sending[t] \in TransferOf => PostedOK(sending[t])

PaidByInv == step = "success" => paidBy \in CoinTransfers /\ sending[paidBy] \in TransferOf /\ Tells(paidBy)

SendInv == SendTypes /\ FoundInv /\ QuoteInv /\ OneInv /\ PostedInv /\ PaidByInv

\* A transfer was sent or not.
LEMMA SentTyped ==
    ASSUME SendTypes
    PROVE  \A t \in CoinTransfers : sending[t].at # "unsent" <=> sending[t] \in TransferOf
  BY DEF SendTypes, TransferOf, NotSent

\* The invariant is what a transfer as it was meant needs.
LEMMA SentMeant ==
    ASSUME SendInv
    PROVE  F!SentAsMeant
  <1>1. \A t \in F!Booked : sending[t] \in TransferOf /\ PostedOK(sending[t])
                            /\ sending[t].at \in {"booked", "done"}
    BY SentTyped DEF SendInv, PostedInv, F!Booked
  <1>2. F!ReachesWhomTyped
    BY <1>1 DEF F!ReachesWhomTyped, PostedOK, ReachesOK
  <1>3. F!SentAsFilled
    BY <1>1 DEF F!SentAsFilled, PostedOK
  <1>4. F!VoucherTells
    BY DEF SendInv, PaidByInv, Tells, F!VoucherTells
  <1>5. QED
    BY <1>2, <1>3, <1>4 DEF F!SentAsMeant

\* The form changes: what was posted stays, and a change under it is seen.
LEMMA FormMoves ==
    ASSUME SendInv, SendTypes', FoundInv', QuoteInv', UNCHANGED <<loading, sending, paidBy>>,
           F!Touches \/ UNCHANGED <<text, info, fields, quote, touched>>,
           step' = "success" => step = "success"
    PROVE  SendInv'
  <1>1. UNCHANGED <<text, info, fields, quote>> \/ ((loading \/ step = "success") => touched')
    BY DEF F!Touches
  <1>2. touched /\ (F!Touches \/ UNCHANGED touched) => touched'
    BY DEF F!Touches
  <1>3. ASSUME NEW t, Tells(t), loading \/ step = "success"
        PROVE  Tells(t)'
    <2>1. CASE UNCHANGED <<text, info, fields, quote>>
      <3>1. F!Voucher' = F!Voucher
        BY <2>1 DEF F!Voucher, F!Name
      <3>2. QED
        BY <1>2, <1>3, <3>1 DEF Tells
    <2>2. CASE touched'
      BY <2>2 DEF Tells
    <2>3. QED
      BY <1>1, <1>3, <2>1, <2>2
  <1>4. \A t \in CoinTransfers : UnderWay(t)' = UnderWay(t)
    BY DEF UnderWay
  <1>5. OneInv'
    BY <1>3, <1>4 DEF SendInv, OneInv
  <1>6. PostedInv'
    BY DEF SendInv, PostedInv, PostedOK, ReachesOK
  <1>7. PaidByInv'
    BY <1>3 DEF SendInv, PaidByInv
  <1>8. QED
    BY <1>5, <1>6, <1>7 DEF SendInv

\* Touching is a truth value.
LEMMA TouchedTyped ==
    ASSUME touched \in BOOLEAN, F!Touches \/ UNCHANGED touched
    PROVE  touched' \in BOOLEAN
  BY DEF F!Touches

\* The number is typed, picked, looked up, and the answer lands.
LEMMA RecipientSteps ==
    ASSUME SendInv,
           \/ \E number \in Numbers \cup {Empty} : F!TypeNumber(number)
           \/ \E number \in Demos : F!Pick(number)
           \/ \E l \in LookUps : F!Blur(l) \/ F!Land(l)
    PROVE  SendInv'
  <1>0. SendTypes /\ FoundInv /\ QuoteInv
    BY DEF SendInv
  <1>1. UNCHANGED <<step, fields, quote, loading, sending, paidBy>> /\ F!Touches
    BY DEF F!TypeNumber, F!Pick, F!Blur, F!Land, F!payment
  <1>2. touched' \in BOOLEAN
    BY <1>0, <1>1, TouchedTyped DEF SendTypes
  <1>3. QuoteInv'
    BY <1>0, <1>1 DEF QuoteInv
  <1>4. \A number \in Texts : F!DemoOwner(number) \in Whom /\ OwnerOf[number] \in Whom
    BY DEF F!DemoOwner, Whom
  <1>5. /\ text' \in Texts /\ info' \in Whom /\ astray' \in BOOLEAN
        /\ lookUp' \in [LookUps -> Numbers \cup {Empty} \cup Demos]
        /\ FoundInv'
    <2> DEFINE Goal == /\ text' \in Texts /\ info' \in Whom /\ astray' \in BOOLEAN
                       /\ lookUp' \in [LookUps -> Numbers \cup {Empty} \cup Demos]
                       /\ FoundInv'
    <2>1. ASSUME NEW number \in Numbers \cup {Empty}, F!TypeNumber(number)
          PROVE  Goal
      <3>1. /\ text' = number /\ info' = F!DemoOwner(number) /\ astray' = FALSE
            /\ lookUp' = lookUp /\ number \in Texts
        BY <2>1 DEF F!TypeNumber, Texts
      <3>2. FoundInv'
        BY <3>1 DEF FoundInv, F!DemoOwner
      <3>3. QED
        BY <1>0, <1>4, <3>1, <3>2 DEF SendTypes
    <2>2. ASSUME NEW number \in Demos, F!Pick(number)
          PROVE  Goal
      <3>1. /\ text' = number /\ info' = OwnerOf[number] /\ astray' = FALSE
            /\ lookUp' = lookUp /\ number \in Texts
        BY <2>2 DEF F!Pick, Texts
      <3>2. FoundInv'
        BY <3>1 DEF FoundInv
      <3>3. QED
        BY <1>0, <1>4, <3>1, <3>2 DEF SendTypes
    <2>3. ASSUME NEW l \in LookUps, F!Blur(l)
          PROVE  Goal
      <3>1. CASE text = Empty \/ text \in Demos
        <4>1. text' = text /\ info' = F!DemoOwner(text) /\ astray' = FALSE /\ lookUp' = lookUp
          BY <2>3, <3>1 DEF F!Blur
        <4>2. FoundInv'
          BY <4>1 DEF FoundInv, F!DemoOwner
        <4>3. QED
          BY <1>0, <1>4, <4>1, <4>2 DEF SendTypes
      <3>2. CASE ~(text = Empty \/ text \in Demos)
        <4>1. UNCHANGED <<text, info, astray>> /\ lookUp' = [lookUp EXCEPT ![l] = text]
          BY <2>3, <3>2 DEF F!Blur
        <4>2. FoundInv'
          BY <1>0, <4>1 DEF FoundInv
        <4>3. QED
          BY <1>0, <4>1, <4>2 DEF SendTypes, Texts
      <3>3. QED
        BY <3>1, <3>2
    <2>4. ASSUME NEW l \in LookUps, F!Land(l)
          PROVE  Goal
      <3>1. PICK p : p = lookUp[l]
        OBVIOUS
      <3>2. p \in Texts
        BY <1>0, <3>1 DEF SendTypes, Texts
      <3>3. /\ text' = text /\ lookUp' = [lookUp EXCEPT ![l] = Empty]
            /\ (info' = OwnerOf[p] /\ info' # Sender) \/ info' = NobodyThere
        BY <2>4, <3>1 DEF F!Land
      <3>4. astray' \in BOOLEAN /\ (p # text => astray')
        BY <2>4, <3>1 DEF F!Land
      <3>5. FoundInv'
        BY <3>3, <3>4 DEF FoundInv
      <3>6. info' \in Whom
        BY <1>4, <3>2, <3>3 DEF Whom
      <3>7. QED
        BY <1>0, <3>3, <3>4, <3>5, <3>6 DEF SendTypes
    <2>5. QED
      BY <2>1, <2>2, <2>3, <2>4
  <1>6. SendTypes'
    BY <1>0, <1>1, <1>2, <1>5 DEF SendTypes
  <1>7. QED
    BY <1>1, <1>3, <1>5, <1>6, FormMoves

\* The amount, the quote, and the steps between.
LEMMA AmountSteps ==
    ASSUME SendInv,
           \/ \E new \in [amount : SendAmounts, from : SendCoins, to : SendCoins] : F!Fill(new)
           \/ F!Continue \/ F!GetQuote \/ F!Modify \/ F!Back
    PROVE  SendInv'
  <1>0. SendTypes /\ FoundInv /\ QuoteInv
    BY DEF SendInv
  <1>1. UNCHANGED <<text, info, lookUp, loading, sending, paidBy, astray>>
    BY DEF F!Fill, F!Continue, F!GetQuote, F!Modify, F!Back, F!payment
  <1>2. F!Touches \/ UNCHANGED <<text, info, fields, quote, touched>>
    BY DEF F!Fill, F!Continue, F!GetQuote, F!Modify, F!Back
  <1>3. touched' \in BOOLEAN
    BY <1>0, <1>2, TouchedTyped DEF SendTypes
  <1>4. FoundInv'
    BY <1>0, <1>1 DEF FoundInv
  <1>5. fields' \in FieldsOf /\ quote' \in {F!NoQuote} \cup FieldsOf /\ QuoteInv' /\ step' # "success"
    <2>1. ASSUME NEW new \in [amount : SendAmounts, from : SendCoins, to : SendCoins], F!Fill(new)
          PROVE  fields' \in FieldsOf /\ quote' \in {F!NoQuote} \cup FieldsOf /\ QuoteInv' /\ step' # "success"
      BY <1>0, <2>1 DEF F!Fill, SendTypes, FieldsOf, QuoteInv
    <2>2. CASE F!Continue
      BY <1>0, <2>2 DEF F!Continue, SendTypes, QuoteInv
    <2>3. CASE F!GetQuote
      BY <1>0, <2>3 DEF F!GetQuote, SendTypes, QuoteInv
    <2>4. CASE F!Modify
      BY <1>0, <2>4 DEF F!Modify, SendTypes, QuoteInv
    <2>5. CASE F!Back
      BY <1>0, <2>5 DEF F!Back, SendTypes, QuoteInv
    <2>6. QED
      BY <2>1, <2>2, <2>3, <2>4, <2>5
  <1>6. SendTypes'
    BY <1>0, <1>1, <1>3, <1>5 DEF SendTypes
  <1>7. QED
    BY <1>1, <1>2, <1>4, <1>5, <1>6, FormMoves

-----------------------------------------------------------------------------
\* What is posted is what is on the form.
LEMMA PostSteps ==
    ASSUME SendInv, NEW t \in CoinTransfers, F!Confirm(t)
    PROVE  SendInv'
  <1>0. SendTypes /\ FoundInv /\ QuoteInv
    BY DEF SendInv
  <1>1. /\ step = "quote" /\ quote # F!NoQuote /\ ~loading /\ loading' = TRUE /\ touched' = FALSE
        /\ UNCHANGED <<step, text, focused, info, lookUp, fields, quote, paidBy, astray>>
    BY DEF F!Confirm, F!MayConfirm
  <1>2. quote = fields /\ fields \in FieldsOf
    BY <1>0, <1>1 DEF QuoteInv, SendTypes
  <1>3. [fields EXCEPT !.amount = quote.amount] = fields
    BY <1>2 DEF FieldsOf
  <1>4. PICK q : q = [at |-> "asked", to |-> info, name |-> F!Name, what |-> fields,
                      number |-> text, wanted |-> fields, astray |-> astray]
    OBVIOUS
  <1>5. sending' = [sending EXCEPT ![t] = q]
    BY <1>3, <1>4 DEF F!Confirm
  <1>6. F!Name \in Whom \cup Texts
    BY <1>0 DEF F!Name, SendTypes
  <1>7. q \in TransferOf /\ q.at = "asked"
    BY <1>0, <1>2, <1>4, <1>6 DEF TransferOf, SendTypes
  <1>8. PostedOK(q)
    <2>1. ReachesOK(q)
      BY <1>0, <1>4 DEF ReachesOK, FoundInv, F!Name
    <2>2. QED
      BY <1>4, <2>1 DEF PostedOK
  <1>9. /\ sending'[t] = q /\ \A u \in CoinTransfers \ {t} : sending'[u] = sending[u]
        /\ sending' = [u \in CoinTransfers |-> sending'[u]]
    BY <1>0, <1>5 DEF SendTypes
  <1>10. SendTypes'
    BY <1>0, <1>1, <1>7, <1>9 DEF SendTypes
  <1>11. FoundInv' /\ QuoteInv'
    BY <1>0, <1>1 DEF FoundInv, QuoteInv
  <1>12. OneInv'
    <2>1. \A u \in CoinTransfers \ {t} : ~UnderWay(u)'
      BY <1>1, <1>9 DEF SendInv, OneInv, UnderWay
    <2>2. F!Voucher' = [name |-> F!Name, what |-> fields]
      BY <1>1, <1>3 DEF F!Voucher, F!Name
    <2>3. Tells(t)'
      BY <1>4, <1>9, <2>2 DEF Tells
    <2>4. QED
      BY <1>1, <2>1, <2>3 DEF OneInv
  <1>13. PostedInv'
    <2>1. \A u \in CoinTransfers : sending'[u] \in TransferOf => PostedOK(sending'[u])
      BY <1>8, <1>9 DEF SendInv, PostedInv
    <2>2. QED
      BY <2>1 DEF PostedInv, PostedOK, ReachesOK
  <1>14. PaidByInv'
    BY <1>1 DEF PaidByInv
  <1>15. QED
    BY <1>10, <1>11, <1>12, <1>13, <1>14 DEF SendInv

\* The route books a transfer or refuses it, and the answer is shown or lost.
LEMMA TransferSteps ==
    ASSUME SendInv, NEW t \in CoinTransfers, F!Book(t) \/ F!Refuse(t) \/ F!Fail(t) \/ F!Succeed(t)
    PROVE  SendInv'
  <1>0. SendTypes /\ FoundInv /\ QuoteInv
    BY DEF SendInv
  <1>1. /\ UnderWay(t)
        /\ UNCHANGED <<text, focused, info, lookUp, fields, quote, astray, touched>>
    BY DEF F!Book, F!Refuse, F!Fail, F!Succeed, F!form, UnderWay
  <1>2. sending[t] \in TransferOf /\ PostedOK(sending[t]) /\ Tells(t)
    BY <1>0, <1>1, SentTyped DEF SendInv, PostedInv, OneInv, UnderWay
  <1>3. PICK q \in TransferOf :
           /\ sending' = [sending EXCEPT ![t] = q]
           /\ q.name = sending[t].name /\ q.what = sending[t].what
           /\ PostedOK(q)
           /\ q.at \in {"asked", "booked", "refused"} => F!Book(t) \/ F!Refuse(t)
    <2>1. CASE F!Book(t)
      <3>1. PICK q : q = [sending[t] EXCEPT !.at = "booked"]
        OBVIOUS
      <3>2. /\ q \in TransferOf /\ q.name = sending[t].name /\ q.what = sending[t].what
            /\ q.at = "booked" /\ q.to = sending[t].to /\ q.number = sending[t].number
            /\ q.wanted = sending[t].wanted /\ q.astray = sending[t].astray
        BY <1>2, <3>1 DEF TransferOf
      <3>3. sending' = [sending EXCEPT ![t] = q]
        BY <2>1, <3>1 DEF F!Book, SendInv, SendTypes
      <3>4. q.to # NobodyThere
        BY <2>1, <3>2 DEF F!Book, F!Bookable
      <3>5. PostedOK(q)
        BY <1>2, <3>2, <3>4 DEF PostedOK, ReachesOK
      <3>6. QED
        BY <2>1, <3>2, <3>3, <3>5
    <2>2. CASE F!Refuse(t) \/ F!Fail(t) \/ F!Succeed(t)
      <3>1. PICK at \in {"refused", "done", "failed"} :
               /\ sending' = [sending EXCEPT ![t].at = at]
               /\ at = "refused" => F!Refuse(t)
               /\ at = "done" => sending[t].at = "booked"
        <4>1. CASE F!Refuse(t)
          BY <4>1 DEF F!Refuse
        <4>2. CASE F!Fail(t) \/ F!Succeed(t)
          <5>1. F!Answer(t)
            BY <4>2 DEF F!Fail, F!Succeed
          <5>2. sending' = [sending EXCEPT ![t].at = IF sending[t].at = "booked" THEN "done" ELSE "failed"]
            BY <5>1 DEF F!Answer, SendInv, SendTypes
          <5>3. CASE sending[t].at = "booked"
            BY <5>2, <5>3
          <5>4. CASE sending[t].at # "booked"
            BY <5>2, <5>4
          <5>5. QED
            BY <5>3, <5>4
        <4>3. QED
          BY <2>2, <4>1, <4>2
      <3>2. PICK q : q = [sending[t] EXCEPT !.at = at]
        OBVIOUS
      <3>3. /\ q \in TransferOf /\ q.name = sending[t].name /\ q.what = sending[t].what
            /\ q.at = at /\ q.to = sending[t].to /\ q.number = sending[t].number
            /\ q.wanted = sending[t].wanted /\ q.astray = sending[t].astray
        BY <1>2, <3>2 DEF TransferOf
      <3>4. sending' = [sending EXCEPT ![t] = q]
        BY <3>1, <3>2 DEF SendInv, SendTypes
      <3>5. PostedOK(q)
        BY <1>2, <3>1, <3>3 DEF PostedOK, ReachesOK
      <3>6. QED
        BY <3>1, <3>3, <3>4, <3>5
    <2>3. QED
      BY <2>1, <2>2
  <1>4. /\ sending'[t] = q /\ \A u \in CoinTransfers \ {t} : sending'[u] = sending[u]
        /\ sending' = [u \in CoinTransfers |-> sending'[u]]
    BY <1>0, <1>3 DEF SendTypes
  <1>5. SendTypes'
    BY <1>0, <1>1, <1>3, <1>4 DEF SendTypes
  <1>6. FoundInv'
    BY <1>0, <1>1 DEF FoundInv
  <1>7. (step' = step /\ paidBy' = paidBy) \/ (step' = "success" /\ paidBy' = t)
    BY DEF F!Book, F!Refuse, F!Fail, F!Succeed, F!form
  <1>8. QuoteInv'
    BY <1>0, <1>1, <1>7 DEF QuoteInv
  <1>9. F!Voucher' = F!Voucher
    BY <1>1 DEF F!Voucher, F!Name
  <1>10. \A u \in CoinTransfers : sending[u] \in TransferOf /\ Tells(u) => sending'[u] \in TransferOf /\ Tells(u)'
    BY <1>1, <1>3, <1>4, <1>9 DEF Tells
  <1>11. OneInv'
    <2>1. \A u \in CoinTransfers \ {t} : ~UnderWay(u)'
      BY <1>1, <1>4 DEF SendInv, OneInv, UnderWay
    <2>2. UnderWay(t)' => loading' /\ Tells(t)'
      <3>1. ASSUME UnderWay(t)'
            PROVE  loading'
        <4>1. F!Book(t) \/ F!Refuse(t)
          BY <1>3, <1>4, <3>1 DEF UnderWay
        <4>2. loading' = loading
          BY <4>1 DEF F!Book, F!Refuse
        <4>3. QED
          BY <1>1, <4>2 DEF SendInv, OneInv
      <3>2. QED
        BY <1>2, <1>10, <3>1
    <2>3. QED
      BY <2>1, <2>2 DEF OneInv
  <1>12. PostedInv'
    <2>1. \A u \in CoinTransfers : sending'[u] \in TransferOf => PostedOK(sending'[u])
      BY <1>3, <1>4 DEF SendInv, PostedInv
    <2>2. QED
      BY <2>1 DEF PostedInv, PostedOK, ReachesOK
  <1>13. PaidByInv'
    BY <1>2, <1>7, <1>10 DEF SendInv, PaidByInv
  <1>14. QED
    BY <1>5, <1>6, <1>8, <1>11, <1>12, <1>13 DEF SendInv

\* A transfer is what its sender meant in every state.
LEMMA SendHolds == F!Spec => []SendInv
  <1>1. F!Init => SendInv
    <2> SUFFICES ASSUME F!Init PROVE SendInv
      OBVIOUS
    <2>1. \A t \in CoinTransfers : sending[t] \in NotSent /\ sending[t] \notin TransferOf /\ ~UnderWay(t)
      <3>1. F!Unsent \in NotSent /\ F!Unsent.at = "unsent"
        BY DEF F!Unsent, NotSent
      <3>2. F!Unsent \notin TransferOf
        BY <3>1 DEF TransferOf
      <3>3. QED
        BY <3>1, <3>2 DEF F!Init, UnderWay
    <2>2. SendTypes
      <3>1. text \in Texts /\ info \in Whom
        BY DEF F!Init, Texts, Whom
      <3>2. lookUp \in [LookUps -> Numbers \cup {Empty} \cup Demos]
        BY DEF F!Init
      <3>3. fields \in FieldsOf
        BY DEF F!Init, FieldsOf
      <3>4. sending = [t \in CoinTransfers |-> sending[t]]
        BY DEF F!Init
      <3>5. quote \in {F!NoQuote} /\ astray \in BOOLEAN /\ touched \in BOOLEAN
        BY DEF F!Init
      <3>6. QED
        BY <2>1, <3>1, <3>2, <3>3, <3>4, <3>5 DEF SendTypes
    <2>3. FoundInv /\ QuoteInv /\ OneInv /\ PostedInv /\ PaidByInv
      BY <2>1 DEF F!Init, FoundInv, QuoteInv, OneInv, PostedInv, PaidByInv
    <2>4. QED
      BY <2>2, <2>3 DEF SendInv
  <1>2. SendInv /\ [F!Next]_F!sendPageVars => SendInv'
    <2> SUFFICES ASSUME SendInv, [F!Next]_F!sendPageVars PROVE SendInv'
      OBVIOUS
    <2>1. CASE UNCHANGED F!sendPageVars
      <3>1. UNCHANGED <<step, text, info, lookUp, fields, quote, loading, sending, paidBy, astray, touched>>
        BY <2>1 DEF F!sendPageVars
      <3>2. SendTypes' /\ FoundInv' /\ QuoteInv'
        BY <3>1 DEF SendInv, SendTypes, FoundInv, QuoteInv
      <3>3. QED
        BY <3>1, <3>2, FormMoves
    <2>2. CASE F!Next
      BY <2>2, RecipientSteps, AmountSteps, PostSteps, TransferSteps DEF F!Next
    <2>3. QED
      BY <2>1, <2>2
  <1>3. QED
    BY <1>1, <1>2, PTL DEF F!Spec

\* Whatever the pages' requests, the orders of MiniPay, the withdrawals and the
\* transfers a user asks for: what he means once is booked once, or sent once from his
\* own wallet, and for the recipient, the account, the amount and the fee he was shown
\* (transfer/route.ts lines 39-113, MiniPaySend.tsx lines 31-87, withdraw/page.tsx,
\* send/page.tsx, RecipientInput.tsx).
THEOREM MeantOnceDoneAsMeant == P!Spec /\ M!Spec /\ W!Spec /\ F!Spec => []DoneAsMeant
  <1>1. PagesInv /\ M!SentOnce /\ WithdrawInv /\ SendInv => DoneAsMeant
    BY PagesBookOnce, MeantFollows, SentMeant DEF DoneAsMeant
  <1>2. QED
    BY <1>1, PagesHold, SentOnceHolds, WithdrawHolds, SendHolds, PTL

-----------------------------------------------------------------------------
(* Swaps of coins.                                                         *)

Purses == (Traders \cup {Treasury}) \X SwapCoins

\* A swap that was admitted
SwapRecord ==
    [step : {"admitted", "posted", "refused"}, by : Traders, to : Traders,
     from : SwapCoins, into : SwapCoins, amount : SwapAmounts, credit : Int, fee : Int]

SwapTypes ==
    /\ purse \in [Purses -> Int]
    /\ swap \in [Swaps -> {S!NoSwap} \cup SwapRecord]

\* The credit and the fee are those of the quote.
AsQuoted ==
    \A s \in Swaps : swap[s].step # "none" =>
        /\ swap[s].credit = S!ToAmount(swap[s].from, swap[s].into, swap[s].amount)
        /\ swap[s].fee = S!FeeAmount(swap[s].from, swap[s].into, swap[s].amount)

\* What is under way is within the limit on one swap.
AdmittedAreSmall ==
    \A s \in S!UnderWay : swap[s].amount * Rate[swap[s].from] <= SingleLimit

\* The value of some purses, of all and of the traders', of what a step may round and
\* of what it may bring the traders
WorthIn(these, p) == SumFunctionOnSet([k \in these |-> p[k] * Rate[k[2]]], these)
WorthOf(p) == WorthIn(Purses, p)
TradersHold(p) == WorthIn(S!Held, p)
Windfalls == SumFunctionOnSet([s \in S!Posted |-> S!Windfall(s)], S!Posted)
SlackOf(s) == 2 * Rate[swap[s].from] + Rate[swap[s].into]
Slack == SumFunctionOnSet([s \in S!Posted |-> 2 * Rate[swap[s].from] + Rate[swap[s].into]], S!Posted)
OpeningSum ==
    SumFunctionOnSet([k \in Traders \X SwapCoins |-> SwapOpening * Rate[k[2]]], Traders \X SwapCoins)

WorthKept ==
    /\ 2 * (WorthOf(purse) - OpeningSum) <= Slack
    /\ -2 * (WorthOf(purse) - OpeningSum) <= Slack
    /\ 2 * (TradersHold(purse) - OpeningSum) <= Windfalls

\* What a user has under way, what he has sent, and what the entries may round
AdmittedOf(u) == {s \in S!UnderWay : swap[s].by = u}
Sending(u) == SumFunctionOnSet([s \in AdmittedOf(u) |-> swap[s].amount * Rate[swap[s].from]],
                               AdmittedOf(u))
SentAway(u) == SumFunctionOnSet(S!UsdOut, S!PostedOf(u))
Rounding == SumFunctionOnSet([s \in S!Posted |-> 5 * Rate[swap[s].from]], S!Posted)
MostAway == DailyLimit + (MaxUnderWay - 1) * SingleLimit

OutflowBounded == \A u \in Traders : SentAway(u) + Sending(u) <= MostAway + Rounding

SwapInv == SwapTypes /\ AsQuoted /\ AdmittedAreSmall /\ WorthKept /\ OutflowBounded

\* The instance adds up as its parts do.
LEMMA SwapsAddUp ==
    ASSUME NEW f, NEW these
    PROVE  S!SumFunctionOnSet(f, these) = SumFunctionOnSet(f, these)
  BY DEF S!SumFunctionOnSet, S!FoldFunctionOnSet, S!MapThenFoldSet,
         SumFunctionOnSet, FoldFunctionOnSet, MapThenFoldSet

\* The instance counts as its parts do.
LEMMA SwapsCounted ==
    ASSUME NEW these
    PROVE  S!Cardinality(these) = Cardinality(these)
  BY DEF S!Cardinality, Cardinality

\* A product of whole numbers is one.
LEMMA TimesInt == \A i, j \in Int : i * j \in Int
  OBVIOUS

\* A product of natural numbers is one.
LEMMA TimesNat == \A i, j \in Nat : i * j \in Nat
  OBVIOUS

\* Multiplying keeps the order.
LEMMA TimesOrder ==
    ASSUME NEW i \in Int, NEW j \in Int, NEW m \in Nat, i <= j
    PROVE  m * i <= m * j
  OBVIOUS

\* What is known of the constants, one fact at a time.
LEMMA SwapConstants ==
    /\ \A n \in SwapAmounts : n \in Nat
    /\ \A c \in SwapCoins : Rate[c] \in Nat /\ Rate[c] > 0
    /\ SwapOpening \in Nat /\ SingleLimit \in Nat /\ DailyLimit \in Nat
    /\ MaxUnderWay \in Nat /\ MaxUnderWay >= 1
    /\ IsFiniteSet(Purses) /\ IsFiniteSet(Traders \X SwapCoins) /\ IsFiniteSet({Treasury} \X SwapCoins)
  <1>1. IsFiniteSet({Treasury}) /\ IsFiniteSet(Traders) /\ IsFiniteSet(SwapCoins)
    BY FS_Singleton, SwapAssumption
  <1>2. IsFiniteSet(Traders \cup {Treasury})
    BY <1>1, FS_Union
  <1>3. IsFiniteSet(Purses) /\ IsFiniteSet(Traders \X SwapCoins) /\ IsFiniteSet({Treasury} \X SwapCoins)
    BY <1>1, <1>2, FS_Product DEF Purses
  <1>4. QED
    BY <1>3, SwapAssumption

\* Rounding moves a quotient by half at most.
LEMMA RoundedNear ==
    ASSUME NEW n \in Int, NEW d \in Nat, d > 0
    PROVE  /\ S!Rounded(n, d) \in Int
           /\ 2 * (d * S!Rounded(n, d)) - 2 * n <= d
           /\ 2 * n - 2 * (d * S!Rounded(n, d)) <= d
  <1> DEFINE q == (2 * n + d) \div (2 * d)
             r == (2 * n + d) % (2 * d)
  <1>1. /\ q \in Int /\ r \in Int /\ 0 <= r /\ r < 2 * d
        /\ 2 * n + d = (2 * d) * q + r
    OBVIOUS
  <1>2. (2 * d) * q = 2 * (d * q) /\ d * q \in Int
    BY <1>1
  <1> HIDE DEF q, r
  <1>3. /\ 2 * (d * q) - 2 * n <= d
        /\ 2 * n - 2 * (d * q) <= d
    BY <1>1, <1>2
  <1>4. QED
    BY <1>1, <1>3 DEF S!Rounded, q

\* The fee is between nothing and the whole.
LEMMA FeeTyped ==
    ASSUME NEW from \in SwapCoins, NEW into \in SwapCoins
    PROVE  S!FeePermille(from, into) \in 0..1000
  BY DEF S!FeePermille


\* The amounts of a swap, of the fee and the rates
LeftOf(p, a) == S!Rounded(10 * p - a, 10)
FeeOf(a, f) == S!Rounded(a * f, 10000)
CreditOf(a, f, rf, rt) == S!Rounded(a * (1000 - f) * rf, 10000 * rt)
GainOf(d, rf, credit, rt, fee) == d * rf + credit * rt + fee * rf
TakenOf(d, rf, credit, rt) == d * rf + credit * rt
WindfallOf(a, f, rf, rt) ==
    IF (a * f * rf) \div 5000 >= rf + rt THEN 0 ELSE (rf + rt) - (a * f * rf) \div 5000
QuotedGain(p, a, f, rf, rt) ==
    GainOf(LeftOf(p, a) - p, rf, CreditOf(a, f, rf, rt), rt, FeeOf(a, f))
QuotedTaken(p, a, f, rf, rt) == TakenOf(LeftOf(p, a) - p, rf, CreditOf(a, f, rf, rt), rt)

\* They are what the operators of the module compute.
LEMMA AmountsOf ==
    /\ \A p, a : S!Less(p, a) = LeftOf(p, a)
    /\ \A c, d, a : S!FeeAmount(c, d, a) = FeeOf(a, S!FeePermille(c, d))
    /\ \A c, d, a : S!ToAmount(c, d, a) = CreditOf(a, S!FeePermille(c, d), Rate[c], Rate[d])
  BY ZenonT(60) DEF S!Less, S!FeeAmount, S!ToAmount, LeftOf, FeeOf, CreditOf

\* A posted swap changes the worth by what it rounds at most, and brings the traders what
\* it rounds less its fee, or nothing.
LEMMA SwapGain ==
    ASSUME NEW a \in Nat, NEW p \in Int, NEW f \in 0..1000,
           NEW rf \in Nat, rf > 0, NEW rt \in Nat, rt > 0
    PROVE  /\ LeftOf(p, a) \in Int
           /\ QuotedGain(p, a, f, rf, rt) \in Int
           /\ 2 * QuotedGain(p, a, f, rf, rt) <= 2 * rf + rt
           /\ -2 * QuotedGain(p, a, f, rf, rt) <= 2 * rf + rt
           /\ QuotedTaken(p, a, f, rf, rt) \in Int /\ WindfallOf(a, f, rf, rt) \in Nat
           /\ 2 * QuotedTaken(p, a, f, rf, rt) <= WindfallOf(a, f, rf, rt)
  <1>a. PICK less : less = LeftOf(p, a)
    OBVIOUS
  <1>b. PICK fee : fee = FeeOf(a, f)
    OBVIOUS
  <1>c. PICK credit : credit = CreditOf(a, f, rf, rt)
    OBVIOUS
  <1> DEFINE ar == a * rf
             afr == (a * f) * rf
             xr == (less - p) * rf
             fr == fee * rf
             cr == credit * rt
             price == (a * f * rf) \div 5000
  <1>0. /\ less = S!Rounded(10 * p - a, 10)
        /\ fee = S!Rounded(a * f, 10000)
        /\ credit = S!Rounded(a * (1000 - f) * rf, 10000 * rt)
    <2>1. LeftOf(p, a) = S!Rounded(10 * p - a, 10)
      BY Zenon DEF LeftOf
    <2>2. FeeOf(a, f) = S!Rounded(a * f, 10000)
      BY Zenon DEF FeeOf
    <2>3. CreditOf(a, f, rf, rt) = S!Rounded(a * (1000 - f) * rf, 10000 * rt)
      BY Zenon DEF CreditOf
    <2>4. less = S!Rounded(10 * p - a, 10)
      BY <2>1, <1>a
    <2>5. fee = S!Rounded(a * f, 10000)
      BY <2>2, <1>b
    <2>6. credit = S!Rounded(a * (1000 - f) * rf, 10000 * rt)
      BY <2>3, <1>c, SMT
    <2>7. QED
      BY <2>4, <2>5, <2>6
  <1>1. /\ less \in Int
        /\ 20 * (less - p) + 2 * a <= 10 /\ -(20 * (less - p) + 2 * a) <= 10
    <2>1. 10 * p - a \in Int /\ 10 \in Nat /\ 10 > 0
      OBVIOUS
    <2>2. /\ S!Rounded(10 * p - a, 10) \in Int
          /\ 2 * (10 * S!Rounded(10 * p - a, 10)) - 2 * (10 * p - a) <= 10
          /\ 2 * (10 * p - a) - 2 * (10 * S!Rounded(10 * p - a, 10)) <= 10
      BY <2>1, RoundedNear
    <2>3. QED
      BY <1>0, <2>2
  <1>2. a * f \in Int
    BY TimesInt
  <1>3. /\ fee \in Int
        /\ 20000 * fee - 2 * (a * f) <= 10000 /\ -(20000 * fee - 2 * (a * f)) <= 10000
    <2>1. PICK m \in Int : m = a * f
      BY <1>2
    <2>2. 10000 \in Nat /\ 10000 > 0 /\ fee = S!Rounded(m, 10000)
      BY <1>0, <2>1
    <2>3. /\ fee \in Int
          /\ 2 * (10000 * fee) - 2 * m <= 10000
          /\ 2 * m - 2 * (10000 * fee) <= 10000
      BY ONLY <2>1, <2>2, RoundedNear
    <2>4. QED
      BY <2>1, <2>3
  <1>4. /\ ar \in Int /\ afr \in Int /\ a * (1000 - f) \in Int
        /\ a * (1000 - f) * rf = 1000 * ar - afr
    <2>1. a * (1000 - f) = 1000 * a - a * f /\ a * (1000 - f) \in Int
      BY <1>2
    <2>2. (1000 * a - a * f) * rf = 1000 * (a * rf) - (a * f) * rf
      BY <1>2
    <2>3. a * rf \in Int /\ (a * f) * rf \in Int
      BY <1>2, TimesInt
    <2>4. QED
      BY <2>1, <2>2, <2>3
  <1>5. /\ credit \in Int
        /\ 20000 * cr - 2 * (1000 * ar - afr) <= 10000 * rt
        /\ -(20000 * cr - 2 * (1000 * ar - afr)) <= 10000 * rt
    <2> DEFINE n == 1000 * ar - afr
    <2>1. n \in Int /\ 10000 * rt \in Nat /\ 10000 * rt > 0
      BY <1>4
    <2>2. credit = S!Rounded(n, 10000 * rt)
      BY <1>0, <1>4
    <2> HIDE DEF n
    <2>3. /\ credit \in Int
          /\ 2 * ((10000 * rt) * credit) - 2 * n <= 10000 * rt
          /\ 2 * n - 2 * ((10000 * rt) * credit) <= 10000 * rt
      BY <2>1, <2>2, RoundedNear
    <2>4. (10000 * rt) * credit = 10000 * (credit * rt) /\ credit * rt \in Int
      BY <2>3
    <2>5. QED
      BY <2>1, <2>3, <2>4 DEF n
  <1>6. xr \in Int /\ fr \in Int /\ cr \in Int
    BY <1>1, <1>3, <1>5, TimesInt
  <1>7. 20 * xr + 2 * ar <= 10 * rf /\ -(20 * xr + 2 * ar) <= 10 * rf
    <2> DEFINE y == 20 * (less - p) + 2 * a
    <2>1. y \in Int /\ y <= 10 /\ -y <= 10
      BY <1>1
    <2>2. rf * y <= rf * 10 /\ rf * (-y) <= rf * 10
      <3> HIDE DEF y
      <3>1. QED
        BY <2>1, TimesOrder
    <2>3. rf * y = 20 * xr + 2 * ar
      BY <1>1
    <2>4. rf * (-y) = -(rf * y)
      <3> HIDE DEF y
      <3>1. QED
        BY <2>1
    <2> HIDE DEF y
    <2>5. QED
      BY <2>2, <2>3, <2>4, <1>4, <1>6
  <1>8. 20000 * fr - 2 * afr <= 10000 * rf /\ -(20000 * fr - 2 * afr) <= 10000 * rf
    <2> DEFINE y == 20000 * fee - 2 * (a * f)
    <2>1. y \in Int /\ y <= 10000 /\ -y <= 10000
      BY <1>2, <1>3
    <2>2. rf * y <= rf * 10000 /\ rf * (-y) <= rf * 10000
      <3> HIDE DEF y
      <3>1. QED
        BY <2>1, TimesOrder
    <2>3. rf * y = 20000 * fr - 2 * afr
      BY <1>2, <1>3
    <2>4. rf * (-y) = -(rf * y)
      <3> HIDE DEF y
      <3>1. QED
        BY <2>1
    <2> HIDE DEF y
    <2>5. QED
      BY <2>2, <2>3, <2>4, <1>4, <1>6
  <1>p. price \in Int /\ 5000 * price <= afr
    <2>1. PICK m \in Int : m = afr
      BY <1>4
    <2>2. price = m \div 5000
      BY <2>1
    <2> HIDE DEF price, afr
    <2>3. m \div 5000 \in Int /\ 5000 * (m \div 5000) <= m
      OBVIOUS
    <2>4. QED
      BY <2>1, <2>2, <2>3
  <1> HIDE DEF ar, afr, xr, fr, cr, price
  <1>9. /\ 2 * (xr + cr + fr) <= 2 * rf + rt
        /\ -2 * (xr + cr + fr) <= 2 * rf + rt
    BY <1>4, <1>5, <1>6, <1>7, <1>8
  <1>10. QED
    <2>1. GainOf(less - p, rf, credit, rt, fee) = xr + cr + fr
      BY DEF GainOf, xr, fr, cr
    <2>2. /\ less \in Int /\ fee \in Int /\ credit \in Int
          /\ GainOf(less - p, rf, credit, rt, fee) \in Int
          /\ 2 * GainOf(less - p, rf, credit, rt, fee) <= 2 * rf + rt
          /\ -2 * GainOf(less - p, rf, credit, rt, fee) <= 2 * rf + rt
      BY <1>1, <1>3, <1>5, <1>6, <1>9, <2>1
    <2>3. QuotedGain(p, a, f, rf, rt) = GainOf(less - p, rf, credit, rt, fee)
      BY <1>a, <1>b, <1>c, Zenon DEF QuotedGain
    <2>4. QuotedTaken(p, a, f, rf, rt) = xr + cr
      <3>1. QuotedTaken(p, a, f, rf, rt) = TakenOf(less - p, rf, credit, rt)
        BY <1>a, <1>c, Zenon DEF QuotedTaken
      <3>2. QED
        BY <3>1 DEF TakenOf, xr, cr
    <2>5. 2 * (xr + cr) <= (rf + rt) - price
      BY <1>4, <1>5, <1>6, <1>7, <1>p
    <2>6. WindfallOf(a, f, rf, rt) = IF price >= rf + rt THEN 0 ELSE (rf + rt) - price
      BY Zenon DEF WindfallOf, price
    <2>7. /\ QuotedTaken(p, a, f, rf, rt) \in Int /\ WindfallOf(a, f, rf, rt) \in Nat
          /\ 2 * QuotedTaken(p, a, f, rf, rt) <= WindfallOf(a, f, rf, rt)
      BY <1>6, <1>p, <2>4, <2>5, <2>6
    <2>8. QED
      BY <2>2, <2>3, <2>7, <1>a, Zenon

\* Purse k of p becomes v.
PurseSet(p, k, v, q) ==
    p \in [Purses -> Int] /\ k \in Purses /\ v \in Int /\ q = [p EXCEPT ![k] = v]

\* One purse that changes changes the worth of the purses it is among by that.
LEMMA PurseUpdate ==
    ASSUME NEW these, these \subseteq Purses, NEW p, NEW k, NEW v, NEW q, PurseSet(p, k, v, q)
    PROVE  /\ WorthIn(these, p) \in Int
           /\ k \in these => WorthIn(these, q) = WorthIn(these, p) + (v - p[k]) * Rate[k[2]]
           /\ k \notin these => WorthIn(these, q) = WorthIn(these, p)
  <1> DEFINE Was == [x \in these |-> p[x] * Rate[x[2]]]
             Is == [x \in these |-> q[x] * Rate[x[2]]]
  <1>0. /\ \A x \in Purses : x[2] \in SwapCoins /\ Rate[x[2]] \in Nat
        /\ IsFiniteSet(these)
    BY SwapConstants, FS_Subset DEF Purses
  <1>1. /\ q \in [Purses -> Int] /\ q[k] = v /\ \A x \in Purses \ {k} : q[x] = p[x]
        /\ p \in [Purses -> Int] /\ k \in Purses /\ v \in Int
    BY DEF PurseSet
  <1>2. /\ \A x \in these : Was[x] \in Int
        /\ \A x \in these \ {k} : Is[x] = Was[x]
        /\ k \in these => Is[k] \in Int
    BY <1>0, <1>1, TimesInt
  <1>3. k \in these => Was[k] = p[k] * Rate[k[2]] /\ Is[k] = v * Rate[k[2]]
    BY <1>1
  <1>4. WorthIn(these, p) = SumFunctionOnSet(Was, these) /\ WorthIn(these, q) = SumFunctionOnSet(Is, these)
    BY DEF WorthIn
  <1> HIDE DEF Was, Is
  <1>5. SumFunctionOnSet(Was, these) \in Int
    BY <1>0, <1>2, SumInt
  <1>6. CASE k \in these
    <2>1. SumFunctionOnSet(Is, these) = SumFunctionOnSet(Was, these) - Was[k] + Is[k]
      BY <1>0, <1>2, <1>6, SumUpdate
    <2>2. (v - p[k]) * Rate[k[2]] = Is[k] - Was[k] /\ Was[k] \in Int /\ Is[k] \in Int
      <3>1. PICK i \in Int, j \in Int, m \in Int : i = v /\ j = p[k] /\ m = Rate[k[2]]
        BY <1>0, <1>1
      <3>2. (i - j) * m = i * m - j * m
        OBVIOUS
      <3>3. QED
        BY <3>1, <3>2, <1>2, <1>3, <1>6
    <2>3. SumFunctionOnSet(Is, these) = SumFunctionOnSet(Was, these) + (v - p[k]) * Rate[k[2]]
      BY <1>5, <2>1, <2>2
    <2>4. QED
      BY <1>4, <1>5, <1>6, <2>3, Zenon
  <1>7. CASE k \notin these
    <2>1. SumFunctionOnSet(Is, these) = SumFunctionOnSet(Was, these)
      BY <1>0, <1>2, <1>7, SumSame
    <2>2. QED
      BY <1>4, <1>5, <1>7, <2>1, Zenon
  <1>8. QED
    BY <1>6, <1>7

\* The same of all purses, and of the traders'.
LEMMA WorthUpdate ==
    ASSUME NEW p, NEW k, NEW v, NEW q, PurseSet(p, k, v, q)
    PROVE  /\ q \in [Purses -> Int]
           /\ WorthOf(p) \in Int /\ TradersHold(p) \in Int
           /\ WorthOf(q) = WorthOf(p) + (v - p[k]) * Rate[k[2]]
           /\ k[1] \in Traders => TradersHold(q) = TradersHold(p) + (v - p[k]) * Rate[k[2]]
           /\ k[1] = Treasury => TradersHold(q) = TradersHold(p)
  <1>1. /\ Purses \subseteq Purses /\ S!Held \subseteq Purses /\ k \in Purses
        /\ k[1] \in Traders => k \in S!Held
        /\ k[1] = Treasury => k \notin S!Held
    BY SwapAssumption DEF Purses, S!Held, PurseSet
  <1>2. WorthIn(Purses, p) \in Int /\ WorthIn(Purses, q) = WorthIn(Purses, p) + (v - p[k]) * Rate[k[2]]
    <2>1. PICK all : all = Purses /\ all \subseteq Purses /\ k \in all
      BY <1>1
    <2>2. WorthIn(all, p) \in Int
      BY <2>1, PurseUpdate, Zenon
    <2>3. WorthIn(all, q) = WorthIn(all, p) + (v - p[k]) * Rate[k[2]]
      BY <2>1, PurseUpdate
    <2>4. QED
      BY <2>1, <2>2, <2>3, Zenon
  <1>3. /\ WorthIn(S!Held, p) \in Int
        /\ k \in S!Held => WorthIn(S!Held, q) = WorthIn(S!Held, p) + (v - p[k]) * Rate[k[2]]
        /\ k \notin S!Held => WorthIn(S!Held, q) = WorthIn(S!Held, p)
    BY <1>1, PurseUpdate, Zenon
  <1>4. q \in [Purses -> Int]
    BY DEF PurseSet
  <1>5. QED
    BY <1>1, <1>2, <1>3, <1>4, Zenon DEF WorthOf, TradersHold

\* A swap that was admitted says who, to whom, and what.
LEMMA SwapTyped ==
    ASSUME SwapTypes, NEW s \in Swaps, swap[s].step # "none"
    PROVE  /\ swap[s] \in SwapRecord
           /\ swap[s].by \in Traders /\ swap[s].to \in Traders
           /\ swap[s].from \in SwapCoins /\ swap[s].into \in SwapCoins
           /\ swap[s].amount \in Nat /\ swap[s].credit \in Int /\ swap[s].fee \in Int
           /\ Rate[swap[s].from] \in Nat /\ Rate[swap[s].from] > 0
           /\ Rate[swap[s].into] \in Nat /\ Rate[swap[s].into] > 0
  <1>1. swap[s] \in SwapRecord
    BY DEF SwapTypes, S!NoSwap
  <1>2. /\ swap[s].by \in Traders /\ swap[s].to \in Traders
        /\ swap[s].from \in SwapCoins /\ swap[s].into \in SwapCoins
        /\ swap[s].amount \in SwapAmounts /\ swap[s].credit \in Int /\ swap[s].fee \in Int
    BY <1>1 DEF SwapRecord
  <1>3. QED
    BY <1>1, <1>2, SwapConstants

\* A step of a swap keeps what it says.
LEMMA SwapGoes ==
    ASSUME SwapTypes, NEW s \in Swaps, swap[s].step = "admitted",
           NEW where \in {"posted", "refused"}, S!Goto(s, where)
    PROVE  /\ swap' \in [Swaps -> {S!NoSwap} \cup SwapRecord]
           /\ swap'[s].step = where
           /\ swap'[s].by = swap[s].by /\ swap'[s].to = swap[s].to
           /\ swap'[s].from = swap[s].from /\ swap'[s].into = swap[s].into
           /\ swap'[s].amount = swap[s].amount /\ swap'[s].credit = swap[s].credit
           /\ swap'[s].fee = swap[s].fee
           /\ \A x \in Swaps \ {s} : swap'[x] = swap[x]
  <1>1. swap[s] \in SwapRecord
    BY SwapTyped
  <1>2. PICK e : e = [swap[s] EXCEPT !.step = where]
    OBVIOUS
  <1>3. e \in SwapRecord
    BY <1>1, <1>2 DEF SwapRecord
  <1>4. /\ e.step = where
        /\ e.by = swap[s].by /\ e.to = swap[s].to
        /\ e.from = swap[s].from /\ e.into = swap[s].into
        /\ e.amount = swap[s].amount /\ e.credit = swap[s].credit /\ e.fee = swap[s].fee
    BY <1>1, <1>2 DEF SwapRecord
  <1>5. swap' = [swap EXCEPT ![s] = e]
    BY <1>2 DEF S!Goto
  <1>6. /\ swap' \in [Swaps -> {S!NoSwap} \cup SwapRecord]
        /\ swap'[s] = e /\ \A x \in Swaps \ {s} : swap'[x] = swap[x]
    BY <1>3, <1>5 DEF SwapTypes
  <1>7. QED
    BY <1>4, <1>6

\* What is posted moves the worth by what it rounds, and the traders' by no more than the
\* windfall.
LEMMA PostingKeepsWorth ==
    ASSUME SwapTypes, AsQuoted, NEW s \in Swaps, S!Post(s)
    PROVE  /\ purse' \in [Purses -> Int]
           /\ WorthOf(purse) \in Int /\ WorthOf(purse') \in Int
           /\ 2 * (WorthOf(purse') - WorthOf(purse)) <= SlackOf(s)
           /\ -2 * (WorthOf(purse') - WorthOf(purse)) <= SlackOf(s)
           /\ TradersHold(purse) \in Int /\ TradersHold(purse') \in Int /\ S!Windfall(s) \in Nat
           /\ 2 * (TradersHold(purse') - TradersHold(purse)) <= S!Windfall(s)
  <1>0. swap[s].step = "admitted" /\ swap[s].step # "none"
    BY DEF S!Post
  <1>1. PICK k1, k2, k3 :
            /\ k1 = S!Out(s) /\ k2 = S!Into(s) /\ k3 = S!Fees(s)
            /\ k1 \in Purses /\ k2 \in Purses /\ k3 \in Purses
            /\ k1[2] = swap[s].from /\ k2[2] = swap[s].into /\ k3[2] = swap[s].from
            /\ k1[1] \in Traders /\ k2[1] \in Traders /\ k3[1] = Treasury
    <2>1. /\ swap[s].by \in Traders /\ swap[s].to \in Traders
          /\ swap[s].from \in SwapCoins /\ swap[s].into \in SwapCoins
      BY <1>0, SwapTyped
    <2>2. S!Out(s) \in Purses /\ S!Into(s) \in Purses /\ S!Fees(s) \in Purses
      BY <2>1 DEF S!Out, S!Into, S!Fees, Purses
    <2>3. /\ S!Out(s)[2] = swap[s].from /\ S!Into(s)[2] = swap[s].into /\ S!Fees(s)[2] = swap[s].from
          /\ S!Out(s)[1] \in Traders /\ S!Into(s)[1] \in Traders /\ S!Fees(s)[1] = Treasury
      BY <2>1 DEF S!Out, S!Into, S!Fees
    <2>4. QED
      BY <2>2, <2>3, Zenon
  <1>2. PICK a, credit, fee, rf, rt, f :
            /\ a = swap[s].amount /\ credit = swap[s].credit /\ fee = swap[s].fee
            /\ rf = Rate[swap[s].from] /\ rt = Rate[swap[s].into]
            /\ f = S!FeePermille(swap[s].from, swap[s].into)
    OBVIOUS
  <1>3. /\ a \in Nat /\ credit \in Int /\ fee \in Int /\ f \in 0..1000
        /\ rf \in Nat /\ rf > 0 /\ rt \in Nat /\ rt > 0
        /\ fee = FeeOf(a, f) /\ credit = CreditOf(a, f, rf, rt)
    <2>1. f \in 0..1000
      BY <1>0, <1>2, SwapTyped, FeeTyped
    <2>2. /\ a \in Nat /\ credit \in Int /\ fee \in Int
          /\ rf \in Nat /\ rf > 0 /\ rt \in Nat /\ rt > 0
      BY <1>0, <1>2, SwapTyped
    <2>3. /\ fee = S!FeeAmount(swap[s].from, swap[s].into, swap[s].amount)
          /\ credit = S!ToAmount(swap[s].from, swap[s].into, swap[s].amount)
      BY <1>0, <1>2 DEF AsQuoted
    <2>4. QED
      BY <1>2, <2>1, <2>2, <2>3, AmountsOf, Zenon
  <1>4. PICK v1 : v1 = LeftOf(purse[k1], a)
    OBVIOUS
  <1>5. PICK p1 : p1 = [purse EXCEPT ![k1] = v1]
    OBVIOUS
  <1>6. PICK p2 : p2 = [p1 EXCEPT ![k2] = p1[k2] + credit]
    OBVIOUS
  <1>7. purse' = [p2 EXCEPT ![k3] = p2[k3] + fee]
    <2>1. p1 = [purse EXCEPT ![S!Out(s)] = S!Less(purse[S!Out(s)], swap[s].amount)]
      BY <1>1, <1>2, <1>4, <1>5, AmountsOf, Zenon
    <2>2. p2 = [p1 EXCEPT ![S!Into(s)] = p1[S!Into(s)] + swap[s].credit]
      BY <1>1, <1>2, <1>6, Zenon
    <2>3. purse' = [p2 EXCEPT ![S!Fees(s)] = p2[S!Fees(s)] + swap[s].fee]
      BY <2>1, <2>2, Zenon DEF S!Post
    <2>4. QED
      BY <2>3, <1>1, <1>2, Zenon
  <1>8. purse \in [Purses -> Int] /\ purse[k1] \in Int
    BY <1>1 DEF SwapTypes
  <1>9. /\ v1 \in Int
        /\ GainOf(v1 - purse[k1], rf, credit, rt, fee) \in Int
        /\ 2 * GainOf(v1 - purse[k1], rf, credit, rt, fee) <= 2 * rf + rt
        /\ -2 * GainOf(v1 - purse[k1], rf, credit, rt, fee) <= 2 * rf + rt
        /\ TakenOf(v1 - purse[k1], rf, credit, rt) \in Int /\ WindfallOf(a, f, rf, rt) \in Nat
        /\ 2 * TakenOf(v1 - purse[k1], rf, credit, rt) <= WindfallOf(a, f, rf, rt)
    <2>1. PICK p \in Int : p = purse[k1]
      BY <1>8
    <2>2. PICK a0 \in Nat, f0 \in 0..1000, rf0 \in Nat, rt0 \in Nat :
              a0 = a /\ f0 = f /\ rf0 = rf /\ rt0 = rt
      BY <1>3
    <2>3. /\ rf0 > 0 /\ rt0 > 0
          /\ v1 = LeftOf(p, a0) /\ fee = FeeOf(a0, f0) /\ credit = CreditOf(a0, f0, rf0, rt0)
      BY <1>3, <1>4, <2>1, <2>2, Zenon
    <2>4. PICK g : g = QuotedGain(p, a0, f0, rf0, rt0)
      OBVIOUS
    <2>5. LeftOf(p, a0) \in Int /\ g \in Int /\ 2 * g <= 2 * rf0 + rt0 /\ -2 * g <= 2 * rf0 + rt0
      <3>1. PICK m \in Int : m = LeftOf(p, a0) /\ QuotedGain(p, a0, f0, rf0, rt0) \in Int
        BY <2>3, SwapGain, ZenonT(60)
      <3>2. 2 * QuotedGain(p, a0, f0, rf0, rt0) <= 2 * rf0 + rt0
        BY <2>3, SwapGain, ZenonT(60)
      <3>3. -2 * QuotedGain(p, a0, f0, rf0, rt0) <= 2 * rf0 + rt0
        BY <2>3, SwapGain, ZenonT(60)
      <3>4. QED
        BY <3>1, <3>2, <3>3, <2>4, Zenon
    <2>6. g = GainOf(v1 - purse[k1], rf, credit, rt, fee)
      BY <2>1, <2>2, <2>3, <2>4, Zenon DEF QuotedGain
    <2>7. QuotedTaken(p, a0, f0, rf0, rt0) = TakenOf(v1 - purse[k1], rf, credit, rt)
      BY <2>1, <2>2, <2>3, Zenon DEF QuotedTaken
    <2>8. /\ QuotedTaken(p, a0, f0, rf0, rt0) \in Int /\ WindfallOf(a0, f0, rf0, rt0) \in Nat
          /\ 2 * QuotedTaken(p, a0, f0, rf0, rt0) <= WindfallOf(a0, f0, rf0, rt0)
      BY <2>3, SwapGain, ZenonT(60)
    <2>9. QED
      BY <2>2, <2>3, <2>5, <2>6, <2>7, <2>8, Zenon
  <1>10. /\ p1 \in [Purses -> Int] /\ WorthOf(purse) \in Int /\ TradersHold(purse) \in Int
         /\ WorthOf(p1) = WorthOf(purse) + (v1 - purse[k1]) * rf
         /\ TradersHold(p1) = TradersHold(purse) + (v1 - purse[k1]) * rf
    <2>1. /\ p1 \in [Purses -> Int]
          /\ WorthOf(purse) \in Int /\ TradersHold(purse) \in Int
          /\ WorthOf(p1) = WorthOf(purse) + (v1 - purse[k1]) * Rate[k1[2]]
          /\ TradersHold(p1) = TradersHold(purse) + (v1 - purse[k1]) * Rate[k1[2]]
      <3>1. PurseSet(purse, k1, v1, p1)
        BY <1>1, <1>5, <1>8, <1>9 DEF PurseSet
      <3>2. p1 \in [Purses -> Int] /\ WorthOf(purse) \in Int /\ TradersHold(purse) \in Int
        BY <3>1, WorthUpdate, ZenonT(60)
      <3>3. WorthOf(p1) = WorthOf(purse) + (v1 - purse[k1]) * Rate[k1[2]]
        BY <3>1, WorthUpdate, ZenonT(60)
      <3>4. k1[1] \in Traders
        BY <1>1
      <3>5. TradersHold(p1) = TradersHold(purse) + (v1 - purse[k1]) * Rate[k1[2]]
        BY <3>1, <3>4, WorthUpdate, ZenonT(60)
      <3>6. QED
        BY <3>2, <3>3, <3>5
    <2>2. Rate[k1[2]] = rf
      BY <1>1, <1>2
    <2>3. QED
      BY <2>1, <2>2, Zenon
  <1>11. /\ p2 \in [Purses -> Int] /\ WorthOf(p1) \in Int /\ TradersHold(p1) \in Int
         /\ WorthOf(p2) = WorthOf(p1) + credit * rt
         /\ TradersHold(p2) = TradersHold(p1) + credit * rt
    <2>1. p1[k2] \in Int /\ p1[k2] + credit \in Int /\ (p1[k2] + credit) - p1[k2] = credit
      BY <1>1, <1>3, <1>10
    <2>2. PICK v : v = p1[k2] + credit
      OBVIOUS
    <2>3. v \in Int /\ v - p1[k2] = credit
      BY <2>1, <2>2
    <2>4. p2 = [p1 EXCEPT ![k2] = v]
      BY <1>6, <2>2
    <2>5. /\ p2 \in [Purses -> Int]
          /\ WorthOf(p1) \in Int /\ TradersHold(p1) \in Int
          /\ WorthOf(p2) = WorthOf(p1) + (v - p1[k2]) * Rate[k2[2]]
          /\ TradersHold(p2) = TradersHold(p1) + (v - p1[k2]) * Rate[k2[2]]
      <3>1. PurseSet(p1, k2, v, p2)
        BY <1>1, <1>10, <2>3, <2>4 DEF PurseSet
      <3>2. p2 \in [Purses -> Int] /\ WorthOf(p1) \in Int /\ TradersHold(p1) \in Int
        BY <3>1, WorthUpdate, ZenonT(60)
      <3>3. WorthOf(p2) = WorthOf(p1) + (v - p1[k2]) * Rate[k2[2]]
        BY <3>1, WorthUpdate, ZenonT(60)
      <3>4. k2[1] \in Traders
        BY <1>1
      <3>5. TradersHold(p2) = TradersHold(p1) + (v - p1[k2]) * Rate[k2[2]]
        BY <3>1, <3>4, WorthUpdate, ZenonT(60)
      <3>6. QED
        BY <3>2, <3>3, <3>5
    <2>6. Rate[k2[2]] = rt
      BY <1>1, <1>2
    <2>7. QED
      BY <2>3, <2>5, <2>6, Zenon
  <1>12. /\ purse' \in [Purses -> Int] /\ WorthOf(p2) \in Int /\ TradersHold(p2) \in Int
         /\ WorthOf(purse') = WorthOf(p2) + fee * rf
         /\ TradersHold(purse') = TradersHold(p2)
    <2>1. p2[k3] \in Int /\ p2[k3] + fee \in Int /\ (p2[k3] + fee) - p2[k3] = fee
      BY <1>1, <1>3, <1>11
    <2>2. PICK v : v = p2[k3] + fee
      OBVIOUS
    <2>3. v \in Int /\ v - p2[k3] = fee
      BY <2>1, <2>2
    <2>4. PICK p3 : p3 = [p2 EXCEPT ![k3] = v]
      OBVIOUS
    <2>5. /\ p3 \in [Purses -> Int]
          /\ WorthOf(p2) \in Int /\ TradersHold(p2) \in Int
          /\ WorthOf(p3) = WorthOf(p2) + (v - p2[k3]) * Rate[k3[2]]
          /\ TradersHold(p3) = TradersHold(p2)
      <3>1. PurseSet(p2, k3, v, p3)
        BY <1>1, <1>11, <2>3, <2>4 DEF PurseSet
      <3>2. k3[1] = Treasury
        BY <1>1
      <3>3. QED
        BY <3>1, <3>2, WorthUpdate, ZenonT(60)
    <2>6. Rate[k3[2]] = rf
      BY <1>1, <1>2
    <2>7. /\ p3 \in [Purses -> Int] /\ WorthOf(p3) = WorthOf(p2) + fee * rf
          /\ TradersHold(p3) = TradersHold(p2)
      BY <2>3, <2>4, <2>5, <2>6, Zenon
    <2>8. purse' = p3
      BY <1>7, <2>2, <2>4, Zenon
    <2>9. QED
      BY <2>5, <2>7, <2>8, Zenon
  <1>13. WorthOf(purse') = WorthOf(purse) + ((v1 - purse[k1]) * rf + credit * rt + fee * rf)
    <2>1. (v1 - purse[k1]) * rf \in Int /\ credit * rt \in Int /\ fee * rf \in Int
      BY <1>3, <1>8, <1>9, TimesInt
    <2>2. QED
      BY <2>1, <1>10, <1>11, <1>12
  <1>14. PICK g : g = GainOf(v1 - purse[k1], rf, credit, rt, fee)
    OBVIOUS
  <1>15. g \in Int /\ g = (v1 - purse[k1]) * rf + credit * rt + fee * rf
    BY <1>9, <1>14, Zenon DEF GainOf
  <1>16. WorthOf(purse') \in Int /\ WorthOf(purse') - WorthOf(purse) = g
    <2>1. WorthOf(purse') = WorthOf(purse) + g
      BY <1>13, <1>15, Zenon
    <2>2. QED
      BY <2>1, <1>10, <1>15
  <1>17. SlackOf(s) = 2 * rf + rt
    BY <1>2 DEF SlackOf
  <1>18. /\ TradersHold(purse) \in Int /\ TradersHold(purse') \in Int /\ S!Windfall(s) \in Nat
         /\ 2 * (TradersHold(purse') - TradersHold(purse)) <= S!Windfall(s)
    <2>1. S!Windfall(s) = WindfallOf(a, f, rf, rt)
      BY <1>2 DEF S!Windfall, WindfallOf
    <2>2. PICK h : h = TakenOf(v1 - purse[k1], rf, credit, rt)
      OBVIOUS
    <2>3. h \in Int /\ S!Windfall(s) \in Nat /\ 2 * h <= S!Windfall(s)
      BY <1>9, <2>1, <2>2, Zenon
    <2>4. h = (v1 - purse[k1]) * rf + credit * rt
      BY <2>2, Zenon DEF TakenOf
    <2>5. (v1 - purse[k1]) * rf \in Int /\ credit * rt \in Int
      BY <1>3, <1>8, <1>9, TimesInt
    <2>6. TradersHold(purse') = TradersHold(purse) + h /\ TradersHold(purse) \in Int
      BY <2>4, <2>5, <1>10, <1>11, <1>12
    <2>7. QED
      BY <2>3, <2>6
  <1>19. QED
    <2>1. 2 * g <= 2 * rf + rt /\ -2 * g <= 2 * rf + rt
      BY <1>9, <1>14, Zenon
    <2>2. QED
      BY <2>1, <1>3, <1>10, <1>12, <1>15, <1>16, <1>17, <1>18


\* An entry is half a cent off at most.
LEMMA CentsNear ==
    ASSUME NEW a \in Nat
    PROVE  S!Cents(a) \in Int /\ 10 * S!Cents(a) - a <= 5
  <1>1. 10 \in Nat /\ 10 > 0 /\ a \in Int
    OBVIOUS
  <1>2. /\ S!Rounded(a, 10) \in Int
        /\ 2 * (10 * S!Rounded(a, 10)) - 2 * a <= 10
    BY <1>1, RoundedNear
  <1>3. QED
    BY <1>2 DEF S!Cents

\* A windfall is never negative.
LEMMA WindfallTyped ==
    ASSUME SwapTypes, NEW s \in Swaps, swap[s].step # "none"
    PROVE  S!Windfall(s) \in Nat
  <1>1. PICK a, f, rf, rt : /\ a = swap[s].amount /\ f = S!FeePermille(swap[s].from, swap[s].into)
                            /\ rf = Rate[swap[s].from] /\ rt = Rate[swap[s].into]
    OBVIOUS
  <1>2. a \in Nat /\ f \in 0..1000 /\ rf \in Nat /\ rt \in Nat /\ rf > 0 /\ rt > 0
    BY <1>1, SwapTyped, FeeTyped
  <1>3. WindfallOf(a, f, rf, rt) \in Nat
    <2>1. 0 \in Int
      OBVIOUS
    <2>2. QED
      BY <1>2, <2>1, SwapGain
  <1>4. QED
    BY <1>1, <1>3 DEF S!Windfall, WindfallOf

\* The posted swaps are finite in number, and what they are worth are whole numbers.
LEMMA PostedTyped ==
    ASSUME SwapTypes
    PROVE  /\ IsFiniteSet(S!Posted) /\ IsFiniteSet(S!UnderWay)
           /\ \A u : IsFiniteSet(S!PostedOf(u)) /\ IsFiniteSet(AdmittedOf(u))
           /\ \A s \in S!Posted : /\ SlackOf(s) \in Nat /\ 5 * Rate[swap[s].from] \in Nat
                                  /\ S!UsdOut[s] = 10 * S!Cents(swap[s].amount) * Rate[swap[s].from]
                                  /\ S!UsdOut[s] \in Int
                                  /\ S!Windfall(s) \in Nat
           /\ \A s \in S!UnderWay : swap[s].amount * Rate[swap[s].from] \in Nat
  <1>1. IsFiniteSet(Swaps)
    BY SwapAssumption
  <1>2. /\ S!Posted \subseteq Swaps /\ S!UnderWay \subseteq Swaps
        /\ \A u : S!PostedOf(u) \subseteq Swaps /\ AdmittedOf(u) \subseteq Swaps
    BY DEF S!Posted, S!UnderWay, S!PostedOf, AdmittedOf
  <1>3. /\ IsFiniteSet(S!Posted) /\ IsFiniteSet(S!UnderWay)
        /\ \A u : IsFiniteSet(S!PostedOf(u)) /\ IsFiniteSet(AdmittedOf(u))
    BY <1>1, <1>2, FS_Subset
  <1>4. \A s \in S!Posted \cup S!UnderWay :
            /\ swap[s].amount \in Nat
            /\ Rate[swap[s].from] \in Nat /\ Rate[swap[s].into] \in Nat
    BY SwapTyped DEF S!Posted, S!UnderWay
  <1>5. \A s \in S!Posted : /\ SlackOf(s) \in Nat /\ 5 * Rate[swap[s].from] \in Nat
                            /\ S!Windfall(s) \in Nat
    <2>1. ASSUME NEW s \in S!Posted PROVE S!Windfall(s) \in Nat
      <3>1. s \in Swaps /\ swap[s].step # "none"
        BY <1>2 DEF S!Posted
      <3>2. QED
        BY <3>1, WindfallTyped
    <2>2. QED
      BY <1>4, <2>1 DEF SlackOf
  <1>6. ASSUME NEW s \in S!Posted
        PROVE  /\ S!UsdOut[s] = 10 * S!Cents(swap[s].amount) * Rate[swap[s].from]
               /\ S!UsdOut[s] \in Int
    <2>1. S!UsdOut[s] = 10 * S!Cents(swap[s].amount) * Rate[swap[s].from]
      BY DEF S!UsdOut
    <2>2. S!Cents(swap[s].amount) \in Int
      BY <1>4, CentsNear
    <2>3. 10 * S!Cents(swap[s].amount) \in Int /\ Rate[swap[s].from] \in Int
      BY <1>4, <2>2
    <2>4. QED
      BY <2>1, <2>3, TimesInt
  <1>7. \A s \in S!UnderWay : swap[s].amount * Rate[swap[s].from] \in Nat
    BY <1>4, TimesNat
  <1>8. QED
    BY <1>3, <1>5, <1>6, <1>7

\* The sums over what is posted and what is under way are whole numbers.
LEMMA SwapSumsTyped ==
    ASSUME SwapTypes
    PROVE  /\ Slack \in Nat /\ Rounding \in Nat /\ Windfalls \in Nat
           /\ \A u : SentAway(u) \in Int /\ Sending(u) \in Nat
  <1>1. Slack \in Nat /\ Windfalls \in Nat
    <2>1. Slack \in Nat
      BY PostedTyped, SumNat DEF Slack, SlackOf
    <2>2. PICK X : X = [s \in S!Posted |-> S!Windfall(s)]
      OBVIOUS
    <2>3. IsFiniteSet(S!Posted) /\ \A s \in S!Posted : X[s] \in Nat
      BY <2>2, PostedTyped
    <2>4. SumFunctionOnSet(X, S!Posted) \in Nat
      BY <2>3, SumNat
    <2>5. QED
      BY <2>1, <2>2, <2>4, Zenon DEF Windfalls
  <1>2. Rounding \in Nat
    BY PostedTyped, SumNat DEF Rounding
  <1>3. ASSUME NEW u
        PROVE  SentAway(u) \in Int
    <2>1. S!PostedOf(u) \subseteq S!Posted
      BY DEF S!PostedOf
    <2>2. QED
      BY <2>1, PostedTyped, SumInt DEF SentAway
  <1>4. ASSUME NEW u
        PROVE  Sending(u) \in Nat
    <2>1. AdmittedOf(u) \subseteq S!UnderWay
      BY DEF AdmittedOf
    <2>2. QED
      BY <2>1, PostedTyped, SumNat DEF Sending
  <1>5. QED
    BY <1>1, <1>2, <1>3, <1>4

\* While nothing is posted the sums over what is posted stay.
LEMMA PostedSame ==
    ASSUME S!Posted' = S!Posted, \A s \in S!Posted : swap'[s] = swap[s]
    PROVE  /\ Slack' = Slack /\ Rounding' = Rounding /\ Windfalls' = Windfalls
           /\ \A u : SentAway(u)' = SentAway(u)
  <1>1. [s \in S!Posted |-> 2 * Rate[swap[s].from] + Rate[swap[s].into]]'
          = [s \in S!Posted |-> 2 * Rate[swap[s].from] + Rate[swap[s].into]]
    OBVIOUS
  <1>2. [s \in S!Posted |-> 5 * Rate[swap[s].from]]' = [s \in S!Posted |-> 5 * Rate[swap[s].from]]
    OBVIOUS
  <1>3. S!UsdOut' = S!UsdOut
    BY DEF S!UsdOut
  <1>4. \A u : S!PostedOf(u)' = S!PostedOf(u)
    BY DEF S!PostedOf
  <1>5. Slack' = Slack
    BY <1>1, Zenon DEF Slack
  <1>6. Rounding' = Rounding
    BY <1>2, Zenon DEF Rounding
  <1>7. \A u : SentAway(u)' = SentAway(u)
    BY <1>3, <1>4, Zenon DEF SentAway
  <1>8. Windfalls' = Windfalls
    <2>1. [s \in S!Posted |-> S!Windfall(s)]' = [s \in S!Posted |-> S!Windfall(s)]
      BY DEF S!Windfall
    <2>2. QED
      BY <2>1, Zenon DEF Windfalls
  <1>9. QED
    BY <1>5, <1>6, <1>7, <1>8

\* A posted swap is added to the sums.
LEMMA PostedGrows ==
    ASSUME SwapTypes, SwapTypes', NEW s \in Swaps, S!Post(s)
    PROVE  /\ Slack' = Slack + SlackOf(s)
           /\ Rounding' = Rounding + 5 * Rate[swap[s].from]
           /\ Windfalls' = Windfalls + S!Windfall(s)
           /\ \A u : SentAway(u)' =
                  IF u = swap[s].by
                  THEN SentAway(u) + 10 * S!Cents(swap[s].amount) * Rate[swap[s].from]
                  ELSE SentAway(u)
  <1>0. swap[s].step = "admitted" /\ S!Goto(s, "posted")
    BY DEF S!Post
  <1>1. /\ swap'[s].step = "posted"
        /\ swap'[s].by = swap[s].by /\ swap'[s].from = swap[s].from
        /\ swap'[s].into = swap[s].into /\ swap'[s].amount = swap[s].amount
        /\ \A x \in Swaps \ {s} : swap'[x] = swap[x]
    BY <1>0, SwapGoes
  <1>2. S!Posted' = S!Posted \cup {s} /\ s \notin S!Posted /\ s \in S!Posted'
    BY <1>0, <1>1 DEF S!Posted
  <1>3. /\ IsFiniteSet(S!Posted)
        /\ \A x \in S!Posted : SlackOf(x) \in Nat /\ 5 * Rate[swap[x].from] \in Nat
        /\ \A x \in S!Posted : S!UsdOut[x] \in Int
        /\ \A u : IsFiniteSet(S!PostedOf(u))
    BY PostedTyped
  <1>4. /\ Rate[swap[s].from] \in Nat /\ Rate[swap[s].into] \in Nat
        /\ swap[s].amount \in Nat /\ SlackOf(s) \in Nat
    BY <1>0, SwapTyped DEF SlackOf
  <1>5. Slack' = Slack + SlackOf(s)
    <2>1. PICK X, Y : /\ X = [x \in S!Posted |-> 2 * Rate[swap[x].from] + Rate[swap[x].into]]
                      /\ Y = [x \in S!Posted |-> 2 * Rate[swap[x].from] + Rate[swap[x].into]]'
      OBVIOUS
    <2>2. /\ \A x \in S!Posted : X[x] \in Int /\ Y[x] = X[x]
          /\ Y[s] = SlackOf(s) /\ Y[s] \in Int
      BY <1>1, <1>2, <1>3, <1>4, <2>1 DEF SlackOf, S!Posted
    <2>3. SumFunctionOnSet(Y, S!Posted \cup {s}) = SumFunctionOnSet(Y, S!Posted) + Y[s]
      BY <1>2, <1>3, <2>2, SumAdd
    <2>4. SumFunctionOnSet(Y, S!Posted) = SumFunctionOnSet(X, S!Posted)
      BY <1>3, <2>2, SumSame
    <2>5. Slack = SumFunctionOnSet(X, S!Posted) /\ Slack' = SumFunctionOnSet(Y, S!Posted \cup {s})
      BY <1>2, <2>1, Zenon DEF Slack
    <2>6. QED
      BY <2>2, <2>3, <2>4, <2>5, Zenon
  <1>6. Rounding' = Rounding + 5 * Rate[swap[s].from]
    <2>1. PICK X, Y : /\ X = [x \in S!Posted |-> 5 * Rate[swap[x].from]]
                      /\ Y = [x \in S!Posted |-> 5 * Rate[swap[x].from]]'
      OBVIOUS
    <2>2. /\ \A x \in S!Posted : X[x] \in Int /\ Y[x] = X[x]
          /\ Y[s] = 5 * Rate[swap[s].from] /\ Y[s] \in Int
      BY <1>1, <1>2, <1>3, <1>4, <2>1 DEF S!Posted
    <2>3. SumFunctionOnSet(Y, S!Posted \cup {s}) = SumFunctionOnSet(Y, S!Posted) + Y[s]
      BY <1>2, <1>3, <2>2, SumAdd
    <2>4. SumFunctionOnSet(Y, S!Posted) = SumFunctionOnSet(X, S!Posted)
      BY <1>3, <2>2, SumSame
    <2>5. /\ Rounding = SumFunctionOnSet(X, S!Posted)
          /\ Rounding' = SumFunctionOnSet(Y, S!Posted \cup {s})
      BY <1>2, <2>1, Zenon DEF Rounding
    <2>6. QED
      BY <2>2, <2>3, <2>4, <2>5, Zenon
  <1>w. Windfalls' = Windfalls + S!Windfall(s)
    <2>1. PICK X, Y : /\ X = [x \in S!Posted |-> S!Windfall(x)]
                      /\ Y = [x \in S!Posted |-> S!Windfall(x)]'
      OBVIOUS
    <2>2. \A x \in S!Posted : S!Windfall(x) \in Nat
      BY PostedTyped
    <2>3. S!Windfall(s) \in Nat
      BY <1>0, WindfallTyped
    <2>4. \A x \in S!Posted \cup {s} : S!Windfall(x)' = S!Windfall(x)
      BY <1>1, <1>2 DEF S!Windfall, S!Posted
    <2>5. /\ \A x \in S!Posted : X[x] \in Int /\ Y[x] = X[x]
          /\ Y[s] = S!Windfall(s) /\ Y[s] \in Int
      BY <1>2, <2>1, <2>2, <2>3, <2>4
    <2>6. SumFunctionOnSet(Y, S!Posted \cup {s}) = SumFunctionOnSet(Y, S!Posted) + Y[s]
      BY <1>2, <1>3, <2>5, SumAdd
    <2>7. SumFunctionOnSet(Y, S!Posted) = SumFunctionOnSet(X, S!Posted)
      BY <1>3, <2>5, SumSame
    <2>8. Windfalls = SumFunctionOnSet(X, S!Posted) /\ Windfalls' = SumFunctionOnSet(Y, S!Posted \cup {s})
      BY <1>2, <2>1, Zenon DEF Windfalls
    <2>9. QED
      BY <2>5, <2>6, <2>7, <2>8, Zenon
  <1>7. PICK X, Y : X = S!UsdOut /\ Y = S!UsdOut'
    OBVIOUS
  <1>8. /\ \A x \in S!Posted : X[x] \in Int /\ Y[x] = X[x]
        /\ Y[s] = 10 * S!Cents(swap[s].amount) * Rate[swap[s].from] /\ Y[s] \in Int
    <2>1. \A x \in S!Posted : Y[x] = X[x]
      BY <1>1, <1>2, <1>7 DEF S!UsdOut, S!Posted
    <2>2. Y[s] = 10 * S!Cents(swap[s].amount) * Rate[swap[s].from]
      BY <1>1, <1>2, <1>7 DEF S!UsdOut
    <2>3. S!Cents(swap[s].amount) \in Int
      BY <1>4, CentsNear
    <2>4. 10 * S!Cents(swap[s].amount) \in Int /\ Rate[swap[s].from] \in Int
      BY <1>4, <2>3
    <2>5. Y[s] \in Int
      BY <2>2, <2>4, TimesInt
    <2>6. QED
      BY <1>3, <1>7, <2>1, <2>2, <2>5
  <1>. PICK by : by = swap[s].by
    OBVIOUS
  <1>9. /\ S!PostedOf(by)' = S!PostedOf(by) \cup {s}
        /\ s \notin S!PostedOf(by) /\ S!PostedOf(by) \subseteq S!Posted
        /\ \A u : u # by => S!PostedOf(u)' = S!PostedOf(u) /\ S!PostedOf(u) \subseteq S!Posted
    BY <1>1, <1>2 DEF S!PostedOf, S!Posted
  <1>10. SentAway(by)' = SentAway(by) + Y[s]
    <2>1. PICK Q : Q = S!PostedOf(by)
      OBVIOUS
    <2>2. IsFiniteSet(Q) /\ s \notin Q /\ \A x \in Q : X[x] \in Int /\ Y[x] = X[x]
      BY <1>3, <1>8, <1>9, <2>1
    <2>3. SumFunctionOnSet(Y, Q \cup {s}) = SumFunctionOnSet(Y, Q) + Y[s]
      BY <1>8, <2>2, SumAdd
    <2>4. SumFunctionOnSet(Y, Q) = SumFunctionOnSet(X, Q)
      BY <2>2, SumSame
    <2>5. /\ SentAway(by) = SumFunctionOnSet(X, Q)
          /\ SentAway(by)' = SumFunctionOnSet(Y, Q \cup {s})
      BY <1>7, <1>9, <2>1, Zenon DEF SentAway
    <2>6. QED
      BY <2>3, <2>4, <2>5, Zenon
  <1>11. ASSUME NEW u, u # by
         PROVE  SentAway(u)' = SentAway(u)
    <2>1. PICK Q : Q = S!PostedOf(u)
      OBVIOUS
    <2>2. IsFiniteSet(Q) /\ \A x \in Q : X[x] \in Int /\ Y[x] = X[x]
      BY <1>3, <1>8, <1>9, <1>11, <2>1
    <2>3. SumFunctionOnSet(Y, Q) = SumFunctionOnSet(X, Q)
      BY <2>2, SumSame
    <2>4. SentAway(u) = SumFunctionOnSet(X, Q) /\ SentAway(u)' = SumFunctionOnSet(Y, Q)
      BY <1>7, <1>9, <1>11, <2>1, Zenon DEF SentAway
    <2>5. QED
      BY <2>3, <2>4, Zenon
  <1>12. QED
    <2>1. \A u : SentAway(u)' = IF u = by THEN SentAway(u) + Y[s] ELSE SentAway(u)
      BY <1>10, <1>11, Zenon
    <2>2. QED
      BY <1>5, <1>6, <1>8, <1>w, <2>1, Zenon


\* What an entry of a posted swap says is little more than what was sent.
LEMMA EntryNear ==
    ASSUME NEW a \in Nat, NEW r \in Nat
    PROVE  /\ a * r \in Nat
           /\ 10 * S!Cents(a) * r \in Int
           /\ 10 * S!Cents(a) * r <= a * r + 5 * r
  <1>1. PICK c \in Int : c = S!Cents(a)
    BY CentsNear
  <1>2. 10 * c <= a + 5
    BY <1>1, CentsNear
  <1>3. r * (10 * c) <= r * (a + 5)
    BY <1>1, <1>2, TimesOrder
  <1>4. r * (10 * c) = 10 * c * r /\ r * (a + 5) = a * r + 5 * r /\ 10 * c * r \in Int
    BY <1>1
  <1>5. a * r \in Nat
    BY TimesNat
  <1>6. 10 * c * r <= a * r + 5 * r
    BY <1>3, <1>4
  <1>7. QED
    BY <1>1, <1>4, <1>5, <1>6

\* What a user has under way, when one more is.
LEMMA SendingGrows ==
    ASSUME SwapTypes, SwapTypes', NEW s \in Swaps, s \notin S!UnderWay, NEW u,
           S!UnderWay' = S!UnderWay \cup {s}, swap'[s].by = u,
           \A x \in S!UnderWay : swap'[x] = swap[x]
    PROVE  /\ Sending(u)' = Sending(u) + swap'[s].amount * Rate[swap'[s].from]
           /\ \A w : w # u => Sending(w)' = Sending(w)
  <1>1. /\ \A w : IsFiniteSet(AdmittedOf(w))
        /\ \A x \in S!UnderWay : swap[x].amount * Rate[swap[x].from] \in Nat
    BY PostedTyped
  <1>2. /\ AdmittedOf(u)' = AdmittedOf(u) \cup {s}
        /\ s \notin AdmittedOf(u) /\ AdmittedOf(u) \subseteq S!UnderWay
        /\ \A w : w # u => AdmittedOf(w)' = AdmittedOf(w) /\ AdmittedOf(w) \subseteq S!UnderWay
    BY DEF AdmittedOf
  <1>3. swap'[s].amount * Rate[swap'[s].from] \in Nat
    <2>1. swap'[s].step = "admitted" /\ s \in S!UnderWay'
      BY DEF S!UnderWay
    <2>2. swap'[s] \in SwapRecord
      BY <2>1 DEF SwapTypes, S!NoSwap
    <2>3. swap'[s].amount \in Nat /\ Rate[swap'[s].from] \in Nat
      BY <2>2, SwapConstants DEF SwapRecord
    <2>4. QED
      BY <2>3, TimesNat
  <1>4. PICK X, Y, Q :
            /\ Q = AdmittedOf(u)
            /\ X = [x \in Q |-> swap[x].amount * Rate[swap[x].from]]
            /\ Y = [x \in Q \cup {s} |-> swap'[x].amount * Rate[swap'[x].from]]
    OBVIOUS
  <1>5. /\ IsFiniteSet(Q) /\ s \notin Q
        /\ \A x \in Q : X[x] \in Int /\ Y[x] = X[x]
        /\ Y[s] = swap'[s].amount * Rate[swap'[s].from] /\ Y[s] \in Int
    BY <1>1, <1>2, <1>3, <1>4
  <1>6. SumFunctionOnSet(Y, Q \cup {s}) = SumFunctionOnSet(Y, Q) + Y[s]
    BY <1>5, SumAdd
  <1>7. SumFunctionOnSet(Y, Q) = SumFunctionOnSet(X, Q)
    BY <1>5, SumSame
  <1>8. Sending(u) = SumFunctionOnSet(X, Q) /\ Sending(u)' = SumFunctionOnSet(Y, Q \cup {s})
    BY <1>2, <1>4, Zenon DEF Sending
  <1>9. ASSUME NEW w, w # u
        PROVE  Sending(w)' = Sending(w)
    <2>1. [x \in AdmittedOf(w) |-> swap[x].amount * Rate[swap[x].from]]'
            = [x \in AdmittedOf(w) |-> swap[x].amount * Rate[swap[x].from]]
      BY <1>2, <1>9
    <2>2. QED
      BY <1>2, <1>9, <2>1, Zenon DEF Sending
  <1>10. QED
    BY <1>5, <1>6, <1>7, <1>8, <1>9, Zenon

\* What a user has under way, when one less is.
LEMMA SendingShrinks ==
    ASSUME SwapTypes, NEW s \in S!UnderWay, S!UnderWay' = S!UnderWay \ {s},
           \A x \in S!UnderWay \ {s} : swap'[x] = swap[x], NEW u, u = swap[s].by
    PROVE  /\ Sending(u)' = Sending(u) - swap[s].amount * Rate[swap[s].from]
           /\ \A w : w # u => Sending(w)' = Sending(w)
  <1>1. /\ \A w : IsFiniteSet(AdmittedOf(w))
        /\ \A x \in S!UnderWay : swap[x].amount * Rate[swap[x].from] \in Nat
    BY PostedTyped
  <1>3. /\ AdmittedOf(u)' = AdmittedOf(u) \ {s}
        /\ s \in AdmittedOf(u) /\ AdmittedOf(u) \subseteq S!UnderWay
        /\ \A w : w # u => AdmittedOf(w)' = AdmittedOf(w) /\ AdmittedOf(w) \subseteq S!UnderWay \ {s}
    BY DEF AdmittedOf
  <1>4. PICK X, Y, Q :
            /\ Q = AdmittedOf(u)
            /\ X = [x \in Q |-> swap[x].amount * Rate[swap[x].from]]
            /\ Y = [x \in Q \ {s} |-> swap'[x].amount * Rate[swap'[x].from]]
    OBVIOUS
  <1>5. /\ IsFiniteSet(Q) /\ IsFiniteSet(Q \ {s}) /\ s \in Q
        /\ \A x \in Q : X[x] \in Int
        /\ \A x \in Q \ {s} : Y[x] = X[x]
        /\ X[s] = swap[s].amount * Rate[swap[s].from] /\ X[s] \in Int
    BY <1>1, <1>3, <1>4, FS_Subset
  <1>6. SumFunctionOnSet(X, Q) = X[s] + SumFunctionOnSet(X, Q \ {s})
    BY <1>5, SumRemove
  <1>7. SumFunctionOnSet(Y, Q \ {s}) = SumFunctionOnSet(X, Q \ {s})
    BY <1>5, SumSame
  <1>8. Sending(u) = SumFunctionOnSet(X, Q) /\ Sending(u)' = SumFunctionOnSet(Y, Q \ {s})
    BY <1>3, <1>4, Zenon DEF Sending
  <1>9. SumFunctionOnSet(X, Q \ {s}) \in Int
    BY <1>5, SumInt
  <1>10. Sending(u)' = Sending(u) - X[s]
    BY <1>5, <1>6, <1>7, <1>8, <1>9
  <1>11. ASSUME NEW w, w # u
         PROVE  Sending(w)' = Sending(w)
    <2>1. [x \in AdmittedOf(w) |-> swap[x].amount * Rate[swap[x].from]]'
            = [x \in AdmittedOf(w) |-> swap[x].amount * Rate[swap[x].from]]
      BY <1>3, <1>11
    <2>2. QED
      BY <1>3, <1>11, <2>1, Zenon DEF Sending
  <1>12. QED
    BY <1>5, <1>10, <1>11, Zenon


\* A quote is in whole cents.
LEMMA QuoteTyped ==
    ASSUME NEW c \in SwapCoins, NEW d \in SwapCoins, NEW a \in Nat
    PROVE  S!ToAmount(c, d, a) \in Int /\ S!FeeAmount(c, d, a) \in Int
  <1>1. PICK f \in Int, r \in Int, q \in Nat :
            f = S!FeePermille(c, d) /\ r = Rate[c] /\ q = Rate[d] /\ q > 0
    <2>1. S!FeePermille(c, d) \in 0..1000
      BY FeeTyped
    <2>2. S!FeePermille(c, d) \in Int
      BY <2>1
    <2>3. Rate[c] \in Int /\ Rate[d] \in Nat /\ Rate[d] > 0
      BY SwapConstants
    <2>4. QED
      BY <2>2, <2>3, Zenon
  <1>2. a * (1000 - f) * r \in Int /\ a * f \in Int
    <2>1. a * (1000 - f) \in Int /\ a * f \in Int
      BY TimesInt
    <2>2. QED
      BY <2>1, TimesInt
  <1>3. PICK n \in Int, m \in Int : n = a * (1000 - f) * r /\ m = a * f
    BY <1>2
  <1>4. 10000 * q \in Nat /\ 10000 * q > 0 /\ 10000 \in Nat /\ 10000 > 0
    BY <1>1
  <1>5. S!Rounded(n, 10000 * q) \in Int /\ S!Rounded(m, 10000) \in Int
    BY <1>4, RoundedNear
  <1>6. S!ToAmount(c, d, a) = S!Rounded(n, 10000 * q)
    BY <1>1, <1>3 DEF S!ToAmount
  <1>7. S!FeeAmount(c, d, a) = S!Rounded(m, 10000)
    BY <1>1, <1>3 DEF S!FeeAmount
  <1>8. QED
    BY <1>5, <1>6, <1>7

\* When nothing is posted and no purse changes, the worth is kept.
LEMMA WorthStays ==
    ASSUME SwapInv, S!Posted' = S!Posted, \A s \in S!Posted : swap'[s] = swap[s], UNCHANGED purse
    PROVE  WorthKept'
  <1>1. Slack' = Slack /\ Windfalls' = Windfalls
    BY PostedSame
  <1>2. /\ WorthOf(purse)' = WorthOf(purse) /\ OpeningSum' = OpeningSum
        /\ TradersHold(purse)' = TradersHold(purse)
    BY DEF WorthOf, TradersHold, WorthIn, OpeningSum
  <1>3. WorthKept
    BY DEF SwapInv
  <1>4. QED
    BY <1>1, <1>2, <1>3, Zenon DEF WorthKept

\* A request that is admitted says what it was quoted, and was compared with the limits.
LEMMA AdmitKeeps ==
    ASSUME SwapInv, NEW s \in Swaps, NEW u \in Traders, NEW v \in Traders,
           NEW from \in SwapCoins, NEW into \in SwapCoins, NEW a \in SwapAmounts,
           S!Admit(s, u, v, from, into, a)
    PROVE  SwapInv'
  <1>1. PICK e : e = [step |-> "admitted", by |-> u, to |-> v, from |-> from, into |-> into,
                      amount |-> a, credit |-> S!ToAmount(from, into, a),
                      fee |-> S!FeeAmount(from, into, a)]
    OBVIOUS
  <1>2. /\ swap[s].step = "none" /\ swap' = [swap EXCEPT ![s] = e] /\ UNCHANGED purse
        /\ a * Rate[from] <= SingleLimit
        /\ S!OutflowUSD(u, from) + a * Rate[from] <= DailyLimit
        /\ Cardinality(S!UnderWay) < MaxUnderWay
    BY <1>1, SwapsCounted DEF S!Admit, S!WithinLimits
  <1>3. SwapTypes /\ AsQuoted /\ AdmittedAreSmall /\ OutflowBounded
    BY DEF SwapInv
  <1>4. a \in Nat /\ Rate[from] \in Nat
    BY SwapConstants
  <1>5. e \in SwapRecord
    BY <1>1, <1>4, QuoteTyped DEF SwapRecord
  <1>6. /\ e.step = "admitted" /\ e.by = u /\ e.from = from /\ e.into = into /\ e.amount = a
        /\ e.credit = S!ToAmount(from, into, a) /\ e.fee = S!FeeAmount(from, into, a)
    BY <1>1
  <1>7. SwapTypes'
    BY <1>2, <1>3, <1>5 DEF SwapTypes
  <1>8. swap'[s] = e /\ \A x \in Swaps \ {s} : swap'[x] = swap[x]
    BY <1>2, <1>3 DEF SwapTypes
  <1>9. /\ S!Posted' = S!Posted /\ s \notin S!Posted
        /\ S!UnderWay' = S!UnderWay \cup {s} /\ s \notin S!UnderWay
        /\ S!Posted \subseteq Swaps /\ S!UnderWay \subseteq Swaps
    BY <1>2, <1>6, <1>8 DEF S!Posted, S!UnderWay
  <1>10. /\ \A x \in S!Posted : swap'[x] = swap[x]
         /\ \A x \in S!UnderWay : swap'[x] = swap[x]
    BY <1>8, <1>9
  <1>11. AsQuoted'
    <2>1. ASSUME NEW x \in Swaps, swap'[x].step # "none"
          PROVE  /\ swap'[x].credit = S!ToAmount(swap'[x].from, swap'[x].into, swap'[x].amount)
                 /\ swap'[x].fee = S!FeeAmount(swap'[x].from, swap'[x].into, swap'[x].amount)
      <3>1. CASE x = s
        BY <3>1, <1>6, <1>8, Zenon
      <3>2. CASE x # s
        BY <3>2, <2>1, <1>3, <1>8, Zenon DEF AsQuoted
      <3>3. QED
        BY <3>1, <3>2
    <2>2. QED
      BY <2>1, Zenon DEF AsQuoted
  <1>12. AdmittedAreSmall'
    BY <1>2, <1>3, <1>6, <1>8, <1>9, <1>10 DEF AdmittedAreSmall
  <1>13. WorthKept'
    BY <1>2, <1>9, <1>10, WorthStays
  <1>14. /\ Rounding' = Rounding /\ \A w : SentAway(w)' = SentAway(w)
    BY <1>9, <1>10, PostedSame
  <1>15. /\ Sending(u)' = Sending(u) + a * Rate[from]
         /\ \A w : w # u => Sending(w)' = Sending(w)
    BY <1>3, <1>6, <1>7, <1>8, <1>9, <1>10, SendingGrows
  <1>16. Sending(u) <= SingleLimit * (MaxUnderWay - 1)
    <2>1. PICK Q, X : /\ Q = AdmittedOf(u)
                      /\ X = [x \in Q |-> swap[x].amount * Rate[swap[x].from]]
      OBVIOUS
    <2>2. Q \subseteq S!UnderWay /\ IsFiniteSet(Q) /\ IsFiniteSet(S!UnderWay)
      BY <1>3, <2>1, PostedTyped DEF AdmittedOf
    <2>3. \A x \in Q : X[x] \in Int /\ X[x] <= SingleLimit
      BY <1>3, <2>1, <2>2, PostedTyped DEF AdmittedAreSmall
    <2>4. SumFunctionOnSet(X, Q) <= SingleLimit * Cardinality(Q)
      BY <2>2, <2>3, SumBound, SwapConstants
    <2>5. /\ Cardinality(Q) \in Nat /\ Cardinality(S!UnderWay) \in Nat
          /\ Cardinality(Q) <= Cardinality(S!UnderWay)
      BY <2>2, FS_Subset, FS_CardinalityType
    <2>6. Cardinality(Q) <= MaxUnderWay - 1
      BY <1>2, <2>5, SwapsCounted, SwapConstants
    <2>7. SingleLimit * Cardinality(Q) <= SingleLimit * (MaxUnderWay - 1)
      BY <2>5, <2>6, TimesOrder, SwapConstants
    <2>8. Sending(u) = SumFunctionOnSet(X, Q)
      BY <2>1, Zenon DEF Sending
    <2>9. Sending(u) \in Int
      BY <1>3, SwapSumsTyped
    <2>10. PICK m \in Int, n \in Int :
               m = SingleLimit * Cardinality(Q) /\ n = SingleLimit * (MaxUnderWay - 1)
      BY <2>5, TimesInt, SwapConstants
    <2>11. QED
      BY <2>4, <2>7, <2>8, <2>9, <2>10
  <1>17. S!OutflowUSD(u, from) = SentAway(u)
    BY SwapsAddUp DEF S!OutflowUSD, SentAway
  <1>18. SentAway(u) + Sending(u) + a * Rate[from] <= MostAway + Rounding
    <2>1. PICK m \in Int, n \in Int :
              m = a * Rate[from] /\ n = SingleLimit * (MaxUnderWay - 1)
      BY <1>4, TimesInt, SwapConstants
    <2>2. SentAway(u) + m <= DailyLimit /\ Sending(u) <= n
      BY <1>2, <1>16, <1>17, <2>1
    <2>3. MostAway = DailyLimit + n
      BY <2>1, SwapConstants DEF MostAway
    <2>4. Rounding \in Nat /\ SentAway(u) \in Int /\ Sending(u) \in Int
      BY <1>3, SwapSumsTyped
    <2>5. SentAway(u) + Sending(u) + m <= MostAway + Rounding
      BY <2>2, <2>3, <2>4, SwapConstants
    <2>6. QED
      BY <2>1, <2>5
  <1>19. OutflowBounded'
    <2>1. ASSUME NEW w \in Traders
          PROVE  SentAway(w)' + Sending(w)' <= MostAway + Rounding'
      <3>1. CASE w = u
        <4>1. a * Rate[from] \in Int /\ SentAway(u) \in Int /\ Sending(u) \in Int
          BY <1>3, <1>4, TimesInt, SwapSumsTyped
        <4>2. SentAway(u) + (Sending(u) + a * Rate[from]) <= MostAway + Rounding
          BY <1>18, <4>1
        <4>3. QED
          BY <3>1, <4>2, <1>14, <1>15, Zenon
      <3>2. CASE w # u
        BY <3>2, <1>3, <1>14, <1>15, Zenon DEF OutflowBounded
      <3>3. QED
        BY <3>1, <3>2
    <2>2. QED
      BY <2>1 DEF OutflowBounded, MostAway
  <1>20. QED
    BY <1>7, <1>11, <1>12, <1>13, <1>19 DEF SwapInv

\* Posting or refusing a swap keeps what it says, and nothing else becomes under way.
LEMMA SwapAnswered ==
    ASSUME SwapInv, NEW s \in Swaps, swap[s].step = "admitted",
           NEW where \in {"posted", "refused"}, S!Goto(s, where)
    PROVE  /\ AsQuoted' /\ AdmittedAreSmall'
           /\ s \in S!UnderWay /\ S!UnderWay' = S!UnderWay \ {s}
           /\ \A x \in Swaps \ {s} : swap'[x] = swap[x]
           /\ S!Posted \subseteq Swaps \ {s}
           /\ where = "refused" => S!Posted' = S!Posted
  <1>0. SwapTypes /\ AsQuoted /\ AdmittedAreSmall
    BY DEF SwapInv
  <1>1. /\ swap'[s].step = where
        /\ swap'[s].from = swap[s].from /\ swap'[s].into = swap[s].into
        /\ swap'[s].amount = swap[s].amount /\ swap'[s].credit = swap[s].credit
        /\ swap'[s].fee = swap[s].fee
        /\ \A x \in Swaps \ {s} : swap'[x] = swap[x]
    BY <1>0, SwapGoes
  <1>2. /\ s \in S!UnderWay /\ S!UnderWay' = S!UnderWay \ {s}
        /\ S!Posted \subseteq Swaps \ {s}
        /\ where = "refused" => S!Posted' = S!Posted
    BY <1>1 DEF S!UnderWay, S!Posted
  <1>3. AsQuoted'
    <2>1. ASSUME NEW x \in Swaps, swap'[x].step # "none"
          PROVE  /\ swap'[x].credit = S!ToAmount(swap'[x].from, swap'[x].into, swap'[x].amount)
                 /\ swap'[x].fee = S!FeeAmount(swap'[x].from, swap'[x].into, swap'[x].amount)
      <3>1. CASE x = s
        <4>1. /\ swap[s].credit = S!ToAmount(swap[s].from, swap[s].into, swap[s].amount)
              /\ swap[s].fee = S!FeeAmount(swap[s].from, swap[s].into, swap[s].amount)
          BY <1>0 DEF AsQuoted
        <4>2. QED
          BY <3>1, <4>1, <1>1, Zenon
      <3>2. CASE x # s
        BY <3>2, <2>1, <1>0, <1>1, Zenon DEF AsQuoted
      <3>3. QED
        BY <3>1, <3>2
    <2>2. QED
      BY <2>1, Zenon DEF AsQuoted
  <1>4. AdmittedAreSmall'
    <2>1. S!UnderWay \subseteq Swaps
      BY DEF S!UnderWay
    <2>2. QED
      BY <1>0, <1>1, <1>2, <2>1 DEF AdmittedAreSmall
  <1>5. QED
    BY <1>1, <1>2, <1>3, <1>4

\* What is posted was under way, for little less.
LEMMA PostKeeps ==
    ASSUME SwapInv, NEW s \in Swaps, S!Post(s)
    PROVE  SwapInv'
  <1>0. SwapTypes /\ AsQuoted /\ WorthKept /\ OutflowBounded
    BY DEF SwapInv
  <1>1. swap[s].step = "admitted" /\ S!Goto(s, "posted") /\ swap[s].step # "none"
    BY DEF S!Post
  <1>2. /\ AsQuoted' /\ AdmittedAreSmall'
        /\ s \in S!UnderWay /\ S!UnderWay' = S!UnderWay \ {s}
        /\ \A x \in Swaps \ {s} : swap'[x] = swap[x]
    BY <1>1, SwapAnswered
  <1>3. /\ purse' \in [Purses -> Int]
        /\ WorthOf(purse) \in Int /\ WorthOf(purse') \in Int
        /\ 2 * (WorthOf(purse') - WorthOf(purse)) <= SlackOf(s)
        /\ -2 * (WorthOf(purse') - WorthOf(purse)) <= SlackOf(s)
        /\ TradersHold(purse) \in Int /\ TradersHold(purse') \in Int /\ S!Windfall(s) \in Nat
        /\ 2 * (TradersHold(purse') - TradersHold(purse)) <= S!Windfall(s)
    BY <1>0, PostingKeepsWorth
  <1>4. SwapTypes'
    BY <1>0, <1>1, <1>3, SwapGoes DEF SwapTypes
  <1>5. PICK by, a, r : by = swap[s].by /\ a = swap[s].amount /\ r = Rate[swap[s].from]
    OBVIOUS
  <1>6. by \in Traders /\ a \in Nat /\ r \in Nat /\ SlackOf(s) \in Int
    BY <1>0, <1>1, <1>5, SwapTyped DEF SlackOf
  <1>7. /\ Slack' = Slack + SlackOf(s)
        /\ Windfalls' = Windfalls + S!Windfall(s)
        /\ Rounding' = Rounding + 5 * r
        /\ \A u : SentAway(u)' = IF u = by THEN SentAway(u) + 10 * S!Cents(a) * r ELSE SentAway(u)
    BY <1>0, <1>4, <1>5, PostedGrows
  <1>8. /\ Sending(by)' = Sending(by) - a * r
        /\ \A w : w # by => Sending(w)' = Sending(w)
    <2>1. S!UnderWay \subseteq Swaps
      BY DEF S!UnderWay
    <2>2. /\ Sending(by)' = Sending(by) - swap[s].amount * Rate[swap[s].from]
          /\ \A w : w # by => Sending(w)' = Sending(w)
      BY <1>0, <1>2, <1>5, <2>1, SendingShrinks
    <2>3. QED
      BY <2>2, <1>5, Zenon
  <1>9. WorthKept'
    <2>1. OpeningSum \in Int
      <3>1. PICK X : X = [k \in Traders \X SwapCoins |-> SwapOpening * Rate[k[2]]]
        OBVIOUS
      <3>2. \A k \in Traders \X SwapCoins : Rate[k[2]] \in Int /\ SwapOpening \in Int
        BY SwapConstants
      <3>3. \A k \in Traders \X SwapCoins : X[k] \in Int
        BY <3>1, <3>2, TimesInt
      <3>4. SumFunctionOnSet(X, Traders \X SwapCoins) \in Int
        BY <3>3, SumInt, SwapConstants
      <3>5. QED
        BY <3>1, <3>4, Zenon DEF OpeningSum
    <2>2. Slack \in Int /\ Windfalls \in Int
      BY <1>0, SwapSumsTyped
    <2>3. /\ 2 * (WorthOf(purse) - OpeningSum) <= Slack
          /\ -2 * (WorthOf(purse) - OpeningSum) <= Slack
          /\ 2 * (TradersHold(purse) - OpeningSum) <= Windfalls
      BY <1>0 DEF WorthKept
    <2>4. /\ 2 * (WorthOf(purse') - OpeningSum) <= Slack + SlackOf(s)
          /\ -2 * (WorthOf(purse') - OpeningSum) <= Slack + SlackOf(s)
          /\ 2 * (TradersHold(purse') - OpeningSum) <= Windfalls + S!Windfall(s)
      BY <1>3, <1>6, <2>1, <2>2, <2>3
    <2>5. /\ OpeningSum' = OpeningSum /\ WorthOf(purse)' = WorthOf(purse')
          /\ TradersHold(purse)' = TradersHold(purse')
      BY DEF OpeningSum, WorthOf, TradersHold, WorthIn
    <2>6. QED
      BY <1>7, <2>4, <2>5, Zenon DEF WorthKept
  <1>10. OutflowBounded'
    <2>1. /\ Rounding \in Int /\ \A w : SentAway(w) \in Int /\ Sending(w) \in Int
      BY <1>0, SwapSumsTyped
    <2>2. PICK m \in Int, n \in Int : m = a * r /\ n = 10 * S!Cents(a) * r /\ n <= m + 5 * r
      BY <1>6, EntryNear
    <2>3. MostAway \in Int
      BY SwapConstants, TimesInt DEF MostAway
    <2>4. ASSUME NEW w \in Traders
          PROVE  SentAway(w)' + Sending(w)' <= MostAway + Rounding'
      <3>0. SentAway(w) + Sending(w) <= MostAway + Rounding
        BY <1>0 DEF OutflowBounded
      <3>1. CASE w = by
        <4>1. SentAway(w)' = SentAway(w) + n /\ Sending(w)' = Sending(w) - m
          BY <3>1, <1>7, <1>8, <2>2, Zenon
        <4>2. QED
          BY <3>0, <4>1, <1>6, <1>7, <2>1, <2>2, <2>3
      <3>2. CASE w # by
        <4>1. SentAway(w)' = SentAway(w) /\ Sending(w)' = Sending(w)
          BY <3>2, <1>7, <1>8, Zenon
        <4>2. QED
          BY <3>0, <4>1, <1>6, <1>7, <2>1, <2>3
      <3>3. QED
        BY <3>1, <3>2
    <2>5. QED
      BY <2>4 DEF OutflowBounded, MostAway
  <1>11. QED
    BY <1>2, <1>4, <1>9, <1>10 DEF SwapInv

\* A refusal sends nothing.
LEMMA RefusalKeeps ==
    ASSUME SwapInv, NEW s \in Swaps, S!PostFails(s)
    PROVE  SwapInv'
  <1>0. SwapTypes /\ AsQuoted /\ WorthKept /\ OutflowBounded
    BY DEF SwapInv
  <1>1. swap[s].step = "admitted" /\ S!Goto(s, "refused") /\ UNCHANGED purse /\ swap[s].step # "none"
    BY DEF S!PostFails
  <1>2. /\ AsQuoted' /\ AdmittedAreSmall'
        /\ s \in S!UnderWay /\ S!UnderWay' = S!UnderWay \ {s}
        /\ \A x \in Swaps \ {s} : swap'[x] = swap[x]
        /\ S!Posted \subseteq Swaps \ {s} /\ S!Posted' = S!Posted
    BY <1>1, SwapAnswered
  <1>3. SwapTypes'
    BY <1>0, <1>1, SwapGoes DEF SwapTypes
  <1>4. WorthKept'
    BY <1>1, <1>2, WorthStays
  <1>5. Rounding' = Rounding /\ \A w : SentAway(w)' = SentAway(w)
    BY <1>2, PostedSame
  <1>6. PICK by, m : by = swap[s].by /\ m = swap[s].amount * Rate[swap[s].from]
    OBVIOUS
  <1>7. m \in Nat
    BY <1>0, <1>2, <1>6, PostedTyped
  <1>8. /\ Sending(by)' = Sending(by) - m
        /\ \A w : w # by => Sending(w)' = Sending(w)
    <2>1. S!UnderWay \subseteq Swaps
      BY DEF S!UnderWay
    <2>2. /\ Sending(by)' = Sending(by) - swap[s].amount * Rate[swap[s].from]
          /\ \A w : w # by => Sending(w)' = Sending(w)
      BY <1>0, <1>2, <1>6, <2>1, SendingShrinks
    <2>3. QED
      BY <2>2, <1>6, Zenon
  <1>9. OutflowBounded'
    <2>1. /\ Rounding \in Int /\ \A w : SentAway(w) \in Int /\ Sending(w) \in Int
      BY <1>0, SwapSumsTyped
    <2>2. MostAway \in Int
      BY SwapConstants, TimesInt DEF MostAway
    <2>3. ASSUME NEW w \in Traders
          PROVE  SentAway(w)' + Sending(w)' <= MostAway + Rounding'
      <3>0. SentAway(w) + Sending(w) <= MostAway + Rounding
        BY <1>0 DEF OutflowBounded
      <3>1. Sending(w)' \in Int /\ Sending(w)' <= Sending(w)
        BY <1>7, <1>8, <2>1
      <3>2. QED
        BY <3>0, <3>1, <1>5, <2>1, <2>2
    <2>4. QED
      BY <2>3 DEF OutflowBounded, MostAway
  <1>10. QED
    BY <1>2, <1>3, <1>4, <1>9 DEF SwapInv


\* A sum of zeros is zero.
LEMMA SumZero ==
    ASSUME NEW X, NEW Q, IsFiniteSet(Q), \A k \in Q : X[k] = 0
    PROVE  SumFunctionOnSet(X, Q) = 0
  <1>1. Cardinality(Q) \in Nat
    BY FS_CardinalityType
  <1>2. SumFunctionOnSet(X, Q) <= 0 * Cardinality(Q)
    BY SumBound
  <1>3. SumFunctionOnSet(X, Q) \in Nat
    BY SumNat
  <1>4. QED
    BY <1>1, <1>2, <1>3

\* At first the purses hold the opening balances, and nothing is under way.
LEMMA SwapsBegin == S!Init => SwapInv
  <1> SUFFICES ASSUME S!Init PROVE SwapInv
    OBVIOUS
  <1>1. /\ purse = [k \in Purses |-> IF k[1] = Treasury THEN 0 ELSE SwapOpening]
        /\ swap = [s \in Swaps |-> S!NoSwap]
    BY DEF S!Init, Purses
  <1>2. SwapTypes
    BY <1>1, SwapConstants DEF SwapTypes
  <1>3. \A s \in Swaps : swap[s].step = "none"
    BY <1>1 DEF S!NoSwap
  <1>4. AsQuoted /\ AdmittedAreSmall
    BY <1>3 DEF AsQuoted, AdmittedAreSmall, S!UnderWay
  <1>5. /\ S!Posted = {} /\ \A u : S!PostedOf(u) = {} /\ AdmittedOf(u) = {}
    BY <1>3 DEF S!Posted, S!UnderWay, S!PostedOf, AdmittedOf
  <1>6. /\ Slack = 0 /\ Rounding = 0 /\ Windfalls = 0
        /\ \A u : SentAway(u) = 0 /\ Sending(u) = 0
    BY <1>5, SumEmpty DEF Slack, Windfalls, Rounding, SentAway, Sending
  <1>7. WorthOf(purse) = OpeningSum /\ TradersHold(purse) = OpeningSum /\ OpeningSum \in Int
    <2>1. PICK X, Y, mine, theirs :
              /\ mine = Traders \X SwapCoins /\ theirs = {Treasury} \X SwapCoins
              /\ X = [k \in Purses |-> purse[k] * Rate[k[2]]]
              /\ Y = [k \in mine |-> SwapOpening * Rate[k[2]]]
      OBVIOUS
    <2>2. /\ Purses = theirs \cup mine /\ theirs \cap mine = {}
          /\ IsFiniteSet(mine) /\ IsFiniteSet(theirs)
      BY <2>1, SwapConstants, SwapAssumption DEF Purses
    <2>3. \A k \in Purses : k[2] \in SwapCoins /\ Rate[k[2]] \in Int
      BY SwapConstants DEF Purses
    <2>4. \A k \in mine : purse[k] = SwapOpening
      <3>1. \A k \in mine : k \in Purses /\ k[1] # Treasury
        BY <2>1, SwapAssumption DEF Purses
      <3>2. QED
        BY <1>1, <3>1
    <2>5. \A k \in theirs : purse[k] = 0
      <3>1. \A k \in theirs : k \in Purses /\ k[1] = Treasury
        BY <2>1 DEF Purses
      <3>2. QED
        BY <1>1, <3>1
    <2>6. \A k \in theirs : X[k] = 0
      <3>1. \A k \in theirs : X[k] = 0 * Rate[k[2]]
        BY <2>1, <2>2, <2>5
      <3>2. QED
        BY <2>2, <2>3, <3>1
    <2>7. \A k \in mine : Y[k] \in Int /\ X[k] = Y[k]
      <3>1. \A k \in mine : Y[k] = SwapOpening * Rate[k[2]] /\ X[k] = Y[k]
        BY <2>1, <2>2, <2>4
      <3>2. QED
        BY <2>2, <2>3, <3>1, TimesInt, SwapConstants
    <2>8. SumFunctionOnSet(X, theirs \cup mine)
            = SumFunctionOnSet(X, theirs) + SumFunctionOnSet(X, mine)
      BY <2>2, <2>6, <2>7, SumUnion
    <2>9. SumFunctionOnSet(X, theirs) = 0
      BY <2>2, <2>6, SumZero
    <2>10. SumFunctionOnSet(X, mine) = SumFunctionOnSet(Y, mine)
      BY <2>2, <2>7, SumSame
    <2>11. SumFunctionOnSet(Y, mine) \in Int
      BY <2>2, <2>7, SumInt
    <2>12. WorthOf(purse) = SumFunctionOnSet(X, theirs \cup mine)
      BY <2>1, <2>2, Zenon DEF WorthOf, WorthIn
    <2>13. OpeningSum = SumFunctionOnSet(Y, mine)
      BY <2>1, Zenon DEF OpeningSum
    <2>14. TradersHold(purse) = OpeningSum
      <3>1. PICK Z : Z = [k \in mine |-> purse[k] * Rate[k[2]]]
        OBVIOUS
      <3>2. \A k \in mine : Z[k] = Y[k]
        BY <2>1, <2>4, <3>1
      <3>3. SumFunctionOnSet(Z, mine) = SumFunctionOnSet(Y, mine)
        BY <2>2, <2>7, <3>2, SumSame
      <3>4. TradersHold(purse) = SumFunctionOnSet(Z, mine)
        BY <2>1, <3>1, Zenon DEF TradersHold, WorthIn, S!Held
      <3>5. QED
        BY <3>3, <3>4, <2>13, Zenon
    <2>15. QED
      BY <2>8, <2>9, <2>10, <2>11, <2>12, <2>13, <2>14
  <1>8. WorthKept
    BY <1>6, <1>7 DEF WorthKept
  <1>9. OutflowBounded
    <2>1. PICK n : n = (MaxUnderWay - 1) * SingleLimit
      OBVIOUS
    <2>2. n \in Nat
      <3>1. MaxUnderWay - 1 \in Nat /\ SingleLimit \in Nat
        BY SwapConstants
      <3>2. QED
        BY <2>1, <3>1, TimesNat
    <2>3. 0 <= MostAway /\ MostAway \in Int
      BY <2>1, <2>2, SwapConstants DEF MostAway
    <2>4. QED
      BY <1>6, <2>3 DEF OutflowBounded
  <1>10. QED
    BY <1>2, <1>4, <1>8, <1>9 DEF SwapInv

\* Every step keeps the worth, and what is sent away within the limits.
LEMMA SwapSteps == SwapInv /\ [S!Next]_S!swapVars => SwapInv'
  <1> SUFFICES ASSUME SwapInv, [S!Next]_S!swapVars PROVE SwapInv'
    OBVIOUS
  <1>1. ASSUME NEW s \in Swaps, NEW u \in Traders, NEW v \in Traders,
               NEW from \in SwapCoins, NEW into \in SwapCoins, NEW a \in SwapAmounts,
               S!Admit(s, u, v, from, into, a)
        PROVE  SwapInv'
    BY <1>1, AdmitKeeps
  <1>2. ASSUME NEW s \in Swaps, S!Post(s)
        PROVE  SwapInv'
    BY <1>2, PostKeeps
  <1>3. ASSUME NEW s \in Swaps, S!PostFails(s)
        PROVE  SwapInv'
    BY <1>3, RefusalKeeps
  <1>4. CASE UNCHANGED S!swapVars
    <2>1. purse' = purse /\ swap' = swap
      BY <1>4 DEF S!swapVars
    <2>2. /\ SwapTypes' = SwapTypes /\ AsQuoted' = AsQuoted
          /\ AdmittedAreSmall' = AdmittedAreSmall
      BY <2>1 DEF SwapTypes, AsQuoted, AdmittedAreSmall, S!UnderWay
    <2>3. WorthKept' = WorthKept
      BY <2>1 DEF WorthKept, WorthOf, TradersHold, WorthIn, OpeningSum, Slack, Windfalls,
                  S!Windfall, S!Posted
    <2>4. OutflowBounded' = OutflowBounded
      BY <2>1 DEF OutflowBounded, SentAway, Sending, MostAway, Rounding, S!UsdOut, S!Posted,
                  S!PostedOf, AdmittedOf, S!UnderWay
    <2>5. QED
      BY <2>2, <2>3, <2>4, Zenon DEF SwapInv
  <1>5. QED
    BY <1>1, <1>2, <1>3, <1>4 DEF S!Next

\* So it holds throughout.
LEMMA SwapsHold == S!Spec => []SwapInv
  BY SwapsBegin, SwapSteps, PTL DEF S!Spec

\* The invariant has what the sums and the limits need.
LEMMA SwapsAreSound ==
    ASSUME SwapInv
    PROVE  S!SwapsKeepWorth /\ S!OnlySmallSwapsPay /\ S!DailyLimitInUSD
  <1>1. SwapTypes /\ WorthKept /\ OutflowBounded
    BY DEF SwapInv
  <1>2. S!Worth = WorthOf(purse)
    <2>1. DOMAIN purse = Purses
      BY <1>1 DEF SwapTypes
    <2>2. QED
      BY <2>1, SwapsAddUp, Zenon DEF S!Worth, WorthOf, WorthIn
  <1>3. S!OpeningWorth = OpeningSum
    BY SwapsAddUp, Zenon DEF S!OpeningWorth, OpeningSum, S!Held
  <1>4. SumFunctionOnSet([s \in S!Posted |-> 2 * Rate[swap[s].from] + Rate[swap[s].into]], S!Posted)
          = Slack
    BY SwapsAddUp, Zenon DEF Slack
  <1>5. S!SwapsKeepWorth
    BY <1>1, <1>2, <1>3, <1>4, SwapsAddUp, Zenon DEF S!SwapsKeepWorth, WorthKept
  <1>6. S!DailyLimitInUSD
    <2>1. SumFunctionOnSet([s \in S!Posted |-> 5 * Rate[swap[s].from]], S!Posted) = Rounding
      BY SwapsAddUp, Zenon DEF Rounding
    <2>2. \A u : SumFunctionOnSet(S!UsdOut, S!PostedOf(u)) = SentAway(u)
      BY SwapsAddUp, Zenon DEF SentAway
    <2>3. Rounding \in Int /\ \A u : SentAway(u) \in Int /\ Sending(u) \in Nat
      BY <1>1, SwapSumsTyped
    <2>4. MostAway \in Int
      BY SwapConstants, TimesInt DEF MostAway
    <2>5. \A u \in Traders : SentAway(u) <= MostAway + Rounding
      BY <1>1, <2>3, <2>4 DEF OutflowBounded
    <2>6. QED
      BY <2>1, <2>2, <2>5, SwapsAddUp, Zenon DEF S!DailyLimitInUSD, MostAway
  <1>7. S!OnlySmallSwapsPay
    <2>1. S!TradersWorth = TradersHold(purse)
      BY SwapsAddUp, Zenon DEF S!TradersWorth, TradersHold, WorthIn
    <2>2. SumFunctionOnSet([s \in S!Posted |-> S!Windfall(s)], S!Posted) = Windfalls
      BY Zenon DEF Windfalls
    <2>3. QED
      BY <1>1, <1>3, <2>1, <2>2, SwapsAddUp, Zenon DEF S!OnlySmallSwapsPay, WorthKept
  <1>8. QED
    BY <1>5, <1>6, <1>7

\* Whatever the coins, their rates and the amounts: swaps make or lose no more than
\* they round, they bring those who make them nothing when their fee is worth that,
\* nobody sends away more than the limits allow, and purchases and sales in the browser
\* make nothing from nothing (fx-engine.ts lines 64-78, transfer/route.ts lines 48-91,
\* limits.ts lines 30-71).
THEOREM SwapsMakeNothing == S!Spec /\ B!Spec => []SwapsSound
  <1>1. SwapInv /\ BrowserInv => SwapsSound
    BY SwapsAreSound DEF BrowserInv, SwapsSound, S!SwapsSound
  <1>2. QED
    BY <1>1, SwapsHold, BrowserHolds, PTL

-----------------------------------------------------------------------------
(* The audit of the ledger.                                                *)

WholeCents == {n \in Int : n % 10 = 0}

\* What the audit compares, and how far rounding has brought them apart.
Supply == SumFunctionOnSet(balances, Holders)
Apart == Supply - entriesNet

Readings == [read : SUBSET {"balances", "entries", "reserves"}, balances : Int, entries : Int,
             reserve : Int]

\* What an audit that nothing disturbed has read is what there is.
ReadOK(u) ==
    /\ audit[u] \in Readings
    /\ u \notin torn =>
          /\ "balances" \in audit[u].read => audit[u].balances = Supply
          /\ "entries" \in audit[u].read => audit[u].entries = entriesNet

AuditInv ==
    /\ balances \in [Holders -> WholeCents] /\ entriesNet \in Int /\ reserve \in Int
    /\ finer \in Nat /\ Apart <= 10 * finer /\ -Apart <= 10 * finer
    /\ audit = [u \in Auditors |-> audit[u]]
    /\ \A u \in Auditors : ReadOK(u)

\* The sums of the module are the sums.
LEMMA AuditSum ==
    ASSUME NEW f, NEW s
    PROVE  R!SumFunctionOnSet(f, s) = SumFunctionOnSet(f, s)
  BY DEF R!SumFunctionOnSet, R!FoldFunctionOnSet, R!MapThenFoldSet,
         SumFunctionOnSet, FoldFunctionOnSet, MapThenFoldSet

LEMMA AuditCount ==
    ASSUME NEW these
    PROVE  R!Cardinality(these) = Cardinality(these)
  BY DEF R!Cardinality, Cardinality

LEMMA SupplyIs == R!LedgerSupply = Supply
  BY AuditSum DEF R!LedgerSupply, Supply

LEMMA SupplyType ==
    ASSUME NEW f \in [Holders -> WholeCents]
    PROVE  SumFunctionOnSet(f, Holders) \in Int
  <1>1. IsFiniteSet(Holders) /\ \A a \in Holders : f[a] \in Int
    BY AuditAssumption DEF WholeCents
  <1>2. QED
    BY <1>1, SumInt

\* Rounding to the cent; what has no finer part stays as it is.
LEMMA RoundedAmounts ==
    ASSUME NEW n \in Int, NEW up \in BOOLEAN
    PROVE  /\ R!Round2(n, up) \in WholeCents
           /\ n \in WholeCents => R!Round2(n, up) = n
  BY DEF R!Round2, R!Cent, WholeCents

\* A debit that is finer than a cent may be rounded one way in the balance and the
\* other way in the entry, and that is a cent at most.
LEMMA RoundedTwice ==
    ASSUME NEW n \in WholeCents, NEW m \in Nat, NEW up \in BOOLEAN, NEW upToo \in BOOLEAN
    PROVE  /\ R!Round2(n - m, up) - n + R!Round2(m, upToo) <= 10
           /\ -10 <= R!Round2(n - m, up) - n + R!Round2(m, upToo)
           /\ m \in WholeCents => R!Round2(n - m, up) - n + R!Round2(m, upToo) = 0
  BY DEF R!Round2, R!Cent, WholeCents

\* One leg of a posting: the balance of its account moves as its entry says, but for
\* the cent of a finer debit.
LEMMA LegApart ==
    ASSUME NEW a \in Holders, balances \in [Holders -> WholeCents],
           NEW way \in {"credit", "debit"}, NEW cents \in Nat,
           way = "credit" => cents \in WholeCents,
           NEW up \in BOOLEAN, NEW upToo \in BOOLEAN, NEW leg, leg = R!Leg(way, cents),
           NEW d, d = R!After(a, leg, up) - balances[a] - R!EntryEffect(leg, upToo)
    PROVE  /\ R!After(a, leg, up) \in WholeCents /\ R!EntryEffect(leg, upToo) \in Int
           /\ d <= 10 /\ -10 <= d
           /\ ~R!Finer(leg) => d = 0
  <1>1. balances[a] \in WholeCents /\ cents \in Int /\ -cents \in Int
    OBVIOUS
  <1>2. PICK n \in WholeCents : n = balances[a]
    BY <1>1
  <1>3. CASE way = "credit"
    <2>1. R!After(a, leg, up) = R!Round2(n + cents, up)
      BY <1>2, <1>3 DEF R!After, R!Signed, R!Leg
    <2>2. R!EntryEffect(leg, upToo) = R!Round2(cents, upToo)
      BY <1>3 DEF R!EntryEffect, R!Signed, R!Leg
    <2>3. cents \in WholeCents /\ n + cents \in WholeCents
      BY <1>3 DEF WholeCents
    <2>4. R!Round2(n + cents, up) = n + cents /\ R!Round2(cents, upToo) = cents
      BY <2>3, RoundedAmounts DEF WholeCents
    <2>5. QED
      BY <1>2, <2>1, <2>2, <2>3, <2>4 DEF WholeCents
  <1>4. CASE way = "debit"
    <2>1. R!After(a, leg, up) = R!Round2(n - cents, up)
      BY <1>2, <1>4 DEF R!After, R!Signed, R!Leg, WholeCents
    <2>2. R!EntryEffect(leg, upToo) = -R!Round2(cents, upToo)
      BY <1>4 DEF R!EntryEffect, R!Signed, R!Leg
    <2>3. R!Round2(n - cents, up) \in WholeCents /\ R!Round2(cents, upToo) \in WholeCents
      BY RoundedAmounts DEF WholeCents
    <2>4. d = R!Round2(n - cents, up) - n + R!Round2(cents, upToo)
      BY <1>2, <2>1, <2>2, <2>3 DEF WholeCents
    <2>5. ~R!Finer(leg) => cents \in WholeCents
      BY <1>4 DEF R!Finer, R!Leg, R!Cent, WholeCents
    <2>6. QED
      BY <2>1, <2>2, <2>3, <2>4, <2>5, RoundedTwice DEF WholeCents
  <1>5. QED
    BY <1>3, <1>4

LEMMA SumOne ==
    ASSUME NEW f, NEW a, f[a] \in Int
    PROVE  SumFunctionOnSet(f, {a}) = f[a]
  <1>1. SumFunctionOnSet(f, {}) = 0 /\ IsFiniteSet({}) /\ {} \cup {a} = {a}
    BY SumEmpty, FS_EmptySet
  <1>2. SumFunctionOnSet(f, {} \cup {a}) = SumFunctionOnSet(f, {}) + f[a]
    BY <1>1, SumAdd
  <1>3. QED
    BY <1>1, <1>2

LEMMA SumTwo ==
    ASSUME NEW f, NEW a, NEW b, a # b, f[a] \in Int, f[b] \in Int
    PROVE  SumFunctionOnSet(f, {a, b}) = f[a] + f[b]
  <1>1. IsFiniteSet({a}) /\ b \notin {a} /\ {a} \cup {b} = {a, b}
    BY FS_Singleton
  <1>2. SumFunctionOnSet(f, {a} \cup {b}) = SumFunctionOnSet(f, {a}) + f[b]
    BY <1>1, SumAdd
  <1>3. QED
    BY <1>1, <1>2, SumOne

\* What a posting leaves: the books are still no further apart than its finer debits
\* allow, and the audits that had begun are torn.
Posted ==
    /\ balances' \in [Holders -> WholeCents] /\ entriesNet' \in Int
    /\ finer' \in Nat /\ Apart' <= 10 * finer' /\ -Apart' <= 10 * finer'
    /\ torn' = torn \cup R!Reading

\* The posting of a deposit or a withdrawal.
LEMMA PostOne ==
    ASSUME AuditInv, NEW a \in Holders, NEW way \in {"credit", "debit"}, NEW cents \in Nat,
           way = "credit" => cents \in WholeCents,
           R!Post([h \in {a} |-> R!Leg(way, cents)])
    PROVE  Posted
  <1>1. PICK leg : leg = R!Leg(way, cents)
    OBVIOUS
  <1>2. PICK legs : legs = [h \in {a} |-> leg]
    OBVIOUS
  <1>3. R!Post(legs) /\ DOMAIN legs = {a} /\ legs[a] = leg
    BY <1>1, <1>2
  <1>4. PICK up \in BOOLEAN, upToo \in BOOLEAN :
          /\ balances' = [h \in Holders |-> IF h \in {a} THEN R!After(h, legs[h], up) ELSE balances[h]]
          /\ entriesNet' = entriesNet + R!SumFunctionOnSet([h \in {a} |-> R!EntryEffect(legs[h], upToo)], {a})
          /\ torn' = torn \cup R!Reading
          /\ finer' = finer + R!Cardinality({h \in {a} : R!Finer(legs[h])})
    BY <1>3 DEF R!Post
  <1>5. PICK x, e : x = R!After(a, leg, up) /\ e = R!EntryEffect(leg, upToo)
    OBVIOUS
  <1>6. balances \in [Holders -> WholeCents] /\ entriesNet \in Int /\ finer \in Nat
    BY DEF AuditInv
  <1>7. /\ x \in WholeCents /\ e \in Int /\ x - balances[a] - e <= 10 /\ -10 <= x - balances[a] - e
        /\ ~R!Finer(leg) => x - balances[a] - e = 0
    BY <1>1, <1>5, <1>6, LegApart
  <1>8. /\ balances' \in [Holders -> WholeCents] /\ balances'[a] = x
        /\ \A h \in Holders \ {a} : balances'[h] = balances[h]
    BY <1>3, <1>4, <1>5, <1>6, <1>7
  <1>9. Supply' = Supply - balances[a] + x
    <2>1. IsFiniteSet(Holders) /\ x \in Int /\ \A h \in Holders : balances[h] \in Int
      BY <1>6, <1>7, AuditAssumption DEF WholeCents
    <2>2. QED
      BY <1>8, <2>1, SumUpdate DEF Supply
  <1>10. entriesNet' = entriesNet + e
    <2>1. PICK f : f = [h \in {a} |-> R!EntryEffect(legs[h], upToo)]
      OBVIOUS
    <2>2. f[a] = e
      BY <1>3, <1>5, <2>1
    <2>3. QED
      BY <1>4, <1>7, <2>1, <2>2, AuditSum, SumOne
  <1>11. /\ finer' \in Nat /\ finer' >= finer
         /\ R!Finer(leg) => finer' = finer + 1
    <2>1. CASE R!Finer(leg)
      <3>1. {h \in {a} : R!Finer(legs[h])} = {a}
        BY <1>3, <2>1
      <3>2. QED
        BY <1>4, <1>6, <3>1, FS_Singleton, AuditCount
    <2>2. CASE ~R!Finer(leg)
      <3>1. {h \in {a} : R!Finer(legs[h])} = {}
        BY <1>3, <2>2
      <3>2. QED
        BY <1>4, <1>6, <2>2, <3>1, FS_EmptySet, AuditCount
    <2>3. QED
      BY <2>1, <2>2
  <1>12. Supply \in Int /\ balances[a] \in Int /\ x \in Int
    BY <1>6, <1>7, SupplyType DEF Supply, WholeCents
  <1>13. Apart' = Apart + (x - balances[a] - e) /\ Apart \in Int
    BY <1>6, <1>7, <1>9, <1>10, <1>12 DEF Apart
  <1>14. Apart' <= 10 * finer' /\ -Apart' <= 10 * finer'
    <2>1. PICK d : d = x - balances[a] - e
      OBVIOUS
    <2>2. d \in Int /\ d <= 10 /\ -10 <= d /\ (~R!Finer(leg) => d = 0) /\ Apart' = Apart + d
      BY <1>7, <1>12, <1>13, <2>1
    <2>3. Apart <= 10 * finer /\ -Apart <= 10 * finer
      BY DEF AuditInv
    <2>4. QED
      BY <1>6, <1>11, <1>13, <2>2, <2>3
  <1>15. QED
    BY <1>4, <1>6, <1>7, <1>8, <1>10, <1>11, <1>14 DEF Posted

\* The posting of a transfer: what leaves is as it came, what arrives is rounded.
LEMMA PostTwo ==
    ASSUME AuditInv, NEW a \in Holders, NEW b \in Holders, a # b,
           NEW cents \in Nat, NEW whole \in Nat, whole \in WholeCents,
           R!Post([h \in {a, b} |-> IF h = a THEN R!Leg("debit", cents)
                                    ELSE R!Leg("credit", whole)])
    PROVE  Posted
  <1>1. PICK leg, to : leg = R!Leg("debit", cents) /\ to = R!Leg("credit", whole)
    OBVIOUS
  <1>2. PICK legs : legs = [h \in {a, b} |-> IF h = a THEN leg ELSE to]
    OBVIOUS
  <1>3. R!Post(legs) /\ DOMAIN legs = {a, b} /\ legs[a] = leg /\ legs[b] = to
    BY <1>1, <1>2
  <1>4. PICK up \in BOOLEAN, upToo \in BOOLEAN :
          /\ balances' = [h \in Holders |-> IF h \in {a, b} THEN R!After(h, legs[h], up) ELSE balances[h]]
          /\ entriesNet' = entriesNet
                + R!SumFunctionOnSet([h \in {a, b} |-> R!EntryEffect(legs[h], upToo)], {a, b})
          /\ torn' = torn \cup R!Reading
          /\ finer' = finer + R!Cardinality({h \in {a, b} : R!Finer(legs[h])})
    BY <1>3 DEF R!Post
  <1>5. PICK x, e : x = R!After(a, leg, up) /\ e = R!EntryEffect(leg, upToo)
    OBVIOUS
  <1>6. PICK y, f : y = R!After(b, to, up) /\ f = R!EntryEffect(to, upToo)
    OBVIOUS
  <1>7. balances \in [Holders -> WholeCents] /\ entriesNet \in Int /\ finer \in Nat
    BY DEF AuditInv
  <1>8. /\ x \in WholeCents /\ e \in Int /\ x - balances[a] - e <= 10 /\ -10 <= x - balances[a] - e
        /\ ~R!Finer(leg) => x - balances[a] - e = 0
    BY <1>1, <1>5, <1>7, LegApart
  <1>9. ~R!Finer(to)
    BY <1>1 DEF R!Finer, R!Leg
  <1>10. y \in WholeCents /\ f \in Int /\ y - balances[b] - f = 0
    BY <1>1, <1>6, <1>7, <1>9, LegApart
  <1>11. /\ balances' \in [Holders -> WholeCents] /\ balances'[a] = x /\ balances'[b] = y
         /\ \A h \in Holders \ {a, b} : balances'[h] = balances[h]
    BY <1>3, <1>4, <1>5, <1>6, <1>7, <1>8, <1>10
  <1>12. Supply' = Supply - balances[a] + x - balances[b] + y
    <2>1. PICK g : g = [balances EXCEPT ![a] = x]
      OBVIOUS
    <2>2. /\ IsFiniteSet(Holders) /\ \A h \in Holders : balances[h] \in Int /\ g[h] \in Int
          /\ g[a] = x /\ x \in Int /\ y \in Int
          /\ \A h \in Holders \ {a} : g[h] = balances[h]
      BY <1>7, <1>8, <1>10, <2>1, AuditAssumption DEF WholeCents
    <2>3. SumFunctionOnSet(g, Holders) = Supply - balances[a] + x
      BY <2>2, SumUpdate DEF Supply
    <2>4. \A h \in Holders \ {b} : balances'[h] = g[h]
      BY <1>11, <2>2
    <2>5. Supply' = SumFunctionOnSet(g, Holders) - g[b] + y
      BY <1>11, <2>2, <2>4, SumUpdate DEF Supply
    <2>6. Supply \in Int /\ g[b] = balances[b]
      BY <1>7, <2>2, SupplyType DEF Supply
    <2>7. QED
      BY <2>2, <2>3, <2>5, <2>6
  <1>13. entriesNet' = entriesNet + e + f
    <2>1. PICK g : g = [h \in {a, b} |-> R!EntryEffect(legs[h], upToo)]
      OBVIOUS
    <2>2. g[a] = e /\ g[b] = f
      BY <1>3, <1>5, <1>6, <2>1
    <2>3. SumFunctionOnSet(g, {a, b}) = e + f
      BY <1>8, <1>10, <2>2, SumTwo
    <2>4. QED
      BY <1>4, <1>7, <1>8, <1>10, <2>1, <2>3, AuditSum
  <1>14. /\ finer' \in Nat /\ finer' >= finer
         /\ R!Finer(leg) => finer' = finer + 1
    <2>1. PICK z : z = {h \in {a, b} : R!Finer(legs[h])}
      OBVIOUS
    <2>2. finer' = finer + Cardinality(z)
      BY <1>4, <2>1, AuditCount, Zenon
    <2>3. CASE R!Finer(leg)
      <3>1. z = {a}
        BY <1>3, <1>9, <2>1, <2>3
      <3>2. Cardinality(z) = 1
        BY <3>1, FS_Singleton, Zenon
      <3>3. QED
        BY <1>7, <2>2, <3>2
    <2>4. CASE ~R!Finer(leg)
      <3>1. z = {}
        BY <1>3, <1>9, <2>1, <2>4
      <3>2. QED
        BY <1>7, <2>2, <2>4, <3>1, FS_EmptySet
    <2>5. QED
      BY <2>3, <2>4
  <1>15. Supply \in Int /\ balances[a] \in Int /\ balances[b] \in Int /\ x \in Int /\ y \in Int
    BY <1>7, <1>8, <1>10, SupplyType DEF Supply, WholeCents
  <1>16. Apart' = Apart + (x - balances[a] - e) /\ Apart \in Int
    BY <1>7, <1>8, <1>10, <1>12, <1>13, <1>15 DEF Apart
  <1>17. Apart' <= 10 * finer' /\ -Apart' <= 10 * finer'
    <2>1. PICK d : d = x - balances[a] - e
      OBVIOUS
    <2>2. d \in Int /\ d <= 10 /\ -10 <= d /\ (~R!Finer(leg) => d = 0) /\ Apart' = Apart + d
      BY <1>8, <1>15, <1>16, <2>1
    <2>3. Apart <= 10 * finer /\ -Apart <= 10 * finer
      BY DEF AuditInv
    <2>4. QED
      BY <1>7, <1>14, <1>16, <2>2, <2>3
  <1>18. QED
    BY <1>4, <1>7, <1>8, <1>10, <1>11, <1>13, <1>14, <1>17 DEF Posted

\* After a posting an audit is torn, or has not begun.
LEMMA PostedKeeps ==
    ASSUME AuditInv, Posted, UNCHANGED <<reserve, audit>>
    PROVE  AuditInv'
  <1>1. ASSUME NEW u \in Auditors
        PROVE  ReadOK(u)'
    <2>1. u \notin torn' => audit[u].read = {}
      BY DEF Posted, R!Reading, R!Unread
    <2>2. QED
      BY <2>1 DEF AuditInv, ReadOK
  <1>2. QED
    BY <1>1 DEF AuditInv, Posted

\* Amounts that are posted are natural numbers, the net ones in whole cents.
LEMMA PostKept ==
    ASSUME AuditInv, NEW q, NEW a \in Holders, NEW b \in Holders, NEW cents \in AuditAmounts,
           R!PostDeposit(q, a, cents) \/ R!PostWithdraw(q, a, cents) \/ R!PostTransfer(q, a, b, cents)
    PROVE  AuditInv'
  <1>1. cents \in Nat
    BY AuditAssumption
  <1>2. \A up \in BOOLEAN : R!Round2(cents, up) \in Nat /\ R!Round2(cents, up) \in WholeCents
    BY <1>1 DEF R!Round2, R!Cent, WholeCents
  <1>3. UNCHANGED <<reserve, audit>>
    BY DEF R!PostDeposit, R!PostWithdraw, R!PostTransfer
  <1>4. CASE R!PostDeposit(q, a, cents)
    <2>1. PICK up \in BOOLEAN : R!Post([h \in {a} |-> R!Leg("credit", R!Round2(cents, up))])
      BY <1>4 DEF R!PostDeposit
    <2>2. PICK whole \in Nat : whole = R!Round2(cents, up) /\ whole \in WholeCents
      BY <1>2
    <2>3. R!Post([h \in {a} |-> R!Leg("credit", whole)])
      BY <2>1, <2>2
    <2>4. Posted
      BY <2>2, <2>3, PostOne, Zenon
    <2>5. QED
      BY <1>3, <2>4, PostedKeeps
  <1>5. CASE R!PostWithdraw(q, a, cents)
    <2>1. R!Post([h \in {a} |-> R!Leg("debit", cents)])
      BY <1>5 DEF R!PostWithdraw
    <2>2. Posted
      BY <1>1, <2>1, PostOne, Zenon
    <2>3. QED
      BY <1>3, <2>2, PostedKeeps
  <1>6. CASE R!PostTransfer(q, a, b, cents)
    <2>1. PICK up \in BOOLEAN :
            R!Post([h \in {a, b} |-> IF h = a THEN R!Leg("debit", cents)
                                     ELSE R!Leg("credit", R!Round2(cents, up))])
      BY <1>6 DEF R!PostTransfer
    <2>2. PICK whole \in Nat : whole = R!Round2(cents, up) /\ whole \in WholeCents
      BY <1>2
    <2>3. R!Post([h \in {a, b} |-> IF h = a THEN R!Leg("debit", cents) ELSE R!Leg("credit", whole)])
      BY <2>1, <2>2
    <2>4. a # b
      BY <1>6 DEF R!PostTransfer
    <2>5. Posted
      BY <1>1, <2>2, <2>3, <2>4, PostTwo, Zenon
    <2>6. QED
      BY <1>3, <2>5, PostedKeeps
  <1>7. QED
    BY <1>4, <1>5, <1>6

\* A read of an audit takes what there is.
LEMMA ReadKept ==
    ASSUME AuditInv, NEW u \in Auditors, NEW collection \in {"balances", "entries", "reserves"},
           R!ReadCollection(u, collection)
    PROVE  AuditInv'
  <1>1. PICK w : w = [audit[u] EXCEPT
                        !.read = audit[u].read \cup {collection},
                        !.balances = IF collection = "balances" THEN R!LedgerSupply ELSE audit[u].balances,
                        !.entries = IF collection = "entries" THEN entriesNet ELSE audit[u].entries,
                        !.reserve = IF collection = "reserves" THEN reserve ELSE audit[u].reserve]
    OBVIOUS
  <1>2. audit' = [audit EXCEPT ![u] = w] /\ UNCHANGED <<balances, entriesNet, reserve, torn, finer>>
    BY <1>1 DEF R!ReadCollection
  <1>3. Supply \in Int /\ R!LedgerSupply = Supply
    BY SupplyIs, SupplyType DEF AuditInv, Supply
  <1>4. /\ audit' = [v \in Auditors |-> audit'[v]] /\ audit'[u] = w
        /\ \A v \in Auditors \ {u} : audit'[v] = audit[v]
    BY <1>2 DEF AuditInv
  <1>5. Supply' = Supply /\ Apart' = Apart
    BY <1>2 DEF Supply, Apart
  <1>6. ReadOK(u)'
    <2>1. audit[u] \in Readings /\ entriesNet \in Int /\ reserve \in Int
      BY DEF AuditInv, ReadOK
    <2>2. /\ w \in Readings /\ w.read = audit[u].read \cup {collection}
          /\ w.balances = IF collection = "balances" THEN Supply ELSE audit[u].balances
          /\ w.entries = IF collection = "entries" THEN entriesNet ELSE audit[u].entries
      BY <1>1, <1>3, <2>1 DEF Readings
    <2>3. u \notin torn =>
            /\ "balances" \in w.read => w.balances = Supply
            /\ "entries" \in w.read => w.entries = entriesNet
      BY <2>2 DEF AuditInv, ReadOK
    <2>4. QED
      BY <1>2, <1>4, <1>5, <2>2, <2>3 DEF ReadOK
  <1>7. \A v \in Auditors : ReadOK(v)'
    BY <1>2, <1>4, <1>5, <1>6 DEF AuditInv, ReadOK
  <1>8. QED
    BY <1>2, <1>4, <1>5, <1>7 DEF AuditInv

LEMMA AuditInit == R!Init => AuditInv
  <1> SUFFICES ASSUME R!Init
               PROVE  AuditInv
    OBVIOUS
  <1>1. /\ balances = [a \in Holders |-> AuditOpening] /\ AuditOpening \in WholeCents
        /\ AuditOpening \in Int /\ IsFiniteSet(Holders)
    BY AuditAssumption DEF R!Init, WholeCents
  <1>2. Cardinality(Holders) \in Nat
    BY <1>1, FS_CardinalityType
  <1>3. Supply = AuditOpening * Cardinality(Holders)
    <2>1. PICK f : f = [a \in Holders |-> -AuditOpening]
      OBVIOUS
    <2>2. \A a \in Holders : f[a] \in Int /\ f[a] <= -AuditOpening /\ f[a] = (-1) * balances[a]
      BY <1>1, <2>1
    <2>3. \A a \in Holders : balances[a] \in Int /\ balances[a] <= AuditOpening
      BY <1>1
    <2>4. Supply \in Int /\ Supply <= AuditOpening * Cardinality(Holders)
      BY <1>1, <2>3, SumInt, SumBound DEF Supply
    <2>5. SumFunctionOnSet(f, Holders) = (-1) * Supply
      BY <1>1, <2>2, <2>3, SumTimes DEF Supply
    <2>6. SumFunctionOnSet(f, Holders) <= (-AuditOpening) * Cardinality(Holders)
      BY <1>1, <2>2, SumBound
    <2>7. (-AuditOpening) * Cardinality(Holders) = -(AuditOpening * Cardinality(Holders))
      BY <1>1, <1>2
    <2>8. AuditOpening * Cardinality(Holders) \in Int
      BY <1>1, <1>2
    <2>9. QED
      BY <2>4, <2>5, <2>6, <2>7, <2>8
  <1>4. entriesNet = AuditOpening * Cardinality(Holders) /\ finer = 0 /\ reserve = -1
    BY AuditCount DEF R!Init, R!NoReserve
  <1>5. entriesNet \in Int /\ Apart = 0
    BY <1>1, <1>2, <1>3, <1>4 DEF Apart
  <1>6. \A u \in Auditors : ReadOK(u)
    BY DEF R!Init, R!Unread, R!NoReserve, ReadOK, Readings
  <1>7. audit = [u \in Auditors |-> audit[u]] /\ balances \in [Holders -> WholeCents]
    BY <1>1 DEF R!Init
  <1>8. QED
    BY <1>4, <1>5, <1>6, <1>7 DEF AuditInv

LEMMA AuditNext ==
    ASSUME AuditInv, [R!Next]_(R!reconVars)
    PROVE  AuditInv'
  <1>1. ASSUME UNCHANGED <<balances, entriesNet, reserve, audit, torn, finer>>
        PROVE  AuditInv'
    BY <1>1 DEF AuditInv, ReadOK, Apart, Supply
  <1>2. ASSUME NEW q, R!CheckFreeze(q)
        PROVE  AuditInv'
    BY <1>1, <1>2 DEF R!CheckFreeze
  <1>3. CASE R!SetFreeze
    BY <1>1, <1>3 DEF R!SetFreeze
  <1>4. CASE R!SetReserves
    <2>1. UNCHANGED <<balances, entriesNet, audit, torn, finer>>
      BY <1>4 DEF R!SetReserves
    <2>2. Supply \in Int /\ R!LedgerSupply = Supply
      BY SupplyIs, SupplyType DEF AuditInv, Supply
    <2>3. reserve' \in Int
      BY <1>4, <2>2 DEF R!SetReserves, R!Cent
    <2>4. QED
      BY <2>1, <2>3 DEF AuditInv, ReadOK, Apart, Supply
  <1>5. ASSUME NEW u \in Auditors, R!Judge(u)
        PROVE  AuditInv'
    <2>1. /\ audit' = [audit EXCEPT ![u] = R!Unread] /\ torn' = torn \ {u}
          /\ UNCHANGED <<balances, entriesNet, reserve, finer>>
      BY <1>5 DEF R!Judge
    <2>2. /\ audit' = [v \in Auditors |-> audit'[v]] /\ audit'[u] = R!Unread
          /\ \A v \in Auditors \ {u} : audit'[v] = audit[v]
      BY <2>1 DEF AuditInv
    <2>3. Supply' = Supply /\ Apart' = Apart
      BY <2>1 DEF Supply, Apart
    <2>4. ReadOK(u)'
      BY <2>2 DEF ReadOK, Readings, R!Unread, R!NoReserve
    <2>5. \A v \in Auditors : ReadOK(v)'
      BY <2>1, <2>2, <2>3, <2>4 DEF AuditInv, ReadOK
    <2>6. QED
      BY <2>1, <2>2, <2>3, <2>5 DEF AuditInv
  <1>6. CASE UNCHANGED R!reconVars
    BY <1>1, <1>6 DEF R!reconVars
  <1>7. CASE R!Next
    BY <1>2, <1>3, <1>4, <1>5, <1>7, PostKept, ReadKept DEF R!Next
  <1>8. QED
    BY <1>6, <1>7

\* An audit freezes the system only for a reason, for any holders, any amounts and any
\* number of postings and audits: what it compares is a cent apart for each debit finer
\* than a cent, at most, if no posting fell between its reads.
THEOREM FreezesAreExplained == R!Spec => AlarmsExplained
  <1>1. ASSUME AuditInv, NEW u \in Auditors, R!Judge(u), ~R!Balanced(u)
        PROVE  u \in torn \/ finer >= 2 \/ R!Distance(R!ReserveDrift(u)) > R!TOLERANCE
    <2>1. SUFFICES ASSUME u \notin torn, ~(finer >= 2)
                   PROVE  R!Distance(R!ReserveDrift(u)) > R!TOLERANCE
      OBVIOUS
    <2>2. finer \in Nat /\ finer <= 1
      BY <1>1, <2>1 DEF AuditInv
    <2>3. audit[u].balances = Supply /\ audit[u].entries = entriesNet
      BY <1>1, <2>1 DEF AuditInv, ReadOK, R!Judge, R!AllRead
    <2>4. R!Drift(u) = Apart
      BY <2>3 DEF R!Drift, Apart
    <2>5. Apart \in Int
      BY <1>1, SupplyType DEF AuditInv, Apart, Supply
    <2>6. Apart <= 10 /\ -Apart <= 10
      BY <1>1, <2>2, <2>5 DEF AuditInv
    <2>7. R!Distance(R!Drift(u)) <= R!TOLERANCE
      BY <2>4, <2>5, <2>6 DEF R!Distance, R!TOLERANCE, R!Cent
    <2>8. R!ReserveDrift(u) \in Int
      BY <1>1 DEF AuditInv, ReadOK, Readings, R!ReserveDrift
    <2>9. QED
      BY <1>1, <2>7, <2>8 DEF R!Balanced, R!Distance, R!TOLERANCE, R!Cent
  <1>2. AuditInv /\ [R!Next]_(R!reconVars) =>
          [\A u \in Auditors :
              R!Judge(u) /\ ~R!Balanced(u) =>
                  u \in torn \/ finer >= 2 \/ R!Distance(R!ReserveDrift(u)) > R!TOLERANCE]_(R!reconVars)
    BY <1>1
  <1>3. QED
    BY <1>2, AuditInit, AuditNext, PTL DEF R!Spec, AlarmsExplained, R!AlarmsExplained

=============================================================================
