----------------------------- MODULE AuthService -----------------------------
(***************************************************************************)
(* The auth service (services/auth-service) and its KYC service, for one   *)
(* telephone number: the user's row, his sessions and one-time codes.      *)
(*                                                                         *)
(* Every operation reads rows, works on what it read and saves it in later *)
(* calls, each of them a step.  save() of TypeORM writes all the columns   *)
(* of the entity as they were read, except those that are undefined: the   *)
(* column of a lock "removed" by undefined keeps its value.                *)
(*                                                                         *)
(* A PIN is the number of times it was changed.  Time passes for one lock, *)
(* one code or one session at a time.  What the access token says, and     *)
(* requests that change nothing, are left out.                             *)
(***************************************************************************)
EXTENDS Integers, Sequences, SequencesExt

CONSTANTS
    Handlers,
    MAX_PIN_ATTEMPTS,
    MaxCalls,    \* bound: requests that are begun
    MaxTicks,    \* bound: locks, codes and sessions that run out
    MaxAborts    \* bound: requests that end between two of their calls

VARIABLES
    user,       \* the row of table users
    sessions,   \* table sessions, in order of creation
    otps,       \* table otp_codes, in order of creation
    handler,    \* what each request does next and what it has read
    calls, ticks, aborts,
    guesses,    \* history: wrong PINs answered since the last right or new one
    unlocks,    \* history: locks that ran out since then
    overlaps    \* history: writes over a row that was no longer what was read

vars == <<user, sessions, otps, handler, calls, ticks, aborts,
          guesses, unlocks, overlaps>>

Idle == [op |-> "idle"]

NobodyYet == [known |-> FALSE, verified |-> FALSE, status |-> "pending_kyc", pin |-> 0,
              attempts |-> 0, locked |-> FALSE, level |-> 0, kyc |-> "pending", devices |-> <<>>]

Member == [NobodyYet EXCEPT !.known = TRUE, !.verified = TRUE, !.status = "active"]

\* The calls each operation makes, one after the other.
Plan ==
    [register     |-> <<"saveUser", "voidOtps", "saveOtp">>,
     resendOTP    |-> <<"voidOtps", "saveOtp">>,
     requestReset |-> <<"voidOtps", "saveOtp">>,
     verifyPhone  |-> <<"findOtp", "useOtp", "saveUser", "saveSession">>,
     loginRight   |-> <<"saveUser", "saveSession">>,
     loginWrong   |-> <<"saveUser">>,
     changePIN    |-> <<"saveUser", "revoke">>,
     confirmReset |-> <<"findOtp", "useOtp", "saveUser", "revoke">>,
     enable2FA    |-> <<"saveUser">>, verify2FA |-> <<"saveUser">>, disable2FA |-> <<"saveUser">>,
     initiateKYC  |-> <<"saveUser">>, kycWebhook |-> <<"saveUser">>,
     refresh      |-> <<"rotate">>,
     revokeAll    |-> <<"saveSessions">>]

Operations == DOMAIN Plan

\* sendOTP(type) and validateOTP(type).
OtpType(op) == IF op \in {"requestReset", "confirmReset"} THEN "pin_reset" ELSE "verification"

Init ==
    /\ user \in {NobodyYet, Member}
    /\ sessions = <<>> /\ otps = <<>>
    /\ handler = [h \in Handlers |-> Idle]
    /\ calls = 0 /\ ticks = 0 /\ aborts = 0
    /\ guesses = 0 /\ unlocks = 0 /\ overlaps = 0

-----------------------------------------------------------------------------
(* The guards of the operations, on the row they read first.               *)

\* An access token is a promise of 15 minutes that no table is asked about.
HasToken == sessions # <<>>

\* Mutant: the lock is not looked at.
MayTryPINLocked == user.known /\ user.verified

\* login, before the PIN is compared.
MayTryPIN == user.known /\ user.verified /\ ~user.locked

MayBegin(op) ==
    CASE op = "register" -> ~user.known
      [] op \in {"requestReset", "verifyPhone", "confirmReset"} -> user.known
      [] op = "resendOTP" -> TRUE
      [] op \in {"loginRight", "loginWrong"} -> MayTryPIN
      [] op \in {"changePIN", "enable2FA", "revokeAll"} -> HasToken
      [] op = "verify2FA"  -> HasToken /\ Contains(user.devices, "2fa_pending")
      [] op = "disable2FA" -> HasToken /\ Contains(user.devices, "2fa_totp")
      [] op = "initiateKYC" -> user.known /\ user.level < 2
      [] op = "kycWebhook"  -> \/ user.kyc # "pending"
                               \/ \E h \in Handlers : handler[h].op = "initiateKYC"
      [] OTHER -> FALSE

\* findOne of the user, and the first checks.
Begin(h, op) ==
    /\ handler[h] = Idle /\ calls < MaxCalls
    /\ MayBegin(op)
    /\ calls' = calls + 1
    /\ handler' = [handler EXCEPT ![h] = [op |-> op, next |-> 1, user |-> user,
                       read |-> IF op = "revokeAll" THEN sessions ELSE <<>>, row |-> 0]]
    /\ UNCHANGED <<user, sessions, otps, ticks, aborts, guesses, unlocks, overlaps>>

\* refreshToken finds the session of a token that is valid; the user's row
\* plays no part in what it saves.
BeginRefresh(h, s) ==
    /\ handler[h] = Idle /\ calls < MaxCalls
    /\ ~sessions[s].revoked /\ ~sessions[s].expired
    /\ calls' = calls + 1
    /\ handler' = [handler EXCEPT ![h] = [op |-> "refresh", next |-> 1, user |-> user,
                                          read |-> sessions, row |-> s]]
    /\ UNCHANGED <<user, sessions, otps, ticks, aborts, guesses, unlocks, overlaps>>

-----------------------------------------------------------------------------
(* The calls.                                                              *)

At(h, call) == handler[h] # Idle /\ Plan[handler[h].op][handler[h].next] = call

\* The request goes on to its next call, or answers.
Onward(h, with) ==
    handler' = [handler EXCEPT ![h] =
        IF with.next = Len(Plan[with.op]) THEN Idle ELSE [with EXCEPT !.next = @ + 1]]

LoginRight(u)   == [u EXCEPT !.attempts = 0]
\* handleFailedPINAttempt
LoginWrong(u)   == IF u.attempts + 1 >= MAX_PIN_ATTEMPTS
                   THEN [u EXCEPT !.attempts = 0, !.locked = TRUE]
                   ELSE [u EXCEPT !.attempts = @ + 1]
VerifyPhone(u)  == [u EXCEPT !.verified = TRUE, !.status = "active"]
ChangePIN(u)    == [u EXCEPT !.pin = @ + 1, !.attempts = 0]
ConfirmReset(u) == [u EXCEPT !.pin = @ + 1, !.attempts = 0]
Register(u)     == [NobodyYet EXCEPT !.known = TRUE]
Enable2FA(u)    == [u EXCEPT !.devices = Append(@, "2fa_pending")]
Verify2FA(u)    == [u EXCEPT !.devices = [i \in DOMAIN @ |-> "2fa_totp"]]
Disable2FA(u)   == [u EXCEPT !.devices = SelectSeq(@, LAMBDA d : d # "2fa_totp")]
InitiateKYC(u)  == [u EXCEPT !.kyc = "in_review"]

\* What the four kinds of answer of the KYC provider make of a row.
KycWebhook(u) ==
    {[u EXCEPT !.kyc = "expired"], [u EXCEPT !.kyc = "rejected"], u}
      \cup {[u EXCEPT !.kyc = "approved", !.level = level] : level \in {1, 2}}

\* The rows an operation may save.
Written(op, u) ==
    CASE op = "kycWebhook"   -> KycWebhook(u)
      [] op = "loginRight"   -> {LoginRight(u)}
      [] op = "loginWrong"   -> {LoginWrong(u)}
      [] op = "verifyPhone"  -> {VerifyPhone(u)}
      [] op = "changePIN"    -> {ChangePIN(u)}
      [] op = "confirmReset" -> {ConfirmReset(u)}
      [] op = "register"     -> {Register(u)}
      [] op = "enable2FA"    -> {Enable2FA(u)}
      [] op = "verify2FA"    -> {Verify2FA(u)}
      [] op = "disable2FA"   -> {Disable2FA(u)}
      [] op = "initiateKYC"  -> {InitiateKYC(u)}

\* Operations that set the attempts to zero, and pinLockedUntil to undefined,
\* which save() leaves alone.
Afresh == {"loginRight", "changePIN", "confirmReset"}

\* A second row for one telephone number is refused by its index.
SaveUser(h) ==
    LET me == handler[h] IN
    /\ At(h, "saveUser")
    /\ me.op = "register" => ~user.known
    /\ \E u \in Written(me.op, me.user) :
          user' = [u EXCEPT !.locked = IF me.op \in Afresh THEN user.locked ELSE @]
    /\ overlaps' = IF user # me.user THEN overlaps + 1 ELSE overlaps
    /\ guesses' = CASE me.op \in Afresh -> 0
                    [] me.op = "loginWrong" -> guesses + 1
                    [] OTHER -> guesses
    /\ unlocks' = IF me.op \in Afresh THEN 0 ELSE unlocks
    /\ Onward(h, [me EXCEPT !.user = user'])
    /\ UNCHANGED <<sessions, otps, calls, ticks, aborts>>

\* sendOTP makes the earlier codes of the type void ...
VoidOtps(h) ==
    /\ At(h, "voidOtps")
    /\ otps' = [i \in DOMAIN otps |->
                  IF otps[i].type = OtpType(handler[h].op) THEN [otps[i] EXCEPT !.used = TRUE]
                  ELSE otps[i]]
    /\ Onward(h, handler[h])
    /\ UNCHANGED <<user, sessions, calls, ticks, aborts, guesses, unlocks, overlaps>>

\* ... and stores a new one.
SaveOtp(h) ==
    /\ At(h, "saveOtp")
    /\ otps' = Append(otps, [type |-> OtpType(handler[h].op), used |-> FALSE, expired |-> FALSE])
    /\ Onward(h, handler[h])
    /\ UNCHANGED <<user, sessions, calls, ticks, aborts, guesses, unlocks, overlaps>>

Unused(type) == {i \in DOMAIN otps : otps[i].type = type /\ ~otps[i].used}

\* validateOTP takes the newest unused code, and the right one was given.
FindOtp(h) ==
    /\ At(h, "findOtp")
    /\ \E i \in Unused(OtpType(handler[h].op)) :
          /\ \A j \in Unused(OtpType(handler[h].op)) : j <= i
          /\ ~otps[i].expired
          /\ Onward(h, [handler[h] EXCEPT !.row = i])
    /\ UNCHANGED <<user, sessions, otps, calls, ticks, aborts, guesses, unlocks, overlaps>>

\* A code that is wrong, expired or void; or a second row for one number.
Reject(h) ==
    /\ \/ At(h, "findOtp")
       \/ At(h, "saveUser") /\ handler[h].op = "register" /\ user.known
    /\ handler' = [handler EXCEPT ![h] = Idle]
    /\ UNCHANGED <<user, sessions, otps, calls, ticks, aborts, guesses, unlocks, overlaps>>

UseOtp(h) ==
    /\ At(h, "useOtp")
    /\ LET i == handler[h].row IN
          /\ overlaps' = IF otps[i].used THEN overlaps + 1 ELSE overlaps
          /\ otps' = [otps EXCEPT ![i].used = TRUE]
    /\ Onward(h, handler[h])
    /\ UNCHANGED <<user, sessions, calls, ticks, aborts, guesses, unlocks>>

\* issueTokens; the session is the one of the PIN that was compared.
SaveSession(h) ==
    /\ At(h, "saveSession")
    /\ sessions' = Append(sessions, [token |-> 0, revoked |-> FALSE, expired |-> FALSE,
                                     pin |-> handler[h].user.pin])
    /\ overlaps' = IF user.pin # handler[h].user.pin THEN overlaps + 1 ELSE overlaps
    /\ Onward(h, handler[h])
    /\ UNCHANGED <<user, otps, calls, ticks, aborts, guesses, unlocks>>

\* The session is saved as it was read, with another token and seven more days.
Rotate(h) ==
    /\ At(h, "rotate")
    /\ LET s == handler[h].row    read == handler[h].read IN
          /\ sessions' = [sessions EXCEPT ![s] =
                            [read[s] EXCEPT !.token = @ + 1, !.expired = FALSE]]
          /\ overlaps' = IF sessions[s] # read[s] THEN overlaps + 1 ELSE overlaps
    /\ Onward(h, handler[h])
    /\ UNCHANGED <<user, otps, calls, ticks, aborts, guesses, unlocks>>

\* Mutant: the sessions survive the new PIN.
RevokeNone(h) ==
    /\ At(h, "revoke")
    /\ Onward(h, handler[h])
    /\ UNCHANGED <<user, sessions, otps, calls, ticks, aborts, guesses, unlocks, overlaps>>

\* The last call of changePIN and confirmPINReset: one UPDATE of all sessions.
Revoke(h) ==
    /\ At(h, "revoke")
    /\ sessions' = [s \in DOMAIN sessions |-> [sessions[s] EXCEPT !.revoked = TRUE]]
    /\ Onward(h, handler[h])
    /\ UNCHANGED <<user, otps, calls, ticks, aborts, guesses, unlocks, overlaps>>

\* revokeAllSessions saves the sessions that were valid, except its own.
SaveSessions(h) ==
    /\ At(h, "saveSessions")
    /\ LET read == handler[h].read IN
       \E own \in DOMAIN read :
          LET others == {s \in DOMAIN read : s # own /\ ~read[s].revoked} IN
          /\ sessions' = [s \in DOMAIN sessions |->
                 IF s \in others THEN [read[s] EXCEPT !.revoked = TRUE] ELSE sessions[s]]
          /\ overlaps' = IF \E s \in others : sessions[s] # read[s] THEN overlaps + 1 ELSE overlaps
    /\ Onward(h, handler[h])
    /\ UNCHANGED <<user, otps, calls, ticks, aborts, guesses, unlocks>>

\* One UPDATE of the session the access token names.
Logout(s) ==
    /\ calls < MaxCalls
    /\ calls' = calls + 1
    /\ sessions' = [sessions EXCEPT ![s].revoked = TRUE]
    /\ UNCHANGED <<user, otps, handler, ticks, aborts, guesses, unlocks, overlaps>>

-----------------------------------------------------------------------------
\* A call throws, or a check made after the row was read: nothing more is done.
Abort(h) ==
    /\ handler[h] # Idle /\ aborts < MaxAborts
    /\ aborts' = aborts + 1
    /\ handler' = [handler EXCEPT ![h] = Idle]
    /\ UNCHANGED <<user, sessions, otps, calls, ticks, guesses, unlocks, overlaps>>

Tick ==
    /\ ticks < MaxTicks
    /\ ticks' = ticks + 1
    /\ \/ /\ user.locked
          /\ user' = [user EXCEPT !.locked = FALSE]
          /\ unlocks' = unlocks + 1
          /\ UNCHANGED <<sessions, otps>>
       \/ \E i \in DOMAIN otps :
             /\ otps' = [otps EXCEPT ![i].expired = TRUE]
             /\ UNCHANGED <<user, sessions, unlocks>>
       \/ \E s \in DOMAIN sessions :
             /\ sessions' = [sessions EXCEPT ![s].expired = TRUE]
             /\ UNCHANGED <<user, otps, unlocks>>
    /\ UNCHANGED <<handler, calls, aborts, guesses, overlaps>>

Next ==
    \/ \E h \in Handlers :
          \/ \E op \in Operations : Begin(h, op)
          \/ \E s \in DOMAIN sessions : BeginRefresh(h, s)
          \/ SaveUser(h) \/ VoidOtps(h) \/ SaveOtp(h) \/ FindOtp(h) \/ Reject(h) \/ UseOtp(h)
          \/ SaveSession(h) \/ Rotate(h) \/ Revoke(h) \/ SaveSessions(h) \/ Abort(h)
    \/ \E s \in DOMAIN sessions : Logout(s)
    \/ Tick

Spec == Init /\ [][Next]_vars

-----------------------------------------------------------------------------
(* What the auth service keeps true of guesses, codes and sessions.        *)

\* The answers to wrong PINs are bounded: MAX_PIN_ATTEMPTS of them per lock,
\* and as many more for each request that wrote the user's row over a change
\* it had not read, for that sets back the count or lifts the lock
\* (auth.service.ts lines 130-173 and 502-510).
GuessesBounded == guesses <= MAX_PIN_ATTEMPTS * (1 + unlocks + overlaps)

Revoking == {h \in Handlers : At(h, "revoke")}

\* Once a PIN was changed or reset no session remains that was opened with an
\* older one, except while the request is between its last two calls, after it
\* died there, and after a request that wrote back a session or a row it had
\* read before (lines 351-373 and 384-400).
NoSessionOfOldPIN ==
    overlaps = 0 /\ aborts = 0 /\ Revoking = {} =>
        \A s \in DOMAIN sessions : sessions[s].revoked \/ sessions[s].pin = user.pin

=============================================================================
