------------------------------ MODULE Sessions -------------------------------
(***************************************************************************)
(* Signing in to one account, and what ends its sessions                   *)
(* (core/src/identity/usecases/authenticate.ts, credentials.ts and         *)
(* session-lifecycle.ts over db/src/repositories/identity.repository.ts).  *)
(*                                                                         *)
(* A request reads, decides and writes in statements of its own; only the  *)
(* predicates inside an UPDATE are decided with it.  A login is the id of  *)
(* the session it opens, a registration of that, of its password and of    *)
(* the token it mails out, a request for a mail of its token, a reset of   *)
(* the password it sets.  Rate limits, sliding expiry and the sending of   *)
(* mail are left out: a token is as good as mailed once it is stored.      *)
(***************************************************************************)
EXTENDS Integers, FiniteSets

CONSTANTS
  Requests,   \* requests about the account, each made once
  Devices,    \* sessions that were open to begin with
  None,
  Kinds,      \* what they may be
  Threshold   \* consecutive failures that lock the account

AllKinds == {"register", "verify", "resend", "login", "requestReset", "reset", "suspend"}

ASSUME SessionsAssumption ==
  /\ IsFiniteSet(Requests) /\ IsFiniteSet(Devices)
  /\ Requests \cap Devices = {}
  /\ Kinds \subseteq AllKinds
  /\ None \notin Requests \cup Devices \cup AllKinds
  /\ Threshold \in Nat \ {0}

VARIABLES
  user,     \* the row of the account
  session,  \* the sessions table; `proofs` stands for twoFactorVerifiedAt
  token,    \* password_resets, and email_verifications
  req       \* the requests

accountVars == <<user, session, token, req>>

(* -------------------------------- the state ---------------------------- *)

SessionIds == Devices \cup Requests

\* The password is named by the reset or registration that set it; None is an older one.
Passwords == Requests \cup {None}

\* There is no row while the address is unknown.
User == [address : {"unknown", "unverified", "verified"},
         password : Passwords, failed : Nat, locked : BOOLEAN,
         status : {"active", "suspended", "pending_deletion"}]

Request == [kind : Kinds \cup {None},
            pc : {"new", "insert", "failure", "success", "cancel", "issue",
                  "invalidate", "create", "consume", "mark", "hash", "revoke", "done"},
            token : Requests \cup {None}, failed : Nat, deleting : BOOLEAN, ok : BOOLEAN]

NewRequest == [kind |-> None, pc |-> "new", token |-> None, failed |-> 0, deleting |-> FALSE, ok |-> FALSE]

NoSession == [state |-> "none", proofs |-> {}]

AccountInit ==
  /\ user \in [address : {"unknown", "unverified", "verified"}, password : {None},
               failed : {0}, locked : {FALSE}, status : {"active", "pending_deletion"}]
  /\ user.address = "unknown" => user.status = "active"
  /\ token = [q \in Requests |-> "none"]
  /\ req = [q \in Requests |-> NewRequest]

\* The next request to be made is q, and it may be of this kind.
NextRequest(q, kind) ==
  /\ kind \in Kinds
  /\ req[q].pc = "new" /\ q = CHOOSE new \in Requests : req[new].pc = "new"

Go(q, pc) == req' = [req EXCEPT ![q].pc = pc]

Done(q) == req' = [req EXCEPT ![q].pc = "done", ![q].ok = TRUE]

(* --------------------------------- sessions ---------------------------- *)

\* UPDATE sessions SET revokedAt WHERE revokedAt IS NULL AND ..., which ends these.
Revoke(ids) ==
  session' = [s \in SessionIds |-> IF s \in ids /\ session[s].state = "live"
                                   THEN [session[s] EXCEPT !.state = "revoked"] ELSE session[s]]

Live(s) == session[s].state = "live"

\* resolveSession lets this session through to an actor.
Resolves(s) == Live(s) /\ user.status # "suspended"

\* logout, and logoutAllSessions.
Logout(s) ==
  /\ Resolves(s)
  /\ Revoke({s}) \/ Revoke(SessionIds)
  /\ UNCHANGED <<user, token, req>>

\* A suspension ends the session on its next use.
SessionRefused(s) ==
  /\ Live(s) /\ user.status = "suspended"
  /\ Revoke({s})
  /\ UNCHANGED <<user, token, req>>

(* -------------------------------- registration ------------------------- *)

\* findByEmail: an address that is taken is answered like one that is free.
RegisterRead(q) ==
  /\ NextRequest(q, "register")
  /\ req' = [req EXCEPT ![q].kind = "register",
                        ![q].pc = IF user.address = "unknown" THEN "insert" ELSE "done",
                        ![q].ok = user.address # "unknown"]
  /\ UNCHANGED <<user, session, token>>

\* INSERT INTO users: the unique index on the address refuses the second of two, with an
\* exception that nobody catches.
InsertUser(q) ==
  /\ req[q].pc = "insert"
  /\ IF user.address = "unknown"
       THEN /\ user' = [address |-> "unverified", password |-> q, failed |-> 0,
                        locked |-> FALSE, status |-> "active"]
            /\ Go(q, "create")
       ELSE Go(q, "done") /\ UNCHANGED user
  /\ UNCHANGED <<session, token>>

(* ----------------------------------- login ----------------------------- *)

\* findByEmail, canAuthenticate and the verification of the hash that was read.
LoginRead(q, password) ==
  /\ NextRequest(q, "login")
  /\ user.address # "unknown" /\ ~user.locked /\ user.status # "suspended"
  /\ req' = [req EXCEPT ![q].kind = "login", ![q].failed = user.failed,
                        ![q].deleting = user.status = "pending_deletion",
                        ![q].pc = IF password = user.password THEN "success" ELSE "failure"]
  /\ UNCHANGED <<user, session, token>>

\* recordFailedLogin: the counter is incremented in the row, the lock decided
\* from the counter that was read.
RecordFailedLogin(q) ==
  /\ req[q].pc = "failure"
  /\ user' = [user EXCEPT !.failed = @ + 1, !.locked = req[q].failed + 1 >= Threshold]
  /\ Go(q, "done")
  /\ UNCHANGED <<session, token>>

RecordSuccessfulLogin(q) ==
  /\ req[q].pc = "success"
  /\ user' = [user EXCEPT !.failed = 0, !.locked = FALSE]
  /\ Go(q, IF req[q].deleting THEN "cancel" ELSE "issue")
  /\ UNCHANGED <<session, token>>

CancelDeletion(q) ==
  /\ req[q].pc = "cancel"
  /\ user' = [user EXCEPT !.status = "active"]
  /\ Go(q, "issue")
  /\ UNCHANGED <<session, token>>

IssueSession(q) ==
  /\ req[q].pc = "issue"
  /\ session' = [session EXCEPT ![q].state = "live"]
  /\ Done(q)
  /\ UNCHANGED <<user, token>>

\* lockedUntil passes.
Unlock ==
  /\ user.locked
  /\ user' = [user EXCEPT !.locked = FALSE]
  /\ UNCHANGED <<session, token, req>>

(* --------------------------------- mailed links ------------------------ *)

\* requestPasswordReset, for an address that has an account.
RequestReset(q) ==
  /\ NextRequest(q, "requestReset")
  /\ user.address # "unknown"
  /\ req' = [req EXCEPT ![q].kind = "requestReset", ![q].pc = "invalidate"]
  /\ UNCHANGED <<user, session, token>>

\* resendVerification, asked with a session: another link, unless the address is verified.
Resend(q, s) ==
  /\ NextRequest(q, "resend")
  /\ Resolves(s)
  /\ req' = [req EXCEPT ![q].kind = "resend",
                        ![q].pc = IF user.address = "verified" THEN "done" ELSE "invalidate",
                        ![q].ok = user.address = "verified"]
  /\ UNCHANGED <<user, session, token>>

\* The table the token mailed by t is in.
Purpose(t) ==
  IF req[t].kind = "requestReset" THEN "password_reset" ELSE "email_verification"

InvalidateTokens(q) ==
  /\ req[q].pc = "invalidate"
  /\ token' = [t \in Requests |-> IF token[t] = "live" /\ Purpose(t) = Purpose(q)
                                  THEN "used" ELSE token[t]]
  /\ Go(q, "create")
  /\ UNCHANGED <<user, session>>

\* A registration goes on to sign in.
CreateToken(q) ==
  /\ req[q].pc = "create"
  /\ token' = [token EXCEPT ![q] = "live"]
  /\ IF req[q].kind = "register" THEN Go(q, "issue") ELSE Done(q)
  /\ UNCHANGED <<user, session>>

\* verifyEmail, with a link that is not used and not expired.
VerifyRead(q, t) ==
  /\ NextRequest(q, "verify")
  /\ token[t] = "live" /\ Purpose(t) = "email_verification"
  /\ req' = [req EXCEPT ![q].kind = "verify", ![q].token = t, ![q].pc = "consume"]
  /\ UNCHANGED <<user, session, token>>

\* resetPassword, with a link that is not used and not 15 minutes old.
ResetRead(q, t) ==
  /\ NextRequest(q, "reset")
  /\ token[t] = "live" /\ Purpose(t) = "password_reset"
  /\ req' = [req EXCEPT ![q].kind = "reset", ![q].token = t, ![q].pc = "consume"]
  /\ UNCHANGED <<user, session, token>>

\* What a redeemed link does next.
Redeem(q) == Go(q, IF req[q].kind = "verify" THEN "mark" ELSE "hash")

\* Seeded fault: the token is marked used by id alone.
ConsumeToken_Unchecked(q) ==
  /\ req[q].pc = "consume"
  /\ token' = [token EXCEPT ![req[q].token] = "used"]
  /\ Redeem(q)
  /\ UNCHANGED <<user, session>>

\* UPDATE email_verifications, or else password_resets, SET usedAt WHERE id AND usedAt IS NULL.
ConsumeToken(q) ==
  /\ req[q].pc = "consume"
  /\ IF token[req[q].token] = "live"
       THEN token' = [token EXCEPT ![req[q].token] = "used"] /\ Redeem(q)
       ELSE Go(q, "done") /\ UNCHANGED token
  /\ UNCHANGED <<user, session>>

MarkEmailVerified(q) ==
  /\ req[q].pc = "mark"
  /\ user' = [user EXCEPT !.address = "verified"]
  /\ Done(q)
  /\ UNCHANGED <<session, token>>

UpdatePasswordHash(q) ==
  /\ req[q].pc = "hash"
  /\ user' = [user EXCEPT !.password = q, !.failed = 0, !.locked = FALSE]
  /\ Go(q, "revoke")
  /\ UNCHANGED <<session, token>>

\* The last step of a reset and of a suspension: revokeAllForUser.
RevokeAllForUser(q) ==
  /\ req[q].pc = "revoke"
  /\ Revoke(SessionIds)
  /\ Done(q)
  /\ UNCHANGED <<user, token>>

(* -------------------------------- suspension --------------------------- *)

\* suspendAccount: setStatus, then the sessions.
Suspend(q) ==
  /\ NextRequest(q, "suspend")
  /\ user.address # "unknown"
  /\ user' = [user EXCEPT !.status = "suspended"]
  /\ req' = [req EXCEPT ![q].kind = "suspend", ![q].pc = "revoke"]
  /\ UNCHANGED <<session, token>>

\* The process dies between two statements of a request.
RequestDies(q) ==
  /\ req[q].pc \notin {"new", "done"}
  /\ Go(q, "done")
  /\ UNCHANGED <<user, session, token>>

AccountNext ==
  \/ \E q \in Requests :
       \/ \E password \in Passwords : LoginRead(q, password)
       \/ \E t \in Requests : ResetRead(q, t) \/ VerifyRead(q, t)
       \/ \E s \in SessionIds : Resend(q, s)
       \/ RegisterRead(q) \/ InsertUser(q) \/ MarkEmailVerified(q)
       \/ RecordFailedLogin(q) \/ RecordSuccessfulLogin(q) \/ CancelDeletion(q) \/ IssueSession(q)
       \/ RequestReset(q) \/ InvalidateTokens(q) \/ CreateToken(q)
       \/ ConsumeToken(q) \/ UpdatePasswordHash(q) \/ RevokeAllForUser(q)
       \/ Suspend(q) \/ RequestDies(q)
  \/ \E s \in SessionIds : Logout(s) \/ SessionRefused(s)
  \/ Unlock

(* -------------------------------- properties --------------------------- *)

AccountTypeOK ==
  /\ user \in User
  /\ token \in [Requests -> {"none", "live", "used"}]
  /\ req \in [Requests -> Request]

Redeeming(q) == req[q].pc \in {"mark", "hash", "revoke"} \/ req[q].ok

\* A mailed link takes effect at most once, however many redeem it at once: a reset link
\* sets one password (identity.repository.ts:282-288: two simultaneous redemptions must
\* not both succeed).
TokenRedeemedOnce ==
  \A p, q \in Requests :
    /\ {req[p].kind, req[q].kind} \subseteq {"verify", "reset"} /\ p # q
    /\ Redeeming(p) /\ Redeeming(q)
    => req[p].token # req[q].token
=============================================================================
