--------------------------- MODULE TwoFactorProofs ---------------------------
(***************************************************************************)
(* Proofs about Sessions and TwoFactor, for any number of requests,        *)
(* sessions and time steps, and about the forms of SignInPages: that they  *)
(* are a way in and nothing else, and what they tell.                      *)
(***************************************************************************)
EXTENDS SignInPages, TLAPS

(* --------------------------------- types ------------------------------- *)

LEMMA InitTyped == Init => TypeOK
<1> SUFFICES ASSUME Init PROVE TypeOK
  OBVIOUS
<1> USE TwoFactorAssumption, SessionsAssumption DEF Init, AccountInit, FactorInit
<1>1. AccountTypeOK
  <2>1. PICK address \in {"unknown", "unverified", "verified"}, status \in {"active", "pending_deletion"} :
          user = [address |-> address, password |-> None, failed |-> 0, locked |-> FALSE, status |-> status]
    OBVIOUS
  <2>2. user \in User
    BY <2>1 DEF User, Passwords
  <2>3. NewRequest \in Request
    BY DEF NewRequest, Request
  <2> QED BY <2>2, <2>3 DEF AccountTypeOK
<1>2. session \in [SessionIds -> Session] /\ role \in {"customer", "staff"}
  BY DEF Session, Proof, PastProof, NoSession, SessionIds, Enrolments
<1>3. credential \in Credential /\ recovery \subseteq Enrolments
  <2>1. NoCredential \in Credential
    BY DEF Credential, NoCredential, Enrolments
  <2>2. [NoCredential EXCEPT !.id = Past, !.secret = Past] \in Credential
    BY <2>1 DEF Credential, Enrolments
  <2>3. [id |-> Past, secret |-> Past, confirmed |-> Past, last |-> 0] \in Credential
    BY DEF Credential, Enrolments
  <2> QED BY <2>1, <2>2, <2>3 DEF Enrolments
<1>4. ask \in [Asks -> Ask]
  BY DEF Ask, NewAsk, NoCredential, Credential, Enrolments
<1> QED BY <1>1, <1>2, <1>3, <1>4 DEF TypeOK

\* Ending some sessions leaves them sessions.
LEMMA RevokeTyped ==
  ASSUME session \in [SessionIds -> Session], NEW ids, Revoke(ids)
  PROVE  session' \in [SessionIds -> Session]
BY DEF Revoke, Session

\* A request that moves on is a request.
LEMMA RequestTyped ==
  ASSUME req \in [Requests -> Request], NEW q \in Requests, NEW r \in Request,
         req' = [req EXCEPT ![q] = r]
  PROVE  req' \in [Requests -> Request]
OBVIOUS

LEMMA GoTyped ==
  ASSUME req \in [Requests -> Request], NEW q \in Requests,
         \/ Done(q)
         \/ \E pc \in {"cancel", "issue", "create", "mark", "hash", "revoke", "done"} : Go(q, pc)
  PROVE  req' \in [Requests -> Request]
BY DEF Done, Go, Request

LEMMA UserTyped ==
  ASSUME user \in User, NEW q \in Requests, req[q].failed \in Nat
  PROVE  /\ [user EXCEPT !.failed = 0, !.locked = FALSE] \in User
         /\ [user EXCEPT !.failed = @ + 1, !.locked = req[q].failed + 1 >= Threshold] \in User
         /\ [user EXCEPT !.password = q, !.failed = 0, !.locked = FALSE] \in User
         /\ \A status \in {"active", "suspended"} : [user EXCEPT !.status = status] \in User
         /\ [user EXCEPT !.locked = FALSE] \in User
         /\ [user EXCEPT !.address = "verified"] \in User
<1> DEFINE lock == req[q].failed + 1 >= Threshold
<1>1. lock \in BOOLEAN
  BY SessionsAssumption
<1>2. user.failed + 1 \in Nat
  BY DEF User
<1> HIDE DEF lock
<1>3. [user EXCEPT !.failed = @ + 1, !.locked = lock] \in User
  BY <1>1, <1>2 DEF User
<1>4. [user EXCEPT !.failed = 0, !.locked = FALSE] \in User
  BY DEF User
<1>5. [user EXCEPT !.password = q, !.failed = 0, !.locked = FALSE] \in User
  BY DEF User, Passwords
<1>6. \A status \in {"active", "suspended"} : [user EXCEPT !.status = status] \in User
  BY DEF User
<1>7. [user EXCEPT !.locked = FALSE] \in User
  BY DEF User
<1>8. [user EXCEPT !.address = "verified"] \in User
  BY DEF User
<1> QED BY <1>3, <1>4, <1>5, <1>6, <1>7, <1>8 DEF lock

LEMMA AccountTyped ==
  ASSUME TypeOK, AccountNext, UNCHANGED <<role, credential, recovery, ask>>
  PROVE  TypeOK'
<1> USE DEF TypeOK, AccountTypeOK
<1>0. \A q \in Requests : req[q] \in Request /\ req[q].failed \in Nat
  BY DEF Request
<1>1. ASSUME NEW q \in Requests, NEW password \in Passwords, LoginRead(q, password)
      PROVE TypeOK'
  <2>1. user.failed \in Nat /\ "login" \in Kinds
    BY <1>1 DEF User, LoginRead, NextRequest
  <2>2. \A pc \in {"success", "failure"}, deleting \in BOOLEAN :
          [req[q] EXCEPT !.kind = "login", !.failed = user.failed, !.deleting = deleting, !.pc = pc]
            \in Request
    BY <1>0, <2>1 DEF Request
  <2>3. \E pc \in {"success", "failure"}, deleting \in BOOLEAN :
          req' = [req EXCEPT ![q] = [req[q] EXCEPT !.kind = "login", !.failed = user.failed,
                                                   !.deleting = deleting, !.pc = pc]]
    BY <1>1 DEF LoginRead
  <2>4. req' \in [Requests -> Request]
    BY <2>2, <2>3
  <2> QED BY <1>1, <2>4 DEF LoginRead
<1>2. ASSUME NEW q \in Requests, NEW t \in Requests, ResetRead(q, t)
      PROVE TypeOK'
  <2>1. [req[q] EXCEPT !.kind = "reset", !.token = t, !.pc = "consume"] \in Request
    BY <1>0, <1>2 DEF ResetRead, NextRequest, Request
  <2>2. req' = [req EXCEPT ![q] = [req[q] EXCEPT !.kind = "reset", !.token = t, !.pc = "consume"]]
    BY <1>2 DEF ResetRead
  <2>3. req' \in [Requests -> Request]
    BY <2>1, <2>2
  <2> QED BY <1>2, <2>3 DEF ResetRead
<1>3. ASSUME NEW q \in Requests, RecordFailedLogin(q) PROVE TypeOK'
  BY <1>0, <1>3, UserTyped, GoTyped DEF RecordFailedLogin
<1>4. ASSUME NEW q \in Requests, RecordSuccessfulLogin(q) \/ CancelDeletion(q)
      PROVE TypeOK'
  BY <1>0, <1>4, UserTyped, GoTyped DEF RecordSuccessfulLogin, CancelDeletion
<1>5. ASSUME NEW q \in Requests, IssueSession(q)
      PROVE TypeOK'
  <2>1. session' \in [SessionIds -> Session]
    BY <1>5 DEF IssueSession, Session
  <2> QED BY <1>5, <2>1, GoTyped DEF IssueSession
<1>6. ASSUME NEW q \in Requests, RequestReset(q)
      PROVE TypeOK'
  <2>1. req' \in [Requests -> Request]
    BY <1>6 DEF RequestReset, NextRequest, Request
  <2> QED BY <1>6, <2>1 DEF RequestReset
<1>7. ASSUME NEW q \in Requests, InvalidateTokens(q) \/ CreateToken(q)
      PROVE TypeOK'
  BY <1>7, GoTyped DEF InvalidateTokens, CreateToken
<1>8. ASSUME NEW q \in Requests, ConsumeToken(q) PROVE TypeOK'
  BY <1>8, GoTyped DEF ConsumeToken, Redeem
<1>9. ASSUME NEW q \in Requests, UpdatePasswordHash(q) PROVE TypeOK'
  BY <1>0, <1>9, UserTyped, GoTyped DEF UpdatePasswordHash
<1>10. ASSUME NEW q \in Requests, RevokeAllForUser(q)
      PROVE TypeOK'
  BY <1>10, RevokeTyped, GoTyped DEF RevokeAllForUser
<1>11. ASSUME NEW q \in Requests, Suspend(q)
      PROVE TypeOK'
  <2>1. req' \in [Requests -> Request]
    BY <1>11 DEF Suspend, NextRequest, Request
  <2> QED BY <1>0, <1>11, <2>1, UserTyped DEF Suspend
<1>12. ASSUME NEW q \in Requests, RequestDies(q) PROVE TypeOK'
  BY <1>12, GoTyped DEF RequestDies
<1>13. ASSUME NEW s \in SessionIds, Logout(s) \/ SessionRefused(s)
      PROVE TypeOK'
  BY <1>13, RevokeTyped DEF Logout, SessionRefused
<1>14. ASSUME Unlock PROVE TypeOK'
  <2>1. user' \in User
    BY <1>14 DEF Unlock, User
  <2> QED BY <1>14, <2>1 DEF Unlock
<1>15. ASSUME NEW q \in Requests, RegisterRead(q) PROVE TypeOK'
  <2>1. [req[q] EXCEPT !.kind = "register", !.pc = IF user.address = "unknown" THEN "insert" ELSE "done",
                       !.ok = user.address # "unknown"] \in Request
    BY <1>0, <1>15 DEF RegisterRead, NextRequest, Request
  <2>2. req' \in [Requests -> Request]
    BY <1>15, <2>1 DEF RegisterRead
  <2> QED BY <1>15, <2>2 DEF RegisterRead
<1>16. ASSUME NEW q \in Requests, InsertUser(q) PROVE TypeOK'
  <2>1. [address |-> "unverified", password |-> q, failed |-> 0, locked |-> FALSE, status |-> "active"] \in User
    BY DEF User, Passwords
  <2> QED BY <1>16, <2>1, GoTyped DEF InsertUser
<1>17. ASSUME NEW q \in Requests, NEW s \in SessionIds, Resend(q, s) PROVE TypeOK'
  <2>1. [req[q] EXCEPT !.kind = "resend", !.pc = IF user.address = "verified" THEN "done" ELSE "invalidate",
                       !.ok = user.address = "verified"] \in Request
    BY <1>0, <1>17 DEF Resend, NextRequest, Request
  <2>2. req' \in [Requests -> Request]
    BY <1>17, <2>1 DEF Resend
  <2> QED BY <1>17, <2>2 DEF Resend
<1>18. ASSUME NEW q \in Requests, NEW t \in Requests, VerifyRead(q, t) PROVE TypeOK'
  <2>1. [req[q] EXCEPT !.kind = "verify", !.token = t, !.pc = "consume"] \in Request
    BY <1>0, <1>18 DEF VerifyRead, NextRequest, Request
  <2>2. req' \in [Requests -> Request]
    BY <1>18, <2>1 DEF VerifyRead
  <2> QED BY <1>18, <2>2 DEF VerifyRead
<1>19. ASSUME NEW q \in Requests, MarkEmailVerified(q) PROVE TypeOK'
  BY <1>0, <1>19, UserTyped, GoTyped DEF MarkEmailVerified
<1> QED BY <1>1, <1>2, <1>3, <1>4, <1>5, <1>6, <1>7, <1>8, <1>9, <1>10, <1>11, <1>12, <1>13, <1>14,
           <1>15, <1>16, <1>17, <1>18, <1>19
        DEF AccountNext

\* Where a request is tells what kind it is, and what it saw.
AskShape ==
  \A a \in Asks :
    /\ ask[a].pc \notin {"new", "done"} => ask[a].session \in SessionIds
    /\ ask[a].pc \in {"confirm", "codes", "revoke"} => ask[a].kind = "confirm"
    /\ ask[a].pc \in {"claim", "mark"} => ask[a].kind \in {"confirm", "verify", "disable"}
    /\ ask[a].pc = "claim" => ask[a].kind # "confirm"
    /\ ask[a].kind = "confirm" => ask[a].step > 0
    /\ ask[a].kind \in {"verify", "disable"} => ask[a].saw.confirmed # None

LEMMA AskTyped ==
  ASSUME TypeOK, AskShape, AskNext
  PROVE  TypeOK'
<1> USE DEF TypeOK, AccountTypeOK
<1>1. ASSUME NEW a \in Asks, NEW s \in SessionIds, NEW kind \in AskKinds,
             NEW pc \in {"upsert", "confirm", "claim"}, NEW step \in 0..Steps,
             Begin(a, s, kind, pc, step)
      PROVE TypeOK'
  BY <1>1 DEF Begin, Ask
<1>2. ASSUME NEW a \in Asks, NEW pc \in {"codes", "mark", "revoke", "delete", "done"}, Continue(a, pc)
      PROVE ask' \in [Asks -> Ask]
  BY <1>2, TwoFactorAssumption DEF Continue, Ask, NewAsk, NoCredential, Credential, Enrolments
<1>3. ASSUME NEW a \in Asks, UpsertUnconfirmed(a) PROVE TypeOK'
  <2>1. credential' \in Credential
    BY <1>3, TwoFactorAssumption DEF UpsertUnconfirmed, Ask, Credential, Enrolments
  <2> QED BY <1>2, <1>3, <2>1 DEF UpsertUnconfirmed, At
<1>4. ASSUME NEW a \in Asks, ConfirmCredential(a) PROVE TypeOK'
  <2>1. credential' \in Credential
    BY <1>4 DEF ConfirmCredential, Credential, Enrolments, Ask
  <2> QED BY <1>2, <1>4, <2>1 DEF ConfirmCredential, At
<1>5. ASSUME NEW a \in Asks, ReplaceRecoveryCodes(a) PROVE TypeOK'
  BY <1>2, <1>5 DEF ReplaceRecoveryCodes, At, Enrolments
<1>6. ASSUME NEW a \in Asks, RevokeOthers(a) PROVE TypeOK'
  BY <1>2, <1>6, RevokeTyped DEF RevokeOthers, At
<1>7. ASSUME NEW a \in Asks, Claim(a) PROVE TypeOK'
  <2>1. credential' \in Credential
    BY <1>7 DEF Claim, Credential, Ask
  <2> QED BY <1>2, <1>7, <2>1 DEF Claim, At
<1>8. ASSUME NEW a \in Asks, MarkVerified(a) PROVE TypeOK'
  <2>1. AfterMark(a) \in {"revoke", "delete", "done"}
    BY DEF AfterMark
  <2>2. ProofOf(a) \in Proof
    BY <1>8 DEF MarkVerified, At, AskShape, ProofOf, Proof, Ask, Credential, Enrolments
  <2>3. session' \in [SessionIds -> Session]
    BY <1>8, <2>2 DEF MarkVerified, Session
  <2> QED BY <1>2, <1>8, <2>1, <2>3 DEF MarkVerified, At
<1>9. ASSUME NEW a \in Asks, DeleteForUser(a) PROVE TypeOK'
  BY <1>2, <1>9, TwoFactorAssumption DEF DeleteForUser, At, NoCredential, Credential, Enrolments
<1> QED
  BY <1>1, <1>3, <1>4, <1>5, <1>6, <1>7, <1>8, <1>9, TwoFactorAssumption
  DEF AskNext, Enrol, Confirm, Verify, Disable, AskKinds
\* The cases of a request about the factor, with what each leaves alone.
LEMMA AskCases ==
  ASSUME AskNext
  PROVE  \E a \in Asks :
           \/ \E s \in SessionIds, kind \in AskKinds, step \in 0..Steps,
                  pc \in {"upsert", "confirm", "claim"} :
                /\ Begin(a, s, kind, pc, step)
                /\ \/ kind = "enrol" /\ pc = "upsert"
                   \/ kind = "confirm" /\ pc = "confirm" /\ step > 0
                   \/ kind \in {"verify", "disable"} /\ pc = "claim" /\ credential.confirmed # None
           \/ UpsertUnconfirmed(a) \/ ConfirmCredential(a) \/ ReplaceRecoveryCodes(a)
           \/ RevokeOthers(a) \/ Claim(a) \/ MarkVerified(a) \/ DeleteForUser(a)
BY TwoFactorAssumption DEF AskNext, Enrol, Confirm, Verify, Disable, AskKinds

\* A request that goes on keeps its fields; one that is answered keeps none.
LEMMA Continued ==
  ASSUME ask \in [Asks -> Ask], NEW a \in Asks, NEW pc, Continue(a, pc)
  PROVE  /\ \A b \in Asks : b # a => ask'[b] = ask[b]
         /\ pc # "done" => /\ ask'[a].pc = pc
                           /\ ask'[a].kind = ask[a].kind
                           /\ ask'[a].session = ask[a].session
                           /\ ask'[a].saw = ask[a].saw
                           /\ ask'[a].step = ask[a].step
         /\ pc = "done" => ask'[a].pc = "done" /\ ask'[a].kind = None
BY DEF Continue, NewAsk, Ask

LEMMA ShapeKept ==
  ASSUME TypeOK, AskShape, AskNext
  PROVE  AskShape'
<1>1. PICK a \in Asks :
           \/ \E s \in SessionIds, kind \in AskKinds, step \in 0..Steps,
                  pc \in {"upsert", "confirm", "claim"} :
                /\ Begin(a, s, kind, pc, step)
                /\ \/ kind = "enrol" /\ pc = "upsert"
                   \/ kind = "confirm" /\ pc = "confirm" /\ step > 0
                   \/ kind \in {"verify", "disable"} /\ pc = "claim" /\ credential.confirmed # None
           \/ UpsertUnconfirmed(a) \/ ConfirmCredential(a) \/ ReplaceRecoveryCodes(a)
           \/ RevokeOthers(a) \/ Claim(a) \/ MarkVerified(a) \/ DeleteForUser(a)
  BY AskCases
<1>2. ask \in [Asks -> Ask]
  BY DEF TypeOK
<1>3. CASE \E s \in SessionIds, kind \in AskKinds, step \in 0..Steps,
              pc \in {"upsert", "confirm", "claim"} :
             /\ Begin(a, s, kind, pc, step)
             /\ \/ kind = "enrol" /\ pc = "upsert"
                \/ kind = "confirm" /\ pc = "confirm" /\ step > 0
                \/ kind \in {"verify", "disable"} /\ pc = "claim" /\ credential.confirmed # None
  BY <1>2, <1>3 DEF Begin, AskShape
<1>4. CASE UpsertUnconfirmed(a) \/ RevokeOthers(a) \/ DeleteForUser(a)
  <2>1. Continue(a, "done")
    BY <1>4 DEF UpsertUnconfirmed, RevokeOthers, DeleteForUser
  <2>2. ask'[a].pc = "done" /\ ask'[a].kind = None /\ \A b \in Asks : b # a => ask'[b] = ask[b]
    BY <1>2, <2>1, Continued
  <2> QED BY <2>2, TwoFactorAssumption DEF AskShape
<1>5. CASE ConfirmCredential(a) \/ ReplaceRecoveryCodes(a) \/ Claim(a)
  <2>1. \/ Continue(a, "done")
        \/ ask[a].pc = "confirm" /\ Continue(a, "codes")
        \/ ask[a].pc \in {"codes", "claim"} /\ Continue(a, "mark")
    BY <1>5 DEF ConfirmCredential, ReplaceRecoveryCodes, Claim, At
  <2>2. CASE Continue(a, "done")
    <3>1. ask'[a].pc = "done" /\ ask'[a].kind = None /\ \A b \in Asks : b # a => ask'[b] = ask[b]
      BY <1>2, <2>2, Continued
    <3> QED BY <3>1, TwoFactorAssumption DEF AskShape
  <2>3. CASE ask[a].pc = "confirm" /\ Continue(a, "codes")
    BY <1>2, <2>3, Continued DEF AskShape
  <2>4. CASE ask[a].pc \in {"codes", "claim"} /\ Continue(a, "mark")
    BY <1>2, <2>4, Continued DEF AskShape
  <2> QED BY <2>1, <2>2, <2>3, <2>4
<1>6. CASE MarkVerified(a)
  <2>1. ask[a].pc = "mark" /\ Continue(a, AfterMark(a))
    BY <1>6 DEF MarkVerified, At
  <2>2. CASE AfterMark(a) = "done"
    <3>1. ask'[a].pc = "done" /\ ask'[a].kind = None /\ \A b \in Asks : b # a => ask'[b] = ask[b]
      BY <1>2, <2>1, <2>2, Continued
    <3> QED BY <3>1, TwoFactorAssumption DEF AskShape
  <2>3. CASE AfterMark(a) # "done"
    <3>1. \/ AfterMark(a) = "revoke" /\ ask[a].kind = "confirm"
          \/ AfterMark(a) = "delete"
      BY <2>3 DEF AfterMark
    <3> QED BY <1>2, <2>1, <2>3, <3>1, Continued DEF AskShape
  <2> QED BY <2>2, <2>3
<1> QED BY <1>1, <1>3, <1>4, <1>5, <1>6

(* --------------------------- one-time links ---------------------------- *)

Redeems(q) == req[q].kind \in {"verify", "reset"}

\* A token is made by the request it is named after, and used by whoever redeems it.
TokensUsed ==
  /\ \A q \in Requests :
       /\ req[q].pc \in {"new", "insert", "invalidate", "create"} => token[q] = "none"
       /\ req[q].pc = "new" => ~req[q].ok /\ req[q].kind = None
       /\ req[q].pc \in {"insert", "success", "cancel", "issue", "invalidate", "create"} => ~Redeems(q)
       /\ Redeems(q) => req[q].token \in Requests
       /\ Redeems(q) /\ Redeeming(q) => token[req[q].token] = "used"
  /\ TokenRedeemedOnce

LEMMA TokensUsedInit == Init => TokensUsed
<1> SUFFICES ASSUME Init PROVE TokensUsed
  OBVIOUS
<1>1. \A q \in Requests : req[q].kind = None /\ req[q].pc = "new" /\ ~req[q].ok /\ token[q] = "none"
  BY DEF Init, AccountInit, FactorInit, NewRequest
<1>2. None \notin {"verify", "reset"}
  BY SessionsAssumption DEF AllKinds
<1> QED BY <1>1, <1>2 DEF TokensUsed, TokenRedeemedOnce, Redeems, Redeeming

\* A step of q that makes or uses no token and redeems none.
LEMMA TokensUntouched ==
  ASSUME TypeOK, TokensUsed, token' = token, NEW q \in Requests,
         \A p \in Requests : p # q => req'[p] = req[p],
         req'[q].pc # "new",
         req'[q].pc \in {"insert", "invalidate", "create"} => req[q].pc \in {"new", "insert", "invalidate"},
         req'[q].kind # req[q].kind => req[q].pc = "new",
         req'[q].pc \in {"insert", "success", "cancel", "issue", "invalidate", "create"} => ~Redeems(q)',
         Redeems(q)' => /\ req'[q].token \in Requests
                        /\ Redeeming(q)' => /\ Redeeming(q)
                                            /\ Redeems(q) /\ req'[q].token = req[q].token
  PROVE  TokensUsed'
BY DEF TokensUsed, TokenRedeemedOnce, Redeems, Redeeming

LEMMA GoStep ==
  ASSUME TypeOK, NEW q \in Requests, NEW pc, Go(q, pc)
  PROVE  /\ \A p \in Requests : p # q => req'[p] = req[p]
         /\ req'[q].pc = pc /\ req'[q].kind = req[q].kind
         /\ req'[q].token = req[q].token /\ req'[q].ok = req[q].ok
BY DEF Go, TypeOK, AccountTypeOK, Request

LEMMA DoneStep ==
  ASSUME TypeOK, NEW q \in Requests, Done(q)
  PROVE  /\ \A p \in Requests : p # q => req'[p] = req[p]
         /\ req'[q].pc = "done" /\ req'[q].ok /\ req'[q].kind = req[q].kind
         /\ req'[q].token = req[q].token
BY DEF Done, TypeOK, AccountTypeOK, Request

LEMMA BeginStep ==
  ASSUME TypeOK, NEW q \in Requests, NEW kind,
         \/ \E password \in Passwords : LoginRead(q, password) /\ kind = "login"
         \/ RequestReset(q) /\ kind = "requestReset"
         \/ Suspend(q) /\ kind = "suspend"
         \/ RegisterRead(q) /\ kind = "register"
         \/ \E s \in SessionIds : Resend(q, s) /\ kind = "resend"
  PROVE  /\ \A p \in Requests : p # q => req'[p] = req[p]
         /\ req[q].pc = "new" /\ req'[q].kind = kind
         /\ req'[q].pc \in {"insert", "success", "failure", "invalidate", "revoke", "done"}
         /\ token' = token
BY DEF LoginRead, RequestReset, Suspend, RegisterRead, Resend, NextRequest, TypeOK, AccountTypeOK, Request

LEMMA TokensUsedKept ==
  ASSUME TypeOK, TokensUsed, AccountNext
  PROVE  TokensUsed'
<1>1. ASSUME NEW q \in Requests,
             \/ \E password \in Passwords : LoginRead(q, password)
             \/ RequestReset(q) \/ Suspend(q) \/ RegisterRead(q)
             \/ \E s \in SessionIds : Resend(q, s)
      PROVE TokensUsed'
  <2>1. PICK kind \in {"login", "requestReset", "suspend", "register", "resend"} :
          /\ \A p \in Requests : p # q => req'[p] = req[p]
          /\ req[q].pc = "new" /\ req'[q].kind = kind
          /\ req'[q].pc \in {"insert", "success", "failure", "invalidate", "revoke", "done"}
          /\ token' = token
    BY <1>1, BeginStep
  <2>2. ~Redeems(q)'
    BY <2>1 DEF Redeems
  <2> QED BY <2>1, <2>2, TokensUntouched
<1>2. ASSUME NEW q \in Requests, NEW t \in Requests, ResetRead(q, t) \/ VerifyRead(q, t)
      PROVE TokensUsed'
  <2>1. /\ req[q].pc = "new" /\ ~req[q].ok /\ token' = token
        /\ \A p \in Requests : p # q => req'[p] = req[p]
        /\ req'[q].kind \in {"verify", "reset"} /\ req'[q].token = t
        /\ req'[q].pc = "consume" /\ req'[q].ok = req[q].ok
    BY <1>2 DEF ResetRead, VerifyRead, NextRequest, TypeOK, AccountTypeOK, Request, TokensUsed
  <2> QED BY <2>1, TokensUntouched DEF Redeems, Redeeming
<1>3. ASSUME NEW q \in Requests, NEW pc \in {"done", "cancel", "issue"},
             req[q].pc # "new", token' = token, Go(q, pc),
             pc # "done" => req[q].pc \in {"success", "cancel"}
      PROVE TokensUsed'
  BY <1>3, GoStep, TokensUntouched DEF TokensUsed, Redeems, Redeeming
<1>4. ASSUME NEW q \in Requests, RecordFailedLogin(q) \/ RecordSuccessfulLogin(q) \/ CancelDeletion(q)
                                 \/ RequestDies(q)
      PROVE TokensUsed'
  BY <1>3, <1>4 DEF RecordFailedLogin, RecordSuccessfulLogin, CancelDeletion, RequestDies
<1>5. ASSUME NEW q \in Requests, IssueSession(q) PROVE TokensUsed'
  BY <1>5, DoneStep DEF IssueSession, TokensUsed, TokenRedeemedOnce, Redeems, Redeeming
<1>6. ASSUME NEW q \in Requests, InvalidateTokens(q) PROVE TokensUsed'
  <2>1. \A t \in Requests : token'[t] = token[t] \/ (token[t] = "live" /\ token'[t] = "used")
    BY <1>6 DEF InvalidateTokens
  <2> QED BY <1>6, <2>1, GoStep DEF InvalidateTokens, TokensUsed, TokenRedeemedOnce, Redeems, Redeeming
<1>7. ASSUME NEW q \in Requests, CreateToken(q) PROVE TokensUsed'
  <2>1. token'[q] = "live" /\ \A t \in Requests : t # q => token'[t] = token[t]
    BY <1>7 DEF CreateToken, TypeOK, AccountTypeOK
  <2>2. CASE Go(q, "issue")
    BY <1>7, <2>1, <2>2, GoStep DEF CreateToken, TokensUsed, TokenRedeemedOnce, Redeems, Redeeming
  <2>3. CASE Done(q)
    BY <1>7, <2>1, <2>3, DoneStep DEF CreateToken, TokensUsed, TokenRedeemedOnce, Redeems, Redeeming
  <2> QED BY <1>7, <2>2, <2>3 DEF CreateToken
<1>8. ASSUME NEW q \in Requests, ConsumeToken(q) PROVE TokensUsed'
  <2>1. CASE token[req[q].token] = "live"
    <3>1. /\ \A t \in Requests : token'[t] = IF t = req[q].token THEN "used" ELSE token[t]
          /\ req[q].pc = "consume"
      BY <1>8, <2>1 DEF ConsumeToken, TypeOK, AccountTypeOK
    <3>2. PICK pc \in {"mark", "hash"} : Go(q, pc)
      BY <1>8, <2>1 DEF ConsumeToken, Redeem
    <3> QED BY <2>1, <3>1, <3>2, GoStep DEF TokensUsed, TokenRedeemedOnce, Redeems, Redeeming
  <2>2. CASE token[req[q].token] # "live"
    BY <1>3, <1>8, <2>2 DEF ConsumeToken
  <2> QED BY <2>1, <2>2
<1>9. ASSUME NEW q \in Requests, UpdatePasswordHash(q) PROVE TokensUsed'
  BY <1>9, GoStep, TokensUntouched DEF UpdatePasswordHash, TokensUsed, Redeems, Redeeming
<1>10. ASSUME NEW q \in Requests, RevokeAllForUser(q) PROVE TokensUsed'
  BY <1>10, DoneStep, TokensUntouched DEF RevokeAllForUser, TokensUsed, Redeems, Redeeming
<1>11. ASSUME (\E s \in SessionIds : Logout(s) \/ SessionRefused(s)) \/ Unlock PROVE TokensUsed'
  <2>1. req' = req /\ token' = token
    BY <1>11 DEF Logout, SessionRefused, Unlock
  <2> QED BY <2>1 DEF TokensUsed, TokenRedeemedOnce, Redeems, Redeeming
<1>12. ASSUME NEW q \in Requests, InsertUser(q) PROVE TokensUsed'
  <2>1. PICK pc \in {"create", "done"} : Go(q, pc)
    BY <1>12 DEF InsertUser
  <2> QED BY <1>12, <2>1, GoStep, TokensUntouched DEF InsertUser, TokensUsed, Redeems, Redeeming
<1>13. ASSUME NEW q \in Requests, MarkEmailVerified(q) PROVE TokensUsed'
  BY <1>13, DoneStep, TokensUntouched DEF MarkEmailVerified, TokensUsed, Redeems, Redeeming
<1> QED BY <1>1, <1>2, <1>4, <1>5, <1>6, <1>7, <1>8, <1>9, <1>10, <1>11, <1>12, <1>13 DEF AccountNext

(* ---------------------------- ended sessions --------------------------- *)

\* A request has opened a session only once it is done.
Opened == \A q \in Requests : req[q].pc # "done" => session[q].state = "none"

LEMMA RevokeKeeps ==
  ASSUME NEW ids, Revoke(ids)
  PROVE  \A s \in SessionIds : /\ session[s].state = "revoked" => session'[s] = session[s]
                               /\ session[s].state = "none" => session'[s].state = "none"
BY DEF Revoke, Live

\* What a step may do to the sessions.
SessionStep ==
  /\ \A s \in SessionIds : session[s].state = "revoked" => session'[s] = session[s]
  /\ \A s \in SessionIds : session[s].state = "none" =>
       session'[s].state = "none" \/ (s \in Requests /\ req'[s].pc = "done")

\* No request is taken up again.
DoneStays == \A q \in Requests : req[q].pc = "done" => req'[q].pc = "done"

LEMMA AskSessions ==
  ASSUME TypeOK, AskNext
  PROVE  SessionStep /\ req' = req /\ token' = token
<1>1. req' = req /\ token' = token
  BY DEF AskNext, Enrol, Confirm, Verify, Disable, Begin, At, UpsertUnconfirmed, ConfirmCredential,
         ReplaceRecoveryCodes, RevokeOthers, Claim, MarkVerified, DeleteForUser
<1>2. \/ session' = session
      \/ \E ids : Revoke(ids)
      \/ \E a \in Asks : MarkVerified(a)
  BY DEF AskNext, Enrol, Confirm, Verify, Disable, Begin, UpsertUnconfirmed, ConfirmCredential,
         ReplaceRecoveryCodes, RevokeOthers, Claim, DeleteForUser
<1>3. CASE \E a \in Asks : MarkVerified(a)
  <2>1. PICK a \in Asks : MarkVerified(a)
    BY <1>3
  <2>2. \A s \in SessionIds : session[s].state # "live" => session'[s] = session[s]
    BY <2>1 DEF MarkVerified, Live, TypeOK
  <2> QED BY <1>1, <2>2 DEF SessionStep
<1> QED BY <1>1, <1>2, <1>3, RevokeKeeps DEF SessionStep

LEMMA AccountSessions ==
  ASSUME TypeOK, Opened, AccountNext
  PROVE  SessionStep /\ DoneStays
<1>1. ASSUME NEW q \in Requests, NEW r, req' = [req EXCEPT ![q] = r], req[q].pc # "done"
      PROVE DoneStays
  BY <1>1 DEF DoneStays, TypeOK, AccountTypeOK
<1>2. ASSUME NEW q \in Requests,
             \/ \E password \in Passwords : LoginRead(q, password)
             \/ \E t \in Requests : ResetRead(q, t) \/ VerifyRead(q, t)
             \/ \E s \in SessionIds : Resend(q, s)
             \/ RegisterRead(q) \/ InsertUser(q) \/ MarkEmailVerified(q)
             \/ RecordFailedLogin(q) \/ RecordSuccessfulLogin(q) \/ CancelDeletion(q)
             \/ RequestReset(q) \/ InvalidateTokens(q) \/ CreateToken(q)
             \/ ConsumeToken(q) \/ UpdatePasswordHash(q) \/ Suspend(q) \/ RequestDies(q)
      PROVE SessionStep /\ DoneStays
  <2>1. session' = session
    BY <1>2 DEF LoginRead, ResetRead, RecordFailedLogin, RecordSuccessfulLogin, CancelDeletion, RequestReset,
                InvalidateTokens, CreateToken, ConsumeToken, UpdatePasswordHash, Suspend, RequestDies,
                RegisterRead, InsertUser, Resend, VerifyRead, MarkEmailVerified
  <2>2. req[q].pc # "done"
    BY <1>2 DEF LoginRead, ResetRead, RecordFailedLogin, RecordSuccessfulLogin, CancelDeletion, RequestReset,
                InvalidateTokens, CreateToken, ConsumeToken, UpdatePasswordHash, Suspend, RequestDies,
                RegisterRead, InsertUser, Resend, VerifyRead, MarkEmailVerified, NextRequest
  <2>3. \A pc : Go(q, pc) \/ Done(q) => \E r : req' = [req EXCEPT ![q] = r]
    BY DEF Go, Done
  <2>4. CASE \E pc : Go(q, pc) \/ Done(q)
    BY <1>1, <2>1, <2>2, <2>3, <2>4 DEF SessionStep
  <2>5. CASE ~\E pc : Go(q, pc) \/ Done(q)
    <3>1. \/ \E password \in Passwords : LoginRead(q, password)
          \/ \E t \in Requests : ResetRead(q, t) \/ VerifyRead(q, t)
          \/ \E s \in SessionIds : Resend(q, s)
          \/ RegisterRead(q) \/ RequestReset(q) \/ Suspend(q)
      BY <1>2, <2>5 DEF RecordFailedLogin, RecordSuccessfulLogin, CancelDeletion, InvalidateTokens, CreateToken,
                        ConsumeToken, UpdatePasswordHash, RequestDies, InsertUser, MarkEmailVerified, Redeem
    <3>2. \E r : req' = [req EXCEPT ![q] = r]
      BY <3>1 DEF LoginRead, ResetRead, VerifyRead, Resend, RegisterRead, RequestReset, Suspend
    <3> QED BY <1>1, <2>1, <2>2, <3>2 DEF SessionStep
  <2> QED BY <2>4, <2>5
<1>3. ASSUME NEW q \in Requests, IssueSession(q) PROVE SessionStep /\ DoneStays
  <2>1. /\ session[q].state = "none" /\ req'[q].pc = "done"
        /\ \A p \in Requests : p # q => req'[p] = req[p]
        /\ \A s \in SessionIds : s # q => session'[s] = session[s]
    BY <1>3, DoneStep DEF IssueSession, Opened, TypeOK, SessionIds
  <2> QED BY <2>1 DEF SessionStep, DoneStays
<1>4. ASSUME NEW q \in Requests, RevokeAllForUser(q) PROVE SessionStep /\ DoneStays
  <2>1. req'[q].pc = "done" /\ \A p \in Requests : p # q => req'[p] = req[p]
    BY <1>4, DoneStep DEF RevokeAllForUser
  <2>2. Revoke(SessionIds)
    BY <1>4 DEF RevokeAllForUser
  <2> QED BY <2>1, <2>2, RevokeKeeps DEF SessionStep, DoneStays
<1>5. ASSUME (\E s \in SessionIds : Logout(s) \/ SessionRefused(s)) \/ Unlock
      PROVE SessionStep /\ DoneStays
  <2>1. req' = req /\ (session' = session \/ \E ids : Revoke(ids))
    BY <1>5 DEF Logout, SessionRefused, Unlock
  <2> QED BY <2>1, RevokeKeeps DEF SessionStep, DoneStays
<1> QED BY <1>2, <1>3, <1>4, <1>5 DEF AccountNext

LEMMA OpenedKept ==
  ASSUME TypeOK, Opened, SessionStep, DoneStays
  PROVE  Opened'
BY DEF Opened, SessionStep, DoneStays, SessionIds

(* ------------------------------- the theorems -------------------------- *)

IInv == TypeOK /\ AskShape /\ TokensUsed /\ Opened

LEMMA IInvInit == Init => IInv
<1> SUFFICES ASSUME Init PROVE IInv
  OBVIOUS
<1>1. AskShape
  <2>1. \A a \in Asks : ask[a].pc = "new" /\ ask[a].kind = None
    BY DEF Init, NewAsk
  <2>2. None \notin {"enrol", "confirm", "verify", "disable"}
    BY TwoFactorAssumption
  <2> QED BY <2>1, <2>2 DEF AskShape
<1>2. Opened
  BY SessionsAssumption DEF Init, FactorInit, Opened, SessionIds, NoSession
<1> QED BY <1>1, <1>2, InitTyped, TokensUsedInit DEF IInv

LEMMA IInvKept == IInv /\ [Next]_vars => IInv' /\ SessionStep
<1> SUFFICES ASSUME IInv, [Next]_vars PROVE IInv' /\ SessionStep
  OBVIOUS
<1>0. TypeOK /\ AskShape /\ TokensUsed /\ Opened
  BY DEF IInv
<1>1. CASE AskNext
  <2>1. SessionStep /\ req' = req /\ token' = token
    BY <1>0, <1>1, AskSessions
  <2>2. TokensUsed'
    BY <1>0, <2>1 DEF TokensUsed, TokenRedeemedOnce, Redeems, Redeeming
  <2>3. Opened'
    BY <1>0, <2>1, OpenedKept DEF DoneStays
  <2> QED BY <1>0, <1>1, <2>1, <2>2, <2>3, AskTyped, ShapeKept DEF IInv
<1>2. CASE AccountNext /\ UNCHANGED <<role, credential, recovery, ask>>
  <2>1. AskShape'
    BY <1>0, <1>2 DEF AskShape
  <2>2. SessionStep /\ Opened'
    BY <1>0, <1>2, AccountSessions, OpenedKept
  <2> QED BY <1>0, <1>2, <2>1, <2>2, AccountTyped, TokensUsedKept DEF IInv
<1>3. CASE UNCHANGED vars
  BY <1>0, <1>3 DEF vars, IInv, TypeOK, AccountTypeOK, AskShape, TokensUsed, TokenRedeemedOnce, Redeems, Redeeming,
                    Opened, SessionStep
<1> QED BY <1>1, <1>2, <1>3 DEF Next

LEMMA Invariance == Spec => []IInv
BY IInvInit, IInvKept, PTL DEF Spec

\* The account, its sessions, tokens and second factor keep their shape.
THEOREM FactorTyped == Spec => []TypeOK
<1>1. IInv => TypeOK
  BY DEF IInv
<1> QED BY <1>1, Invariance, PTL

\* However many requests redeem a mailed link at once, one of them succeeds:
\* ConsumeToken decides it in the UPDATE that marks the link used.
THEOREM TokenOnce == Spec => []TokenRedeemedOnce
<1>1. IInv => TokenRedeemedOnce
  BY DEF IInv, TokensUsed
<1> QED BY <1>1, Invariance, PTL

\* No step brings a revoked session back, or changes whether it is verified:
\* every write to a session is conditional on its not being revoked, and a login
\* opens the session it is named by once.
THEOREM RevokedForGood == Spec => RevokedStaysRevoked
<1>1. IInv /\ [Next]_vars =>
        [\A s \in SessionIds : session[s].state = "revoked" => session'[s] = session[s]]_vars
  BY IInvKept DEF SessionStep
<1> QED BY <1>1, Invariance, PTL DEF Spec, RevokedStaysRevoked

(* ------------------------ one code, one session ------------------------ *)

\* A session is begun by one that is open, and only open ones have answered anything.
Begun ==
  /\ \A a \in Asks : ask[a].pc \notin {"new", "done"} => session[ask[a].session].state # "none"
  /\ \A s \in SessionIds : session[s].state = "none" => session[s].proofs = {}

\* The enrolments that may have been confirmed.
Minted(c) ==
  c \in Asks =>
    \/ ask[c].pc = "done"
    \/ ask[c].kind = "confirm" /\ ask[c].pc \in {"codes", "mark", "revoke"}

\* What an ask is about to prove with a code it has used up.
Pending(a) == ask[a].pc \in {"codes", "mark"}

\* What a session has proved, or an ask is about to.
Proves(x) ==
  IF x \in SessionIds THEN session[x].proofs ELSE IF Pending(x) THEN {ProofOf(x)} ELSE {}

Holders == SessionIds \cup Asks

\* Nothing names an enrolment before it is confirmed.
NothingUnminted ==
  /\ credential.confirmed # None => Minted(credential.confirmed)
  /\ \A c \in recovery : Minted(c)
  /\ \A a \in Asks : ask[a].saw.confirmed # None => Minted(ask[a].saw.confirmed)
  /\ \A x \in Holders : \A p \in Proves(x) : Minted(p.under)

\* The recovery codes of an enrolment are stored once, and one that is stored has proved
\* nothing.
CodesUnspent ==
  /\ \A c \in Asks : ask[c].pc = "codes" => c \notin recovery
  /\ \A x \in Holders : \A p \in Proves(x) :
       p.step = 0 => /\ p.under \notin recovery
                     /\ p.under \in Asks => ask[p.under].pc # "codes"

\* No step later than the last one recorded has proved anything.
StepsRecorded ==
  \A x \in Holders : \A p \in Proves(x) :
    p.under = credential.confirmed => p.step <= credential.last

\* A code of the factor is used by one.
OneHolder ==
  \A x, y \in Holders :
    x # y => \A p \in Proves(x) \cap Proves(y) : p.under # credential.confirmed

CodesOnce == Begun /\ NothingUnminted /\ CodesUnspent /\ StepsRecorded /\ OneHolder

\* What an ask does moves its own record alone, and unmints nothing.
LEMMA MintedKept ==
  ASSUME TypeOK, NEW a \in Asks, NEW pc, Continue(a, pc),
         \/ pc = "done"
         \/ ask[a].kind = "confirm" /\ pc \in {"codes", "mark", "revoke"}
         \/ ask[a].kind # "confirm" /\ ask[a].pc # "done"
  PROVE  \A c : Minted(c) => Minted(c)'
<1>1. ask \in [Asks -> Ask]
  BY DEF TypeOK
<1>2. /\ \A b \in Asks : b # a => ask'[b] = ask[b]
      /\ pc # "done" => ask'[a].pc = pc /\ ask'[a].kind = ask[a].kind
      /\ pc = "done" => ask'[a].pc = "done"
  BY <1>1, Continued
<1> QED BY <1>2 DEF Minted

\* Sessions and asks are told apart.
LEMMA HoldersApart ==
  /\ SessionIds \cap Asks = {}
  /\ None \notin Enrolments /\ None \notin SessionIds
  BY TwoFactorAssumption, SessionsAssumption DEF SessionIds, Enrolments

\* What a session or an ask has proved, by where it stands.
LEMMA ProvesOf ==
  /\ \A s \in SessionIds : Proves(s) = session[s].proofs /\ Proves(s)' = session'[s].proofs
  /\ \A a \in Asks : /\ Pending(a) => Proves(a) = {ProofOf(a)}
                     /\ ~Pending(a) => Proves(a) = {}
                     /\ Pending(a)' => Proves(a)' = {ProofOf(a)'}
                     /\ ~Pending(a)' => Proves(a)' = {}
  BY HoldersApart DEF Proves

\* A step that proves nothing new, mints nothing and takes back no record.
LEMMA NothingProved ==
  ASSUME CodesOnce, Begun',
         \A x \in Holders : Proves(x)' \subseteq Proves(x),
         \A c : Minted(c) => Minted(c)',
         credential'.confirmed \in {None, credential.confirmed},
         credential'.confirmed = credential.confirmed /\ credential.confirmed # None =>
           \A step \in 0..Steps : step <= credential.last => step <= credential'.last,
         \A x \in Holders : \A p \in Proves(x) : p.under # None /\ p.step \in 0..Steps,
         recovery' \subseteq recovery,
         \A a \in Asks : \/ ask'[a].saw.confirmed \in {None, ask[a].saw.confirmed}
                         \/ ask'[a].saw.confirmed = credential.confirmed,
         \A a \in Asks : ask'[a].pc = "codes" => ask[a].pc = "codes"
  PROVE  CodesOnce'
<1> USE DEF CodesOnce
<1>1. NothingUnminted'
  BY DEF NothingUnminted
<1>2. CodesUnspent'
  BY DEF CodesUnspent
<1>3. StepsRecorded'
  BY DEF StepsRecorded
<1>4. OneHolder'
  BY DEF OneHolder
<1> QED BY <1>1, <1>2, <1>3, <1>4

\* Every proof, made or about to be, is one.
LEMMA ProofsTyped ==
  ASSUME TypeOK, AskShape
  PROVE  \A x \in Holders : \A p \in Proves(x) : p \in Proof /\ p.under # None /\ p.step \in 0..Steps
<1>1. ASSUME NEW s \in SessionIds PROVE Proves(s) \subseteq Proof
  BY ProvesOf DEF TypeOK, Session
<1>2. ASSUME NEW a \in Asks, Pending(a) PROVE ProofOf(a) \in Proof
  <2>1. ask[a] \in Ask /\ (ask[a].kind = "confirm" \/ ask[a].saw.confirmed # None)
    BY <1>2 DEF TypeOK, AskShape, Pending
  <2> QED BY <2>1 DEF ProofOf, Proof, Ask, Credential, Enrolments
<1>3. \A p \in Proof : p.under # None /\ p.step \in 0..Steps
  BY HoldersApart DEF Proof
<1>4. ASSUME NEW x \in Holders, NEW p \in Proves(x) PROVE p \in Proof
  BY <1>1, <1>2, <1>4, ProvesOf DEF Holders
<1> QED BY <1>3, <1>4

\* Sessions that only end, or are opened without a proof, keep what was begun.
LEMMA BegunKept ==
  ASSUME Begun, \A s \in SessionIds : /\ session'[s].proofs = session[s].proofs
                                      /\ session'[s].state = "none" => session[s].state = "none",
         \A a \in Asks : ask'[a].pc \notin {"new", "done"} =>
           \/ ask'[a].session = ask[a].session /\ ask[a].pc \notin {"new", "done"}
           \/ session[ask'[a].session].state = "live",
         \A a \in Asks : ask'[a].pc \notin {"new", "done"} => ask'[a].session \in SessionIds
  PROVE  Begun'
  BY DEF Begun

LEMMA RevokedProofs ==
  ASSUME session \in [SessionIds -> Session], NEW ids, Revoke(ids)
  PROVE  \A s \in SessionIds : /\ session'[s].proofs = session[s].proofs
                               /\ session'[s].state = "none" => session[s].state = "none"
                               /\ session'[s].state = "live" => session[s].state = "live" /\ s \notin ids
  BY DEF Revoke, Session

LEMMA BegunCodes ==
  ASSUME TypeOK, AskShape, CodesOnce, NEW a \in Asks, NEW s \in SessionIds, NEW kind \in AskKinds,
         NEW pc \in {"upsert", "confirm", "claim"}, NEW step \in 0..Steps, Begin(a, s, kind, pc, step)
  PROVE  CodesOnce'
<1> USE DEF Begin
<1>1. /\ ask'[a] = [kind |-> kind, pc |-> pc, session |-> s, saw |-> credential, step |-> step]
      /\ \A b \in Asks : b # a => ask'[b] = ask[b]
      /\ ask[a].pc = "new" /\ session[s].state = "live"
  BY DEF TypeOK, NextAsk, Resolves, Live
<1>2. Begun'
  BY <1>1, BegunKept DEF CodesOnce, AskShape, Begun
<1>3. \A c : Minted(c) => Minted(c)'
  BY <1>1 DEF Minted
<1>4. \A x \in Holders : Proves(x)' \subseteq Proves(x)
  <2>1. \A b \in Asks : b # a => Proves(b)' = Proves(b)
    BY <1>1 DEF Proves, Pending, ProofOf
  <2>2. Proves(a)' = {}
    BY <1>1, ProvesOf DEF Pending
  <2>3. \A t \in SessionIds : Proves(t)' = Proves(t)
    BY ProvesOf
  <2> QED BY <2>1, <2>2, <2>3 DEF Holders
<1> QED BY <1>1, <1>2, <1>3, <1>4, NothingProved, ProofsTyped

\* A request about the factor that is answered, leaving no more than it found.
LEMMA EndedCodes ==
  ASSUME TypeOK, AskShape, CodesOnce, NEW a \in Asks, Continue(a, "done"),
         session' = session \/ \E ids : Revoke(ids),
         credential'.confirmed = None \/ credential' = credential,
         recovery' \subseteq recovery
  PROVE  CodesOnce'
<1>1. /\ ask'[a] = [NewAsk EXCEPT !.pc = "done"]
      /\ \A b \in Asks : b # a => ask'[b] = ask[b]
  BY DEF Continue, TypeOK
<1>2. ask'[a].pc = "done" /\ ask'[a].saw.confirmed = None
  BY <1>1 DEF NewAsk, NoCredential
<1>3. \A s \in SessionIds : /\ session'[s].proofs = session[s].proofs
                            /\ session'[s].state = "none" => session[s].state = "none"
  BY RevokedProofs DEF TypeOK
<1>4. Begun'
  BY <1>1, <1>2, <1>3, BegunKept DEF CodesOnce, AskShape
<1>5. \A c : Minted(c) => Minted(c)'
  BY MintedKept
<1>6. \A x \in Holders : Proves(x)' \subseteq Proves(x)
  <2>1. \A b \in Asks : b # a => Proves(b)' = Proves(b)
    BY <1>1, HoldersApart DEF Proves, Pending, ProofOf
  <2>2. Proves(a)' = {}
    BY <1>2, ProvesOf DEF Pending
  <2>3. \A t \in SessionIds : Proves(t)' = Proves(t)
    BY <1>3, ProvesOf
  <2> QED BY <2>1, <2>2, <2>3 DEF Holders
<1> QED BY <1>1, <1>2, <1>4, <1>5, <1>6, NothingProved, ProofsTyped

\* An ask that moves on keeps its fields and its place among the begun.
LEMMA MovedOn ==
  ASSUME TypeOK, AskShape, Begun, NEW a \in Asks, NEW pc \in {"codes", "mark", "revoke", "delete"},
         ask[a].pc \notin {"new", "done"}, Continue(a, pc), UNCHANGED session
  PROVE  /\ \A b \in Asks : b # a => ask'[b] = ask[b]
         /\ ask'[a].pc = pc /\ ask'[a].kind = ask[a].kind /\ ask'[a].session = ask[a].session
         /\ ask'[a].saw = ask[a].saw /\ ask'[a].step = ask[a].step
         /\ ProofOf(a)' = ProofOf(a)
         /\ \A b \in Asks : b # a => Proves(b)' = Proves(b)
         /\ \A s \in SessionIds : Proves(s)' = Proves(s)
         /\ Begun'
<1>1. /\ \A b \in Asks : b # a => ask'[b] = ask[b]
      /\ ask'[a].pc = pc /\ ask'[a].kind = ask[a].kind /\ ask'[a].session = ask[a].session
      /\ ask'[a].saw = ask[a].saw /\ ask'[a].step = ask[a].step
  BY Continued DEF TypeOK
<1>2. ProofOf(a)' = ProofOf(a)
  BY <1>1 DEF ProofOf
<1>3. \A b \in Asks : b # a => Proves(b)' = Proves(b)
  BY <1>1 DEF Proves, Pending, ProofOf
<1>4. \A s \in SessionIds : Proves(s)' = Proves(s)
  BY ProvesOf
<1>5. Begun'
  BY <1>1, BegunKept DEF AskShape
<1> QED BY <1>1, <1>2, <1>3, <1>4, <1>5

LEMMA ConfirmedCodes ==
  ASSUME TypeOK, AskShape, CodesOnce, NEW a \in Asks, ConfirmCredential(a)
  PROVE  CodesOnce'
<1> USE DEF CodesOnce
<1>1. /\ ask[a].pc = "confirm" /\ ask[a].kind = "confirm" /\ ask[a].step > 0
      /\ UNCHANGED <<session, recovery>>
  BY DEF ConfirmCredential, At, AskShape
<1>2. CASE Continue(a, "done") /\ UNCHANGED credential
  BY <1>1, <1>2, EndedCodes
<1>3. CASE /\ credential' = [credential EXCEPT !.confirmed = a, !.last = ask[a].step]
           /\ Continue(a, "codes")
  <2>1. /\ \A b \in Asks : b # a => ask'[b] = ask[b]
        /\ ask'[a].pc = "codes" /\ ask'[a].kind = "confirm" /\ ask'[a].saw = ask[a].saw
        /\ ProofOf(a)' = ProofOf(a)
        /\ \A b \in Asks : b # a => Proves(b)' = Proves(b)
        /\ \A s \in SessionIds : Proves(s)' = Proves(s)
        /\ Begun'
    BY <1>1, <1>3, MovedOn
  <2>2. ProofOf(a) = [under |-> a, step |-> ask[a].step]
    BY <1>1 DEF ProofOf
  <2>3. /\ Proves(a)' = {[under |-> a, step |-> ask[a].step]} /\ Proves(a) = {}
        /\ ~Minted(a) /\ Minted(a)'
    BY <1>1, <2>1, <2>2, ProvesOf DEF Pending, Minted
  <2>4. credential'.confirmed = a /\ credential'.last = ask[a].step
    BY <1>3 DEF TypeOK, Credential
  <2>5. \A c : Minted(c) => Minted(c)'
    BY <1>1, <1>3, MintedKept
  <2>6. \A x \in Holders : x # a => Proves(x)' = Proves(x) /\ \A p \in Proves(x) : p.under # a
    BY <2>1, <2>3 DEF Holders, NothingUnminted
  <2>7. a \notin recovery /\ \A b \in Asks : ask[b].saw.confirmed # a
    BY <2>3, HoldersApart DEF NothingUnminted, Enrolments
  <2>8. NothingUnminted'
    BY <1>1, <2>1, <2>3, <2>4, <2>5, <2>6 DEF NothingUnminted
  <2>9. CodesUnspent'
    BY <1>1, <2>1, <2>3, <2>6, <2>7 DEF CodesUnspent
  <2>10. StepsRecorded'
    <3>1. ask[a].step <= ask[a].step
      BY DEF TypeOK, Ask
    <3> QED BY <2>3, <2>4, <2>6, <3>1 DEF StepsRecorded
  <2>11. OneHolder'
    BY <2>4, <2>6 DEF OneHolder
  <2> QED BY <2>1, <2>8, <2>9, <2>10, <2>11
<1> QED BY <1>2, <1>3 DEF ConfirmCredential

LEMMA StoredCodes ==
  ASSUME TypeOK, AskShape, CodesOnce, NEW a \in Asks, ReplaceRecoveryCodes(a)
  PROVE  CodesOnce'
<1> USE DEF CodesOnce
<1>1. /\ ask[a].pc = "codes" /\ ask[a].kind = "confirm" /\ ask[a].step > 0
      /\ UNCHANGED <<session, credential>> /\ recovery' = {a} /\ Continue(a, "mark")
  BY DEF ReplaceRecoveryCodes, At, AskShape
<1>2. /\ \A b \in Asks : b # a => ask'[b] = ask[b]
      /\ ask'[a].pc = "mark" /\ ask'[a].kind = "confirm" /\ ask'[a].saw = ask[a].saw
      /\ ProofOf(a)' = ProofOf(a)
      /\ \A b \in Asks : b # a => Proves(b)' = Proves(b)
      /\ \A s \in SessionIds : Proves(s)' = Proves(s)
      /\ Begun'
  BY <1>1, MovedOn
<1>3. Proves(a)' = Proves(a)
  BY <1>1, <1>2, ProvesOf DEF Pending
<1>4. \A x \in Holders : Proves(x)' = Proves(x)
  BY <1>2, <1>3 DEF Holders
<1>5. \A c : Minted(c) => Minted(c)'
  BY <1>1, MintedKept
<1>6. Minted(a)
  BY <1>1 DEF Minted
<1>7. NothingUnminted'
  BY <1>1, <1>2, <1>4, <1>5, <1>6 DEF NothingUnminted
<1>8. CodesUnspent'
  BY <1>1, <1>2, <1>4 DEF CodesUnspent
<1>9. StepsRecorded' /\ OneHolder'
  BY <1>1, <1>4 DEF StepsRecorded, OneHolder
<1> QED BY <1>2, <1>7, <1>8, <1>9

\* A code that is claimed has not been used: what it will prove is proved by nobody.
LEMMA ClaimedCodes ==
  ASSUME TypeOK, AskShape, CodesOnce, NEW a \in Asks, Claim(a)
  PROVE  CodesOnce'
<1> DEFINE c == ask[a].saw.confirmed
           n == ask[a].step
<1> USE DEF CodesOnce
<1>1. /\ ask[a].pc = "claim" /\ ask[a].kind # "confirm" /\ c # None /\ n \in 0..Steps
      /\ UNCHANGED session /\ credential.last \in 0..Steps
  BY DEF Claim, At, AskShape, TypeOK, Ask, Credential
<1>2. CASE Continue(a, "done") /\ UNCHANGED <<credential, recovery>>
  BY <1>1, <1>2, EndedCodes
<1>3. ASSUME Continue(a, "mark"), credential'.confirmed = credential.confirmed,
             credential'.last \in 0..Steps,
             credential.last <= credential'.last, recovery' \subseteq recovery,
             n = 0 => c \in recovery /\ c \notin recovery',
             n # 0 => credential.last < n /\ n <= credential'.last
      PROVE  CodesOnce'
  <2>1. /\ \A b \in Asks : b # a => ask'[b] = ask[b]
        /\ ask'[a].pc = "mark" /\ ask'[a].kind = ask[a].kind /\ ask'[a].saw = ask[a].saw
        /\ ProofOf(a)' = ProofOf(a)
        /\ \A b \in Asks : b # a => Proves(b)' = Proves(b)
        /\ \A s \in SessionIds : Proves(s)' = Proves(s)
        /\ Begun'
    BY <1>1, <1>3, MovedOn
  <2>2. ProofOf(a) = [under |-> c, step |-> n]
    BY <1>1 DEF ProofOf
  <2>3. Proves(a)' = {[under |-> c, step |-> n]}
    BY <2>1, <2>2, ProvesOf DEF Pending
  <2>4. \A d : Minted(d) => Minted(d)'
    BY <1>1, <1>3, MintedKept
  <2>5. \A x \in Holders : x # a => Proves(x)' = Proves(x)
    BY <2>1 DEF Holders
  <2>6. \A x \in Holders : \A p \in Proves(x) : p.step \in 0..Steps
    BY ProofsTyped
  <2>7. Minted(c)
    BY <1>1 DEF NothingUnminted
  <2>8. NothingUnminted'
    BY <1>3, <2>1, <2>3, <2>4, <2>5, <2>7 DEF NothingUnminted
  <2>9. CodesUnspent'
    <3>1. n = 0 => (c \in Asks => ask[c].pc # "codes" /\ ask'[c].pc # "codes")
      BY <1>1, <1>3, <2>1 DEF CodesUnspent
    <3> QED BY <1>1, <1>3, <2>1, <2>3, <2>5, <3>1 DEF CodesUnspent
  <2>10. StepsRecorded'
    <3>1. ASSUME NEW x \in Holders, NEW p \in Proves(x)', p.under = credential'.confirmed
          PROVE  p.step <= credential'.last
      <4>1. CASE x = a
        BY <1>1, <1>3, <2>3, <3>1, <4>1
      <4>2. CASE x # a
        <5>1. p \in Proves(x) /\ p.step \in 0..Steps /\ p.step <= credential.last
          BY <1>3, <2>5, <2>6, <3>1, <4>2 DEF StepsRecorded
        <5> QED BY <1>1, <1>3, <5>1
      <4> QED BY <4>1, <4>2
    <3> QED BY <3>1 DEF StepsRecorded
  <2>11. OneHolder'
    <3>1. ASSUME NEW x \in Holders, x # a, [under |-> c, step |-> n] \in Proves(x)
          PROVE  c # credential.confirmed
      <4>1. CASE n = 0
        BY <1>3, <3>1, <4>1 DEF CodesUnspent
      <4>2. CASE n # 0
        <5>1. c = credential.confirmed => n <= credential.last
          BY <3>1 DEF StepsRecorded
        <5> QED BY <1>1, <1>3, <4>2, <5>1
      <4> QED BY <4>1, <4>2
    <3> HIDE DEF c, n
    <3> QED BY <1>3, <2>3, <2>5, <3>1 DEF OneHolder
  <2> QED BY <2>1, <2>8, <2>9, <2>10, <2>11
<1>4. CASE /\ n > 0 /\ credential.last < n
           /\ credential' = [credential EXCEPT !.last = n]
           /\ Continue(a, "mark") /\ UNCHANGED recovery
  <2>1. credential'.confirmed = credential.confirmed /\ credential'.last = n
    BY <1>4 DEF TypeOK, Credential
  <2> QED BY <1>1, <1>3, <1>4, <2>1
<1>5. CASE /\ n = 0 /\ c \in recovery
           /\ recovery' = recovery \ {c}
           /\ Continue(a, "mark") /\ UNCHANGED credential
  BY <1>1, <1>3, <1>5
<1> QED BY <1>2, <1>4, <1>5 DEF Claim

\* What an ask was about to prove becomes its session's.
LEMMA MarkedCodes ==
  ASSUME TypeOK, AskShape, CodesOnce, NEW a \in Asks, MarkVerified(a)
  PROVE  CodesOnce'
<1> USE DEF CodesOnce
<1>0. PICK s \in SessionIds : s = ask[a].session
  BY DEF MarkVerified, At, AskShape
<1>1. /\ ask[a].pc = "mark" /\ s = ask[a].session /\ session[s].state # "none"
      /\ UNCHANGED <<credential, recovery>> /\ Continue(a, AfterMark(a))
      /\ AfterMark(a) \in {"revoke", "delete", "done"}
      /\ ask[a].kind = "confirm" => AfterMark(a) = "revoke"
  BY <1>0 DEF MarkVerified, At, AskShape, Begun, AfterMark
<1>2. /\ \A b \in Asks : b # a => ask'[b] = ask[b]
      /\ ask'[a].pc = AfterMark(a)
      /\ ask'[a].pc # "done" => ask'[a].session = s /\ ask'[a].saw = ask[a].saw
      /\ ask'[a].pc = "done" => ask'[a].saw.confirmed = None
  <2>1. \/ AfterMark(a) = "done" /\ ask'[a] = [NewAsk EXCEPT !.pc = "done"]
        \/ AfterMark(a) # "done"
    BY <1>1 DEF Continue, TypeOK
  <2>2. AfterMark(a) = "done" => ask'[a].saw.confirmed = None
    BY <2>1 DEF NewAsk, NoCredential
  <2> QED BY <1>1, <2>2, Continued DEF TypeOK
<1>3. /\ session'[s].state = session[s].state
      /\ session'[s].proofs = IF Live(s) THEN session[s].proofs \cup {ProofOf(a)} ELSE session[s].proofs
      /\ \A t \in SessionIds : t # s => session'[t] = session[t]
  BY <1>1 DEF MarkVerified, TypeOK, Session
<1>4. Begun'
  BY <1>1, <1>2, <1>3 DEF Begun, AskShape
<1>5. \A c : Minted(c) => Minted(c)'
  BY <1>1, MintedKept
<1>6. /\ Proves(a)' = {} /\ Proves(a) = {ProofOf(a)}
      /\ \A b \in Asks : b # a => Proves(b)' = Proves(b)
      /\ Proves(s)' \subseteq Proves(s) \cup {ProofOf(a)}
      /\ \A t \in SessionIds : t # s => Proves(t)' = Proves(t)
  <2>1. Proves(a)' = {} /\ Proves(a) = {ProofOf(a)}
    BY <1>1, <1>2, ProvesOf DEF Pending
  <2>2. \A b \in Asks : b # a => Proves(b)' = Proves(b)
    BY <1>2, HoldersApart DEF Proves, Pending, ProofOf
  <2>3. Proves(s)' \subseteq Proves(s) \cup {ProofOf(a)}
    <3>1. Proves(s)' = session'[s].proofs /\ Proves(s) = session[s].proofs
      BY <1>1, ProvesOf
    <3> QED BY <1>3, <3>1
  <2>4. \A t \in SessionIds : t # s => Proves(t)' = Proves(t)
    BY <1>3, ProvesOf
  <2> QED BY <2>1, <2>2, <2>3, <2>4
<1>7. /\ a \in Holders /\ s \in Holders /\ s # a
      /\ \A x \in Holders : \A p \in Proves(x)' : p \in Proves(x) \/ (x = s /\ p \in Proves(a))
  <2>1. a \in Holders /\ s \in Holders /\ s # a
    BY <1>1, HoldersApart DEF Holders
  <2>2. ASSUME NEW x \in Holders, NEW p \in Proves(x)'
        PROVE  p \in Proves(x) \/ (x = s /\ p \in Proves(a))
    <3>1. CASE x = a
      BY <1>6, <2>2, <3>1
    <3>2. CASE x = s
      BY <1>6, <2>2, <3>2
    <3>3. CASE x # a /\ x # s
      BY <1>6, <2>2, <3>3 DEF Holders
    <3> QED BY <3>1, <3>2, <3>3
  <2> QED BY <2>1, <2>2
<1>8. NothingUnminted'
  BY <1>1, <1>2, <1>5, <1>7 DEF NothingUnminted
<1>9. CodesUnspent'
  BY <1>1, <1>2, <1>7 DEF CodesUnspent
<1>10. StepsRecorded'
  BY <1>1, <1>7 DEF StepsRecorded
<1>11. OneHolder'
  <2>1. ASSUME NEW x \in Holders, NEW y \in Holders, x # y, NEW p \in Proves(x)', p \in Proves(y)'
        PROVE  p.under # credential'.confirmed
    <3>1. x # a /\ y # a
      BY <1>6, <2>1
    <3>2. PICK v \in Holders, w \in Holders : v # w /\ p \in Proves(v) /\ p \in Proves(w)
      BY <1>7, <2>1, <3>1
    <3> QED BY <1>1, <3>2 DEF OneHolder
  <2> QED BY <2>1 DEF OneHolder
<1> QED BY <1>4, <1>8, <1>9, <1>10, <1>11

LEMMA AskCodes ==
  ASSUME TypeOK, AskShape, CodesOnce, AskNext
  PROVE  CodesOnce'
<1>1. PICK a \in Asks :
        \/ \E s \in SessionIds, kind \in AskKinds, step \in 0..Steps,
              pc \in {"upsert", "confirm", "claim"} : Begin(a, s, kind, pc, step)
        \/ UpsertUnconfirmed(a) \/ ConfirmCredential(a) \/ ReplaceRecoveryCodes(a)
        \/ RevokeOthers(a) \/ Claim(a) \/ MarkVerified(a) \/ DeleteForUser(a)
  BY AskCases
<1>2. CASE UpsertUnconfirmed(a) \/ RevokeOthers(a) \/ DeleteForUser(a)
  <2>1. /\ Continue(a, "done") /\ recovery' \subseteq recovery
        /\ session' = session \/ \E ids : Revoke(ids)
    BY <1>2 DEF UpsertUnconfirmed, RevokeOthers, DeleteForUser
  <2>2. credential'.confirmed = None \/ credential' = credential
    BY <1>2 DEF UpsertUnconfirmed, RevokeOthers, DeleteForUser, NoCredential
  <2> QED BY <2>1, <2>2, EndedCodes
<1> QED BY <1>1, <1>2, BegunCodes, ConfirmedCodes, StoredCodes, ClaimedCodes, MarkedCodes

\* What is done to the account leaves the codes alone: it ends sessions, or opens them.
LEMMA AccountSessionsKept ==
  ASSUME TypeOK, Opened, Begun, AccountNext
  PROVE  \A s \in SessionIds : /\ session'[s].proofs = session[s].proofs
                               /\ session'[s].state = "none" => session[s].state = "none"
                               /\ session'[s].state = "live" =>
                                    session[s].state = "live" \/ session[s].state = "none"
<1>1. \/ session' = session
      \/ \E ids : Revoke(ids)
      \/ \E q \in Requests : IssueSession(q)
  BY DEF AccountNext, LoginRead, ResetRead, VerifyRead, Resend, RegisterRead, InsertUser,
         MarkEmailVerified, RecordFailedLogin, RecordSuccessfulLogin, CancelDeletion, RequestReset,
         InvalidateTokens, CreateToken, ConsumeToken, UpdatePasswordHash, RevokeAllForUser, Suspend,
         RequestDies, Logout, SessionRefused, Unlock
<1>2. ASSUME NEW q \in Requests, IssueSession(q)
      PROVE  /\ session[q].state = "none" /\ session'[q].state = "live"
             /\ session'[q].proofs = session[q].proofs
             /\ \A s \in SessionIds : s # q => session'[s] = session[s]
  BY <1>2 DEF IssueSession, Opened, TypeOK, Session, SessionIds
<1> QED BY <1>1, <1>2, RevokedProofs DEF TypeOK

LEMMA AccountCodes ==
  ASSUME TypeOK, AskShape, Opened, CodesOnce, AccountNext, UNCHANGED <<role, credential, recovery, ask>>
  PROVE  CodesOnce'
<1>1. \A s \in SessionIds : /\ session'[s].proofs = session[s].proofs
                            /\ session'[s].state = "none" => session[s].state = "none"
  BY AccountSessionsKept DEF CodesOnce
<1>2. Begun'
  BY <1>1, BegunKept DEF CodesOnce, AskShape
<1>3. \A x \in Holders : Proves(x)' = Proves(x)
  BY <1>1 DEF Proves, Pending, ProofOf
<1>4. \A c : Minted(c) => Minted(c)'
  BY DEF Minted
<1> QED BY <1>2, <1>3, <1>4, NothingProved, ProofsTyped

(* ------------------------ verified by this factor ---------------------- *)

HasAnswered(s, c) == \E p \in session[s].proofs : p.under = c

\* Before the other sessions are signed out, the one that confirmed has answered.
ConfirmedFirst ==
  \A c \in Asks :
    ask[c].pc = "revoke" /\ Live(ask[c].session) => HasAnswered(ask[c].session, c)

Complete(c) == c # None /\ (c \in Asks => ask[c].pc = "done")

\* What an ask may prove is of enrolment c.
Proving(a, c) ==
  \/ ask[a].kind # "confirm" /\ ask[a].saw.confirmed = c
  \/ ask[a].kind = "confirm" /\ a = c

\* Once the enrolment is complete, what is verified, or about to be, has answered it.
VerifiedNow ==
  Complete(credential.confirmed) =>
    /\ \A s \in SessionIds :
         Live(s) /\ session[s].proofs # {} => HasAnswered(s, credential.confirmed)
    /\ \A a \in Asks :
         /\ ask[a].pc \in {"claim", "codes", "mark"} /\ Live(ask[a].session)
         /\ ~Proving(a, credential.confirmed)
         => HasAnswered(ask[a].session, credential.confirmed)

ThisFactor == ConfirmedFirst /\ VerifiedNow

\* A step by which nothing is verified and no enrolment completed.
LEMMA NothingVerified ==
  ASSUME AskShape, Begun, ThisFactor,
         \A s \in SessionIds : /\ session'[s].proofs = session[s].proofs
                               /\ Live(s)' => Live(s) \/ session[s].state = "none",
         \A b \in Asks : ask'[b].pc \in {"claim", "codes", "mark"} =>
           \/ /\ ask[b].pc \in {"claim", "codes", "mark"} /\ ask'[b].session = ask[b].session
              /\ ask'[b].kind = ask[b].kind /\ ask'[b].saw = ask[b].saw
           \/ ask'[b].kind # "confirm" /\ ask'[b].saw.confirmed = credential'.confirmed,
         \A b \in Asks : ask'[b].pc = "revoke" => ask[b].pc = "revoke" /\ ask'[b].session = ask[b].session,
         Complete(credential.confirmed)' =>
           credential'.confirmed = credential.confirmed /\ Complete(credential.confirmed)
  PROVE  ThisFactor'
<1>1. \A s \in SessionIds : \A c : HasAnswered(s, c)' = HasAnswered(s, c)
  BY DEF HasAnswered
<1>2. ConfirmedFirst'
  <2>1. ASSUME NEW c \in Asks, ask'[c].pc = "revoke", Live(ask[c].session)'
        PROVE  HasAnswered(ask[c].session, c)'
    <3>1. PICK s \in SessionIds : s = ask[c].session /\ s = ask'[c].session /\ session[s].state # "none"
      BY <2>1 DEF AskShape, Begun
    <3>2. Live(s)
      BY <2>1, <3>1 DEF Live
    <3>3. HasAnswered(s, c)
      BY <2>1, <3>1, <3>2 DEF ThisFactor, ConfirmedFirst
    <3> QED BY <3>1, <3>3 DEF HasAnswered
  <2> QED BY <2>1 DEF ConfirmedFirst
<1>3. VerifiedNow'
  <2> SUFFICES ASSUME Complete(credential.confirmed)' PROVE VerifiedNow'
    BY DEF VerifiedNow
  <2>1. credential'.confirmed = credential.confirmed /\ Complete(credential.confirmed)
    OBVIOUS
  <2>2. ASSUME NEW s \in SessionIds, Live(s)', session'[s].proofs # {}
        PROVE  HasAnswered(s, credential.confirmed)'
    <3>1. Live(s) /\ session[s].proofs # {}
      BY <2>2 DEF Begun
    <3> QED BY <2>1, <3>1 DEF ThisFactor, VerifiedNow, HasAnswered
  <2>3. ASSUME NEW b \in Asks, ask'[b].pc \in {"claim", "codes", "mark"}, Live(ask[b].session)',
               ~Proving(b, credential.confirmed)'
        PROVE  HasAnswered(ask[b].session, credential.confirmed)'
    <3>1. /\ ask[b].pc \in {"claim", "codes", "mark"} /\ ask'[b].session = ask[b].session
          /\ ask'[b].kind = ask[b].kind /\ ask'[b].saw = ask[b].saw
      BY <2>3 DEF Proving
    <3>2. PICK s \in SessionIds : s = ask[b].session /\ s = ask'[b].session /\ session[s].state # "none"
      BY <3>1 DEF AskShape, Begun
    <3>3. Live(s)
      BY <2>3, <3>2 DEF Live
    <3>4. ~Proving(b, credential.confirmed)
      BY <2>1, <2>3, <3>1 DEF Proving
    <3>5. HasAnswered(s, credential.confirmed)
      BY <2>1, <3>1, <3>2, <3>3, <3>4 DEF ThisFactor, VerifiedNow
    <3> QED BY <2>1, <3>2, <3>5 DEF HasAnswered
  <2> QED BY <2>2, <2>3 DEF VerifiedNow
<1> QED BY <1>2, <1>3 DEF ThisFactor

\* An enrolment that is still going on when its ask is answered was not in force, unless
\* the ask was at its last step.
LEMMA EndedFactor ==
  ASSUME TypeOK, AskShape, CodesOnce, ThisFactor, NEW a \in Asks, Continue(a, "done"),
         ask[a].pc \in {"upsert", "confirm", "claim", "delete"},
         session' = session,
         credential'.confirmed = None \/ credential' = credential
  PROVE  ThisFactor'
<1>1. /\ \A b \in Asks : b # a => ask'[b] = ask[b]
      /\ ask'[a].pc = "done"
  BY Continued DEF TypeOK
<1>2. Complete(credential.confirmed)' =>
        credential'.confirmed = credential.confirmed /\ Complete(credential.confirmed)
  BY <1>1 DEF Complete, CodesOnce, NothingUnminted, Minted
<1> QED BY <1>1, <1>2, NothingVerified DEF CodesOnce, Live

LEMMA MovedFactor ==
  ASSUME TypeOK, AskShape, CodesOnce, ThisFactor, NEW a \in Asks, NEW pc \in {"codes", "mark"},
         Continue(a, pc), session' = session,
         \/ ask[a].pc = "confirm" /\ pc = "codes" /\ credential'.confirmed = a
         \/ ask[a].pc \in {"codes", "claim"} /\ credential'.confirmed = credential.confirmed
  PROVE  ThisFactor'
<1>1. /\ \A b \in Asks : b # a => ask'[b] = ask[b]
      /\ ask'[a].pc = pc /\ ask'[a].kind = ask[a].kind /\ ask'[a].session = ask[a].session
      /\ ask'[a].saw = ask[a].saw
  BY Continued DEF TypeOK
<1>2. CASE ask[a].pc = "confirm" /\ pc = "codes" /\ credential'.confirmed = a
  <2>1. ~Complete(credential.confirmed)'
    BY <1>1, <1>2 DEF Complete
  <2>2. VerifiedNow'
    BY <2>1 DEF VerifiedNow
  <2>3. ConfirmedFirst'
    BY <1>1, <1>2 DEF ThisFactor, ConfirmedFirst, HasAnswered, Live
  <2> QED BY <2>2, <2>3 DEF ThisFactor
<1>3. CASE ask[a].pc \in {"codes", "claim"} /\ credential'.confirmed = credential.confirmed
  <2>1. Complete(credential.confirmed)' => Complete(credential.confirmed)
    BY <1>1, <1>3 DEF Complete
  <2> QED BY <1>1, <1>3, <2>1, NothingVerified DEF CodesOnce, Live
<1> QED BY <1>2, <1>3

LEMMA BegunFactor ==
  ASSUME TypeOK, AskShape, CodesOnce, ThisFactor, NEW a \in Asks, NEW s \in SessionIds,
         NEW kind \in AskKinds, NEW pc \in {"upsert", "confirm", "claim"}, NEW step \in 0..Steps,
         Begin(a, s, kind, pc, step), pc = "claim" => kind \in {"verify", "disable"}
  PROVE  ThisFactor'
<1>1. /\ ask'[a] = [kind |-> kind, pc |-> pc, session |-> s, saw |-> credential, step |-> step]
      /\ \A b \in Asks : b # a => ask'[b] = ask[b]
      /\ UNCHANGED <<session, credential>> /\ ask[a].pc = "new"
  BY DEF TypeOK, Begin, NextAsk
<1>2. Complete(credential.confirmed)' => Complete(credential.confirmed)
  BY <1>1 DEF Complete
<1> QED BY <1>1, <1>2, NothingVerified DEF CodesOnce, Live

\* The last step of an enrolment: the sessions it leaves open have answered it.
LEMMA CompletedFactor ==
  ASSUME TypeOK, AskShape, CodesOnce, ThisFactor, NEW a \in Asks, RevokeOthers(a)
  PROVE  ThisFactor'
<1>0. PICK s \in SessionIds : s = ask[a].session
  BY DEF RevokeOthers, At, AskShape
<1>1. /\ ask[a].pc = "revoke" /\ Revoke(SessionIds \ {s}) /\ Continue(a, "done")
      /\ UNCHANGED <<credential, recovery>>
  BY <1>0 DEF RevokeOthers, At
<1>2. /\ \A b \in Asks : b # a => ask'[b] = ask[b]
      /\ ask'[a].pc = "done"
  BY <1>1, Continued DEF TypeOK
<1>3. \A t \in SessionIds : /\ session'[t].proofs = session[t].proofs
                            /\ Live(t)' => Live(t) /\ t = s
  BY <1>1, RevokedProofs DEF TypeOK, Live
<1>4. CASE credential.confirmed # a
  <2>1. Complete(credential.confirmed)' => Complete(credential.confirmed)
    BY <1>1, <1>2, <1>4 DEF Complete
  <2> QED BY <1>1, <1>2, <1>3, <2>1, NothingVerified DEF CodesOnce
<1>5. CASE credential.confirmed = a
  <2>1. Live(s) => HasAnswered(s, a)
    BY <1>0, <1>1 DEF ThisFactor, ConfirmedFirst
  <2>2. Live(s)' => HasAnswered(s, a)'
    BY <1>3, <2>1 DEF HasAnswered
  <2>3. ConfirmedFirst'
    <3>1. ASSUME NEW c \in Asks, ask'[c].pc = "revoke", Live(ask[c].session)'
          PROVE  HasAnswered(ask[c].session, c)'
      <4>1. c # a /\ ask'[c] = ask[c] /\ ask[c].session \in SessionIds
        BY <1>2, <3>1 DEF AskShape
      <4>2. ask[c].session = s /\ Live(s)
        BY <1>3, <3>1, <4>1 DEF Live
      <4>3. HasAnswered(s, c)
        BY <3>1, <4>1, <4>2 DEF ThisFactor, ConfirmedFirst
      <4> QED BY <1>3, <4>1, <4>2, <4>3 DEF HasAnswered
    <3> QED BY <3>1 DEF ConfirmedFirst
  <2>4. VerifiedNow'
    <3>1. \A t \in SessionIds : Live(t)' => t = s
      BY <1>3
    <3>2. \A b \in Asks : ask'[b].pc \in {"claim", "codes", "mark"} => ask'[b].session \in SessionIds
      BY <1>2 DEF AskShape
    <3>3. \A b \in Asks : ask'[b].pc \in {"claim", "codes", "mark"} /\ Live(ask[b].session)'
                          => HasAnswered(ask[b].session, a)'
      BY <2>2, <3>1, <3>2 DEF Live, HasAnswered
    <3> QED BY <1>1, <1>5, <2>2, <3>1, <3>3 DEF VerifiedNow
  <2> QED BY <2>3, <2>4 DEF ThisFactor
<1> QED BY <1>4, <1>5

\* What is marked verified has answered the factor in force, now or before.
LEMMA MarkedFactor ==
  ASSUME TypeOK, AskShape, CodesOnce, ThisFactor, NEW a \in Asks, MarkVerified(a)
  PROVE  ThisFactor'
<1>0. PICK s \in SessionIds : s = ask[a].session
  BY DEF MarkVerified, At, AskShape
<1>1. /\ ask[a].pc = "mark" /\ session[s].state # "none"
      /\ UNCHANGED <<credential, recovery>> /\ Continue(a, AfterMark(a))
      /\ AfterMark(a) \in {"revoke", "delete", "done"}
      /\ ask[a].kind = "confirm" <=> AfterMark(a) = "revoke"
  BY <1>0 DEF MarkVerified, At, CodesOnce, Begun, AfterMark
<1>2. /\ \A b \in Asks : b # a => ask'[b] = ask[b]
      /\ ask'[a].pc = AfterMark(a)
      /\ ask'[a].pc # "done" => ask'[a].session = s /\ ask'[a].kind = ask[a].kind
  BY <1>0, <1>1, Continued DEF TypeOK
<1>3. /\ session'[s].state = session[s].state
      /\ session'[s].proofs = IF Live(s) THEN session[s].proofs \cup {ProofOf(a)} ELSE session[s].proofs
      /\ \A t \in SessionIds : t # s => session'[t] = session[t]
  BY <1>0 DEF MarkVerified, TypeOK, Session
<1>u. PICK u : u = ProofOf(a).under
  OBVIOUS
<1>4. /\ \A t \in SessionIds : Live(t)' = Live(t)
      /\ \A t \in SessionIds : \A c : HasAnswered(t, c) => HasAnswered(t, c)'
      /\ Live(s) => HasAnswered(s, u)'
  BY <1>3, <1>u DEF Live, HasAnswered
<1>5. ConfirmedFirst'
  <2>1. ASSUME NEW c \in Asks, ask'[c].pc = "revoke", Live(ask[c].session)'
        PROVE  HasAnswered(ask[c].session, c)'
    <3>1. CASE c = a
      <4>1. ask'[c].session = s /\ u = a /\ Live(s)'
        BY <1>u, <1>1, <1>2, <2>1, <3>1 DEF ProofOf, Live
      <4>2. HasAnswered(s, c)'
        BY <1>4, <3>1, <4>1
      <4> QED BY <4>1, <4>2 DEF HasAnswered
    <3>2. CASE c # a
      <4>1. PICK t \in SessionIds : t = ask[c].session /\ t = ask'[c].session
        BY <1>2, <2>1, <3>2 DEF AskShape
      <4>2. Live(t)
        BY <1>4, <2>1, <4>1 DEF Live
      <4>3. HasAnswered(t, c)
        BY <1>2, <2>1, <3>2, <4>1, <4>2 DEF ThisFactor, ConfirmedFirst
      <4>4. HasAnswered(t, c)'
        BY <1>4, <4>3
      <4> QED BY <4>1, <4>4 DEF HasAnswered
    <3> QED BY <3>1, <3>2
  <2> QED BY <2>1 DEF ConfirmedFirst
<1>6. VerifiedNow'
  <2> SUFFICES ASSUME Complete(credential.confirmed)' PROVE VerifiedNow'
    BY DEF VerifiedNow
  <2>0. PICK c : c = credential.confirmed /\ c = credential'.confirmed
    BY <1>1
  <2>1. Complete(c)
    BY <1>1, <1>2, <2>0 DEF Complete, CodesOnce, NothingUnminted, Minted
  <2>2. ASSUME NEW t \in SessionIds, Live(t)', session'[t].proofs # {}
        PROVE  HasAnswered(t, c)'
    <3>1. CASE t = s
      <4>1. CASE Proving(a, c)
        BY <1>u, <1>4, <2>2, <3>1, <4>1 DEF Proving, ProofOf
      <4>2. CASE ~Proving(a, c)
        <5>1. HasAnswered(s, c)
          BY <1>0, <1>1, <1>4, <2>0, <2>1, <2>2, <3>1, <4>2 DEF ThisFactor, VerifiedNow
        <5> QED BY <1>4, <3>1, <5>1
      <4> QED BY <4>1, <4>2
    <3>2. CASE t # s
      BY <1>3, <1>4, <2>0, <2>1, <2>2, <3>2 DEF ThisFactor, VerifiedNow
    <3> QED BY <3>1, <3>2
  <2>3. ASSUME NEW b \in Asks, ask'[b].pc \in {"claim", "codes", "mark"}, Live(ask[b].session)',
               ~Proving(b, credential.confirmed)'
        PROVE  HasAnswered(ask[b].session, credential.confirmed)'
    <3>1. b # a /\ ask'[b] = ask[b]
      BY <1>1, <1>2, <2>3
    <3>2. PICK t \in SessionIds : t = ask[b].session /\ t = ask'[b].session
      BY <2>3, <3>1 DEF AskShape
    <3>3. Live(t) /\ ~Proving(b, c)
      BY <1>4, <2>0, <2>3, <3>1, <3>2 DEF Live, Proving
    <3>4. HasAnswered(t, c)'
      BY <1>4, <2>0, <2>1, <2>3, <3>1, <3>2, <3>3 DEF ThisFactor, VerifiedNow
    <3> QED BY <2>0, <3>2, <3>4 DEF HasAnswered
  <2>4. \A t \in SessionIds : Live(t)' /\ session'[t].proofs # {} => HasAnswered(t, credential.confirmed)'
    BY <2>0, <2>2 DEF HasAnswered
  <2> QED BY <2>3, <2>4 DEF VerifiedNow
<1> QED BY <1>5, <1>6 DEF ThisFactor

LEMMA AskFactor ==
  ASSUME TypeOK, AskShape, CodesOnce, ThisFactor, AskNext
  PROVE  ThisFactor'
<1>1. PICK a \in Asks :
        \/ \E s \in SessionIds, kind \in AskKinds, step \in 0..Steps,
              pc \in {"upsert", "confirm", "claim"} :
             /\ Begin(a, s, kind, pc, step)
             /\ pc = "claim" => kind \in {"verify", "disable"}
        \/ UpsertUnconfirmed(a) \/ ConfirmCredential(a) \/ ReplaceRecoveryCodes(a)
        \/ RevokeOthers(a) \/ Claim(a) \/ MarkVerified(a) \/ DeleteForUser(a)
  BY AskCases
<1>2. CASE UpsertUnconfirmed(a) \/ DeleteForUser(a)
  <2>1. /\ Continue(a, "done") /\ session' = session /\ ask[a].pc \in {"upsert", "delete"}
        /\ credential'.confirmed = None
    BY <1>2 DEF UpsertUnconfirmed, DeleteForUser, At, NoCredential
  <2> QED BY <2>1, EndedFactor
<1>3. CASE ConfirmCredential(a) \/ ReplaceRecoveryCodes(a) \/ Claim(a)
  <2>1. /\ session' = session
        /\ \/ /\ Continue(a, "done") /\ ask[a].pc \in {"confirm", "claim"} /\ credential' = credential
           \/ /\ Continue(a, "codes") /\ ask[a].pc = "confirm" /\ credential'.confirmed = a
           \/ /\ Continue(a, "mark") /\ ask[a].pc \in {"codes", "claim"}
              /\ credential'.confirmed = credential.confirmed
    BY <1>3 DEF ConfirmCredential, ReplaceRecoveryCodes, Claim, At, TypeOK, Credential
  <2> QED BY <2>1, EndedFactor, MovedFactor
<1> QED BY <1>1, <1>2, <1>3, BegunFactor, CompletedFactor, MarkedFactor

LEMMA AccountFactor ==
  ASSUME TypeOK, AskShape, Opened, CodesOnce, ThisFactor, AccountNext,
         UNCHANGED <<role, credential, recovery, ask>>
  PROVE  ThisFactor'
<1>1. \A s \in SessionIds : /\ session'[s].proofs = session[s].proofs
                            /\ Live(s)' => Live(s) \/ session[s].state = "none"
  BY AccountSessionsKept DEF CodesOnce, Live
<1>2. Complete(credential.confirmed)' => Complete(credential.confirmed)
  BY DEF Complete
<1> QED BY <1>1, <1>2, NothingVerified DEF CodesOnce

(* ------------------------------- in every run -------------------------- *)

FInv == IInv /\ CodesOnce /\ ThisFactor

LEMMA FInvInit == Init => FInv
<1> SUFFICES ASSUME Init PROVE FInv
  OBVIOUS
<1>1. IInv
  BY IInvInit
<1>2. \A a \in Asks : ask[a] = NewAsk /\ ask[a].pc = "new" /\ ask[a].saw.confirmed = None
  BY DEF Init, NewAsk, NoCredential
<1>3. PICK verified \in Devices \cup {None} :
        /\ session = [s \in SessionIds |->
             IF s \notin Devices \/ user.address = "unknown" THEN NoSession
             ELSE [state |-> "live", proofs |-> IF s = verified THEN {PastProof} ELSE {}]]
        /\ recovery = IF credential.confirmed = Past /\ verified = None THEN {Past} ELSE {}
  BY DEF Init, FactorInit
<1>4. credential.confirmed \in {None, Past} /\ credential.last = 0
  <2>1. credential \in {NoCredential, [NoCredential EXCEPT !.id = Past, !.secret = Past],
                        [id |-> Past, secret |-> Past, confirmed |-> Past, last |-> 0]}
    BY DEF Init, FactorInit
  <2>2. CASE credential = NoCredential
    BY <2>2 DEF NoCredential
  <2>3. CASE credential = [NoCredential EXCEPT !.id = Past, !.secret = Past]
    BY <2>3 DEF NoCredential
  <2>4. CASE credential = [id |-> Past, secret |-> Past, confirmed |-> Past, last |-> 0]
    BY <2>4
  <2> QED BY <2>1, <2>2, <2>3, <2>4
<1>5. \A s \in SessionIds : /\ session[s].proofs = {} \/ (session[s].proofs = {PastProof} /\ s = verified)
                            /\ session[s].state = "none" => session[s].proofs = {}
                            /\ verified = None => session[s].proofs = {}
  BY <1>3, HoldersApart DEF NoSession
<1>6. \A a \in Asks : Proves(a) = {}
  BY <1>2, ProvesOf DEF Pending
<1>7. /\ \A x \in Holders : \A p \in Proves(x) : p = PastProof /\ x = verified
      /\ \A x \in Holders : Proves(x) # {} => recovery = {}
  BY <1>3, <1>5, <1>6, ProvesOf DEF Holders
<1>8. Past \notin Asks /\ PastProof.under = Past /\ PastProof.step = 0
  BY TwoFactorAssumption DEF PastProof
<1>9. Begun
  BY <1>2, <1>5 DEF Begun
<1>10. NothingUnminted
  BY <1>2, <1>3, <1>4, <1>7, <1>8 DEF NothingUnminted, Minted
<1>11. CodesUnspent
  BY <1>2, <1>7, <1>8 DEF CodesUnspent
<1>12. StepsRecorded
  BY <1>4, <1>7, <1>8 DEF StepsRecorded
<1>13. OneHolder
  BY <1>7 DEF OneHolder
<1>14. ConfirmedFirst
  BY <1>2 DEF ConfirmedFirst
<1>15. VerifiedNow
  <2>1. \A s \in SessionIds : session[s].proofs # {} => HasAnswered(s, Past)
    BY <1>5, <1>8 DEF HasAnswered
  <2> QED BY <1>2, <1>4, <2>1 DEF VerifiedNow, Complete
<1> QED BY <1>1, <1>9, <1>10, <1>11, <1>12, <1>13, <1>14, <1>15 DEF FInv, CodesOnce, ThisFactor

LEMMA FInvKept == FInv /\ [Next]_vars => FInv'
<1> SUFFICES ASSUME FInv, [Next]_vars PROVE FInv'
  OBVIOUS
<1>1. TypeOK /\ AskShape /\ Opened /\ CodesOnce /\ ThisFactor /\ IInv'
  BY IInvKept DEF FInv, IInv
<1>2. CASE AskNext
  BY <1>1, <1>2, AskCodes, AskFactor DEF FInv
<1>3. CASE AccountNext /\ UNCHANGED <<role, credential, recovery, ask>>
  BY <1>1, <1>3, AccountCodes, AccountFactor DEF FInv
<1>4. CASE UNCHANGED vars
  <2>1. \A x : Proves(x)' = Proves(x)
    BY <1>4 DEF vars, Proves, Pending, ProofOf
  <2>2. CodesOnce'
    BY <1>1, <1>4, <2>1 DEF vars, CodesOnce, Begun, NothingUnminted, Minted, CodesUnspent, StepsRecorded, OneHolder
  <2>3. ThisFactor'
    BY <1>1, <1>4 DEF vars, ThisFactor, ConfirmedFirst, VerifiedNow, Complete, HasAnswered, Proving, Live
  <2> QED BY <1>1, <2>2, <2>3 DEF FInv
<1> QED BY <1>2, <1>3, <1>4 DEF Next

LEMMA FactorInvariance == Spec => []FInv
BY FInvInit, FInvKept, PTL DEF Spec

\* However many requests carry one code at once, and whatever becomes of the enrolment
\* meanwhile, it opens one session: recordUsedStep and consumeRecoveryCode decide in the
\* UPDATE, and the code that confirms an enrolment is recorded with it.
THEOREM OneSessionPerCode == Spec => []CodeOpensOneSession
<1>1. FInv => CodeOpensOneSession
  BY ProvesOf DEF FInv, CodesOnce, OneHolder, CodeOpensOneSession, Holders
<1> QED BY <1>1, FactorInvariance, PTL

\* A session that was verified by a factor removed since does not pass for one that
\* answered the factor that replaced it: the enrolment ends by signing out all others.
THEOREM VerifiedByThisFactor == Spec => []AnsweredThisFactor
<1>1. FInv => AnsweredThisFactor
  <2>1. (/\ credential.confirmed # None
         /\ credential.confirmed \in Asks => ask[credential.confirmed].pc = "done") <=> Complete(credential.confirmed)
    BY DEF Complete
  <2>2. \A s \in SessionIds : HasAnswered(s, credential.confirmed)
          <=> \E proof \in session[s].proofs : proof.under = credential.confirmed
    BY DEF HasAnswered
  <2> QED BY <2>1, <2>2 DEF FInv, ThisFactor, VerifiedNow, AnsweredThisFactor
<1> QED BY <1>1, FactorInvariance, PTL

(* -------------------------- what a page says --------------------------- *)

\* What a request that was answered with success has done.
Sound(q) ==
  /\ req[q].pc = "consume" => Redeems(q)
  /\ req[q].pc = "mark" => req[q].kind = "verify"
  /\ req[q].pc = "hash" => req[q].kind = "reset"
  /\ req[q].pc = "revoke" => req[q].kind \in {"reset", "suspend"}
  /\ req[q].ok /\ req[q].kind = "verify" => user.address = "verified"
  /\ req[q].ok /\ req[q].kind = "reset" => \A s \in Devices : ~Live(s)

AllSound == \A q \in Requests : Sound(q)

\* What is never undone: an address verified, a link used, a device signed out, and what a
\* request was asked to do.
NeverUndone ==
  /\ user.address = "verified" => user'.address = "verified"
  /\ \A s \in Devices : ~Live(s) => ~Live(s)'
  /\ \A t \in Requests : token[t] = "used" => token'[t] = "used"
  /\ \A q \in Requests : req[q].pc # "new" =>
       req'[q].pc # "new" /\ req'[q].kind = req[q].kind /\ req'[q].token = req[q].token

LEMMA VerifiedStays ==
  ASSUME TypeOK, AccountNext, user.address = "verified"
  PROVE  user'.address = "verified"
BY DEF AccountNext, LoginRead, ResetRead, VerifyRead, Resend, RegisterRead, InsertUser,
       MarkEmailVerified, RecordFailedLogin, RecordSuccessfulLogin, CancelDeletion, IssueSession,
       RequestReset, InvalidateTokens, CreateToken, ConsumeToken, UpdatePasswordHash, RevokeAllForUser,
       Suspend, RequestDies, Logout, SessionRefused, Unlock, TypeOK, AccountTypeOK, User

LEMMA UsedStays ==
  ASSUME TypeOK, TokensUsed, AccountNext, NEW t \in Requests, token[t] = "used"
  PROVE  token'[t] = "used"
<1>1. \/ token' = token
      \/ \E q \in Requests : InvalidateTokens(q) \/ CreateToken(q) \/ ConsumeToken(q)
  BY DEF AccountNext, LoginRead, ResetRead, VerifyRead, Resend, RegisterRead, InsertUser,
         MarkEmailVerified, RecordFailedLogin, RecordSuccessfulLogin, CancelDeletion, IssueSession,
         RequestReset, UpdatePasswordHash, RevokeAllForUser, Suspend, RequestDies, Logout,
         SessionRefused, Unlock
<1>2. ASSUME NEW q \in Requests, CreateToken(q) PROVE token'[t] = "used"
  <2>1. q # t /\ token' = [token EXCEPT ![q] = "live"]
    BY <1>2 DEF CreateToken, TokensUsed
  <2> QED BY <2>1 DEF TypeOK, AccountTypeOK
<1>3. ASSUME NEW q \in Requests, InvalidateTokens(q) \/ ConsumeToken(q) PROVE token'[t] = "used"
  BY <1>3 DEF InvalidateTokens, ConsumeToken, TypeOK, AccountTypeOK
<1> QED BY <1>1, <1>2, <1>3

LEMMA KindsStay ==
  ASSUME TypeOK, AccountNext, NEW q \in Requests, req[q].pc # "new"
  PROVE  req'[q].pc # "new" /\ req'[q].kind = req[q].kind /\ req'[q].token = req[q].token
<1>1. \/ req' = req
      \/ \E p \in Requests : Done(p)
      \/ \E p \in Requests, pc \in {"cancel", "issue", "create", "mark", "hash", "revoke", "done"} : Go(p, pc)
      \/ \E p \in Requests : \E r : req[p].pc = "new" /\ req' = [req EXCEPT ![p] = r]
  <2>1. ASSUME NEW p \in Requests,
               \/ \E password \in Passwords : LoginRead(p, password)
               \/ \E t \in Requests : ResetRead(p, t) \/ VerifyRead(p, t)
               \/ \E s \in SessionIds : Resend(p, s)
               \/ RegisterRead(p) \/ RequestReset(p) \/ Suspend(p)
        PROVE  \E r : req[p].pc = "new" /\ req' = [req EXCEPT ![p] = r]
    <3>1. req[p].pc = "new"
      BY <2>1 DEF LoginRead, ResetRead, VerifyRead, Resend, RegisterRead, RequestReset, Suspend, NextRequest
    <3>2. \E r : req' = [req EXCEPT ![p] = r]
      BY <2>1 DEF LoginRead, ResetRead, VerifyRead, Resend, RegisterRead, RequestReset, Suspend
    <3> QED BY <3>1, <3>2
  <2>2. ASSUME NEW p \in Requests,
               \/ InsertUser(p) \/ MarkEmailVerified(p) \/ RecordFailedLogin(p)
               \/ RecordSuccessfulLogin(p) \/ CancelDeletion(p) \/ IssueSession(p)
               \/ InvalidateTokens(p) \/ CreateToken(p) \/ ConsumeToken(p) \/ UpdatePasswordHash(p)
               \/ RevokeAllForUser(p) \/ RequestDies(p)
        PROVE  \/ Done(p)
               \/ \E pc \in {"cancel", "issue", "create", "mark", "hash", "revoke", "done"} : Go(p, pc)
    <3>1. CASE ConsumeToken(p)
      BY <3>1 DEF ConsumeToken, Redeem
    <3>2. CASE RecordSuccessfulLogin(p) \/ CreateToken(p) \/ InsertUser(p)
      BY <3>2 DEF RecordSuccessfulLogin, CreateToken, InsertUser
    <3>3. CASE MarkEmailVerified(p) \/ IssueSession(p) \/ RevokeAllForUser(p)
      BY <3>3 DEF MarkEmailVerified, IssueSession, RevokeAllForUser
    <3>4. CASE \/ RecordFailedLogin(p) \/ CancelDeletion(p) \/ InvalidateTokens(p)
               \/ UpdatePasswordHash(p) \/ RequestDies(p)
      BY <3>4 DEF RecordFailedLogin, CancelDeletion, InvalidateTokens, UpdatePasswordHash, RequestDies
    <3> QED BY <2>2, <3>1, <3>2, <3>3, <3>4
  <2>3. ASSUME (\E s \in SessionIds : Logout(s) \/ SessionRefused(s)) \/ Unlock PROVE req' = req
    BY <2>3 DEF Logout, SessionRefused, Unlock
  <2> QED BY <2>1, <2>2, <2>3 DEF AccountNext
<1>2. ASSUME NEW p \in Requests, NEW pc \in {"cancel", "issue", "create", "mark", "hash", "revoke", "done"},
             Go(p, pc) \/ Done(p)
      PROVE  req'[q].pc # "new" /\ req'[q].kind = req[q].kind /\ req'[q].token = req[q].token
  BY <1>2, GoStep, DoneStep
<1>3. ASSUME NEW p \in Requests, NEW r, req[p].pc = "new", req' = [req EXCEPT ![p] = r]
      PROVE  req'[q] = req[q]
  BY <1>3 DEF TypeOK, AccountTypeOK
<1> QED BY <1>1, <1>2, <1>3

LEMMA AccountKeeps ==
  ASSUME TypeOK, TokensUsed, SessionStep, AccountNext
  PROVE  NeverUndone
<1>1. \A s \in Devices : ~Live(s) => ~Live(s)'
  BY SessionsAssumption DEF SessionStep, Live, TypeOK, Session, SessionIds
<1> QED BY <1>1, VerifiedStays, UsedStays, KindsStay DEF NeverUndone

LEMMA AskKeeps ==
  ASSUME TypeOK, SessionStep, AskNext
  PROVE  NeverUndone
<1>1. \A s \in Devices : ~Live(s) => ~Live(s)'
  BY SessionsAssumption DEF SessionStep, Live, TypeOK, Session, SessionIds
<1>2. user' = user /\ token' = token /\ req' = req
  BY DEF AskNext, Enrol, Confirm, Verify, Disable, Begin, At, UpsertUnconfirmed, ConfirmCredential,
         ReplaceRecoveryCodes, RevokeOthers, Claim, MarkVerified, DeleteForUser
<1> QED BY <1>1, <1>2 DEF NeverUndone

LEMMA SoundKept ==
  ASSUME TypeOK, TokensUsed, NeverUndone, AllSound, AccountNext
  PROVE  AllSound'
<1>1. ASSUME NEW q \in Requests, \A p \in Requests : p # q => req'[p] = req[p], Sound(q)'
      PROVE  AllSound'
  BY <1>1 DEF AllSound, Sound, Redeems, NeverUndone
<1>2. ASSUME NEW q \in Requests, \E password \in Passwords : LoginRead(q, password) PROVE AllSound'
  <2>1. /\ \A p \in Requests : p # q => req'[p] = req[p]
        /\ req'[q].pc \in {"success", "failure"} /\ req'[q].kind = "login"
    BY <1>2 DEF LoginRead, TypeOK, AccountTypeOK, Request
  <2> QED BY <1>1, <2>1 DEF Sound
<1>3. ASSUME NEW q \in Requests, RegisterRead(q) \/ RequestReset(q) \/ \E s \in SessionIds : Resend(q, s)
      PROVE AllSound'
  <2>1. /\ \A p \in Requests : p # q => req'[p] = req[p]
        /\ req'[q].pc \in {"insert", "invalidate", "done"} /\ req'[q].kind \in {"register", "requestReset", "resend"}
    BY <1>3 DEF RegisterRead, RequestReset, Resend, TypeOK, AccountTypeOK, Request
  <2> QED BY <1>1, <2>1 DEF Sound
<1>4. ASSUME NEW q \in Requests, Suspend(q) PROVE AllSound'
  <2>1. /\ \A p \in Requests : p # q => req'[p] = req[p]
        /\ req'[q].pc = "revoke" /\ req'[q].kind = "suspend"
    BY <1>4 DEF Suspend, TypeOK, AccountTypeOK, Request
  <2> QED BY <1>1, <2>1 DEF Sound
<1>5. ASSUME NEW q \in Requests, NEW t \in Requests, ResetRead(q, t) \/ VerifyRead(q, t) PROVE AllSound'
  <2>1. /\ \A p \in Requests : p # q => req'[p] = req[p]
        /\ req'[q].pc = "consume" /\ req'[q].kind \in {"verify", "reset"} /\ ~req'[q].ok
    BY <1>5 DEF ResetRead, VerifyRead, NextRequest, TokensUsed, TypeOK, AccountTypeOK, Request
  <2> QED BY <1>1, <2>1 DEF Sound, Redeems
<1>6. ASSUME NEW q \in Requests, NEW pc, Go(q, pc),
             pc \in {"cancel", "issue", "create", "done"} \/ (pc = "mark" /\ req[q].kind = "verify")
             \/ (pc = "hash" /\ req[q].kind = "reset") \/ (pc = "revoke" /\ req[q].kind = "reset")
      PROVE AllSound'
  BY <1>1, <1>6, GoStep DEF AllSound, Sound, NeverUndone
<1>7. ASSUME NEW q \in Requests, InsertUser(q) \/ RecordFailedLogin(q) \/ RecordSuccessfulLogin(q)
                                 \/ CancelDeletion(q) \/ InvalidateTokens(q) \/ RequestDies(q)
      PROVE AllSound'
  BY <1>6, <1>7 DEF InsertUser, RecordFailedLogin, RecordSuccessfulLogin, CancelDeletion,
                    InvalidateTokens, RequestDies
<1>8. ASSUME NEW q \in Requests, ConsumeToken(q) PROVE AllSound'
  <2>1. req[q].kind \in {"verify", "reset"}
    BY <1>8 DEF ConsumeToken, AllSound, Sound, Redeems
  <2> QED BY <1>6, <1>8, <2>1 DEF ConsumeToken, Redeem
<1>9. ASSUME NEW q \in Requests, UpdatePasswordHash(q) PROVE AllSound'
  BY <1>6, <1>9 DEF UpdatePasswordHash, AllSound, Sound
<1>10. ASSUME NEW q \in Requests, Done(q), ~Redeems(q) PROVE AllSound'
  BY <1>1, <1>10, DoneStep DEF Sound, Redeems
<1>11. ASSUME NEW q \in Requests, IssueSession(q) \/ CreateToken(q) PROVE AllSound'
  BY <1>6, <1>10, <1>11 DEF IssueSession, CreateToken, TokensUsed
<1>12. ASSUME NEW q \in Requests, MarkEmailVerified(q) PROVE AllSound'
  <2>1. user'.address = "verified" /\ Done(q) /\ req[q].kind = "verify"
    BY <1>12 DEF MarkEmailVerified, TypeOK, AccountTypeOK, User, AllSound, Sound
  <2> QED BY <1>1, <2>1, DoneStep DEF Sound
<1>13. ASSUME NEW q \in Requests, RevokeAllForUser(q) PROVE AllSound'
  <2>1. Done(q) /\ req[q].kind \in {"reset", "suspend"} /\ \A s \in SessionIds : ~Live(s)'
    BY <1>13 DEF RevokeAllForUser, Revoke, Live, AllSound, Sound, TypeOK, Session
  <2> QED BY <1>1, <2>1, DoneStep DEF Sound, SessionIds
<1>14. ASSUME (\E s \in SessionIds : Logout(s) \/ SessionRefused(s)) \/ Unlock PROVE AllSound'
  <2>1. req' = req
    BY <1>14 DEF Logout, SessionRefused, Unlock
  <2> QED BY <2>1 DEF AllSound, Sound, Redeems, NeverUndone
<1> QED
  BY <1>2, <1>3, <1>4, <1>5, <1>7, <1>8, <1>9, <1>11, <1>12, <1>13, <1>14 DEF AccountNext

LEMMA EveryStep == IInv /\ AllSound /\ [Next]_vars => AllSound' /\ NeverUndone
<1> SUFFICES ASSUME IInv, AllSound, [Next]_vars PROVE AllSound' /\ NeverUndone
  OBVIOUS
<1>1. TypeOK /\ TokensUsed /\ SessionStep
  BY IInvKept DEF IInv
<1>2. CASE AskNext
  <2>1. NeverUndone /\ req' = req
    BY <1>1, <1>2, AskKeeps, AskSessions
  <2> QED BY <2>1 DEF AllSound, Sound, Redeems, NeverUndone
<1>3. CASE AccountNext /\ UNCHANGED <<role, credential, recovery, ask>>
  BY <1>1, <1>3, AccountKeeps, SoundKept
<1>4. CASE UNCHANGED vars
  BY <1>4 DEF vars, AllSound, Sound, Redeems, NeverUndone, Live
<1> QED BY <1>2, <1>3, <1>4 DEF Next

\* What the page waits for is what its form asked, about the link it shows.
Awaits ==
  page.awaits # None => LET q == page.awaits IN
    /\ req[q].pc # "new" /\ page.state # "done"
    /\ page.view = "reset" => req[q].kind = "reset" /\ req[q].token = page.link
    /\ page.view = "verify" =>
         req[q].kind = "resend" \/ (req[q].kind = "verify" /\ req[q].token = page.link)

\* The form of a link has one, unless it says that the link is no good.
LinkShown == page.view \in {"reset", "verify"} /\ page.state # "error" => page.link # None

PageSound == page \in Page /\ cookie \in SessionIds \cup {None} /\ Awaits /\ LinkShown /\ DoneMeansDone

\* A page that reports nothing, and waits for nothing.
LEMMA QuietPage ==
  ASSUME page' \in Page, cookie' \in SessionIds \cup {None},
         page'.state # "done", page'.awaits = None,
         page'.view \in {"reset", "verify"} /\ page'.state # "error" => page'.link # None
  PROVE  PageSound'
BY DEF PageSound, Awaits, LinkShown, DoneMeansDone

\* What a page shows stays true while it stays as it is, whatever happens to the account.
LEMMA PageStands ==
  ASSUME TypeOK, NeverUndone, PageSound, page' = page, cookie' = cookie
  PROVE  PageSound'
<1>1. Awaits'
  BY DEF PageSound, Awaits, NeverUndone, Page
<1>2. LinkShown' /\ DoneMeansDone'
  BY DEF PageSound, LinkShown, DoneMeansDone, NeverUndone, Page
<1> QED BY <1>1, <1>2 DEF PageSound

Places == (Forms \ {"reset", "verify"}) \cup {"home", "dashboard", "admin"}

\* Where the browser lands, there is nothing yet.
LEMMA LandsBlank ==
  ASSUME NEW view \in Places, NEW s, cookie' \in SessionIds \cup {None},
         page' = Lands(view, s) \/ page' = Blank(view)
  PROVE  PageSound'
<1>1. PICK place \in Places : page' = Blank(place)
  BY DEF Lands, Places, Forms
<1>2. /\ page' \in Page /\ page'.state = "idle" /\ page'.awaits = None
      /\ page'.view \notin {"reset", "verify"}
  BY <1>1 DEF Blank, Page, Places, Forms
<1> QED BY <1>2, QuietPage

\* A page that failed says so, but for the form of a forgotten password.
LEMMA FailedPage ==
  ASSUME PageSound, NeverUndone, page' = Failed, cookie' = cookie
  PROVE  PageSound'
<1>1. page' \in Page /\ page'.awaits = None
  BY DEF Failed, Page, PageSound
<1>2. page'.state = "error" \/ page'.view = "forgot"
  BY DEF Failed, Page, PageSound
<1> QED BY <1>1, <1>2 DEF PageSound, Awaits, LinkShown, DoneMeansDone

\* A page is a way to the account: every step on it is one of the account's, or none.
LEMMA PageStep ==
  ASSUME PageSound, PageNext
  PROVE  [Next]_vars
<1>1. ASSUME NEW q \in Requests, Send(q) PROVE Next
  <2>1. page.view \in {"reset", "verify"} => page.link \in Requests
    BY <1>1 DEF Send, MaySend, PageSound, LinkShown, Page
  <2>2. page.view \in Forms
    BY <1>1 DEF Send, MaySend, Forms
  <2>3. AccountNext
    BY <1>1, <2>1, <2>2 DEF Send, AccountNext, Forms
  <2> QED BY <1>1, <2>3 DEF Send, Next
<1>2. ASSUME NEW q \in Requests, AskAgain(q) PROVE Next
  BY <1>2 DEF AskAgain, Next, AccountNext, PageSound
<1>3. ASSUME SignOut PROVE Next \/ UNCHANGED vars
  <2>1. CASE cookie # None /\ Resolves(cookie) /\ Revoke({cookie})
    <3>1. Logout(cookie) /\ cookie \in SessionIds
      BY <1>3, <2>1 DEF SignOut, Logout, PageSound
    <3> QED BY <1>3, <3>1 DEF SignOut, Next, AccountNext
  <2>2. CASE UNCHANGED session
    BY <1>3, <2>2 DEF SignOut, vars
  <2> QED BY <1>3, <2>1, <2>2 DEF SignOut
<1>4. ASSUME \/ \E view \in Forms \cup {"home", "dashboard"} : Open(view)
             \/ \E q \in Requests : Answered(q)
             \/ Refused \/ AnswerLost
      PROVE  UNCHANGED vars
  BY <1>4 DEF Open, Answered, Refused, AnswerLost
<1> QED BY <1>1, <1>2, <1>3, <1>4 DEF PageNext

\* What is sent is what the form is for.
LEMMA SentPage ==
  ASSUME TypeOK, TokensUsed, PageSound, NEW q \in Requests, Send(q)
  PROVE  PageSound'
<1>1. page' \in Page /\ page'.state = "pending" /\ page'.awaits = q
      /\ page'.view = page.view /\ page'.link = page.link /\ cookie' = cookie
  BY DEF Send, PageSound, Page
<1>2. page.view \in Forms /\ (page.view \in {"reset", "verify"} => page.link # None)
  BY DEF Send, MaySend, PageSound, LinkShown, Page, Forms
<1>3. /\ req'[q].pc # "new"
      /\ page.view = "reset" => req'[q].kind = "reset" /\ req'[q].token = page.link
      /\ page.view = "verify" => req'[q].kind = "verify" /\ req'[q].token = page.link
  <2>1. CASE page.view = "register"
    BY <2>1 DEF Send, RegisterRead, TypeOK, AccountTypeOK, Request
  <2>2. CASE page.view = "login"
    BY <2>2 DEF Send, LoginRead, TypeOK, AccountTypeOK, Request
  <2>3. CASE page.view = "forgot"
    BY <2>3 DEF Send, RequestReset, TypeOK, AccountTypeOK, Request
  <2>4. CASE page.view = "reset"
    BY <2>4 DEF Send, ResetRead, TypeOK, AccountTypeOK, Request
  <2>5. CASE page.view = "verify"
    BY <2>5 DEF Send, VerifyRead, TypeOK, AccountTypeOK, Request
  <2> QED BY <1>2, <2>1, <2>2, <2>3, <2>4, <2>5 DEF Forms
<1>4. Awaits'
  BY <1>1, <1>3 DEF Awaits
<1> QED BY <1>1, <1>2, <1>4 DEF PageSound, LinkShown, DoneMeansDone

\* An answer is shown for what it is.
LEMMA AnsweredPage ==
  ASSUME IInv, AllSound, NeverUndone, PageSound, NEW q \in Requests, Answered(q)
  PROVE  PageSound'
<1>0. TypeOK /\ TokensUsed /\ UNCHANGED vars /\ page.awaits = q /\ page \in Page
  BY DEF IInv, Answered, PageSound
<1>1. CASE ~req[q].ok
  BY <1>1, FailedPage DEF Answered
<1>2. CASE req[q].ok
  <2> DEFINE kind == req[q].kind
  <2>1. Accepted(q)
    BY <1>2 DEF Answered
  <2>2. cookie' \in SessionIds \cup {None}
    BY <2>1 DEF Accepted, PageSound, SessionIds
  <2>3. CASE kind = "register" \/ kind = "login"
    <3>1. \E view \in Places : page' = Lands(view, cookie')
      BY <2>1, <2>3 DEF Accepted, Places, Forms
    <3> QED BY <2>2, <3>1, LandsBlank
  <2>4. CASE kind = "resend"
    <3>1. /\ page' \in Page /\ page'.awaits = None /\ page'.state = page.state
          /\ page'.view = page.view /\ page'.link = page.link
      BY <1>0, <2>1, <2>4 DEF Accepted, Page
    <3>2. page.state # "done"
      BY <1>0, SessionsAssumption DEF PageSound, Awaits, Page
    <3> QED BY <2>2, <3>1, <3>2, QuietPage DEF PageSound, LinkShown
  <2>5. CASE kind \notin {"register", "login", "resend"}
    <3>1. /\ page' \in Page /\ page'.awaits = None /\ page'.state = "done"
          /\ page'.view = page.view /\ page'.link = page.link
      BY <1>0, <2>1, <2>5 DEF Accepted, Page
    <3>2. page.view \in {"reset", "verify"} =>
            Redeems(q) /\ page.link = req[q].token /\ (page.view = "reset" <=> kind = "reset")
      BY <1>0, <2>5, SessionsAssumption DEF PageSound, Awaits, Redeems
    <3>3. page.view \in {"reset", "verify"} => page.link \in Requests /\ token[page.link] = "used"
      BY <1>0, <1>2, <3>2 DEF TokensUsed, Redeeming
    <3>4. page.view = "verify" => user.address = "verified"
      BY <1>2, <3>2 DEF AllSound, Sound, Redeems
    <3>5. page.view = "reset" => cookie' = None /\ \A s \in Devices : ~Live(s)
      BY <1>2, <2>1, <3>2 DEF AllSound, Sound, Accepted
    <3>6. DoneMeansDone'
      BY <1>0, <3>1, <3>3, <3>4, <3>5 DEF DoneMeansDone, vars, Live
    <3>7. Awaits' /\ LinkShown'
      BY <3>1, <3>3, SessionsAssumption DEF Awaits, LinkShown
    <3> QED BY <2>2, <3>1, <3>6, <3>7 DEF PageSound
  <2> QED BY <2>3, <2>4, <2>5
<1> QED BY <1>1, <1>2

LEMMA OtherPages ==
  ASSUME TypeOK, NeverUndone, PageSound,
         \/ \E view \in Forms \cup {"home", "dashboard"} : Open(view)
         \/ \E q \in Requests : AskAgain(q)
         \/ Refused \/ AnswerLost \/ SignOut
  PROVE  PageSound'
<1>1. ASSUME NEW view \in Forms \cup {"home", "dashboard"}, Open(view) PROVE PageSound'
  <2>1. cookie' \in SessionIds \cup {None}
    BY <1>1 DEF Open, PageSound
  <2>2. CASE view \in {"reset", "verify"}
    <3>1. PICK t \in {None} \cup Requests : OpenLink(view, t)
      BY <1>1, <2>2 DEF Open
    <3>2. /\ page' \in Page /\ page'.awaits = None /\ page'.state # "done" /\ page'.link = t
          /\ page'.state # "error" => t # None
      BY <2>2, <3>1 DEF OpenLink, Blank, Page, Forms
    <3> QED BY <2>1, <3>2, QuietPage
  <2>3. CASE view \notin {"reset", "verify"}
    BY <1>1, <2>1, <2>3, LandsBlank DEF Open, Places
  <2> QED BY <2>2, <2>3
<1>2. ASSUME NEW q \in Requests, AskAgain(q) PROVE PageSound'
  <2>1. /\ page' \in Page /\ page'.awaits = q /\ page'.view = "verify" /\ page'.state = "error"
        /\ cookie' = cookie
    BY <1>2 DEF AskAgain, PageSound, Page
  <2>2. req'[q].kind = "resend" /\ req'[q].pc # "new"
    <3>1. cookie \in SessionIds /\ Resend(q, cookie)
      BY <1>2 DEF AskAgain, PageSound
    <3>2. req'[q].kind = "resend" /\ req'[q].pc \in {"insert", "success", "failure", "invalidate", "revoke", "done"}
      BY <3>1, BeginStep
    <3> QED BY <3>2
  <2> QED BY <2>1, <2>2 DEF PageSound, Awaits, LinkShown, DoneMeansDone
<1>3. ASSUME Refused PROVE PageSound'
  <2>1. CASE page' = Failed
    BY <1>3, <2>1, FailedPage DEF Refused
  <2>2. CASE page.view = "forgot" /\ page' = [page EXCEPT !.state = "error"]
    <3>1. /\ page' \in Page /\ page'.state = "error" /\ page'.view = "forgot"
          /\ page'.awaits = page.awaits /\ cookie' = cookie
      BY <1>3, <2>2 DEF Refused, PageSound, Page
    <3> QED BY <1>3, <3>1 DEF Refused, PageSound, Awaits, LinkShown, DoneMeansDone, vars
  <2>3. CASE page.state = "error" /\ page.awaits = None /\ page' = [page EXCEPT !.resent = "sent"]
    <3>1. page' \in Page /\ page'.state = "error" /\ page'.awaits = None /\ cookie' = cookie
      BY <1>3, <2>3 DEF Refused, PageSound, Page
    <3> QED BY <3>1, QuietPage DEF PageSound
  <2> QED BY <1>3, <2>1, <2>2, <2>3 DEF Refused
<1>4. ASSUME AnswerLost PROVE PageSound'
  BY <1>4, FailedPage DEF AnswerLost
<1>5. ASSUME SignOut PROVE PageSound'
  <2>1. page' = Blank("home") /\ cookie' \in SessionIds \cup {None} /\ "home" \in Places
    BY <1>5 DEF SignOut, PageSound, Places
  <2> QED BY <2>1, LandsBlank
<1> QED BY <1>1, <1>2, <1>3, <1>4, <1>5

PInv == IInv /\ AllSound /\ PageSound

LEMMA PInvInit == PagesInit => PInv
<1> SUFFICES ASSUME PagesInit PROVE PInv
  OBVIOUS
<1>1. IInv
  BY IInvInit DEF PagesInit
<1>2. \A q \in Requests : req[q] = NewRequest /\ req[q].pc = "new" /\ ~req[q].ok
  BY DEF PagesInit, Init, AccountInit, FactorInit, NewRequest
<1>3. AllSound
  BY <1>2 DEF AllSound, Sound
<1>4. /\ page \in Page /\ page.view = "home" /\ page.state = "idle" /\ page.awaits = None
      /\ cookie \in SessionIds \cup {None}
  BY DEF PagesInit, Blank, Page, SessionIds
<1> QED BY <1>1, <1>3, <1>4 DEF PInv, PageSound, Awaits, LinkShown, DoneMeansDone

LEMMA PInvKept == PInv /\ [PagesNext]_pageVars => PInv' /\ [Next]_vars
<1> SUFFICES ASSUME PInv, [PagesNext]_pageVars PROVE PInv' /\ [Next]_vars
  OBVIOUS
<1>0. IInv /\ AllSound /\ PageSound /\ TypeOK /\ TokensUsed
  BY DEF PInv, IInv
<1>1. [Next]_vars
  BY <1>0, PageStep DEF PagesNext, pageVars
<1>2. IInv' /\ AllSound' /\ NeverUndone
  BY <1>0, <1>1, IInvKept, EveryStep
<1>3. CASE PageNext
  BY <1>0, <1>1, <1>2, <1>3, SentPage, AnsweredPage, OtherPages DEF PageNext, PInv
<1>4. CASE UNCHANGED <<page, cookie>>
  BY <1>0, <1>1, <1>2, <1>4, PageStands DEF PInv
<1> QED BY <1>3, <1>4 DEF PagesNext, pageVars

LEMMA PagesInvariance == PagesSpec => []PInv
BY PInvInit, PInvKept, PTL DEF PagesSpec

\* The pages are one way to the account: what they do to it is what it lets anyone do.
THEOREM PagesAreAWayIn == PagesSpec => Spec
<1>1. PagesInit => Init
  BY DEF PagesInit
<1> QED BY <1>1, PInvKept, PagesInvariance, PTL DEF PagesSpec, Spec

\* Whatever answers are lost, links used twice or requests that die half-way, a page says
\* that a link was redeemed only when it was: an address is confirmed, or the sessions from
\* before the reset are ended, and stay so while the page is shown.
THEOREM PagesTellTheTruth == PagesSpec => []DoneMeansDone
<1>1. PInv => DoneMeansDone
  BY DEF PInv, PageSound
<1> QED BY <1>1, PagesInvariance, PTL

=============================================================================
