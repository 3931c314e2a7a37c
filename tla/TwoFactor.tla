------------------------------ MODULE TwoFactor ------------------------------
(***************************************************************************)
(* The second factor of the account of Sessions: enrolment, the challenge  *)
(* and removal (core/src/identity/usecases/two-factor.ts over              *)
(* db/src/repositories/two-factor.repository.ts), with everything that     *)
(* opens and ends sessions meanwhile.                                      *)
(*                                                                         *)
(* A secret is named by the request that minted it.  A right code is the   *)
(* secret and the time step it is for; the window of three steps moves     *)
(* with the clock, so a step may be any of 1..Steps.  A set of recovery    *)
(* codes is modelled by one of them, named by the request that confirmed,  *)
(* and only the code of the enrolment a challenge is about is presented.   *)
(* Wrong codes, the attempt budgets and the sealing of secrets are left    *)
(* out: they change nothing here.                                          *)
(***************************************************************************)
EXTENDS Sessions

CONSTANTS
  Asks,    \* requests about the second factor, each made once
  Past,    \* the enrolment made before, by which devices may be verified
  Steps    \* bound on TOTP steps

ASSUME TwoFactorAssumption ==
  /\ IsFiniteSet(Asks)
  /\ Asks \cap (Requests \cup Devices) = {}
  /\ {Past, None} \cap (Asks \cup Requests \cup Devices) = {} /\ Past # None
  /\ None \notin {"enrol", "confirm", "verify", "disable"}
  /\ Steps \in Nat

VARIABLES
  role,        \* of the account
  credential,  \* two_factor_credentials: the account's row
  recovery,    \* the recovery codes not used yet
  ask          \* the requests about it

vars == <<user, session, token, req, role, credential, recovery, ask>>

(* -------------------------------- the state ---------------------------- *)

Enrolments == Asks \cup {Past}

\* `confirmed` is the enrolment that confirmed it, for confirmedAt; last is lastUsedStep.
Credential == [id : Enrolments \cup {None}, secret : Enrolments \cup {None},
               confirmed : Enrolments \cup {None}, last : 0..Steps]

NoCredential == [id |-> None, secret |-> None, confirmed |-> None, last |-> 0]

\* What a session answered with: a step of the secret, or a recovery code (step 0),
\* of the enrolment under which it did.
Proof == [under : Enrolments, step : 0..Steps]

\* Every proof the session gave stays with it: twoFactorVerifiedAt is set when there is one.
Session == [state : {"none", "live", "revoked"}, proofs : SUBSET Proof]

AskKinds == {"enrol", "confirm", "verify", "disable"}

Ask == [kind : AskKinds \cup {None},
        pc : {"new", "upsert", "confirm", "codes", "claim", "mark", "revoke", "delete", "done"},
        session : SessionIds \cup {None}, saw : Credential, step : 0..Steps]

NewAsk == [kind |-> None, pc |-> "new", session |-> None, saw |-> NoCredential, step |-> 0]

PastProof == [under |-> Past, step |-> 0]

\* A factor was confirmed, or confirmed and removed since, or never; one device may
\* have answered it, with the recovery code.
FactorInit ==
  /\ role \in {"customer", "staff"}
  /\ credential \in { NoCredential, [NoCredential EXCEPT !.id = Past, !.secret = Past],
                      [id |-> Past, secret |-> Past, confirmed |-> Past, last |-> 0] }
  /\ user.address = "unknown" => credential = NoCredential /\ role = "customer"
  /\ \E verified \in Devices \cup {None} :
       /\ session = [s \in SessionIds |->
            IF s \notin Devices \/ user.address = "unknown" THEN NoSession
            ELSE [state |-> "live", proofs |-> IF s = verified THEN {PastProof} ELSE {}]]
       /\ recovery = IF credential.confirmed = Past /\ verified = None THEN {Past} ELSE {}

Init ==
  /\ AccountInit
  /\ FactorInit
  /\ ask = [a \in Asks |-> NewAsk]

NextAsk(a) == ask[a].pc = "new" /\ a = CHOOSE new \in Asks : ask[new].pc = "new"

\* A request that is answered leaves nothing behind.
Continue(a, pc) ==
  ask' = [ask EXCEPT ![a] = IF pc = "done" THEN [NewAsk EXCEPT !.pc = "done"] ELSE [@ EXCEPT !.pc = pc]]

At(a, pc) == ask[a].pc = pc /\ UNCHANGED <<user, token, req, role>>

\* The session is resolved, the credential read and the code verified against it.
Begin(a, s, kind, pc, step) ==
  /\ NextAsk(a)
  /\ Resolves(s)
  /\ ask' = [ask EXCEPT ![a] = [kind |-> kind, pc |-> pc, session |-> s, saw |-> credential, step |-> step]]
  /\ UNCHANGED <<user, session, token, req, role, credential, recovery>>

(* -------------------------------- enrolment ---------------------------- *)

\* beginTwoFactorEnrollment: refused when a confirmed credential exists.
Enrol(a, s) == credential.confirmed = None /\ Begin(a, s, "enrol", "upsert", 0)

\* INSERT ... ON CONFLICT (userId) DO UPDATE: the row's id stays, and a row that is gone since
\* it was read comes back under the id it had.
UpsertUnconfirmed(a) ==
  LET read     == ask[a].saw.id
      inserted == IF read # None THEN read ELSE a
  IN
  /\ At(a, "upsert")
  /\ credential' = [id |-> IF credential.id # None THEN credential.id ELSE inserted,
                    secret |-> a, confirmed |-> None, last |-> 0]
  /\ Continue(a, "done")
  /\ UNCHANGED <<session, recovery>>

\* confirmTwoFactorEnrollment, with a right code for the secret that was read.
Confirm(a, s, step) ==
  /\ credential.id # None /\ credential.confirmed = None
  /\ Begin(a, s, "confirm", "confirm", step)

\* UPDATE ... SET confirmedAt, lastUsedStep WHERE id AND confirmedAt IS NULL.
ConfirmCredential(a) ==
  /\ At(a, "confirm")
  /\ IF credential.id = ask[a].saw.id /\ credential.confirmed = None
       THEN /\ credential' = [credential EXCEPT !.confirmed = a, !.last = ask[a].step]
            /\ Continue(a, "codes")
       ELSE Continue(a, "done") /\ UNCHANGED credential
  /\ UNCHANGED <<session, recovery>>

ReplaceRecoveryCodes(a) ==
  /\ At(a, "codes")
  /\ recovery' = {a}
  /\ Continue(a, "mark")
  /\ UNCHANGED <<session, credential>>

\* Seeded fault: the other sessions stay signed in.
RevokeOthers_Kept(a) ==
  /\ At(a, "revoke")
  /\ Continue(a, "done")
  /\ UNCHANGED <<session, credential, recovery>>

\* Everything else signs out.
RevokeOthers(a) ==
  /\ At(a, "revoke")
  /\ Revoke(SessionIds \ {ask[a].session})
  /\ Continue(a, "done")
  /\ UNCHANGED <<credential, recovery>>

(* -------------------------------- the challenge ------------------------ *)

\* A step after the last one used, or, as step 0, a recovery code.
Acceptable(step) == step = 0 \/ step > credential.last

\* verifyTwoFactorChallenge, for a session that owes it.
Verify(a, s, step) ==
  /\ credential.confirmed # None /\ session[s].proofs = {} /\ Acceptable(step)
  /\ Begin(a, s, "verify", "claim", step)

\* disableTwoFactor: refused for staff, and only with a code.
Disable(a, s, step) ==
  /\ role = "customer"
  /\ credential.confirmed # None /\ Acceptable(step)
  /\ Begin(a, s, "disable", "claim", step)

\* Seeded fault: the step is recorded without comparing it with the last.
Claim_Unchecked(a) ==
  /\ At(a, "claim")
  /\ IF credential.id = ask[a].saw.id
       THEN /\ credential' = [credential EXCEPT !.last = ask[a].step]
            /\ Continue(a, "mark")
       ELSE Continue(a, "done") /\ UNCHANGED credential
  /\ UNCHANGED <<session, recovery>>

\* recordUsedStep, UPDATE ... WHERE id AND lastUsedStep < step; or
\* consumeRecoveryCode, UPDATE ... WHERE codeHash AND usedAt IS NULL.
Claim(a) ==
  /\ At(a, "claim")
  /\ \/ /\ ask[a].step > 0
        /\ credential.id = ask[a].saw.id /\ credential.last < ask[a].step
        /\ credential' = [credential EXCEPT !.last = ask[a].step]
        /\ Continue(a, "mark")
        /\ UNCHANGED recovery
     \/ /\ ask[a].step = 0
        /\ ask[a].saw.confirmed \in recovery
        /\ recovery' = recovery \ {ask[a].saw.confirmed}
        /\ Continue(a, "mark")
        /\ UNCHANGED credential
     \/ /\ IF ask[a].step > 0
             THEN ~(credential.id = ask[a].saw.id /\ credential.last < ask[a].step)
             ELSE ask[a].saw.confirmed \notin recovery
        /\ Continue(a, "done")
        /\ UNCHANGED <<credential, recovery>>
  /\ UNCHANGED session

ProofOf(a) == [under |-> IF ask[a].kind = "confirm" THEN a ELSE ask[a].saw.confirmed, step |-> ask[a].step]

\* What the request goes on to once its session is verified.
AfterMark(a) == CASE ask[a].kind = "confirm" -> "revoke"
                  [] ask[a].kind = "disable" -> "delete"
                  [] OTHER -> "done"

\* Seeded fault: the session is updated by id, revoked or not.
MarkVerified_Any(a) == LET s == ask[a].session IN
  /\ At(a, "mark")
  /\ session' = [session EXCEPT ![s].proofs = @ \cup {ProofOf(a)}]
  /\ Continue(a, AfterMark(a))
  /\ UNCHANGED <<credential, recovery>>

\* markTwoFactorVerified, UPDATE sessions ... WHERE id AND revokedAt IS NULL.
MarkVerified(a) == LET s == ask[a].session IN
  /\ At(a, "mark")
  /\ session' = IF Live(s) THEN [session EXCEPT ![s].proofs = @ \cup {ProofOf(a)}] ELSE session
  /\ Continue(a, AfterMark(a))
  /\ UNCHANGED <<credential, recovery>>

\* deleteForUser: the credential and the codes in one transaction.
DeleteForUser(a) ==
  /\ At(a, "delete")
  /\ credential' = NoCredential
  /\ recovery' = {}
  /\ Continue(a, "done")
  /\ UNCHANGED session

AskNext ==
  \E a \in Asks :
    \/ \E s \in SessionIds :
         \/ Enrol(a, s)
         \/ \E step \in 1..Steps : Confirm(a, s, step)
         \/ \E step \in 0..Steps : Verify(a, s, step) \/ Disable(a, s, step)
    \/ UpsertUnconfirmed(a) \/ ConfirmCredential(a) \/ ReplaceRecoveryCodes(a) \/ RevokeOthers(a)
    \/ Claim(a) \/ MarkVerified(a) \/ DeleteForUser(a)

Next ==
  \/ AskNext
  \/ AccountNext /\ UNCHANGED <<role, credential, recovery, ask>>

Spec == Init /\ [][Next]_vars

(* -------------------------------- properties --------------------------- *)

\* Every variable keeps its shape.
TypeOK ==
  /\ AccountTypeOK
  /\ session \in [SessionIds -> Session]
  /\ role \in {"customer", "staff"}
  /\ credential \in Credential
  /\ recovery \subseteq Enrolments
  /\ ask \in [Asks -> Ask]

\* One code opens one session: of two requests carrying the same code exactly one
\* wins, and the code that confirmed an enrolment is spent (two-factor.ts:381-387).
CodeOpensOneSession ==
  \A s, t \in SessionIds :
    s # t => \A proof \in session[s].proofs \cap session[t].proofs :
               proof.under # credential.confirmed

\* Once an enrolment is complete, a live session counts as verified only if it
\* answered that factor, not one removed before (two-factor.ts:259-265).
AnsweredThisFactor ==
  \A s \in SessionIds :
    /\ Live(s) /\ session[s].proofs # {}
    /\ credential.confirmed # None
    /\ credential.confirmed \in Asks => ask[credential.confirmed].pc = "done"
    => \E proof \in session[s].proofs : proof.under = credential.confirmed

\* A session revoked between the challenge and its last write does not come back
\* verified, and a revoked session never comes back at all (identity.repository.ts:156-162).
RevokedStaysRevoked ==
  [][\A s \in SessionIds : session[s].state = "revoked" => session'[s] = session[s]]_vars

=============================================================================
