---------------------------- MODULE AccountProofs ----------------------------
(***************************************************************************)
(* What an account may do: by its rights (Access), and by its plan         *)
(* (PlanLimits).                                                           *)
(*                                                                         *)
(* What Access checks for one request and two changes holds for any number *)
(* of each.  The invariant says what a request under way knows: every fact *)
(* it read has been true since it came, and what it read of the second     *)
(* factor and of the role is still so.                                     *)
(*                                                                         *)
(* What PlanLimits checks for three creations holds for any plan, any      *)
(* number of them and any budgets: how far past the plan they get, and     *)
(* that the rate limiter it stands behind keeps its quota.                 *)
(***************************************************************************)
EXTENDS Access, PlanLimits, FiniteSetTheorems, TLAPS

(***************************************************************************)
(*                            Access: its rights                           *)
(***************************************************************************)

AllFacts == {"session", "usable", "verified", "fresh", "settled", "present"} \cup MembershipRoles

\* Past the reading of the user's row, of the memberships, and past the gates.
KnowsUser == {"members", "gate", "find", "act", "record"}
KnowsShare == {"gate", "find", "act", "record"}
PastGates == {"find", "act", "record"}

\* What the surface has made sure of.
SurfacePassed(q, h) ==
  /\ q.route.surface = "collection" => ~IsStaff(user)
  /\ q.route.surface = "console" =>
       /\ IsStaff(user) /\ "fresh" \in h
       /\ q.route.asks = "admin:read_audit_log" => user.role \in {"admin", "superadmin"}

RowPassed(q, h) == q.route.surface \in {"invitation", "media"} => Entitled(q.route.asks, h)

\* A request q that is under way, and what has been true since it came.
Underway(q, h) ==
  /\ "session" \in h
  /\ ~(q.route.mutating /\ q.origin = "foreign")
  /\ share.owns => "owner" \in h
  /\ q.actor.proved => session.proved
  /\ q.pc \in KnowsUser => /\ "usable" \in h
                           /\ q.actor.role = user.role
                           /\ q.actor.verified => "verified" \in h
  /\ q.pc \in KnowsShare /\ q.actor.member # "none" => q.actor.member \in h
  /\ q.pc \in PastGates => "settled" \in h /\ SurfacePassed(q, h)
  /\ q.pc \in {"act", "record"} => RowPassed(q, h)
  /\ q.pc = "record" => q.route.surface = "console"
  /\ q.pc = "find" => q.route.surface \in {"invitation", "media"}

\* What an answer was given on.
GivenOn(q, h) ==
  /\ {"session", "usable", "settled"} \subseteq h
  /\ ~(q.route.mutating /\ q.origin = "foreign")
  /\ RowPassed(q, h)
  /\ SurfacePassed(q, h)

RefusedTo(q, h) ==
  /\ IsStaff(user) \/ h \cap Viewers # {}
  /\ q.route.surface = "invitation" => "present" \in h

Known(r) ==
  LET q == req[r]  h == held[r] IN
  /\ q.pc \notin {"new", "done"} => Underway(q, h) /\ q.answer = "none"
  /\ q.pc = "new" => ~q.given /\ q.answer = "none" /\ q.actor = NoActor
  /\ q.given => GivenOn(q, h) /\ q.pc \in {"record", "done"}
  /\ q.answer = "ok" /\ q.given /\ q.route.surface = "console" => r \in trail
  /\ q.answer = "forbidden" /\ q.route.surface \in {"invitation", "media"} => RefusedTo(q, h)

IInv == TypeOK /\ (share.owns => share.member = "none") /\ \A r \in Requests : Known(r)

(* ------------------------------ the facts ------------------------------ *)

\* What each fact says of the state.
LEMMA FactsAre ==
  ASSUME TypeOK
  PROVE  /\ Facts \subseteq AllFacts
         /\ session.live => "session" \in Facts
         /\ user.status = "active" => "usable" \in Facts
         /\ user.verified => "verified" \in Facts
         /\ ~session.aged => "fresh" \in Facts
         /\ (IF factor THEN session.proved ELSE ~IsStaff(user)) => "settled" \in Facts
         /\ ~deleted => "present" \in Facts
         /\ share.owns => "owner" \in Facts
         /\ ~share.owns /\ share.member # "none" => share.member \in Facts
<1>1. Facts \subseteq AllFacts
  BY DEF Facts, AllFacts
<1>2. /\ session.live => "session" \in Facts
      /\ user.status = "active" => "usable" \in Facts
      /\ user.verified => "verified" \in Facts
      /\ ~session.aged => "fresh" \in Facts
      /\ (IF factor THEN session.proved ELSE ~IsStaff(user)) => "settled" \in Facts
      /\ ~deleted => "present" \in Facts
  BY DEF Facts, MembershipRoles
<1>3. share.owns => "owner" \in Facts
  BY DEF Facts, MembershipRoles
<1>4. ~share.owns /\ share.member # "none" => share.member \in Facts
  <2>1. share.member \in {"editor", "viewer", "none"}
    BY DEF TypeOK, Share
  <2>2. QED
    BY <2>1 DEF Facts, MembershipRoles
<1>5. QED
  BY <1>1, <1>2, <1>3, <1>4

\* Facts are only ever added to what a request remembers, and while it is under way
\* every fact of the moment is.
LEMMA Remembers ==
  ASSUME TypeOK, Witness, NEW r \in Requests
  PROVE  /\ req[r].pc # "new" => held[r] \subseteq held'[r]
         /\ req[r].pc \notin {"new", "done"} /\ req'[r].pc # "new" => Facts' \subseteq held'[r]
         /\ req[r].pc = "new" /\ req'[r].pc # "new" => held'[r] = Facts
<1>1. held'[r] = IF req[r].pc = "done" \/ req'[r].pc = "new" THEN held[r]
                 ELSE IF req[r].pc = "new" THEN Facts
                 ELSE held[r] \cup Facts'
  BY DEF Witness
<1>2. QED
  BY <1>1

\* More facts entitle to no less.
LEMMA EntitledGrows ==
  ASSUME NEW a, NEW f, NEW g, f \subseteq g, Entitled(a, f)
  PROVE  Entitled(a, g)
  BY DEF Entitled

\* What was given or refused stays justified: the role of the account does not change.
LEMMA StaysGiven ==
  ASSUME user'.role = user.role, NEW q, NEW p, p.route = q.route, p.origin = q.origin,
         NEW f, NEW g, f \subseteq g
  PROVE  /\ GivenOn(q, f) => GivenOn(p, g)'
         /\ RowPassed(q, f) => RowPassed(p, g)'
         /\ SurfacePassed(q, f) => SurfacePassed(p, g)'
         /\ RefusedTo(q, f) => RefusedTo(p, g)'
<1>1. ASSUME NEW a, Entitled(a, f) PROVE Entitled(a, g)'
  <2>1. Entitled(a, g)
    BY <1>1, EntitledGrows
  <2>2. QED
    BY <2>1 DEF Entitled, IsStaff
<1>2. RowPassed(q, f) => RowPassed(p, g)'
  BY <1>1 DEF RowPassed
<1>3. SurfacePassed(q, f) => SurfacePassed(p, g)'
  BY DEF SurfacePassed, IsStaff
<1>4. RefusedTo(q, f) => RefusedTo(p, g)'
  BY DEF RefusedTo, IsStaff, Viewers
<1>5. GivenOn(q, f) => GivenOn(p, g)'
  BY <1>2, <1>3 DEF GivenOn
<1>6. QED
  BY <1>2, <1>3, <1>4, <1>5

(* ------------------------- the shape of the steps ---------------------- *)

\* What no step undoes.
Lasting ==
  /\ user'.role = user.role
  /\ share'.owns = share.owns
  /\ session.proved => session'.proved
  /\ trail \subseteq trail'

LEMMA Lasts ==
  ASSUME TypeOK, Next
  PROVE  Lasting
<1>1. ASSUME NEW r \in Requests, Step(r) PROVE Lasting
  <2>1. CASE Expel(r)
    BY <2>1 DEF Expel, Lasting, TypeOK, Session, world
  <2>2. CASE RecordAccess(r)
    BY <2>2 DEF RecordAccess, Lasting, world
  <2>3. CASE Arrive(r) \/ ReadUser(r) \/ ReadMemberships(r) \/ Gate(r) \/ Find(r) \/ Act(r)
    <3>1. UNCHANGED <<world, trail>>
      BY <2>3 DEF Arrive, ReadUser, ReadMemberships, Gate, Find, Act
    <3>2. QED
      BY <3>1 DEF Lasting, world
  <2>4. QED
    BY <1>1, <2>1, <2>2, <2>3 DEF Step
<1>2. ASSUME Change PROVE Lasting
  <2>1. CASE AccountSuspended \/ AddressVerified
    BY <2>1 DEF AccountSuspended, AddressVerified, Changes, Lasting, TypeOK, User
  <2>2. CASE SessionEnds \/ SessionAges \/ FactorConfirmed \/ ChallengeAnswered
    BY <2>2 DEF SessionEnds, SessionAges, FactorConfirmed, ChallengeAnswered, Changes, Lasting, TypeOK, Session
  <2>3. CASE MembershipGranted \/ MembershipRevoked
    BY <2>3 DEF MembershipGranted, MembershipRevoked, Changes, Lasting, TypeOK, Share
  <2>4. CASE FactorRemoved \/ InvitationDeleted
    BY <2>4 DEF FactorRemoved, InvitationDeleted, Changes, Lasting
  <2>5. QED
    BY <1>2, <2>1, <2>2, <2>3, <2>4 DEF Change
<1>3. QED
  BY <1>1, <1>2 DEF Next

\* A request that does not move keeps what it knows.
LEMMA KeepsKnowing ==
  ASSUME TypeOK, Lasting, Witness, NEW r \in Requests, req'[r] = req[r], Known(r)
  PROVE  Known(r)'
<1> DEFINE q == req[r]  f == held[r]  g == held'[r]
<1>1. q.pc # "new" => f \subseteq g
  BY Remembers
<1>2. CASE q.pc = "new"
  BY <1>2 DEF Known
<1>3. CASE q.pc # "new"
  <2>0. /\ f \subseteq g
        /\ user'.role = user.role
    BY <1>1, <1>3 DEF Lasting
  <2>1. q.pc # "done" => Underway(req[r], held[r])' /\ q.answer = "none"
    <3>1. SUFFICES ASSUME q.pc # "done" PROVE Underway(req[r], held[r])'
      BY <1>3 DEF Known
    <3>2. Underway(q, f)
      BY <1>3, <3>1 DEF Known
    <3>3. q.pc \in PastGates => "settled" \in g /\ SurfacePassed(req[r], held[r])'
      BY <2>0, <3>2, StaysGiven DEF Underway
    <3>4. q.pc \in {"act", "record"} => RowPassed(req[r], held[r])'
      BY <2>0, <3>2, StaysGiven DEF Underway
    <3>5. QED
      BY <2>0, <3>2, <3>3, <3>4 DEF Underway, Lasting
  <2>2. q.given => GivenOn(req[r], held[r])'
    BY <2>0, StaysGiven DEF Known
  <2>3. q.answer = "forbidden" /\ q.route.surface \in {"invitation", "media"} => RefusedTo(req[r], held[r])'
    BY <2>0, StaysGiven DEF Known
  <2>4. QED
    BY <1>3, <2>1, <2>2, <2>3 DEF Known, Lasting
<1>4. QED
  BY <1>2, <1>3

(* ------------------------------- the types ----------------------------- *)

\* A route of the customers' rows asks for no action of the console.
LEMMA RouteTypes ==
  /\ Routes \subseteq Route
  /\ \A route \in Routes : route.surface \in {"invitation", "media"} => route.asks \notin ConsoleActions
  BY DEF Routes, Route, Reads, Writes, Actions, ConsoleActions, ListInvitations, DashboardPage,
         CreateInvitation, SlugAvailable, GetInvitation, BuilderPage, PreviewPage, DeleteInvitation,
         QrCode, PatchDocument, SetVisibility, Publish, Unpublish, ListRsvps, RsvpStats, ExportRsvps,
         DeleteRsvp, StatsPanel, UploadUrl, GetMedia, CompleteUpload, DeleteMedia, AdminUsers,
         AdminInvitations, AdminAuditLogs, AdminVerifyEmail, AdminModerate

\* Moving, answering and giving keep a request well typed.
LEMMA RequestTypes ==
  ASSUME NEW q \in Request, NEW pc \in {"new", "user", "expel", "members", "gate", "find", "act", "record", "done"},
         NEW a \in Answers
  PROVE  /\ [q EXCEPT !.pc = pc] \in Request
         /\ [q EXCEPT !.pc = pc, !.given = TRUE] \in Request
         /\ [q EXCEPT !.pc = pc, !.answer = a] \in Request
         /\ [q EXCEPT !.pc = pc, !.answer = a, !.given = TRUE] \in Request
  BY DEF Request

LEMMA StepTypes ==
  ASSUME TypeOK, NEW r \in Requests, Step(r)
  PROVE  /\ req' \in [Requests -> Request]
         /\ \A s \in Requests \ {r} : req'[s] = req[s]
<1>0. req \in [Requests -> Request] /\ req[r] \in Request
  BY DEF TypeOK
<1>1. ASSUME NEW q \in Request, req' = [req EXCEPT ![r] = q]
      PROVE  /\ req' \in [Requests -> Request]
             /\ \A s \in Requests \ {r} : req'[s] = req[s]
  BY <1>0, <1>1
<1>2. CASE Arrive(r)
  <2>1. PICK route \in Routes, origin \in Origins :
          LET asked == [req[r] EXCEPT !.route = route, !.origin = origin] IN
          req' = [req EXCEPT ![r] =
            CASE route.mutating /\ origin = "foreign" -> [asked EXCEPT !.pc = "done", !.answer = "blocked"]
              [] ~(route.mutating /\ origin = "foreign") /\ ~session.live ->
                   [asked EXCEPT !.pc = "done", !.answer = TurnedAway(route)]
              [] OTHER -> [asked EXCEPT !.pc = "user", !.actor.proved = session.proved]]
    BY <1>2 DEF Arrive
  <2> DEFINE asked == [req[r] EXCEPT !.route = route, !.origin = origin]
  <2>2. asked \in Request
    BY <1>0 DEF Request
  <2>3. [asked EXCEPT !.pc = "done", !.answer = "blocked"] \in Request
    BY <2>2 DEF Request, Answers
  <2>4. [asked EXCEPT !.pc = "done", !.answer = TurnedAway(route)] \in Request
    BY <2>2 DEF Request, Answers, TurnedAway
  <2>5. [asked EXCEPT !.pc = "user", !.actor.proved = session.proved] \in Request
    BY <2>2 DEF Request, Actor, TypeOK, Session
  <2>6. QED
    BY <2>1, <2>3, <2>4, <2>5, <1>1
<1>3. CASE ReadUser(r)
  <2>1. [req[r] EXCEPT !.pc = "members", !.actor.role = user.role,
                       !.actor.status = user.status, !.actor.verified = user.verified] \in Request
    BY <1>0 DEF Request, Actor, TypeOK, User
  <2>2. [req[r] EXCEPT !.pc = "expel"] \in Request
    BY <1>0 DEF Request
  <2>3. CASE user.status = "suspended"
    BY <1>3, <2>3, <2>2, <1>1, <1>0 DEF ReadUser, GoesTo
  <2>4. CASE user.status # "suspended"
    <3> DEFINE next == [req[r] EXCEPT !.pc = "members", !.actor.role = user.role,
                                      !.actor.status = user.status, !.actor.verified = user.verified]
    <3>1. req' = [req EXCEPT ![r] = next]
      BY <1>3, <2>4, <1>0 DEF ReadUser
    <3>2. QED
      BY <3>1, <2>1, <1>1
  <2>5. QED
    BY <2>3, <2>4
<1>4. CASE ReadMemberships(r)
  <2>1. [req[r] EXCEPT !.pc = "gate", !.actor.member = share.member] \in Request
    BY <1>0 DEF Request, Actor, TypeOK, Share
  <2>2. QED
    BY <1>4, <2>1, <1>1, <1>0 DEF ReadMemberships
<1>5. ASSUME \/ \E a \in Answers : Answered(r, a) \/ Given(r, a)
             \/ \E pc \in {"find", "act"} : GoesTo(r, pc)
             \/ req' = [req EXCEPT ![r].pc = "record", ![r].given = TRUE]
      PROVE  /\ req' \in [Requests -> Request]
             /\ \A s \in Requests \ {r} : req'[s] = req[s]
  <2>1. CASE \E a \in Answers : Answered(r, a) \/ Given(r, a)
    BY <2>1, <1>0, <1>1, RequestTypes DEF Answered, Given
  <2>2. CASE \E pc \in {"find", "act"} : GoesTo(r, pc)
    <3>1. PICK pc \in {"find", "act"} : GoesTo(r, pc)
      BY <2>2
    <3>2. [req[r] EXCEPT !.pc = pc] \in Request
      BY <1>0 DEF Request
    <3>3. QED
      BY <3>1, <3>2, <1>0, <1>1 DEF GoesTo
  <2>3. CASE req' = [req EXCEPT ![r].pc = "record", ![r].given = TRUE]
    <3>1. [req[r] EXCEPT !.pc = "record", !.given = TRUE] \in Request
      BY <1>0 DEF Request
    <3>2. QED
      BY <2>3, <3>1, <1>0, <1>1
  <2>4. QED
    BY <1>5, <2>1, <2>2, <2>3
<1>6. CASE Expel(r)
  BY <1>6, <1>5 DEF Expel, Answers, TurnedAway
<1>7. CASE Gate(r)
  BY <1>7, <1>5 DEF Gate, Answers, TurnedAway
<1>8. CASE Find(r)
  BY <1>8, <1>5 DEF Find, Answers
<1>9. CASE Act(r)
  BY <1>9, <1>5 DEF Act, Answers
<1>10. CASE RecordAccess(r)
  BY <1>10, <1>5 DEF RecordAccess, Answers
<1>11. QED
  BY <1>2, <1>3, <1>4, <1>6, <1>7, <1>8, <1>9, <1>10 DEF Step

LEMMA TypeStep ==
  ASSUME TypeOK, Next
  PROVE  TypeOK'
<1>1. held' \in [Requests -> SUBSET AllFacts]
  <2>1. Facts \subseteq AllFacts /\ Facts' \subseteq AllFacts
    BY DEF Facts, AllFacts
  <2>2. \A r \in Requests : held[r] \subseteq AllFacts
    BY DEF TypeOK, AllFacts
  <2>3. QED
    BY <2>1, <2>2 DEF Next, Witness
<1>2. ASSUME NEW r \in Requests, Step(r) PROVE TypeOK'
  <2>1. req' \in [Requests -> Request]
    BY <1>2, StepTypes
  <2>2. CASE Expel(r)
    BY <2>1, <2>2, <1>1 DEF Expel, TypeOK, Session, AllFacts
  <2>3. CASE RecordAccess(r)
    BY <2>1, <2>3, <1>1 DEF RecordAccess, TypeOK, world, AllFacts
  <2>4. CASE Arrive(r) \/ ReadUser(r) \/ ReadMemberships(r) \/ Gate(r) \/ Find(r) \/ Act(r)
    <3>1. UNCHANGED <<world, trail>>
      BY <2>4 DEF Arrive, ReadUser, ReadMemberships, Gate, Find, Act
    <3>2. QED
      BY <3>1, <2>1, <1>1 DEF TypeOK, world, AllFacts
  <2>5. QED
    BY <1>2, <2>2, <2>3, <2>4 DEF Step
<1>3. ASSUME Change PROVE TypeOK'
  <2>1. /\ changes' \in 0..MaxChanges
        /\ req' = req /\ trail' = trail
    BY <1>3, AccessAssumption DEF Change, Changes, AccountSuspended, AddressVerified, SessionEnds, SessionAges,
       FactorConfirmed, ChallengeAnswered, FactorRemoved, MembershipGranted, MembershipRevoked,
       InvitationDeleted, TypeOK
  <2>2. user' \in User /\ session' \in Session /\ factor' \in BOOLEAN /\ share' \in Share /\ deleted' \in BOOLEAN
    <3>1. CASE AccountSuspended \/ AddressVerified
      BY <3>1 DEF AccountSuspended, AddressVerified, TypeOK, User, UserStatuses
    <3>2. CASE SessionEnds \/ SessionAges \/ FactorConfirmed \/ ChallengeAnswered
      BY <3>2 DEF SessionEnds, SessionAges, FactorConfirmed, ChallengeAnswered, TypeOK, Session
    <3>3. CASE MembershipGranted \/ MembershipRevoked
      BY <3>3 DEF MembershipGranted, MembershipRevoked, TypeOK, Share
    <3>4. CASE FactorRemoved \/ InvitationDeleted
      BY <3>4 DEF FactorRemoved, InvitationDeleted, TypeOK
    <3>5. QED
      BY <1>3, <3>1, <3>2, <3>3, <3>4 DEF Change
  <2>3. QED
    BY <2>1, <2>2, <1>1 DEF TypeOK, AllFacts
<1>4. QED
  BY <1>2, <1>3 DEF Next

(* ------------------------------- each step ----------------------------- *)

\* The request that arrives: its session stands.
LEMMA ArriveKnows ==
  ASSUME IInv, Lasting, Witness, NEW r \in Requests, Arrive(r)
  PROVE  Known(r)'
<1>0. /\ req[r] \in Request /\ req[r].pc = "new" /\ ~req[r].given
      /\ req[r].answer = "none" /\ req[r].actor = NoActor
      /\ req \in [Requests -> Request]
      /\ UNCHANGED <<user, session, share, trail>>
  BY DEF IInv, TypeOK, Known, Arrive, At, world
<1>1. PICK route \in Routes, origin \in Origins :
        LET asked == [req[r] EXCEPT !.route = route, !.origin = origin] IN
        req' = [req EXCEPT ![r] =
          CASE route.mutating /\ origin = "foreign" -> [asked EXCEPT !.pc = "done", !.answer = "blocked"]
            [] ~(route.mutating /\ origin = "foreign") /\ ~session.live ->
                 [asked EXCEPT !.pc = "done", !.answer = TurnedAway(route)]
            [] OTHER -> [asked EXCEPT !.pc = "user", !.actor.proved = session.proved]]
  BY DEF Arrive
<1> DEFINE asked == [req[r] EXCEPT !.route = route, !.origin = origin]
<1>2. CASE (route.mutating /\ origin = "foreign") \/ ~session.live
  <2>1. /\ req'[r].pc = "done" /\ ~req'[r].given
        /\ req'[r].answer \in {"blocked", "unauthorized", "notFound"}
    BY <1>0, <1>1, <1>2 DEF Request, TurnedAway
  <2>2. QED
    BY <2>1 DEF Known
<1>3. CASE ~(route.mutating /\ origin = "foreign") /\ session.live
  <2>1. req'[r] = [asked EXCEPT !.pc = "user", !.actor.proved = session.proved]
    BY <1>0, <1>1, <1>3
  <2>2. /\ req'[r].pc = "user" /\ ~req'[r].given /\ req'[r].answer = "none"
        /\ req'[r].route = route /\ req'[r].origin = origin
        /\ req'[r].actor.proved = session.proved
    BY <2>1, <1>0 DEF Request, Actor
  <2>3. held'[r] = Facts
    BY <1>0, <2>2, Remembers DEF IInv
  <2>4. "session" \in held'[r] /\ (share.owns => "owner" \in held'[r])
    BY <2>3, <1>3, FactsAre DEF IInv
  <2>5. Underway(req[r], held[r])'
    BY <2>2, <2>4, <1>0, <1>3 DEF Underway, KnowsUser, KnowsShare, PastGates
  <2>6. QED
    BY <2>2, <2>5 DEF Known
<1>4. QED
  BY <1>2, <1>3

\* The reads: what is read is true now.
LEMMA ReadsKnow ==
  ASSUME IInv, Lasting, Witness, NEW r \in Requests, TypeOK', ReadUser(r) \/ ReadMemberships(r)
  PROVE  Known(r)'
<1>0. /\ req[r] \in Request /\ req \in [Requests -> Request]
      /\ req[r].pc \notin {"new", "done", "record"} /\ ~req[r].given /\ req[r].answer = "none"
      /\ Underway(req[r], held[r])
      /\ UNCHANGED <<user, session, share, trail>>
  BY DEF IInv, TypeOK, Known, ReadUser, ReadMemberships, At, world
<1>1. /\ req'[r].route = req[r].route /\ req'[r].origin = req[r].origin /\ ~req'[r].given
      /\ req'[r].answer = "none" /\ req'[r].actor.proved = req[r].actor.proved
      /\ req'[r].pc \in {"expel", "members", "gate"}
  BY <1>0 DEF ReadUser, ReadMemberships, GoesTo, Request, Actor
<1>2. held[r] \subseteq held'[r] /\ Facts' \subseteq held'[r]
  BY <1>0, <1>1, Remembers DEF IInv
<1>3. CASE ReadUser(r)
  <2>1. CASE user.status = "suspended"
    <3>1. req'[r].pc = "expel"
      BY <1>3, <2>1, <1>0 DEF ReadUser, GoesTo, Request
    <3>2. Underway(req[r], held[r])'
      BY <3>1, <1>0, <1>1, <1>2 DEF Underway, KnowsUser, KnowsShare, PastGates
    <3>3. QED
      BY <3>1, <3>2, <1>1 DEF Known
  <2>2. CASE user.status # "suspended"
    <3>1. /\ req'[r].pc = "members" /\ req'[r].actor.role = user.role
          /\ req'[r].actor.verified = user.verified
      BY <1>3, <2>2, <1>0 DEF ReadUser, Request, Actor
    <3>2. user.status = "active"
      BY <2>2 DEF IInv, TypeOK, User, UserStatuses
    <3>3. "usable" \in held'[r] /\ (user.verified => "verified" \in held'[r])
      <4>1. "usable" \in Facts' /\ (user'.verified => "verified" \in Facts')
        BY <3>2, <1>0, FactsAre DEF Facts
      <4>2. QED
        BY <4>1, <1>0, <1>2
    <3>4. Underway(req[r], held[r])'
      BY <3>1, <3>3, <1>0, <1>1, <1>2 DEF Underway, KnowsUser, KnowsShare, PastGates
    <3>5. QED
      BY <3>1, <3>4, <1>1 DEF Known
  <2>3. QED
    BY <2>1, <2>2
<1>4. CASE ReadMemberships(r)
  <2>1. /\ req[r].pc = "members" /\ req'[r].pc = "gate"
        /\ req'[r].actor.member = share.member
        /\ req'[r].actor.role = req[r].actor.role
        /\ req'[r].actor.verified = req[r].actor.verified
    BY <1>4, <1>0 DEF ReadMemberships, At, Request, Actor
  <2>2. share.member # "none" => share.member \in held'[r]
    <3>1. share.member # "none" => ~share.owns
      BY DEF IInv
    <3>2. share'.member # "none" /\ ~share'.owns => share'.member \in Facts'
      <4>1. share'.member \in {"editor", "viewer", "none"}
        BY DEF TypeOK, Share
      <4>2. QED
        BY <4>1 DEF Facts, MembershipRoles
    <3>3. QED
      BY <3>1, <3>2, <1>0, <1>2
  <2>3. Underway(req[r], held[r])'
    BY <2>1, <2>2, <1>0, <1>1, <1>2 DEF Underway, KnowsUser, KnowsShare, PastGates
  <2>4. QED
    BY <2>1, <2>3, <1>1 DEF Known
<1>5. QED
  BY <1>3, <1>4

\* What the gates let through is settled, and entitled to the surface.
LEMMA GateKnows ==
  ASSUME IInv, Lasting, Witness, NEW r \in Requests, TypeOK', Gate(r)
  PROVE  Known(r)'
<1> DEFINE q == req[r]
<1>0. /\ q \in Request /\ req \in [Requests -> Request]
      /\ q.pc = "gate" /\ ~q.given /\ q.answer = "none"
      /\ Underway(q, held[r])
      /\ UNCHANGED <<user, session, share, factor, deleted, trail>>
  BY DEF IInv, TypeOK, Known, Gate, At, world
<1>1. CASE ~GateSatisfied(q.actor, factor)
  <2>1. Answered(r, TurnedAway(q.route))
    BY <1>1 DEF Gate
  <2>2. req'[r].pc = "done" /\ ~req'[r].given /\ req'[r].answer \in {"unauthorized", "notFound"}
    BY <2>1, <1>0 DEF Answered, TurnedAway, Request
  <2>3. QED
    BY <2>2 DEF Known
<1>2. CASE GateSatisfied(q.actor, factor) /\ ~PassesSurface(q.route, q.actor)
  <2>1. Answered(r, IF q.route.surface = "console" THEN "notFound" ELSE "forbidden")
    BY <1>2 DEF Gate
  <2>2. /\ req'[r].pc = "done" /\ ~req'[r].given /\ req'[r].route = q.route
        /\ req'[r].answer \in {"notFound", "forbidden"}
    BY <2>1, <1>0 DEF Answered, Request
  <2>3. q.route.surface \notin {"invitation", "media"}
    BY <1>2 DEF PassesSurface
  <2>4. QED
    BY <2>2, <2>3 DEF Known
<1>3. CASE GateSatisfied(q.actor, factor) /\ PassesSurface(q.route, q.actor)
  <2>1. GoesTo(r, IF q.route.surface \in {"invitation", "media"} THEN "find" ELSE "act")
    BY <1>3 DEF Gate
  <2>2. /\ req'[r].pc = IF q.route.surface \in {"invitation", "media"} THEN "find" ELSE "act"
        /\ ~req'[r].given /\ req'[r].answer = "none" /\ req'[r].route = q.route
        /\ req'[r].origin = q.origin /\ req'[r].actor = q.actor
    BY <2>1, <1>0 DEF GoesTo, Request
  <2>3. held[r] \subseteq held'[r] /\ Facts' \subseteq held'[r]
    BY <1>0, <2>2, Remembers DEF IInv
  <2>4. IsStaff(q.actor) <=> IsStaff(user)
    BY <1>0 DEF Underway, IsStaff, KnowsUser
  <2>5. "settled" \in held'[r]
    <3>1. IF factor' THEN session'.proved ELSE ~IsStaff(user')
      BY <1>0, <1>3, <2>4 DEF GateSatisfied, Underway
    <3>2. "settled" \in Facts'
      BY <3>1 DEF Facts
    <3>3. QED
      BY <3>2, <2>3
  <2>6. SurfacePassed(req[r], held[r])'
    <3>1. CASE q.route.surface = "console"
      <4>1. IsStaff(user) /\ ~session.aged
        BY <3>1, <1>3, <2>4 DEF PassesSurface, PassesAdminGate
      <4>2. "fresh" \in held'[r]
        BY <4>1, <1>0, <2>3 DEF Facts
      <4>3. q.route.asks = "admin:read_audit_log" => user.role \in {"admin", "superadmin"}
        BY <3>1, <1>3, <1>0 DEF PassesSurface, Can, ConsoleActions, PlatformRoleRequirements, Underway, KnowsUser
      <4>4. IsStaff(user)'
        BY <4>1, <1>0 DEF IsStaff
      <4>5. QED
        BY <4>2, <4>3, <4>4, <3>1, <2>2, <1>0 DEF SurfacePassed
    <3>2. CASE q.route.surface = "collection"
      <4>1. ~IsStaff(user)'
        BY <3>2, <1>3, <2>4, <1>0 DEF PassesSurface, HasCustomerScope, IsStaff
      <4>2. QED
        BY <4>1, <3>2, <2>2 DEF SurfacePassed
    <3>3. QED
      BY <3>1, <3>2, <2>2 DEF SurfacePassed
  <2>7. RowPassed(req[r], held[r])' \/ q.route.surface \in {"invitation", "media"}
    BY <2>2 DEF RowPassed
  <2>8. Underway(req[r], held[r])'
    BY <2>2, <2>3, <2>5, <2>6, <2>7, <1>0 DEF Underway, KnowsUser, KnowsShare, PastGates
  <2>9. QED
    BY <2>2, <2>8 DEF Known
<1>4. QED
  BY <1>1, <1>2, <1>3

\* `can` allows no more than the matrix, on what the request has read.
LEMMA CanIsEntitled ==
  ASSUME TypeOK, share.owns => share.member = "none", NEW q \in Request, NEW h, Underway(q, h), q.pc = "find",
         InTenantScope(q.actor, share.owns),
         q.route.asks # "nothing" => Can(q.actor, q.route.asks, share.owns)
  PROVE  Entitled(q.route.asks, h)
<1> DEFINE role == EffectiveRole(q.actor, share.owns)
<1>1. /\ IsStaff(q.actor) <=> IsStaff(user)
      /\ q.actor.verified => "verified" \in h
  BY DEF Underway, KnowsUser, IsStaff
<1>2. role \in MembershipRoles \cup {"none"} /\ (role # "none" => role \in h)
  BY DEF Underway, KnowsShare, EffectiveRole, Request, Actor, MembershipRoles
<1>3. /\ HasAtLeast(q.actor, share.owns, "viewer") => role \in Viewers
      /\ HasAtLeast(q.actor, share.owns, "editor") => role \in Editors
      /\ HasAtLeast(q.actor, share.owns, "owner") => role = "owner"
  BY <1>2 DEF HasAtLeast, Rank, MembershipRoles, Viewers, Editors
<1>4. CASE q.route.asks = "nothing"
  <2>1. IsStaff(user) \/ role \in Viewers
    BY <1>1, <1>2 DEF InTenantScope, EffectiveRole, Viewers, Request, Actor, MembershipRoles
  <2>2. QED
    BY <2>1, <1>2, <1>4 DEF Entitled, Viewers, MembershipRoles
<1>5. CASE q.route.asks \in {"invitation:read", "analytics:read"}
  <2>1. IsStaff(user) \/ role \in Viewers
    BY <1>5, <1>1, <1>3 DEF Can, ConsoleActions
  <2>2. QED
    BY <2>1, <1>2, <1>5 DEF Entitled, Viewers, MembershipRoles
<1>6. CASE q.route.asks = "rsvp:read"
  <2>1. role \in Viewers
    BY <1>6, <1>3 DEF Can, ConsoleActions
  <2>2. QED
    BY <2>1, <1>2, <1>6 DEF Entitled, Viewers, MembershipRoles
<1>7. CASE q.route.asks = "invitation:publish"
  <2>1. role \in Editors /\ q.actor.verified
    BY <1>7, <1>3 DEF Can, ConsoleActions
  <2>2. QED
    BY <2>1, <1>1, <1>2, <1>7 DEF Entitled, Editors
<1>8. CASE q.route.asks = "invitation:delete"
  <2>1. role = "owner"
    BY <1>8, <1>3 DEF Can, ConsoleActions
  <2>2. QED
    BY <2>1, <1>2, <1>8 DEF Entitled
<1>9. CASE q.route.asks \in {"invitation:update", "media:upload", "media:delete", "rsvp:export", "rsvp:delete"}
  <2>1. role \in Editors
    BY <1>9, <1>3 DEF Can, ConsoleActions
  <2>2. QED
    BY <2>1, <1>2, <1>9 DEF Entitled, Editors
<1>10. CASE q.route.asks \in ConsoleActions
  BY <1>10, RouteTypes DEF Request, Underway
<1>11. q.route \in Route
  BY RouteTypes DEF Request
<1>12. QED
  BY <1>4, <1>5, <1>6, <1>7, <1>8, <1>9, <1>10, <1>11 DEF Route, Actions

\* A row is read or changed, or refused, for those whom the matrix names; and a refusal
\* is only for a row that was found.
LEMMA FindKnows ==
  ASSUME IInv, Lasting, Witness, NEW r \in Requests, TypeOK', Find(r)
  PROVE  Known(r)'
<1> DEFINE q == req[r]
<1>0. /\ q \in Request /\ req \in [Requests -> Request]
      /\ q.pc = "find" /\ ~q.given /\ q.answer = "none"
      /\ Underway(q, held[r]) /\ TypeOK /\ (share.owns => share.member = "none")
      /\ UNCHANGED <<user, session, share, factor, deleted, trail>>
  BY DEF IInv, TypeOK, Known, Find, At, world
<1>1. CASE ~Found(r)
  <2>1. Answered(r, "notFound")
    BY <1>1 DEF Find
  <2>2. req'[r].pc = "done" /\ ~req'[r].given /\ req'[r].answer = "notFound"
    BY <2>1, <1>0 DEF Answered, Request
  <2>3. QED
    BY <2>2 DEF Known
<1>2. CASE Found(r) /\ q.route.asks # "nothing" /\ ~Can(q.actor, q.route.asks, share.owns)
  <2>1. Answered(r, IF q.route = QrCode THEN "notFound" ELSE "forbidden")
    BY <1>2 DEF Find
  <2>2. /\ req'[r].pc = "done" /\ ~req'[r].given /\ req'[r].route = q.route
        /\ req'[r].answer \in {"notFound", "forbidden"}
    BY <2>1, <1>0 DEF Answered, Request
  <2>3. held[r] \subseteq held'[r] /\ Facts' \subseteq held'[r]
    BY <1>0, <2>2, Remembers
  <2>4. IsStaff(user) \/ held[r] \cap Viewers # {}
    BY <1>0, <1>2 DEF Found, InTenantScope, Underway, KnowsUser, KnowsShare, IsStaff, Viewers, Request, Actor, MembershipRoles
  <2>5. q.route.surface = "invitation" => "present" \in held'[r]
    BY <1>0, <1>2, <2>3 DEF Found, Facts
  <2>6. RefusedTo(req[r], held[r])'
    BY <2>2, <2>3, <2>4, <2>5, <1>0 DEF RefusedTo, IsStaff, Viewers
  <2>7. QED
    BY <2>2, <2>6 DEF Known
<1>3. CASE Found(r) /\ ~(q.route.asks # "nothing" /\ ~Can(q.actor, q.route.asks, share.owns))
  <2>1. Entitled(q.route.asks, held[r])
    BY <1>0, <1>3, CanIsEntitled DEF Found
  <2>2. IF q.route.again = "none" THEN Given(r, "ok") ELSE GoesTo(r, "act")
    BY <1>3 DEF Find
  <2>3. /\ req'[r].route = q.route /\ req'[r].origin = q.origin /\ req'[r].actor = q.actor
        /\ \/ req'[r].pc = "done" /\ req'[r].given /\ req'[r].answer = "ok"
           \/ req'[r].pc = "act" /\ ~req'[r].given /\ req'[r].answer = "none"
    BY <2>2, <1>0 DEF Given, GoesTo, Request
  <2>4. held[r] \subseteq held'[r]
    BY <1>0, Remembers
  <2>5. RowPassed(req[r], held[r])' /\ SurfacePassed(req[r], held[r])'
    <3>1. RowPassed(q, held[r]) /\ SurfacePassed(q, held[r]) /\ user'.role = user.role
      BY <2>1, <1>0 DEF RowPassed, Underway, PastGates
    <3>2. QED
      BY <3>1, <2>3, <2>4, StaysGiven
  <2>6. CASE req'[r].pc = "act"
    <3>1. Underway(req[r], held[r])'
      BY <2>3, <2>4, <2>5, <2>6, <1>0 DEF Underway, KnowsUser, KnowsShare, PastGates
    <3>2. QED
      BY <3>1, <2>3, <2>6 DEF Known
  <2>7. CASE req'[r].pc = "done"
    <3>1. GivenOn(req[r], held[r])'
      BY <2>3, <2>4, <2>5, <1>0 DEF GivenOn, Underway, KnowsUser, PastGates
    <3>2. q.route.surface # "console"
      BY <1>0 DEF Underway
    <3>3. QED
      BY <3>1, <3>2, <2>3, <2>7 DEF Known
  <2>8. QED
    BY <2>3, <2>6, <2>7
<1>4. QED
  BY <1>1, <1>2, <1>3

LEMMA ActKnows ==
  ASSUME IInv, Lasting, Witness, NEW r \in Requests, TypeOK', Act(r)
  PROVE  Known(r)'
<1> DEFINE q == req[r]
<1>0. /\ q \in Request /\ req \in [Requests -> Request]
      /\ q.pc = "act" /\ ~q.given /\ q.answer = "none"
      /\ Underway(q, held[r]) /\ TypeOK
      /\ UNCHANGED <<user, session, share, trail>>
  BY DEF IInv, TypeOK, Known, Act, At, world
<1>1. held[r] \subseteq held'[r]
  BY <1>0, Remembers
<1>2. CASE q.route.again = "row" /\ deleted
  <2>1. req'[r].pc = "done" /\ ~req'[r].given /\ req'[r].answer \in {"ok", "notFound"}
    BY <1>2, <1>0 DEF Act, Answered, Request
  <2>2. QED
    BY <2>1 DEF Known
<1>3. CASE ~(q.route.again = "row" /\ deleted)
  <2>1. /\ req'[r].route = q.route /\ req'[r].origin = q.origin /\ req'[r].actor = q.actor /\ req'[r].given
        /\ \/ req'[r].pc = "done" /\ req'[r].answer = "ok" /\ q.route.surface # "console"
           \/ req'[r].pc = "record" /\ req'[r].answer = "none" /\ q.route.surface = "console"
    BY <1>3, <1>0 DEF Act, Given, Request
  <2>2. RowPassed(req[r], held[r])' /\ SurfacePassed(req[r], held[r])'
    <3>1. RowPassed(q, held[r]) /\ SurfacePassed(q, held[r]) /\ user'.role = user.role
      BY <1>0 DEF Underway, PastGates
    <3>2. QED
      BY <3>1, <2>1, <1>1, StaysGiven
  <2>3. GivenOn(req[r], held[r])'
    BY <2>1, <2>2, <1>0, <1>1 DEF GivenOn, Underway, KnowsUser, PastGates
  <2>4. req'[r].pc = "record" => Underway(req[r], held[r])'
    BY <2>1, <2>2, <1>0, <1>1 DEF Underway, KnowsUser, KnowsShare, PastGates
  <2>5. QED
    BY <2>1, <2>3, <2>4 DEF Known
<1>4. QED
  BY <1>2, <1>3

LEMMA EndsKnow ==
  ASSUME IInv, Lasting, Witness, NEW r \in Requests, TypeOK', Expel(r) \/ RecordAccess(r)
  PROVE  Known(r)'
<1> DEFINE q == req[r]
<1>0. /\ q \in Request /\ req \in [Requests -> Request]
      /\ q.pc \in {"expel", "record"} /\ q.answer = "none" /\ (q.given => GivenOn(q, held[r]) /\ q.pc = "record")
      /\ TypeOK /\ user'.role = user.role
  BY DEF IInv, TypeOK, Known, Expel, RecordAccess, At, Lasting
<1>1. held[r] \subseteq held'[r]
  BY <1>0, Remembers
<1>2. /\ req'[r].pc = "done" /\ req'[r].route = q.route /\ req'[r].origin = q.origin /\ req'[r].given = q.given
      /\ req'[r].answer \in {"ok", "error", "unauthorized", "notFound"}
      /\ req'[r].answer = "ok" => r \in trail'
  BY <1>0 DEF Expel, RecordAccess, Answered, TurnedAway, Request
<1>3. q.given => GivenOn(req[r], held[r])'
  BY <1>0, <1>1, <1>2, StaysGiven
<1>4. QED
  BY <1>2, <1>3 DEF Known

(* ---------------------------- the invariant ---------------------------- *)

LEMMA StepKnows ==
  ASSUME IInv, Lasting, Witness, TypeOK', NEW r \in Requests, Step(r)
  PROVE  \A s \in Requests : Known(s)'
<1>1. Known(r)'
  BY ArriveKnows, ReadsKnow, GateKnows, FindKnows, ActKnows, EndsKnow DEF Step
<1>2. ASSUME NEW s \in Requests, s # r PROVE Known(s)'
  <2>1. req'[s] = req[s]
    BY <1>2, StepTypes DEF IInv
  <2>2. QED
    BY <2>1, KeepsKnowing DEF IInv
<1>3. QED
  BY <1>1, <1>2

LEMMA InvInit ==
  ASSUME Init
  PROVE  IInv
<1>1. NewRequest \in Request
  <2>1. SlugAvailable \in Routes
    BY DEF Routes
  <2>2. QED
    BY <2>1 DEF NewRequest, Request, NoActor, Actor, UserRoles, UserStatuses, Origins, Answers
<1>2. TypeOK
  <2>1. req \in [Requests -> Request]
    BY <1>1 DEF Init
  <2>2. user \in User /\ session \in Session /\ factor \in BOOLEAN /\ share \in Share /\ deleted \in BOOLEAN
    BY DEF Init
  <2>3. changes \in 0..MaxChanges
    BY AccessAssumption DEF Init
  <2>4. held \in [Requests -> SUBSET ({"session", "usable", "verified", "fresh", "settled", "present"} \cup MembershipRoles)]
    BY DEF Init
  <2>5. trail \subseteq Requests
    BY DEF Init
  <2>6. QED
    BY <2>1, <2>2, <2>3, <2>4, <2>5 DEF TypeOK
<1>3. \A r \in Requests : Known(r)
  BY DEF Init, Known, NewRequest
<1>4. QED
  BY <1>2, <1>3 DEF Init, IInv

LEMMA InvStep ==
  ASSUME IInv, [Next]_vars
  PROVE  IInv'
<1>1. CASE Next
  <2>1. TypeOK /\ Lasting /\ TypeOK' /\ Witness
    BY <1>1, Lasts, TypeStep DEF IInv, Next
  <2>2. (share.owns => share.member = "none")'
    <3>1. CASE Change
      <4>1. CASE MembershipGranted \/ MembershipRevoked
        BY <4>1 DEF MembershipGranted, MembershipRevoked, IInv, TypeOK, Share
      <4>2. CASE ~(MembershipGranted \/ MembershipRevoked)
        <5>1. share' = share
          BY <3>1, <4>2 DEF Change, AccountSuspended, AddressVerified, SessionEnds, SessionAges,
             FactorConfirmed, ChallengeAnswered, FactorRemoved, InvitationDeleted
        <5>2. QED
          BY <5>1 DEF IInv
      <4>3. QED
        BY <4>1, <4>2
    <3>2. CASE \E r \in Requests : Step(r)
      <4>1. share' = share
        BY <3>2 DEF Step, Arrive, ReadUser, Expel, ReadMemberships, Gate, Find, Act, RecordAccess, world
      <4>2. QED
        BY <4>1 DEF IInv
    <3>3. QED
      BY <1>1, <3>1, <3>2 DEF Next
  <2>3. \A s \in Requests : Known(s)'
    <3>1. CASE \E r \in Requests : Step(r)
      BY <2>1, <3>1, StepKnows
    <3>2. CASE Change
      <4>1. req' = req
        BY <3>2 DEF Change, Changes, AccountSuspended, AddressVerified, SessionEnds, SessionAges,
           FactorConfirmed, ChallengeAnswered, FactorRemoved, MembershipGranted, MembershipRevoked,
           InvitationDeleted
      <4>2. QED
        BY <2>1, <4>1, KeepsKnowing DEF IInv
    <3>3. QED
      BY <1>1, <3>1, <3>2 DEF Next
  <2>4. QED
    BY <2>1, <2>2, <2>3 DEF IInv
<1>2. CASE UNCHANGED vars
  <2>1. /\ user' = user /\ session' = session /\ factor' = factor /\ share' = share /\ deleted' = deleted
        /\ req' = req /\ trail' = trail /\ held' = held /\ changes' = changes
    BY <1>2 DEF vars
  <2>2. TypeOK' /\ (share.owns => share.member = "none")'
    BY <2>1 DEF IInv, TypeOK
  <2>3. ASSUME NEW r \in Requests PROVE Known(r)'
    <3>1. Known(r)
      BY DEF IInv
    <3>2. QED
      BY <3>1, <2>1 DEF Known, Underway, GivenOn, RowPassed, SurfacePassed, RefusedTo, Entitled, IsStaff
  <2>4. QED
    BY <2>2, <2>3 DEF IInv
<1>3. QED
  BY <1>1, <1>2

LEMMA Invariance == Spec => []IInv
  BY InvInit, InvStep, PTL DEF Spec

(* ------------------------------ the theorems --------------------------- *)

\* The variables keep to their types, for any number of requests and of changes.
THEOREM AccessTyped == Spec => []TypeOK
<1>1. IInv => TypeOK
  BY DEF IInv
<1>2. QED
  BY <1>1, Invariance, PTL

\* Whatever changes between the reads of a request, nothing is given that the matrix of
\* docs/09 does not allow on facts that were true while the request was under way.
THEOREM NothingGivenUnfounded == Spec => []GivenByRight
<1>1. IInv => GivenByRight
  <2>1. SUFFICES ASSUME IInv, NEW r \in Requests, req[r].given
                 PROVE  LET route == req[r].route IN
                        /\ {"session", "usable", "settled"} \subseteq held[r]
                        /\ ~(route.mutating /\ req[r].origin = "foreign")
                        /\ route.surface \in {"invitation", "media"} => Entitled(route.asks, held[r])
                        /\ route.surface = "collection" => ~IsStaff(user)
                        /\ route.surface = "console" =>
                             /\ IsStaff(user) /\ "fresh" \in held[r]
                             /\ route = AdminAuditLogs => user.role \in {"admin", "superadmin"}
                             /\ req[r].answer = "ok" => r \in trail
    BY DEF GivenByRight
  <2>2. Known(r) /\ GivenOn(req[r], held[r])
    BY <2>1 DEF IInv, Known
  <2>3. AdminAuditLogs.asks = "admin:read_audit_log"
    BY DEF AdminAuditLogs, Reads
  <2>4. QED
    BY <2>1, <2>2, <2>3 DEF Known, GivenOn, RowPassed, SurfacePassed
<1>2. QED
  BY <1>1, Invariance, PTL

\* A 403 about a row is only ever given to those who may see that row.
THEOREM RefusalsRevealNothing == Spec => []RefusalTellsNothing
<1>1. IInv => RefusalTellsNothing
  BY DEF IInv, Known, RefusalTellsNothing, RefusedTo
<1>2. QED
  BY <1>1, Invariance, PTL

(***************************************************************************)
(*                          PlanLimits: its plan                           *)
(***************************************************************************)

(* ------------------------------ the invariant -------------------------- *)

Typed ==
  /\ invitation \in [Creations -> Statuses \cup {"none"}]
  /\ creation \in [Creations -> {"new", "count", "insert", "done"}]
  /\ overlap \in Nat
  /\ returned \subseteq Creations

\* The active invitations that a count let in.
CountedIn == Active \ returned

\* Whoever has been let in holds a place already: the one who counted last saw fewer than
\* Allowed, and at most `overlap` others were on their way.
PlacesTaken == Cardinality(CountedIn) + Cardinality(Inserting) <= Allowed + overlap

CreationIInv == Typed /\ PlacesTaken

(* ------------------------------- counting ------------------------------ *)

\* There are finitely many requests, and so of whatever they create.
LEMMA Finite ==
  ASSUME NEW S \in SUBSET Creations
  PROVE  IsFiniteSet(S) /\ Cardinality(S) \in Nat
BY PlanLimitsAssumption, FS_Subset, FS_CardinalityType

\* A part has no more elements than the whole.
LEMMA PartIsNoLarger ==
  ASSUME NEW S \in SUBSET Creations, NEW T \in SUBSET S
  PROVE  Cardinality(T) <= Cardinality(S)
BY Finite, FS_Subset

\* One more makes at most one more.
LEMMA OneMore ==
  ASSUME NEW S \in SUBSET Creations, NEW q \in Creations
  PROVE  Cardinality(S \cup {q}) <= Cardinality(S) + 1
BY Finite, FS_AddElement

\* Without one of its elements, a set has one element less.
LEMMA OneLess ==
  ASSUME NEW S \in SUBSET Creations, NEW q \in S
  PROVE  Cardinality(S \ {q}) = Cardinality(S) - 1
BY Finite, FS_RemoveElement

LEMMA SetsOfCreations ==
  /\ Active \in SUBSET Creations /\ CountedIn \in SUBSET Creations /\ Inserting \in SUBSET Creations
  /\ Cardinality(Active) \in Nat /\ Cardinality(CountedIn) \in Nat /\ Cardinality(Inserting) \in Nat
<1>1. Active \in SUBSET Creations /\ CountedIn \in SUBSET Creations /\ Inserting \in SUBSET Creations
  BY DEF Active, CountedIn, Inserting
<1> QED BY <1>1, Finite

\* The same, of the state after a step.
LEMMA SetsOfCreationsNext ==
  /\ CountedIn' \in SUBSET Creations /\ Inserting' \in SUBSET Creations
  /\ Cardinality(CountedIn') \in Nat /\ Cardinality(Inserting') \in Nat
<1>1. CountedIn' \in SUBSET Creations /\ Inserting' \in SUBSET Creations
  BY DEF Active, CountedIn, Inserting
<1> QED BY <1>1, Finite

\* Where nothing is let in, and nothing that was let in is active again, no place is taken.
LEMMA NoPlaceTaken ==
  ASSUME CreationIInv, CountedIn' \subseteq CountedIn, Inserting' \subseteq Inserting, UNCHANGED overlap
  PROVE  PlacesTaken'
<1>1. /\ Cardinality(CountedIn') <= Cardinality(CountedIn)
      /\ Cardinality(Inserting') <= Cardinality(Inserting)
  BY SetsOfCreations, PartIsNoLarger
<1> QED BY <1>1, SetsOfCreations, SetsOfCreationsNext, PlanLimitsAssumption
        DEF CreationIInv, Typed, PlacesTaken

(* -------------------------------- the steps ---------------------------- *)

LEMMA InitHolds == CreationInit => CreationIInv
<1> SUFFICES ASSUME CreationInit PROVE CreationIInv
  OBVIOUS
<1>1. Typed
  BY DEF CreationInit, Typed
<1>2. CountedIn = {} /\ Inserting = {}
  BY DEF CreationInit, CountedIn, Active, ActiveStatuses, Inserting
<1>3. PlacesTaken
  BY <1>1, <1>2, FS_EmptySet, PlanLimitsAssumption DEF Typed, PlacesTaken
<1> QED BY <1>1, <1>3 DEF CreationIInv

\* A request that goes on, to anything but the insert, takes no place.
LEMMA GoKeeps ==
  ASSUME CreationIInv, UNCHANGED <<invitation, overlap, returned>>,
         NEW q \in Creations, NEW pc \in {"count", "done"}, Go(q, pc)
  PROVE  CreationIInv'
<1>1. Typed'
  BY DEF CreationIInv, Typed, Go
<1>2. CountedIn' \subseteq CountedIn /\ Inserting' \subseteq Inserting
  BY DEF CountedIn, Active, Inserting, CreationIInv, Typed, Go
<1> QED BY <1>1, <1>2, NoPlaceTaken DEF CreationIInv

LEMMA CountKeeps ==
  ASSUME CreationIInv, NEW q \in Creations, Count(q)
  PROVE  CreationIInv'
<1>1. CASE Cardinality(Active) >= Allowed
  BY <1>1, GoKeeps DEF Count
<1>2. CASE ~(Cardinality(Active) >= Allowed)
  <2>1. Go(q, "insert") /\ UNCHANGED <<invitation, returned>>
        /\ overlap' = IF Cardinality(Inserting) > overlap THEN Cardinality(Inserting) ELSE overlap
    BY <1>2 DEF Count, LetIn
  <2>2. Typed' /\ overlap' >= Cardinality(Inserting)
    BY <2>1, SetsOfCreations DEF CreationIInv, Typed, Go
  <2>3. CountedIn' \subseteq Active /\ Inserting' \subseteq Inserting \cup {q}
    BY <2>1 DEF CountedIn, Active, Inserting, CreationIInv, Typed, Go
  <2>4. Cardinality(CountedIn') <= Cardinality(Active)
    BY <2>3, SetsOfCreations, PartIsNoLarger
  <2>5. Cardinality(Inserting') <= Cardinality(Inserting) + 1
    <3>1. Inserting \cup {q} \in SUBSET Creations
      BY SetsOfCreations
    <3>2. /\ Cardinality(Inserting') <= Cardinality(Inserting \cup {q})
          /\ Cardinality(Inserting \cup {q}) <= Cardinality(Inserting) + 1
      BY <2>3, <3>1, SetsOfCreations, PartIsNoLarger, OneMore
    <3>3. Cardinality(Inserting \cup {q}) \in Nat
      BY <3>1, Finite
    <3> QED BY <3>2, <3>3, SetsOfCreations, SetsOfCreationsNext
  <2>6. PlacesTaken'
    BY <1>2, <2>2, <2>4, <2>5, SetsOfCreations, SetsOfCreationsNext, PlanLimitsAssumption
    DEF Typed, PlacesTaken
  <2> QED BY <2>2, <2>6 DEF CreationIInv
<1> QED BY <1>1, <1>2

\* The row is there: the place its request held is the row's now.
LEMMA InsertKeeps ==
  ASSUME CreationIInv, NEW q \in Creations, Insert(q)
  PROVE  CreationIInv'
<1>1. Typed'
  BY DEF Insert, Go, CreationIInv, Typed, Statuses
<1>2. q \in Inserting /\ Inserting' = Inserting \ {q}
  BY DEF Inserting, Insert, Go, CreationIInv, Typed
<1>3. CountedIn' \subseteq CountedIn \cup {q} /\ CountedIn \cup {q} \in SUBSET Creations
  BY SetsOfCreations DEF CountedIn, Active, Insert, CreationIInv, Typed
<1>4. Cardinality(Inserting') = Cardinality(Inserting) - 1
  BY <1>2, SetsOfCreations, OneLess
<1>5. /\ Cardinality(CountedIn') <= Cardinality(CountedIn \cup {q})
      /\ Cardinality(CountedIn \cup {q}) <= Cardinality(CountedIn) + 1
      /\ Cardinality(CountedIn \cup {q}) \in Nat
  BY <1>3, SetsOfCreations, PartIsNoLarger, OneMore, Finite
<1>6. PlacesTaken'
  BY <1>4, <1>5, SetsOfCreations, SetsOfCreationsNext, PlanLimitsAssumption
  DEF CreationIInv, Typed, PlacesTaken, Insert
<1> QED BY <1>1, <1>6 DEF CreationIInv

\* What becomes active again is among the returned.
LEMMA TransitionKeeps ==
  ASSUME CreationIInv, NEW i \in Creations, Transition(i)
  PROVE  CreationIInv'
<1>1. PICK step \in Lifecycle :
        /\ step[1] = invitation[i]
        /\ invitation' = [invitation EXCEPT ![i] = step[3]]
        /\ returned' = IF step[3] \in ActiveStatuses /\ i \notin Active THEN returned \cup {i} ELSE returned
        /\ UNCHANGED <<creation, overlap>>
  BY DEF Transition
<1>2. step[3] \in Statuses
  BY DEF Lifecycle, Statuses
<1>3. Typed'
  BY <1>1, <1>2 DEF CreationIInv, Typed
<1>4. /\ \A j \in Creations \ {i} : invitation'[j] = invitation[j]
      /\ invitation'[i] = step[3]
  BY <1>1 DEF CreationIInv, Typed
<1>5. CountedIn' \subseteq CountedIn
  BY <1>1, <1>4 DEF CountedIn, Active
<1>6. Inserting' = Inserting
  BY <1>1 DEF Inserting
<1> QED BY <1>1, <1>3, <1>5, <1>6, NoPlaceTaken DEF CreationIInv

LEMMA NextKeeps == CreationIInv /\ [CreationNext]_creationVars => CreationIInv'
<1> SUFFICES ASSUME CreationIInv, [CreationNext]_creationVars PROVE CreationIInv'
  OBVIOUS
<1>1. ASSUME NEW q \in Creations, NEW p \in Processes, AskLimiter(q, p) PROVE CreationIInv'
  BY <1>1, GoKeeps DEF AskLimiter
<1>2. ASSUME NEW q \in Creations, Abandon(q) PROVE CreationIInv'
  BY <1>2, GoKeeps DEF Abandon
<1>3. CASE UNCHANGED <<invitation, creation, overlap, returned>>
  BY <1>3 DEF CreationIInv, Typed, PlacesTaken, CountedIn, Active, Inserting
<1> QED BY <1>1, <1>2, <1>3, CountKeeps, InsertKeeps, TransitionKeeps DEF CreationNext, creationVars

(* -------------------------------- the theorem -------------------------- *)

\* For any plan and any number of creations: the active invitations pass the limit by no
\* more than the requests that stood between count and insert when another counted, and
\* the invitations that are active again without a count.
THEOREM PlanOvershoot == CreationSpec => []OvershootIsBounded
<1>1. CreationIInv => OvershootIsBounded
  <2> SUFFICES ASSUME CreationIInv PROVE OvershootIsBounded
    OBVIOUS
  <2> DEFINE Again == Active \cap returned
  <2>1. Again \in SUBSET Creations /\ IsFiniteSet(Active) /\ IsFiniteSet(returned)
    BY SetsOfCreations, Finite DEF CreationIInv, Typed
  <2>2. Cardinality(CountedIn) = Cardinality(Active) - Cardinality(Again)
    BY <2>1, FS_Difference DEF CountedIn
  <2>3. Cardinality(Again) \in Nat
    BY <2>1, Finite
  <2> QED BY <2>2, <2>3, SetsOfCreations, PlanLimitsAssumption
          DEF CreationIInv, Typed, PlacesTaken, OvershootIsBounded
<1> QED BY InitHolds, NextKeeps, <1>1, PTL DEF CreationSpec

(* ---------------------------- the rate limiter ------------------------- *)

(* --------------------------------- the Map ----------------------------- *)

\* A Map holds a key once.
KeysOnce(m) == \A i, j \in DOMAIN m : m[i].key = m[j].key => i = j

\* What the assumption says of the budgets.
LEMMA Budgets ==
  /\ Limit \in [Keys -> Nat \ {0}] /\ Window \in [Keys -> Nat \ {0}]
  /\ MaxTrackedKeys \in Nat \ {0} /\ MaxTime \in Nat
BY RateLimiterAssumption

\* Finding the entry of a key.
LEMMA PlaceFound ==
  ASSUME NEW m \in Seq(Entry), KeysOnce(m), NEW k \in KeysOf(m)
  PROVE  /\ Place(m, k) \in 1..Len(m) /\ Place(m, k) \in DOMAIN m /\ m[Place(m, k)].key = k
         /\ \A j \in DOMAIN m : m[j].key = k => j = Place(m, k)
<1>1. \E j \in DOMAIN m : m[j].key = k
  BY DEF KeysOf
<1>2. Place(m, k) \in DOMAIN m /\ m[Place(m, k)].key = k
  BY <1>1 DEF Place
<1> QED BY <1>2 DEF KeysOnce

\* Get gives what the entry of the key holds.
LEMMA GetFound ==
  ASSUME NEW m \in Seq(Entry), KeysOnce(m), NEW j \in DOMAIN m
  PROVE  m[j].key \in KeysOf(m) /\ Get(m, m[j].key) = m[j].at
<1>1. m[j].key \in KeysOf(m)
  BY DEF KeysOf
<1>2. j = Place(m, m[j].key)
  BY <1>1, PlaceFound
<1> QED BY <1>1, <1>2 DEF Get

\* A Map whose entries of key x are another's gives x the same calls.
LEMMA GetKept ==
  ASSUME NEW m \in Seq(Entry), NEW n \in Seq(Entry), KeysOnce(m), KeysOnce(n), NEW x \in KeysOf(n),
         \A j \in DOMAIN n : n[j].key = x => \E i \in DOMAIN m : m[i] = n[j]
  PROVE  x \in KeysOf(m) /\ Get(n, x) = Get(m, x)
<1>1. PICK j \in DOMAIN n : n[j].key = x
  BY DEF KeysOf
<1>2. PICK i \in DOMAIN m : m[i] = n[j]
  BY <1>1
<1> QED BY <1>1, <1>2, GetFound

\* delete: the entry of the key goes, and no other.
LEMMA WithoutKey ==
  ASSUME NEW m \in Seq(Entry), KeysOnce(m), NEW k
  PROVE  /\ Without(m, k) \in Seq(Entry) /\ KeysOnce(Without(m, k))
         /\ Len(Without(m, k)) <= Len(m)
         /\ KeysOf(Without(m, k)) = KeysOf(m) \ {k}
         /\ \A x \in KeysOf(m) : x # k => Get(Without(m, k), x) = Get(m, x)
<1>1. CASE k \notin KeysOf(m)
  <2>1. Without(m, k) = m
    BY <1>1 DEF Without
  <2> QED BY <1>1, <2>1
<1>2. CASE k \in KeysOf(m)
  <2>1. PICK p \in 1..Len(m) : p = Place(m, k) /\ m[p].key = k
    BY <1>2, PlaceFound
  <2>2. Without(m, k) = SubSeq(m, 1, p - 1) \o SubSeq(m, p + 1, Len(m))
    BY <1>2, <2>1 DEF Without
  <2>3. PICK n : n = SubSeq(m, 1, p - 1) \o SubSeq(m, p + 1, Len(m))
    OBVIOUS
  <2>4. /\ n \in Seq(Entry) /\ Len(n) = Len(m) - 1
        /\ \A j \in 1..(Len(m) - 1) : n[j] = IF j < p THEN m[j] ELSE m[j + 1]
    <3>1. PICK a : a = SubSeq(m, 1, p - 1)
      OBVIOUS
    <3>2. PICK b : b = SubSeq(m, p + 1, Len(m))
      OBVIOUS
    <3>3. Len(m) \in Nat /\ p \in Nat /\ 1 <= p /\ p <= Len(m)
      OBVIOUS
    <3>4. a \in Seq(Entry) /\ Len(a) = p - 1 /\ \A j \in 1..(p - 1) : a[j] = m[j]
      BY <3>1, <3>3
    <3>5. b \in Seq(Entry) /\ Len(b) = Len(m) - p /\ \A j \in 1..(Len(m) - p) : b[j] = m[p + j]
      BY <3>2, <3>3
    <3>6. n = a \o b
      BY <2>3, <3>1, <3>2
    <3>7. n \in Seq(Entry) /\ Len(n) = Len(m) - 1
      <4>1. a \in Seq(Entry) /\ b \in Seq(Entry)
        BY <3>4, <3>5
      <4>2. a \o b \in Seq(Entry) /\ Len(a \o b) = Len(a) + Len(b)
        BY <4>1
      <4>3. Len(a) + Len(b) = Len(m) - 1
        BY <3>3, <3>4, <3>5
      <4> QED BY <3>6, <4>2, <4>3
    <3>8. \A j \in 1..(Len(m) - 1) : n[j] = IF j < p THEN a[j] ELSE b[j - (p - 1)]
      <4>1. a \in Seq(Entry) /\ b \in Seq(Entry) /\ Len(a) + Len(b) = Len(m) - 1
        BY <3>3, <3>4, <3>5
      <4>2. \A j \in 1..(Len(a) + Len(b)) : (a \o b)[j] = IF j <= Len(a) THEN a[j] ELSE b[j - Len(a)]
        BY <4>1
      <4>3. \A j \in 1..(Len(m) - 1) : n[j] = IF j <= p - 1 THEN a[j] ELSE b[j - (p - 1)]
        BY <3>4, <3>6, <4>1, <4>2
      <4>4. \A j \in 1..(Len(m) - 1) : j <= p - 1 <=> j < p
        BY <3>3
      <4> QED BY <4>3, <4>4
    <3>9. \A j \in 1..(Len(m) - 1) :
            /\ j < p => j \in 1..(p - 1)
            /\ ~(j < p) => j - (p - 1) \in 1..(Len(m) - p) /\ p + (j - (p - 1)) = j + 1
      BY <3>3
    <3> QED BY <3>4, <3>5, <3>7, <3>8, <3>9
  <2>5. Len(m) \in Nat /\ DOMAIN m = 1..Len(m) /\ DOMAIN n = 1..(Len(m) - 1)
    BY <2>4
  <2>6. \A j \in DOMAIN n : \E i \in DOMAIN m : i # p /\ n[j] = m[i] /\ i = IF j < p THEN j ELSE j + 1
    BY <2>4, <2>5
  <2>7. \A i \in DOMAIN m : i # p => \E j \in DOMAIN n : n[j] = m[i]
    <3> TAKE i \in DOMAIN m
    <3>1. CASE i < p
      BY <2>4, <2>5, <3>1
    <3>2. CASE i > p
      <4>1. i - 1 \in DOMAIN n /\ ~(i - 1 < p) /\ (i - 1) + 1 = i
        BY <2>5, <3>2
      <4> QED BY <2>4, <2>5, <4>1
    <3> QED BY <2>5, <3>1, <3>2
  <2>8. KeysOnce(n)
    BY <2>5, <2>6 DEF KeysOnce
  <2>9. KeysOf(n) = KeysOf(m) \ {k}
    <3>1. \A i \in DOMAIN m : i # p => m[i].key # k
      BY <2>1, <2>5 DEF KeysOnce
    <3> QED BY <2>1, <2>6, <2>7, <3>1 DEF KeysOf
  <2>10. \A x \in KeysOf(m) : x # k => Get(n, x) = Get(m, x)
    <3> TAKE x \in KeysOf(m)
    <3>1. x # k => x \in KeysOf(n)
      BY <2>9
    <3>2. \A j \in DOMAIN n : n[j].key = x => \E i \in DOMAIN m : m[i] = n[j]
      BY <2>6
    <3> QED BY <2>4, <2>8, <3>1, <3>2, GetKept
  <2>11. Without(m, k) = n /\ Len(n) <= Len(m)
    <3>1. Len(n) <= Len(m)
      BY <2>4, <2>5
    <3> QED BY <2>2, <2>3, <3>1
  <2> QED BY <2>4, <2>8, <2>9, <2>10, <2>11
<1> QED BY <1>1, <1>2

\* set: a key that is there keeps its place, one that is not comes last.
LEMMA WithKey ==
  ASSUME NEW m \in Seq(Entry), KeysOnce(m), NEW k \in Keys, NEW calls \in SUBSET Call
  PROVE  /\ With(m, k, calls) \in Seq(Entry) /\ KeysOnce(With(m, k, calls))
         /\ KeysOf(With(m, k, calls)) = KeysOf(m) \cup {k}
         /\ Get(With(m, k, calls), k) = calls
         /\ \A x \in KeysOf(m) : x # k => Get(With(m, k, calls), x) = Get(m, x)
         /\ k \in KeysOf(m) => Len(With(m, k, calls)) = Len(m)
         /\ k \notin KeysOf(m) => /\ Len(With(m, k, calls)) = Len(m) + 1
                                  /\ With(m, k, calls)[Len(m) + 1].key = k
<1> DEFINE e == [key |-> k, at |-> calls]
<1>1. e \in Entry /\ e.key = k /\ e.at = calls
  BY DEF Entry
<1>2. Len(m) \in Nat /\ DOMAIN m = 1..Len(m)
  OBVIOUS
<1>3. PICK n : n = With(m, k, calls)
  OBVIOUS
<1>4. PICK p \in 1..(Len(m) + 1) :
        /\ k \in KeysOf(m) => p \in DOMAIN m /\ m[p].key = k
        /\ k \notin KeysOf(m) => p = Len(m) + 1
        /\ n \in Seq(Entry) /\ n[p] = e /\ p \in DOMAIN n
        /\ Len(n) = IF k \in KeysOf(m) THEN Len(m) ELSE Len(m) + 1
        /\ \A j \in DOMAIN n : j # p => j \in DOMAIN m /\ n[j] = m[j]
        /\ \A j \in DOMAIN m : j # p => j \in DOMAIN n /\ n[j] = m[j]
  <2>1. CASE k \in KeysOf(m)
    <3>1. PICK p \in 1..Len(m) : p = Place(m, k) /\ m[p].key = k
      BY <2>1, PlaceFound
    <3>2. n = [m EXCEPT ![p] = e]
      BY <1>3, <2>1, <3>1 DEF With
    <3> HIDE DEF e
    <3>3. n \in Seq(Entry) /\ Len(n) = Len(m) /\ DOMAIN n = DOMAIN m /\ n[p] = e
          /\ \A j \in DOMAIN m : j # p => n[j] = m[j]
      BY <1>1, <1>2, <3>2
    <3> QED BY <1>2, <2>1, <3>1, <3>3
  <2>2. CASE k \notin KeysOf(m)
    <3>1. n = Append(m, e)
      BY <1>3, <2>2 DEF With
    <3> HIDE DEF e
    <3>2. n \in Seq(Entry) /\ Len(n) = Len(m) + 1 /\ n[Len(m) + 1] = e
          /\ \A j \in 1..Len(m) : n[j] = m[j]
      BY <1>1, <3>1
    <3> QED BY <1>2, <2>2, <3>2
  <2> QED BY <2>1, <2>2
<1> HIDE DEF e
<1>5. \A j \in DOMAIN m : m[j].key = k => j = p
  BY <1>4 DEF KeysOf, KeysOnce
<1>6. KeysOnce(n)
  BY <1>1, <1>4, <1>5 DEF KeysOnce
<1>7. KeysOf(n) = KeysOf(m) \cup {k}
  <2>1. \A x \in KeysOf(n) : x \in KeysOf(m) \cup {k}
    BY <1>1, <1>4 DEF KeysOf
  <2>2. \A x \in KeysOf(m) : x = k \/ x \in KeysOf(n)
    BY <1>4, <1>5 DEF KeysOf
  <2>3. k \in KeysOf(n)
    BY <1>1, <1>4 DEF KeysOf
  <2> QED BY <2>1, <2>2, <2>3
<1>8. Get(n, k) = calls
  BY <1>1, <1>4, <1>6, GetFound
<1>9. \A x \in KeysOf(m) : x # k => Get(n, x) = Get(m, x)
  <2> TAKE x \in KeysOf(m)
  <2>1. x # k => \A j \in DOMAIN n : n[j].key = x => \E i \in DOMAIN m : m[i] = n[j]
    BY <1>1, <1>4
  <2> QED BY <1>4, <1>6, <1>7, <2>1, GetKept
<1> QED BY <1>1, <1>3, <1>4, <1>6, <1>7, <1>8, <1>9

\* evictIfNeeded: the entry that came first goes.
LEMMA TailKeys ==
  ASSUME NEW m \in Seq(Entry), KeysOnce(m), Len(m) > 0
  PROVE  /\ Tail(m) \in Seq(Entry) /\ KeysOnce(Tail(m)) /\ Len(Tail(m)) = Len(m) - 1
         /\ KeysOf(Tail(m)) = KeysOf(m) \ {m[1].key}
         /\ \A x \in KeysOf(Tail(m)) : Get(Tail(m), x) = Get(m, x)
<1>1. PICK n : n = Tail(m)
  OBVIOUS
<1>2. Len(m) \in Nat /\ DOMAIN m = 1..Len(m) /\ n \in Seq(Entry) /\ Len(n) = Len(m) - 1
      /\ DOMAIN n = 1..(Len(m) - 1)
      /\ \A j \in 1..(Len(m) - 1) : n[j] = m[j + 1]
  BY <1>1
<1>3. KeysOnce(n)
  <2> SUFFICES ASSUME NEW i \in DOMAIN n, NEW j \in DOMAIN n, n[i].key = n[j].key PROVE i = j
    BY DEF KeysOnce
  <2>1. i \in 1..(Len(m) - 1) /\ j \in 1..(Len(m) - 1)
    BY <1>2
  <2>2. i + 1 \in DOMAIN m /\ j + 1 \in DOMAIN m /\ m[i + 1].key = m[j + 1].key
    BY <1>2, <2>1
  <2>3. i + 1 = j + 1
    BY <2>2 DEF KeysOnce
  <2> QED BY <2>1, <2>3
<1>4. KeysOf(n) = KeysOf(m) \ {m[1].key}
  <2>1. \A j \in DOMAIN n : j + 1 \in DOMAIN m /\ j + 1 # 1 /\ n[j] = m[j + 1]
    BY <1>2
  <2>2. \A i \in DOMAIN m : i # 1 => i - 1 \in DOMAIN n /\ n[i - 1] = m[i]
    <3> TAKE i \in DOMAIN m
    <3>1. i # 1 => i - 1 \in 1..(Len(m) - 1) /\ (i - 1) + 1 = i
      BY <1>2
    <3> QED BY <1>2, <3>1
  <2>3. 1 \in DOMAIN m
    BY <1>2
  <2>4. \A i \in DOMAIN m : i # 1 => m[i].key # m[1].key
    BY <2>3 DEF KeysOnce
  <2>5. \A x \in KeysOf(n) : x \in KeysOf(m) /\ x # m[1].key
    BY <2>1, <2>4 DEF KeysOf
  <2>6. \A x \in KeysOf(m) : x = m[1].key \/ x \in KeysOf(n)
    BY <2>2 DEF KeysOf
  <2> QED BY <2>5, <2>6
<1>5. \A x \in KeysOf(n) : Get(n, x) = Get(m, x)
  <2> TAKE x \in KeysOf(n)
  <2>1. \A j \in DOMAIN n : \E i \in DOMAIN m : m[i] = n[j]
    BY <1>2
  <2> QED BY <1>2, <1>3, <2>1, GetKept
<1> QED BY <1>1, <1>2, <1>3, <1>4, <1>5

\* Every key of a Map of entries is given a set of calls.
LEMMA GetTyped ==
  ASSUME NEW m \in Seq(Entry), KeysOnce(m), NEW k
  PROVE  Get(m, k) \in SUBSET Call
<1>1. CASE k \in KeysOf(m)
  <2>1. PICK j \in DOMAIN m : m[j].key = k
    BY <1>1 DEF KeysOf
  <2>2. Get(m, k) = m[j].at /\ m[j] \in Entry
    BY <2>1, GetFound
  <2> QED BY <2>2 DEF Entry
<1>2. CASE k \notin KeysOf(m)
  BY <1>2 DEF Get
<1> QED BY <1>1, <1>2

\* prune: the key keeps what is in its window, and is forgotten when that is nothing.
LEMMA PrunedMap ==
  ASSUME NEW m \in Seq(Entry), KeysOnce(m), NEW k \in Keys
  PROVE  /\ Prune(m, k) \in Seq(Entry) /\ KeysOnce(Prune(m, k)) /\ Len(Prune(m, k)) <= Len(m)
         /\ Get(Prune(m, k), k) = Recent(m, k)
         /\ \A x \in Keys : x # k => Get(Prune(m, k), x) = Get(m, x)
<1>1. Recent(m, k) \in SUBSET Call
  BY GetTyped DEF Recent
<1>2. CASE Recent(m, k) = {}
  <2>1. Prune(m, k) = Without(m, k)
    BY <1>2 DEF Prune
  <2>2. k \notin KeysOf(Without(m, k)) /\ \A x \in Keys : x \notin KeysOf(m) => x \notin KeysOf(Without(m, k))
    BY WithoutKey
  <2>3. Get(Without(m, k), k) = {}
        /\ \A x \in Keys : x \notin KeysOf(m) => Get(Without(m, k), x) = Get(m, x)
    BY <2>2 DEF Get
  <2> QED BY <1>2, <2>1, <2>3, WithoutKey
<1>3. CASE Recent(m, k) # {}
  <2>1. Prune(m, k) = With(m, k, Recent(m, k)) /\ k \in KeysOf(m)
    BY <1>3 DEF Prune, Recent, Get
  <2>2. \A x \in Keys : x \notin KeysOf(m) => x \notin KeysOf(With(m, k, Recent(m, k)))
    BY <1>1, <2>1, WithKey
  <2>3. \A x \in Keys : x \notin KeysOf(m) => Get(With(m, k, Recent(m, k)), x) = Get(m, x)
    BY <2>2 DEF Get
  <2>4. Len(With(m, k, Recent(m, k))) <= Len(m)
    <3>1. Len(With(m, k, Recent(m, k))) = Len(m) /\ Len(m) \in Nat
      BY <1>1, <2>1, WithKey
    <3> QED BY <3>1
  <2> QED BY <1>1, <2>1, <2>3, <2>4, WithKey
<1> QED BY <1>2, <1>3

\* The Map after a call was let through: it holds the call, and keeps its cap by letting
\* go of a key that came earlier, never of this one.
LEMMA ConsumedMap ==
  ASSUME NEW m \in Seq(Entry), KeysOnce(m), Len(m) <= MaxTrackedKeys, NEW k \in Keys,
         NEW calls \in SUBSET Call, NEW n, n = Evict(With(Prune(m, k), k, calls))
  PROVE  /\ n \in Seq(Entry) /\ KeysOnce(n) /\ Len(n) <= MaxTrackedKeys
         /\ k \in KeysOf(n) /\ Get(n, k) = calls
         /\ \A x \in Keys : x # k /\ x \in KeysOf(n) => Get(n, x) = Get(m, x)
<1>1. PICK a : a = Prune(m, k)
  OBVIOUS
<1>2. /\ a \in Seq(Entry) /\ KeysOnce(a) /\ Len(a) <= Len(m)
      /\ \A x \in Keys : x # k => Get(a, x) = Get(m, x)
  BY <1>1, PrunedMap
<1>3. PICK b : b = With(a, k, calls)
  OBVIOUS
<1>4. /\ b \in Seq(Entry) /\ KeysOnce(b) /\ KeysOf(b) = KeysOf(a) \cup {k} /\ Get(b, k) = calls
      /\ \A x \in KeysOf(a) : x # k => Get(b, x) = Get(a, x)
      /\ k \in KeysOf(a) => Len(b) = Len(a)
      /\ k \notin KeysOf(a) => Len(b) = Len(a) + 1 /\ b[Len(a) + 1].key = k
  BY <1>2, <1>3, WithKey
<1>5. n = IF Len(b) > MaxTrackedKeys THEN Tail(b) ELSE b
  BY <1>1, <1>3 DEF Evict
<1>6. Len(a) \in Nat /\ Len(b) \in Nat /\ Len(m) \in Nat /\ MaxTrackedKeys \in Nat \ {0}
  BY <1>2, <1>4, Budgets
<1>7. CASE Len(b) > MaxTrackedKeys
  <2>1. k \notin KeysOf(a) /\ Len(b) = Len(a) + 1 /\ b[Len(a) + 1].key = k
        /\ Len(a) = MaxTrackedKeys
    BY <1>2, <1>4, <1>6, <1>7
  <2>2. /\ Tail(b) \in Seq(Entry) /\ KeysOnce(Tail(b)) /\ Len(Tail(b)) = Len(b) - 1
        /\ KeysOf(Tail(b)) = KeysOf(b) \ {b[1].key}
        /\ \A x \in KeysOf(Tail(b)) : Get(Tail(b), x) = Get(b, x)
    BY <1>4, <1>6, <1>7, TailKeys
  <2>3. b[1].key # k
    <3>1. 1 \in DOMAIN b /\ Len(a) + 1 \in DOMAIN b /\ Len(a) + 1 # 1
      BY <1>4, <1>6, <2>1
    <3> QED BY <1>4, <2>1, <3>1 DEF KeysOnce
  <2>4. Len(Tail(b)) <= MaxTrackedKeys
    BY <1>6, <2>1, <2>2
  <2> QED BY <1>2, <1>4, <1>5, <1>7, <2>2, <2>3, <2>4
<1>8. CASE ~(Len(b) > MaxTrackedKeys)
  <2>1. n = b /\ Len(n) <= MaxTrackedKeys
    BY <1>5, <1>6, <1>8
  <2> QED BY <1>2, <1>4, <2>1
<1> QED BY <1>7, <1>8

(* ------------------------------ the invariant -------------------------- *)

\* The calls of k in the window that ends now.
Young(calls, k) == { call \in calls : call[1] > clock - Window[k] }

Quota(calls, k) ==
  \A t \in 0..MaxTime :
    Cardinality({ call \in calls : call[1] <= t /\ call[1] > t - Window[k] }) <= Limit[k]

\* The Map knows every call that the window still holds: it forgets a key only together
\* with the promise made about it, and prunes only what has left the window.
Remembered(calls, m, k) ==
  /\ IsFiniteSet(calls) /\ \A call \in calls : call[1] <= clock
  /\ Young(calls, k) = Recent(m, k)

LimiterInv ==
  /\ clock \in 0..MaxTime
  /\ hits \in [Processes -> Seq(Entry)]
  /\ admitted \in [Processes -> [Keys -> SUBSET Call]]
  /\ \A p \in Processes : KeysOnce(hits[p]) /\ Len(hits[p]) <= MaxTrackedKeys
  /\ \A p \in Processes, k \in Keys :
       Remembered(admitted[p][k], hits[p], k) /\ Quota(admitted[p][k], k)

\* A call is let through at an instant.
LEMMA CallsAreTimed == \A call \in Call : call[1] \in 0..MaxTime
BY DEF Call

\* What the step of one process has to keep.
LEMMA OneProcess ==
  ASSUME LimiterInv, NEW p \in Processes, NEW m \in Seq(Entry), NEW a \in [Keys -> SUBSET Call],
         hits' = [hits EXCEPT ![p] = m], admitted' = [admitted EXCEPT ![p] = a], clock' = clock,
         KeysOnce(m), Len(m) <= MaxTrackedKeys,
         \A k \in Keys : Remembered(a[k], m, k) /\ Quota(a[k], k)
  PROVE  LimiterInv'
<1>1. hits' \in [Processes -> Seq(Entry)] /\ hits'[p] = m
      /\ \A o \in Processes : o # p => hits'[o] = hits[o]
  BY DEF LimiterInv
<1>2. admitted' \in [Processes -> [Keys -> SUBSET Call]] /\ admitted'[p] = a
      /\ \A o \in Processes : o # p => admitted'[o] = admitted[o]
  BY DEF LimiterInv
<1>3. \A o \in Processes : KeysOnce(hits'[o]) /\ Len(hits'[o]) <= MaxTrackedKeys
  BY <1>1 DEF LimiterInv
<1>4. ASSUME NEW o \in Processes, NEW k \in Keys
      PROVE  Remembered(admitted'[o][k], hits'[o], k) /\ Quota(admitted'[o][k], k)
  BY <1>1, <1>2 DEF LimiterInv
<1>5. ASSUME NEW o \in Processes, NEW k \in Keys
      PROVE  Remembered(admitted[o][k], hits[o], k)' /\ Quota(admitted[o][k], k)'
  BY <1>4 DEF Remembered, Quota, Young, Recent
<1>6. clock' \in 0..MaxTime
  BY DEF LimiterInv
<1> QED BY <1>1, <1>2, <1>3, <1>5, <1>6 DEF LimiterInv

\* A key with nothing let through keeps its quota, and a Map that has nothing of it in the
\* window knows all there is.
LEMMA NothingLet ==
  ASSUME NEW m, NEW k \in Keys, Recent(m, k) = {}
  PROVE  Remembered({}, m, k) /\ Quota({}, k)
<1>1. IsFiniteSet({}) /\ Cardinality({}) = 0
  BY FS_EmptySet
<1>2. Limit[k] \in Nat
  BY Budgets
<1>3. \A t \in 0..MaxTime :
        { call \in {} : call[1] <= t /\ call[1] > t - Window[k] } = {}
  OBVIOUS
<1> QED BY <1>1, <1>2, <1>3 DEF Remembered, Quota, Young

\* Pruning once more changes nothing of what is in the window.
LEMMA RecentOfPruned ==
  ASSUME NEW m \in Seq(Entry), KeysOnce(m), NEW k \in Keys
  PROVE  \A x \in Keys : Recent(Prune(m, k), x) = Recent(m, x)
<1> TAKE x \in Keys
<1>1. CASE x = k
  <2>1. Get(Prune(m, k), k) = Recent(m, k)
    BY PrunedMap
  <2> QED BY <1>1, <2>1 DEF Recent
<1>2. CASE x # k
  <2>1. Get(Prune(m, k), x) = Get(m, x)
    BY <1>2, PrunedMap
  <2> QED BY <2>1 DEF Recent
<1> QED BY <1>1, <1>2

\* peek, and a call that is refused.
LEMMA PruneHolds ==
  ASSUME LimiterInv, NEW p \in Processes, NEW k \in Keys,
         hits' = [hits EXCEPT ![p] = Prune(@, k)], UNCHANGED <<clock, admitted>>
  PROVE  LimiterInv'
<1>1. hits[p] \in Seq(Entry) /\ KeysOnce(hits[p]) /\ Len(hits[p]) <= MaxTrackedKeys
      /\ admitted[p] \in [Keys -> SUBSET Call]
  BY DEF LimiterInv
<1>2. PICK m : m = Prune(hits[p], k)
  OBVIOUS
<1>3. m \in Seq(Entry) /\ KeysOnce(m) /\ Len(m) <= Len(hits[p])
      /\ \A x \in Keys : Recent(m, x) = Recent(hits[p], x)
  BY <1>1, <1>2, PrunedMap, RecentOfPruned
<1>4. Len(m) <= MaxTrackedKeys
  <2>1. Len(m) \in Nat /\ Len(hits[p]) \in Nat /\ MaxTrackedKeys \in Nat
    BY <1>1, <1>3, Budgets
  <2> QED BY <1>1, <1>3, <2>1
<1>5. hits' = [hits EXCEPT ![p] = m]
  BY <1>2
<1>6. admitted' = [admitted EXCEPT ![p] = admitted[p]]
  BY DEF LimiterInv
<1>7. \A x \in Keys : Remembered(admitted[p][x], m, x) /\ Quota(admitted[p][x], x)
  BY <1>3 DEF LimiterInv, Remembered
<1> QED BY <1>1, <1>3, <1>4, <1>5, <1>6, <1>7, OneProcess

\* The calls of the window that ends now are all that a window that ends later adds to.
LEMMA OneMoreCall ==
  ASSUME NEW calls \in SUBSET Call, NEW k \in Keys, NEW call, call[1] = clock, clock \in 0..MaxTime,
         IsFiniteSet(calls), Quota(calls, k), Cardinality(Young(calls, k)) < Limit[k]
  PROVE  Quota(calls \cup {call}, k)
<1> SUFFICES ASSUME NEW t \in 0..MaxTime
             PROVE  Cardinality({ c \in calls \cup {call} : c[1] <= t /\ c[1] > t - Window[k] }) <= Limit[k]
  BY DEF Quota
<1> DEFINE S == { c \in calls : c[1] <= t /\ c[1] > t - Window[k] }
           T == { c \in calls \cup {call} : c[1] <= t /\ c[1] > t - Window[k] }
<1>1. Window[k] \in Nat \ {0} /\ Limit[k] \in Nat \ {0} /\ MaxTime \in Nat
  BY Budgets
<1>2. \A c \in calls : c[1] \in Int
  BY CallsAreTimed, <1>1
<1>3. Cardinality(S) <= Limit[k]
  BY DEF Quota
<1>4. CASE t < clock
  <2>1. T = S
    BY <1>1, <1>4
  <2> QED BY <1>3, <2>1
<1>5. CASE ~(t < clock)
  <2>1. T \subseteq Young(calls, k) \cup {call}
    BY <1>1, <1>2, <1>5 DEF Young
  <2>2. IsFiniteSet(Young(calls, k))
    BY FS_Subset DEF Young
  <2>3. /\ IsFiniteSet(Young(calls, k) \cup {call})
        /\ Cardinality(Young(calls, k) \cup {call}) <= Cardinality(Young(calls, k)) + 1
        /\ Cardinality(Young(calls, k)) \in Nat
    <3>1. PICK Y : Y = Young(calls, k)
      OBVIOUS
    <3>2. IsFiniteSet(Y) /\ Cardinality(Y) \in Nat
      BY <2>2, <3>1, FS_CardinalityType
    <3>3. IsFiniteSet(Y \cup {call})
          /\ Cardinality(Y \cup {call}) = IF call \in Y THEN Cardinality(Y) ELSE Cardinality(Y) + 1
      BY <3>2, FS_AddElement
    <3>4. Cardinality(Y \cup {call}) <= Cardinality(Y) + 1
      BY <3>2, <3>3
    <3> QED BY <3>1, <3>2, <3>3, <3>4
  <2>4. IsFiniteSet(T) /\ Cardinality(T) <= Cardinality(Young(calls, k) \cup {call})
    BY <2>1, <2>3, FS_Subset
  <2>5. Cardinality(T) \in Nat /\ Cardinality(Young(calls, k) \cup {call}) \in Nat
    BY <2>3, <2>4, FS_CardinalityType
  <2> QED BY <1>1, <2>3, <2>4, <2>5
<1> QED BY <1>4, <1>5

\* The two lists count the calls of this instant alike: all of them are in the window.
LEMMA PushedAlike ==
  ASSUME LimiterInv, NEW k \in Keys, NEW calls \in SUBSET Call, IsFiniteSet(calls),
         NEW recent, recent = Young(calls, k)
  PROVE  \E call \in Call : /\ call[1] = clock
                            /\ Pushed(calls) = calls \cup {call}
                            /\ Pushed(recent) = recent \cup {call}
<1>1. clock \in 0..MaxTime /\ clock \in Int /\ Window[k] \in Nat \ {0}
  BY Budgets DEF LimiterInv
<1> DEFINE now == { c \in calls : c[1] = clock }
           call == <<clock, Cardinality(now) + 1>>
<1>2. { c \in recent : c[1] = clock } = now
  BY <1>1 DEF Young
<1>3. Cardinality(now) \in Nat
  <2>1. IsFiniteSet(now)
    BY FS_Subset
  <2> QED BY <2>1, FS_CardinalityType
<1>4. Pushed(calls) = calls \cup {call} /\ Pushed(recent) = recent \cup {call}
  BY <1>2 DEF Pushed
<1> HIDE DEF now
<1>5. call \in Call /\ call[1] = clock
  BY <1>1, <1>3 DEF Call
<1> QED BY <1>4, <1>5

\* consume: a call let through is within the quota, wherever the window is laid.
LEMMA ConsumeHolds ==
  ASSUME LimiterInv, NEW p \in Processes, NEW k \in Keys, Consume(p, k)
  PROVE  LimiterInv'
<1>1. CASE ~Allows(p, k)
  BY <1>1, PruneHolds DEF Consume
<1>2. CASE Allows(p, k)
  <2> DEFINE m == hits[p]
             A == admitted[p]
             recent == Recent(m, k)
  <2>1. /\ m \in Seq(Entry) /\ KeysOnce(m) /\ Len(m) <= MaxTrackedKeys
        /\ A \in [Keys -> SUBSET Call] /\ clock \in 0..MaxTime
        /\ \A x \in Keys : Remembered(A[x], m, x) /\ Quota(A[x], x)
    BY DEF LimiterInv
  <2>2. IsFiniteSet(A[k]) /\ A[k] \in SUBSET Call /\ recent = Young(A[k], k)
        /\ \A c \in A[k] : c[1] <= clock
    BY <2>1 DEF Remembered
  <2>3. PICK call \in Call : /\ call[1] = clock /\ Pushed(A[k]) = A[k] \cup {call}
                             /\ Pushed(recent) = recent \cup {call}
    BY <2>2, PushedAlike
  <2>4. PICK n : n = Evict(With(Prune(m, k), k, Pushed(recent)))
    OBVIOUS
  <2>5. hits' = [hits EXCEPT ![p] = n] /\ clock' = clock
    BY <1>2, <2>4 DEF Consume
  <2>6. recent \cup {call} \in SUBSET Call
    BY <2>1, <2>3, GetTyped DEF Recent
  <2>7. /\ n \in Seq(Entry) /\ KeysOnce(n) /\ Len(n) <= MaxTrackedKeys
        /\ k \in KeysOf(n) /\ Get(n, k) = recent \cup {call}
        /\ \A x \in Keys : x # k /\ x \in KeysOf(n) => Get(n, x) = Get(m, x)
    <3>1. Pushed(recent) \in SUBSET Call
      BY <2>3, <2>6
    <3>2. /\ n \in Seq(Entry) /\ KeysOnce(n) /\ Len(n) <= MaxTrackedKeys
          /\ k \in KeysOf(n) /\ Get(n, k) = Pushed(recent)
          /\ \A x \in Keys : x # k /\ x \in KeysOf(n) => Get(n, x) = Get(m, x)
      BY <2>1, <2>4, <3>1, ConsumedMap
    <3> QED BY <2>3, <3>2
  <2>8. hits'[p] = n
    BY <2>5 DEF LimiterInv
  <2>9. PICK a : a = [j \in Keys |-> IF j = k THEN A[k] \cup {call}
                                     ELSE IF j \in KeysOf(n) THEN A[j] ELSE {}]
    OBVIOUS
  <2>10. admitted' = [admitted EXCEPT ![p] = a]
    <3>1. admitted' = [admitted EXCEPT ![p] =
                 [j \in Keys |-> IF j = k THEN Pushed(admitted[p][k])
                                 ELSE IF j \in KeysOf(hits'[p]) THEN admitted[p][j] ELSE {}]]
      BY <1>2 DEF Consume
    <3>2. [j \in Keys |-> IF j = k THEN Pushed(admitted[p][k])
                          ELSE IF j \in KeysOf(hits'[p]) THEN admitted[p][j] ELSE {}] = a
      BY <2>3, <2>8, <2>9
    <3> QED BY <3>1, <3>2
  <2>11. a \in [Keys -> SUBSET Call]
    BY <2>1, <2>3, <2>9
  <2>12. ASSUME NEW x \in Keys PROVE Remembered(a[x], n, x) /\ Quota(a[x], x)
    <3>1. CASE x = k
      <4>1. a[x] = A[k] \cup {call}
        BY <2>9, <3>1
      <4>2. IsFiniteSet(a[x])
        BY <2>2, <4>1, FS_AddElement
      <4>3. \A c \in a[x] : c[1] <= clock
        BY <2>1, <2>2, <2>3, <4>1, Budgets
      <4>4. Young(a[x], x) = Recent(n, x)
        <5>1. Young(a[x], x) = { c \in recent \cup {call} : c[1] > clock - Window[k] }
          BY <2>2, <3>1, <4>1 DEF Young
        <5>2. Recent(n, x) = { c \in recent \cup {call} : c[1] > clock - Window[k] }
          BY <2>7, <3>1 DEF Recent
        <5> QED BY <5>1, <5>2
      <4>5. Cardinality(Young(A[k], k)) < Limit[k]
        BY <1>2, <2>2 DEF Allows
      <4>6. Quota(A[k] \cup {call}, k)
        BY <2>1, <2>2, <2>3, <4>5, OneMoreCall
      <4> QED BY <3>1, <4>1, <4>2, <4>3, <4>4, <4>6 DEF Remembered
    <3>2. CASE x # k /\ x \in KeysOf(n)
      <4>1. a[x] = A[x] /\ Get(n, x) = Get(m, x)
        BY <2>7, <2>9, <3>2
      <4>2. Recent(n, x) = Recent(m, x)
        BY <4>1 DEF Recent
      <4> QED BY <2>1, <4>1, <4>2 DEF Remembered
    <3>3. CASE x # k /\ x \notin KeysOf(n)
      <4>1. a[x] = {} /\ Recent(n, x) = {}
        BY <2>9, <3>3 DEF Recent, Get
      <4> QED BY <4>1, NothingLet
    <3> QED BY <3>1, <3>2, <3>3
  <2> QED BY <2>5, <2>7, <2>10, <2>11, <2>12, OneProcess
<1> QED BY <1>1, <1>2

\* reset forgets the key and what was promised about it.
LEMMA ResetHolds ==
  ASSUME LimiterInv, NEW p \in Processes, NEW k \in Keys, Reset(p, k)
  PROVE  LimiterInv'
<1>1. hits[p] \in Seq(Entry) /\ KeysOnce(hits[p]) /\ Len(hits[p]) <= MaxTrackedKeys
      /\ admitted \in [Processes -> [Keys -> SUBSET Call]]
      /\ \A x \in Keys : Remembered(admitted[p][x], hits[p], x) /\ Quota(admitted[p][x], x)
  BY DEF LimiterInv
<1>2. PICK m : m = Without(hits[p], k)
  OBVIOUS
<1>3. m \in Seq(Entry) /\ KeysOnce(m) /\ Len(m) <= Len(hits[p])
      /\ KeysOf(m) = KeysOf(hits[p]) \ {k}
      /\ \A x \in KeysOf(hits[p]) : x # k => Get(m, x) = Get(hits[p], x)
  BY <1>1, <1>2, WithoutKey
<1>4. Len(m) <= MaxTrackedKeys
  <2>1. Len(m) \in Nat /\ Len(hits[p]) \in Nat /\ MaxTrackedKeys \in Nat
    BY <1>1, <1>3, Budgets
  <2> QED BY <1>1, <1>3, <2>1
<1>5. PICK a : a = [admitted[p] EXCEPT ![k] = {}]
  OBVIOUS
<1>6. a \in [Keys -> SUBSET Call] /\ a[k] = {} /\ \A x \in Keys : x # k => a[x] = admitted[p][x]
  BY <1>1, <1>5
<1>7. hits' = [hits EXCEPT ![p] = m] /\ admitted' = [admitted EXCEPT ![p] = a] /\ clock' = clock
  BY <1>2, <1>5 DEF Reset
<1>8. ASSUME NEW x \in Keys PROVE Remembered(a[x], m, x) /\ Quota(a[x], x)
  <2>1. CASE x = k
    <3>1. Recent(m, x) = {}
      BY <1>3, <2>1 DEF Recent, Get
    <3> QED BY <1>6, <2>1, <3>1, NothingLet
  <2>2. CASE x # k
    <3>1. Get(m, x) = Get(hits[p], x)
      BY <1>3, <2>2 DEF Get
    <3>2. Recent(m, x) = Recent(hits[p], x)
      BY <3>1 DEF Recent
    <3> QED BY <1>1, <1>6, <2>2, <3>2 DEF Remembered
  <2> QED BY <2>1, <2>2
<1> QED BY <1>3, <1>4, <1>6, <1>7, <1>8, OneProcess

\* An empty Map remembers nothing, and nothing was promised.
LEMMA RestartHolds ==
  ASSUME LimiterInv, NEW p \in Processes, Restart(p)
  PROVE  LimiterInv'
<1>1. <<>> \in Seq(Entry) /\ KeysOnce(<<>>) /\ Len(<<>>) <= MaxTrackedKeys
  BY Budgets DEF KeysOnce
<1>2. [k \in Keys |-> {}] \in [Keys -> SUBSET Call]
  OBVIOUS
<1>3. \A k \in Keys : Recent(<<>>, k) = {}
  BY DEF Recent, Get, KeysOf
<1>4. \A k \in Keys : Remembered([x \in Keys |-> {}][k], <<>>, k) /\ Quota([x \in Keys |-> {}][k], k)
  BY <1>3, NothingLet
<1> QED BY <1>1, <1>2, <1>4, OneProcess DEF Restart

\* With time the window only loses calls.
LEMMA TickHolds ==
  ASSUME LimiterInv, Tick
  PROVE  LimiterInv'
<1>1. clock \in 0..MaxTime /\ clock' = clock + 1 /\ clock' \in 0..MaxTime
      /\ hits' = hits /\ admitted' = admitted
  BY Budgets DEF LimiterInv, Tick
<1>2. ASSUME NEW p \in Processes, NEW k \in Keys
      PROVE  Remembered(admitted[p][k], hits[p], k)' /\ Quota(admitted[p][k], k)'
  <2>1. Remembered(admitted[p][k], hits[p], k) /\ Quota(admitted[p][k], k)
        /\ admitted[p][k] \in SUBSET Call /\ KeysOnce(hits[p]) /\ hits[p] \in Seq(Entry)
    BY DEF LimiterInv
  <2>2. PICK calls : calls = admitted[p][k]
    OBVIOUS
  <2>3. PICK known : known = Get(hits[p], k)
    OBVIOUS
  <2>4. calls \in SUBSET Call /\ known \in SUBSET Call
        /\ { c \in calls : c[1] > clock - Window[k] } = { c \in known : c[1] > clock - Window[k] }
        /\ \A c \in calls : c[1] <= clock
    BY <2>1, <2>2, <2>3, GetTyped DEF Remembered, Young, Recent
  <2>5. Window[k] \in Nat /\ MaxTime \in Nat /\ \A c \in Call : c[1] \in Int
    BY Budgets, CallsAreTimed
  <2>6. { c \in calls : c[1] > clock' - Window[k] } = { c \in known : c[1] > clock' - Window[k] }
    BY <1>1, <2>4, <2>5
  <2>7. \A c \in calls : c[1] <= clock'
    BY <1>1, <2>4, <2>5
  <2>8. Remembered(admitted[p][k], hits[p], k)'
    BY <1>1, <2>1, <2>2, <2>3, <2>6, <2>7 DEF Remembered, Young, Recent
  <2>9. Quota(admitted[p][k], k)'
    BY <1>1, <2>1 DEF Quota
  <2> QED BY <2>8, <2>9
<1> QED BY <1>1, <1>2 DEF LimiterInv

\* Whatever the routes ask, and whenever the processes start again.
LEMMA LimiterKeeps == LimiterInv /\ [CreationNext]_creationVars => LimiterInv'
<1> SUFFICES ASSUME LimiterInv, [CreationNext]_creationVars PROVE LimiterInv'
  OBVIOUS
<1>1. CASE UNCHANGED limiterVars
  BY <1>1 DEF LimiterInv, limiterVars, Remembered, Quota, Young, Recent
<1>2. ASSUME NEW p \in Processes, NEW k \in Keys, Consume(p, k) \/ Peek(p, k) \/ Reset(p, k)
      PROVE  LimiterInv'
  BY <1>2, ConsumeHolds, PruneHolds, ResetHolds DEF Peek
<1>3. ASSUME NEW q \in Creations, NEW p \in Processes, AskLimiter(q, p) PROVE LimiterInv'
  BY <1>3, <1>2, PlanLimitsAssumption DEF AskLimiter
<1>4. CASE Traffic
  BY <1>2, <1>4 DEF Traffic
<1>5. CASE Tick \/ \E p \in Processes : Restart(p)
  BY <1>5, TickHolds, RestartHolds
<1>6. ASSUME NEW q \in Creations, Count(q) \/ Insert(q) \/ Abandon(q) \/ Transition(q)
      PROVE  UNCHANGED limiterVars
  BY <1>6 DEF Count, Insert, Abandon, Transition
<1> QED BY <1>1, <1>3, <1>4, <1>5, <1>6 DEF CreationNext, creationVars

LEMMA LimiterStarts == CreationInit => LimiterInv
<1> SUFFICES ASSUME CreationInit PROVE LimiterInv
  OBVIOUS
<1>1. /\ hits = [p \in Processes |-> <<>>] /\ clock = 0
      /\ admitted = [p \in Processes |-> [k \in Keys |-> {}]]
  BY DEF CreationInit, LimiterInit
<1>2. <<>> \in Seq(Entry) /\ KeysOnce(<<>>) /\ Len(<<>>) <= MaxTrackedKeys /\ clock \in 0..MaxTime
  BY <1>1, Budgets DEF KeysOnce
<1>3. \A k \in Keys : Recent(<<>>, k) = {}
  BY DEF Recent, Get, KeysOf
<1>4. \A k \in Keys : Remembered({}, <<>>, k) /\ Quota({}, k)
  BY <1>3, NothingLet
<1>5. hits \in [Processes -> Seq(Entry)] /\ admitted \in [Processes -> [Keys -> SUBSET Call]]
  BY <1>1, <1>2
<1> QED BY <1>1, <1>2, <1>4, <1>5 DEF LimiterInv

\* Wherever a window of time is laid over the calls a process let through, it holds no more
\* of them than the budget: no double quota at a boundary, and none by way of a Map at its
\* cap, which never evicts the key it is asked about (sliding-window-rate-limiter.ts:6, :83).
THEOREM NoDoubleQuota == CreationSpec => []QuotaHolds
<1>1. LimiterInv => QuotaHolds
  BY DEF LimiterInv, QuotaHolds, Quota
<1> QED BY LimiterStarts, LimiterKeeps, <1>1, PTL DEF CreationSpec

\* Every variable keeps its shape, and the Map its cap (sliding-window-rate-limiter.ts:83).
THEOREM PlanTyped == CreationSpec => []CreationTypeOK
<1>1. CreationIInv /\ LimiterInv => CreationTypeOK
  BY DEF CreationIInv, Typed, LimiterInv, CreationTypeOK, LimiterTypeOK
<1> QED BY InitHolds, NextKeeps, LimiterStarts, LimiterKeeps, <1>1, PTL DEF CreationSpec

=============================================================================
