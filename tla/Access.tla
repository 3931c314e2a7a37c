------------------------------- MODULE Access -------------------------------
(***************************************************************************)
(* How a signed-in request is authorised: the session is resolved into an  *)
(* actor (core/src/identity/usecases/session-lifecycle.ts), the gate of    *)
(* the surface is passed (web/src/server/request-context.ts, admin.ts),    *)
(* the row is found in the tenant's scope and `can` is asked               *)
(* (core/src/authz), and only then is the route's own statement run.       *)
(*                                                                         *)
(* One account, one of its sessions, and one invitation with its media.    *)
(* Every read of a request is a step of its own, so what the request       *)
(* decides on may have changed before it acts: the account is suspended,   *)
(* the session ends or grows old, an address is verified, a membership is  *)
(* granted or taken away, a factor is set up or removed, the invitation is *)
(* deleted.  What a route then does is modelled elsewhere (Publication,    *)
(* DraftStore, Rsvp, MediaLifecycle, PlanLimits); here a route is what it  *)
(* asks for.                                                               *)
(***************************************************************************)
EXTENDS Naturals, FiniteSets

CONSTANTS
  Requests,    \* requests, each made once, with the session's cookie
  MaxChanges   \* bound on what changes around them

ASSUME AccessAssumption == IsFiniteSet(Requests) /\ MaxChanges \in Nat

VARIABLES
  user,      \* users: the account's row
  session,   \* sessions: the session's row
  factor,    \* whether the account has a confirmed second factor
  share,     \* whether the account owns the invitation, and its membership
  deleted,   \* whether the invitation is deleted
  req,       \* the requests
  trail,     \* the requests of the console on record in audit_logs
  held,      \* for each request, what has been true of the account since it came
  changes    \* what has changed so far, counted

vars == <<user, session, factor, share, deleted, req, trail, held, changes>>

world == <<user, session, factor, share, deleted, changes>>

(* -------------------------------- the state ---------------------------- *)

UserRoles == {"customer", "planner", "support", "admin", "superadmin"}

StaffRoles == {"support", "admin", "superadmin"}

MembershipRoles == {"owner", "editor", "viewer"}

\* pending_deletion is left out: nothing in the program asks for it.
UserStatuses == {"active", "suspended"}

User == [role : UserRoles, status : UserStatuses, verified : BOOLEAN]

\* proved is twoFactorVerifiedAt, aged that the session is more than four hours old.
Session == [live : BOOLEAN, proved : BOOLEAN, aged : BOOLEAN]

\* The membership row of an account that is not the owner.
Share == [owns : BOOLEAN, member : {"editor", "viewer", "none"}]

ConsoleActions == {"admin:read_users", "admin:read_audit_log", "admin:suspend_invitation"}

Actions == ConsoleActions \cup
  {"invitation:read", "analytics:read", "invitation:update", "invitation:publish",
   "invitation:delete", "rsvp:read", "rsvp:export", "rsvp:delete", "media:upload", "media:delete"}

\* A route: the surface it belongs to, what it asks `can` (or nothing), whether it is a
\* mutating method, and whether the statement that follows looks at the invitation's row
\* again ("row"), does not ("blind"), or there is none ("none").
Route == [surface : {"own", "collection", "invitation", "media", "console"},
          asks : Actions \cup {"nothing"}, mutating : BOOLEAN, again : {"row", "blind", "none"}]

Origins == {"own", "foreign"}

Answers == {"none", "ok", "blocked", "unauthorized", "forbidden", "notFound", "error"}

(* -------------------------------- the routes --------------------------- *)

Reads(surface, asks, again) == [surface |-> surface, asks |-> asks, mutating |-> FALSE, again |-> again]

Writes(surface, asks, again) == [surface |-> surface, asks |-> asks, mutating |-> TRUE, again |-> again]

ListInvitations  == Reads("collection", "nothing", "blind")
DashboardPage    == Reads("collection", "nothing", "blind")
CreateInvitation == Writes("collection", "nothing", "blind")
SlugAvailable    == Reads("own", "nothing", "blind")
GetInvitation    == Reads("invitation", "nothing", "none")
BuilderPage      == Reads("invitation", "nothing", "none")
PreviewPage      == Reads("invitation", "nothing", "none")
DeleteInvitation == Writes("invitation", "invitation:delete", "row")
QrCode           == Reads("invitation", "invitation:read", "none")
PatchDocument    == Writes("invitation", "invitation:update", "row")
SetVisibility    == Writes("invitation", "invitation:update", "row")
Publish          == Writes("invitation", "invitation:publish", "row")
Unpublish        == Writes("invitation", "invitation:publish", "row")
ListRsvps        == Reads("invitation", "rsvp:read", "row")
RsvpStats        == Reads("invitation", "rsvp:read", "row")
ExportRsvps      == Reads("invitation", "rsvp:export", "row")
DeleteRsvp       == Writes("invitation", "rsvp:delete", "row")
StatsPanel       == Reads("invitation", "analytics:read", "blind")
UploadUrl        == Writes("invitation", "media:upload", "blind")
GetMedia         == Reads("media", "nothing", "none")
CompleteUpload   == Writes("media", "media:upload", "blind")
DeleteMedia      == Writes("media", "media:delete", "blind")
AdminUsers       == Reads("console", "admin:read_users", "blind")
AdminInvitations == Reads("console", "admin:read_users", "blind")
AdminAuditLogs   == Reads("console", "admin:read_audit_log", "blind")
AdminVerifyEmail == Writes("console", "nothing", "blind")
AdminModerate    == Writes("console", "admin:suspend_invitation", "row")

Routes == {ListInvitations, DashboardPage, CreateInvitation, SlugAvailable, GetInvitation, BuilderPage,
           PreviewPage, DeleteInvitation, QrCode, PatchDocument, SetVisibility, Publish, Unpublish,
           ListRsvps, RsvpStats, ExportRsvps, DeleteRsvp, StatsPanel, UploadUrl, GetMedia,
           CompleteUpload, DeleteMedia, AdminUsers, AdminInvitations, AdminAuditLogs,
           AdminVerifyEmail, AdminModerate}

(* -------------------------------- authz -------------------------------- *)

IsStaff(actor) == actor.role \in StaffRoles

PlatformRoleRequirements ==
  [a \in ConsoleActions |-> IF a = "admin:read_audit_log" THEN {"admin", "superadmin"} ELSE StaffRoles]

\* The membership role the actor has in an invitation: the owner's, or the row's.
EffectiveRole(actor, owns) == IF owns THEN "owner" ELSE actor.member

Rank == [r \in MembershipRoles \cup {"none"} |->
           CASE r = "owner" -> 3 [] r = "editor" -> 2 [] r = "viewer" -> 1 [] OTHER -> 0]

HasAtLeast(actor, owns, required) == Rank[EffectiveRole(actor, owns)] >= Rank[required]

\* can(actor, action, resource): the one decision.
Can(actor, action, owns) ==
  /\ actor.status # "suspended"
  /\ \/ action \in ConsoleActions /\ actor.role \in PlatformRoleRequirements[action]
     \/ action \in {"invitation:read", "analytics:read"}
        /\ (IsStaff(actor) \/ HasAtLeast(actor, owns, "viewer"))
     \/ action = "rsvp:read" /\ HasAtLeast(actor, owns, "viewer")
     \/ action \in {"invitation:update", "media:upload", "media:delete", "rsvp:export", "rsvp:delete"}
        /\ HasAtLeast(actor, owns, "editor")
     \/ action = "invitation:publish" /\ HasAtLeast(actor, owns, "editor") /\ actor.verified
     \/ action = "invitation:delete" /\ HasAtLeast(actor, owns, "owner")

\* tenantScopeFor: staff reach every row, others their own and those they are members of.
InTenantScope(actor, owns) == IsStaff(actor) \/ owns \/ actor.member # "none"

\* customerScopeFor: no scope for staff.
HasCustomerScope(actor) == ~IsStaff(actor)

\* twoFactorGateFor: mandatory for staff, and enforced once a factor is confirmed.
GateSatisfied(actor, confirmed) == IF confirmed THEN actor.proved ELSE ~IsStaff(actor)

(* -------------------------------- requests ----------------------------- *)

\* The actor as the request has read it, with whether its session was verified.
Actor == [role : UserRoles, status : UserStatuses, verified : BOOLEAN, proved : BOOLEAN,
          member : {"editor", "viewer", "none"}]

NoActor == [role |-> "customer", status |-> "active", verified |-> FALSE, proved |-> FALSE, member |-> "none"]

Request == [pc : {"new", "user", "expel", "members", "gate", "find", "act", "record", "done"},
            route : Routes, origin : Origins, actor : Actor, given : BOOLEAN, answer : Answers]

NewRequest == [pc |-> "new", route |-> SlugAvailable, origin |-> "own", actor |-> NoActor,
               given |-> FALSE, answer |-> "none"]

At(r, pc) == req[r].pc = pc

GoesTo(r, pc) == req' = [req EXCEPT ![r].pc = pc]

Answered(r, answer) == req' = [req EXCEPT ![r].pc = "done", ![r].answer = answer]

\* The route's own statement ran: a row was read or changed.
Given(r, answer) ==
  req' = [req EXCEPT ![r].pc = "done", ![r].answer = answer, ![r].given = TRUE]

\* An unauthenticated caller, or the one answer the console has for everybody else.
TurnedAway(route) == IF route.surface = "console" THEN "notFound" ELSE "unauthorized"

\* requireSameOrigin, then the cookie's session is read and evaluated.
Arrive(r) ==
  /\ At(r, "new")
  /\ \E route \in Routes, origin \in Origins :
       LET asked == [req[r] EXCEPT !.route = route, !.origin = origin] IN
       req' = [req EXCEPT ![r] =
         CASE route.mutating /\ origin = "foreign" -> [asked EXCEPT !.pc = "done", !.answer = "blocked"]
           [] ~(route.mutating /\ origin = "foreign") /\ ~session.live ->
                [asked EXCEPT !.pc = "done", !.answer = TurnedAway(route)]
           [] OTHER -> [asked EXCEPT !.pc = "user", !.actor.proved = session.proved]]
  /\ UNCHANGED <<world, trail>>

\* The user's row; a suspended account is signed out.
ReadUser(r) ==
  /\ At(r, "user")
  /\ IF user.status = "suspended"
       THEN GoesTo(r, "expel")
       ELSE req' = [req EXCEPT ![r].pc = "members", ![r].actor.role = user.role,
                               ![r].actor.status = user.status, ![r].actor.verified = user.verified]
  /\ UNCHANGED <<world, trail>>

Expel(r) ==
  /\ At(r, "expel")
  /\ session' = [session EXCEPT !.live = FALSE]
  /\ Answered(r, TurnedAway(req[r].route))
  /\ UNCHANGED <<user, factor, share, deleted, changes, trail>>

ReadMemberships(r) ==
  /\ At(r, "members")
  /\ req' = [req EXCEPT ![r].pc = "gate", ![r].actor.member = share.member]
  /\ UNCHANGED <<world, trail>>

\* requireAdmin: staff, with a session of at most four hours.
PassesAdminGate(actor) == IsStaff(actor) /\ ~session.aged

\* Seeded fault: a collection is read in the tenant's scope.
PassesSurface_TenantScope(route, actor) ==
  CASE route.surface = "console" -> PassesAdminGate(actor) /\ (route.asks = "nothing" \/ Can(actor, route.asks, FALSE))
    [] OTHER -> TRUE

\* What the surface asks before any row is read.
PassesSurface(route, actor) ==
  CASE route.surface = "console" -> PassesAdminGate(actor) /\ (route.asks = "nothing" \/ Can(actor, route.asks, FALSE))
    [] route.surface = "collection" -> HasCustomerScope(actor)
    [] OTHER -> TRUE

\* The credential is read, and with it the gates are decided, up to the next read.
Gate(r) ==
  /\ At(r, "gate")
  /\ LET route == req[r].route  actor == req[r].actor IN
     CASE ~GateSatisfied(actor, factor) -> Answered(r, TurnedAway(route))
       [] GateSatisfied(actor, factor) /\ ~PassesSurface(route, actor) ->
            Answered(r, IF route.surface = "console" THEN "notFound" ELSE "forbidden")
       [] OTHER -> GoesTo(r, IF route.surface \in {"invitation", "media"} THEN "find" ELSE "act")
  /\ UNCHANGED <<world, trail>>

\* Seeded fault: the row is found by its id alone.
Found_ById(r) == req[r].route.surface = "invitation" => ~deleted

\* findByIdInScope; a media row outlives its invitation.
Found(r) ==
  /\ InTenantScope(req[r].actor, share.owns)
  /\ req[r].route.surface = "invitation" => ~deleted

\* The row is found in scope, then `can` is asked about it.
Find(r) ==
  /\ At(r, "find")
  /\ LET route == req[r].route IN
     CASE ~Found(r) -> Answered(r, "notFound")
       [] Found(r) /\ route.asks # "nothing" /\ ~Can(req[r].actor, route.asks, share.owns) ->
            Answered(r, IF route = QrCode THEN "notFound" ELSE "forbidden")
       [] OTHER -> IF route.again = "none" THEN Given(r, "ok") ELSE GoesTo(r, "act")
  /\ UNCHANGED <<world, trail>>

\* The route's statement, in the scope of the actor that was resolved; a list of replies
\* whose invitation is gone is an empty list.
Act(r) ==
  /\ At(r, "act")
  /\ LET route == req[r].route IN
     CASE route.again = "row" /\ deleted ->
            Answered(r, IF route \in {ListRsvps, ExportRsvps} THEN "ok" ELSE "notFound")
       [] ~(route.again = "row" /\ deleted) /\ route.surface = "console" ->
            req' = [req EXCEPT ![r].pc = "record", ![r].given = TRUE]
       [] OTHER -> Given(r, "ok")
  /\ UNCHANGED <<world, trail>>

\* The console's row in audit_logs, before the page is answered; the insert may fail.
RecordAccess(r) ==
  /\ At(r, "record")
  /\ \/ Answered(r, "ok") /\ trail' = trail \cup {r}
     \/ Answered(r, "error") /\ UNCHANGED trail
  /\ UNCHANGED world

Step(r) == Arrive(r) \/ ReadUser(r) \/ Expel(r) \/ ReadMemberships(r) \/ Gate(r) \/ Find(r) \/ Act(r) \/ RecordAccess(r)

(* ------------------------- what changes meanwhile ---------------------- *)

Changes == changes < MaxChanges /\ changes' = changes + 1 /\ UNCHANGED <<req, trail>>

\* suspendAccount, its first write: the sessions are revoked by its second (SessionEnds).
AccountSuspended ==
  /\ Changes /\ user.status = "active"
  /\ user' = [user EXCEPT !.status = "suspended"]
  /\ UNCHANGED <<session, factor, share, deleted>>

\* markEmailVerified.
AddressVerified ==
  /\ Changes /\ ~user.verified
  /\ user' = [user EXCEPT !.verified = TRUE]
  /\ UNCHANGED <<session, factor, share, deleted>>

\* Signed out, revoked or expired.
SessionEnds ==
  /\ Changes /\ session.live
  /\ session' = [session EXCEPT !.live = FALSE]
  /\ UNCHANGED <<user, factor, share, deleted>>

SessionAges ==
  /\ Changes /\ ~session.aged
  /\ session' = [session EXCEPT !.aged = TRUE]
  /\ UNCHANGED <<user, factor, share, deleted>>

\* A factor is confirmed in this session, or in another, which ends this one.
FactorConfirmed ==
  /\ Changes /\ ~factor
  /\ factor' = TRUE
  /\ \/ session' = [session EXCEPT !.proved = TRUE]
     \/ session' = [session EXCEPT !.live = FALSE]
  /\ UNCHANGED <<user, share, deleted>>

\* The challenge is answered in this session.
ChallengeAnswered ==
  /\ Changes /\ factor /\ ~session.proved
  /\ session' = [session EXCEPT !.proved = TRUE]
  /\ UNCHANGED <<user, factor, share, deleted>>

\* Staff may not disable theirs.
FactorRemoved ==
  /\ Changes /\ factor /\ ~IsStaff(user)
  /\ factor' = FALSE
  /\ UNCHANGED <<user, session, share, deleted>>

MembershipGranted ==
  /\ Changes /\ ~share.owns
  /\ \E role \in {"editor", "viewer"} \ {share.member} : share' = [share EXCEPT !.member = role]
  /\ UNCHANGED <<user, session, factor, deleted>>

MembershipRevoked ==
  /\ Changes /\ share.member # "none"
  /\ share' = [share EXCEPT !.member = "none"]
  /\ UNCHANGED <<user, session, factor, deleted>>

InvitationDeleted ==
  /\ Changes /\ ~deleted
  /\ deleted' = TRUE
  /\ UNCHANGED <<user, session, factor, share>>

Change ==
  \/ AccountSuspended \/ AddressVerified \/ SessionEnds \/ SessionAges \/ FactorConfirmed
  \/ ChallengeAnswered \/ FactorRemoved \/ MembershipGranted \/ MembershipRevoked \/ InvitationDeleted

(* ------------------------------ the system ----------------------------- *)

\* What is true of the account now.
Facts ==
  {f \in {"session", "usable", "verified", "fresh", "settled", "present"} \cup MembershipRoles :
     CASE f = "session"  -> session.live
       [] f = "usable"   -> user.status = "active"
       [] f = "verified" -> user.verified
       [] f = "fresh"    -> ~session.aged
       [] f = "settled"  -> IF factor THEN session.proved ELSE ~IsStaff(user)
       [] f = "present"  -> ~deleted
       [] OTHER          -> f = (IF share.owns THEN "owner" ELSE share.member)}

\* Each request under way remembers what has been true since it came.
Witness ==
  held' = [r \in Requests |-> IF req[r].pc = "done" \/ req'[r].pc = "new" THEN held[r]
                              ELSE IF req[r].pc = "new" THEN Facts
                              ELSE held[r] \cup Facts']

Init ==
  /\ user \in {u \in User : u.status = "active"}
  /\ session \in {s \in Session : s.live}
  /\ factor \in BOOLEAN
  /\ session.proved => factor
  /\ share \in {s \in Share : s.owns => s.member = "none"}
  /\ deleted = FALSE
  /\ req = [r \in Requests |-> NewRequest]
  /\ trail = {}
  /\ held = [r \in Requests |-> {}]
  /\ changes = 0

Next == ((\E r \in Requests : Step(r)) \/ Change) /\ Witness

Spec == Init /\ [][Next]_vars

(* ------------------------------ properties ----------------------------- *)

TypeOK ==
  /\ user \in User
  /\ session \in Session
  /\ factor \in BOOLEAN
  /\ share \in Share
  /\ deleted \in BOOLEAN
  /\ req \in [Requests -> Request]
  /\ trail \subseteq Requests
  /\ held \in [Requests -> SUBSET ({"session", "usable", "verified", "fresh", "settled", "present"} \cup MembershipRoles)]
  /\ changes \in 0..MaxChanges

\* The matrix of docs/09 (3.2): whom an action on an invitation is for.
Viewers == MembershipRoles
Editors == {"owner", "editor"}

Entitled(action, facts) ==
  CASE action \in {"nothing", "invitation:read", "analytics:read"} -> IsStaff(user) \/ facts \cap Viewers # {}
    [] action = "rsvp:read"          -> facts \cap Viewers # {}
    [] action = "invitation:publish" -> facts \cap Editors # {} /\ "verified" \in facts
    [] action = "invitation:delete"  -> "owner" \in facts
    [] OTHER                         -> facts \cap Editors # {}

\* Nothing is read or changed for a request unless, while it was under way, its session
\* stood, its account was in use and had answered what its second factor asks, and the
\* matrix of docs/09 allows the account that much: staff never list tenants' rows through
\* the customers' routes nor read a guest list, a fact that changed before the request
\* came grants it nothing, and the console serves only staff freshly signed in, with its
\* page on the record before it is answered (can.ts, tenant-scope.ts, request-context.ts).
GivenByRight ==
  \A r \in Requests : req[r].given =>
    LET route == req[r].route IN
    /\ {"session", "usable", "settled"} \subseteq held[r]
    /\ ~(route.mutating /\ req[r].origin = "foreign")
    /\ route.surface \in {"invitation", "media"} => Entitled(route.asks, held[r])
    /\ route.surface = "collection" => ~IsStaff(user)
    /\ route.surface = "console" =>
         /\ IsStaff(user) /\ "fresh" \in held[r]
         /\ route = AdminAuditLogs => user.role \in {"admin", "superadmin"}
         /\ req[r].answer = "ok" => r \in trail

\* A refusal that admits the row exists is only given to those who may see it: for
\* anybody else another tenant's row and no row are the same 404 (docs/09, 3.4).
RefusalTellsNothing ==
  \A r \in Requests :
    req[r].answer = "forbidden" /\ req[r].route.surface \in {"invitation", "media"} =>
      /\ IsStaff(user) \/ held[r] \cap Viewers # {}
      /\ req[r].route.surface = "invitation" => "present" \in held[r]

=============================================================================
