---------------------------- MODULE Publication ----------------------------
(***************************************************************************)
(* Publishing, pausing, rolling back, moderating, expiring and deleting    *)
(* invitations (packages/core/src/invitation/usecases, moderation/usecases *)
(* and packages/db/src/repositories/invitation.repository.ts).             *)
(*                                                                         *)
(* Every operation reads the row, decides, and writes later.  A request q  *)
(* is in flight between its steps: req[q] holds what it has read, and any  *)
(* other request may write in between.  One step is one SQL statement, or  *)
(* one transaction at its commit.  A request the code refuses at its first *)
(* read changes nothing and is not modelled.                               *)
(***************************************************************************)
EXTENDS InvitationLifecycle, Sequences, FiniteSets

CONSTANTS
  Invitations,   \* rows of the invitations table, already created
  Slugs,         \* usable public addresses
  Requests,      \* HTTP requests; each is used at most once (bounds a run)
  Kinds,         \* the kinds of request a run issues
  None,          \* SQL NULL
  MaxTime,       \* the clock runs from 0 to MaxTime
  Sweepers,      \* who runs the scheduled expiry: the worker, the cron route
  SweepLimit     \* rows one sweep may take

AllKinds == {"publish", "unpublish", "rollback", "suspend", "unsuspend", "delete"}

ASSUME PublicationAssumption ==
  /\ Kinds \subseteq AllKinds
  /\ None \notin Invitations \cup Slugs \cup Statuses \cup Nat \cup {Never}
  /\ MaxTime \in Nat
  /\ SweepLimit \in Nat \ {0}

VARIABLES
  row,        \* the invitations table
  versions,   \* versions[i][n]: the request that wrote version n of i
  retired,    \* slug_history: the invitation an old slug belonged to, or None
  audit,      \* audit_logs
  req,        \* the requests in flight
  sweep,      \* what each of them has in hand
  clock

vars == <<row, versions, retired, audit, req, sweep, clock>>

Expiries == 0..MaxTime \cup {Never}

Row == [status  : Statuses,
        slug    : Slugs \cup {None},
        pub     : Nat,              \* publishedVersionId, 0 when NULL
        expires : Expiries,
        deleted : BOOLEAN]          \* deletedAt IS NOT NULL

Steps == {"idle", "recheck", "open", "commit", "transition", "purge",
          "repoint", "record", "done"}

Results == {"none", "ok", "SLUG_TAKEN", "REFUSED", "CRASHED"}

Request == [kind    : AllKinds \cup {None},
            inv     : Invitations \cup {None},
            pc      : Steps,
            slug    : Slugs \cup {None},   \* the address asked for, or read
            old     : Slugs \cup {None},   \* the address the repository read
            expires : Expiries,            \* the expiry to write
            n       : Nat,                 \* a version number
            next    : Statuses \cup {None},
            result  : Results]

Entry == [inv : Invitations, kind : AllKinds \cup {"expire"},
          slug : Slugs \cup {None}, n : Nat]

Sweep == [pc : {"idle", "write", "confirm", "record"}, now : 0..MaxTime,
          ids : SUBSET Invitations]

\* A request of this kind about i, at step pc, that has nothing to do with an expiry.
Asking(kind, i, pc, s, n, to, result) ==
  [kind |-> kind, inv |-> i, pc |-> pc, slug |-> s, old |-> None, expires |-> Never,
   n |-> n, next |-> to, result |-> result]

Fresh == Asking(None, None, "idle", None, 0, None, "none")

NoSweep == [pc |-> "idle", now |-> 0, ids |-> {}]

Init ==
  /\ row = [i \in Invitations |-> [status |-> "DRAFT", slug |-> None, pub |-> 0,
                                   expires |-> Never, deleted |-> FALSE]]
  /\ versions = [i \in Invitations |-> <<>>]
  /\ retired = [s \in Slugs |-> None]
  /\ audit = {}
  /\ req = [q \in Requests |-> Fresh]
  /\ sweep = [w \in Sweepers |-> NoSweep]
  /\ clock = 0

(* -------------------------- what a visitor is served ------------------- *)

\* findPublishedBySlug: at most one row, by the partial unique index.
FindPublishedBySlug(s) ==
  { i \in Invitations : row[i].slug = s /\ ~row[i].deleted /\ row[i].pub # 0 }

\* Seeded fault: the redirect does not look at deletedAt.
FindSlugRedirect_Deleted(s) == IF retired[s] = None THEN None ELSE row[retired[s]].slug

\* findSlugRedirect: where the 301 for an old address points, or None.
FindSlugRedirect(s) ==
  IF retired[s] = None \/ row[retired[s]].deleted THEN None ELSE row[retired[s]].slug

(* ------------------------------- requests ------------------------------ *)

Begin(q, kind, i) == req[q].pc = "idle" /\ kind \in Kinds /\ i \in Invitations

Finish(q, result) ==
  req' = [req EXCEPT ![q] = Asking(req[q].kind, req[q].inv, "done", None, req[q].n,
                                   None, result)]

\* publishInvitation up to repository.publish: one read of the row.  s is what the
\* owner typed, the slug the row has, or a suggestion from the couple's names.
PublishRead(q, i, s, e) ==
  /\ Begin(q, "publish", i)
  /\ ~row[i].deleted
  /\ CanTransition(row[i].status,
                   IF row[i].status = "PUBLISHED" THEN "republish" ELSE "publish")
  /\ req' = [req EXCEPT ![q] = [Asking("publish", i, "recheck", s, 0, None, "none") EXCEPT
               !.expires = IF e = None THEN row[i].expires ELSE e]]
  /\ UNCHANGED <<row, versions, retired, audit, sweep, clock>>

\* Seeded fault: the repository trusts the status its caller checked.
PublishRecheck_Trusting(q) ==
  /\ req[q].pc = "recheck"
  /\ req' = [req EXCEPT ![q].pc = "open", ![q].old = row[req[q].inv].slug]
  /\ UNCHANGED <<row, versions, retired, audit, sweep, clock>>

\* repository.publish reads the row again, still outside the transaction.
PublishRecheck(q) ==
  LET r == row[req[q].inv] IN
  /\ req[q].pc = "recheck"
  /\ IF r.deleted \/ r.status \in {"SUSPENDED", "DELETED"}
     THEN Finish(q, "REFUSED")
     ELSE req' = [req EXCEPT ![q].pc = "open", ![q].old = r.slug]
  /\ UNCHANGED <<row, versions, retired, audit, sweep, clock>>

\* The transaction's SELECT of the latest version number.
PublishOpen(q) ==
  /\ req[q].pc = "open"
  /\ req' = [req EXCEPT ![q].pc = "commit", ![q].n = Len(versions[req[q].inv]) + 1]
  /\ UNCHANGED <<row, versions, retired, audit, sweep, clock>>

Renames(q) == req[q].old # None /\ req[q].old # req[q].slug

\* invitations_slug_live_key: another live row holds the address.
SlugHeldElsewhere(s, i) ==
  \E j \in Invitations \ {i} : row[j].slug = s /\ ~row[j].deleted /\ ~row[i].deleted

\* Seeded fault: no version index.
UniqueViolation_NoVersionIndex(q) ==
  \/ SlugHeldElsewhere(req[q].slug, req[q].inv)
  \/ Renames(q) /\ retired[req[q].old] # None

\* The three unique indexes the transaction's statements meet.
UniqueViolation(q) ==
  \/ req[q].n <= Len(versions[req[q].inv])
  \/ SlugHeldElsewhere(req[q].slug, req[q].inv)
  \/ Renames(q) /\ retired[req[q].old] # None

\* The transaction commits: version, slug_history row, pointer.  The UPDATE of the
\* invitation names only its id.
PublishCommit(q) ==
  LET i == req[q].inv IN
  /\ req[q].pc = "commit"
  /\ ~UniqueViolation(q)
  /\ versions' = [versions EXCEPT ![i] = Append(@, q)]
  /\ retired' = IF Renames(q) THEN [retired EXCEPT ![req[q].old] = i] ELSE retired
  /\ row' = [row EXCEPT ![i] = [@ EXCEPT !.slug = req[q].slug, !.status = "PUBLISHED",
                                         !.pub = req[q].n, !.expires = req[q].expires]]
  /\ req' = [req EXCEPT ![q].pc = "record"]
  /\ UNCHANGED <<audit, sweep, clock>>

\* P2002 from any of the indexes rolls back and is reported as SLUG_TAKEN.
PublishAbort(q) ==
  /\ req[q].pc = "commit"
  /\ UniqueViolation(q)
  /\ Finish(q, "SLUG_TAKEN")
  /\ UNCHANGED <<row, versions, retired, audit, sweep, clock>>

\* unpublishInvitation: read and decide.
UnpublishRead(q, i) ==
  /\ Begin(q, "unpublish", i)
  /\ ~row[i].deleted
  /\ \E to \in Statuses :
       /\ <<row[i].status, "unpublish", to>> \in Lifecycle
       /\ req' = [req EXCEPT ![q] = Asking("unpublish", i, "transition", row[i].slug, 0,
                                           to, "none")]
  /\ UNCHANGED <<row, versions, retired, audit, sweep, clock>>

\* moderateInvitation: the staff read, which does not look at deletedAt.
ModerateRead(q, i, action) ==
  /\ action \in {"suspend", "unsuspend"}
  /\ Begin(q, action, i)
  /\ \E to \in Statuses :
       /\ <<row[i].status, action, to>> \in Lifecycle
       /\ req' = [req EXCEPT ![q] = Asking(action, i, "transition", row[i].slug, 0, to, "none")]
  /\ UNCHANGED <<row, versions, retired, audit, sweep, clock>>

\* transitionStatus: writes the status decided on, whatever the row says now.
TransitionStatus(q) ==
  LET i == req[q].inv IN
  /\ req[q].pc = "transition"
  /\ IF row[i].deleted
     THEN Finish(q, "REFUSED") /\ UNCHANGED row
     ELSE /\ row' = [row EXCEPT ![i].status = req[q].next]
          /\ req' = [req EXCEPT ![q].pc = IF req[q].kind = "unpublish"
                                          THEN "record" ELSE "purge"]
  /\ UNCHANGED <<versions, retired, audit, sweep, clock>>

\* cdn.purgePaths: its outcome is reported and changes no row.
PurgeEdge(q) ==
  /\ req[q].pc = "purge"
  /\ req' = [req EXCEPT ![q].pc = "record"]
  /\ UNCHANGED <<row, versions, retired, audit, sweep, clock>>

\* rollbackToVersion: the pointer must be set and the version must exist.
RollbackRead(q, i, n) ==
  /\ Begin(q, "rollback", i)
  /\ ~row[i].deleted
  /\ row[i].pub # 0
  /\ n \in 1..Len(versions[i])
  /\ req' = [req EXCEPT ![q] = Asking("rollback", i, "repoint", row[i].slug, n, None, "none")]
  /\ UNCHANGED <<row, versions, retired, audit, sweep, clock>>

RollbackWrite(q) ==
  /\ req[q].pc = "repoint"
  /\ row' = [row EXCEPT ![req[q].inv].pub = req[q].n]
  /\ req' = [req EXCEPT ![q].pc = "record"]
  /\ UNCHANGED <<versions, retired, audit, sweep, clock>>

\* deleteInvitation: one guarded UPDATE; its media step is not part of this module.
SoftDelete(q, i) ==
  /\ Begin(q, "delete", i)
  /\ ~row[i].deleted
  /\ row' = [row EXCEPT ![i] = [@ EXCEPT !.status = "DELETED", !.deleted = TRUE,
                                         !.slug = None]]
  /\ req' = [req EXCEPT ![q] = Asking("delete", i, "done", None, 0, None, "ok")]
  /\ UNCHANGED <<versions, retired, audit, sweep, clock>>

\* recordPublication / recordModeration, after the write and outside it.
RecordAudit(q) ==
  /\ req[q].pc = "record"
  /\ audit' = audit \cup {[inv |-> req[q].inv, kind |-> req[q].kind,
                           slug |-> req[q].slug, n |-> req[q].n]}
  /\ Finish(q, "ok")
  /\ UNCHANGED <<row, versions, retired, sweep, clock>>

\* The process serving q dies between two of its steps.
Crash(q) ==
  /\ req[q].pc \notin {"idle", "done"}
  /\ Finish(q, "CRASHED")
  /\ UNCHANGED <<row, versions, retired, audit, sweep, clock>>

(* ---------------------------- the expiry sweep ------------------------- *)

Due(t) == { i \in Invitations : /\ row[i].status = "PUBLISHED"
                                /\ ~row[i].deleted
                                /\ Passed(row[i].expires, t) }

\* The SELECT: the SweepLimit rows that expired first.
SweepRead(w, ids) ==
  /\ sweep[w].pc = "idle"
  /\ ids # {} /\ ids \subseteq Due(clock)
  /\ Cardinality(ids) <= SweepLimit
  /\ ids # Due(clock) => Cardinality(ids) = SweepLimit
  /\ \A i \in ids, j \in Due(clock) \ ids : row[i].expires <= row[j].expires
  /\ sweep' = [sweep EXCEPT ![w] = [pc |-> "write", now |-> clock, ids |-> ids]]
  /\ UNCHANGED <<row, versions, retired, audit, req, clock>>

\* Seeded faults: the UPDATE trusts the ids alone, or excludes the instant itself.
StillDue_IdsOnly(w) == sweep[w].ids

StillDue_Strict(w) == { i \in sweep[w].ids : /\ row[i].status = "PUBLISHED"
                                             /\ row[i].expires # Never
                                             /\ row[i].expires < sweep[w].now }

\* The rows the UPDATE matches when it restates the predicate.
StillDue(w) == { i \in sweep[w].ids : /\ row[i].status = "PUBLISHED"
                                      /\ Passed(row[i].expires, sweep[w].now) }

SweepWrite(w) ==
  /\ sweep[w].pc = "write"
  /\ row' = [i \in Invitations |->
               IF i \in StillDue(w) THEN [row[i] EXCEPT !.status = "EXPIRED"] ELSE row[i]]
  /\ sweep' = [sweep EXCEPT ![w].pc = IF StillDue(w) = sweep[w].ids THEN "record" ELSE "confirm"]
  /\ UNCHANGED <<versions, retired, audit, req, clock>>

\* confirmExpired: which candidates say EXPIRED, when some raced; another sweep may have
\* expired them, which then records them as well.
SweepConfirm(w) ==
  LET expired == { i \in sweep[w].ids : row[i].status = "EXPIRED" } IN
  /\ sweep[w].pc = "confirm"
  /\ sweep' = [sweep EXCEPT ![w] = IF expired = {} THEN NoSweep
                                     ELSE [@ EXCEPT !.pc = "record", !.ids = expired]]
  /\ UNCHANGED <<row, versions, retired, audit, req, clock>>

SweepRecord(w, i) ==
  LET rest == sweep[w].ids \ {i} IN
  /\ sweep[w].pc = "record" /\ i \in sweep[w].ids
  /\ audit' = audit \cup {[inv |-> i, kind |-> "expire", slug |-> None, n |-> 0]}
  /\ sweep' = [sweep EXCEPT ![w] = IF rest = {} THEN NoSweep ELSE [@ EXCEPT !.ids = rest]]
  /\ UNCHANGED <<row, versions, retired, req, clock>>

SweepCrash(w) ==
  /\ sweep[w].pc # "idle"
  /\ sweep' = [sweep EXCEPT ![w] = NoSweep]
  /\ UNCHANGED <<row, versions, retired, audit, req, clock>>

Tick ==
  /\ clock < MaxTime
  /\ clock' = clock + 1
  /\ UNCHANGED <<row, versions, retired, audit, req, sweep>>

(* ------------------------------ the system ----------------------------- *)

Publish(q) == PublishRecheck(q) \/ PublishOpen(q) \/ PublishCommit(q) \/ PublishAbort(q)

Continue(q) == \/ Publish(q) \/ TransitionStatus(q) \/ PurgeEdge(q)
               \/ RollbackWrite(q) \/ RecordAudit(q)

Arrive(q) ==
  \E i \in Invitations :
    \/ \E s \in Slugs, e \in Expiries \cup {None} : PublishRead(q, i, s, e)
    \/ UnpublishRead(q, i)
    \/ \E action \in {"suspend", "unsuspend"} : ModerateRead(q, i, action)
    \/ \E n \in 1..Len(versions[i]) : RollbackRead(q, i, n)
    \/ SoftDelete(q, i)

SweepStep(w) == \/ \E ids \in SUBSET Invitations : SweepRead(w, ids)
                \/ SweepWrite(w)
                \/ SweepConfirm(w)
                \/ \E i \in Invitations : SweepRecord(w, i)

Next == \/ \E q \in Requests : Arrive(q) \/ Continue(q) \/ Crash(q)
        \/ \E w \in Sweepers : SweepStep(w) \/ SweepCrash(w)
        \/ Tick

Spec == Init /\ [][Next]_vars

\* The jobs run on a schedule for ever, so an enabled step of one is taken; and a sweep
\* that keeps coming to its UPDATE is not killed there every single time.
FairSpec == Spec /\ \A w \in Sweepers : WF_vars(SweepStep(w)) /\ SF_vars(SweepWrite(w))

(* ------------------------------ properties ----------------------------- *)

TypeOK ==
  /\ row \in [Invitations -> Row]
  /\ versions \in [Invitations -> Seq(Requests)]
  /\ retired \in [Slugs -> Invitations \cup {None}]
  /\ audit \subseteq Entry
  /\ req \in [Requests -> Request]
  /\ sweep \in [Sweepers -> Sweep]
  /\ clock \in 0..MaxTime

\* What guests are pointed at exists: the published pointer names a version that was
\* written, and a PUBLISHED row has both a version and, unless deleted, an address.
PointerResolves ==
  \A i \in Invitations :
    /\ row[i].pub \in 0..Len(versions[i])
    /\ row[i].status = "PUBLISHED" => row[i].pub # 0 /\ row[i].slug # None

\* Simultaneous publishes never leave one address on two live invitations.
LiveSlugsUnique ==
  \A i, j \in Invitations :
    /\ row[i].slug # None /\ row[i].slug = row[j].slug
    /\ ~row[i].deleted /\ ~row[j].deleted
    => i = j

\* A 301 from an old address takes the guest, in one hop, to the published page of the
\* invitation that gave the address up, and to no other.
RedirectReachesItsInvitation ==
  \A s \in Slugs :
    FindSlugRedirect(s) # None => FindPublishedBySlug(FindSlugRedirect(s)) = {retired[s]}

\* Two publishes of one invitation never report the same version: the number a request
\* answers with is the version it wrote itself.
EachPublishOwnsItsVersion ==
  \A q \in Requests :
    req[q].kind = "publish" /\ (req[q].pc = "record" \/ req[q].result = "ok")
    => /\ req[q].n \in DOMAIN versions[req[q].inv]
       /\ versions[req[q].inv][req[q].n] = q

\* No operation edits or removes a published version (ADR-0005).
VersionsAppendOnly ==
  [][\A i \in Invitations :
       /\ Len(versions[i]) <= Len(versions'[i])
       /\ \A n \in 1..Len(versions[i]) : versions'[i][n] = versions[i][n]]_vars

\* The sweep never expires an invitation that was republished, paused or given a later
\* expiry between its SELECT and its UPDATE.
SweepHonoursRepublish ==
  [][\A i \in Invitations :
       row[i].status # "EXPIRED" /\ row'[i].status = "EXPIRED"
       => row[i].status = "PUBLISHED" /\ Passed(row[i].expires, clock)]_vars

\* Requests that have looked at i for the last time, let through, not yet written.
LetThrough(i) ==
  { q \in Requests : /\ req[q].inv = i /\ req[q].kind # "unsuspend"
                     /\ req[q].pc \in {"open", "commit", "transition"} }

StaffLifts(i) ==
  \E q \in Requests : /\ req[q].inv = i /\ req[q].kind = "unsuspend"
                      /\ req[q].pc = "transition" /\ req'[q].pc = "purge"

\* Once a suspension has landed no further request is let through, and when those let
\* through before it are gone only staff, or deletion, end it.
SuspensionHoldsOnceQuiet ==
  [][\A i \in Invitations :
       row[i].status = "SUSPENDED"
       => /\ LetThrough(i)' \subseteq LetThrough(i)
          /\ \/ row'[i].status \in {"SUSPENDED", "DELETED"}
             \/ StaffLifts(i)
             \/ LetThrough(i) # {}]_vars

\* The dashboard catches up with the public page: a row that is due does not stay due.
DueIsEventuallyExpired ==
  \A i \in Invitations : i \in Due(clock) ~> i \notin Due(clock)

(* ---- what the comments and documents say and concurrent requests break ---- *)

\* invitation-status.ts:43, "`SUSPENDED` is only left through `unsuspend`, and only
\* staff may perform it."
SuspensionLeftOnlyByStaff ==
  [][\A i \in Invitations :
       row[i].status = "SUSPENDED" /\ row'[i].status \notin {"SUSPENDED", "DELETED"}
       => StaffLifts(i)]_vars

=============================================================================
