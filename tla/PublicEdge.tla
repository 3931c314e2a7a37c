----------------------------- MODULE PublicEdge -----------------------------
(***************************************************************************)
(* Publication with the shared cache in front of the public page           *)
(* (apps/web/src/app/i/[slug]/route.tsx) and the purge a moderation asks   *)
(* of it (moderation/ports/cdn-purger.ts, infra/src/cdn).                  *)
(*                                                                         *)
(* Only a visible page may be cached; redirects and refusals are no-store. *)
(* The cache is external: it keeps a copy while it is fresh, may hand it   *)
(* out stale while it revalidates, and drops it at the end of that window. *)
(* How old a copy is counts in units of an arbitrary length.               *)
(***************************************************************************)
EXTENDS Publication

CONSTANTS
  Guests,     \* visitors whose request has reached the origin
  Shelf       \* s-maxage plus stale-while-revalidate, in units

ASSUME EdgeAssumption == Shelf \in Nat \ {0} /\ None \notin Guests

VARIABLES
  edge,       \* the copy the cache holds of an address
  visit,      \* the origin's handling of a guest's request
  addresses   \* addresses[q]: what q, a moderation, will purge

edgeVars == <<edge, visit, addresses>>

Copy == [inv : Invitations \cup {None}, n : Nat, age : 0..Shelf]

NoCopy == [inv |-> None, n |-> 0, age |-> 0]

Visit == [slug : Slugs \cup {None}, inv : Invitations \cup {None}, n : Nat,
          status : Statuses \cup {None}, expires : Expiries, now : 0..MaxTime]

Away == [slug |-> None, inv |-> None, n |-> 0, status |-> None, expires |-> Never, now |-> 0]

EdgeInit == /\ Init
            /\ edge = [s \in Slugs |-> NoCopy]
            /\ visit = [g \in Guests |-> Away]
            /\ addresses = [q \in Requests |-> {}]

(* ------------------------------ a visit -------------------------------- *)

\* Seeded fault: the page shows the latest version, not the one the pointer names.
VisitRead_Latest(g, s, i) ==
  /\ visit[g] = Away
  /\ i \in FindPublishedBySlug(s)
  /\ visit' = [visit EXCEPT ![g] = [slug |-> s, inv |-> i, n |-> Len(versions[i]), status |-> row[i].status,
                                    expires |-> row[i].expires, now |-> clock]]
  /\ UNCHANGED <<vars, edge, addresses>>

\* The cache has nothing it would answer s with itself, or it revalidates: the origin
\* reads the row that holds the address.  When none does, the answer is a redirect or a
\* 404, neither of which may be stored, and nothing changes.
VisitRead(g, s, i) ==
  /\ visit[g] = Away
  /\ i \in FindPublishedBySlug(s)
  /\ visit' = [visit EXCEPT ![g] = [slug |-> s, inv |-> i, n |-> row[i].pub, status |-> row[i].status,
                                    expires |-> row[i].expires, now |-> clock]]
  /\ UNCHANGED <<vars, edge, addresses>>

\* Seeded fault: whatever page the origin rendered may be stored.
MayStore_Anything(v) == TRUE

\* publicResponsePolicy for a page that was visible when it was read,
\* UNAVAILABLE_RESPONSE_POLICY for the others.
MayStore(v) == PublicAccess(v.status, v.expires, v.now) = "VISIBLE"

\* The origin answers from what it read.  A page that may be stored replaces the cache's
\* copy; after any other answer the cache may keep the copy it was revalidating.
VisitAnswer(g) ==
  LET v == visit[g] IN
  /\ v # Away
  /\ visit' = [visit EXCEPT ![g] = Away]
  /\ \/ /\ MayStore(v)
        /\ edge' = [edge EXCEPT ![v.slug] = [inv |-> v.inv, n |-> v.n, age |-> 0]]
     \/ /\ ~MayStore(v)
        /\ edge' = edge \/ edge' = [edge EXCEPT ![v.slug] = NoCopy]
  /\ UNCHANGED <<vars, addresses>>

\* A unit of time passes at the cache.
AgeEdge ==
  /\ \E s \in Slugs : edge[s] # NoCopy
  /\ edge' = [s \in Slugs |-> IF edge[s].inv = None \/ edge[s].age >= Shelf - 1
                              THEN NoCopy ELSE [edge[s] EXCEPT !.age = @ + 1]]
  /\ UNCHANGED <<vars, visit, addresses>>

(* ------------------------------ the purge ------------------------------ *)

\* invitationCachePaths over INVITATION_SELECT: the slug and every slug_history entry.
InvitationCachePaths(i) == { s \in Slugs : row[i].slug = s \/ retired[s] = i }

ModerateReadPaths(q, i, action) ==
  /\ ModerateRead(q, i, action)
  /\ addresses' = [addresses EXCEPT ![q] = InvitationCachePaths(i)]
  /\ UNCHANGED <<edge, visit>>

\* purgePaths with Cloudflare answering.
PurgeOk(q) ==
  /\ PurgeEdge(q)
  /\ edge' = [s \in Slugs |-> IF s \in addresses[q] THEN NoCopy ELSE edge[s]]
  /\ addresses' = [addresses EXCEPT ![q] = {}]
  /\ UNCHANGED visit

\* A failed call, a time-out or no CDN configured: reported, and nothing is cleared.
PurgeFails(q) ==
  /\ PurgeEdge(q)
  /\ addresses' = [addresses EXCEPT ![q] = {}]
  /\ UNCHANGED <<edge, visit>>

(* ------------------------------ the system ----------------------------- *)

\* A step of Publication that is neither a staff read nor a purge.
RowStep ==
  \/ \E q \in Requests :
       \/ \E i \in Invitations :
            \/ \E s \in Slugs, e \in Expiries \cup {None} : PublishRead(q, i, s, e)
            \/ UnpublishRead(q, i)
            \/ \E n \in 1..Len(versions[i]) : RollbackRead(q, i, n)
            \/ SoftDelete(q, i)
       \/ Publish(q) \/ TransitionStatus(q) \/ RollbackWrite(q) \/ RecordAudit(q) \/ Crash(q)
  \/ \E w \in Sweepers : SweepStep(w) \/ SweepCrash(w)
  \/ Tick

PurgeStep ==
  \E q \in Requests :
    \/ \E i \in Invitations, action \in {"suspend", "unsuspend"} : ModerateReadPaths(q, i, action)
    \/ PurgeOk(q)
    \/ PurgeFails(q)

VisitStep ==
  \E g \in Guests :
    (\E s \in Slugs, i \in Invitations : VisitRead(g, s, i)) \/ VisitAnswer(g)

EdgeNext == (RowStep /\ UNCHANGED edgeVars) \/ PurgeStep \/ VisitStep \/ AgeEdge

EdgeSpec == EdgeInit /\ [][EdgeNext]_<<vars, edgeVars>>

\* Time passes at the cache, and a request the origin has taken up is answered.
EdgeFairness ==
  /\ WF_edgeVars(AgeEdge)
  /\ \A g \in Guests : WF_edgeVars(VisitAnswer(g))

FairEdgeSpec == EdgeSpec /\ EdgeFairness

(* ------------------------------ properties ----------------------------- *)

CopiesOf(i) == { s \in Slugs : edge[s].inv = i }

\* A copy of i's version n at s is not what the origin would answer for s now.
Outdated(s) ==
  LET i == edge[s].inv IN
  i # None /\ ~(/\ i \in FindPublishedBySlug(s)
                /\ row[i].pub = edge[s].n
                /\ PublicAccess(row[i].status, row[i].expires, clock) = "VISIBLE")

\* The kill switch holds: while an invitation is suspended, and every answer about it that
\* is on its way was read when it was suspended, no step puts a copy of it back on the edge.
SuspendedStaysOffEdge ==
  [][\A i \in Invitations :
       /\ row[i].status = "SUSPENDED"
       /\ \A g \in Guests : visit[g].inv = i => visit[g].status = "SUSPENDED"
       => CopiesOf(i)' \subseteq CopiesOf(i)]_<<vars, edgeVars>>

\* Whether or not a purge succeeds, the edge stops handing out what the origin no longer
\* shows: a paused, suspended, expired or deleted page, a version rolled back from, an
\* address renamed away.
EdgeCatchesUp == \A s \in Slugs : Outdated(s) ~> ~Outdated(s)

=============================================================================
