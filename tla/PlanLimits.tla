----------------------------- MODULE PlanLimits ------------------------------
(***************************************************************************)
(* Creating invitations under a plan's limit of active ones                *)
(* (app/api/v1/invitations/route.ts and                                    *)
(* core/src/invitation/usecases/create-invitation.ts): the route asks the  *)
(* rate limiter, the use case counts the customer's active invitations and *)
(* inserts one in a later statement.  Other requests create, and others    *)
(* move the invitations through their lifecycle, in between.               *)
(*                                                                         *)
(* One customer; an invitation is named by the request that creates it.    *)
(* The transitions are single steps here: what races inside them is in     *)
(* Publication.                                                            *)
(***************************************************************************)
EXTENDS InvitationLifecycle, RateLimiter

CONSTANTS
  Creations,   \* requests to create an invitation, each made once
  Allowed,     \* the plan's limit of `invitation.active`
  CreateKey    \* the customer's key, `invitation:create:<user>`

ASSUME PlanLimitsAssumption ==
  /\ IsFiniteSet(Creations)
  /\ Allowed \in Nat
  /\ CreateKey \in Keys

VARIABLES
  invitation,  \* the status of each row
  creation,    \* how far each request is
  overlap,     \* history: the most others that had counted and not inserted when one counted
  returned     \* history: the invitations that were inactive and became active again

creationVars == <<limiterVars, invitation, creation, overlap, returned>>

CreationInit ==
  /\ LimiterInit
  /\ invitation = [q \in Creations |-> "none"]
  /\ creation = [q \in Creations |-> "new"]
  /\ overlap = 0
  /\ returned = {}

(* --------------------------------- creation ---------------------------- *)

ActiveStatuses == {"DRAFT", "PUBLISHED", "PAUSED"}

\* countActiveInScope
Active == { i \in Creations : invitation[i] \in ActiveStatuses }

\* Those whom a count has let through, and whose row is not there yet.
Inserting == { q \in Creations : creation[q] = "insert" }

Go(q, pc) == creation' = [creation EXCEPT ![q] = pc]

\* The count has room: the request joins whoever is inserting.
LetIn(q) ==
  /\ Go(q, "insert")
  /\ overlap' = IF Cardinality(Inserting) > overlap THEN Cardinality(Inserting) ELSE overlap

\* The route, up to the rate limiter of the process that serves it.
AskLimiter(q, p) ==
  /\ creation[q] = "new"
  /\ Consume(p, CreateKey)
  /\ Go(q, IF Allows(p, CreateKey) THEN "count" ELSE "done")
  /\ UNCHANGED <<invitation, overlap, returned>>

\* Seeded fault: the count leaves drafts out.
Count_NoDrafts(q) ==
  /\ creation[q] = "count"
  /\ IF Cardinality({ i \in Active : invitation[i] # "DRAFT" }) >= Allowed
     THEN Go(q, "done") /\ UNCHANGED overlap
     ELSE LetIn(q)
  /\ UNCHANGED <<limiterVars, invitation, returned>>

\* existing >= allowed is refused.
Count(q) ==
  /\ creation[q] = "count"
  /\ IF Cardinality(Active) >= Allowed
     THEN Go(q, "done") /\ UNCHANGED overlap
     ELSE LetIn(q)
  /\ UNCHANGED <<limiterVars, invitation, returned>>

\* repository.create.  The owner's membership and the audit entry follow in statements of
\* their own, and no count reads them.
Insert(q) ==
  /\ creation[q] = "insert"
  /\ invitation' = [invitation EXCEPT ![q] = "DRAFT"]
  /\ Go(q, "done")
  /\ UNCHANGED <<limiterVars, overlap, returned>>

\* The template is refused after the count, or the process dies.
Abandon(q) ==
  /\ creation[q] \notin {"new", "done"}
  /\ Go(q, "done")
  /\ UNCHANGED <<limiterVars, invitation, overlap, returned>>

(* -------------------------------- lifecycle ---------------------------- *)

\* What the other use cases and the sweep do to a row; none of them counts.  One that was
\* not active and is again (an expired one republished, a suspended one lifted)
\* was let in by no count.
Transition(i) ==
  \E step \in Lifecycle :
    /\ step[1] = invitation[i] /\ step[2] \notin {"republish", "restore"}
    /\ invitation' = [invitation EXCEPT ![i] = step[3]]
    /\ returned' = IF step[3] \in ActiveStatuses /\ i \notin Active
                   THEN returned \cup {i}
                   ELSE returned
    /\ UNCHANGED <<limiterVars, creation, overlap>>

(* --------------------------------- the rest ---------------------------- *)

\* Every other route, with keys of its own.
Traffic ==
  \E p \in Processes, k \in Keys \ {CreateKey} : Consume(p, k) \/ Peek(p, k) \/ Reset(p, k)

CreationNext ==
  \/ \E q \in Creations :
       \/ \E p \in Processes : AskLimiter(q, p)
       \/ Count(q) \/ Insert(q) \/ Abandon(q) \/ Transition(q)
  \/ (Traffic \/ Tick \/ \E p \in Processes : Restart(p)) /\ UNCHANGED <<invitation, creation, overlap, returned>>

CreationSpec == CreationInit /\ [][CreationNext]_creationVars

(* -------------------------------- properties --------------------------- *)

\* Every variable keeps its shape.
CreationTypeOK ==
  /\ LimiterTypeOK
  /\ invitation \in [Creations -> Statuses \cup {"none"}]
  /\ creation \in [Creations -> {"new", "count", "insert", "done"}]
  /\ overlap \in Nat
  /\ returned \subseteq Creations

\* However creations race between count and insert, and whatever expires or comes back in
\* between, the active invitations pass the plan by no more than the requests that once
\* stood between the two at the same time as another counted, and the invitations that
\* are active again without a count (create-invitation.ts:148-162).
OvershootIsBounded ==
  Cardinality(Active) <= Allowed + overlap + Cardinality(Active \cap returned)

=============================================================================
