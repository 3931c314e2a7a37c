------------------------ MODULE InvitationLifecycle ------------------------
(***************************************************************************)
(* The lifecycle table of an invitation and what the public page may say   *)
(* about each state (packages/core/src/invitation/domain).                 *)
(***************************************************************************)
EXTENDS Naturals

CONSTANT Never      \* an expiry that is not set

ASSUME NeverAssumption == Never \notin Nat

Statuses == {"DRAFT", "PUBLISHED", "PAUSED", "EXPIRED", "SUSPENDED", "DELETED"}

\* <<from, transition, to>>: the rows of TRANSITIONS.
Lifecycle ==
  { <<"DRAFT",     "publish",   "PUBLISHED">>,
    <<"DRAFT",     "delete",    "DELETED">>,
    <<"DRAFT",     "suspend",   "SUSPENDED">>,
    <<"PUBLISHED", "republish", "PUBLISHED">>,
    <<"PUBLISHED", "unpublish", "PAUSED">>,
    <<"PUBLISHED", "expire",    "EXPIRED">>,
    <<"PUBLISHED", "suspend",   "SUSPENDED">>,
    <<"PUBLISHED", "delete",    "DELETED">>,
    <<"PAUSED",    "publish",   "PUBLISHED">>,
    <<"PAUSED",    "expire",    "EXPIRED">>,
    <<"PAUSED",    "suspend",   "SUSPENDED">>,
    <<"PAUSED",    "delete",    "DELETED">>,
    <<"EXPIRED",   "publish",   "PUBLISHED">>,
    <<"EXPIRED",   "suspend",   "SUSPENDED">>,
    <<"EXPIRED",   "delete",    "DELETED">>,
    <<"SUSPENDED", "unsuspend", "PAUSED">>,
    <<"SUSPENDED", "delete",    "DELETED">>,
    <<"DELETED",   "restore",   "DRAFT">> }

CanTransition(from, transition) ==
  \E to \in Statuses : <<from, transition, to>> \in Lifecycle

\* An expiry that has been reached at time t.
Passed(expires, t) == expires # Never /\ expires <= t

\* What an outsider is told about a row in this status at time t.
PublicAccess(status, expires, t) ==
  CASE status = "SUSPENDED" -> "BLOCKED"
    [] status = "EXPIRED"   -> "GONE"
    [] status = "PUBLISHED" -> IF Passed(expires, t) THEN "GONE" ELSE "VISIBLE"
    [] OTHER                -> "NOT_FOUND"

=============================================================================
