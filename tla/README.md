# Zfaf: a TLA+ model of the invitation platform

Zfaf lets a couple write a wedding invitation, publish it at an address such as
`/i/sara-omar`, change it, and collect replies. The parts of it that are hard to
test are the ones where two requests meet: a republish and a moderation, a rename
and a purge, the expiry job and an owner who has just moved the wedding. These
modules model those parts from the source, check them with TLC on small
instances, and prove the central invariants with TLAPS for every instance.

## The system and its parts

| Part | State it keeps | Operations | What makes it correct |
|---|---|---|---|
| Invitation lifecycle (`core/invitation/domain`) | none: a table | `canTransition`, `resolvePublicAccess` | only staff end a suspension; moderation outranks expiry |
| Publication (`core/invitation/usecases`, `db/invitation.repository.ts`) | `invitations`, `invitation_versions`, `slug_history`, `audit_logs` | create, publish, republish, unpublish, rollback, set visibility, delete | a version is written once; the pointer resolves; an address has one owner; old links lead to the same wedding |
| Moderation (`core/moderation`) | the same rows | suspend, unsuspend, purge the edge | a suspension holds, at the origin and on the edge |
| Scheduled jobs (`apps/worker`, `api/internal/jobs`) | none between runs | expire invitations, sweep, redrive and purge media, flush analytics | exactly what is due is touched, and in the end all of it |
| Public page (`apps/web/src/app/i/[slug]`) | the CDN's copies | read, redirect, render | nothing hidden is cached; hidden pages leave the cache |
| Draft editing (`update-draft.ts`, `document-patch.ts`) | `draft_document`, `draft_version` | patch with an expected version | no lost update |
| Builder autosave (`apps/web/src/builder/autosave-engine.ts`) | pending and in-flight edits, a local copy | edit, flush, retry, resolve a conflict, restore | nothing typed is lost; what is shown is what was saved |
| Builder (`apps/web/src/builder`) | the document on the screen, undo and redo, the preview frame, the publish panel | every control, undo, redo, send, resolve, publish | an undo is exact; a save stores what was made; the preview and the publication are what is on the screen |
| RSVP (`core/rsvp`) | `rsvps`, counters on the invitation, edit tokens | the form and its route; submit, edit, delete, list, export | counters equal the rows; one reply per guest; the guest is told what became of it |
| Media (`core/media`, `media-processing`) | `media_assets`, objects in storage, a job queue | sign, complete, process, delete, sweep, redrive, purge | what is published stays; what is deleted goes; a failed job is retried |
| Identity (`core/identity`, `apps/web/src/auth`) | users, sessions, one-time tokens, TOTP credentials, a page | register, verify, log in, reset, revoke, two-factor | a revoked session is dead; a token or code works once; a page that says done is right |
| Plan limits (`core/billing`) | none: computed | count, compare, insert | no plan is exceeded by what was counted |
| Rate limiting (`infra/rate-limit`) | a Map in each process | consume, peek, reset | no window holds more than its quota; Retry-After is true |
| Analytics (`core/analytics`) | a page's beacon, a bounded buffer, `analytics_events` | report and record a view, flush | at most once, bounded |
| Authorisation (`core/authz`, `web/server/request-context.ts`) | none: what a request has read | resolve the session, pass the gate, find in scope, `can` | nothing is given on facts that were never true; a refusal reveals no row |
| Admin console (`core/moderation/admin-console.ts`) | `audit_logs` | list, verify an address, moderate | staff only, freshly signed in, on the record |
| Environment and provisioning (`packages/config`, `render.yaml`, `scripts/`) | the hosting account | check a blueprint, preflight, apply, start | a report of success is true; a stopped run is repaired; a checked blueprint boots |
| Templates and renderer, mail, storage, observability, the rest of the web interface | — | — | pure or I/O; see *Not modelled* |

The parts meet in PostgreSQL. A use case reads a row, decides in TypeScript and
writes with one more statement; only `repository.publish`, the replies and a few
others open a transaction, and those run at READ COMMITTED. What the code relies on is
therefore a small set of unique indexes and of `WHERE` clauses that restate their
predicate, and everything else is open to whatever runs between the read and the
write. That is what the models are about.

## Modules

| Module | What it is |
|---|---|
| `InvitationLifecycle` | the statuses, the transition table and the public-access rule, as sets and operators |
| `Publication` | one action per SQL statement (or per transaction, at its commit) of publish, unpublish, rollback, suspend, unsuspend, delete and the expiry sweep |
| `PublicEdge` | `Publication` composed with the shared cache: the origin's reads and answers, the cache's copies, the purge of a moderation |
| `PublicationProofs` | the theorems about `Publication` and `PublicEdge` |
| `GuestBook` | what RSVP promises: one answer per guest, totals recounted at every change |
| `GuestPage` | the guest's form with and without its script, and the route with its budgets, trap and human check, over `Rsvp` |
| `Rsvp` | submissions, corrections and removals over transactions with a row lock; implements `GuestBook` |
| `GuestProofs` | the theorems about `Rsvp`, the refinement among them, about `GuestPage` and about `Analytics` |
| `DraftStore` | the server's side of autosave: read, compare, read again, write where the version holds |
| `Autosave` | the engine in each tab over `DraftStore`: queues, timers, waiting flushes, conflicts, the local draft |
| `AutosaveProofs` | the theorems about `Autosave` and `DraftStore` |
| `DraftDocument` | the document: patches, its schema, what it lacks, what a preview and a publication make of it |
| `Builder` | the page of the builder over `DraftDocument`: controls, undo, the queue, conflicts, the preview frame, the publish panel |
| `BuilderProofs` | the theorems about `DraftDocument` and `Builder` |
| `MediaLifecycle` | one asset from the signed URL to its purge: requests, processing runs, the queue, scheduled jobs |
| `MediaLifecycleProofs` | the theorems about `MediaLifecycle` |
| `Sessions` | registration, verification, logins, lockout, sessions, reset tokens, suspension |
| `TwoFactor` | enrolment, challenge and removal of the second factor, over `Sessions` |
| `SignInPages` | the forms around an account in one browser, over `TwoFactor` |
| `TwoFactorProofs` | the theorems about `Sessions`, `TwoFactor` and `SignInPages` |
| `Analytics` | the beacon and its route, the daily salt, the capped buffer, concurrent flushes |
| `RateLimiter` | the sliding window in the memory of each process |
| `PlanLimits` | creation under a plan's limit, behind the `RateLimiter`, over the lifecycle table |
| `Access` | every read of a signed-in request, and what changes between them |
| `AccountProofs` | the theorems about `Access`, `PlanLimits` and `RateLimiter` |
| `ProductionEnv` | `parseEnv`, blueprints, and the check of a blueprint; pure |
| `Provisioning` | runs of the provisioning script, people at the account, and the start of what was created |
| `ProvisioningProofs` | the theorems about `ProductionEnv` and `Provisioning` |
| `MC...` | instances for TLC |

### Publication

`row[i]` is the row of invitation `i`, reduced to `status`, `slug`,
`publishedVersionId` (a version number, 0 for NULL), `expiresAt` and whether
`deletedAt` is set. `versions[i]` is the sequence of its versions, each named by the
request that wrote it. `retired[s]` is `slug_history`, `audit` the audit log,
`req[q]` a request in flight, `sweep[w]` the run of the expiry job by sweeper `w` (the worker's timer
and the cron route are two).

A request is a sequence of steps, and any other request may run between two of them:

| Code | Actions |
|---|---|
| `publishInvitation`: `findByIdInScope`, `canTransition`, `resolveSlug` | `PublishRead` |
| `repository.publish`: its own read, outside the transaction | `PublishRecheck` |
| the transaction: `findFirst` of the latest version | `PublishOpen` |
| the transaction's inserts and UPDATE, committed or rolled back by P2002 | `PublishCommit`, `PublishAbort` |
| `recordPublication`, `recordModeration` | `RecordAudit` |
| `unpublishInvitation`, `moderateInvitation` up to the write | `UnpublishRead`, `ModerateRead` |
| `transitionStatus` | `TransitionStatus` |
| `cdn.purgePaths` | `PurgeEdge` (its effect is in `PublicEdge`) |
| `rollbackInvitation`, `rollbackToVersion` | `RollbackRead`, `RollbackWrite` |
| `deleteInvitation`, `softDelete` | `SoftDelete` |
| `expireDueInvitations`: SELECT, UPDATE, `confirmExpired`, audit | `SweepRead`, `SweepWrite`, `SweepConfirm`, `SweepRecord` |
| the process dies between two awaits | `Crash`, `SweepCrash` |

The indexes are guards: `UniqueViolation` is the disjunction of the three unique
indexes the transaction can meet (the version number, the partial index on live slugs,
`slug_history.oldSlug`). Uniqueness of versions and addresses is therefore not built
in: it holds because of where those guards stand, and the mutants of `UniqueViolation`
break it.

A request the code refuses at its first read changes nothing and is left out. So are
authorisation, the content of drafts (`NOT_READY`, which is in `DraftDocument`), visibility, `publishedAt`, and the
media step of a delete. The slug is one of `Slugs`, whatever it was made from: what the
owner typed, the current one or a suggestion.

Two sweeps at once may both record the expiry of one row: `confirmExpired` reads what is
expired, not who expired it. `SweepConfirm` shows it and no property forbids it.

### PublicEdge

`edge[s]` is the cache's copy for address `s` with its age; `visit[g]` a request of a
guest between the origin's read of the row and its answer; `addresses[q]` the paths a
moderation computed when it read the row. `RowStep` is every other step of
`Publication`, with the edge untouched: no use case but a moderation talks to the CDN.
The cache is external; all that is assumed of it is that it stores only what it may, may
keep a copy it is revalidating after an answer it may not store, and drops a copy at the
end of `s-maxage` plus `stale-while-revalidate`.

### Rsvp

One invitation; `reply[g]` is the row of the guest whose identity hash is `g`, `counters`
the three denormalised columns, `lock` who holds the invitation's row, `policy` what the
published snapshot and the status say at the moment. A request is `SubmitStart`,
`EditStart` or `DeleteStart` (what happens before the lock), `Lock`, then
`SubmitRead`, `EditRead` or `DeleteRead` (the second read, under the lock), then its commit.
`Abort` is a process that dies or a transaction that times out. A submission stands for
the id of the row it creates and for the edit token it is answered with, so an
`EditStart` presents what some submission was given, however long ago. The unique index on
the identity is the function itself; the upsert is `Upserted`.

`KeepsGuestBook` maps the rows to `GuestBook`'s answers and the columns to its totals. The
abstract module counts seats, one per person, instead of adding party sizes up: the
same number, in a form that set theory can count.

### GuestPage

`GuestPage` puts the way to those transactions around `Rsvp`: `page[b]` is a page of the
invitation that is open, with its script (`Scripted`) or without, `post[q]` the journey of a request.

| Code | Definitions |
|---|---|
| the form, `wireRsvp`'s `onSubmit` | `Send`, `Fields` |
| the connection; the `catch` of the fetch; a tab reloaded or left | `Disconnect`, `GiveUp`, `Reload` |
| the route: two budgets, the pressure, the body | `Admit`, `Spent`, `HasBudget` |
| `TurnstileHumanCheck.verify` | `Challenge` |
| `parseRsvpSubmission`, `rsvpDedupeHash`, `submitRsvp` up to its transaction | `Shaped`, `Identity`, `Begin` |
| the mail, `respond`, the redirect of a plain form post | `Respond`, `Answered` |
| the script's continuation, `messageFor`, the page after the redirect | `Hear`, `Shown` |

A script lets one post out at a time; a browser without it posts again at a second tap, and is then deaf to
the first. A request that was cut off before it arrived is `over`, one cut off later goes on at the server.
Budgets count posts in a window that slides with `clock`; the exact window is in `RateLimiter`. Every page has
an address of its own, and one process serves. A post that no page made, the route's JSON form, is a step of
`Rsvp` (`Replies`).

### DraftStore and Autosave

`drafts[n]` is the document at `draftVersion` `n`, the last one being the row's; `calls` the
requests being served, each with its tab, its patch and its base version, and their answers on
the way back. A document is a value for each path. A patch is what `coalesce` leaves of a
queue of `replace` operations: for each path a value, or `Unset`.

| Code | Definitions |
|---|---|
| the route and `updateDraftDocument`: session, rate limit, allowlist | `Refuse` |
| `findByIdInScope` and the comparison with `baseVersion` | `FindStale`, `FindMatching` |
| `updateDraft`: its own read, then `updateMany` where the version holds | `ReadExisting`, `Write`, `LoseRace` |
| the read that answers a lost race | `ReadFresh` |
| `AutosaveEngine`'s fields, `conflictDetail` | `engine[t]` |
| `edit`, `flush`, `send` | `Edit`, `Flush`, `Send` |
| the timers | `DebounceFires`, `RetryFires` |
| a step change, the tab hidden, the publish panel | `FlushNow` |
| `handle`, for each answer | `TakeSaved`, `TakeDisjoint`, `TakeContended`, `TakeRejected`, `LoseConnection` |
| flushes that resume from `await this.savingPromise` | `Resume` |
| `resolveConflict` | `KeepMine`, `TakeTheirs` |
| startup, `decideRestore`, `acceptRestore`, `declineRestore` | `Load`, `Restore`, `DeclineRestore` |
| the tab is closed or evicted | `Close` |

A JavaScript task is one action, together with the promise continuations it sets off: the
handling of an answer, the end of the save, and the flushes that waited for it. A lost
connection leaves a request the server serves later, or not at all, or whose answer nobody
hears; the tab cannot tell. The server may refuse any request (`Refuse`): an expired session,
a rate limit and a forbidden path look alike to the client, which drops the batch.

Abstracted: what an operation says (list operations, coalescing, rebasing and undo are in
`Builder`; an undo is an edit here), the allowlist, delays (a timer is armed or not), IndexedDB's own asynchrony and quota (a write lands
with the edit), and two tabs of one browser on one local draft (`Tabs` are devices).

### DraftDocument and Builder

`DraftDocument` is pure. A document is a record with its fields and its lists of events, images and
sections; a field holds one of the few values the code tells apart, and fields the code treats alike are one.

| Code | Definitions |
|---|---|
| `document-patch.ts` | `ReadPointer`, `Put`, `OnList`, `OnRecord`, `ApplyOne`, `ApplyPatch`, `ValidatePatch` |
| `draft-document.ts`: the schema, the new draft, the checklist, the preview | `ParseDraftDocument`, `CreateDraftDocument`, `CanPublish`, `ToPreviewSnapshot` |
| `resolve-document.ts`, `published-snapshot.ts`, `resolve-sections.ts` | `ResolveDocument`, `CreateSnapshot`, `Enabled`, `BySortOrder`, `Titled`, `SectionsInOrder`, `EventsInOrder`, `Drawn` |

A filter and a stable sort are written as an arrangement of a list's positions (`Arranged`): which of them are kept, and
in which order. JavaScript's `sort` is stable, and what a publication draws depends on it where two events have one `sortOrder`.

`Builder` has the page in `tab`, the server's row in `server`, the frame and its channel in `preview`, the
panel in `publish`. Saving is one step here (`Autosave` has its steps); what matters is what the operations say.

| Code | Definitions |
|---|---|
| the controls of `Steps.tsx` and `Panels.tsx`, through `edits.ts` | `CoupleStep`, `DateStep`, `LocationStep`, `EventsStep`, `PhotosStep`, `MusicStep`, `DesignPanel`, `SectionsPanel`, `Edit` |
| `history.ts` | `InverseOp`, `Invert`, `Recorded`, `Undo`, `Redo` |
| `coalesce` and the queue of `autosave-engine.ts` | `Coalesce`, `Queued`, `Send`, `AnswerSaved`, `AnswerRejected`, `LoseAnswer` |
| a 409 and its three ends | `Contended`, `Rebases`, `AnswerConflict`, `Resolve` (`KeptMine`, `TookTheirs`) |
| another device, a reload of the builder | `OtherSaves`, `Reload` |
| `Builder.tsx`'s two signals, `preview-bridge.ts`, `PreviewFrame.tsx` | `Hydrate`, `FrameListens`, `ReceiveAnnouncement`, `FrameLoaded`, `FrameReceives`, `FrameReloads`, `Render` |
| `PublishPanel.tsx` | `Press`, `Resume`, `Post` |

A document that does not parse cannot be shown (`Shown`), so the page freezes on the last one that did.
Left out: which paths the allowlist admits (every control stays inside it), the upload of an image in the page
(its key is a value), the availability check of an address, layout and focus.

### MediaLifecycle

One row of `media_assets` (`row[m]`), the objects under its prefix, the job `media-<m>` of the
queue, up to two runs of `processMediaJob` at once, the requests that complete or delete, and
the scheduled jobs. A date is the age that a query compares it with: fresh or old.

| Code | Actions |
|---|---|
| `requestUploadUrl`, the browser's PUT | `RequestUpload`, `PutOriginal` |
| `completeUpload`: `findById`, `storage.head`, `markProcessing`, the dispatch | `Complete`, `Head`, `MarkComplete`, `DispatchCompleted` |
| `processMediaJob`, one step per await | `Load`, `MarkProcessing`, `Fetch`, `Process`, `PutVariant`, `DeleteOriginal`, `CompleteProcessing` |
| a step refused, a process that dies | `StepFails`, `RunDies` |
| BullMQ: a worker takes a job, retries, reclaims a stalled one, forgets it | `Take`, `JobReturns`, `JobThrows`, `Stalled`, `LockExpires`, `Forget` |
| `deleteMedia` | `Delete`, `SoftDelete` |
| publishing or taking down, `deleteInvitation`, `orphanByInvitation` | `Publish`, `DeleteInvitation`, `OrphanByInvitation`, `DiesBeforeOrphaning` |
| `sweepStaleUploads`, `redriveStuckMedia`, `purgeOrphanedMedia` | `Select`, `Redrive`, `EmptyStorage`, `HardDelete`, `SweepFails` |
| the passing of minutes, and of days | `GoesIdle`, `DatePasses` |

Every write of the repository is by id and looks at no status, so no step has a guard on the
row but those the code reads. Assumed: a client PUTs once, while its URL is good, and
completes an upload only while the row is fresh; days pass only while nothing is under way on
the asset (`Quiet`), minutes at any time; what the bytes turn out to be is fixed per upload;
`usage` reads in one step. BullMQ is external.

### Sessions, TwoFactor and SignInPages

`Sessions` keeps the account's row, the sessions, the reset tokens and the requests that are
between two of their statements; `TwoFactor` adds the credential, the recovery codes and the
requests about them. A login is the id of the session it opens; a secret is named by the
request that minted it, a right code by the secret and its time step.

| Code | Actions |
|---|---|
| `registerUser` | `RegisterRead`, `InsertUser`, then the token of its mail and `IssueSession` |
| `verifyEmail`, `resendVerification` | `VerifyRead`, `MarkEmailVerified`; `Resend` |
| `login` | `LoginRead`, `RecordFailedLogin`, `RecordSuccessfulLogin`, `CancelDeletion`, `IssueSession` |
| `requestPasswordReset` | `RequestReset`, `InvalidateTokens`, `CreateToken` |
| `resetPassword` | `ResetRead`, `ConsumeToken`, `UpdatePasswordHash`, `RevokeAllForUser` |
| `suspendAccount`, `logout`, `logoutAllSessions`, `resolveSession` | `Suspend`, `Logout`, `SessionRefused` |
| `beginTwoFactorEnrollment` | `Enrol`, `UpsertUnconfirmed` |
| `confirmTwoFactorEnrollment` | `Confirm`, `ConfirmCredential`, `ReplaceRecoveryCodes`, `MarkVerified`, `RevokeOthers` |
| `verifyTwoFactorChallenge`, `disableTwoFactor` | `Verify`, `Disable`, `Claim`, `MarkVerified`, `DeleteForUser` |

Left out: wrong codes and the budgets of attempts (they change nothing of this state), the
sealing of secrets, sliding expiry. A set of recovery codes is one of them.

`SignInPages` has one browser: `page` is the form it shows and `cookie` its session.

| Code | Actions |
|---|---|
| `AuthForms.tsx`: the forms, the panel that redeems a link on mount, the second mail | `Open`, `OpenLink`, `Send`, `AskAgain` |
| the routes' answers and what the form makes of them | `Answered`, `Accepted`, `Refused`, `Failed`, `AnswerLost` |
| `SignOutButton` | `SignOut` |

An answer that comes after the person has left the page is not heard, and its cookie not kept; the
request goes on at the server all the same.

### Analytics

A page's `reportView` is `Report` (or `Drop`, a beacon that never arrives), what its route refuses
`TurnAway`; `recordView` is `Resolve`, `Unavailable`, `MintSalt`, `ReadSalt`, `Push`; `flushAnalytics` is `StartFlush`,
`Drain`, `Write` and, after a foreign key refuses the batch, `FindAlive` and `WriteSurvivors`.
`WriteFails`, `FlushEnds`, `RedisRestarts` and `PushAgain` (the client of Redis sends a push again, as a view of its own) are the failures, `Delete` the invitation's end. `unreadable`
is what another release left in the buffer in a form this one cannot decode (`Decoded`): a batch of nothing else
reads as an empty buffer and ends the run. A day's salt is not asked for
after its two hours of grace.

### RateLimiter and PlanLimits

`RateLimiter` is the Map of `SlidingWindowRateLimiter`: `Consume`, `Peek`, `Reset`, `Restart`,
with `Evict` and `Prune` as in the code, keys in insertion order. The list of instants under a key is
a set of calls, the `n`-th at an instant being `<<instant, n>>`: the code counts the list and drops
what is old, and nothing more. A call awaits nothing and is one step. `PlanLimits` puts the creation of invitations behind it: `AskLimiter`, `Count`,
`Insert`, `Abandon`, and `Transition` for everything else that moves a row, taken from
`InvitationLifecycle`. `now` is the clock at the call and the limit of a key is fixed.

### Access

A request is `Arrive` (origin check, session row), `ReadUser`, `Expel` (a suspended account is
signed out), `ReadMemberships`, `Gate` (the credential, then what the surface asks), `Find`
(the row in scope, then `can`), `Act` (the route's own statement) and, in the console,
`RecordAccess`. `Routes` lists every route of the signed-in surfaces with what it asks for and whether its
statement looks at the invitation again. Between two reads anything of `Change` may happen: a
suspension, a verified address, a session that ends or grows past four hours, a factor
confirmed, answered or removed, a membership granted or revoked, the invitation deleted.

`held[r]` is history: what has been true at some moment since request `r` came. What
`GivenByRight` asks is therefore weaker than one moment at which everything held, which the
code does not give and does not try to. A request whose session or membership changed before
it came gets nothing from it. Roles are constant (no code changes them); `pending_deletion` is
left out (nothing asks for it), and so are rate limits and the parsing of bodies. What a route
then does is in the module of its component; the routes that let a session through before it answered its
second factor are in `Sessions` and `TwoFactor`. `tenant-context.ts` has no caller.

### ProductionEnv and Provisioning

`ProductionEnv` is pure: `ParseEnv` is `parseEnv` with its schema and its production rules, as the set of
variables it complains of; `CheckBlueprint` is `checkBlueprint`. A value is a literal of the blueprint or what
the rules tell apart (well formed, shared with another variable, a placeholder, too short, ...).

| Code | Definitions |
|---|---|
| `env.ts` | `SchemaIssues`, `MailIssues`, `ProductionIssues`, `ParseEnv` |
| `check-production-env.mjs` | `ServiceProblems`, `DeployProblems`, `StoreProblems`, `ConfiguredProblems`, `CheckBlueprint` |
| `render-provision.mjs`: the listing, groups compared, the gate on drift | `StartRun`, `ListAccount`, `CompareGroup`, `DriftGate` |
| its loop: announce, adopt, create, link | `Announce`, `Adopt`, `Create`, `Link`, `LinkMisread`, `LinkFails`, `LinksDone`, `Finish`, `Gone` |
| any of its calls fails, before or after it took effect | `Stops` |
| people: type the secrets, edit a value, delete, put back | `TypeSecrets`, `EditValue`, `Delete`, `Reconcile` |
| an instance starts; `getEnv`; `/api/health` | `Deploy`, `EnvOf`, `FirstRequest` |

A run is `misled` once something it goes by is not so: somebody changed the account under it, or it took a refusal
for a link that exists (`LinkMisread`). One run at a time, which the workflow's concurrency group gives. The four listings of a run are one step; what
is compared of a resource that exists is its name, and of a group its values. Left out: the sweep for
secrets by their shape, the YAML reader, `inspectEnvFile`, the wording of reports. The hosting platform is
external. Of a blueprint, the modules assume what the two committed ones satisfy: each resource has a turn and a name of its own;
a variable is declared once for whoever reads it; and a group that gives values also holds a variable
nobody starts without, so that a group still missing shows when the environment is parsed.

## Runs

| Run | Asks | Result |
|---|---|---|
| `publication` | the rows under all kinds of requests and crashes; two expiry sweeps against publishes and pauses; the kill switch and the cache | holds |
| `rsvp` | replies, corrections and removals under the row lock; a guest's pages behind budgets, a check, a trap and a bad connection; three posts at once | holds |
| `autosave` | two tabs on one draft, with lost answers, refusals, a closed tab, and fairness | holds |
| `builder` | the page of the builder: lists, fields, another device, a publication, the preview | holds |
| `media` | one upload, two runs, three scheduled jobs, inline or queued, one fault, fairness | holds |
| `sign_in` | registrations, links, logins, resets and suspensions; the same with a browser's pages; the second factor beside a login | holds |
| `analytics` | three views from their pages to the rows, and two flushes, with a failure, a push sent again and a deletion | holds |
| `account` | one request to any route, with two changes among its reads; three creations under a plan of one, behind the rate limiter | holds |
| `provisioning` | a catalogue of blueprints through the check, a run and the first parse; runs that stop anywhere; what they start | holds |
| `suspension_overwritten` | is SUSPENDED only left by staff? | violated |
| `misread_refusal` | is what a run reports as already linked linked? | violated |
| `unconfigured_rotation` | does an instance that takes traffic have its configuration? | violated |

The properties:

- `EachPublishOwnsItsVersion`: what concurrent and half-failed publishes must never produce: two
  of them with one version, or a version reported by another than its writer.
- `RedirectReachesItsInvitation`: a 301 arrives, in one hop, at the published page of the
  invitation that gave up the address, also after deletions, pauses and further renames.
- `SuspensionHoldsOnceQuiet`: the positive side of the finding. Once SUSPENDED has
  landed nothing further is let through; only requests let through before it can undo it.
- `SweepHonoursRepublish`, `DueIsEventuallyExpired`, with two sweeps at once.
- `SuspendedStaysOffEdge`: while a suspension stands, and every answer under way was read
  under it, nothing is put back on the edge. `EdgeCatchesUp`.
- `KeepsGuestBook`, `RepliesChangeByRight`: the counters never drift; an edit link dies with the next
  submission and with the row. `EveryGuestIsAnswered`: whoever sends the form is told what became of it, and
  what they are told is so, or that the connection failed; and the lock is always given back.
- `NoSaveUndoesAnother`: the document a save writes was computed from its first read, and
  still it changes no field but its own.
- `WorkHasAClock`, `EveryEditSettles`: a flush that waits has cancelled both timers, so
  that something still moves the queue after any answer is not obvious.
- `DurableQueue`, `BaseIsAServerDocument`: what is unsaved is in
  IndexedDB; conflicts are judged against a document the server had, although the
  answer to a lost race pairs an older version with a newer document.
- `UndoIsTimeTravel`: an undo gives back the very document its edit was made on, though the inverse
  operations were computed from positions in lists that have shifted since. `QueueRebuildsDocument`: what is
  queued turns the document last acknowledged into the one on the screen, however it was coalesced.
- `FrameCatchesUp`: the preview shows the screen, in whatever order the frame's announcement, its load event, its
  reloads and the edits came. It is conditioned on one signal having reached the builder: both may
  come before it listens (see below).
- `ReadyMeansPublishable`, `PublishTakesTheScreen`: a document called ready is not refused and is drawn as
  previewed; a publication takes what the screen showed when its button was pressed, whatever was being saved then.
- `ReadyIsComplete`, `NoStrayBytes`, `OnlyDueIsRemoved`: an image shown as ready has all its
  derivatives and no original, whatever runs twice; nothing stays in storage behind a removed
  row; a sweep removes only what is still due when it does. `InterruptedIsRetried`,
  `DueIsCollected`: the redrive and the sweeps reach everything in the end.
- `TokenRedeemedOnce`: a mailed link takes effect once. `CodeOpensOneSession`,
  `AnsweredThisFactor`, `RevokedStaysRevoked`: a code is spent once; a session that answered a factor
  removed since does not count as verified under the next; nothing revives a session.
  `DoneMeansDone`: a page that says a link was redeemed is right, and after a reset every earlier session is over.
- `EachViewOnce`, `UniquesArePeople`: what is pushed is counted at most once, with one hash a day, and without a failure
  a view is lost only with its own invitation or past the cap.
- `QuotaHolds`: over any window, not only those the code computes. `OvershootIsBounded`: the plan is not a
  ceiling (see *Findings*), and this is how far past it the active invitations can get: by the requests that at the same
  time as another stood between their count and their insert, and by those that are active again without a count.
- `GivenByRight`, `RefusalTellsNothing`: nothing is read or changed for a request on rights the account
  did not have since it came; a 403 goes only to those who may see the row.
- `AppliedMeansComplete`, `RerunsRepair`: a run that says "Applied" has left everything declared there,
  and dispatching it again repairs what stopped runs, edits and deletions left behind. The first is about runs that were not misled.
  `ServesWhatWasReviewed`: no instance serves with part of its configuration. `CheckedBlueprintBoots`: once runs have
  completed what a checked blueprint declares, and people have typed in what it leaves to them, `parseEnv` can refuse the
  environment of an instance only over the mail transport, a mail credential or the secret of the jobs,
  provided that what the blueprint spells out is well-formed, that its services leave all but `NODE_ENV` to their groups
  and that no choice between fixed values is left to the dashboard.

Each has a mutant of the code it is about that breaks it.

### Findings

*A suspension can be undone without staff.* `invitation-status.ts:43` promises
the opposite. The final UPDATE of a publish names only the id, and `transitionStatus`
does not restate the status it was decided from. A `WHERE status = <the one read>`
on both would turn the race into a refusal.

*An instance takes traffic without its configuration.* `env.ts:6` says the variables are "parsed once
at startup so a missing or malformed variable fails immediately". Only the worker does: the web calls `getEnv` in
the requests that need it, and `/api/health`, which the blueprint names as its health check, does not. A web
service whose groups are linked late goes into rotation and fails its first user's request.

*A refused link can be reported as one that exists.* `render-provision.mjs:642` says that a rejection "that names the
link as existing" is reported as `already linked`. The code asks whether the text of the rejection matches
`/409|already/i`, and `api` puts the path with both identifiers, the status and the detail into that text: a 403 or a 500 over an
identifier that holds 409 is taken for a link. The run says "Applied" and the service has no configuration until the
next run, which asks again.

Further disagreements between the code and its words were met and have no run.

Publication and the edge. A retired address can be taken: ADR-0013 says never, `isSlugAvailable` looks
at `slug_history`, `publish` only at the live index. Renaming back and away again is refused:
`slug_history.oldSlug` is unique and the insert unconditional, and the owner is told the
address is in use. Two first publishes with different addresses: one address is reported to its caller and
then kept by no table. An editor's republish without a slug, racing the owner's rename, restores the old address,
though changing it is the owner's. A purge covers the addresses of
the read before the suspension's write, so a rename in between leaves the newest one on the
edge until its copy runs out, where `moderate-invitation.ts:136` says "Every address".
`docs/04-api-specification.md:257` and `docs/01-system-architecture.md:171` announce a purge
on delete and on publish, and no such call exists; `cdn-purger.ts` calls the redirect
cacheable while the route answers it with `no-store`.

RSVP. A correction is not held to the rules: `editRsvp` reads neither the snapshot nor the
status, so a party larger than allowed, or attending with nobody, is stored and counted, also
after the deadline. A new edit link may be dead: the window runs from `submittedAt`, which a
second submission does not move, although it retires the old link and hands out a new one. A first post whose answer was lost may arrive after
the retry: it overwrites the later answer and retires the token the page kept (which no page reads). The human check
can never be asked for: its threshold is 30 posts in ten minutes, counted only for posts that the
invitation's 20 an hour let through; and an honest burst of more than 20 guests in an hour is told to wait. Were
it asked for, no page sends a `turnstileToken`, and the script has no words for the refusal
(`messageFor` knows `HUMAN_CHECK_REQUIRED`, the route answers with the code of any 403). A 500 reads as "check the name and number".

Autosave. Another device's edit can be overwritten unasked: on a 409 only the batch sent is
compared with the server's document; a field typed meanwhile, into another path, stays in `pending` while
base and version move on, and the next save overwrites what the other device wrote there. A flush can return
before its edit is sent: of two flushes waiting for one save the first sends what is left and
the second sees `saving` and returns; when the second is the publish panel's, the snapshot is
taken without the last words. `DurableQueue` and `BaseIsAServerDocument` leave out a tab that has settled a local
draft it found at startup: `acceptRestore` takes the restored document, its unsent edits included, for
the base, and writes nothing back to IndexedDB; `declineRestore` clears the store although the
user may have typed since. Both properties fail for such tabs.

Builder. A half-typed maps link or latitude, a cleared event date or a 21st event is saved as it is, so
the server keeps a document that its own schema refuses: the builder freezes, and after a reload cannot open it
(`draft-document.ts:11-14` says a draft "has to survive being saved, previewed and reloaded"). A rebase drops what was typed into fields in flight
(`autosave-engine.ts:294-313`). An append whose answer was lost is applied twice; an edit addressed by its
position may land on another event after a rebase; keeping one's own after a reorder, or a late undo of one, leaves
two sections with one order; `sortOrder` is the number of events (`Steps.tsx:413`), so it repeats after a removal.
The panel publishes although its flush ended offline, in a conflict or rebased (`PublishPanel.tsx:155-160`), and
stays stuck when its own request fails (`:161`). Both signals of the frame may come before the page is
hydrated, and nothing asks again (`Builder.tsx:122-160`). A queue of more than 200 operations is refused and dropped.

Media. A second run takes a ready asset back to processing (`markProcessing` is by id).
`process-media-job.ts:145` and `media-dispatch.ts:52` say the row stays `processing` after a failure of storage, but it is
marked failed, which the redrive does not look for. `queue-contract.ts:41` says the job "never throws
for a bad file", and a broken one throws. A published image may be deleted by a request that looked
before the publish. `purgeOrphanedMedia` deletes only the original's key, where
`manage-media.ts:88-91` says what is left behind otherwise.

Identity. The lock is decided from the counter that was read, not the one written.
`cancelDeletion` writes `active` over a suspension (nothing asks for a deletion, and
`suspendAccount` has no route). A login that verified the old password issues its session after a reset revoked
all. Two concurrent reset requests leave two live links, where
`identity.repository.ts:303` says only the latest mail is live. An enrolment that read no credential
wipes one confirmed since, and what is confirmed need not be the secret that was proved
(`two-factor.repository.ts:44-51`). Two registrations of one address at once: one meets the unique index
and gets a 500. A link opened again, or in two tabs, is said to have failed although the address is
confirmed. "Sent" is shown on a lost connection and on a 500 alike (`AuthForms.tsx:330-338`), and after a second
mail was refused for its rate (`verify-email/route.ts:60-63`). A customer with a second factor is sent to the
console's page (`AuthForms.tsx:190` says one never sees that branch), and no page calls the endpoints of the second factor.
`SignOutButton` leaves the page though the sign-out failed.

Analytics, limits, access. A push whose answer was lost is sent again by the client of Redis
(`redis-connection.ts:39`), and an LPUSH that had landed then counts one visit twice; `EachViewOnce` is about what was
pushed. `redis-analytics-buffer.ts:21` says the cap drops the newest views; LPUSH with
LTRIM drops the oldest. A second invitation deleted between the read of the survivors and
their insert costs the batch. A batch that is wholly unreadable ends the run early; the last flush of a
worker that shuts down exits the process although a timer's flush may still hold a batch. The limiter is in memory, per process, where
`sliding-window-rate-limiter.ts:11-14` and `docs/04:425` speak of Redis. The plan is not a ceiling: creations that count
together exceed it, and so do expired invitations republished and suspensions lifted, which
count nothing. docs/09 §3.2 asks for the owner's verified address, `can.ts:141` for the
actor's; §3.4 promises 404 for others' resources, and staff and viewers get a 403 for rows they may see; §6 says
every action of the console is audited, and the record of a verification or a moderation is
written after the effect and may fail. Editors may upload by `can`, but the media row then has
the editor for its owner.

Provisioning. `inspectEnvFile` uses a constant of another function, so a check with
`--env-file` throws; it calls `noop` a problem even with `PILOT_NO_EMAIL`. A service's own `sync: false` is sent as the
string "undefined" (`render-provision.mjs:540-561`). The preflight does not look at links, and a drift is
reported with "Nothing further was done" although groups before it in the loop may have been created. The check
accepts `smtp`, `resend` without its key in a group, inline media without `CRON_SECRET`, values its schema calls malformed, and a
service's own literals. Both blueprints name one group `zfaf-secrets`.

### Bounds

Where one instance would be too large, a run is a few *sittings*, chosen once in the initial state, each with
what it leaves out; the properties are checked in all of them.

`publication`: either three requests of any kind on two invitations and two addresses, with no clock, which is what
the races need (two that collide and one that set the scene, or a publish, a moderation and a
second publish); or two requests that publish, pause or suspend, two sweepers and a limit of one, so that a sweep has to leave a row
behind, and a clock of two instants, so that a row becomes due while requests are in flight; or a first publication
already recorded, which four steps of a publish reach, with two more requests and one visit.
Requests are made in their order, the first about the first invitation. They are used once, so a run ends; hence
`CHECK_DEADLOCK FALSE`, here and in the other modules. `Shelf = 2` lets a copy be fresh, old, and gone.

`rsvp` ("replies"): two guests and three requests, so that a submission, a second one and a correction with the
first link meet, or two removals of one reply; parties of 0 and 1 (an edit may write
attending with nobody) tell the three counters apart; the rules change at any moment;
`Window = 0` and two instants put a correction in time and too late. "pages": one guest, a page with the script and one
without, two posts within a day, rules that stand still, and everything that may fail. "crowd": three posts while nothing
fails, so that each budget is spent: they are 2, 2 and 1 where the code has 5, 20 and 30, and windows of 1, 2 and 1 ticks;
the order of the three limits is not the code's, so that the human check is reached at all.

`autosave`: two tabs, two fields of two values, two edits in all, one fault (a connection lost or a tab closed) and one explicit flush: enough for a
conflict with and without a shared field, a save repeated after a lost answer, an edit
behind a save in flight and a restoration over a draft that moved on. The same safety
properties were also checked once with three edits (2.3 million states with symmetry, two minutes).

`builder`: five sittings from a new draft and from an advanced one. Lists: three edits of events and the gallery, an undo
and a redo, a save at any point. Fields: two edits of any other control and two undos. Apart: two edits, one of another device,
one lost answer. Publishing: two edits, an undo, another device, a lost answer, a publication. Following: two edits, a reload of either page.
Three events and two images are the lists' limits, so that one is met; three operations a batch; a history of two, so that its
oldest entry goes.

`media`: one asset with one derivative, two requests, two runs (a reclaimed job or an inline
run beside a queued one), both modes, two attempts, one fault. `sign_in` (1.25 million states): three requests of
seven kinds over one open session, a threshold of two failures; two of them beside a browser, after another that
may have mailed a link; or one login, one open session and three requests about the factor, two time steps: a factor removed and set up again needs
three. `analytics` (3.9 million states): three views of one visitor, two invitations, two flushes, and every cap at
two, so that the third view overflows; two days; one failure, which may be a push sent again. Symmetry there is sound, the properties being safety. `account`
(2.8 million states): for the plan, three creations and a plan of one, so that two or all three insert at once; three keys over a Map of two, so that keys are
evicted; a clock of three instants with windows of one and two; for the rights, one request and two changes; a request reads nothing
another writes but the session it may end, and the proofs are for any number.

`provisioning` (150 thousand states): the two committed blueprints and one with a key nobody can send, with two stops (a refusal that
is misread counts as one) and one intervention, once with nothing started and once with nothing deleted; and, undisturbed, whatever the check
accepts of 2592 variants of the larger one: 56, of which 15 boot once completed, so that `CheckedBlueprintBoots` is about something.

### Fairness

Requests of `Publication` need none: every liveness property there holds although any
request may be abandoned at any step. In `GuestPage`, the server goes on with a request that has arrived and the database with
its transaction (weak fairness of `Serve`: PostgreSQL queues waiters for a row lock, and there are finitely
many), and a browser learns of an answer or of a lost connection; nothing says that a connection holds or that a
guest waits. The sweeps of `Publication`'s run assume that each sweeper takes its next step (both are
run again and again by a timer or cron) and, strongly, that a sweeper which keeps reaching its UPDATE
is not killed there each time. In `Autosave` timers fire, requests are served in the end, and
answers are handled; the user's edits, choices and restorations, and explicit flushes, are not
fair, and faults are bounded: after the last one, each edit must settle. `EdgeFairness` assumes
that time passes at the cache and that the origin answers a request it has taken up. In `MediaLifecycle` the steps of runs, requests and scheduled
jobs go on, a worker takes its jobs, BullMQ reclaims stalled jobs and forgets finished ones, and minutes
pass; days, faults, and what users do are not fair.
In `Provisioning` an operator dispatches a run again as long as one is needed and a run's own steps go on, people reconcile a group that
has drifted; stops and interventions are bounded: after the last one, the account must become complete.
`Builder`, `SignInPages`, `Analytics`, `Access` and the limits state no liveness and assume no fairness.

## Proofs

A listed theorem holds for every value of the constants. The ones that name a property of a run are the
run's property, proved; the others say that the types hold, or that one module's steps are
another's.

**`PublicationProofs`**, for any set of invitations, addresses, requests and guests and any clock:

- `TypeCorrect`: `Spec => []TypeOK`;
- `VersionsAreImmutable`: `Spec => VersionsAppendOnly`;
- `PublicPageIsWellDefined`: `Spec => [](PointerResolves /\ LiveSlugsUnique)`;
- `RedirectsArrive`: `Spec => []RedirectReachesItsInvitation`;
- `PublishesOwnTheirVersions`: `Spec => []EachPublishOwnsItsVersion`;
- `SweepsSpareTheRepublished`: `Spec => SweepHonoursRepublish`;
- `SuspensionsHold`: `Spec => SuspensionHoldsOnceQuiet`;
- `EdgeChangesNoRow`: `EdgeSpec => Spec`, so that all of the above holds behind the cache;
- `KillSwitchHolds`: `EdgeSpec => SuspendedStaysOffEdge`.

None of the first four is inductive as it stands. The strengthening `Served` adds two things.
`RequestsSound` says what a request carries between its steps, whatever ran since it read:
a commit's version number is at most one past the last (so that, together with the version
index, it is exactly one past it), a rollback's target exists, a transition
leads to PAUSED or SUSPENDED. `RetiredArePublished` says that the invitation behind a
retired address has a published version. The argument then goes by the five statements that write a row
(`WhoWritesRows`); everything else leaves the rows alone. `CommitAppends` and
`CommitRow` say what a commit does and are used by all the results. For `EachPublishOwnsItsVersion` the
invariant is `VersionsOwned`: a publish that committed owns the number it was told, that version is its
own document, and no other's request holds the number; a version, once appended, is never another's.
`SweepHonoursRepublish` needs that a sweep's instant is not ahead of the clock
(`SweepsBehind`): the statement that writes tests the expiry of the row as it is then, and a row
republished since is not due. The two about suspension are action properties and go by the same five writers: the
hypothesis that nobody decided before the suspension is exactly what rules out the overwriting write of the
finding below.

**`GuestProofs`** on `Rsvp` and `GuestPage`, for any finite set of guests, any set of requests and any rules:

- `RepliesTyped`: `Spec => []TypeOK`, where a counter is a natural number;
- `CountersNeverDrift`: `Spec => KeepsGuestBook`, the refinement of `GuestBook`;
- `RepliesAreTheirOwners`: `Spec => RepliesChangeByRight`;
- `PagesTyped`: `PagesSpec => []PagesTypeOK`;
- `PagesAreAWayToRsvp`: `PagesSpec => Spec`, so that the three results hold behind the form and the route;
- `GuestsAreToldTheTruth`: `PagesSpec => [](\A q \in Requests : Truthful(q))`.

The strengthening is `Ready`: whoever has read under the lock holds it, and what was read
is still there. So the delta a commit applies is measured from the row it replaces, and
`RecountMoves` says that a recount moves by exactly that delta (`SeatsSplit`: the seats
are those of the other guests and those of this one). Without the lock `Ready` fails, and so
does `KeepsGuestBook` in TLC. The abstract step is `CommitStep`; every other step stutters. `PagesSpec` is the
safety part of the specification the run checks. For the pages the invariant is `Journeys`: a post that is still being read
has not reached a transaction, and what is on its way back, or was shown, agrees with how the transaction ended.

**`AutosaveProofs`**, for any tabs, paths and values and any bounds:

- `AutosaveTyped`: `Spec => []TypeOK`;
- `NothingIsStranded`: `Spec => []WorkHasAClock`;
- `SavesUndoNothing`: `Spec => NoSaveUndoesAnother`;
- `QueueIsDurable`: `Spec => []DurableQueue`;
- `BasesAreTheServers`: `Spec => []BaseIsAServerDocument`.

The inductive invariant `IInv` is `Typed /\ Awaits /\ Clocks`. `Awaits` says a tab waits for at
most one answer, and only while it is saving; without it an answer could end a save it does not
belong to. `Clocks` adds to `WorkHasAClock` the part that survives an answer: what was typed behind
a save in flight has a debounce armed, or a flush waiting that will send it. Clearing `inFlight`
therefore leaves a clock for the rest, whichever answer comes. The step lemmas go by groups
of actions: the server's, the timers', the answers', the user's. `SavesUndoNothing` needs
no more than types: a write happens only where the base version is the row's
(`OnlyWritesWrite`), so the document it was computed from is the row's, and
the patch alone decides what changes. `QueueIsDurable` needs that a tab's local draft
already holds what is queued (`Covers`), after every step of every tab that is not just restoring one. For
`BasesAreTheServers` every document on its way has to be accounted for too: `Truths` says that a live
answer carries a document the server had at the version it names (`Told`), and so does the
server's side of every conflict (`Choices`).

**`BuilderProofs`**, for documents and lists of any length, any history, any number of operations in a patch and any
number of edits, saves, conflicts, reloads and publications:

- `TypesHold`: `Spec => []TypeOK`;
- `QueueRebuilds`: `Spec => []QueueRebuildsDocument`;
- `FrameIsCaughtUp`: `Spec => []FrameCatchesUp`;
- `UndoTravels`: `Spec => UndoIsTimeTravel`;
- `PublicationTakesTheScreen`: `Spec => PublishTakesTheScreen`;
- `ReadyIsPublishable`: `Spec => []ReadyMeansPublishable`;
- `CoalescingKeepsTheEdits`: a coalesced queue makes of a document what the queue made of it;
- `InvertTakesBack`: what the controls of the builder can do to a document, `Invert` takes back.

The last two are about every queue and every document, and the others rest on them. `ApplyPatch` is a recursive function
over the length of its patch: `AfterExists` shows that there is such a function, `StepsFacts` what it is at each step, and
`FromZero` is the induction, over the set of lengths for which a fact holds. Coalescing moves a replacement up to an
earlier one of the same field, past replacements of other fields: `ReplacedInPlace` says that this changes nothing as long as the
queue fits the document at all, which is why both the run and the theorem speak of a patch that was not refused.
`InverseOpFacts` is the inverse of one operation: where `RemoveOp` addressed an event by its position, the inverse adds it
there again, and lists before and after are compared place by place (`InsertRemoved`, `RemoveInserted`).

The invariant `IInv` is `TypeOK`, `Sound(tab)`, `InStep`, `Calm` and `InFrame`. `Sound` is about the engine alone: its
queue rebuilds its document; what parses is on the screen; and its history is a chain (`Chained`), each entry leading from
the document before it to the one after, and back. One step of undo is not enough for `UndoIsTimeTravel` to be inductive: the
step after it is only right if the entry below was. `InStep` says that the engine is never ahead of the server and has the
server's document at its own version, which a 409 and its three ends need. `Calm` accounts for what a publication that waits has
still to save, and `InFrame` for the one message of the channel that counts, the last.

`ReadyMeansPublishable` compares two renderings. The preview draws every event, untitled ones under a
placeholder; a publication sorts first, drops the untitled, and the renderer sorts again by another key. All of these
are arrangements of the positions of the owner's list. `ThenFiltered` and `ThenSorted` say that one after
another is one arrangement, with the ties in the order that the earlier ones left; so both renderings draw the titled
events in one order (`SameDrawing`), and a document with nothing missing passes the schema of a publication (`Publishable`).

**`MediaLifecycleProofs`**, for any assets, derivatives, requests, runs and faults:

- `MediaTyped`: `Spec => []TypeOK`;
- `ReadyMeansStored`: `Spec => []ReadyIsComplete`;
- `SweptLeavesNothing`: `Spec => []NoStrayBytes`;
- `DueWhenRemoved`: `Spec => OnlyDueIsRemoved`.

The invariant `Inv` has one part per question. `Shape`: a job that a run holds is active, one to be tried has
a try left. `InOrder`: nothing is under way before its asset is there to work on, or once the asset is `Over`. `Stored`: what the bucket holds by what
became of the asset, so nothing before the upload and after the removal, and every derivative without the original
once it is ready. An asset is `Over` when its deletion is past the retention, its upload was abandoned or it was removed.
`RunsStored`: what a run has uploaded so far is there while it works. `SweepsDue`: whatever a scheduled job
has listed is still `Over` when it gets to it, which is what makes a list read long ago safe to act upon.

**`TwoFactorProofs`**, for any finite sets of requests, devices and asks:

- `FactorTyped`: `Spec => []TypeOK`;
- `TokenOnce`: `Spec => []TokenRedeemedOnce`;
- `RevokedForGood`: `Spec => RevokedStaysRevoked`;
- `OneSessionPerCode`: `Spec => []CodeOpensOneSession`;
- `VerifiedByThisFactor`: `Spec => []AnsweredThisFactor`;
- `PagesAreAWayIn`: `PagesSpec => Spec`;
- `PagesTellTheTruth`: `PagesSpec => []DoneMeansDone`.

`IInv` adds to the types three facts. `AskShape` says what a request about the factor has read by each of its steps;
`TokensUsed` that the token of a reset past its `ConsumeToken` is used, so that a
second consumer of the same link finds nothing; `Opened` that a login between its steps has
no session yet, so that issuing one revives none. `CodesOnce` follows a code from its minting to the one
session or request that holds its proof: the recovery codes that are left are unspent, the last accepted time step is at least any
that was proved with, and a proof has one holder. `ThisFactor` says that a verified session answered the factor that
was confirmed then, and that a factor confirmed since is of a session that answered it. The pages
need that nothing a request was told is undone (`NeverUndone`) and that a page waits only for the request it
sent (`Awaits`).

**`GuestProofs`** on `Analytics`, for any views, visitors, invitations and flush runs and any sizes:

- `AnalyticsTyped`: `CountingSpec => []CountingTypeOK`;
- `NoViewTwiceNoneLost`: `CountingSpec => []EachViewOnce`;
- `UniqueVisitorsArePeople`: `CountingSpec => []UniquesArePeople`.

`Placed` says that a view is in the list once, in one run's batch or in the database, and only once pushed;
every failure moves it out of one of these and into none. `NoneLost` is the other half, with the
three things that excuse a loss. A second insert fails only if an invitation was deleted between the question who is alive and
the write, and another before it: `RunsKnow` keeps the first (a refused batch holds a view of a deleted invitation), so that one
deletion excuses nothing (`WriteSurvivorsInv`). `Salts` says that, as long as Redis keeps them, a day has one salt, no two days share one,
and every pushed view carries its day's: the hashes then match the people and days one to one (`HashNamesPersonAndDay`).

**`AccountProofs`** on `PlanLimits`, for any plan, any number of creations, any budgets and any size of the Map:

- `PlanOvershoot`: `CreationSpec => []OvershootIsBounded`;
- `NoDoubleQuota`: `CreationSpec => []QuotaHolds`;
- `PlanTyped`: `CreationSpec => []CreationTypeOK`, the cap of the Map included.

For the plan the inductive invariant, `CreationIInv`, is `Typed /\ PlacesTaken`: a request that was let in holds a place from its count
on, and the places held, with and without a row, are no more than the plan and the largest `overlap` together. A count that lets a request in
saw fewer rows than the plan allows, and `overlap` has since counted whoever was on the way; an insert only turns one kind of place into the
other; what becomes active again is among `returned`. For the quota it is `LimiterInv`: the Map holds a key once and
keeps its cap, every call let through was let through by now, and what the Map holds in the window that ends now is what was let through in it
(`Remembered`). `ConsumedMap` is the point where this could fail: the Map at its cap evicts a key, and never
the one it has just counted, because a key that is new comes last and one that is not adds none.

**`AccountProofs`** on `Access`, for any number of requests and of changes:

- `AccessTyped`: `Spec => []TypeOK`;
- `NothingGivenUnfounded`: `Spec => []GivenByRight`;
- `RefusalsRevealNothing`: `Spec => []RefusalTellsNothing`.

The invariant is `TypeOK`, that an owner has no membership row, and `Known(r)` for every
request: what a request under way has read is in `held[r]` (`Underway`), what was given was given
on it (`GivenOn`), what was refused likewise (`RefusedTo`). The acting request takes one
lemma per group of steps (`ArriveKnows`, `ReadsKnow`, `GateKnows`, `FindKnows` with
`CanIsEntitled`, which compares `can` with the matrix of docs/09, `ActKnows`, `EndsKnow`); all others go by `KeepsKnowing`, since
what a request remembers only grows and the role never changes.

**`ProvisioningProofs`**, for any blueprints, any editable variables, any number of stops and of interventions:

- `AppliedIsComplete`: `Spec => []AppliedMeansComplete`;
- `OnlyTheReviewedServes`: `Spec => []ServesWhatWasReviewed`;
- `CheckedBoots`: `Spec => []CheckedBlueprintBoots`.

The invariant is `AccountSound`, `RunSound` and, for a run during which nobody else was at the account, `Progress`.
`Progress` says of every resource the loop has passed that it is there, that a group among them holds the blueprint's
values or the run has reported a drift, and that a service among them has all its links or the run has reported a failed one;
while a service's links are being made, each is there or still to do. A run that says "Applied" has passed every resource and reported neither, which is
`Complete`. What a run found is kept to its end because its own steps only add (`HandledStays`), and a person's step ends the premise.
`AccountSound` says that a group holds at least what was spelled out, unchanged but where a person may edit, and that a service
holds its own variables. An environment is the service's own over those of the groups that are linked: when it parses, every group that is needed is in it
(`ParsedIsReviewed`), and the instance keeps that for as long as it serves. For `CheckedBlueprintBoots`, `CompletedIsFilled` says that in a
complete account an environment has, for every variable wired to the service, what the blueprint spells out or what was typed in; `CheckFacts` unfolds what a check without a problem has looked at, `CheckedIsForProduction` that the rules of
production apply, and the theorem goes variable by variable through what `parseEnv` may refuse.

The proofs assume what the modules declare of their constants, and TLC evaluates it in the runs:
`NeverAssumption` (the absent expiry is no number), `PublicationAssumption` (NULL is no slug, invitation or number; the bounds are numbers),
`RsvpAssumption` (finitely many guests; NULL is none of them), `DraftStoreAssumption`
(the initial value is one, `Unset` is not), `AutosaveAssumption` (the bounds are numbers), `NoDraftAssumption` (no local draft
is not a local draft), `MediaAssumption`, `SessionsAssumption` and `TwoFactorAssumption` (finitely many requests, devices and asks, with
distinct names; the threshold is positive), `AnalyticsAssumption` (NULL is no view; the sizes are positive),
`RateLimiterAssumption` and `PlanLimitsAssumption`
(limits and windows are positive; finitely many requests), `AccessAssumption` (the
requests are finitely many), `LimitsAssumption`, `HistoryAssumption` and `ProvisioningAssumption` (limits are numbers, and a
history has room for an entry), `NullAssumption` (null, what is missing and a refusal are none of a document's values), `SittingsAssumption` (the builder is
opened on a document), `ResourcesAssumption` and `VariablesAssumption` (what is said above of a blueprint), with those of `PublicEdge`, `GuestPage` and `SignInPages`.

Only model-checked: the liveness properties (`DueIsEventuallyExpired`, `EdgeCatchesUp`, `EveryGuestIsAnswered`,
`EveryEditSettles`, `InterruptedIsRetried`, `DueIsCollected` and `RerunsRepair`), since the prover has no rule for
fairness. Every other property of a run that passes is a theorem. What a recursive function computes is shown by induction over
its domain, with a set of numbers where the library's theorems take an operator, which no installed prover can instantiate.

## Not modelled

- Changes of password by a signed-in user, sliding expiry of sessions, what mails say.
- Entitlement overrides and upload quotas; titles, dates and visibility of an invitation.
- Markup, themes, calendar files, QR codes, the validation of a template's manifest: pure functions of a document.
- What Sharp does to an image; the worker's media sweep beside the route's.
- The availability check of an address while it is typed, the upload of an image in the builder's page.
- The countdown, music, gallery and scrolling of the public page; the dashboards, which show what they fetch; listing and export of replies.
- Storage, mail, logging and metrics adapters, and the deploy scripts other than provisioning: I/O without state of its own.

## Plan

1. The compositions that are missing: the builder over the steps of `Autosave`, the upload in the page over `MediaLifecycle`.
2. The safety half of the liveness properties that have one: a variant that each step of a flush or of a run does not increase.
3. The parts that are `partly` modelled in `PROJECT.json`, in the order of their hazards.
