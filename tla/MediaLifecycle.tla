---------------------------- MODULE MediaLifecycle --------------------------
(***************************************************************************)
(* The life of an uploaded image: the signed upload and its confirmation   *)
(* (core/src/media/usecases/upload-media.ts), the processing run           *)
(* (media-processing/src/process-media-job.ts) handed out inline or by the *)
(* queue, the owner's delete, the deletion of the invitation, and the      *)
(* scheduled jobs that redrive, sweep and purge.                           *)
(*                                                                         *)
(* Every write of media.repository.ts is by id and looks at no status, so  *)
(* each handler is a list of steps, one per await, between which all the   *)
(* others may run.  A date is the age that the queries compare it with.    *)
(* Quotas, authorisation, the upload policy and what an image looks like   *)
(* are left out.                                                           *)
(***************************************************************************)
EXTENDS Integers, FiniteSets

CONSTANTS
  Media,      \* ids of assets, all uploaded to one invitation
  Variants,   \* the derivatives written for an image
  Calls,      \* requests to complete or to delete, each made once
  Runs,       \* runs of processMediaJob in progress at once
  Modes,      \* the values of MEDIA_DISPATCH considered
  Attempts,   \* MEDIA_JOB_OPTIONS.attempts
  MaxFaults,  \* bound on crashes, storage failures and lost locks
  None

ASSUME MediaAssumption ==
  /\ IsFiniteSet(Media) /\ IsFiniteSet(Variants)
  /\ "original" \notin Variants
  /\ None \notin Media \cup Runs
  /\ Modes \subseteq {"inline", "queue"}
  /\ Attempts \in Nat \ {0}
  /\ MaxFaults \in Nat

VARIABLES
  mode,       \* MEDIA_DISPATCH of this deployment
  content,    \* what the bytes of each upload will turn out to be
  row,        \* the media_assets table
  objects,    \* objects[m]: what storage holds under the prefix of m
  invitation, \* the invitation, and the assets its published version shows
  call,       \* the requests in progress
  run,        \* the runs in progress
  job,        \* job[m]: the queue's job media-<m>
  sweep,      \* the scheduled jobs, each at one asset at a time
  faults

vars == <<mode, content, row, objects, invitation, call, run, job, sweep, faults>>

(* -------------------------------- the state ---------------------------- *)

\* "none" before the row is inserted, "gone" after it is deleted.
Statuses == {"none", "pending", "processing", "ready", "failed", "quarantined", "gone"}

\* How old a date is for the query that asks: 24 hours or 7 days.
Ages == {"never", "fresh", "old"}

Row == [status : Statuses, idle : BOOLEAN, created : Ages, deleted : Ages, orphaned : Ages]

Contents == {"good", "hostile", "broken", "oversize"}

Tasks == {"sweep-media", "redrive-media", "purge-orphaned-media"}

Call == [pc : {"new", "head", "mark", "dispatch", "softDelete", "done"}, m : Media \cup {None}]

Run == [pc : {"free", "load", "mark", "fetch", "process", "put", "delete", "complete"},
        m : Media \cup {None}, left : SUBSET Variants]

Free == [pc |-> "free", m |-> None, left |-> {}]

Job == [state : {"none", "waiting", "active", "completed", "failed"},
        tries : 0..Attempts, stalled : 0..1, run : Runs \cup {None}]

NoJob == [state |-> "none", tries |-> 0, stalled |-> 0, run |-> None]

Resting == [pc |-> "rest", m |-> None]

Sweep == [pc : {"rest", "stale", "purge", "orphan", "redrive", "row"}, m : Media \cup {None}]

Init ==
  /\ mode \in Modes
  /\ content \in [Media -> Contents]
  /\ row = [m \in Media |-> [status |-> "none", idle |-> FALSE, created |-> "never",
                             deleted |-> "never", orphaned |-> "never"]]
  /\ objects = [m \in Media |-> {}]
  /\ invitation = [status |-> "live", shows |-> {}]
  /\ call = [c \in Calls |-> [pc |-> "new", m |-> None]]
  /\ run = [r \in Runs |-> Free]
  /\ job = [m \in Media |-> NoJob]
  /\ sweep = [t \in Tasks |-> Resting]
  /\ faults = 0

Exists(m) == row[m].status \notin {"none", "gone"}

\* An update by id; it moves updatedAt.  Without a row, updateMany writes nothing
\* and update throws, which the steps that use it add.
Write(m, status) ==
  row' = IF Exists(m) THEN [row EXCEPT ![m].status = status, ![m].idle = FALSE] ELSE row

Fault == faults < MaxFaults /\ faults' = faults + 1

(* ------------------------- processing: who starts it ------------------- *)

Started(m) == [pc |-> "load", m |-> m, left |-> {}]

\* Slots are alike, so the next one is as good as any.
NextRun(r) == run[r].pc = "free" /\ r = CHOOSE free \in Runs : run[free].pc = "free"

NextCall(c) == call[c].pc = "new" /\ c = CHOOSE new \in Calls : call[new].pc = "new"

\* dispatchMediaProcessing: encode now, or add a job, which is a no-op while
\* a job of that id is kept.
Dispatch(m) ==
  \/ /\ mode = "inline"
     /\ \E r \in Runs : NextRun(r) /\ run' = [run EXCEPT ![r] = Started(m)]
     /\ UNCHANGED job
  \/ /\ mode = "queue"
     /\ job' = [job EXCEPT ![m] = IF @.state = "none" THEN [NoJob EXCEPT !.state = "waiting"]
                                                      ELSE @]
     /\ UNCHANGED run

\* A worker takes a waiting job.
Take(m, r) ==
  /\ job[m].state = "waiting" /\ NextRun(r)
  /\ job' = [job EXCEPT ![m].state = "active", ![m].run = r]
  /\ run' = [run EXCEPT ![r] = Started(m)]
  /\ UNCHANGED <<mode, content, row, objects, invitation, call, sweep, faults>>

\* The job after the run that holds it returns, or throws.
JobReturns(r) ==
  job' = [m \in Media |-> IF job[m].run = r THEN [job[m] EXCEPT !.state = "completed", !.run = None]
                                            ELSE job[m]]

JobThrows(r) ==
  job' = [m \in Media |->
    IF job[m].run # r THEN job[m]
    ELSE [job[m] EXCEPT !.run = None, !.tries = @ + 1,
                        !.state = IF job[m].tries + 1 < Attempts THEN "waiting" ELSE "failed"]]

\* maxStalledCount: an active job whose lock expired goes back once.
Reclaim(m) ==
  job' = [job EXCEPT ![m] = [@ EXCEPT !.run = None, !.stalled = 1,
                                      !.state = IF job[m].state = "active" /\ job[m].stalled = 0
                                                THEN "waiting" ELSE "failed"]]

\* The worker that held the job is dead.
Stalled(m) ==
  /\ job[m].state = "active" /\ job[m].run = None
  /\ Reclaim(m)
  /\ UNCHANGED <<mode, content, row, objects, invitation, call, run, sweep, faults>>

\* The lock expired under a run that is still going: there may now be two.
LockExpires(m) ==
  /\ job[m].state = "active" /\ job[m].run # None
  /\ Fault
  /\ Reclaim(m)
  /\ UNCHANGED <<mode, content, row, objects, invitation, call, run, sweep>>

\* removeOnComplete, removeOnFail.
Forget(m) ==
  /\ job[m].state \in {"completed", "failed"}
  /\ job' = [job EXCEPT ![m] = NoJob]
  /\ UNCHANGED <<mode, content, row, objects, invitation, call, run, sweep, faults>>

(* --------------------------- processMediaJob --------------------------- *)

Continue(r, pc) == run' = [run EXCEPT ![r].pc = pc] /\ UNCHANGED job

Return(r) == run' = [run EXCEPT ![r] = Free] /\ JobReturns(r)

\* On the inline path the caller swallows the error.
Throw(r) == run' = [run EXCEPT ![r] = Free] /\ JobThrows(r)

At(r, pc) ==
  /\ run[r].pc = pc
  /\ UNCHANGED <<mode, content, invitation, call, sweep>>

Load(r) == LET m == run[r].m IN
  /\ At(r, "load")
  /\ IF Exists(m) /\ row[m].status \notin {"ready", "quarantined"}
       THEN Continue(r, "mark") ELSE Return(r)
  /\ UNCHANGED <<row, objects, faults>>

MarkProcessing(r) == LET m == run[r].m IN
  /\ At(r, "mark")
  /\ IF Exists(m) THEN Continue(r, "fetch") ELSE Throw(r)
  /\ Write(m, "processing")
  /\ UNCHANGED <<objects, faults>>

\* A missing original is a transient error.
Fetch(r) == LET m == run[r].m IN
  /\ At(r, "fetch")
  /\ IF "original" \in objects[m] THEN Continue(r, "process") ELSE Throw(r)
  /\ UNCHANGED <<row, objects, faults>>

\* processor.process and scanner.scan, and the write that follows a refusal.
Process(r) == LET m == run[r].m IN
  /\ At(r, "process")
  /\ CASE content[m] = "good" ->
            /\ run' = [run EXCEPT ![r].pc = "put", ![r].left = Variants]
            /\ UNCHANGED <<row, job>>
       [] content[m] = "broken" -> Write(m, "failed") /\ Throw(r)
       [] OTHER -> Write(m, "quarantined") /\ (IF Exists(m) THEN Return(r) ELSE Throw(r))
  /\ UNCHANGED <<objects, faults>>

PutVariant(r) == LET m == run[r].m IN
  /\ At(r, "put")
  /\ IF run[r].left = {}
       THEN Continue(r, "delete") /\ UNCHANGED objects
       ELSE \E v \in run[r].left :
              /\ objects' = [objects EXCEPT ![m] = @ \cup {v}]
              /\ run' = [run EXCEPT ![r].left = @ \ {v}]
              /\ UNCHANGED job
  /\ UNCHANGED <<row, faults>>

\* Seeded fault: a failure to delete the original is logged and the run goes on.
DeleteOriginal_BestEffort(r) == LET m == run[r].m IN
  /\ At(r, "delete")
  /\ \/ objects' = [objects EXCEPT ![m] = @ \ {"original"}] /\ UNCHANGED faults
     \/ Fault /\ UNCHANGED objects
  /\ Continue(r, "complete")
  /\ UNCHANGED row

DeleteOriginal(r) == LET m == run[r].m IN
  /\ At(r, "delete")
  /\ objects' = [objects EXCEPT ![m] = @ \ {"original"}]
  /\ Continue(r, "complete")
  /\ UNCHANGED <<row, faults>>

CompleteProcessing(r) == LET m == run[r].m IN
  /\ At(r, "complete")
  /\ Write(m, "ready")
  /\ IF Exists(m) THEN Return(r) ELSE Throw(r)
  /\ UNCHANGED <<objects, faults>>

\* Storage or the database refuses a step of the run.  Where storage refused
\* to take a derivative or to give up the original, the row is marked failed.
StepFails(r) ==
  /\ run[r].pc # "free"
  /\ At(r, run[r].pc)
  /\ Fault
  /\ IF run[r].pc \in {"put", "delete"} THEN Write(run[r].m, "failed") ELSE UNCHANGED row
  /\ Throw(r)
  /\ UNCHANGED objects

\* The process that runs it goes away.
RunDies(r) ==
  /\ run[r].pc # "free"
  /\ At(r, run[r].pc)
  /\ Fault
  /\ run' = [run EXCEPT ![r] = Free]
  /\ job' = [m \in Media |-> IF job[m].run = r THEN [job[m] EXCEPT !.run = None] ELSE job[m]]
  /\ UNCHANGED <<row, objects>>

RunStep(r) ==
  \/ Load(r) \/ MarkProcessing(r) \/ Fetch(r) \/ Process(r)
  \/ PutVariant(r) \/ DeleteOriginal(r) \/ CompleteProcessing(r)

(* ------------------------- the owner and the browser ------------------- *)

\* requestUploadUrl, once it has decided to allow the upload.
RequestUpload(m) ==
  /\ row[m].status = "none" /\ invitation.status = "live"
  /\ row' = [row EXCEPT ![m].status = "pending", ![m].created = "fresh"]
  /\ UNCHANGED <<mode, content, objects, invitation, call, run, job, sweep, faults>>

\* The browser PUTs once, while the URL is good.
PutOriginal(m) ==
  /\ row[m].status = "pending" /\ row[m].created = "fresh"
  /\ objects' = [objects EXCEPT ![m] = @ \cup {"original"}]
  /\ UNCHANGED <<mode, content, row, invitation, call, run, job, sweep, faults>>

\* completeUpload: findById and transitionMedia.
Complete(c, m) ==
  /\ NextCall(c)
  /\ row[m].status \in {"pending", "processing", "failed"} /\ row[m].created = "fresh"
  /\ call' = [call EXCEPT ![c] = [pc |-> "head", m |-> m]]
  /\ UNCHANGED <<mode, content, row, objects, invitation, run, job, sweep, faults>>

\* storage.head: nothing there, or more than was signed for.
Head(c) == LET m == call[c].m IN
  /\ call[c].pc = "head"
  /\ IF "original" \in objects[m] /\ content[m] = "oversize"
       THEN Write(m, "quarantined") ELSE UNCHANGED row
  /\ call' = [call EXCEPT ![c].pc = IF "original" \in objects[m] /\ content[m] # "oversize"
                                    THEN "mark" ELSE "done"]
  /\ UNCHANGED <<mode, content, objects, invitation, run, job, sweep, faults>>

MarkComplete(c) ==
  /\ call[c].pc = "mark"
  /\ Write(call[c].m, "processing")
  /\ call' = [call EXCEPT ![c].pc = "dispatch"]
  /\ UNCHANGED <<mode, content, objects, invitation, run, job, sweep, faults>>

DispatchCompleted(c) ==
  /\ call[c].pc = "dispatch"
  /\ Dispatch(call[c].m)
  /\ call' = [call EXCEPT ![c].pc = "done"]
  /\ UNCHANGED <<mode, content, row, objects, invitation, sweep, faults>>

\* deleteMedia: findById and usage, then softDelete.
Delete(c, m) ==
  /\ NextCall(c)
  /\ Exists(m) /\ row[m].deleted = "never" /\ m \notin invitation.shows
  /\ call' = [call EXCEPT ![c] = [pc |-> "softDelete", m |-> m]]
  /\ UNCHANGED <<mode, content, row, objects, invitation, run, job, sweep, faults>>

SoftDelete(c) == LET m == call[c].m IN
  /\ call[c].pc = "softDelete"
  /\ row' = IF Exists(m) THEN [row EXCEPT ![m].deleted = "fresh", ![m].idle = FALSE] ELSE row
  /\ call' = [call EXCEPT ![c].pc = "done"]
  /\ UNCHANGED <<mode, content, objects, invitation, run, job, sweep, faults>>

CallStep(c) == Head(c) \/ MarkComplete(c) \/ DispatchCompleted(c) \/ SoftDelete(c)

CallDies(c) ==
  /\ call[c].pc \notin {"new", "done"}
  /\ Fault
  /\ call' = [call EXCEPT ![c].pc = "done"]
  /\ UNCHANGED <<mode, content, row, objects, invitation, run, job, sweep>>

(* ----------------------------- the invitation -------------------------- *)

\* Publishing looks at no asset: the draft may name any that was ever ready.  Only
\* a published invitation holds its images, so taking it down empties the set.
Publish(shows) ==
  /\ invitation.status = "live"
  /\ invitation' = [invitation EXCEPT !.shows = shows]
  /\ UNCHANGED <<mode, content, row, objects, call, run, job, sweep, faults>>

\* deleteInvitation: softDelete, then orphanByInvitation.
DeleteInvitation ==
  /\ invitation.status = "live"
  /\ invitation' = [status |-> "deleting", shows |-> {}]
  /\ UNCHANGED <<mode, content, row, objects, call, run, job, sweep, faults>>

OrphanByInvitation ==
  /\ invitation.status = "deleting"
  /\ invitation' = [invitation EXCEPT !.status = "deleted"]
  /\ row' = [m \in Media |->
       IF Exists(m) /\ row[m].orphaned = "never"
         THEN [row[m] EXCEPT !.orphaned = "fresh", !.idle = FALSE] ELSE row[m]]
  /\ UNCHANGED <<mode, content, objects, call, run, job, sweep, faults>>

\* The TODO at delete-invitation.ts:48: nothing will mark the assets later.
DiesBeforeOrphaning ==
  /\ invitation.status = "deleting"
  /\ Fault
  /\ invitation' = [invitation EXCEPT !.status = "deleted"]
  /\ UNCHANGED <<mode, content, row, objects, call, run, job, sweep>>

(* --------------------------- the scheduled jobs ------------------------ *)

\* Seeded fault: findStalePendingUploads goes by the date alone.
Due_AnyStatus(kind, m) ==
  CASE kind = "stale"   -> Exists(m) /\ row[m].created = "old"
    [] kind = "purge"   -> Exists(m) /\ row[m].deleted = "old"
    [] kind = "orphan"  -> Exists(m) /\ row[m].orphaned = "old"
    [] kind = "redrive" -> row[m].status = "processing" /\ row[m].deleted = "never" /\ row[m].idle

\* findStalePendingUploads, findPurgeableAssets, findOrphanedMedia, findStuckProcessing.
Due(kind, m) ==
  CASE kind = "stale"   -> row[m].status = "pending" /\ row[m].created = "old"
    [] kind = "purge"   -> Exists(m) /\ row[m].deleted = "old"
    [] kind = "orphan"  -> Exists(m) /\ row[m].orphaned = "old"
    [] kind = "redrive" -> row[m].status = "processing" /\ row[m].deleted = "never" /\ row[m].idle

\* Seeded fault: no redrive is scheduled, so a run that went away is never made again.
KindsOf_NoRedrive(t) == CASE t = "sweep-media"          -> {"stale", "purge"}
                          [] t = "redrive-media"        -> {}
                          [] t = "purge-orphaned-media" -> {"orphan"}

KindsOf(t) == CASE t = "sweep-media"          -> {"stale", "purge"}
                [] t = "redrive-media"        -> {"redrive"}
                [] t = "purge-orphaned-media" -> {"orphan"}

Select(t, m) ==
  /\ sweep[t].pc = "rest"
  /\ \E kind \in KindsOf(t) : Due(kind, m) /\ sweep' = [sweep EXCEPT ![t] = [pc |-> kind, m |-> m]]
  /\ UNCHANGED <<mode, content, row, objects, invitation, call, run, job, faults>>

Redrive(t) ==
  /\ sweep[t].pc = "redrive"
  /\ Dispatch(sweep[t].m)
  /\ sweep' = [sweep EXCEPT ![t] = Resting]
  /\ UNCHANGED <<mode, content, row, objects, invitation, call, faults>>

\* Seeded fault: the purge deletes the asset's own key, not its prefix.
EmptyStorage_OwnKey(t) == LET m == sweep[t].m IN
  /\ sweep[t].pc \in {"stale", "purge", "orphan"}
  /\ objects' = [objects EXCEPT ![m] = @ \ {"original"}]
  /\ sweep' = [sweep EXCEPT ![t].pc = "row"]
  /\ UNCHANGED <<mode, content, row, invitation, call, run, job, faults>>

\* Seeded fault: deleting a key that is not there counts as a failure.
EmptyStorage_MustExist(t) == LET m == sweep[t].m IN
  /\ sweep[t].pc \in {"stale", "purge", "orphan"}
  /\ objects' = [objects EXCEPT ![m] = IF sweep[t].pc = "purge" THEN {} ELSE @ \ {"original"}]
  /\ sweep' = [sweep EXCEPT ![t] = IF objects[m] = {} THEN Resting ELSE [pc |-> "row", m |-> m]]
  /\ UNCHANGED <<mode, content, row, invitation, call, run, job, faults>>

\* storage.delete of the original's key, or deletePrefix.
EmptyStorage(t) == LET m == sweep[t].m IN
  /\ sweep[t].pc \in {"stale", "purge", "orphan"}
  /\ objects' = [objects EXCEPT ![m] = IF sweep[t].pc = "purge" THEN {} ELSE @ \ {"original"}]
  /\ sweep' = [sweep EXCEPT ![t].pc = "row"]
  /\ UNCHANGED <<mode, content, row, invitation, call, run, job, faults>>

\* A row that is already gone is one more counted failure.
HardDelete(t) == LET m == sweep[t].m IN
  /\ sweep[t].pc = "row"
  /\ row' = IF Exists(m) THEN [row EXCEPT ![m].status = "gone"] ELSE row
  /\ sweep' = [sweep EXCEPT ![t] = Resting]
  /\ UNCHANGED <<mode, content, objects, invitation, call, run, job, faults>>

SweepStep(t) == Redrive(t) \/ EmptyStorage(t) \/ HardDelete(t)

\* The failure is counted and the next asset taken, or the process dies.
SweepFails(t) ==
  /\ sweep[t].pc # "rest"
  /\ Fault
  /\ sweep' = [sweep EXCEPT ![t] = Resting]
  /\ UNCHANGED <<mode, content, row, objects, invitation, call, run, job>>

(* ---------------------------------- time ------------------------------- *)

\* STUCK_PROCESSING_MINUTES without a write to the row.
GoesIdle(m) ==
  /\ row[m].status = "processing" /\ ~row[m].idle
  /\ row' = [row EXCEPT ![m].idle = TRUE]
  /\ UNCHANGED <<mode, content, objects, invitation, call, run, job, sweep, faults>>

\* Nothing that takes minutes is under way on m.
Quiet(m) ==
  /\ \A c \in Calls : call[c].m = m => call[c].pc = "done"
  /\ \A r \in Runs : run[r].m # m
  /\ \A t \in Tasks : sweep[t].m # m
  /\ job[m].state \notin {"waiting", "active"}

\* PENDING_UPLOAD_EXPIRY_HOURS, SOFT_DELETE_GRACE_DAYS, the threshold of 7 days:
\* longer than anything takes, and the first is the shortest.
DatePasses(m, date) ==
  /\ Quiet(m) /\ Exists(m)
  /\ row[m][date] = "fresh"
  /\ date # "created" => row[m].created = "old"
  /\ row' = [row EXCEPT ![m][date] = "old"]
  /\ UNCHANGED <<mode, content, objects, invitation, call, run, job, sweep, faults>>

Owner ==
  \/ \E m \in Media : RequestUpload(m) \/ PutOriginal(m)
  \/ \E c \in Calls, m \in Media : Complete(c, m) \/ Delete(c, m)
  \/ \E c \in Calls : CallStep(c) \/ CallDies(c)
  \/ \E shows \in SUBSET {m \in Media : row[m].status = "ready"} : Publish(shows)   \* or unpublish: {}
  \/ DeleteInvitation \/ OrphanByInvitation \/ DiesBeforeOrphaning

Processing ==
  \/ \E r \in Runs : RunStep(r) \/ StepFails(r) \/ RunDies(r)
  \/ \E m \in Media, r \in Runs : Take(m, r)
  \/ \E m \in Media : Stalled(m) \/ LockExpires(m) \/ Forget(m)

Scheduled ==
  \/ \E t \in Tasks, m \in Media : Select(t, m)
  \/ \E t \in Tasks : SweepStep(t) \/ SweepFails(t)

Time == \E m \in Media : GoesIdle(m) \/ \E date \in {"created", "deleted", "orphaned"} : DatePasses(m, date)

Next == Owner \/ Processing \/ Scheduled \/ Time

Spec == Init /\ [][Next]_vars

\* A run, a request and a scheduled job that are under way go on; the worker
\* takes its jobs, BullMQ reclaims the stalled and forgets the finished ones;
\* the scheduler keeps calling each job; minutes pass.
Fairness ==
  /\ \A r \in Runs : WF_vars(RunStep(r))
  /\ \A c \in Calls : WF_vars(CallStep(c))
  /\ \A m \in Media : /\ WF_vars(\E r \in Runs : Take(m, r))
                      /\ WF_vars(Stalled(m)) /\ WF_vars(Forget(m)) /\ WF_vars(GoesIdle(m))
  /\ \A t \in Tasks : WF_vars(SweepStep(t)) /\ \A m \in Media : WF_vars(Select(t, m))

FairSpec == Spec /\ Fairness

(* -------------------------------- properties --------------------------- *)

\* Every variable keeps its shape.
TypeOK ==
  /\ mode \in Modes
  /\ content \in [Media -> Contents]
  /\ row \in [Media -> Row]
  /\ objects \in [Media -> SUBSET (Variants \cup {"original"})]
  /\ invitation \in [status : {"live", "deleting", "deleted"}, shows : SUBSET Media]
  /\ call \in [Calls -> Call]
  /\ run \in [Runs -> Run]
  /\ job \in [Media -> Job]
  /\ sweep \in [Tasks -> Sweep]
  /\ faults \in 0..MaxFaults

\* An asset is ready only once all its derivatives are stored and the original,
\* which carries what the camera wrote, is gone (process-media-job.ts:134-157),
\* whatever runs twice, fails or dies on the way.
ReadyIsComplete ==
  \A m \in Media : row[m].status = "ready" =>
    /\ "original" \notin objects[m]
    /\ row[m].deleted # "old" => objects[m] = Variants

\* No bytes are left behind a row that the sweep removed (manage-media.ts:88), and none
\* come back later.  The purge of a deleted invitation's assets is another matter.
NoStrayBytes ==
  \A m \in Media : row[m].status \in {"none", "gone"} /\ row[m].orphaned # "old" => objects[m] = {}

\* A row is removed only while its asset is abandoned, deleted or orphaned for long
\* enough: no asset in use is swept by a decision taken earlier.
OnlyDueIsRemoved ==
  [][\A m \in Media : Exists(m) /\ row'[m].status = "gone" =>
        \/ row[m].status = "pending" /\ row[m].created = "old"
        \/ "old" \in {row[m].deleted, row[m].orphaned}]_vars

Interrupted(m) ==
  row[m].status = "processing" /\ row[m].deleted = "never" /\ "original" \in objects[m]

\* An upload whose run never finished is tried again until it is settled, as long as
\* there is an original to read (manage-media.ts:168-184, ADR-0023).
InterruptedIsRetried == \A m \in Media : Interrupted(m) ~> ~Interrupted(m)

\* What is due for removal is removed.
DueIsCollected ==
  \A m \in Media : Due("stale", m) \/ Due("purge", m) \/ Due("orphan", m) ~> ~Exists(m)

=============================================================================
