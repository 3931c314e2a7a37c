------------------------- MODULE MediaLifecycleProofs -------------------------
(***************************************************************************)
(* Proofs about MediaLifecycle, for any number of assets, derivatives,     *)
(* requests, runs and faults.                                              *)
(***************************************************************************)
EXTENDS MediaLifecycle, TLAPS

(* ------------------------------ the invariant -------------------------- *)

\* What is under way is about an asset; a job that a run holds is active, and one that is
\* still to be tried has a try left.
Shape ==
  /\ \A r \in Runs : run[r].pc # "free" <=> run[r].m # None
  /\ \A c \in Calls : call[c].pc \notin {"new", "done"} => call[c].m \in Media
  /\ \A t \in Tasks : sweep[t].pc # "rest" <=> sweep[t].m # None
  /\ \A m \in Media : job[m].run # None => job[m].state = "active"
  /\ \A m \in Media : job[m].state \in {"waiting", "active"} => job[m].tries < Attempts

\* Processing has been asked for, and has not come to an end.
Handed(m) ==
  \/ \E r \in Runs : run[r].m = m
  \/ \E c \in Calls : call[c].pc = "dispatch" /\ call[c].m = m
  \/ job[m].state \in {"waiting", "active"}
  \/ \E t \in Tasks : sweep[t].pc = "redrive" /\ sweep[t].m = m

\* Or is about to be asked for.
Busy(m) == Handed(m) \/ \E c \in Calls : call[c].pc \in {"head", "mark"} /\ call[c].m = m

Deleting(m) == \E c \in Calls : call[c].pc = "softDelete" /\ call[c].m = m

Abandoned(m) == row[m].status = "pending" /\ row[m].created = "old"

Removed(m) == row[m].status = "gone" /\ row[m].orphaned # "old"

\* Nothing will happen to its bytes but their removal.
Over(m) == row[m].deleted = "old" \/ Abandoned(m) \/ Removed(m)

\* Nothing is under way before it can be.
InOrder ==
  \A m \in Media :
    /\ row[m].status = "none" =>
         /\ ~Busy(m) /\ ~Deleting(m) /\ \A t \in Tasks : sweep[t].m # m
         /\ row[m].created = "never" /\ row[m].deleted = "never" /\ row[m].orphaned = "never"
    /\ row[m].status = "pending" => ~Handed(m)
    /\ row[m].deleted = "old" => row[m].created = "old" /\ ~Deleting(m)
    /\ Over(m) => ~Busy(m)

\* What storage holds, by what became of the asset.
Stored ==
  \A m \in Media :
    /\ row[m].status = "none" \/ Removed(m) => objects[m] = {}
    /\ row[m].status = "pending" => objects[m] \subseteq {"original"}
    /\ row[m].status = "ready" =>
         /\ "original" \notin objects[m]
         /\ row[m].deleted # "old" => objects[m] = Variants

\* What a run has stored so far stays stored while it runs.
RunsStored ==
  \A r \in Runs :
    /\ run[r].pc = "put" => Variants \ run[r].left \subseteq objects[run[r].m]
    /\ run[r].pc \in {"delete", "complete"} => Variants \subseteq objects[run[r].m]
    /\ run[r].pc = "complete" => "original" \notin objects[run[r].m]

\* A scheduled job removes what is due, also by the time it does.
SweepsDue ==
  \A t \in Tasks : \A m \in Media : sweep[t].m = m =>
    /\ sweep[t].pc = "stale" => Abandoned(m) \/ row[m].status = "gone"
    /\ sweep[t].pc = "purge" => row[m].deleted = "old"
    /\ sweep[t].pc = "orphan" => row[m].orphaned = "old"
    /\ sweep[t].pc = "row" =>
         \/ row[m].status = "gone" \/ row[m].orphaned = "old"
         \/ objects[m] = {} /\ (row[m].deleted = "old" \/ Abandoned(m))

Inv == TypeOK /\ Shape /\ InOrder /\ Stored /\ RunsStored /\ SweepsDue

(* --------------------------------- types ------------------------------- *)

\* What the assumption says of the names that the steps compare.
LEMMA NamesApart ==
  /\ None \notin Media /\ None \notin Runs /\ "original" \notin Variants
  /\ Attempts \in Nat \ {0} /\ MaxFaults \in Nat
  BY MediaAssumption

Written == {"processing", "ready", "failed", "quarantined"}

\* An update by id changes the status of an asset that has a row, and no date of it.
LEMMA WriteStep ==
  ASSUME row \in [Media -> Row], NEW m \in Media, NEW status \in Written, Write(m, status)
  PROVE  /\ row' \in [Media -> Row]
         /\ \A x \in Media : x # m => row'[x] = row[x]
         /\ row'[m].created = row[m].created /\ row'[m].deleted = row[m].deleted
         /\ row'[m].orphaned = row[m].orphaned
         /\ Exists(m) => row'[m].status = status
         /\ ~Exists(m) => row'[m] = row[m]
BY DEF Write, Row, Statuses, Written, Exists

\* What a step of run r does to the runs and to the jobs.
RunMoved(r) ==
  /\ run' \in [Runs -> Run]
  /\ \A s \in Runs : s # r => run'[s] = run[s]
  /\ run'[r] = Free \/ (run'[r].m = run[r].m /\ run'[r].pc # "free")
  /\ job' \in [Media -> Job]
  /\ \A m \in Media :
       \/ job'[m] = job[m]
       \/ /\ job[m].state = "active" /\ job[m].run = r /\ job'[m].run = None
          /\ job'[m].state = "waiting" => job'[m].tries < Attempts
          /\ job'[m].state = "active" => job'[m].tries = job[m].tries

\* A run that goes on, or ends, moves itself and its own job alone.
LEMMA ContinueStep ==
  ASSUME TypeOK, Shape, NEW r \in Runs, run[r].pc # "free",
         NEW pc \in {"mark", "fetch", "process", "put", "delete", "complete"}, Continue(r, pc)
  PROVE  /\ RunMoved(r)
         /\ run'[r].pc = pc /\ run'[r].m = run[r].m /\ run'[r].left = run[r].left
BY DEF TypeOK, Run, RunMoved, Continue

\* A run that returns, or throws, leaves its slot free.
LEMMA ReturnStep ==
  ASSUME TypeOK, Shape, NEW r \in Runs, Return(r) \/ Throw(r)
  PROVE  RunMoved(r) /\ run'[r] = Free
<1>1. run' = [run EXCEPT ![r] = Free] /\ Free \in Run
  BY DEF Return, Throw, Free, Run
<1>2. /\ run' \in [Runs -> Run] /\ run'[r] = Free
      /\ \A s \in Runs : s # r => run'[s] = run[s]
  BY <1>1 DEF TypeOK
<1>3. ASSUME JobReturns(r), NEW m \in Media
      PROVE  /\ job'[m] \in Job
             /\ \/ job'[m] = job[m]
                \/ job[m].run = r /\ job'[m].run = None /\ job'[m].state = "completed"
  BY <1>3 DEF JobReturns, TypeOK, Job
<1>4. ASSUME JobThrows(r), NEW m \in Media
      PROVE  /\ job'[m] \in Job
             /\ \/ job'[m] = job[m]
                \/ /\ job[m].run = r /\ job'[m].run = None
                   /\ \/ job'[m].state = "waiting" /\ job'[m].tries < Attempts
                      \/ job'[m].state = "failed"
  <2>1. CASE job[m].run # r
    BY <1>4, <2>1 DEF JobThrows, TypeOK
  <2>2. CASE job[m].run = r
    <3>1. job[m].tries \in Nat /\ job[m].tries < Attempts /\ job[m] \in Job
      BY <2>2, NamesApart DEF Shape, TypeOK, Job
    <3>2. /\ job'[m].run = None /\ job'[m].tries = job[m].tries + 1
          /\ job'[m].state = IF job[m].tries + 1 < Attempts THEN "waiting" ELSE "failed"
          /\ job'[m] = [state |-> job'[m].state, tries |-> job[m].tries + 1,
                        stalled |-> job[m].stalled, run |-> None]
      BY <1>4, <2>2, <3>1 DEF JobThrows, Job
    <3>3. job[m].tries + 1 \in 0..Attempts
      BY <3>1, NamesApart
    <3> QED BY <2>2, <3>1, <3>2, <3>3 DEF Job
  <2> QED BY <2>1, <2>2
<1>5. /\ job' \in [Media -> Job]
      /\ \A m \in Media : job'[m] = job[m] \/ (/\ job[m].run = r /\ job'[m].run = None
                                               /\ job'[m].state # "active"
                                               /\ job'[m].state = "waiting" => job'[m].tries < Attempts)
  <2>1. job' = [m \in Media |-> job'[m]]
    BY DEF Return, Throw, JobReturns, JobThrows
  <2>2. \A m \in Media : job'[m] \in Job
    BY <1>3, <1>4 DEF Return, Throw
  <2> QED BY <1>3, <1>4, <2>1, <2>2 DEF Return, Throw
<1>6. \A m \in Media : job[m].run = r => job[m].state = "active"
  BY NamesApart DEF Shape
<1> QED BY <1>2, <1>5, <1>6 DEF RunMoved

(* --------------------------- a run under way --------------------------- *)

\* A step of a run puts no asset under way that was not.
LEMMA RunFrame ==
  ASSUME TypeOK, Shape, NEW r \in Runs, run[r].pc # "free", RunMoved(r), UNCHANGED <<call, sweep>>
  PROVE  /\ Shape'
         /\ \A x \in Media : /\ Handed(x)' => Handed(x)
                             /\ Busy(x)' => Busy(x)
                             /\ Deleting(x)' <=> Deleting(x)
<1>1. \A s \in Runs : run'[s] = run[s] \/ (s = r /\ (run'[s] = Free \/ (run'[s].m = run[s].m /\ run'[s].pc # "free")))
  BY DEF RunMoved
<1>2. Free.m = None /\ Free.pc = "free"
  BY DEF Free
<1>3. Shape'
  <2>1. \A s \in Runs : run'[s].pc # "free" <=> run'[s].m # None
    BY <1>1, <1>2 DEF Shape
  <2>2. \A m \in Media : job'[m].run # None => job'[m].state = "active"
    BY DEF Shape, RunMoved
  <2>3. \A m \in Media : job'[m].state \in {"waiting", "active"} => job'[m].tries < Attempts
    <3>1. ASSUME NEW m \in Media, job'[m].state \in {"waiting", "active"} PROVE job'[m].tries < Attempts
      <4>1. CASE job'[m] = job[m]
        BY <3>1, <4>1 DEF Shape
      <4>2. CASE job'[m] # job[m]
        BY <3>1, <4>2 DEF Shape, RunMoved
      <4> QED BY <4>1, <4>2
    <3> QED BY <3>1
  <2> QED BY <2>1, <2>2, <2>3 DEF Shape
<1>4. ASSUME NEW x \in Media, NEW s \in Runs, run'[s].m = x PROVE run[s].m = x
  BY <1>1, <1>2, <1>4, NamesApart
<1>5. ASSUME NEW x \in Media, job'[x].state \in {"waiting", "active"} PROVE job[x].state \in {"waiting", "active"}
  BY <1>5 DEF RunMoved
<1>6. \A x \in Media : Handed(x)' => Handed(x)
  BY <1>4, <1>5 DEF Handed
<1> QED BY <1>3, <1>6 DEF Busy, Deleting

\* While an asset is being processed it is not removed, and its upload is over.
LEMMA RunningAsset ==
  ASSUME Inv, NEW r \in Runs, run[r].pc # "free"
  PROVE  /\ run[r].m \in Media /\ Handed(run[r].m)
         /\ ~Over(run[r].m) /\ row[run[r].m].status \notin {"none", "pending"}
<1>1. run[r].m \in Media
  BY DEF Inv, Shape, TypeOK, Run
<1>2. Handed(run[r].m) /\ Busy(run[r].m)
  BY <1>1 DEF Handed, Busy
<1> QED BY <1>1, <1>2 DEF Inv, InOrder

\* A run may add derivatives and take the original away, and write the status of a row
\* that is there.
LEMMA RunKeeps ==
  ASSUME Inv, NEW r \in Runs, run[r].pc # "free", RunMoved(r),
         UNCHANGED <<mode, content, invitation, call, sweep>>, faults' \in 0..MaxFaults,
         NEW m \in Media, m = run[r].m,
         row' \in [Media -> Row], \A x \in Media : x # m => row'[x] = row[x],
         row'[m].created = row[m].created, row'[m].deleted = row[m].deleted,
         row'[m].orphaned = row[m].orphaned,
         row'[m].status = row[m].status \/ (Exists(m) /\ row'[m].status \in Written),
         objects' \in [Media -> SUBSET (Variants \cup {"original"})],
         \A x \in Media : x # m => objects'[x] = objects[x],
         objects[m] \ {"original"} \subseteq objects'[m], objects'[m] \subseteq objects[m] \cup Variants,
         row'[m].status = "ready" /\ row[m].status # "ready" =>
           objects' = objects /\ Variants \subseteq objects[m] /\ "original" \notin objects[m],
         run'[r].pc = "put" => Variants \ run'[r].left \subseteq objects'[m],
         run'[r].pc \in {"delete", "complete"} => Variants \subseteq objects'[m],
         run'[r].pc = "complete" => "original" \notin objects'[m]
  PROVE  Inv'
<1>1. /\ TypeOK /\ Shape /\ InOrder /\ Stored /\ RunsStored /\ SweepsDue
      /\ Handed(m) /\ Busy(m) /\ ~Over(m) /\ row[m].status \notin {"none", "pending"}
  BY RunningAsset DEF Inv, Busy
<1>2. TypeOK'
  BY <1>1 DEF TypeOK, RunMoved
<1>3. /\ Shape'
      /\ \A x \in Media : /\ Handed(x)' => Handed(x)
                          /\ Busy(x)' => Busy(x)
                          /\ Deleting(x)' <=> Deleting(x)
  BY <1>1, RunFrame
<1>4. row'[m].status \notin {"none", "pending"} /\ ~Over(m)' /\ (row'[m].status = "gone" <=> row[m].status = "gone")
  BY <1>1 DEF Over, Abandoned, Removed, Written, Exists
<1>5. \A x \in Media : Over(x)' <=> Over(x)
  BY <1>1, <1>4 DEF Over, Abandoned, Removed
<1>6. InOrder'
  BY <1>1, <1>3, <1>4, <1>5 DEF InOrder
<1>7. Stored'
  <2>1. ASSUME row'[m].status = "ready"
        PROVE  "original" \notin objects'[m] /\ objects'[m] = Variants
    <3>1. CASE row[m].status = "ready"
      <4>1. "original" \notin objects[m] /\ objects[m] = Variants
        BY <1>1, <3>1 DEF Stored, Over
      <4>2. objects'[m] \subseteq Variants /\ Variants \subseteq objects'[m]
        BY <4>1, NamesApart
      <4> QED BY <4>2, NamesApart
    <3>2. CASE row[m].status # "ready"
      <4>1. objects'[m] = objects[m] /\ Variants \subseteq objects[m] /\ "original" \notin objects[m]
        BY <2>1, <3>2
      <4>2. objects[m] \subseteq Variants \cup {"original"}
        BY <1>1 DEF TypeOK
      <4> QED BY <4>1, <4>2
    <3> QED BY <3>1, <3>2
  <2>2. ~Removed(m)' /\ row'[m].status \notin {"none", "pending"}
    BY <1>4 DEF Over
  <2>3. ASSUME NEW x \in Media, x # m PROVE Removed(x)' <=> Removed(x)
    BY <2>3 DEF Removed
  <2> QED BY <1>1, <2>1, <2>2, <2>3 DEF Stored
<1>8. RunsStored'
  <2>1. ASSUME NEW s \in Runs, s # r
        PROVE  /\ run'[s].pc = "put" => Variants \ run'[s].left \subseteq objects'[run'[s].m]
               /\ run'[s].pc \in {"delete", "complete"} => Variants \subseteq objects'[run'[s].m]
               /\ run'[s].pc = "complete" => "original" \notin objects'[run'[s].m]
    <3>1. run'[s] = run[s] /\ (run[s].pc # "free" => run[s].m \in Media)
      BY <1>1, <2>1 DEF RunMoved, Shape, TypeOK, Run
    <3>2. CASE run[s].m = m
      BY <1>1, <3>1, <3>2, NamesApart DEF RunsStored
    <3>3. CASE run[s].m # m
      BY <1>1, <3>1, <3>3 DEF RunsStored
    <3> QED BY <3>2, <3>3
  <2>2. run'[r].pc # "free" => run'[r].m = m
    BY DEF RunMoved, Free
  <2> QED BY <2>1, <2>2 DEF RunsStored
<1>9. SweepsDue'
  <2>1. ~Abandoned(m) /\ row[m].deleted # "old"
    BY <1>1 DEF Over
  <2>2. \A x \in Media : x # m => (Abandoned(x)' <=> Abandoned(x))
    BY DEF Abandoned
  <2>3. ASSUME NEW t \in Tasks, NEW x \in Media, sweep'[t].m = x
        PROVE  /\ sweep'[t].pc = "stale" => Abandoned(x)' \/ row'[x].status = "gone"
               /\ sweep'[t].pc = "purge" => row'[x].deleted = "old"
               /\ sweep'[t].pc = "orphan" => row'[x].orphaned = "old"
               /\ sweep'[t].pc = "row" =>
                    \/ row'[x].status = "gone" \/ row'[x].orphaned = "old"
                    \/ objects'[x] = {} /\ (row'[x].deleted = "old" \/ Abandoned(x)')
    <3>1. CASE x = m
      BY <1>1, <1>4, <2>1, <2>3, <3>1 DEF SweepsDue
    <3>2. CASE x # m
      BY <1>1, <2>2, <2>3, <3>2 DEF SweepsDue
    <3> QED BY <3>1, <3>2
  <2> QED BY <2>3 DEF SweepsDue
<1> QED BY <1>2, <1>3, <1>6, <1>7, <1>8, <1>9 DEF Inv

\* Every step of a run keeps the invariant, also the last of one that fails or dies.
LEMMA RunInv ==
  ASSUME Inv, NEW r \in Runs, RunStep(r) \/ StepFails(r) \/ RunDies(r)
  PROVE  Inv'
<1>0. run[r].pc # "free"
  BY DEF RunStep, Load, MarkProcessing, Fetch, Process, PutVariant, DeleteOriginal, CompleteProcessing,
         At, StepFails, RunDies
<1>1. PICK m \in Media : m = run[r].m
  BY <1>0, RunningAsset
<1>2. /\ TypeOK /\ Shape /\ RunsStored /\ row \in [Media -> Row] /\ faults \in 0..MaxFaults
      /\ objects \in [Media -> SUBSET (Variants \cup {"original"})]
  BY DEF Inv, TypeOK
\* Nothing is stored.
<1>3. ASSUME RunMoved(r), UNCHANGED <<mode, content, invitation, call, sweep, objects>>,
             faults' \in 0..MaxFaults,
             row' = row \/ \E status \in Written : Write(m, status) /\
                             (status = "ready" => run[r].pc = "complete"),
             run'[r].pc \notin {"put", "delete", "complete"}
      PROVE  Inv'
  <2>1. CASE row' = row
    BY <1>0, <1>1, <1>2, <1>3, <2>1, RunKeeps
  <2>2. ASSUME NEW status \in Written, Write(m, status), status = "ready" => run[r].pc = "complete"
        PROVE  Inv'
    <3>1. /\ row' \in [Media -> Row]
          /\ \A x \in Media : x # m => row'[x] = row[x]
          /\ row'[m].created = row[m].created /\ row'[m].deleted = row[m].deleted
          /\ row'[m].orphaned = row[m].orphaned
          /\ Exists(m) => row'[m].status = status
          /\ ~Exists(m) => row'[m] = row[m]
      BY <1>2, <2>2, WriteStep
    <3>2. row'[m].status = "ready" /\ row[m].status # "ready" =>
            Variants \subseteq objects[m] /\ "original" \notin objects[m]
      BY <1>1, <1>2, <2>2, <3>1 DEF RunsStored
    <3>3. row'[m].status = row[m].status \/ (Exists(m) /\ row'[m].status \in Written)
      BY <3>1
    <3> QED BY <1>0, <1>1, <1>2, <1>3, <3>1, <3>2, <3>3, RunKeeps
  <2> QED BY <1>3, <2>1, <2>2
<1>4. CASE Load(r)
  <2>1. RunMoved(r) /\ run'[r].pc \in {"mark", "free"}
    BY <1>0, <1>2, <1>4, ContinueStep, ReturnStep DEF Load, Free
  <2> QED BY <1>2, <1>3, <1>4, <2>1 DEF Load, At
<1>5. CASE MarkProcessing(r)
  <2>1. RunMoved(r) /\ run'[r].pc \in {"fetch", "free"}
    BY <1>0, <1>2, <1>5, ContinueStep, ReturnStep DEF MarkProcessing, Free
  <2> QED BY <1>1, <1>2, <1>3, <1>5, <2>1 DEF MarkProcessing, At, Written
<1>6. CASE Fetch(r)
  <2>1. RunMoved(r) /\ run'[r].pc \in {"process", "free"}
    BY <1>0, <1>2, <1>6, ContinueStep, ReturnStep DEF Fetch, Free
  <2> QED BY <1>2, <1>3, <1>6, <2>1 DEF Fetch, At
<1>7. CASE Process(r)
  <2>1. CASE content[m] = "good"
    <3>1. /\ run' = [run EXCEPT ![r].pc = "put", ![r].left = Variants]
          /\ UNCHANGED <<row, job, objects, faults>>
      BY <1>1, <1>7, <2>1 DEF Process
    <3> DEFINE mid == [run EXCEPT ![r].pc = "put"]
    <3>2. /\ mid \in [Runs -> Run] /\ \A s \in Runs : s # r => mid[s] = run[s]
          /\ mid[r].pc = "put" /\ mid[r].m = run[r].m
      BY <1>2 DEF TypeOK, Run
    <3>3. run' = [mid EXCEPT ![r].left = Variants]
      BY <3>1
    <3> HIDE DEF mid
    <3>4. /\ run' \in [Runs -> Run] /\ \A s \in Runs : s # r => run'[s] = run[s]
          /\ run'[r].pc = "put" /\ run'[r].m = run[r].m /\ run'[r].left = Variants
      BY <3>2, <3>3 DEF Run
    <3>5. RunMoved(r)
      BY <1>2, <3>1, <3>4 DEF RunMoved, TypeOK
    <3> QED BY <1>0, <1>1, <1>2, <1>7, <3>1, <3>4, <3>5, RunKeeps DEF Process, At
  <2>2. CASE content[m] # "good"
    <3>1. /\ Return(r) \/ Throw(r)
          /\ Write(m, "failed") \/ Write(m, "quarantined")
          /\ UNCHANGED <<objects, faults>>
      BY <1>1, <1>7, <2>2 DEF Process
    <3>2. RunMoved(r) /\ run'[r].pc = "free"
      BY <1>2, <3>1, ReturnStep DEF Free
    <3> QED BY <1>2, <1>3, <1>7, <3>1, <3>2 DEF Process, At, Written
  <2> QED BY <2>1, <2>2
<1>8. CASE PutVariant(r)
  <2>1. CASE run[r].left = {}
    <3>1. RunMoved(r) /\ run'[r].pc = "delete" /\ UNCHANGED <<row, objects, faults>>
      BY <1>0, <1>2, <1>8, <2>1, ContinueStep DEF PutVariant
    <3>2. Variants \subseteq objects[m]
      BY <1>1, <1>2, <1>8, <2>1 DEF PutVariant, At, RunsStored
    <3> QED BY <1>0, <1>1, <1>2, <1>8, <3>1, <3>2, RunKeeps DEF PutVariant, At
  <2>2. CASE run[r].left # {}
    <3>1. PICK v \in run[r].left :
            /\ objects' = [objects EXCEPT ![m] = @ \cup {v}]
            /\ run' = [run EXCEPT ![r].left = @ \ {v}]
            /\ UNCHANGED job
      BY <1>1, <1>8, <2>2 DEF PutVariant
    <3>2. run[r] \in Run /\ run[r].pc = "put"
      BY <1>2, <1>8 DEF TypeOK, PutVariant, At
    <3>3. run[r].left \subseteq Variants
      BY <3>2 DEF Run
    <3>5. /\ run' \in [Runs -> Run] /\ \A s \in Runs : s # r => run'[s] = run[s]
          /\ run'[r].pc = "put" /\ run'[r].m = run[r].m /\ run'[r].left = run[r].left \ {v}
      BY <1>2, <3>1, <3>2, <3>3 DEF TypeOK, Run
    <3>4. RunMoved(r)
      BY <1>2, <3>1, <3>5 DEF RunMoved, TypeOK
    <3>6. /\ objects' \in [Media -> SUBSET (Variants \cup {"original"})]
          /\ \A x \in Media : x # m => objects'[x] = objects[x]
          /\ objects'[m] = objects[m] \cup {v}
      BY <1>2, <3>1, <3>3
    <3>7. Variants \ run'[r].left \subseteq objects'[m]
      BY <1>1, <1>2, <3>2, <3>3, <3>5, <3>6 DEF RunsStored
    <3>8. UNCHANGED <<row, faults, mode, content, invitation, call, sweep>>
      BY <1>8 DEF PutVariant, At
    <3> QED BY <1>0, <1>1, <1>2, <3>3, <3>4, <3>5, <3>6, <3>7, <3>8, RunKeeps
  <2> QED BY <2>1, <2>2
<1>9. CASE DeleteOriginal(r)
  <2>1. /\ RunMoved(r) /\ run'[r].pc = "complete" /\ run[r].pc = "delete"
        /\ UNCHANGED <<row, faults, mode, content, invitation, call, sweep>>
    BY <1>0, <1>2, <1>9, ContinueStep DEF DeleteOriginal, At
  <2>2. /\ objects' \in [Media -> SUBSET (Variants \cup {"original"})]
        /\ \A x \in Media : x # m => objects'[x] = objects[x]
        /\ objects'[m] = objects[m] \ {"original"}
    BY <1>1, <1>2, <1>9 DEF DeleteOriginal
  <2>3. Variants \subseteq objects'[m]
    BY <1>1, <1>2, <2>1, <2>2, NamesApart DEF RunsStored
  <2> QED BY <1>0, <1>1, <1>2, <2>1, <2>2, <2>3, RunKeeps
<1>10. CASE CompleteProcessing(r)
  <2>1. RunMoved(r) /\ run'[r].pc = "free"
    BY <1>2, <1>10, ReturnStep DEF CompleteProcessing, Free
  <2> QED BY <1>1, <1>2, <1>3, <1>10, <2>1 DEF CompleteProcessing, At, Written
<1>11. CASE StepFails(r)
  <2>1. RunMoved(r) /\ run'[r].pc = "free"
    BY <1>2, <1>11, ReturnStep DEF StepFails, Free
  <2>2. faults' \in 0..MaxFaults
    BY <1>2, <1>11, NamesApart DEF StepFails, Fault
  <2> QED BY <1>1, <1>3, <1>11, <2>1, <2>2 DEF StepFails, At, Written
<1>12. CASE RunDies(r)
  <2>1. run' = [run EXCEPT ![r] = Free] /\ Free \in Run /\ run'[r] = Free
    BY <1>2, <1>12 DEF RunDies, Free, Run, TypeOK
  <2>2. \A x \in Media : job'[x] = job[x] \/ (job[x].run = r /\ job'[x] = [job[x] EXCEPT !.run = None])
    BY <1>12 DEF RunDies
  <2>3. job' = [x \in Media |-> job'[x]]
    BY <1>12 DEF RunDies
  <2>4. \A x \in Media : job'[x] = job[x] \/
          (/\ job[x].run = r /\ job'[x].run = None /\ job[x].state = "active"
           /\ job'[x].state = job[x].state /\ job'[x].tries = job[x].tries /\ job'[x] \in Job)
    <3>1. ASSUME NEW x \in Media, job[x].run = r, job'[x] = [job[x] EXCEPT !.run = None]
          PROVE  /\ job'[x].run = None /\ job[x].state = "active"
                 /\ job'[x].state = job[x].state /\ job'[x].tries = job[x].tries /\ job'[x] \in Job
      <4>1. job[x] \in Job /\ job[x].state = "active"
        BY <1>2, <3>1, NamesApart DEF TypeOK, Shape
      <4> QED BY <3>1, <4>1 DEF Job
    <3> QED BY <2>2, <3>1
  <2>5. RunMoved(r)
    BY <1>2, <2>1, <2>3, <2>4 DEF RunMoved, TypeOK
  <2>6. faults' \in 0..MaxFaults /\ run'[r].pc = "free"
    BY <1>2, <1>12, <2>1, NamesApart DEF RunDies, Fault, Free
  <2> QED BY <1>3, <1>12, <2>5, <2>6 DEF RunDies, At
<1> QED BY <1>4, <1>5, <1>6, <1>7, <1>8, <1>9, <1>10, <1>11, <1>12 DEF RunStep

(* ---------------------- requests, jobs and schedules ------------------- *)

\* A scheduled job takes up an asset that is due for what it does.
Taken(t, m) ==
  /\ sweep'[t].m = m /\ row[m].status # "none"
  /\ \/ sweep'[t].pc = "stale" /\ Abandoned(m)
     \/ sweep'[t].pc = "purge" /\ row[m].deleted = "old"
     \/ sweep'[t].pc = "orphan" /\ row[m].orphaned = "old"
     \/ sweep'[t].pc = "redrive"

\* A step that leaves storage alone, moves no run on, and writes no status but of an asset
\* whose upload is being completed.
LEMMA OtherKeeps ==
  ASSUME Inv, TypeOK', Shape', objects' = objects,
         \A r \in Runs : run'[r] = run[r] \/ run'[r].pc \notin {"put", "delete", "complete"},
         \A m \in Media :
           /\ row'[m].created = row[m].created /\ row'[m].deleted = row[m].deleted
           /\ row'[m].orphaned = row[m].orphaned
           /\ \/ row'[m].status = row[m].status
              \/ Busy(m) /\ Exists(m) /\ row'[m].status \in Written \ {"ready"},
         \A m \in Media : Busy(m)' => Busy(m) \/ (~Over(m) /\ row[m].status # "none"),
         \A m \in Media : Handed(m)' => Handed(m) \/ row'[m].status \notin {"none", "pending"},
         \A m \in Media : Deleting(m)' => Deleting(m) \/ (Exists(m) /\ row[m].deleted = "never"),
         \A t \in Tasks : sweep'[t] = sweep[t] \/ sweep'[t].m = None \/ \E m \in Media : Taken(t, m)
  PROVE  Inv'
<1>1. InOrder /\ Stored /\ RunsStored /\ SweepsDue
  BY DEF Inv
<1>2. \A m \in Media : /\ row'[m].status # row[m].status =>
                            ~Over(m) /\ row'[m].status \notin {"none", "pending", "gone", "ready"}
                       /\ row'[m].status = "none" <=> row[m].status = "none"
                       /\ row'[m].status = "gone" <=> row[m].status = "gone"
  BY <1>1 DEF InOrder, Written, Exists
<1>3. \A m \in Media : /\ Abandoned(m)' <=> Abandoned(m)
                       /\ Removed(m)' <=> Removed(m)
                       /\ Over(m)' <=> Over(m)
  BY <1>2 DEF Over, Abandoned, Removed
<1>4. InOrder'
  <2>1. ASSUME NEW m \in Media, row'[m].status = "none"
        PROVE  /\ ~Busy(m)' /\ ~Deleting(m)' /\ \A t \in Tasks : sweep'[t].m # m
               /\ row'[m].created = "never" /\ row'[m].deleted = "never" /\ row'[m].orphaned = "never"
    <3>1. row[m].status = "none" /\ ~Exists(m)
      BY <1>2, <2>1 DEF Exists
    <3> QED BY <1>1, <3>1, NamesApart DEF InOrder, Taken
  <2>2. ASSUME NEW m \in Media, row'[m].status = "pending" PROVE ~Handed(m)'
    BY <1>1, <1>2, <2>2 DEF InOrder
  <2>3. ASSUME NEW m \in Media, row'[m].deleted = "old" PROVE row'[m].created = "old" /\ ~Deleting(m)'
    BY <1>1, <2>3 DEF InOrder
  <2>4. ASSUME NEW m \in Media, Over(m)' PROVE ~Busy(m)'
    BY <1>1, <1>3, <2>4 DEF InOrder
  <2> QED BY <2>1, <2>2, <2>3, <2>4 DEF InOrder
<1>5. Stored'
  BY <1>1, <1>2, <1>3 DEF Stored
<1>6. RunsStored'
  BY <1>1 DEF RunsStored
<1>7. SweepsDue'
  <2>1. ASSUME NEW t \in Tasks, NEW m \in Media, sweep'[t].m = m
        PROVE  /\ sweep'[t].pc = "stale" => Abandoned(m)' \/ row'[m].status = "gone"
               /\ sweep'[t].pc = "purge" => row'[m].deleted = "old"
               /\ sweep'[t].pc = "orphan" => row'[m].orphaned = "old"
               /\ sweep'[t].pc = "row" =>
                    \/ row'[m].status = "gone" \/ row'[m].orphaned = "old"
                    \/ objects'[m] = {} /\ (row'[m].deleted = "old" \/ Abandoned(m)')
    <3>1. CASE sweep'[t] = sweep[t]
      BY <1>1, <1>2, <1>3, <2>1, <3>1 DEF SweepsDue
    <3>2. CASE Taken(t, m)
      BY <1>3, <2>1, <3>2 DEF Taken
    <3> QED BY <2>1, <3>1, <3>2, NamesApart DEF Taken
  <2> QED BY <2>1 DEF SweepsDue
<1> QED BY <1>4, <1>5, <1>6, <1>7 DEF Inv

\* The asset that processing is handed is the only one that is.
LEMMA DispatchStep ==
  ASSUME TypeOK, Shape, NEW m \in Media, Dispatch(m)
  PROVE  /\ run' \in [Runs -> Run] /\ job' \in [Media -> Job]
         /\ \A r \in Runs : run'[r] = run[r] \/ (run'[r].pc = "load" /\ run'[r].m = m)
         /\ \A x \in Media : job'[x] = job[x] \/
              (x = m /\ job'[x].state = "waiting" /\ job'[x].run = None /\ job'[x].tries = 0)
<1>1. Started(m) \in Run /\ [NoJob EXCEPT !.state = "waiting"] \in Job
      /\ Started(m).pc = "load" /\ Started(m).m = m
      /\ [NoJob EXCEPT !.state = "waiting"].state = "waiting"
      /\ [NoJob EXCEPT !.state = "waiting"].run = None /\ [NoJob EXCEPT !.state = "waiting"].tries = 0
  BY NamesApart DEF Started, Run, NoJob, Job
<1>2. CASE mode = "inline"
  BY <1>1, <1>2 DEF Dispatch, TypeOK
<1>3. CASE mode # "inline"
  <2>1. UNCHANGED run /\ \/ job' = [job EXCEPT ![m] = [NoJob EXCEPT !.state = "waiting"]]
                         \/ job' = [job EXCEPT ![m] = job[m]]
    BY <1>3 DEF Dispatch
  <2> QED BY <1>1, <2>1 DEF TypeOK
<1> QED BY <1>2, <1>3

\* What the runs and jobs of a step like that come to.
LEMMA HandedOver ==
  ASSUME TypeOK, Shape, NEW m \in Media, Handed(m),
         \A r \in Runs : run'[r] = run[r] \/ (run'[r].pc = "load" /\ run'[r].m = m),
         \A x \in Media : \/ job'[x] = job[x]
                          \/ /\ x = m \/ job'[x].state \notin {"waiting", "active"}
                             /\ job'[x].run # None => job'[x].state = "active"
                             /\ job'[x].state \in {"waiting", "active"} => job'[x].tries < Attempts,
         \A c \in Calls : call'[c] = call[c] \/ call'[c].pc = "done",
         \A t \in Tasks : sweep'[t] = sweep[t] \/ (sweep'[t].pc = "rest" /\ sweep'[t].m = None)
  PROVE  /\ Shape'
         /\ \A x \in Media : /\ Handed(x)' => Handed(x)
                             /\ Busy(x)' => Busy(x)
                             /\ Deleting(x)' => Deleting(x)
         /\ \A r \in Runs : run'[r] = run[r] \/ run'[r].pc \notin {"put", "delete", "complete"}
         /\ \A t \in Tasks : sweep'[t] = sweep[t] \/ sweep'[t].m = None
<1>1. ASSUME NEW x \in Media, Handed(x)' PROVE Handed(x)
  BY <1>1 DEF Handed
<1>2. Shape'
  BY NamesApart DEF Shape
<1> QED BY <1>1, <1>2 DEF Busy, Deleting

\* What is not touched at all.
LEMMA RowsSame ==
  ASSUME row' = row
  PROVE  \A m \in Media :
           /\ row'[m].created = row[m].created /\ row'[m].deleted = row[m].deleted
           /\ row'[m].orphaned = row[m].orphaned /\ row'[m].status = row[m].status
OBVIOUS

\* The faults stay within their bound.
LEMMA FaultTyped == ASSUME TypeOK, Fault PROVE faults' \in 0..MaxFaults
BY NamesApart DEF TypeOK, Fault

\* A job changes hands.
LEMMA JobInv ==
  ASSUME Inv, NEW m \in Media,
         Stalled(m) \/ LockExpires(m) \/ Forget(m) \/ \E r \in Runs : Take(m, r)
  PROVE  Inv'
<1>0. TypeOK /\ Shape
  BY DEF Inv
<1>1. ASSUME job' \in [Media -> Job], \A x \in Media : x # m => job'[x] = job[x],
             job'[m].state \in {"waiting", "active"} => job'[m].tries < Attempts /\ Handed(m),
             job'[m].run # None => job'[m].state = "active",
             run' \in [Runs -> Run], faults' \in 0..MaxFaults,
             \A r \in Runs : run'[r] = run[r] \/ (run'[r].pc = "load" /\ run'[r].m = m /\ Handed(m)),
             UNCHANGED <<mode, content, row, objects, invitation, call, sweep>>
      PROVE  Inv'
  <2>1. TypeOK'
    BY <1>0, <1>1 DEF TypeOK
  <2>2. /\ Shape'
        /\ \A x \in Media : /\ Handed(x)' => Handed(x)
                            /\ Busy(x)' => Busy(x)
                            /\ Deleting(x)' => Deleting(x)
        /\ \A r \in Runs : run'[r] = run[r] \/ run'[r].pc \notin {"put", "delete", "complete"}
    <3>1. Shape'
      BY <1>0, <1>1, NamesApart DEF Shape
    <3>2. \A x \in Media : Handed(x)' => Handed(x)
      BY <1>1 DEF Handed
    <3> QED BY <1>1, <3>1, <3>2 DEF Busy, Deleting
  <2> QED BY <1>1, <2>1, <2>2, RowsSame, OtherKeeps
<1>2. ASSUME NEW r \in Runs, Take(m, r) PROVE Inv'
  <2>1. Handed(m) /\ job[m] \in Job /\ job[m].tries < Attempts
    BY <1>0, <1>2 DEF Take, Handed, TypeOK, Shape
  <2> DEFINE j == [[job[m] EXCEPT !.state = "active"] EXCEPT !.run = r]
  <2>2. job' = [job EXCEPT ![m] = j]
    BY <1>2 DEF Take
  <2>3. j \in Job /\ j.state = "active" /\ j.tries = job[m].tries
    BY <2>1 DEF Job
  <2> HIDE DEF j
  <2>4. /\ job' \in [Media -> Job] /\ job'[m] = j /\ \A x \in Media : x # m => job'[x] = job[x]
    BY <1>0, <2>2, <2>3 DEF TypeOK
  <2>5. Started(m) \in Run /\ Started(m).pc = "load" /\ Started(m).m = m
    BY DEF Started, Run
  <2>6. run' \in [Runs -> Run] /\ \A s \in Runs : run'[s] = run[s] \/ (run'[s].pc = "load" /\ run'[s].m = m)
    BY <1>0, <1>2, <2>5 DEF Take, TypeOK
  <2> QED BY <1>0, <1>1, <1>2, <2>1, <2>3, <2>4, <2>6 DEF Take, TypeOK
<1>3. ASSUME Reclaim(m), job[m].state = "active", faults' \in 0..MaxFaults,
             UNCHANGED <<mode, content, row, objects, invitation, call, run, sweep>>
      PROVE  Inv'
  <2>1. Handed(m) /\ job[m] \in Job /\ job[m].tries < Attempts
    BY <1>0, <1>3 DEF Handed, TypeOK, Shape
  <2> DEFINE freed == [job[m] EXCEPT !.run = None]
             counted == [freed EXCEPT !.stalled = 1]
             state == IF job[m].state = "active" /\ job[m].stalled = 0 THEN "waiting" ELSE "failed"
             j == [counted EXCEPT !.state = state]
  <2>2. job' = [job EXCEPT ![m] = j]
    BY <1>3 DEF Reclaim
  <2>4. /\ freed \in Job /\ freed.run = None /\ freed.tries = job[m].tries
        /\ state \in {"waiting", "failed"}
    BY <2>1 DEF Job
  <2> HIDE DEF freed, state
  <2>5. counted \in Job /\ counted.run = None /\ counted.tries = job[m].tries
    BY <2>4 DEF Job
  <2> HIDE DEF counted
  <2>6. j \in Job /\ j.run = None /\ j.tries = job[m].tries
    BY <2>4, <2>5 DEF Job
  <2> HIDE DEF j
  <2>3. /\ job' \in [Media -> Job] /\ \A x \in Media : x # m => job'[x] = job[x]
        /\ job'[m].run = None /\ job'[m].tries = job[m].tries
    BY <1>0, <2>2, <2>6 DEF TypeOK
  <2> QED BY <1>0, <1>1, <1>3, <2>1, <2>3 DEF TypeOK
<1>4. ASSUME Forget(m) PROVE Inv'
  <2>1. /\ job' \in [Media -> Job] /\ \A x \in Media : x # m => job'[x] = job[x]
        /\ job'[m].run = None /\ job'[m].state = "none"
    BY <1>0, <1>4, NamesApart DEF Forget, TypeOK, Job, NoJob
  <2> QED BY <1>0, <1>1, <1>4, <2>1 DEF Forget, TypeOK
<1>5. ASSUME Stalled(m) PROVE Inv'
  BY <1>0, <1>3, <1>5 DEF Stalled, TypeOK
<1>6. ASSUME LockExpires(m) PROVE Inv'
  BY <1>0, <1>3, <1>6, FaultTyped DEF LockExpires
<1> QED BY <1>2, <1>4, <1>5, <1>6

\* A request goes on, or is given up.
LEMMA CallStepTyped ==
  ASSUME TypeOK, Shape, NEW c \in Calls, NEW m \in Media,
         NEW pc \in {"head", "mark", "dispatch", "softDelete", "done"},
         \/ call' = [call EXCEPT ![c] = [pc |-> pc, m |-> m]]
         \/ call' = [call EXCEPT ![c].pc = pc] /\ call[c].m = m
  PROVE  /\ call' \in [Calls -> Call] /\ call'[c].pc = pc /\ call'[c].m = m
         /\ \A d \in Calls : d # c => call'[d] = call[d]
<1>1. call \in [Calls -> Call] /\ call[c] \in Call
  BY DEF TypeOK
<1> DEFINE next == [call[c] EXCEPT !.pc = pc]
           made == [pc |-> pc, m |-> m]
<1>2. made \in Call /\ made.pc = pc /\ made.m = m
  BY DEF Call
<1>3. next \in Call /\ next.pc = pc /\ next.m = call[c].m
  BY <1>1 DEF Call
<1>4. \/ call' = [call EXCEPT ![c] = made]
      \/ call' = [call EXCEPT ![c] = next] /\ call[c].m = m
  OBVIOUS
<1> HIDE DEF made, next
<1> QED BY <1>1, <1>2, <1>3, <1>4

\* A request keeps it: the upload confirmed step by step, the delete asked for.
LEMMA CallInv ==
  ASSUME Inv, NEW c \in Calls,
         \/ Head(c) \/ MarkComplete(c) \/ DispatchCompleted(c) \/ CallDies(c)
         \/ \E m \in Media : Complete(c, m) \/ Delete(c, m)
  PROVE  Inv'
<1>0. TypeOK /\ Shape /\ InOrder /\ row \in [Media -> Row] /\ faults \in 0..MaxFaults
  BY DEF Inv, TypeOK
\* It leaves the runs and jobs to others.
<1>1. ASSUME NEW m \in Media, NEW pc \in {"head", "mark", "dispatch", "softDelete", "done"},
             \/ call' = [call EXCEPT ![c] = [pc |-> pc, m |-> m]]
             \/ call' = [call EXCEPT ![c].pc = pc] /\ call[c].m = m,
             UNCHANGED <<mode, content, objects, invitation, run, job, sweep>>,
             faults' \in 0..MaxFaults,
             pc \in {"head", "mark", "dispatch"} => Busy(m) \/ (~Over(m) /\ row[m].status # "none"),
             pc = "dispatch" => row'[m].status \notin {"none", "pending"},
             pc = "softDelete" => Exists(m) /\ row[m].deleted = "never",
             \/ row' = row
             \/ Busy(m) /\ \E status \in Written \ {"ready"} : Write(m, status)
      PROVE  Inv'
  <2>1. /\ call' \in [Calls -> Call] /\ call'[c].pc = pc /\ call'[c].m = m
        /\ \A d \in Calls : d # c => call'[d] = call[d]
    BY <1>0, <1>1, CallStepTyped
  <2>2. /\ row' \in [Media -> Row]
        /\ \A x \in Media :
             /\ row'[x].created = row[x].created /\ row'[x].deleted = row[x].deleted
             /\ row'[x].orphaned = row[x].orphaned
             /\ \/ row'[x].status = row[x].status
                \/ Busy(x) /\ Exists(x) /\ row'[x].status \in Written \ {"ready"}
    <3>1. CASE row' = row
      BY <1>0, <3>1
    <3>2. ASSUME Busy(m), NEW status \in Written \ {"ready"}, Write(m, status)
          PROVE  /\ row' \in [Media -> Row]
                 /\ \A x \in Media :
                      /\ row'[x].created = row[x].created /\ row'[x].deleted = row[x].deleted
                      /\ row'[x].orphaned = row[x].orphaned
                      /\ \/ row'[x].status = row[x].status
                         \/ Busy(x) /\ Exists(x) /\ row'[x].status \in Written \ {"ready"}
      <4>1. /\ row' \in [Media -> Row]
            /\ \A x \in Media : x # m => row'[x] = row[x]
            /\ row'[m].created = row[m].created /\ row'[m].deleted = row[m].deleted
            /\ row'[m].orphaned = row[m].orphaned
            /\ Exists(m) => row'[m].status = status
            /\ ~Exists(m) => row'[m] = row[m]
        BY <1>0, <3>2, WriteStep
      <4> QED BY <3>2, <4>1
    <3> QED BY <1>1, <3>1, <3>2
  <2>3. TypeOK'
    BY <1>0, <1>1, <2>1, <2>2 DEF TypeOK
  <2>4. Shape'
    BY <1>0, <1>1, <2>1 DEF Shape
  <2>5. \A x \in Media : Handed(x)' => Handed(x) \/ row'[x].status \notin {"none", "pending"}
    BY <1>1, <2>1 DEF Handed
  <2>6. \A x \in Media : /\ Busy(x)' => Busy(x) \/ (~Over(x) /\ row[x].status # "none")
                         /\ Deleting(x)' => Deleting(x) \/ (Exists(x) /\ row[x].deleted = "never")
    <3>1. ASSUME NEW x \in Media, x # m PROVE (Busy(x)' => Busy(x)) /\ (Deleting(x)' => Deleting(x))
      BY <1>1, <2>1, <3>1 DEF Busy, Handed, Deleting
    <3>2. CASE pc \in {"head", "mark", "dispatch"}
      BY <1>1, <2>1, <3>1, <3>2 DEF Deleting
    <3>3. CASE pc \notin {"head", "mark", "dispatch"}
      BY <1>1, <2>1, <3>1, <3>3 DEF Busy, Handed, Deleting
    <3> QED BY <3>2, <3>3
  <2> QED BY <1>1, <2>2, <2>3, <2>4, <2>5, <2>6, OtherKeeps DEF Inv
<1>2. ASSUME NEW m \in Media, Complete(c, m) PROVE Inv'
  <2>1. ~Over(m) /\ row[m].status # "none"
    BY <1>0, <1>2 DEF Complete, InOrder, Over, Abandoned, Removed
  <2> QED BY <1>0, <1>1, <1>2, <2>1 DEF Complete
<1>3. ASSUME NEW m \in Media, Delete(c, m) PROVE Inv'
  BY <1>0, <1>1, <1>3 DEF Delete
<1>4. ASSUME Head(c) PROVE Inv'
  <2>1. PICK m \in Media : m = call[c].m /\ Busy(m)
    BY <1>0, <1>4 DEF Head, Shape, Busy
  <2>2. PICK pc \in {"mark", "done"} : call' = [call EXCEPT ![c].pc = pc]
    BY <1>4 DEF Head
  <2>3. UNCHANGED <<mode, content, objects, invitation, run, job, sweep, faults>>
    BY <1>4 DEF Head
  <2>4. row' = row \/ \E status \in Written \ {"ready"} : Write(m, status)
    BY <1>4, <2>1 DEF Head, Written
  <2> QED BY <1>0, <1>1, <2>1, <2>2, <2>3, <2>4
<1>5. ASSUME MarkComplete(c) PROVE Inv'
  <2>1. PICK m \in Media : m = call[c].m /\ Busy(m)
    BY <1>0, <1>5 DEF MarkComplete, Shape, Busy
  <2>2. Write(m, "processing") /\ row[m].status # "none"
    BY <1>0, <1>5, <2>1 DEF MarkComplete, InOrder
  <2>3. row'[m].status \notin {"none", "pending"}
    BY <1>0, <2>2, WriteStep DEF Written, Exists
  <2> QED BY <1>0, <1>1, <1>5, <2>1, <2>2, <2>3 DEF MarkComplete, Written
<1>6. ASSUME DispatchCompleted(c) PROVE Inv'
  <2>1. PICK m \in Media : m = call[c].m /\ Handed(m) /\ Dispatch(m)
    BY <1>0, <1>6 DEF DispatchCompleted, Shape, Handed
  <2>2. /\ run' \in [Runs -> Run] /\ job' \in [Media -> Job]
        /\ \A r \in Runs : run'[r] = run[r] \/ (run'[r].pc = "load" /\ run'[r].m = m)
        /\ \A x \in Media : job'[x] = job[x] \/
             (x = m /\ job'[x].state = "waiting" /\ job'[x].run = None /\ job'[x].tries = 0)
    BY <1>0, <2>1, DispatchStep
  <2>3. call' = [call EXCEPT ![c].pc = "done"]
    BY <1>6 DEF DispatchCompleted
  <2>4. /\ call' \in [Calls -> Call]
        /\ \A d \in Calls : call'[d] = call[d] \/ call'[d].pc = "done"
    BY <1>0, <2>1, <2>3, CallStepTyped
  <2>5. UNCHANGED <<mode, content, row, objects, invitation, sweep, faults>>
    BY <1>6 DEF DispatchCompleted
  <2>6. TypeOK'
    BY <1>0, <2>2, <2>4, <2>5 DEF TypeOK
  <2>7. 0 < Attempts
    BY NamesApart
  <2>8. /\ Shape'
        /\ \A x \in Media : /\ Handed(x)' => Handed(x)
                            /\ Busy(x)' => Busy(x)
                            /\ Deleting(x)' => Deleting(x)
        /\ \A r \in Runs : run'[r] = run[r] \/ run'[r].pc \notin {"put", "delete", "complete"}
    BY <1>0, <2>1, <2>2, <2>4, <2>5, <2>7, HandedOver
  <2> QED BY <2>5, <2>6, <2>8, RowsSame, OtherKeeps
<1>7. ASSUME CallDies(c) PROVE Inv'
  <2>1. PICK m \in Media : m = call[c].m
    BY <1>0, <1>7 DEF CallDies, Shape
  <2> QED BY <1>0, <1>1, <1>7, <2>1, FaultTyped DEF CallDies
<1> QED BY <1>2, <1>3, <1>4, <1>5, <1>6, <1>7

\* The invitation is published, taken down or deleted: no asset is touched yet.
LEMMA InvitationInv ==
  ASSUME Inv, (\E shows \in SUBSET {m \in Media : row[m].status = "ready"} : Publish(shows))
              \/ DeleteInvitation \/ DiesBeforeOrphaning
  PROVE  Inv'
<1>0. TypeOK /\ Shape
  BY DEF Inv
<1>1. /\ invitation' \in [status : {"live", "deleting", "deleted"}, shows : SUBSET Media]
      /\ UNCHANGED <<mode, content, row, objects, call, run, job, sweep>>
      /\ faults' \in 0..MaxFaults
  BY <1>0, FaultTyped DEF Publish, DeleteInvitation, DiesBeforeOrphaning, TypeOK
<1>2. TypeOK'
  BY <1>0, <1>1 DEF TypeOK
<1>3. Shape'
  BY <1>0, <1>1 DEF Shape
<1>4. \A x \in Media : (Handed(x)' <=> Handed(x)) /\ (Busy(x)' <=> Busy(x)) /\ (Deleting(x)' <=> Deleting(x))
  BY <1>1 DEF Handed, Busy, Deleting
<1> QED BY <1>1, <1>2, <1>3, <1>4, RowsSame, OtherKeeps

\* A scheduled job takes up an asset, hands it on or lets go of it.
LEMMA SweepInv ==
  ASSUME Inv, NEW t \in Tasks, Redrive(t) \/ SweepFails(t) \/ \E m \in Media : Select(t, m)
  PROVE  Inv'
<1>0. TypeOK /\ Shape /\ InOrder
  BY DEF Inv
<1>1. Resting \in Sweep /\ Resting.pc = "rest" /\ Resting.m = None
  BY DEF Resting, Sweep
<1>2. ASSUME NEW m \in Media, Select(t, m) PROVE Inv'
  <2>1. PICK kind \in {"stale", "purge", "orphan", "redrive"} :
          Due(kind, m) /\ sweep' = [sweep EXCEPT ![t] = [pc |-> kind, m |-> m]]
    BY <1>2 DEF Select, KindsOf, Tasks
  <2>2. /\ sweep' \in [Tasks -> Sweep] /\ sweep'[t].pc = kind /\ sweep'[t].m = m
        /\ \A u \in Tasks : u # t => sweep'[u] = sweep[u]
    BY <1>0, <2>1 DEF TypeOK, Sweep
  <2>3. UNCHANGED <<mode, content, row, objects, invitation, call, run, job, faults>>
    BY <1>2 DEF Select
  <2>4. TypeOK' /\ Shape'
    BY <1>0, <2>2, <2>3, NamesApart DEF TypeOK, Shape
  <2>5. row[m].status # "none" /\ (kind = "redrive" => ~Over(m) /\ row[m].status = "processing")
    BY <1>0, <2>1 DEF Due, Exists, InOrder, Over, Abandoned, Removed
  <2>6. Taken(t, m)
    BY <2>1, <2>2, <2>5 DEF Taken, Due, Abandoned
  <2>7. \A x \in Media : /\ Handed(x)' => Handed(x) \/ (x = m /\ kind = "redrive")
                         /\ Deleting(x)' => Deleting(x)
    BY <2>2, <2>3 DEF Handed, Deleting
  <2>8. \A x \in Media : Busy(x)' => Busy(x) \/ (x = m /\ kind = "redrive")
    BY <2>3, <2>7 DEF Busy
  <2> QED BY <2>2, <2>3, <2>4, <2>5, <2>6, <2>7, <2>8, RowsSame, OtherKeeps
<1>3. ASSUME Redrive(t) PROVE Inv'
  <2>1. PICK m \in Media : m = sweep[t].m /\ Handed(m) /\ Dispatch(m)
    BY <1>0, <1>3 DEF Redrive, Shape, Handed, TypeOK, Sweep
  <2>2. /\ run' \in [Runs -> Run] /\ job' \in [Media -> Job]
        /\ \A r \in Runs : run'[r] = run[r] \/ (run'[r].pc = "load" /\ run'[r].m = m)
        /\ \A x \in Media : job'[x] = job[x] \/
             (x = m /\ job'[x].state = "waiting" /\ job'[x].run = None /\ job'[x].tries = 0)
    BY <1>0, <2>1, DispatchStep
  <2>3. /\ sweep' \in [Tasks -> Sweep]
        /\ \A u \in Tasks : sweep'[u] = sweep[u] \/ (sweep'[u].pc = "rest" /\ sweep'[u].m = None)
    BY <1>0, <1>1, <1>3 DEF Redrive, TypeOK
  <2>4. UNCHANGED <<mode, content, row, objects, invitation, call, faults>>
    BY <1>3 DEF Redrive
  <2>5. TypeOK'
    BY <1>0, <2>2, <2>3, <2>4 DEF TypeOK
  <2>6. 0 < Attempts
    BY NamesApart
  <2>7. /\ Shape'
        /\ \A x \in Media : /\ Handed(x)' => Handed(x)
                            /\ Busy(x)' => Busy(x)
                            /\ Deleting(x)' => Deleting(x)
        /\ \A r \in Runs : run'[r] = run[r] \/ run'[r].pc \notin {"put", "delete", "complete"}
        /\ \A u \in Tasks : sweep'[u] = sweep[u] \/ sweep'[u].m = None
    BY <1>0, <2>1, <2>2, <2>3, <2>4, <2>6, HandedOver
  <2> QED BY <2>4, <2>5, <2>7, RowsSame, OtherKeeps
<1>4. ASSUME SweepFails(t) PROVE Inv'
  <2>1. /\ sweep' \in [Tasks -> Sweep]
        /\ \A u \in Tasks : sweep'[u] = sweep[u] \/ (sweep'[u].pc = "rest" /\ sweep'[u].m = None)
        /\ UNCHANGED <<mode, content, row, objects, invitation, call, run, job>>
        /\ faults' \in 0..MaxFaults
    BY <1>0, <1>1, <1>4, FaultTyped DEF SweepFails, TypeOK
  <2>2. TypeOK' /\ Shape'
    BY <1>0, <2>1 DEF TypeOK, Shape
  <2>3. \A x \in Media : (Handed(x)' => Handed(x)) /\ (Deleting(x)' => Deleting(x))
    BY <2>1 DEF Handed, Deleting
  <2>4. \A x \in Media : Busy(x)' => Busy(x)
    BY <2>1, <2>3 DEF Busy
  <2> QED BY <2>1, <2>2, <2>3, <2>4, RowsSame, OtherKeeps
<1> QED BY <1>2, <1>3, <1>4

(* --------------------------- one asset at a time ------------------------ *)

\* Where no run and no job moves and requests and schedules at most end, nothing new is
\* under way.
LEMMA NothingStarts ==
  ASSUME TypeOK, Shape, UNCHANGED <<run, job>>,
         \A c \in Calls : call'[c] = call[c] \/ (call'[c].pc = "done" /\ call'[c].m = call[c].m),
         \A t \in Tasks : \/ sweep'[t] = sweep[t]
                          \/ sweep'[t].pc = "rest" /\ sweep'[t].m = None
                          \/ sweep'[t].pc = "row" /\ sweep'[t].m = sweep[t].m /\ sweep[t].m # None
  PROVE  /\ Shape'
         /\ \A x \in Media : /\ Handed(x)' => Handed(x)
                             /\ Busy(x)' => Busy(x)
                             /\ Deleting(x)' => Deleting(x)
<1>1. Shape'
  BY NamesApart DEF Shape
<1>2. ASSUME NEW x \in Media, Handed(x)' PROVE Handed(x)
  BY <1>2 DEF Handed
<1> QED BY <1>1, <1>2 DEF Busy, Deleting

\* What an asset that a step is about has to satisfy after it, the others being as they were.
Settled(m) ==
  /\ row[m].status # "none"
  /\ row[m].status = "pending" => ~Handed(m)
  /\ row[m].deleted = "old" => row[m].created = "old" /\ ~Deleting(m)
  /\ Over(m) => ~Busy(m)
  /\ Removed(m) => objects[m] = {}
  /\ row[m].status = "pending" => objects[m] \subseteq {"original"}
  /\ row[m].status = "ready" =>
       /\ "original" \notin objects[m]
       /\ row[m].deleted # "old" => objects[m] = Variants
  /\ \A r \in Runs : run[r].m = m =>
       /\ run[r].pc = "put" => Variants \ run[r].left \subseteq objects[m]
       /\ run[r].pc \in {"delete", "complete"} => Variants \subseteq objects[m]
       /\ run[r].pc = "complete" => "original" \notin objects[m]
  /\ \A t \in Tasks : sweep[t].m = m =>
       /\ sweep[t].pc = "stale" => Abandoned(m) \/ row[m].status = "gone"
       /\ sweep[t].pc = "purge" => row[m].deleted = "old"
       /\ sweep[t].pc = "orphan" => row[m].orphaned = "old"
       /\ sweep[t].pc = "row" =>
            \/ row[m].status = "gone" \/ row[m].orphaned = "old"
            \/ objects[m] = {} /\ (row[m].deleted = "old" \/ Abandoned(m))

\* Then the invariant holds of all.
LEMMA OneSettles ==
  ASSUME Inv, TypeOK', NEW m \in Media, UNCHANGED <<run, job>>,
         \A c \in Calls : call'[c] = call[c] \/ (call'[c].pc = "done" /\ call'[c].m = call[c].m),
         \A t \in Tasks : \/ sweep'[t] = sweep[t]
                          \/ sweep'[t].pc = "rest" /\ sweep'[t].m = None
                          \/ sweep'[t].pc = "row" /\ sweep'[t].m = m /\ sweep[t].m = m,
         \A x \in Media \ {m} : row'[x] = row[x] /\ objects'[x] = objects[x],
         Settled(m)'
  PROVE  Inv'
<1>1. TypeOK /\ Shape /\ InOrder /\ Stored /\ RunsStored /\ SweepsDue
  BY DEF Inv
<1>2. /\ Shape'
      /\ \A x \in Media : /\ Handed(x)' => Handed(x)
                          /\ Busy(x)' => Busy(x)
                          /\ Deleting(x)' => Deleting(x)
  BY <1>1, NothingStarts, NamesApart
<1>3. \A x \in Media \ {m} : /\ Abandoned(x)' <=> Abandoned(x)
                             /\ Removed(x)' <=> Removed(x)
                             /\ Over(x)' <=> Over(x)
  BY DEF Over, Abandoned, Removed
<1>4. InOrder'
  <2>1. ASSUME NEW x \in Media
        PROVE  /\ row'[x].status = "none" =>
                    /\ ~Busy(x)' /\ ~Deleting(x)' /\ \A t \in Tasks : sweep'[t].m # x
                    /\ row'[x].created = "never" /\ row'[x].deleted = "never"
                    /\ row'[x].orphaned = "never"
               /\ row'[x].status = "pending" => ~Handed(x)'
               /\ row'[x].deleted = "old" => row'[x].created = "old" /\ ~Deleting(x)'
               /\ Over(x)' => ~Busy(x)'
    <3>1. CASE x = m
      BY <3>1 DEF Settled
    <3>2. CASE x # m
      BY <1>1, <1>2, <1>3, <3>2, NamesApart DEF InOrder
    <3> QED BY <3>1, <3>2
  <2> QED BY <2>1 DEF InOrder
<1>5. Stored'
  <2>1. ASSUME NEW x \in Media
        PROVE  /\ row'[x].status = "none" \/ Removed(x)' => objects'[x] = {}
               /\ row'[x].status = "pending" => objects'[x] \subseteq {"original"}
               /\ row'[x].status = "ready" =>
                    /\ "original" \notin objects'[x]
                    /\ row'[x].deleted # "old" => objects'[x] = Variants
    <3>1. CASE x = m
      BY <3>1 DEF Settled
    <3>2. CASE x # m
      BY <1>1, <1>3, <3>2 DEF Stored
    <3> QED BY <3>1, <3>2
  <2> QED BY <2>1 DEF Stored
<1>6. RunsStored'
  <2>1. ASSUME NEW r \in Runs
        PROVE  /\ run'[r].pc = "put" => Variants \ run'[r].left \subseteq objects'[run'[r].m]
               /\ run'[r].pc \in {"delete", "complete"} => Variants \subseteq objects'[run'[r].m]
               /\ run'[r].pc = "complete" => "original" \notin objects'[run'[r].m]
    <3>1. CASE run[r].m = m
      BY <3>1 DEF Settled
    <3>2. CASE run[r].m # m /\ run[r].pc # "free"
      <4>1. run[r].m \in Media \ {m}
        BY <1>1, <3>2, NamesApart DEF Shape, TypeOK, Run
      <4> QED BY <1>1, <4>1 DEF RunsStored
    <3> QED BY <3>1, <3>2
  <2> QED BY <2>1 DEF RunsStored
<1>7. SweepsDue'
  <2>1. ASSUME NEW t \in Tasks, NEW x \in Media, sweep'[t].m = x
        PROVE  /\ sweep'[t].pc = "stale" => Abandoned(x)' \/ row'[x].status = "gone"
               /\ sweep'[t].pc = "purge" => row'[x].deleted = "old"
               /\ sweep'[t].pc = "orphan" => row'[x].orphaned = "old"
               /\ sweep'[t].pc = "row" =>
                    \/ row'[x].status = "gone" \/ row'[x].orphaned = "old"
                    \/ objects'[x] = {} /\ (row'[x].deleted = "old" \/ Abandoned(x)')
    <3>1. CASE x = m
      BY <2>1, <3>1 DEF Settled
    <3>2. CASE x # m
      <4>1. sweep'[t] = sweep[t]
        BY <2>1, <3>2, NamesApart
      <4> QED BY <1>1, <1>3, <2>1, <3>2, <4>1 DEF SweepsDue
    <3> QED BY <3>1, <3>2
  <2> QED BY <2>1 DEF SweepsDue
<1> QED BY <1>2, <1>4, <1>5, <1>6, <1>7 DEF Inv

\* What the invariant says of one asset.
LEMMA SettledBefore ==
  ASSUME Inv, NEW m \in Media, row[m].status # "none"
  PROVE  Settled(m)
BY DEF Inv, InOrder, Stored, RunsStored, SweepsDue, Settled

\* The upload of an asset: its row, its bytes.
LEMMA UploadInv ==
  ASSUME Inv, NEW m \in Media, RequestUpload(m) \/ PutOriginal(m)
  PROVE  Inv'
<1>1. TypeOK /\ Shape /\ InOrder /\ Stored /\ RunsStored /\ SweepsDue
  BY DEF Inv
<1>2. \A x \in Media : /\ Handed(x)' <=> Handed(x)
                       /\ Busy(x)' <=> Busy(x)
                       /\ Deleting(x)' <=> Deleting(x)
  BY DEF Handed, Busy, Deleting, RequestUpload, PutOriginal
<1>3. CASE RequestUpload(m)
  <2>0. row \in [Media -> Row] /\ row' = [row EXCEPT ![m].status = "pending", ![m].created = "fresh"]
    BY <1>1, <1>3 DEF TypeOK, RequestUpload
  <2>1. TypeOK'
    <3>1. row' \in [Media -> Row]
      BY <2>0 DEF Row, Statuses, Ages
    <3> QED BY <1>1, <1>3, <3>1 DEF TypeOK, RequestUpload
  <2>2. /\ row'[m].status = "pending" /\ row'[m].created = "fresh"
        /\ row'[m].deleted = "never" /\ row'[m].orphaned = "never" /\ objects'[m] = {}
        /\ ~Handed(m) /\ ~Busy(m) /\ ~Deleting(m) /\ \A t \in Tasks : sweep'[t].m # m
    BY <1>1, <1>3 DEF TypeOK, RequestUpload, Row, InOrder, Stored, Busy
  <2>3. \A r \in Runs : run'[r].m # m
    BY <1>2, <2>2 DEF Handed
  <2>4. Settled(m)'
    BY <1>2, <2>2, <2>3 DEF Settled, Over, Abandoned, Removed
  <2>5. \A x \in Media \ {m} : row'[x] = row[x] /\ objects'[x] = objects[x]
    BY <1>1, <1>3 DEF RequestUpload, TypeOK
  <2> QED BY <1>3, <2>1, <2>4, <2>5, OneSettles DEF RequestUpload
<1>4. CASE PutOriginal(m)
  <2>1. TypeOK'
    BY <1>1, <1>4 DEF TypeOK, PutOriginal
  <2>2. /\ row'[m].status = "pending" /\ row'[m].created = "fresh" /\ row'[m].deleted # "old"
        /\ row' = row /\ objects'[m] \subseteq {"original"} /\ ~Handed(m)
    BY <1>1, <1>4 DEF TypeOK, PutOriginal, InOrder, Stored
  <2>3. \A r \in Runs : run'[r].m # m
    BY <1>2, <2>2 DEF Handed
  <2>4. Settled(m)
    BY <1>4, SettledBefore DEF PutOriginal
  <2>5. /\ Abandoned(m)' <=> Abandoned(m)
        /\ Removed(m)' <=> Removed(m)
        /\ Over(m)' <=> Over(m)
    BY <2>2 DEF Over, Abandoned, Removed
  <2>6. ~Abandoned(m) /\ ~Removed(m) /\ UNCHANGED sweep
    BY <1>4 DEF PutOriginal, Abandoned, Removed
  <2>7. Settled(m)'
    BY <1>2, <2>2, <2>3, <2>4, <2>5, <2>6 DEF Settled
  <2>8. \A x \in Media \ {m} : row'[x] = row[x] /\ objects'[x] = objects[x]
    BY <1>1, <1>4 DEF PutOriginal, TypeOK
  <2> QED BY <1>4, <2>1, <2>7, <2>8, OneSettles DEF PutOriginal
<1> QED BY <1>3, <1>4

\* The owner's delete takes effect.
LEMMA SoftDeleteInv ==
  ASSUME Inv, NEW c \in Calls, SoftDelete(c)
  PROVE  Inv'
<1>1. TypeOK /\ Shape /\ InOrder
  BY DEF Inv
<1>0. call[c].m \in Media /\ call[c].pc = "softDelete"
  BY <1>1 DEF SoftDelete, Shape
<1>id. PICK m \in Media : m = call[c].m
  BY <1>0
<1>2. call[c].pc = "softDelete" /\ Deleting(m)
  BY <1>0, <1>id DEF Deleting
<1>3. row[m].status # "none" /\ row[m].deleted # "old"
  BY <1>1, <1>2 DEF InOrder
<1>4. /\ \A d \in Calls : call'[d] = call[d] \/ (call'[d].pc = "done" /\ call'[d].m = call[d].m)
      /\ call' \in [Calls -> Call]
  BY <1>1 DEF SoftDelete, TypeOK, Call
<1>5. /\ row' \in [Media -> Row]
      /\ \A x \in Media \ {m} : row'[x] = row[x]
      /\ row'[m].status = row[m].status /\ row'[m].created = row[m].created
      /\ row'[m].orphaned = row[m].orphaned /\ row'[m].deleted # "old"
  <2>1. row \in [Media -> Row]
    BY <1>1 DEF TypeOK
  <2>2. \/ row' = row
        \/ row' = [row EXCEPT ![m].deleted = "fresh", ![m].idle = FALSE]
    BY <1>id DEF SoftDelete
  <2> QED BY <1>3, <2>1, <2>2 DEF Row, Ages
<1>6. TypeOK'
  BY <1>1, <1>4, <1>5 DEF TypeOK, SoftDelete
<1>7. \A x \in Media : /\ Handed(x)' => Handed(x)
                       /\ Busy(x)' => Busy(x)
                       /\ Deleting(x)' => Deleting(x)
  BY <1>1, <1>4, NothingStarts DEF SoftDelete
<1>8. Settled(m)
  BY <1>2, <1>3, SettledBefore
<1>9. Over(m)' => Over(m)
  BY <1>5 DEF Over, Abandoned, Removed
<1>10. Settled(m)'
  <2>1. UNCHANGED <<run, sweep, objects>>
    BY DEF SoftDelete
  <2>2. (Abandoned(m)' <=> Abandoned(m)) /\ (Removed(m)' <=> Removed(m))
    BY <1>5 DEF Abandoned, Removed
  <2> QED BY <1>3, <1>5, <1>7, <1>8, <1>9, <2>1, <2>2 DEF Settled
<1> QED BY <1>4, <1>5, <1>6, <1>10, OneSettles DEF SoftDelete

\* A scheduled job empties the prefix, or a part of it.
LEMMA EmptyStorageInv ==
  ASSUME Inv, NEW t \in Tasks, EmptyStorage(t)
  PROVE  Inv'
<1>1. TypeOK /\ Shape /\ InOrder /\ Stored /\ RunsStored /\ SweepsDue
  BY DEF Inv
<1>0. sweep[t].m \in Media /\ sweep[t].pc \in {"stale", "purge", "orphan"}
  BY <1>1, NamesApart DEF EmptyStorage, Shape, TypeOK, Sweep
<1>id. PICK m \in Media : m = sweep[t].m
  BY <1>0
<1>2. m = sweep[t].m /\ sweep[t].pc \in {"stale", "purge", "orphan"} /\ row[m].status # "none"
  BY <1>0, <1>1, <1>id DEF InOrder
<1>3. /\ sweep' \in [Tasks -> Sweep] /\ sweep'[t].pc = "row" /\ sweep'[t].m = m
      /\ \A s \in Tasks \ {t} : sweep'[s] = sweep[s]
  <2>1. sweep \in [Tasks -> Sweep] /\ sweep' = [sweep EXCEPT ![t].pc = "row"]
    BY <1>1 DEF TypeOK, EmptyStorage
  <2> QED BY <1>2, <2>1 DEF Sweep
<1>4. /\ objects' \in [Media -> SUBSET (Variants \cup {"original"})]
      /\ \A x \in Media \ {m} : objects'[x] = objects[x]
      /\ objects'[m] = IF sweep[t].pc = "purge" THEN {} ELSE objects[m] \ {"original"}
  BY <1>1, <1>2 DEF EmptyStorage, TypeOK
<1>5. TypeOK'
  BY <1>1, <1>3, <1>4 DEF TypeOK, EmptyStorage
<1>6. \A x \in Media : /\ Handed(x)' => Handed(x)
                       /\ Busy(x)' => Busy(x)
                       /\ Deleting(x)' => Deleting(x)
  <2>1. \A s \in Tasks : \/ sweep'[s] = sweep[s]
                         \/ sweep'[s].pc = "rest" /\ sweep'[s].m = None
                         \/ sweep'[s].pc = "row" /\ sweep'[s].m = sweep[s].m /\ sweep[s].m # None
    BY <1>2, <1>3, NamesApart
  <2> QED BY <1>1, <2>1, NothingStarts DEF EmptyStorage
<1>7. Settled(m)
  BY <1>2, SettledBefore
<1>8. UNCHANGED <<row, run, job, call>>
  BY DEF EmptyStorage
<1>9. /\ Over(m)' <=> Over(m)
      /\ Removed(m)' <=> Removed(m)
      /\ Abandoned(m)' <=> Abandoned(m)
  BY <1>8 DEF Over, Abandoned, Removed
<1>10. objects'[m] \subseteq objects[m] /\ (sweep[t].pc # "purge" => objects[m] \ {"original"} \subseteq objects'[m])
  BY <1>4
<1>11. ASSUME NEW r \in Runs, run'[r].m = m
       PROVE  /\ run'[r].pc = "put" => Variants \ run'[r].left \subseteq objects'[m]
              /\ run'[r].pc \in {"delete", "complete"} => Variants \subseteq objects'[m]
              /\ run'[r].pc = "complete" => "original" \notin objects'[m]
  <2>1. sweep[t].pc # "purge"
    <3>1. Handed(m) /\ Busy(m)
      BY <1>8, <1>11 DEF Handed, Busy
    <3>2. ~Over(m)
      BY <1>2, <3>1, <1>1 DEF InOrder
    <3> QED BY <1>1, <1>2, <3>2 DEF SweepsDue, Over
  <2> QED BY <1>7, <1>8, <1>10, <1>11, <2>1, NamesApart, MediaAssumption DEF Settled
<1>12. ASSUME NEW s \in Tasks, sweep'[s].m = m
       PROVE  /\ sweep'[s].pc = "stale" => Abandoned(m)' \/ row'[m].status = "gone"
              /\ sweep'[s].pc = "purge" => row'[m].deleted = "old"
              /\ sweep'[s].pc = "orphan" => row'[m].orphaned = "old"
              /\ sweep'[s].pc = "row" =>
                   \/ row'[m].status = "gone" \/ row'[m].orphaned = "old"
                   \/ objects'[m] = {} /\ (row'[m].deleted = "old" \/ Abandoned(m)')
  <2>1. CASE s # t
    <3>1. sweep'[s] = sweep[s]
      BY <1>3, <2>1
    <3>2. objects[m] = {} => objects'[m] = {}
      BY <1>10
    <3> QED BY <1>7, <1>8, <1>9, <1>12, <3>1, <3>2 DEF Settled
  <2>2. CASE s = t
    <3>1. sweep[t].m = m
      BY <1>2
    <3>2. \/ Abandoned(m) \/ row[m].status = "gone"
          \/ sweep[t].pc = "purge" /\ row[m].deleted = "old"
          \/ row[m].orphaned = "old"
      BY <1>2, <1>7, <3>1 DEF Settled
    <3>3. Abandoned(m) => objects'[m] = {}
      BY <1>4, <1>7 DEF Settled, Abandoned
    <3> QED BY <1>3, <1>4, <1>8, <1>9, <2>2, <3>2, <3>3
  <2> QED BY <2>1, <2>2
<1>13. Settled(m)'
  <2>1. /\ row'[m].status # "none"
        /\ row'[m].status = "pending" => ~Handed(m)'
        /\ row'[m].deleted = "old" => row'[m].created = "old" /\ ~Deleting(m)'
        /\ Over(m)' => ~Busy(m)'
    BY <1>2, <1>6, <1>7, <1>8, <1>9 DEF Settled
  <2>2. /\ Removed(m)' => objects'[m] = {}
        /\ row'[m].status = "pending" => objects'[m] \subseteq {"original"}
    BY <1>7, <1>8, <1>9, <1>10 DEF Settled
  <2>3. row'[m].status = "ready" =>
          /\ "original" \notin objects'[m]
          /\ row'[m].deleted # "old" => objects'[m] = Variants
    <3>1. sweep[t].pc = "purge" => row[m].deleted = "old"
      BY <1>2, <1>7 DEF Settled
    <3> QED BY <1>4, <1>7, <1>8, <3>1, NamesApart, MediaAssumption DEF Settled
  <2> QED BY <1>11, <1>12, <2>1, <2>2, <2>3 DEF Settled
<1> QED BY <1>2, <1>3, <1>4, <1>5, <1>8, <1>13, OneSettles

\* And then deletes the row.
LEMMA HardDeleteInv ==
  ASSUME Inv, NEW t \in Tasks, HardDelete(t)
  PROVE  Inv'
<1>1. TypeOK /\ Shape /\ InOrder /\ Stored /\ RunsStored /\ SweepsDue
  BY DEF Inv
<1>0. sweep[t].m \in Media /\ sweep[t].pc = "row"
  BY <1>1, NamesApart DEF HardDelete, Shape, TypeOK, Sweep
<1>id. PICK m \in Media : m = sweep[t].m
  BY <1>0
<1>2. m = sweep[t].m /\ sweep[t].pc = "row" /\ row[m].status # "none"
  BY <1>0, <1>1, <1>id DEF InOrder
<1>3. /\ sweep' \in [Tasks -> Sweep] /\ sweep'[t].pc = "rest" /\ sweep'[t].m = None
      /\ \A s \in Tasks \ {t} : sweep'[s] = sweep[s]
  BY <1>1, NamesApart DEF HardDelete, TypeOK, Sweep, Resting
<1>4. /\ row' \in [Media -> Row]
      /\ \A x \in Media \ {m} : row'[x] = row[x]
      /\ row'[m].status = "gone" /\ row'[m].created = row[m].created
      /\ row'[m].orphaned = row[m].orphaned /\ row'[m].deleted = row[m].deleted
  BY <1>1, <1>2 DEF HardDelete, TypeOK, Row, Statuses, Exists
<1>5. TypeOK'
  BY <1>1, <1>3, <1>4 DEF TypeOK, HardDelete
<1>6. \A x \in Media : /\ Handed(x)' => Handed(x)
                       /\ Busy(x)' => Busy(x)
                       /\ Deleting(x)' => Deleting(x)
  BY <1>1, <1>3, NothingStarts DEF HardDelete
<1>7. Settled(m)
  BY <1>2, SettledBefore
<1>8. UNCHANGED <<objects, run, job, call>>
  BY DEF HardDelete
<1>9. Removed(m)' => Over(m) /\ objects[m] = {}
  BY <1>2, <1>4, <1>7 DEF Settled, Over, Removed, Abandoned
<1>10. Over(m)' => Over(m)
  BY <1>4, <1>9 DEF Over, Abandoned, Removed
<1>11. ASSUME NEW s \in Tasks, sweep'[s].m = m
       PROVE  /\ sweep'[s].pc = "stale" => Abandoned(m)' \/ row'[m].status = "gone"
              /\ sweep'[s].pc = "purge" => row'[m].deleted = "old"
              /\ sweep'[s].pc = "orphan" => row'[m].orphaned = "old"
              /\ sweep'[s].pc = "row" =>
                   \/ row'[m].status = "gone" \/ row'[m].orphaned = "old"
                   \/ objects'[m] = {} /\ (row'[m].deleted = "old" \/ Abandoned(m)')
  <2>1. sweep'[s] = sweep[s]
    BY <1>2, <1>3, <1>11, NamesApart
  <2> QED BY <1>4, <1>7, <1>11, <2>1 DEF Settled
<1>12. Settled(m)'
  BY <1>4, <1>6, <1>7, <1>8, <1>9, <1>10, <1>11 DEF Settled
<1> QED BY <1>2, <1>3, <1>4, <1>5, <1>8, <1>12, OneSettles

\* The assets of a deleted invitation are marked.
LEMMA OrphanInv ==
  ASSUME Inv, OrphanByInvitation
  PROVE  Inv'
<1>1. TypeOK /\ Shape /\ InOrder /\ Stored /\ RunsStored /\ SweepsDue
  BY DEF Inv
<1>2. UNCHANGED <<mode, content, objects, call, run, job, sweep, faults>>
  BY DEF OrphanByInvitation
<1>3. \A m \in Media :
        /\ row'[m].status = row[m].status /\ row'[m].created = row[m].created
        /\ row'[m].deleted = row[m].deleted /\ row'[m] \in Row
        /\ row'[m].orphaned = row[m].orphaned \/ (Exists(m) /\ row'[m].orphaned = "fresh"
                                                  /\ row[m].orphaned = "never")
  BY <1>1 DEF OrphanByInvitation, TypeOK, Row, Ages
<1>4. TypeOK'
  <2>1. row' \in [Media -> Row]
    BY <1>3 DEF OrphanByInvitation
  <2> QED BY <1>1, <1>2, <2>1 DEF TypeOK, OrphanByInvitation
<1>5. \A m \in Media : /\ Abandoned(m)' <=> Abandoned(m)
                       /\ Removed(m)' <=> Removed(m)
                       /\ Over(m)' <=> Over(m)
  BY <1>3 DEF Over, Abandoned, Removed, Exists
<1>6. Shape' /\ \A x \in Media : /\ Handed(x)' => Handed(x)
                                 /\ Busy(x)' => Busy(x)
                                 /\ Deleting(x)' => Deleting(x)
  BY <1>1, <1>2, NothingStarts
<1>7. InOrder'
  BY <1>1, <1>2, <1>3, <1>5, <1>6 DEF InOrder, Exists
<1>8. Stored'
  BY <1>1, <1>2, <1>3, <1>5 DEF Stored
<1>9. RunsStored'
  BY <1>1, <1>2 DEF RunsStored
<1>10. SweepsDue'
  BY <1>1, <1>2, <1>3, <1>5 DEF SweepsDue
<1> QED BY <1>4, <1>6, <1>7, <1>8, <1>9, <1>10 DEF Inv

\* Time.
LEMMA TimeInv ==
  ASSUME Inv, Time
  PROVE  Inv'
<1>1. TypeOK /\ Shape /\ InOrder /\ Stored /\ RunsStored /\ SweepsDue
  BY DEF Inv
<1>2. PICK m \in Media : GoesIdle(m) \/ \E date \in {"created", "deleted", "orphaned"} : DatePasses(m, date)
  BY DEF Time
<1>3. UNCHANGED <<mode, content, objects, invitation, call, run, job, sweep, faults>>
  BY <1>2 DEF GoesIdle, DatePasses
<1>4. \A x \in Media : /\ Handed(x)' <=> Handed(x)
                       /\ Busy(x)' <=> Busy(x)
                       /\ Deleting(x)' <=> Deleting(x)
  BY <1>3 DEF Handed, Busy, Deleting
<1>5. CASE GoesIdle(m)
  <2>1. /\ row' \in [Media -> Row] /\ \A x \in Media \ {m} : row'[x] = row[x]
        /\ row'[m].status = row[m].status /\ row'[m].created = row[m].created
        /\ row'[m].deleted = row[m].deleted /\ row'[m].orphaned = row[m].orphaned
    BY <1>1, <1>5 DEF GoesIdle, TypeOK, Row
  <2>2. TypeOK'
    BY <1>1, <1>3, <2>1 DEF TypeOK
  <2>3. Settled(m)
    BY <1>5, SettledBefore DEF GoesIdle
  <2>4. Settled(m)'
    BY <1>3, <1>4, <2>1, <2>3 DEF Settled, Over, Abandoned, Removed
  <2> QED BY <1>3, <2>1, <2>2, <2>4, OneSettles
<1>6. ASSUME NEW date \in {"created", "deleted", "orphaned"}, DatePasses(m, date)
      PROVE  Inv'
  <2>1. /\ row' \in [Media -> Row] /\ \A x \in Media \ {m} : row'[x] = row[x]
        /\ row'[m].status = row[m].status
        /\ row'[m].created = row[m].created \/ row'[m].created = "old"
        /\ row'[m].deleted = "old" => row'[m].created = "old"
        /\ row[m].status \notin {"none", "gone"}
    BY <1>1, <1>6 DEF DatePasses, TypeOK, Row, Ages, Exists, InOrder
  <2>2. TypeOK'
    BY <1>1, <1>3, <2>1 DEF TypeOK
  <2>3. Settled(m)
    BY <2>1, SettledBefore
  <2>4. ~Busy(m) /\ ~Handed(m) /\ ~Deleting(m) /\ \A t \in Tasks : sweep[t].m # m
    BY <1>6 DEF DatePasses, Quiet, Busy, Handed, Deleting
  <2>5. \A r \in Runs : run[r].m # m
    BY <1>6 DEF DatePasses, Quiet
  <2>6. ~Removed(m)' /\ (row'[m].deleted # "old" => row[m].deleted # "old")
    BY <1>1, <1>6, <2>1 DEF Removed, DatePasses, TypeOK, Row
  <2>7. Settled(m)'
    BY <1>3, <1>4, <2>1, <2>3, <2>4, <2>5, <2>6 DEF Settled
  <2> QED BY <1>3, <2>1, <2>2, <2>7, OneSettles
<1> QED BY <1>2, <1>5, <1>6

(* ------------------------------- the theorems -------------------------- *)

\* Nothing has been uploaded yet.
LEMMA InitInv == Init => Inv
<1> SUFFICES ASSUME Init PROVE Inv
  OBVIOUS
<1>1. TypeOK
  <2>1. 0 \in 0..Attempts /\ 0 \in 0..MaxFaults
    BY MediaAssumption
  <2>2. /\ row \in [Media -> Row] /\ objects \in [Media -> SUBSET (Variants \cup {"original"})]
        /\ call \in [Calls -> Call] /\ run \in [Runs -> Run]
        /\ sweep \in [Tasks -> Sweep]
    BY DEF Init, Row, Statuses, Ages, Call, Run, Free, Sweep, Resting
  <2>3. job \in [Media -> Job]
    BY <2>1 DEF Init, NoJob, Job
  <2> QED BY <2>1, <2>2, <2>3 DEF Init, TypeOK
<1>2. Shape
  BY DEF Init, Shape, Free, NoJob, Resting
<1>3. \A m \in Media : ~Busy(m) /\ ~Handed(m) /\ ~Deleting(m) /\ \A t \in Tasks : sweep[t].m # m
  BY NamesApart DEF Init, Busy, Handed, Deleting, Free, NoJob, Resting
<1>4. InOrder /\ Stored
  BY <1>3 DEF Init, InOrder, Stored, Over, Abandoned, Removed
<1>5. RunsStored /\ SweepsDue
  BY DEF Init, RunsStored, SweepsDue, Free, Resting
<1> QED BY <1>1, <1>2, <1>4, <1>5 DEF Inv

\* Every step keeps the invariant.
LEMMA NextInv == Inv /\ [Next]_vars => Inv'
<1> SUFFICES ASSUME Inv, [Next]_vars PROVE Inv'
  OBVIOUS
<1>1. CASE Owner
  <2>1. ASSUME NEW c \in Calls, CallStep(c) PROVE Inv'
    BY <2>1, CallInv, SoftDeleteInv DEF CallStep
  <2> QED BY <1>1, <2>1, UploadInv, CallInv, InvitationInv, OrphanInv DEF Owner
<1>2. CASE Processing
  BY <1>2, RunInv, JobInv DEF Processing
<1>3. CASE Scheduled
  BY <1>3, SweepInv, EmptyStorageInv, HardDeleteInv DEF Scheduled, SweepStep
<1>4. CASE Time
  BY <1>4, TimeInv
<1>5. CASE UNCHANGED vars
  <2>1. TypeOK' /\ Shape'
    BY <1>5 DEF vars, Inv, TypeOK, Shape
  <2>2. \A m \in Media : /\ Handed(m)' <=> Handed(m)
                         /\ Busy(m)' <=> Busy(m)
                         /\ Deleting(m)' <=> Deleting(m)
    BY <1>5 DEF vars, Handed, Busy, Deleting
  <2> QED BY <1>5, <2>1, <2>2, RowsSame, OtherKeeps DEF vars
<1> QED BY <1>1, <1>2, <1>3, <1>4, <1>5 DEF Next

\* The invariant, of the specification.
LEMMA AlwaysInv == Spec => []Inv
BY InitInv, NextInv, PTL DEF Spec

\* Every variable keeps its shape.
THEOREM MediaTyped == Spec => []TypeOK
<1>1. Inv => TypeOK
  BY DEF Inv
<1> QED BY <1>1, AlwaysInv, PTL

\* An asset is ready only once all its derivatives are stored and its original is gone, with
\* any number of runs of it at once, each of which may fail or die at any step.
THEOREM ReadyMeansStored == Spec => []ReadyIsComplete
<1>1. Inv => ReadyIsComplete
  BY DEF Inv, Stored, ReadyIsComplete
<1> QED BY <1>1, AlwaysInv, PTL

\* No bytes are left behind a row that the sweep removed, and none come back.
THEOREM SweptLeavesNothing == Spec => []NoStrayBytes
<1>1. Inv => NoStrayBytes
  BY DEF Inv, Stored, InOrder, Removed, NoStrayBytes
<1> QED BY <1>1, AlwaysInv, PTL

\* Only the last step of a scheduled job removes a row.
LEMMA OnlyHardDelete ==
  ASSUME Inv, Next, NEW m \in Media, Exists(m), row'[m].status = "gone"
  PROVE  \E t \in Tasks : HardDelete(t)
<1>1. TypeOK /\ Shape
  BY DEF Inv
<1>2. ASSUME NEW x \in Media, NEW status \in Written, Write(x, status) PROVE FALSE
  BY <1>1, <1>2 DEF Write, Exists, Written, TypeOK, Row
<1>3. row' # row
  BY DEF Exists
<1>4. CASE Owner
  <2>1. ~ \E x \in Media : RequestUpload(x) \/ PutOriginal(x)
    BY <1>1, <1>3 DEF RequestUpload, PutOriginal, TypeOK, Row, Exists
  <2>2. ~ \E c \in Calls : Head(c) \/ MarkComplete(c) \/ SoftDelete(c)
    <3>1. ASSUME NEW c \in Calls, Head(c) \/ MarkComplete(c) PROVE FALSE
      BY <1>1, <1>2, <1>3, <3>1 DEF Head, MarkComplete, Shape, Written
    <3>2. ASSUME NEW c \in Calls, SoftDelete(c) PROVE FALSE
      BY <1>1, <3>2 DEF SoftDelete, TypeOK, Row, Exists
    <3> QED BY <3>1, <3>2
  <2>3. ~OrphanByInvitation
    <3>1. row[m] \in Row
      BY <1>1 DEF TypeOK
    <3>2. OrphanByInvitation =>
            row'[m] = row[m] \/ row'[m] = [row[m] EXCEPT !.orphaned = "fresh", !.idle = FALSE]
      BY DEF OrphanByInvitation
    <3>3. row'[m].status = row[m].status \/ ~OrphanByInvitation
      BY <3>1, <3>2 DEF Row
    <3> QED BY <3>3 DEF Exists
  <2> QED BY <1>3, <1>4, <2>1, <2>2, <2>3
        DEF Owner, CallStep, Complete, Delete, DispatchCompleted, CallDies, Publish, DeleteInvitation,
            DiesBeforeOrphaning
<1>5. CASE Processing
  <2>1. ~ \E r \in Runs : RunStep(r) \/ StepFails(r) \/ RunDies(r)
    <3>1. ASSUME NEW r \in Runs, RunStep(r) \/ StepFails(r) \/ RunDies(r) PROVE FALSE
      <4>1. run[r].pc # "free" /\ run[r].m \in Media
        BY <1>1, <3>1, NamesApart DEF RunStep, Load, MarkProcessing, Fetch, Process, PutVariant,
            DeleteOriginal, CompleteProcessing, StepFails, RunDies, At, Shape, TypeOK, Run
      <4>2. \/ UNCHANGED row
            \/ \E status \in Written : Write(run[r].m, status)
        BY <3>1 DEF RunStep, Load, MarkProcessing, Fetch, Process, PutVariant,
            DeleteOriginal, CompleteProcessing, StepFails, RunDies, Written
      <4> QED BY <1>2, <1>3, <4>1, <4>2
    <3> QED BY <3>1
  <2> QED BY <1>3, <1>5, <2>1 DEF Processing, Take, Stalled, LockExpires, Forget
<1>6. CASE Time
  <2>1. PICK x \in Media : GoesIdle(x) \/ \E date \in {"created", "deleted", "orphaned"} : DatePasses(x, date)
    BY <1>6 DEF Time
  <2>2. row'[m].status = row[m].status
    BY <1>1, <2>1 DEF GoesIdle, DatePasses, TypeOK, Row
  <2> QED BY <2>2 DEF Exists
<1>7. CASE Scheduled
  BY <1>3, <1>7 DEF Scheduled, SweepStep, Select, Redrive, EmptyStorage, SweepFails
<1> QED BY <1>4, <1>5, <1>6, <1>7 DEF Next

\* A row is removed only while its asset is abandoned, deleted or orphaned for long enough.
THEOREM DueWhenRemoved == Spec => OnlyDueIsRemoved
<1> DEFINE Fits == \A m \in Media : Exists(m) /\ row'[m].status = "gone" =>
                    \/ row[m].status = "pending" /\ row[m].created = "old"
                    \/ "old" \in {row[m].deleted, row[m].orphaned}
<1>1. ASSUME Inv, Next, NEW m \in Media, Exists(m), row'[m].status = "gone"
      PROVE  \/ row[m].status = "pending" /\ row[m].created = "old"
             \/ "old" \in {row[m].deleted, row[m].orphaned}
  <2>1. PICK t \in Tasks : HardDelete(t)
    BY <1>1, OnlyHardDelete
  <2>2. sweep[t].m = m /\ sweep[t].pc = "row"
    BY <1>1, <2>1 DEF HardDelete, Inv, TypeOK, Row, Exists
  <2> QED BY <1>1, <2>2 DEF Inv, SweepsDue, Abandoned, Exists
<1>2. Inv /\ [Next]_vars => [Fits]_vars
  BY <1>1
<1> QED BY <1>2, AlwaysInv, PTL DEF Spec, OnlyDueIsRemoved
=============================================================================
