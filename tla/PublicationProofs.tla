------------------------- MODULE PublicationProofs -------------------------
(***************************************************************************)
(* Theorems about Publication for every set of invitations, slugs and      *)
(* requests, every clock bound and every sweep limit, and about the edge   *)
(* in front of it for every set of guests and every shelf life.            *)
(***************************************************************************)
EXTENDS PublicEdge, SequenceTheorems, TLAPS

(* ------------------------ the inductive invariant ---------------------- *)

\* What a request carries from its read to its write, vs being the versions.
Sound(r, vs) ==
  /\ r.pc \notin {"idle", "done"} => r.inv \in Invitations /\ r.kind \in AllKinds
  /\ r.pc \in {"recheck", "open", "commit"} => r.slug \in Slugs /\ r.kind = "publish"
  /\ r.pc = "commit" => r.n \in 1..(Len(vs[r.inv]) + 1)
  /\ r.pc = "transition" => r.next \in {"PAUSED", "SUSPENDED"} /\ r.kind # "publish"
  /\ r.pc = "purge" => r.kind # "publish"
  /\ r.pc = "repoint" => r.n \in 1..Len(vs[r.inv]) /\ r.kind = "rollback"
  /\ r.pc # "done" => r.result = "none"
  /\ r.result = "ok" => r.inv \in Invitations

RequestsSound == \A q \in Requests : Sound(req[q], versions)

Shape == TypeOK /\ RequestsSound

\* An invitation that gave up an address has been published.
RetiredArePublished ==
  \A s \in Slugs : retired[s] # None => row[retired[s]].pub # 0

(* ------------------------------ the shape ------------------------------ *)

\* One request takes a step, the versions only grow: the requests stay sound.
LEMMA RequestStep ==
  ASSUME TypeOK, RequestsSound, NEW q \in Requests, NEW r \in Request,
         req' = [req EXCEPT ![q] = r],
         \A i \in Invitations : Len(versions[i]) <= Len(versions'[i]),
         versions' \in [Invitations -> Seq(Requests)],
         Sound(r, versions')
  PROVE  req' \in [Requests -> Request] /\ RequestsSound'
<1>1. req' \in [Requests -> Request]
  BY DEF TypeOK
<1>2. ASSUME NEW p \in Requests PROVE Sound(req'[p], versions')
  <2>1. CASE p = q
    BY <2>1 DEF TypeOK
  <2>2. CASE p # q
    <3>1. req'[p] = req[p] /\ Sound(req[p], versions) /\ req[p] \in Request
      BY <2>2 DEF TypeOK, RequestsSound
    <3>2. CASE req[p].pc \in {"repoint", "commit"}
      <4>1. req[p].inv \in Invitations /\ req[p].n \in Nat
        BY <3>1, <3>2 DEF Sound, Request
      <4>2. /\ Len(versions[req[p].inv]) \in Nat /\ Len(versions'[req[p].inv]) \in Nat
            /\ Len(versions[req[p].inv]) <= Len(versions'[req[p].inv])
        BY <4>1, LenProperties DEF TypeOK
      <4>3. /\ req[p].pc = "repoint" => req[p].n \in 1..Len(versions'[req[p].inv])
            /\ req[p].pc = "commit" => req[p].n \in 1..(Len(versions'[req[p].inv]) + 1)
        BY <3>1, <4>1, <4>2 DEF Sound
      <4> QED
        BY <3>1, <4>3 DEF Sound
    <3>3. CASE req[p].pc \notin {"repoint", "commit"}
      BY <3>1, <3>3 DEF Sound
    <3> QED
      BY <3>2, <3>3
  <2> QED
    BY <2>1, <2>2
<1> QED
  BY <1>1, <1>2 DEF RequestsSound

\* A request that ends keeps what it did and nothing else.
LEMMA FinishShape ==
  ASSUME TypeOK, RequestsSound, NEW q \in Requests,
         NEW result \in {"ok", "SLUG_TAKEN", "REFUSED", "CRASHED"},
         req[q].pc \notin {"idle", "done"}, Finish(q, result), UNCHANGED versions
  PROVE  req' \in [Requests -> Request] /\ RequestsSound'
<1> DEFINE r == Asking(req[q].kind, req[q].inv, "done", None, req[q].n, None, result)
<1>1. req' = [req EXCEPT ![q] = r]
  BY DEF Finish
<1>2. req[q] \in Request /\ Sound(req[q], versions)
  BY DEF TypeOK, RequestsSound
<1>3. r \in Request
  BY <1>2 DEF Asking, Request, Steps, Results, Expiries
<1>4. Sound(r, versions')
  BY <1>2 DEF Asking, Sound
<1>5. \A i \in Invitations : versions[i] \in Seq(Requests)
  BY DEF TypeOK
<1>6. \A i \in Invitations : Len(versions[i]) <= Len(versions'[i])
  BY <1>5, LenProperties
<1> HIDE DEF r
<1> QED
  BY <1>1, <1>3, <1>4, <1>6, RequestStep DEF TypeOK

LEMMA InitShape == Init => Shape
  BY NeverAssumption, PublicationAssumption
     DEF Init, Shape, TypeOK, RequestsSound, Sound, Fresh, Asking, NoSweep, Row, Request, Steps,
         Results, Sweep, Entry, Expiries, Statuses

\* The facts every request step of the shape starts from.
LEMMA AtRequest ==
  ASSUME TypeOK, RequestsSound, NEW q \in Requests
  PROVE  /\ req[q] \in Request /\ Sound(req[q], versions)
         /\ \A i \in Invitations : /\ versions[i] \in Seq(Requests)
                                  /\ Len(versions[i]) \in Nat
                                  /\ row[i] \in Row
  BY LenProperties DEF TypeOK, RequestsSound

\* A read that lets its request through leaves it sound.
LEMMA ReadShape ==
  ASSUME Shape, NEW q \in Requests, NEW i \in Invitations,
         NEW kind \in AllKinds, NEW pc \in {"transition", "repoint", "done"},
         NEW s \in Slugs \cup {None}, NEW n \in Nat, NEW to \in Statuses \cup {None},
         NEW result \in {"none", "ok"},
         req' = [req EXCEPT ![q] = Asking(kind, i, pc, s, n, to, result)],
         UNCHANGED versions,
         pc = "done" \/ result = "none",
         pc = "transition" => to \in {"PAUSED", "SUSPENDED"} /\ kind # "publish",
         pc = "repoint" => n \in 1..Len(versions[i]) /\ kind = "rollback"
  PROVE  req' \in [Requests -> Request] /\ RequestsSound'
<1> DEFINE r == Asking(kind, i, pc, s, n, to, result)
<1>1. r \in Request
  BY DEF Asking, Request, Steps, Results, Expiries
<1>2. Sound(r, versions')
  BY DEF Asking, Sound
<1>3. versions' \in [Invitations -> Seq(Requests)]
  BY DEF Shape, TypeOK
<1>4. \A j \in Invitations : Len(versions[j]) <= Len(versions'[j])
  BY AtRequest DEF Shape
<1> HIDE DEF r
<1> QED
  BY <1>1, <1>2, <1>3, <1>4, RequestStep DEF Shape, r

\* A request that moves on, keeping what it has read, is sound again.
LEMMA MoveShape ==
  ASSUME Shape, NEW q \in Requests, req[q].pc \notin {"idle", "done"},
         NEW pc \in {"purge", "record"},
         pc = "purge" => req[q].kind # "publish",
         req' = [req EXCEPT ![q].pc = pc],
         versions' \in [Invitations -> Seq(Requests)],
         \A i \in Invitations : Len(versions[i]) <= Len(versions'[i])
  PROVE  req' \in [Requests -> Request] /\ RequestsSound'
<1> DEFINE r == [req[q] EXCEPT !.pc = pc]
<1>1. req[q] \in Request /\ Sound(req[q], versions)
  BY AtRequest DEF Shape
<1>2. r \in Request
  BY <1>1 DEF Request, Steps
<1>3. Sound(r, versions')
  BY <1>1 DEF Sound, Request
<1>4. req' = [req EXCEPT ![q] = r]
  OBVIOUS
<1> HIDE DEF r
<1> QED
  BY <1>2, <1>3, <1>4, RequestStep DEF Shape

LEMMA MoveAlone ==
  ASSUME Shape, NEW q \in Requests, req[q].pc \notin {"idle", "done"},
         NEW pc \in {"purge", "record"},
         pc = "purge" => req[q].kind # "publish",
         req' = [req EXCEPT ![q].pc = pc],
         UNCHANGED versions
  PROVE  req' \in [Requests -> Request] /\ RequestsSound'
<1>1. versions' \in [Invitations -> Seq(Requests)]
  BY DEF Shape, TypeOK
<1>2. \A i \in Invitations : Len(versions[i]) <= Len(versions'[i])
  BY AtRequest DEF Shape
<1> QED
  BY <1>1, <1>2, MoveShape

LEMMA NoSweepTyped == NoSweep \in Sweep
  BY PublicationAssumption DEF NoSweep, Sweep

\* Every step keeps the types and what the requests carry.
LEMMA ShapeNext ==
  ASSUME Shape, [Next]_vars
  PROVE  Shape'
<1>1. ASSUME NEW q \in Requests, NEW i \in Invitations, NEW s \in Slugs,
             NEW e \in Expiries \cup {None}, PublishRead(q, i, s, e)
      PROVE  Shape'
  <2> DEFINE r == [Asking("publish", i, "recheck", s, 0, None, "none") EXCEPT
                     !.expires = IF e = None THEN row[i].expires ELSE e]
  <2>1. row[i].expires \in Expiries
    BY AtRequest DEF Shape, Row
  <2>2. r \in Request
    BY <2>1 DEF Asking, Request, Steps, Results, AllKinds
  <2>3. Sound(r, versions')
    BY DEF Asking, Sound, AllKinds
  <2>4. req' = [req EXCEPT ![q] = r]
    BY <1>1 DEF PublishRead
  <2>5. /\ versions' \in [Invitations -> Seq(Requests)]
        /\ \A j \in Invitations : Len(versions[j]) <= Len(versions'[j])
    BY <1>1, AtRequest DEF PublishRead, Shape, TypeOK
  <2> HIDE DEF r
  <2>6. req' \in [Requests -> Request] /\ RequestsSound'
    BY <2>2, <2>3, <2>4, <2>5, RequestStep DEF Shape
  <2> QED
    BY <1>1, <2>6 DEF Shape, TypeOK, PublishRead
<1>2. ASSUME NEW q \in Requests, PublishRecheck(q)
      PROVE  Shape'
  <2>0. req[q] \in Request /\ Sound(req[q], versions) /\ UNCHANGED versions
    BY <1>2, AtRequest DEF Shape, PublishRecheck
  <2>1. CASE Finish(q, "REFUSED")
    BY <1>2, <2>1, FinishShape DEF Shape, TypeOK, PublishRecheck
  <2>2. CASE req' = [req EXCEPT ![q].pc = "open", ![q].old = row[req[q].inv].slug]
    <3> DEFINE r == [req[q] EXCEPT !.pc = "open", !.old = row[req[q].inv].slug]
    <3>1. req[q].inv \in Invitations /\ row[req[q].inv].slug \in Slugs \cup {None}
      BY <1>2, <2>0, AtRequest DEF Shape, Sound, PublishRecheck, Row
    <3>2. r \in Request
      BY <2>0, <3>1 DEF Request, Steps
    <3>3. Sound(r, versions')
      BY <1>2, <2>0, <3>1 DEF Sound, PublishRecheck, Request
    <3>4. req' = [req EXCEPT ![q] = r]
      BY <2>2
    <3>5. /\ versions' \in [Invitations -> Seq(Requests)]
          /\ \A j \in Invitations : Len(versions[j]) <= Len(versions'[j])
      BY <2>0, AtRequest DEF Shape, TypeOK
    <3> HIDE DEF r
    <3>6. req' \in [Requests -> Request] /\ RequestsSound'
      BY <3>2, <3>3, <3>4, <3>5, RequestStep DEF Shape
    <3> QED
      BY <1>2, <3>6 DEF Shape, TypeOK, PublishRecheck
  <2> QED
    BY <1>2, <2>1, <2>2 DEF PublishRecheck
<1>3. ASSUME NEW q \in Requests, PublishOpen(q)
      PROVE  Shape'
  <2> DEFINE r == [req[q] EXCEPT !.pc = "commit", !.n = Len(versions[req[q].inv]) + 1]
  <2>0. req[q] \in Request /\ Sound(req[q], versions) /\ UNCHANGED versions
    BY <1>3, AtRequest DEF Shape, PublishOpen
  <2>1. req[q].inv \in Invitations /\ Len(versions[req[q].inv]) \in Nat
    BY <1>3, <2>0, AtRequest DEF Shape, Sound, PublishOpen
  <2> DEFINE m == Len(versions[req[q].inv]) + 1
  <2>7. m \in Nat /\ m \in 1..(Len(versions'[req[q].inv]) + 1)
    BY <2>0, <2>1
  <2> HIDE DEF m
  <2>2. r \in Request
    <3>1. [req[q] EXCEPT !.pc = "commit", !.n = m] \in Request
      BY <2>0, <2>7 DEF Request, Steps
    <3> QED
      BY <3>1 DEF m
  <2>3. Sound(r, versions')
    <3>1. Sound([req[q] EXCEPT !.pc = "commit", !.n = m], versions')
      BY <1>3, <2>0, <2>7 DEF Sound, PublishOpen, Request
    <3> QED
      BY <3>1 DEF m
  <2>4. req' = [req EXCEPT ![q] = r]
    BY <1>3 DEF PublishOpen
  <2>5. /\ versions' \in [Invitations -> Seq(Requests)]
        /\ \A j \in Invitations : Len(versions[j]) <= Len(versions'[j])
    BY <2>0, AtRequest DEF Shape, TypeOK
  <2> HIDE DEF r
  <2>6. req' \in [Requests -> Request] /\ RequestsSound'
    BY <2>2, <2>3, <2>4, <2>5, RequestStep DEF Shape
  <2> QED
    BY <1>3, <2>6 DEF Shape, TypeOK, PublishOpen
<1>4. ASSUME NEW q \in Requests, PublishCommit(q)
      PROVE  Shape'
  <2> DEFINE i == req[q].inv
  <2>0. /\ req[q] \in Request /\ Sound(req[q], versions)
        /\ i \in Invitations /\ req[q].slug \in Slugs /\ req[q].pc = "commit"
    BY <1>4, AtRequest DEF Shape, PublishCommit, Sound
  <2>1. /\ versions' \in [Invitations -> Seq(Requests)]
        /\ \A j \in Invitations : Len(versions[j]) <= Len(versions'[j])
    <3>1. versions' = [versions EXCEPT ![i] = Append(@, q)]
      BY <1>4 DEF PublishCommit
    <3>2. versions[i] \in Seq(Requests)
      BY <2>0, AtRequest DEF Shape
    <3>3. Append(versions[i], q) \in Seq(Requests)
          /\ Len(Append(versions[i], q)) = Len(versions[i]) + 1
      BY <3>2, AppendProperties
    <3> QED
      BY <2>0, <3>1, <3>3, AtRequest DEF Shape, TypeOK
  <2>2. req' \in [Requests -> Request] /\ RequestsSound'
    BY <1>4, <2>0, <2>1, MoveShape DEF PublishCommit
  <2>3. row' \in [Invitations -> Row]
    <3>1. req[q].slug \in Slugs \cup {None} /\ req[q].n \in Nat /\ req[q].expires \in Expiries
      BY <2>0 DEF Request
    <3>2. row[i] \in Row
      BY <2>0, AtRequest DEF Shape
    <3>3. [row[i] EXCEPT !.slug = req[q].slug, !.status = "PUBLISHED",
                         !.pub = req[q].n, !.expires = req[q].expires] \in Row
      BY <3>1, <3>2 DEF Row, Statuses
    <3> QED
      BY <1>4, <3>3 DEF PublishCommit, Shape, TypeOK
  <2>4. retired' \in [Slugs -> Invitations \cup {None}]
    BY <1>4, <2>0 DEF PublishCommit, Shape, TypeOK
  <2> QED
    BY <1>4, <2>1, <2>2, <2>3, <2>4 DEF PublishCommit, Shape, TypeOK
<1>5. ASSUME NEW q \in Requests, PublishAbort(q)
      PROVE  Shape'
  BY <1>5, FinishShape DEF Shape, TypeOK, PublishAbort
<1>6. ASSUME NEW q \in Requests, NEW i \in Invitations, UnpublishRead(q, i)
      PROVE  Shape'
  <2>1. PICK to \in Statuses :
          /\ <<row[i].status, "unpublish", to>> \in Lifecycle
          /\ req' = [req EXCEPT ![q] = Asking("unpublish", i, "transition", row[i].slug, 0,
                                              to, "none")]
    BY <1>6 DEF UnpublishRead
  <2>2. to = "PAUSED" /\ row[i].slug \in Slugs \cup {None}
    BY <2>1, AtRequest DEF Lifecycle, Row, Shape
  <2>3. req' \in [Requests -> Request] /\ RequestsSound'
    BY <1>6, <2>1, <2>2, ReadShape DEF UnpublishRead, AllKinds
  <2> QED
    BY <1>6, <2>3 DEF Shape, TypeOK, UnpublishRead
<1>7. ASSUME NEW q \in Requests, NEW i \in Invitations,
             NEW action \in {"suspend", "unsuspend"}, ModerateRead(q, i, action)
      PROVE  Shape'
  <2>1. PICK to \in Statuses :
          /\ <<row[i].status, action, to>> \in Lifecycle
          /\ req' = [req EXCEPT ![q] = Asking(action, i, "transition", row[i].slug, 0, to, "none")]
    BY <1>7 DEF ModerateRead
  <2>2. to \in {"PAUSED", "SUSPENDED"} /\ row[i].slug \in Slugs \cup {None}
    BY <2>1, AtRequest DEF Lifecycle, Row, Shape
  <2>3. req' \in [Requests -> Request] /\ RequestsSound'
    BY <1>7, <2>1, <2>2, ReadShape DEF ModerateRead, AllKinds
  <2> QED
    BY <1>7, <2>3 DEF Shape, TypeOK, ModerateRead
<1>8. ASSUME NEW q \in Requests, TransitionStatus(q)
      PROVE  Shape'
  <2>0. /\ req[q] \in Request /\ Sound(req[q], versions) /\ UNCHANGED versions
        /\ req[q].inv \in Invitations /\ req[q].next \in {"PAUSED", "SUSPENDED"}
        /\ req[q].kind # "publish" /\ req[q].pc = "transition"
    BY <1>8, AtRequest DEF Shape, TransitionStatus, Sound
  <2>1. CASE Finish(q, "REFUSED") /\ UNCHANGED row
    BY <1>8, <2>0, <2>1, FinishShape DEF Shape, TypeOK, TransitionStatus
  <2>2. CASE /\ row' = [row EXCEPT ![req[q].inv].status = req[q].next]
             /\ req' = [req EXCEPT ![q].pc = IF req[q].kind = "unpublish"
                                             THEN "record" ELSE "purge"]
    <3>1. req' \in [Requests -> Request] /\ RequestsSound'
      BY <2>0, <2>2, MoveAlone
    <3>2. [row[req[q].inv] EXCEPT !.status = req[q].next] \in Row
      BY <2>0, AtRequest DEF Shape, Row, Statuses
    <3>3. row' \in [Invitations -> Row]
      BY <2>2, <3>2 DEF Shape, TypeOK
    <3> QED
      BY <1>8, <3>1, <3>3 DEF Shape, TypeOK, TransitionStatus
  <2> QED
    BY <1>8, <2>1, <2>2 DEF TransitionStatus
<1>9. ASSUME NEW q \in Requests, PurgeEdge(q)
      PROVE  Shape'
  <2>1. req' \in [Requests -> Request] /\ RequestsSound'
    BY <1>9, MoveAlone, AtRequest DEF Shape, PurgeEdge, Sound
  <2> QED
    BY <1>9, <2>1 DEF Shape, TypeOK, PurgeEdge
<1>10. ASSUME NEW q \in Requests, NEW i \in Invitations, NEW n \in 1..Len(versions[i]),
              RollbackRead(q, i, n)
       PROVE  Shape'
  <2>1. n \in Nat /\ row[i].slug \in Slugs \cup {None}
    BY AtRequest DEF Shape, Row
  <2>2. req' \in [Requests -> Request] /\ RequestsSound'
    BY <1>10, <2>1, ReadShape DEF RollbackRead, AllKinds
  <2> QED
    BY <1>10, <2>2 DEF Shape, TypeOK, RollbackRead
<1>11. ASSUME NEW q \in Requests, RollbackWrite(q)
       PROVE  Shape'
  <2>1. req' \in [Requests -> Request] /\ RequestsSound'
    BY <1>11, MoveAlone DEF RollbackWrite
  <2>2. req[q].inv \in Invitations /\ req[q].n \in Nat
    BY <1>11, AtRequest DEF Shape, RollbackWrite, Sound, Request
  <2>3. [row[req[q].inv] EXCEPT !.pub = req[q].n] \in Row
    BY <2>2, AtRequest DEF Shape, Row
  <2>4. row' \in [Invitations -> Row]
    BY <1>11, <2>3 DEF RollbackWrite, Shape, TypeOK
  <2> QED
    BY <1>11, <2>1, <2>4 DEF Shape, TypeOK, RollbackWrite
<1>12. ASSUME NEW q \in Requests, NEW i \in Invitations, SoftDelete(q, i)
       PROVE  Shape'
  <2>1. req' \in [Requests -> Request] /\ RequestsSound'
    BY <1>12, ReadShape DEF SoftDelete, AllKinds
  <2>2. [row[i] EXCEPT !.status = "DELETED", !.deleted = TRUE, !.slug = None] \in Row
    BY AtRequest DEF Shape, Row, Statuses
  <2>3. row' \in [Invitations -> Row]
    BY <1>12, <2>2 DEF SoftDelete, Shape, TypeOK
  <2> QED
    BY <1>12, <2>1, <2>3 DEF Shape, TypeOK, SoftDelete
<1>13. ASSUME NEW q \in Requests, RecordAudit(q)
       PROVE  Shape'
  <2>1. req' \in [Requests -> Request] /\ RequestsSound'
    BY <1>13, FinishShape DEF Shape, TypeOK, RecordAudit
  <2>2. /\ req[q].inv \in Invitations /\ req[q].kind \in AllKinds
        /\ req[q].slug \in Slugs \cup {None} /\ req[q].n \in Nat
    BY <1>13, AtRequest DEF Shape, RecordAudit, Sound, Request
  <2>3. audit' \subseteq Entry
    BY <1>13, <2>2 DEF RecordAudit, Shape, TypeOK, Entry
  <2> QED
    BY <1>13, <2>1, <2>3 DEF Shape, TypeOK, RecordAudit
<1>14. ASSUME NEW q \in Requests, Crash(q)
       PROVE  Shape'
  BY <1>14, FinishShape DEF Shape, TypeOK, Crash
<1>15. ASSUME UNCHANGED <<versions, req>>
       PROVE  /\ versions' \in [Invitations -> Seq(Requests)]
              /\ req' \in [Requests -> Request] /\ RequestsSound'
  BY <1>15 DEF Shape, TypeOK, RequestsSound
<1>16. ASSUME NEW w \in Sweepers, SweepStep(w) \/ SweepCrash(w)
       PROVE  Shape'
  <2>1. ASSUME NEW ids \in SUBSET Invitations, SweepRead(w, ids) PROVE Shape'
    BY <1>15, <2>1 DEF SweepRead, Shape, TypeOK, Sweep
  <2>2. ASSUME SweepWrite(w) PROVE Shape'
    <3>1. ASSUME NEW i \in Invitations PROVE [row[i] EXCEPT !.status = "EXPIRED"] \in Row
      BY AtRequest, PublicationAssumption DEF Shape, TypeOK, Row, Statuses
    <3>2. row' \in [Invitations -> Row]
      BY <2>2, <3>1 DEF SweepWrite, Shape, TypeOK
    <3>3. sweep' \in [Sweepers -> Sweep]
      BY <2>2 DEF SweepWrite, Shape, TypeOK, Sweep
    <3> QED
      BY <1>15, <2>2, <3>2, <3>3 DEF SweepWrite, Shape, TypeOK
  <2>3. ASSUME SweepConfirm(w) PROVE Shape'
    <3>1. sweep' \in [Sweepers -> Sweep]
      BY <2>3, NoSweepTyped DEF SweepConfirm, Shape, TypeOK, Sweep
    <3> QED
      BY <1>15, <2>3, <3>1 DEF SweepConfirm, Shape, TypeOK
  <2>4. ASSUME NEW i \in Invitations, SweepRecord(w, i) PROVE Shape'
    <3>1. sweep' \in [Sweepers -> Sweep]
      BY <2>4, NoSweepTyped DEF SweepRecord, Shape, TypeOK, Sweep
    <3>2. audit' \subseteq Entry
      BY <2>4 DEF SweepRecord, Shape, TypeOK, Entry
    <3> QED
      BY <1>15, <2>4, <3>1, <3>2 DEF SweepRecord, Shape, TypeOK
  <2>5. ASSUME SweepCrash(w) PROVE Shape'
    BY <1>15, <2>5, NoSweepTyped DEF SweepCrash, Shape, TypeOK
  <2> QED
    BY <1>16, <2>1, <2>2, <2>3, <2>4, <2>5 DEF SweepStep
<1>17. CASE Tick
  BY <1>15, <1>17, PublicationAssumption DEF Tick, Shape, TypeOK
<1>18. CASE UNCHANGED vars
  BY <1>15, <1>18 DEF vars, Shape, TypeOK
<1> QED
  BY <1>1, <1>2, <1>3, <1>4, <1>5, <1>6, <1>7, <1>8, <1>9, <1>10, <1>11, <1>12, <1>13,
     <1>14, <1>16, <1>17, <1>18 DEF Next, Arrive, Continue, Publish

\* Every variable keeps to its declared values, and every request in flight carries what
\* its next step needs, whatever else has run since it read.
THEOREM TypeCorrect == Spec => []TypeOK
<1>1. Spec => []Shape
  BY InitShape, ShapeNext, PTL DEF Spec
<1>2. Shape => TypeOK
  BY DEF Shape
<1> QED
  BY <1>1, <1>2, PTL

(* ----------------------- versions are append-only ---------------------- *)

\* A step leaves the versions alone, or commits one publish.
LEMMA WhoWritesVersions ==
  ASSUME [Next]_vars
  PROVE  UNCHANGED versions \/ \E q \in Requests : PublishCommit(q)
<1>1. ASSUME NEW q \in Requests, Arrive(q) PROVE UNCHANGED versions
  BY <1>1 DEF Arrive, PublishRead, UnpublishRead, ModerateRead, RollbackRead, SoftDelete
<1>2. ASSUME NEW q \in Requests, Continue(q), ~PublishCommit(q) PROVE UNCHANGED versions
  BY <1>2 DEF Continue, Publish, PublishRecheck, PublishOpen, PublishAbort, TransitionStatus,
              PurgeEdge, RollbackWrite, RecordAudit
<1>3. ASSUME NEW q \in Requests, Crash(q) PROVE UNCHANGED versions
  BY <1>3 DEF Crash
<1>4. ASSUME NEW w \in Sweepers, SweepStep(w) \/ SweepCrash(w) PROVE UNCHANGED versions
  BY <1>4 DEF SweepStep, SweepRead, SweepWrite, SweepConfirm, SweepRecord, SweepCrash
<1>5. CASE Tick \/ UNCHANGED vars
  BY <1>5 DEF Tick, vars
<1> QED
  BY <1>1, <1>2, <1>3, <1>4, <1>5 DEF Next

\* What the commit of q does to the versions.
LEMMA CommitAppends ==
  ASSUME Shape, NEW q \in Requests, PublishCommit(q)
  PROVE  /\ req[q].inv \in Invitations
         /\ req[q].n = Len(versions[req[q].inv]) + 1
         /\ \A i \in Invitations \ {req[q].inv} : versions'[i] = versions[i]
         /\ Len(versions'[req[q].inv]) = req[q].n
         /\ versions'[req[q].inv][req[q].n] = q
         /\ \A n \in 1..Len(versions[req[q].inv]) :
              versions'[req[q].inv][n] = versions[req[q].inv][n]
<1> DEFINE i == req[q].inv
<1>1. i \in Invitations /\ req[q].n \in 1..(Len(versions[i]) + 1)
  BY AtRequest DEF Shape, PublishCommit, Sound
<1>2. versions[i] \in Seq(Requests) /\ Len(versions[i]) \in Nat
  BY <1>1, AtRequest DEF Shape
<1>3. req[q].n = Len(versions[i]) + 1
  BY <1>1, <1>2 DEF PublishCommit, UniqueViolation
<1>4. versions' = [versions EXCEPT ![i] = Append(versions[i], q)]
  BY DEF PublishCommit
<1>5. versions'[i] = Append(versions[i], q)
      /\ \A j \in Invitations \ {i} : versions'[j] = versions[j]
  BY <1>1, <1>4 DEF Shape, TypeOK
<1>6. /\ Len(Append(versions[i], q)) = Len(versions[i]) + 1
      /\ \A n \in 1..Len(versions[i]) : Append(versions[i], q)[n] = versions[i][n]
      /\ Append(versions[i], q)[Len(versions[i]) + 1] = q
  BY <1>2, AppendProperties
<1> QED
  BY <1>1, <1>3, <1>5, <1>6

VersionsGrow ==
  \A i \in Invitations : /\ Len(versions[i]) <= Len(versions'[i])
                         /\ \A n \in 1..Len(versions[i]) : versions'[i][n] = versions[i][n]

LEMMA StepGrowsVersions ==
  ASSUME Shape, [Next]_vars
  PROVE  VersionsGrow
<1>1. CASE UNCHANGED versions
  BY <1>1, AtRequest DEF VersionsGrow, Shape
<1>2. ASSUME NEW q \in Requests, PublishCommit(q) PROVE VersionsGrow
  <2>1. ASSUME NEW i \in Invitations
        PROVE  /\ Len(versions[i]) <= Len(versions'[i])
               /\ \A n \in 1..Len(versions[i]) : versions'[i][n] = versions[i][n]
    <3>1. Len(versions[i]) \in Nat
      BY <2>1, LenProperties DEF Shape, TypeOK
    <3>2. CASE i = req[q].inv
      BY <1>2, <3>1, <3>2, CommitAppends
    <3>3. CASE i # req[q].inv
      <4>1. versions'[i] = versions[i]
        BY <1>2, <3>3, CommitAppends
      <4> QED
        BY <3>1, <4>1
    <3> QED
      BY <3>2, <3>3
  <2> QED
    BY <2>1 DEF VersionsGrow
<1> QED
  BY <1>1, <1>2, WhoWritesVersions

\* No step of any operation edits or removes a published version: a rollback, a pause or a
\* republish moves the pointer and leaves every written snapshot as it was.
THEOREM VersionsAreImmutable == Spec => VersionsAppendOnly
<1>1. Spec => []Shape
  BY InitShape, ShapeNext, PTL DEF Spec
<1>2. Shape /\ [Next]_vars => [VersionsGrow]_vars
  BY StepGrowsVersions
<1>3. Spec => [][VersionsGrow]_vars
  BY <1>1, <1>2, PTL DEF Spec
<1> QED
  BY <1>3, PTL DEF VersionsAppendOnly, VersionsGrow

(* -------------------------- what guests are served --------------------- *)

\* The five statements that write a row; every other step leaves it alone.
LEMMA WhoWritesRows ==
  ASSUME [Next]_vars
  PROVE  \/ UNCHANGED <<row, retired, versions>>
         \/ \E q \in Requests : PublishCommit(q) \/ TransitionStatus(q) \/ RollbackWrite(q)
         \/ \E q \in Requests, i \in Invitations : SoftDelete(q, i)
         \/ \E w \in Sweepers : SweepWrite(w)
<1>1. ASSUME NEW q \in Requests, Arrive(q),
             ~\E i \in Invitations : SoftDelete(q, i)
      PROVE  UNCHANGED <<row, retired, versions>>
  BY <1>1 DEF Arrive, PublishRead, UnpublishRead, ModerateRead, RollbackRead
<1>2. ASSUME NEW q \in Requests, Continue(q),
             ~(PublishCommit(q) \/ TransitionStatus(q) \/ RollbackWrite(q))
      PROVE  UNCHANGED <<row, retired, versions>>
  BY <1>2 DEF Continue, Publish, PublishRecheck, PublishOpen, PublishAbort, PurgeEdge, RecordAudit
<1>3. ASSUME NEW q \in Requests, Crash(q) PROVE UNCHANGED <<row, retired, versions>>
  BY <1>3 DEF Crash
<1>4. ASSUME NEW w \in Sweepers, SweepStep(w) \/ SweepCrash(w), ~SweepWrite(w)
      PROVE  UNCHANGED <<row, retired, versions>>
  BY <1>4 DEF SweepStep, SweepRead, SweepConfirm, SweepRecord, SweepCrash
<1>5. CASE Tick \/ UNCHANGED vars
  BY <1>5 DEF Tick, vars
<1> QED
  BY <1>1, <1>2, <1>3, <1>4, <1>5 DEF Next

\* What the commit of q does to the rows.
LEMMA CommitRow ==
  ASSUME Shape, NEW q \in Requests, PublishCommit(q)
  PROVE  /\ req[q].inv \in Invitations /\ req[q].n # 0
         /\ row'[req[q].inv].status = "PUBLISHED"
         /\ row'[req[q].inv].slug = req[q].slug
         /\ row'[req[q].inv].pub = req[q].n
         /\ row'[req[q].inv].deleted = row[req[q].inv].deleted
         /\ \A i \in Invitations \ {req[q].inv} : row'[i] = row[i]
<1> DEFINE i == req[q].inv
           new == [row[i] EXCEPT !.slug = req[q].slug, !.status = "PUBLISHED",
                                 !.pub = req[q].n, !.expires = req[q].expires]
<1>1. i \in Invitations /\ req[q].n = Len(versions[i]) + 1 /\ Len(versions[i]) \in Nat
  BY CommitAppends, LenProperties DEF Shape, TypeOK
<1>2. row[i] \in Row
  BY <1>1 DEF Shape, TypeOK
<1>3. row' = [row EXCEPT ![i] = new]
  BY DEF PublishCommit
<1>4. /\ new.slug = req[q].slug /\ new.status = "PUBLISHED" /\ new.pub = req[q].n
      /\ new.deleted = row[i].deleted
  BY <1>2 DEF Row
<1> HIDE DEF new
<1>5. row'[i] = new /\ \A j \in Invitations \ {i} : row'[j] = row[j]
  BY <1>1, <1>3 DEF Shape, TypeOK
<1>6. req[q].n # 0
  BY <1>1
<1> QED
  BY <1>1, <1>4, <1>5, <1>6

LEMMA PointerStep ==
  ASSUME Shape, PointerResolves, [Next]_vars
  PROVE  PointerResolves'
<1> SUFFICES ASSUME NEW i \in Invitations
             PROVE  /\ row'[i].pub \in 0..Len(versions'[i])
                    /\ row'[i].status = "PUBLISHED" => row'[i].pub # 0 /\ row'[i].slug # None
  BY DEF PointerResolves
<1>0. /\ row[i] \in Row /\ Len(versions[i]) \in Nat
      /\ row[i].pub \in 0..Len(versions[i])
      /\ row[i].status = "PUBLISHED" => row[i].pub # 0 /\ row[i].slug # None
  BY LenProperties DEF Shape, TypeOK, PointerResolves
<1>1. CASE UNCHANGED <<row, retired, versions>>
  BY <1>0, <1>1
<1>2. ASSUME NEW q \in Requests, PublishCommit(q)
      PROVE  /\ row'[i].pub \in 0..Len(versions'[i])
             /\ row'[i].status = "PUBLISHED" => row'[i].pub # 0 /\ row'[i].slug # None
  <2>1. CASE i = req[q].inv
    <3>1. row'[i].slug \in Slugs
      BY <1>2, <2>1, CommitRow, AtRequest DEF Shape, Sound, PublishCommit
    <3>2. row'[i].slug # None
      BY <3>1, PublicationAssumption
    <3>3. row'[i].pub = Len(versions[i]) + 1 /\ Len(versions'[i]) = Len(versions[i]) + 1
      BY <1>2, <2>1, CommitRow, CommitAppends
    <3> QED
      BY <1>0, <3>2, <3>3
  <2>2. CASE i # req[q].inv
    <3>1. row'[i] = row[i] /\ versions'[i] = versions[i]
      BY <1>2, <2>2, CommitRow, CommitAppends
    <3> QED
      BY <1>0, <3>1
  <2> QED
    BY <2>1, <2>2
<1>3. ASSUME NEW q \in Requests, TransitionStatus(q)
      PROVE  /\ row'[i].pub \in 0..Len(versions'[i])
             /\ row'[i].status = "PUBLISHED" => row'[i].pub # 0 /\ row'[i].slug # None
  <2>1. req[q].next \in {"PAUSED", "SUSPENDED"} /\ UNCHANGED versions
    BY <1>3, AtRequest DEF Shape, TransitionStatus, Sound
  <2>2. row' = row \/ row' = [row EXCEPT ![req[q].inv].status = req[q].next]
    BY <1>3 DEF TransitionStatus
  <2>3. \/ row'[i] = row[i]
        \/ row'[i] = [row[i] EXCEPT !.status = req[q].next]
    BY <2>2 DEF Shape, TypeOK
  <2> QED
    BY <1>0, <2>1, <2>3 DEF Row
<1>4. ASSUME NEW q \in Requests, RollbackWrite(q)
      PROVE  /\ row'[i].pub \in 0..Len(versions'[i])
             /\ row'[i].status = "PUBLISHED" => row'[i].pub # 0 /\ row'[i].slug # None
  <2>1. UNCHANGED versions /\ req[q].n \in 1..Len(versions[req[q].inv])
    BY <1>4, AtRequest DEF Shape, RollbackWrite, Sound
  <2>2. \/ row'[i] = row[i]
        \/ i = req[q].inv /\ row'[i] = [row[i] EXCEPT !.pub = req[q].n]
    BY <1>4 DEF RollbackWrite, Shape, TypeOK
  <2> QED
    BY <1>0, <2>1, <2>2 DEF Row
<1>5. ASSUME NEW q \in Requests, NEW j \in Invitations, SoftDelete(q, j)
      PROVE  /\ row'[i].pub \in 0..Len(versions'[i])
             /\ row'[i].status = "PUBLISHED" => row'[i].pub # 0 /\ row'[i].slug # None
  <2>1. \/ row'[i] = row[i]
        \/ row'[i] = [row[i] EXCEPT !.status = "DELETED", !.deleted = TRUE, !.slug = None]
    BY <1>5 DEF SoftDelete, Shape, TypeOK
  <2> QED
    BY <1>0, <1>5, <2>1 DEF SoftDelete, Row
<1>6. ASSUME NEW w \in Sweepers, SweepWrite(w)
      PROVE  /\ row'[i].pub \in 0..Len(versions'[i])
             /\ row'[i].status = "PUBLISHED" => row'[i].pub # 0 /\ row'[i].slug # None
  <2>1. row'[i] = row[i] \/ row'[i] = [row[i] EXCEPT !.status = "EXPIRED"]
    BY <1>6 DEF SweepWrite
  <2> QED
    BY <1>0, <1>6, <2>1 DEF SweepWrite, Row
<1> QED
  BY <1>1, <1>2, <1>3, <1>4, <1>5, <1>6, WhoWritesRows

\* A write that keeps, or clears, slugs and deletes nothing back keeps live slugs apart.
LEMMA SlugsKept ==
  ASSUME LiveSlugsUnique,
         \A i \in Invitations : /\ row'[i].slug \in {row[i].slug, None}
                                /\ row[i].deleted => row'[i].deleted
  PROVE  LiveSlugsUnique'
  BY DEF LiveSlugsUnique

LEMMA SlugStep ==
  ASSUME Shape, LiveSlugsUnique, [Next]_vars
  PROVE  LiveSlugsUnique'
<1>1. CASE UNCHANGED <<row, retired, versions>>
  BY <1>1, SlugsKept
<1>2. ASSUME NEW q \in Requests, PublishCommit(q) PROVE LiveSlugsUnique'
  <2> DEFINE k == req[q].inv
  <2>1. /\ row'[k].slug = req[q].slug /\ row'[k].deleted = row[k].deleted
        /\ \A i \in Invitations \ {k} : row'[i] = row[i]
    BY <1>2, CommitRow
  <2>2. ~SlugHeldElsewhere(req[q].slug, k)
    BY <1>2 DEF PublishCommit, UniqueViolation
  <2>3. \A j \in Invitations \ {k} :
          ~(row'[j].slug = row'[k].slug /\ ~row'[j].deleted /\ ~row'[k].deleted)
    BY <2>1, <2>2 DEF SlugHeldElsewhere
  <2> HIDE DEF k
  <2> QED
    BY <2>1, <2>3 DEF LiveSlugsUnique
<1>3. ASSUME NEW q \in Requests, TransitionStatus(q) \/ RollbackWrite(q) PROVE LiveSlugsUnique'
  <2>1. \/ row' = row
        \/ row' = [row EXCEPT ![req[q].inv].status = req[q].next]
        \/ row' = [row EXCEPT ![req[q].inv].pub = req[q].n]
    BY <1>3 DEF TransitionStatus, RollbackWrite
  <2>2. ASSUME NEW i \in Invitations
        PROVE  row'[i].slug = row[i].slug /\ row'[i].deleted = row[i].deleted
    <3>1. row[i] \in Row
      BY DEF Shape, TypeOK
    <3>2. \/ row'[i] = row[i] \/ row'[i] = [row[i] EXCEPT !.status = req[q].next]
          \/ row'[i] = [row[i] EXCEPT !.pub = req[q].n]
      BY <2>1 DEF Shape, TypeOK
    <3> QED
      BY <3>1, <3>2 DEF Row
  <2> QED
    BY <2>2, SlugsKept
<1>4. ASSUME NEW q \in Requests, NEW j \in Invitations, SoftDelete(q, j) PROVE LiveSlugsUnique'
  <2>1. ASSUME NEW i \in Invitations
        PROVE  row'[i].slug \in {row[i].slug, None} /\ (row[i].deleted => row'[i].deleted)
    <3>1. row[i] \in Row
      BY DEF Shape, TypeOK
    <3>2. \/ row'[i] = row[i]
          \/ row'[i] = [row[i] EXCEPT !.status = "DELETED", !.deleted = TRUE, !.slug = None]
      BY <1>4 DEF SoftDelete, Shape, TypeOK
    <3> QED
      BY <3>1, <3>2 DEF Row
  <2> QED
    BY <2>1, SlugsKept
<1>5. ASSUME NEW w \in Sweepers, SweepWrite(w) PROVE LiveSlugsUnique'
  <2>1. ASSUME NEW i \in Invitations
        PROVE  row'[i].slug = row[i].slug /\ row'[i].deleted = row[i].deleted
    <3>1. row[i] \in Row
      BY DEF Shape, TypeOK
    <3>2. row'[i] = row[i] \/ row'[i] = [row[i] EXCEPT !.status = "EXPIRED"]
      BY <1>5 DEF SweepWrite
    <3> QED
      BY <3>1, <3>2 DEF Row
  <2> QED
    BY <2>1, SlugsKept
<1> QED
  BY <1>1, <1>2, <1>3, <1>4, <1>5, WhoWritesRows

LEMMA RetiredStep ==
  ASSUME Shape, PointerResolves, RetiredArePublished, [Next]_vars
  PROVE  RetiredArePublished'
<1>1. ASSUME NEW i \in Invitations, row[i].pub # 0
      PROVE  row'[i].pub # 0
  <2>0. row[i] \in Row
    BY DEF Shape, TypeOK
  <2>1. ASSUME NEW q \in Requests, PublishCommit(q) PROVE row'[i].pub # 0
    <3>1. CASE i = req[q].inv
      BY <2>1, <3>1, CommitRow
    <3>2. CASE i # req[q].inv
      BY <1>1, <2>1, <3>2, CommitRow
    <3> QED
      BY <3>1, <3>2
  <2>2. ASSUME NEW q \in Requests, TransitionStatus(q) PROVE row'[i].pub # 0
    <3>1. row'[i] = row[i] \/ row'[i] = [row[i] EXCEPT !.status = req[q].next]
      BY <2>2 DEF TransitionStatus, Shape, TypeOK
    <3> QED
      BY <1>1, <2>0, <3>1 DEF Row
  <2>3. ASSUME NEW q \in Requests, RollbackWrite(q) PROVE row'[i].pub # 0
    <3>1. req[q].n # 0
      BY <2>3, AtRequest DEF Shape, Sound, RollbackWrite
    <3>2. row'[i] = row[i] \/ row'[i] = [row[i] EXCEPT !.pub = req[q].n]
      BY <2>3 DEF RollbackWrite, Shape, TypeOK
    <3> QED
      BY <1>1, <2>0, <3>1, <3>2 DEF Row
  <2>4. ASSUME NEW q \in Requests, NEW j \in Invitations, SoftDelete(q, j) PROVE row'[i].pub # 0
    <3>1. \/ row'[i] = row[i]
          \/ row'[i] = [row[i] EXCEPT !.status = "DELETED", !.deleted = TRUE, !.slug = None]
      BY <2>4 DEF SoftDelete, Shape, TypeOK
    <3> QED
      BY <1>1, <2>0, <3>1 DEF Row
  <2>5. ASSUME NEW w \in Sweepers, SweepWrite(w) PROVE row'[i].pub # 0
    <3>1. row'[i] = row[i] \/ row'[i] = [row[i] EXCEPT !.status = "EXPIRED"]
      BY <2>5 DEF SweepWrite
    <3> QED
      BY <1>1, <2>0, <3>1 DEF Row
  <2> QED
    BY <1>1, <2>1, <2>2, <2>3, <2>4, <2>5, WhoWritesRows
<1>2. ASSUME NEW s \in Slugs, retired'[s] # None PROVE row'[retired'[s]].pub # 0
  <2>1. CASE retired' = retired
    <3>1. retired[s] \in Invitations /\ row[retired[s]].pub # 0
      BY <1>2, <2>1 DEF Shape, TypeOK, RetiredArePublished
    <3> QED
      BY <1>1, <2>1, <3>1
  <2>2. ASSUME NEW q \in Requests, PublishCommit(q), retired' # retired
        PROVE  row'[retired'[s]].pub # 0
    <3>1. retired' = [retired EXCEPT ![req[q].old] = req[q].inv]
      BY <2>2 DEF PublishCommit
    <3>2. CASE retired'[s] = retired[s]
      <4>1. retired[s] \in Invitations /\ row[retired[s]].pub # 0
        BY <1>2, <3>2 DEF Shape, TypeOK, RetiredArePublished
      <4> QED
        BY <1>1, <3>2, <4>1
    <3>3. CASE retired'[s] # retired[s]
      <4>1. retired'[s] = req[q].inv
        BY <3>1, <3>3 DEF Shape, TypeOK
      <4> QED
        BY <2>2, <4>1, CommitRow
    <3> QED
      BY <3>2, <3>3
  <2>3. retired' = retired \/ \E q \in Requests : PublishCommit(q)
    BY WhoWritesRows DEF TransitionStatus, RollbackWrite, SoftDelete, SweepWrite
  <2> QED
    BY <2>1, <2>2, <2>3
<1> QED
  BY <1>2 DEF RetiredArePublished

Served == Shape /\ PointerResolves /\ LiveSlugsUnique /\ RetiredArePublished

LEMMA ServedInvariant == Spec => []Served
<1>1. Init => Served
  <2>1. ASSUME Init PROVE PointerResolves /\ LiveSlugsUnique /\ RetiredArePublished
    BY <2>1 DEF Init, PointerResolves, LiveSlugsUnique, RetiredArePublished
  <2> QED
    BY <2>1, InitShape DEF Served
<1>2. Served /\ [Next]_vars => Served'
  BY ShapeNext, PointerStep, SlugStep, RetiredStep DEF Served
<1> QED
  BY <1>1, <1>2, PTL DEF Spec

\* Whatever publishes, pauses, rollbacks, moderation, deletions, expiries and crashes have
\* interleaved, the published pointer names a version that exists, and no address is held
\* by two live invitations.
THEOREM PublicPageIsWellDefined == Spec => [](PointerResolves /\ LiveSlugsUnique)
  BY ServedInvariant, PTL DEF Served

\* A redirect from a retired address always arrives at the published page of the very
\* invitation that gave the address up.
THEOREM RedirectsArrive == Spec => []RedirectReachesItsInvitation
<1>1. ASSUME Served PROVE RedirectReachesItsInvitation
  <2> SUFFICES ASSUME NEW s \in Slugs, FindSlugRedirect(s) # None
               PROVE  FindPublishedBySlug(FindSlugRedirect(s)) = {retired[s]}
    BY DEF RedirectReachesItsInvitation
  <2>1. /\ retired[s] # None /\ ~row[retired[s]].deleted
        /\ FindSlugRedirect(s) = row[retired[s]].slug
    BY DEF FindSlugRedirect
  <2>2. retired[s] \in Invitations
    BY <1>1, <2>1 DEF Served, Shape, TypeOK
  <2>3. row[retired[s]].pub # 0 /\ row[retired[s]].slug # None
    BY <1>1, <2>1 DEF Served, RetiredArePublished
  <2>4. retired[s] \in FindPublishedBySlug(row[retired[s]].slug)
    BY <2>1, <2>2, <2>3 DEF FindPublishedBySlug
  <2>5. \A j \in FindPublishedBySlug(row[retired[s]].slug) : j = retired[s]
    BY <1>1, <2>1, <2>2, <2>3 DEF FindPublishedBySlug, Served, LiveSlugsUnique
  <2> QED
    BY <2>1, <2>4, <2>5
<1> QED
  BY <1>1, ServedInvariant, PTL

(* -------------------- each publish owns its version -------------------- *)

\* A publish that has committed, whether or not it has been recorded and answered.
Committed(r) == r.kind = "publish" /\ (r.pc = "record" \/ r.result = "ok")

Owns(q, r, vs) ==
  Committed(r) =>
    r.inv \in Invitations /\ r.n \in 1..Len(vs[r.inv]) /\ vs[r.inv][r.n] = q

VersionsOwned == \A q \in Requests : Owns(q, req[q], versions)

\* The record of a request after a step of q: it becomes r, and the others stay.
Becomes(q, r) == req' = [req EXCEPT ![q] = r]

\* A step that is not the commit of a publish makes no publish a committed one.
LEMMA NobodyElseCommits ==
  ASSUME Shape, [Next]_vars, ~\E q \in Requests : PublishCommit(q), NEW p \in Requests,
         Committed(req'[p])
  PROVE  /\ Committed(req[p])
         /\ req'[p].inv = req[p].inv /\ req'[p].n = req[p].n
<1> DEFINE Same == /\ Committed(req[p])
                   /\ req'[p].inv = req[p].inv /\ req'[p].n = req[p].n
<1>1. \A q \in Requests : req[q] \in Request /\ Sound(req[q], versions)
  BY AtRequest DEF Shape
<1>2. req'[p] = req[p] => Same
  OBVIOUS
<1>3. ASSUME NEW q \in Requests, NEW r, Becomes(q, r), p # q PROVE Same
  BY <1>2, <1>3 DEF Becomes, Shape, TypeOK
<1>4. ASSUME NEW r, Becomes(p, r) PROVE req'[p] = r
  BY <1>4 DEF Becomes, Shape, TypeOK
<1>5. ASSUME NEW q \in Requests, NEW result \in Results, Finish(q, result),
             req[q].pc \notin {"idle", "done"}, result = "ok" => req[q].pc = "record"
      PROVE  Same
  <2> DEFINE r == Asking(req[q].kind, req[q].inv, "done", None, req[q].n, None, result)
  <2>1. Becomes(q, r)
    BY <1>5 DEF Finish, Becomes
  <2>2. /\ r.kind = req[q].kind /\ r.inv = req[q].inv /\ r.n = req[q].n
        /\ r.pc = "done" /\ r.result = result
    BY DEF Asking
  <2> HIDE DEF r
  <2>3. CASE p = q
    <3>1. req'[p] = r
      BY <1>4, <2>1, <2>3
    <3>2. result = "ok" /\ req[q].kind = "publish"
      BY <2>2, <3>1 DEF Committed
    <3> QED BY <1>5, <2>2, <2>3, <3>1, <3>2 DEF Committed
  <2> QED BY <1>3, <2>1, <2>3
<1>6. ASSUME NEW q \in Requests, NEW r \in Request, Becomes(q, r),
             r.kind # "publish" \/ (r.pc # "record" /\ r.result # "ok")
      PROVE  Same
  BY <1>3, <1>4, <1>6 DEF Committed
<1>7. ASSUME NEW q \in Requests, NEW kind, NEW i, NEW pc, NEW s, NEW n, NEW to,
             NEW result, Becomes(q, Asking(kind, i, pc, s, n, to, result)),
             kind # "publish"
      PROVE  Same
  BY <1>3, <1>4, <1>7 DEF Committed, Asking
<1>8. ASSUME NEW q \in Requests, Arrive(q) PROVE Same
  <2>1. ASSUME NEW i \in Invitations, NEW s \in Slugs, NEW e \in Expiries \cup {None},
               PublishRead(q, i, s, e)
        PROVE  Same
    <3> DEFINE x == IF e = None THEN row[i].expires ELSE e
               r == [Asking("publish", i, "recheck", s, 0, None, "none") EXCEPT !.expires = x]
    <3>1. Becomes(q, r)
      BY <2>1 DEF PublishRead, Becomes
    <3>2. r.pc = "recheck" /\ r.result = "none"
      BY DEF Asking
    <3> HIDE DEF r
    <3> QED BY <1>3, <1>4, <3>1, <3>2 DEF Committed
  <2>2. ASSUME NEW i \in Invitations, UnpublishRead(q, i) PROVE Same
    <3>1. PICK to \in Statuses :
            Becomes(q, Asking("unpublish", i, "transition", row[i].slug, 0, to, "none"))
      BY <2>2 DEF UnpublishRead, Becomes
    <3> QED BY <1>7, <3>1
  <2>3. ASSUME NEW i \in Invitations, NEW action \in {"suspend", "unsuspend"},
               ModerateRead(q, i, action)
        PROVE  Same
    <3>1. PICK to \in Statuses :
            Becomes(q, Asking(action, i, "transition", row[i].slug, 0, to, "none"))
      BY <2>3 DEF ModerateRead, Becomes
    <3> QED BY <1>7, <3>1
  <2>4. ASSUME NEW i \in Invitations, NEW n \in 1..Len(versions[i]), RollbackRead(q, i, n)
        PROVE  Same
    <3>1. Becomes(q, Asking("rollback", i, "repoint", row[i].slug, n, None, "none"))
      BY <2>4 DEF RollbackRead, Becomes
    <3> QED BY <1>7, <3>1
  <2>5. ASSUME NEW i \in Invitations, SoftDelete(q, i) PROVE Same
    <3>1. Becomes(q, Asking("delete", i, "done", None, 0, None, "ok"))
      BY <2>5 DEF SoftDelete, Becomes
    <3> QED BY <1>7, <3>1
  <2> QED BY <1>8, <2>1, <2>2, <2>3, <2>4, <2>5 DEF Arrive
<1>9. ASSUME NEW q \in Requests, Continue(q) PROVE Same
  <2> DEFINE moves(pc) == [req[q] EXCEPT !.pc = pc]
  <2>1. req[q] \in Request /\ Sound(req[q], versions)
    BY <1>1
  <2>2. \A pc : /\ moves(pc).kind = req[q].kind /\ moves(pc).pc = pc
                /\ moves(pc).result = req[q].result
    BY <2>1 DEF Request
  <2>3. ASSUME NEW pc \in {"purge", "record"}, Becomes(q, moves(pc)),
               req[q].kind # "publish"
        PROVE  Same
    <3> HIDE DEF moves
    <3> QED BY <1>3, <1>4, <2>2, <2>3 DEF Committed
  <2>4. CASE PublishRecheck(q)
    <3> DEFINE r == [req[q] EXCEPT !.pc = "open", !.old = row[req[q].inv].slug]
    <3>1. req[q].pc = "recheck" /\ (Finish(q, "REFUSED") \/ Becomes(q, r))
      BY <2>4 DEF PublishRecheck, Becomes
    <3>2. r.pc = "open" /\ r.result = req[q].result
      BY <2>1 DEF Request
    <3>3. req[q].result = "none"
      BY <2>1, <3>1 DEF Sound
    <3> HIDE DEF r
    <3> QED BY <1>3, <1>4, <1>5, <3>1, <3>2, <3>3 DEF Committed, Results
  <2>5. CASE PublishOpen(q)
    <3> DEFINE r == [req[q] EXCEPT !.pc = "commit", !.n = Len(versions[req[q].inv]) + 1]
    <3>1. req[q].pc = "open" /\ Becomes(q, r)
      BY <2>5 DEF PublishOpen, Becomes
    <3>2. r.pc = "commit" /\ r.result = req[q].result
      BY <2>1 DEF Request
    <3>3. req[q].result = "none"
      BY <2>1, <3>1 DEF Sound
    <3> HIDE DEF r
    <3> QED BY <1>3, <1>4, <3>1, <3>2, <3>3 DEF Committed
  <2>6. CASE PublishAbort(q) \/ RecordAudit(q)
    BY <1>5, <2>6 DEF PublishAbort, RecordAudit, Results
  <2>7. CASE TransitionStatus(q)
    <3>1. req[q].pc = "transition" /\ req[q].kind # "publish"
      BY <2>1, <2>7 DEF TransitionStatus, Sound
    <3>2. \/ Finish(q, "REFUSED")
          \/ \E pc \in {"purge", "record"} : Becomes(q, moves(pc))
      BY <2>7 DEF TransitionStatus, Becomes
    <3> QED BY <1>5, <2>3, <3>1, <3>2 DEF Results
  <2>8. CASE PurgeEdge(q) \/ RollbackWrite(q)
    <3>1. req[q].kind # "publish" /\ Becomes(q, moves("record"))
      BY <2>1, <2>8 DEF PurgeEdge, RollbackWrite, Sound, Becomes
    <3> QED BY <2>3, <3>1
  <2> QED BY <1>9, <2>4, <2>5, <2>6, <2>7, <2>8 DEF Continue, Publish
<1>10. ASSUME NEW q \in Requests, Crash(q) PROVE Same
  BY <1>5, <1>10 DEF Crash, Results
<1>11. ASSUME NEW w \in Sweepers, SweepStep(w) \/ SweepCrash(w) PROVE Same
  BY <1>11 DEF SweepStep, SweepRead, SweepWrite, SweepConfirm, SweepRecord, SweepCrash
<1>12. CASE Tick \/ UNCHANGED vars
  BY <1>12 DEF Tick, vars
<1> QED BY <1>8, <1>9, <1>10, <1>11, <1>12 DEF Next

LEMMA OwnersStep ==
  ASSUME Shape, VersionsOwned, [Next]_vars
  PROVE  VersionsOwned'
<1>1. VersionsGrow
  BY StepGrowsVersions
<1>2. ASSUME NEW p \in Requests, Committed(req[p]), req'[p].inv = req[p].inv,
             req'[p].n = req[p].n
      PROVE  Owns(p, req'[p], versions')
  <2>1. /\ req[p].inv \in Invitations /\ req[p].n \in 1..Len(versions[req[p].inv])
        /\ versions[req[p].inv][req[p].n] = p
    BY <1>2 DEF VersionsOwned, Owns
  <2>2. /\ Len(versions[req[p].inv]) <= Len(versions'[req[p].inv])
        /\ versions'[req[p].inv][req[p].n] = versions[req[p].inv][req[p].n]
    BY <1>1, <2>1 DEF VersionsGrow
  <2>3. Len(versions[req[p].inv]) \in Nat /\ Len(versions'[req[p].inv]) \in Nat
    BY <2>1, ShapeNext, LenProperties DEF Shape, TypeOK
  <2> QED BY <1>2, <2>1, <2>2, <2>3 DEF Owns
<1>3. CASE ~\E q \in Requests : PublishCommit(q)
  BY <1>2, <1>3, NobodyElseCommits DEF VersionsOwned, Owns
<1>4. ASSUME NEW q \in Requests, PublishCommit(q) PROVE VersionsOwned'
  <2> DEFINE r == [req[q] EXCEPT !.pc = "record"]
  <2>1. req' = [req EXCEPT ![q] = r] /\ req[q] \in Request
    BY <1>4, AtRequest DEF PublishCommit, Shape
  <2>2. r.inv = req[q].inv /\ r.n = req[q].n
    BY <2>1 DEF Request
  <2>3. /\ req[q].inv \in Invitations
        /\ req[q].n = Len(versions[req[q].inv]) + 1
        /\ Len(versions[req[q].inv]) \in Nat
        /\ Len(versions'[req[q].inv]) = req[q].n
        /\ versions'[req[q].inv][req[q].n] = q
    <3>1. req[q].inv \in Invitations
      BY <1>4, CommitAppends
    <3> QED BY <1>4, <3>1, CommitAppends, AtRequest DEF Shape
  <2> HIDE DEF r
  <2>4. Owns(q, r, versions')
    BY <2>2, <2>3 DEF Owns
  <2>5. ASSUME NEW p \in Requests PROVE Owns(p, req'[p], versions')
    <3>1. CASE p = q
      BY <2>1, <2>4, <3>1 DEF Shape, TypeOK
    <3>2. CASE p # q
      <4>1. req'[p] = req[p]
        BY <2>1, <3>2 DEF Shape, TypeOK
      <4> QED BY <1>2, <4>1 DEF Owns
    <3> QED BY <3>1, <3>2
  <2> QED BY <2>5 DEF VersionsOwned
<1> QED BY <1>3, <1>4

\* Two publishes of one invitation never answer with the same version, however their reads,
\* checks and commits interleave and whichever of them are lost after the commit: the
\* number a request reports is the one its own transaction wrote.
THEOREM PublishesOwnTheirVersions == Spec => []EachPublishOwnsItsVersion
<1>1. Init => VersionsOwned
  BY DEF Init, VersionsOwned, Owns, Committed, Fresh, Asking
<1>2. Shape /\ VersionsOwned /\ [Next]_vars => VersionsOwned'
  BY OwnersStep
<1>3. Spec => []Shape
  BY InitShape, ShapeNext, PTL DEF Spec
<1>4. Spec => []VersionsOwned
  BY <1>1, <1>2, <1>3, PTL DEF Spec
<1>5. Shape /\ VersionsOwned => EachPublishOwnsItsVersion
  <2>1. ASSUME Shape, VersionsOwned, NEW q \in Requests, Committed(req[q])
        PROVE  /\ req[q].n \in DOMAIN versions[req[q].inv]
               /\ versions[req[q].inv][req[q].n] = q
    <3>1. /\ req[q].inv \in Invitations /\ req[q].n \in 1..Len(versions[req[q].inv])
          /\ versions[req[q].inv][req[q].n] = q
      BY <2>1 DEF VersionsOwned, Owns
    <3>2. DOMAIN versions[req[q].inv] = 1..Len(versions[req[q].inv])
      BY <2>1, <3>1, LenProperties DEF Shape, TypeOK
    <3> QED BY <3>1, <3>2
  <2> QED BY <2>1 DEF EachPublishOwnsItsVersion, Committed
<1> QED BY <1>3, <1>4, <1>5, PTL

(* --------------------------- the expiry sweep -------------------------- *)

\* A sweep decides by the instant it began at, which is never ahead of the clock.
SweepsBehind == \A w \in Sweepers : sweep[w].pc = "write" => sweep[w].now <= clock

LEMMA SweepsBehindStep ==
  ASSUME Shape, SweepsBehind, [Next]_vars
  PROVE  SweepsBehind'
<1>1. /\ sweep \in [Sweepers -> Sweep] /\ clock \in Nat
      /\ \A w \in Sweepers : sweep[w] \in Sweep /\ sweep[w].now \in Nat
  BY PublicationAssumption DEF Shape, TypeOK, Sweep
<1>2. ASSUME NEW w \in Sweepers, NEW s, sweep' = [sweep EXCEPT ![w] = s], clock' = clock,
             s.pc = "write" => s.now <= clock
      PROVE  SweepsBehind'
  BY <1>1, <1>2 DEF SweepsBehind
<1>3. ASSUME NEW w \in Sweepers, SweepStep(w) PROVE SweepsBehind'
  <2>1. ASSUME NEW ids, SweepRead(w, ids) PROVE SweepsBehind'
    <3> DEFINE s == [pc |-> "write", now |-> clock, ids |-> ids]
    <3>1. sweep' = [sweep EXCEPT ![w] = s] /\ clock' = clock
      BY <2>1 DEF SweepRead
    <3>2. s.now <= clock
      BY <1>1
    <3> HIDE DEF s
    <3> QED BY <1>2, <3>1, <3>2
  <2>2. ASSUME SweepWrite(w) PROVE SweepsBehind'
    <3> DEFINE pc == IF StillDue(w) = sweep[w].ids THEN "record" ELSE "confirm"
               s == [sweep[w] EXCEPT !.pc = pc]
    <3>1. sweep' = [sweep EXCEPT ![w] = s] /\ clock' = clock
      BY <2>2 DEF SweepWrite
    <3>2. s.pc # "write"
      BY <1>1 DEF Sweep
    <3> HIDE DEF s
    <3> QED BY <1>2, <3>1, <3>2
  <2>3. ASSUME SweepConfirm(w) \/ \E i \in Invitations : SweepRecord(w, i) PROVE SweepsBehind'
    <3>1. \E s : sweep' = [sweep EXCEPT ![w] = s] /\ s.pc # "write" /\ clock' = clock
      <4> DEFINE confirmed(ids) == [sweep[w] EXCEPT !.pc = "record", !.ids = ids]
                 rest(ids) == [sweep[w] EXCEPT !.ids = ids]
      <4>1. NoSweep.pc # "write" /\ \A ids : confirmed(ids).pc # "write"
        BY <1>1 DEF NoSweep, Sweep
      <4>2. sweep[w].pc = "record" => \A ids : rest(ids).pc # "write"
        BY <1>1 DEF Sweep
      <4>3. SweepConfirm(w) => \E ids : \/ sweep' = [sweep EXCEPT ![w] = NoSweep]
                                        \/ sweep' = [sweep EXCEPT ![w] = confirmed(ids)]
        BY DEF SweepConfirm
      <4>4. ASSUME NEW i \in Invitations, SweepRecord(w, i)
            PROVE  /\ sweep[w].pc = "record"
                   /\ \E ids : \/ sweep' = [sweep EXCEPT ![w] = NoSweep]
                               \/ sweep' = [sweep EXCEPT ![w] = rest(ids)]
        BY <4>4 DEF SweepRecord
      <4>5. clock' = clock
        BY <2>3 DEF SweepConfirm, SweepRecord
      <4> HIDE DEF confirmed, rest
      <4> QED BY <2>3, <4>1, <4>2, <4>3, <4>4, <4>5
    <3> QED BY <1>2, <3>1
  <2> QED BY <1>3, <2>1, <2>2, <2>3 DEF SweepStep
<1>4. ASSUME NEW w \in Sweepers, SweepCrash(w) PROVE SweepsBehind'
  <2>1. sweep' = [sweep EXCEPT ![w] = NoSweep] /\ clock' = clock
    BY <1>4 DEF SweepCrash
  <2> QED BY <1>2, <2>1 DEF NoSweep
<1>5. CASE Tick
  BY <1>1, <1>5 DEF Tick, SweepsBehind
<1>6. CASE UNCHANGED <<sweep, clock>>
  BY <1>6 DEF SweepsBehind
<1>7. ASSUME NEW q \in Requests, Arrive(q) \/ Continue(q) \/ Crash(q)
      PROVE  UNCHANGED <<sweep, clock>>
  BY <1>7 DEF Arrive, PublishRead, UnpublishRead, ModerateRead, RollbackRead, SoftDelete,
              Continue, Publish, PublishRecheck, PublishOpen, PublishCommit, PublishAbort,
              TransitionStatus, PurgeEdge, RollbackWrite, RecordAudit, Crash
<1>8. UNCHANGED vars => UNCHANGED <<sweep, clock>>
  BY DEF vars
<1> QED BY <1>3, <1>4, <1>5, <1>6, <1>7, <1>8 DEF Next

\* How each of the writing statements leaves the status of an invitation.
LEMMA StatusChanges ==
  ASSUME Shape, [Next]_vars, NEW i \in Invitations, row'[i].status # row[i].status
  PROVE  \/ \E q \in Requests : PublishCommit(q) /\ req[q].inv = i /\ row'[i].status = "PUBLISHED"
         \/ \E q \in Requests : /\ TransitionStatus(q) /\ req[q].inv = i
                                /\ row'[i].status = req[q].next
                                /\ req'[q].pc = IF req[q].kind = "unpublish" THEN "record"
                                                ELSE "purge"
         \/ row'[i].status = "DELETED"
         \/ \E w \in Sweepers : /\ sweep[w].pc = "write" /\ row[i].status = "PUBLISHED"
                                /\ Passed(row[i].expires, sweep[w].now)
                                /\ row'[i].status = "EXPIRED"
<1> USE DEF Shape
<1>1. row \in [Invitations -> Row] /\ row[i] \in Row
  BY DEF TypeOK
<1>2. ASSUME NEW q \in Requests, PublishCommit(q)
      PROVE  req[q].inv = i /\ row'[i].status = "PUBLISHED"
  BY <1>2, CommitRow
<1>3. ASSUME NEW q \in Requests, TransitionStatus(q)
      PROVE  /\ req[q].inv = i /\ row'[i].status = req[q].next
             /\ req'[q].pc = IF req[q].kind = "unpublish" THEN "record" ELSE "purge"
  <2> DEFINE r == row[req[q].inv]
  <2>1. ~r.deleted
    BY <1>3 DEF TransitionStatus
  <2>2. /\ row' = [row EXCEPT ![req[q].inv] = [r EXCEPT !.status = req[q].next]]
        /\ req' = [req EXCEPT ![q].pc = IF req[q].kind = "unpublish" THEN "record" ELSE "purge"]
    BY <1>3, <2>1 DEF TransitionStatus
  <2>3. req[q].inv = i
    BY <1>1, <2>2
  <2> QED BY <1>1, <2>2, <2>3 DEF Row, TypeOK, Request
<1>4. ASSUME NEW q \in Requests, RollbackWrite(q) PROVE FALSE
  <2>1. row' = [row EXCEPT ![req[q].inv] = [row[req[q].inv] EXCEPT !.pub = req[q].n]]
    BY <1>4 DEF RollbackWrite
  <2>2. req[q].inv # i
    BY <1>1, <2>1 DEF Row
  <2> QED BY <1>1, <2>1, <2>2
<1>5. ASSUME NEW q \in Requests, NEW j \in Invitations, SoftDelete(q, j)
      PROVE  row'[i].status = "DELETED"
  <2>1. row' = [row EXCEPT ![j] = [row[j] EXCEPT !.status = "DELETED", !.deleted = TRUE,
                                                 !.slug = None]]
    BY <1>5 DEF SoftDelete
  <2>2. i = j
    BY <1>1, <2>1
  <2> QED BY <1>1, <2>1, <2>2 DEF Row
<1>6. ASSUME NEW w \in Sweepers, SweepWrite(w)
      PROVE  /\ sweep[w].pc = "write" /\ row[i].status = "PUBLISHED"
             /\ Passed(row[i].expires, sweep[w].now)
             /\ row'[i].status = "EXPIRED"
  <2>1. row'[i] = IF i \in StillDue(w) THEN [row[i] EXCEPT !.status = "EXPIRED"] ELSE row[i]
    BY <1>6 DEF SweepWrite
  <2>2. i \in StillDue(w)
    BY <2>1
  <2> QED BY <1>1, <1>6, <2>1, <2>2 DEF StillDue, SweepWrite, Row
<1> QED BY <1>2, <1>3, <1>4, <1>5, <1>6, WhoWritesRows

ExpiresOnlyDue(i) ==
  row[i].status # "EXPIRED" /\ row'[i].status = "EXPIRED"
  => row[i].status = "PUBLISHED" /\ Passed(row[i].expires, clock)

\* The sweep decides again in its UPDATE: whatever was republished, paused or given another
\* expiry since its SELECT, and however many sweeps run, only what is due then expires.
THEOREM SweepsSpareTheRepublished == Spec => SweepHonoursRepublish
<1>1. Spec => []Shape
  BY InitShape, ShapeNext, PTL DEF Spec
<1>2. Init => SweepsBehind
  BY DEF Init, NoSweep, SweepsBehind
<1>3. Shape /\ SweepsBehind /\ [Next]_vars => SweepsBehind'
  BY SweepsBehindStep
<1>4. Spec => []SweepsBehind
  BY <1>1, <1>2, <1>3, PTL DEF Spec
<1>5. Shape /\ SweepsBehind /\ [Next]_vars => [\A i \in Invitations : ExpiresOnlyDue(i)]_vars
  <2>1. ASSUME Shape, SweepsBehind, [Next]_vars, NEW i \in Invitations,
               row[i].status # "EXPIRED", row'[i].status = "EXPIRED"
        PROVE  row[i].status = "PUBLISHED" /\ Passed(row[i].expires, clock)
    <3>1. ASSUME NEW q \in Requests, TransitionStatus(q) PROVE req[q].next # "EXPIRED"
      BY <2>1, <3>1, AtRequest DEF Shape, Sound, TransitionStatus
    <3>2. PICK w \in Sweepers : /\ sweep[w].pc = "write" /\ row[i].status = "PUBLISHED"
                                /\ Passed(row[i].expires, sweep[w].now)
      BY <2>1, <3>1, StatusChanges
    <3>3. /\ sweep[w].now <= clock /\ sweep[w].now \in Nat /\ clock \in Nat
          /\ row[i].expires \in Nat \cup {Never}
      BY <2>1, <3>2, PublicationAssumption
         DEF SweepsBehind, Shape, TypeOK, Sweep, Row, Expiries
    <3> QED BY <3>2, <3>3 DEF Passed
  <2> QED BY <2>1 DEF ExpiresOnlyDue
<1> QED BY <1>1, <1>4, <1>5, PTL DEF Spec, SweepHonoursRepublish, ExpiresOnlyDue

(* ------------------------------ suspension ----------------------------- *)

HoldsOnceQuiet(i) ==
  row[i].status = "SUSPENDED"
  => /\ LetThrough(i)' \subseteq LetThrough(i)
     /\ \/ row'[i].status \in {"SUSPENDED", "DELETED"}
        \/ StaffLifts(i)
        \/ LetThrough(i) # {}

\* Which step of q could let it through about i: a read of the row, for the last time.
LEMMA LettingThrough ==
  ASSUME Shape, [Next]_vars, NEW i \in Invitations, NEW p \in Requests,
         row[i].status = "SUSPENDED", p \in LetThrough(i)'
  PROVE  p \in LetThrough(i)
<1> DEFINE Through(r) == /\ r.inv = i /\ r.kind # "unsuspend"
                         /\ r.pc \in {"open", "commit", "transition"}
<1>1. Through(req'[p])
  BY DEF LetThrough
<1>2. SUFFICES Through(req[p])
  BY DEF LetThrough
<1>3. req[p] \in Request /\ Sound(req[p], versions)
  BY AtRequest DEF Shape
<1>4. ASSUME NEW q \in Requests, NEW r, Becomes(q, r), ~Through(r) PROVE Through(req[p])
  BY <1>1, <1>4 DEF Becomes, Shape, TypeOK
<1>5. ASSUME NEW q \in Requests, NEW result, Finish(q, result) PROVE Through(req[p])
  <2> DEFINE r == Asking(req[q].kind, req[q].inv, "done", None, req[q].n, None, result)
  <2>1. Becomes(q, r) /\ r.pc = "done"
    BY <1>5 DEF Finish, Becomes, Asking
  <2> HIDE DEF r
  <2> QED BY <1>4, <2>1
<1>6. ASSUME NEW q \in Requests, NEW pc \in {"purge", "record"},
             Becomes(q, [req[q] EXCEPT !.pc = pc])
      PROVE  Through(req[p])
  <2>1. [req[q] EXCEPT !.pc = pc].pc = pc
    BY AtRequest DEF Shape, Request
  <2> QED BY <1>4, <1>6, <2>1
<1>7. ASSUME NEW q \in Requests, Arrive(q) PROVE Through(req[p])
  <2>1. ASSUME NEW j \in Invitations, NEW s \in Slugs, NEW e \in Expiries \cup {None},
               PublishRead(q, j, s, e)
        PROVE  Through(req[p])
    <3> DEFINE x == IF e = None THEN row[j].expires ELSE e
               r == [Asking("publish", j, "recheck", s, 0, None, "none") EXCEPT !.expires = x]
    <3>1. Becomes(q, r)
      BY <2>1 DEF PublishRead, Becomes
    <3>2. r.pc = "recheck"
      BY DEF Asking
    <3> HIDE DEF r
    <3> QED BY <1>4, <3>1, <3>2
  <2>2. ASSUME NEW j \in Invitations, UnpublishRead(q, j) PROVE Through(req[p])
    <3>1. PICK to \in Statuses :
            /\ <<row[j].status, "unpublish", to>> \in Lifecycle
            /\ Becomes(q, Asking("unpublish", j, "transition", row[j].slug, 0, to, "none"))
      BY <2>2 DEF UnpublishRead, Becomes
    <3>2. row[j].status = "PUBLISHED"
      BY <3>1 DEF Lifecycle
    <3>3. Asking("unpublish", j, "transition", row[j].slug, 0, to, "none").inv # i
      BY <3>2 DEF Asking
    <3> QED BY <1>4, <3>1, <3>3
  <2>3. ASSUME NEW j \in Invitations, NEW action \in {"suspend", "unsuspend"},
               ModerateRead(q, j, action)
        PROVE  Through(req[p])
    <3>1. PICK to \in Statuses :
            /\ <<row[j].status, action, to>> \in Lifecycle
            /\ Becomes(q, Asking(action, j, "transition", row[j].slug, 0, to, "none"))
      BY <2>3 DEF ModerateRead, Becomes
    <3>2. action = "unsuspend" \/ row[j].status # "SUSPENDED"
      BY <3>1 DEF Lifecycle
    <3>3. LET r == Asking(action, j, "transition", row[j].slug, 0, to, "none")
          IN  r.inv # i \/ r.kind = "unsuspend"
      BY <3>2 DEF Asking
    <3> QED BY <1>4, <3>1, <3>3
  <2>4. ASSUME NEW j \in Invitations, NEW n \in 1..Len(versions[j]), RollbackRead(q, j, n)
        PROVE  Through(req[p])
    <3> DEFINE r == Asking("rollback", j, "repoint", row[j].slug, n, None, "none")
    <3>1. Becomes(q, r) /\ r.pc = "repoint"
      BY <2>4 DEF RollbackRead, Becomes, Asking
    <3> HIDE DEF r
    <3> QED BY <1>4, <3>1
  <2>5. ASSUME NEW j \in Invitations, SoftDelete(q, j) PROVE Through(req[p])
    <3> DEFINE r == Asking("delete", j, "done", None, 0, None, "ok")
    <3>1. Becomes(q, r) /\ r.pc = "done"
      BY <2>5 DEF SoftDelete, Becomes, Asking
    <3> HIDE DEF r
    <3> QED BY <1>4, <3>1
  <2> QED BY <1>7, <2>1, <2>2, <2>3, <2>4, <2>5 DEF Arrive
<1>8. ASSUME NEW q \in Requests, PublishRecheck(q) PROVE Through(req[p])
  <2> DEFINE r == [req[q] EXCEPT !.pc = "open", !.old = row[req[q].inv].slug]
  <2>1. CASE req[q].inv = i
    <3>1. Finish(q, "REFUSED")
      BY <1>8, <2>1 DEF PublishRecheck
    <3> QED BY <1>5, <3>1
  <2>2. CASE req[q].inv # i
    <3>1. r.inv # i
      BY <2>2, AtRequest DEF Shape, Request
    <3>2. Finish(q, "REFUSED") \/ Becomes(q, r)
      BY <1>8 DEF PublishRecheck, Becomes
    <3> HIDE DEF r
    <3> QED BY <1>4, <1>5, <3>1, <3>2
  <2> QED BY <2>1, <2>2
<1>9. ASSUME NEW q \in Requests, PublishOpen(q) PROVE Through(req[p])
  <2> DEFINE r == [req[q] EXCEPT !.pc = "commit", !.n = Len(versions[req[q].inv]) + 1]
  <2>1. Becomes(q, r) /\ req[q].pc = "open" /\ req[q] \in Request
    BY <1>9, AtRequest DEF PublishOpen, Becomes, Shape
  <2>2. r.inv = req[q].inv /\ r.kind = req[q].kind
    BY <2>1 DEF Request
  <2> HIDE DEF r
  <2>3. CASE p = q
    <3>1. req'[p] = r
      BY <2>1, <2>3 DEF Becomes, Shape, TypeOK
    <3> QED BY <1>1, <2>1, <2>2, <2>3, <3>1
  <2>4. CASE p # q
    BY <1>1, <2>1, <2>4 DEF Becomes, Shape, TypeOK
  <2> QED BY <2>3, <2>4
<1>10. ASSUME NEW q \in Requests, Continue(q), ~PublishRecheck(q), ~PublishOpen(q)
       PROVE  Through(req[p])
  <2>1. \/ \E result : Finish(q, result)
        \/ \E pc \in {"purge", "record"} : Becomes(q, [req[q] EXCEPT !.pc = pc])
    BY <1>10 DEF Continue, Publish, PublishCommit, PublishAbort, TransitionStatus, PurgeEdge,
                 RollbackWrite, RecordAudit, Becomes
  <2> QED BY <1>5, <1>6, <2>1
<1>11. ASSUME NEW q \in Requests, Crash(q) PROVE Through(req[p])
  BY <1>5, <1>11 DEF Crash
<1>12. ASSUME req' = req PROVE Through(req[p])
  BY <1>1, <1>12
<1>13. ASSUME NEW w \in Sweepers, SweepStep(w) \/ SweepCrash(w) PROVE req' = req
  BY <1>13 DEF SweepStep, SweepRead, SweepWrite, SweepConfirm, SweepRecord, SweepCrash
<1>14. Tick \/ UNCHANGED vars => req' = req
  BY DEF Tick, vars
<1> QED BY <1>7, <1>8, <1>9, <1>10, <1>11, <1>12, <1>13, <1>14 DEF Next

\* Once a suspension has landed nothing further gets past the checks, and when what was let
\* through before it has drained, only staff lift it and only a deletion replaces it.
THEOREM SuspensionsHold == Spec => SuspensionHoldsOnceQuiet
<1>1. Spec => []Shape
  BY InitShape, ShapeNext, PTL DEF Spec
<1>2. Shape /\ [Next]_vars => [\A i \in Invitations : HoldsOnceQuiet(i)]_vars
  <2>1. ASSUME Shape, [Next]_vars, NEW i \in Invitations, row[i].status = "SUSPENDED"
        PROVE  LetThrough(i)' \subseteq LetThrough(i)
    <3>1. \A p \in LetThrough(i)' : p \in Requests
      BY DEF LetThrough
    <3> QED BY <2>1, <3>1, LettingThrough
  <2>2. ASSUME Shape, [Next]_vars, NEW i \in Invitations, row[i].status = "SUSPENDED",
               row'[i].status # "SUSPENDED", row'[i].status # "DELETED"
        PROVE  StaffLifts(i) \/ LetThrough(i) # {}
    <3>1. ASSUME NEW q \in Requests, PublishCommit(q), req[q].inv = i
          PROVE  q \in LetThrough(i)
      BY <2>2, <3>1, AtRequest DEF Shape, PublishCommit, Sound, LetThrough
    <3>2. ASSUME NEW q \in Requests, TransitionStatus(q), req[q].inv = i,
                 req'[q].pc = IF req[q].kind = "unpublish" THEN "record" ELSE "purge"
          PROVE  q \in LetThrough(i) \/ StaffLifts(i)
      BY <3>2 DEF TransitionStatus, LetThrough, StaffLifts
    <3> QED BY <2>2, <3>1, <3>2, StatusChanges
  <2> QED BY <2>1, <2>2 DEF HoldsOnceQuiet
<1> QED BY <1>1, <1>2, PTL DEF Spec, SuspensionHoldsOnceQuiet, HoldsOnceQuiet

(* -------------------------------- the edge ----------------------------- *)

\* A step with the cache in front is a step of Publication, or leaves it alone.
LEMMA EdgeStepIsPublicationStep ==
  ASSUME [EdgeNext]_<<vars, edgeVars>>
  PROVE  [Next]_vars
<1>1. RowStep => Next
  <2>1. ASSUME NEW q \in Requests, NEW i \in Invitations,
               \/ \E s \in Slugs, e \in Expiries \cup {None} : PublishRead(q, i, s, e)
               \/ UnpublishRead(q, i)
               \/ \E n \in 1..Len(versions[i]) : RollbackRead(q, i, n)
               \/ SoftDelete(q, i)
        PROVE  Next
    <3>1. Arrive(q)
      BY <2>1 DEF Arrive
    <3> QED BY <3>1 DEF Next
  <2>2. ASSUME NEW q \in Requests,
               Publish(q) \/ TransitionStatus(q) \/ RollbackWrite(q) \/ RecordAudit(q) \/ Crash(q)
        PROVE  Next
    BY <2>2 DEF Continue, Next
  <2>3. ASSUME NEW w \in Sweepers, SweepStep(w) \/ SweepCrash(w) PROVE Next
    BY <2>3 DEF Next
  <2>4. Tick => Next
    BY DEF Next
  <2> QED BY <2>1, <2>2, <2>3, <2>4 DEF RowStep
<1>2. PurgeStep => Next
  <2>1. ASSUME NEW q \in Requests, NEW i \in Invitations, NEW action \in {"suspend", "unsuspend"},
               ModerateRead(q, i, action)
        PROVE  Next
    <3>1. Arrive(q)
      BY <2>1 DEF Arrive
    <3> QED BY <3>1 DEF Next
  <2>2. ASSUME NEW q \in Requests, PurgeEdge(q) PROVE Next
    BY <2>2 DEF Continue, Next
  <2> QED BY <2>1, <2>2 DEF PurgeStep, ModerateReadPaths, PurgeOk, PurgeFails
<1>3. VisitStep \/ AgeEdge => UNCHANGED vars
  BY DEF VisitStep, VisitRead, VisitAnswer, AgeEdge
<1>4. UNCHANGED <<vars, edgeVars>> => UNCHANGED vars
  OBVIOUS
<1> QED BY <1>1, <1>2, <1>3, <1>4 DEF EdgeNext

\* The cache in front of the pages, its purges and its visitors change nothing of what
\* publishing, moderating and expiring do: every theorem above holds with them.
THEOREM EdgeChangesNoRow == EdgeSpec => Spec
<1>1. EdgeInit => Init
  BY DEF EdgeInit
<1>2. [EdgeNext]_<<vars, edgeVars>> => [Next]_vars
  BY EdgeStepIsPublicationStep
<1> QED BY <1>1, <1>2, PTL DEF EdgeSpec, Spec

\* The copies are kept by address, and a visit keeps what it read of a row.
EdgeTyped ==
  /\ edge \in [Slugs -> Copy]
  /\ visit \in [Guests -> Visit]

LEMMA EdgeTypedStep ==
  ASSUME Shape, EdgeTyped, [EdgeNext]_<<vars, edgeVars>>
  PROVE  EdgeTyped'
<1>1. NoCopy \in Copy /\ Away \in Visit
  BY EdgeAssumption, PublicationAssumption DEF NoCopy, Copy, Away, Visit, Expiries
<1>2. CASE UNCHANGED edgeVars
  BY <1>2 DEF EdgeTyped, edgeVars
<1>3. CASE PurgeStep
  <2>1. visit' = visit
        /\ (edge' = edge \/ \E q \in Requests : 
               edge' = [s \in Slugs |-> IF s \in addresses[q] THEN NoCopy ELSE edge[s]])
    BY <1>3 DEF PurgeStep, ModerateReadPaths, PurgeOk, PurgeFails
  <2> QED BY <1>1, <2>1 DEF EdgeTyped
<1>4. ASSUME NEW g \in Guests, NEW s \in Slugs, NEW i \in Invitations, VisitRead(g, s, i)
      PROVE  EdgeTyped'
  <2>1. row[i] \in Row /\ clock \in 0..MaxTime
    BY DEF Shape, TypeOK
  <2>2. [slug |-> s, inv |-> i, n |-> row[i].pub, status |-> row[i].status,
         expires |-> row[i].expires, now |-> clock] \in Visit
    BY <2>1 DEF Row, Visit
  <2> QED BY <1>4, <2>2 DEF VisitRead, EdgeTyped
<1>5. ASSUME NEW g \in Guests, VisitAnswer(g) PROVE EdgeTyped'
  <2> DEFINE v == visit[g]
  <2>1. v \in Visit /\ visit' \in [Guests -> Visit]
    BY <1>1, <1>5 DEF VisitAnswer, EdgeTyped
  <2>2. [inv |-> v.inv, n |-> v.n, age |-> 0] \in Copy
    BY <2>1, EdgeAssumption DEF Visit, Copy
  <2>3. edge' \in [Slugs -> Copy]
    BY <1>1, <1>5, <2>2 DEF VisitAnswer, EdgeTyped
  <2> QED BY <2>1, <2>3 DEF EdgeTyped
<1>6. CASE AgeEdge
  <2>1. ASSUME NEW s \in Slugs, edge[s].inv # None, ~(edge[s].age >= Shelf - 1)
        PROVE  [edge[s] EXCEPT !.age = @ + 1] \in Copy
    BY <2>1, EdgeAssumption DEF EdgeTyped, Copy
  <2>2. /\ visit' = visit
        /\ edge' = [s \in Slugs |-> IF edge[s].inv = None \/ edge[s].age >= Shelf - 1
                                    THEN NoCopy ELSE [edge[s] EXCEPT !.age = @ + 1]]
    BY <1>6 DEF AgeEdge
  <2> QED BY <1>1, <2>1, <2>2 DEF EdgeTyped
<1> QED BY <1>2, <1>3, <1>4, <1>5, <1>6 DEF EdgeNext, VisitStep, edgeVars

OffEdge(i) ==
  /\ row[i].status = "SUSPENDED"
  /\ \A g \in Guests : visit[g].inv = i => visit[g].status = "SUSPENDED"
  => CopiesOf(i)' \subseteq CopiesOf(i)

\* The kill switch: however purges fail and answers are delayed, nothing that was read of a
\* suspended invitation while it was suspended is put on the edge.
THEOREM KillSwitchHolds == EdgeSpec => SuspendedStaysOffEdge
<1>1. EdgeSpec => []Shape
  BY EdgeChangesNoRow, InitShape, ShapeNext, PTL DEF Spec
<1>2. EdgeInit => EdgeTyped
  BY EdgeAssumption, PublicationAssumption
     DEF EdgeInit, EdgeTyped, NoCopy, Copy, Away, Visit, Expiries
<1>3. Shape /\ EdgeTyped /\ [EdgeNext]_<<vars, edgeVars>> => EdgeTyped'
  BY EdgeTypedStep
<1>4. EdgeSpec => []EdgeTyped
  BY <1>1, <1>2, <1>3, PTL DEF EdgeSpec
<1>5. Shape /\ EdgeTyped /\ [EdgeNext]_<<vars, edgeVars>>
      => [\A i \in Invitations : OffEdge(i)]_<<vars, edgeVars>>
  <2>1. ASSUME Shape, EdgeTyped, [EdgeNext]_<<vars, edgeVars>>, NEW i \in Invitations,
               row[i].status = "SUSPENDED",
               \A g \in Guests : visit[g].inv = i => visit[g].status = "SUSPENDED",
               NEW s \in CopiesOf(i)'
        PROVE  s \in CopiesOf(i)
    <3>1. s \in Slugs /\ edge'[s].inv = i /\ i # None /\ NoCopy.inv # i
      BY PublicationAssumption DEF CopiesOf, NoCopy
    <3>2. SUFFICES edge[s].inv = i
      BY <3>1 DEF CopiesOf
    <3>3. edge[s] \in Copy
      BY <2>1, <3>1 DEF EdgeTyped
    <3>4. CASE edge' = edge
      BY <3>1, <3>4
    <3>5. ASSUME NEW q \in Requests, PurgeOk(q) PROVE edge[s].inv = i
      BY <3>1, <3>5 DEF PurgeOk
    <3>6. ASSUME NEW g \in Guests, VisitAnswer(g) PROVE edge[s].inv = i
      <4>1. CASE MayStore(visit[g])
        <5>1. visit[g].inv # i
          BY <2>1, <4>1 DEF MayStore, PublicAccess
        <5>2. edge' = [edge EXCEPT ![visit[g].slug] = [inv |-> visit[g].inv, n |-> visit[g].n,
                                                       age |-> 0]]
          BY <3>6, <4>1 DEF VisitAnswer
        <5> QED BY <2>1, <3>1, <5>1, <5>2 DEF EdgeTyped
      <4>2. CASE ~MayStore(visit[g])
        <5>1. edge' = edge \/ edge' = [edge EXCEPT ![visit[g].slug] = NoCopy]
          BY <3>6, <4>2 DEF VisitAnswer
        <5> QED BY <2>1, <3>1, <5>1 DEF EdgeTyped
      <4> QED BY <4>1, <4>2
    <3>7. ASSUME AgeEdge PROVE edge[s].inv = i
      BY <3>1, <3>3, <3>7 DEF AgeEdge, Copy
    <3>8. edge' = edge \/ AgeEdge \/ (\E q \in Requests : PurgeOk(q))
            \/ \E g \in Guests : VisitAnswer(g)
      BY <2>1 DEF EdgeNext, PurgeStep, VisitStep, ModerateReadPaths, PurgeFails, VisitRead, edgeVars
    <3> QED BY <3>4, <3>5, <3>6, <3>7, <3>8
  <2> QED BY <2>1 DEF OffEdge
<1> QED BY <1>1, <1>4, <1>5, PTL DEF EdgeSpec, SuspendedStaysOffEdge, OffEdge

=============================================================================
