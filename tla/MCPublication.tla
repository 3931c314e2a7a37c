--------------------------- MODULE MCPublication ---------------------------
(* Small instances of Publication, with the edge of PublicEdge in front of it, for TLC. *)
EXTENDS PublicEdge

\* What a behaviour is about: three requests of any kind, the expiry job beside two, or the
\* public page of a published invitation beside two.
VARIABLE watched

everything == <<vars, edgeVars, watched>>

First(set) == CHOOSE x \in set : TRUE

Idle == {q \in Requests : req[q].pc = "idle"}

Begins(q) == q \in Idle /\ req'[q].pc # "idle"

\* Without the symmetries: requests in their order, the first about the first invitation and
\* the first address.
InOrder ==
  \A q \in Requests : Begins(q) =>
    /\ q = First(Idle)
    /\ Idle = Requests => req'[q].inv = First(Invitations) /\ req'[q].slug \in {First(Slugs), None}

NobodyLooks == visit' = visit

\* Requests of every kind about invitations that do not expire.
AboutRequests == NobodyLooks /\ clock' = clock /\ \A q \in Requests : req'[q].expires = Never

\* Two sweeps, time, and two requests that publish (each invitation at an address of its
\* own), pause or suspend.
AboutSweeps ==
  /\ NobodyLooks
  /\ \A q \in Requests : Begins(q) =>
       /\ Cardinality(Idle) > 1
       /\ req'[q].kind \in {"publish", "unpublish", "suspend"}
       /\ req'[q].kind = "publish" =>
            (req'[q].slug = First(Slugs)) = (req'[q].inv = First(Invitations))

\* Visits to what the first request published, and requests of every kind.
AboutPages == clock' = clock /\ \A q \in Requests : req'[q].expires = Never

\* The first publication of an invitation has been recorded.
Published ==
  LET i == First(Invitations)  s == First(Slugs)  q == First(Requests) IN
  /\ row = [j \in Invitations |->
              IF j = i THEN [status |-> "PUBLISHED", slug |-> s, pub |-> 1,
                             expires |-> Never, deleted |-> FALSE]
              ELSE [status |-> "DRAFT", slug |-> None, pub |-> 0,
                    expires |-> Never, deleted |-> FALSE]]
  /\ versions = [j \in Invitations |-> IF j = i THEN <<q>> ELSE <<>>]
  /\ retired = [t \in Slugs |-> None]
  /\ audit = {[inv |-> i, kind |-> "publish", slug |-> s, n |-> 1]}
  /\ req = [p \in Requests |-> IF p = q THEN Asking("publish", i, "done", None, 1, None, "ok")
                               ELSE Fresh]
  /\ sweep = [w \in Sweepers |-> NoSweep]
  /\ clock = 0
  /\ edge = [t \in Slugs |-> NoCopy]
  /\ visit = [g \in Guests |-> Away]
  /\ addresses = [p \in Requests |-> {}]

MCInit == \/ EdgeInit /\ watched \in {"requests", "sweeps"}
          \/ Published /\ watched = "pages"

MCNext ==
  /\ EdgeNext
  /\ InOrder
  /\ watched = "requests" => AboutRequests
  /\ watched = "sweeps" => AboutSweeps
  /\ watched = "pages" => AboutPages
  /\ UNCHANGED watched

MCSpec ==
  /\ MCInit /\ [][MCNext]_everything
  /\ EdgeFairness
  /\ \A w \in Sweepers : WF_vars(SweepStep(w)) /\ SF_vars(SweepWrite(w))

=============================================================================
