-------------------------------- MODULE Rsvp --------------------------------
(***************************************************************************)
(* Replies to one invitation: submitRsvp, editRsvp, deleteRsvp             *)
(* (core/src/rsvp/usecases/submit-rsvp.ts) over the transactions of        *)
(* db/src/repositories/rsvp.repository.ts.                                 *)
(*                                                                         *)
(* A request reads what it needs, takes the lock on the invitation's row,  *)
(* reads the reply again under it, and commits.  A transaction's writes    *)
(* appear at its commit.  Invitations share no lock, counter or reply, so  *)
(* one is enough.  A submission is the id of the row it creates and of the *)
(* edit token it hands out.  Requests refused at their first step change   *)
(* nothing and are left out.  The browser before them, the honeypot, the   *)
(* human check and the rate limits are in GuestPage.                       *)
(***************************************************************************)
EXTENDS Integers, FiniteSets

CONSTANTS
  Guests,       \* the identities rsvpDedupeHash tells apart
  Requests,     \* requests, each made once
  Kinds,        \* the kinds of request made
  Policies,     \* what the published snapshot and the status may say
  None,
  Never,
  PartyLimit,   \* RSVP_PARTY_SIZE_MAX
  Window,       \* RSVP_EDIT_WINDOW_MS, in ticks
  MaxTime       \* bound on the clock

AllKinds == {"submit", "edit", "delete"}

Policy == [visible : BOOLEAN, enabled : BOOLEAN, deadline : Nat \cup {Never}, max : Nat]

ASSUME RsvpAssumption ==
  /\ IsFiniteSet(Guests)
  /\ None \notin Guests \cup Requests
  /\ Kinds \subseteq AllKinds
  /\ Policies \subseteq Policy
  /\ PartyLimit \in Nat
  /\ Window \in Nat
  /\ MaxTime \in Nat

VARIABLES
  reply,      \* reply[g]: the row of guest g in `rsvps`
  counters,   \* rsvpYesCount, rsvpNoCount and rsvpGuestCount of the invitation
  policy,     \* the policy now published
  lock,       \* the request whose transaction holds the invitation's row
  req,        \* the requests
  clock

vars == <<reply, counters, policy, lock, req, clock>>

(* -------------------------------- the state ---------------------------- *)

Reply == [id : Requests \cup {None}, token : Requests \cup {None},
          attending : BOOLEAN, party : 0..PartyLimit, at : Nat]

NoReply == [id |-> None, token |-> None, attending |-> FALSE, party |-> 0, at |-> 0]

Request == [kind : AllKinds \cup {None}, pc : {"idle", "lock", "read", "write", "done"},
            guest : Guests \cup {None}, id : Requests \cup {None},
            token : Requests \cup {None}, attending : BOOLEAN, party : 0..PartyLimit,
            now : Nat, prev : Reply,
            outcome : {None, "ok", "bad_token", "window_closed", "not_found", "aborted"}]

Fresh == [kind |-> None, pc |-> "idle", guest |-> None, id |-> None, token |-> None,
          attending |-> FALSE, party |-> 0, now |-> 0, prev |-> NoReply, outcome |-> None]

Counters == [yes : Nat, no : Nat, guests : Nat]

Init ==
  /\ reply = [g \in Guests |-> NoReply]
  /\ counters = [yes |-> 0, no |-> 0, guests |-> 0]
  /\ policy \in Policies
  /\ lock = None
  /\ req = [q \in Requests |-> Fresh]
  /\ clock = 0

\* Request q ends with this outcome; what it keeps is what its caller still holds.
Finish(q, outcome) ==
  req' = [req EXCEPT ![q] = [Fresh EXCEPT !.kind = req[q].kind, !.pc = "done", !.id = req[q].id,
                                          !.now = req[q].now, !.outcome = outcome]]

(* ------------------------------ the counters --------------------------- *)

\* counterDelta: what one reply adds to each counter.
Share(r) == [yes |-> IF r.id # None /\ r.attending THEN 1 ELSE 0,
             no |-> IF r.id # None /\ ~r.attending THEN 1 ELSE 0,
             guests |-> IF r.attending THEN r.party ELSE 0]

Move(before, after) ==
  counters' = [yes |-> counters.yes + Share(after).yes - Share(before).yes,
               no |-> counters.no + Share(after).no - Share(before).no,
               guests |-> counters.guests + Share(after).guests - Share(before).guests]

(* ------------------------------ the requests --------------------------- *)

DeadlinePassed(p) == p.deadline # Never /\ clock > p.deadline

\* checkRsvpPolicy, for a page the guest may read.
Accepts(p, attending, party) ==
  /\ p.visible
  /\ p.enabled
  /\ ~DeadlinePassed(p)
  /\ attending => party \in 1..p.max

\* submitRsvp up to the transaction: the policy is read, not locked.
SubmitStart(q, g, attending, party) ==
  /\ req[q] = Fresh
  /\ Accepts(policy, attending, party)
  /\ req' = [req EXCEPT ![q] = [Fresh EXCEPT !.kind = "submit", !.pc = "lock", !.guest = g,
                                             !.attending = attending,
                                             !.party = IF attending THEN party ELSE 0,
                                             !.now = clock]]
  /\ UNCHANGED <<reply, counters, policy, lock, clock>>

\* editRsvp with the id and the token submission r was answered with: only the shape of
\* the body is checked, then the row's invitation is looked up without a lock.
EditStart(q, r, attending, party) ==
  /\ req[q] = Fresh
  /\ req[r].kind = "submit" /\ req[r].outcome = "ok"
  /\ \E g \in Guests : reply[g].id = req[r].id
  /\ req' = [req EXCEPT ![q] = [Fresh EXCEPT !.kind = "edit", !.pc = "lock",
                                             !.id = req[r].id, !.token = r,
                                             !.attending = attending,
                                             !.party = IF attending THEN party ELSE 0,
                                             !.now = clock]]
  /\ UNCHANGED <<reply, counters, policy, lock, clock>>

\* deleteRsvp of a row the owner sees in the list.
DeleteStart(q, g) ==
  /\ req[q] = Fresh
  /\ reply[g] # NoReply
  /\ req' = [req EXCEPT ![q] = [Fresh EXCEPT !.kind = "delete", !.pc = "lock",
                                             !.id = reply[g].id, !.now = clock]]
  /\ UNCHANGED <<reply, counters, policy, lock, clock>>

\* Seeded fault: the transaction begins without the row lock.
Lock_NotTaken(q) ==
  /\ req[q].pc = "lock"
  /\ req' = [req EXCEPT ![q].pc = "read"]
  /\ UNCHANGED <<reply, counters, policy, lock, clock>>

\* SELECT id FROM invitations ... FOR NO KEY UPDATE.
Lock(q) ==
  /\ req[q].pc = "lock"
  /\ lock = None
  /\ lock' = q
  /\ req' = [req EXCEPT ![q].pc = "read"]
  /\ UNCHANGED <<reply, counters, policy, clock>>

\* The reply the transaction is measured from.
Found(q, g) == req' = [req EXCEPT ![q].pc = "write", ![q].guest = g, ![q].prev = reply[g]]

SubmitRead(q) ==
  /\ req[q].kind = "submit" /\ req[q].pc = "read"
  /\ Found(q, req[q].guest)
  /\ UNCHANGED <<reply, counters, policy, lock, clock>>

\* Seeded fault: the row is read again by its id, without the token.
Presents_IdOnly(q, g) == reply[g].id = req[q].id

Presents(q, g) == reply[g].id = req[q].id /\ reply[g].token = req[q].token

\* The reply is older than the window; `submittedAt` is when the row was created.
WindowClosed(q, g) == reply[g].at < req[q].now - Window

\* Seeded fault: the early return of a refusal leaves the transaction open.
Refuse_LeavesOpen(q, outcome) == Finish(q, outcome) /\ UNCHANGED lock

\* The transaction ends without having written.
Refuse(q, outcome) == Finish(q, outcome) /\ lock' = None

\* The row is read again under the lock, the token a predicate of the statement.
EditRead(q) ==
  /\ req[q].kind = "edit" /\ req[q].pc = "read"
  /\ \/ \E g \in Guests : /\ Presents(q, g)
                          /\ \/ ~WindowClosed(q, g) /\ Found(q, g) /\ UNCHANGED lock
                             \/ WindowClosed(q, g) /\ Refuse(q, "window_closed")
     \/ /\ \A g \in Guests : ~Presents(q, g)
        /\ Refuse(q, "bad_token")
  /\ UNCHANGED <<reply, counters, policy, clock>>

DeleteRead(q) ==
  /\ req[q].kind = "delete" /\ req[q].pc = "read"
  /\ \/ \E g \in Guests : reply[g].id = req[q].id /\ Found(q, g) /\ UNCHANGED lock
     \/ /\ \A g \in Guests : reply[g].id # req[q].id
        /\ Refuse(q, "not_found")
  /\ UNCHANGED <<reply, counters, policy, clock>>

(* ------------------------------ the commits ---------------------------- *)

\* The upsert: created, or updated with a new token and the old `submittedAt`.
Upserted(q, g) ==
  [id |-> IF reply[g] = NoReply THEN q ELSE reply[g].id,
   token |-> q,
   attending |-> req[q].attending,
   party |-> req[q].party,
   at |-> IF reply[g] = NoReply THEN req[q].now ELSE reply[g].at]

SubmitCommit(q) ==
  LET g == req[q].guest IN
  /\ req[q].kind = "submit" /\ req[q].pc = "write"
  /\ reply' = [reply EXCEPT ![g] = Upserted(q, g)]
  /\ Move(req[q].prev, Upserted(q, g))
  /\ req' = [req EXCEPT ![q] = [Fresh EXCEPT !.kind = "submit", !.pc = "done",
                                             !.id = Upserted(q, g).id,
                                             !.now = req[q].now, !.outcome = "ok"]]
  /\ lock' = None
  /\ UNCHANGED <<policy, clock>>

Edited(q, g) == [reply[g] EXCEPT !.attending = req[q].attending, !.party = req[q].party]

EditCommit(q) ==
  LET g == req[q].guest IN
  /\ req[q].kind = "edit" /\ req[q].pc = "write"
  /\ reply' = [reply EXCEPT ![g] = Edited(q, g)]
  /\ Move(req[q].prev, Edited(q, g))
  /\ Finish(q, "ok")
  /\ lock' = None
  /\ UNCHANGED <<policy, clock>>

DeleteCommit(q) ==
  LET g == req[q].guest IN
  /\ req[q].kind = "delete" /\ req[q].pc = "write"
  /\ reply' = [reply EXCEPT ![g] = NoReply]
  /\ Move(req[q].prev, NoReply)
  /\ Finish(q, "ok")
  /\ lock' = None
  /\ UNCHANGED <<policy, clock>>

\* The process dies, the connection drops or the transaction times out: nothing of it
\* remains, and the lock goes with it.
Abort(q) ==
  /\ req[q].pc \in {"lock", "read", "write"}
  /\ Finish(q, "aborted")
  /\ lock' = IF lock = q THEN None ELSE lock
  /\ UNCHANGED <<reply, counters, policy, clock>>

\* The couple republish, pause or close replies; a moderator suspends.
ChangePolicy ==
  /\ policy' \in Policies
  /\ UNCHANGED <<reply, counters, lock, req, clock>>

Tick == /\ clock < MaxTime
        /\ clock' = clock + 1
        /\ UNCHANGED <<reply, counters, policy, lock, req>>

(* ------------------------------- the system ---------------------------- *)

Start(q) ==
  \/ /\ "submit" \in Kinds
     /\ \E g \in Guests, a \in BOOLEAN, p \in 0..PartyLimit : SubmitStart(q, g, a, p)
  \/ /\ "edit" \in Kinds
     /\ \E r \in Requests, a \in BOOLEAN, p \in 0..PartyLimit : EditStart(q, r, a, p)
  \/ /\ "delete" \in Kinds
     /\ \E g \in Guests : DeleteStart(q, g)

Advance(q) ==
  \/ Lock(q)
  \/ SubmitRead(q) \/ EditRead(q) \/ DeleteRead(q)
  \/ SubmitCommit(q) \/ EditCommit(q) \/ DeleteCommit(q)

Next == \/ \E q \in Requests : Start(q) \/ Advance(q) \/ Abort(q)
        \/ ChangePolicy
        \/ Tick

Spec == Init /\ [][Next]_vars

(* ------------------------------ properties ----------------------------- *)

TypeOK ==
  /\ reply \in [Guests -> Reply]
  /\ counters \in Counters
  /\ policy \in Policies
  /\ lock \in Requests \cup {None}
  /\ req \in [Requests -> Request]
  /\ clock \in Nat

AnswerOf(r) == [given |-> r.id # None, attending |-> r.attending, party |-> r.party]

Book == INSTANCE GuestBook WITH book <- [g \in Guests |-> AnswerOf(reply[g])],
                                totals <- counters

\* The counters the public page shows, moved by deltas, are at every moment what counting
\* the replies would give, whatever replies, corrections, removals and aborts overlap.
KeepsGuestBook == Book!Spec

\* A reply is changed by the guest's latest session or by the couple, and by nobody else: a
\* submission retires every older link; a correction is made with the newest token, and
\* keeps the row; a removal takes the row it was aimed at and not a later one.
RepliesChangeByRight ==
  [][\A g \in Guests : reply'[g] # reply[g] =>
       \E q \in Requests :
         \/ SubmitCommit(q) /\ req[q].guest = g /\ reply'[g].token = q
         \/ /\ EditCommit(q)
            /\ req[q].token = reply[g].token
            /\ reply'[g].token = reply[g].token /\ reply'[g].id = reply[g].id
         \/ DeleteCommit(q) /\ req[q].id = reply[g].id /\ reply'[g] = NoReply]_vars

=============================================================================
