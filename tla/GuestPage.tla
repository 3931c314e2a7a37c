----------------------------- MODULE GuestPage -------------------------------
(***************************************************************************)
(* How a reply gets from a guest's browser to the transactions of Rsvp and *)
(* what the guest is told: the form and its script                         *)
(* (apps/web/src/public-page/invitation.ts) and the route that takes the   *)
(* form's post (app/api/public/invitations/[slug]/rsvp/route.ts).          *)
(*                                                                         *)
(* A page runs the script or not.  With it one post is on its way at a     *)
(* time; without it the browser posts the form itself, and a second tap    *)
(* posts it again and is deaf to the first.  The connection may be lost    *)
(* before the request arrives or after, and what arrived goes on.  Every   *)
(* page has an address of its own.  A post that no page made comes from a  *)
(* client of the route's JSON form, and is a step of Rsvp.                 *)
(***************************************************************************)
EXTENDS Rsvp

CONSTANTS
  Pages,
  Scripted,    \* the pages whose script runs
  Names,       \* the ways names and numbers are typed
  GuestOf,     \* GuestOf[n]: the guest the normalised name and number stand for
  Budgets,     \* the budget of a visitor, of the invitation, of its calm
  HumanCheck   \* what the human check may answer

\* What the status line of the form says.
Verdicts == {"ok", "rate", "closed", "check", "invalid", "offline"}

ASSUME GuestPageAssumption ==
  /\ "submit" \in Kinds
  /\ None \notin Pages \cup Verdicts
  /\ Scripted \subseteq Pages
  /\ GuestOf \in [Names -> Guests]
  /\ Budgets \in [{"visitor", "invitation", "pressure"} -> [limit : Nat \ {0}, window : Nat \ {0}]]
  /\ HumanCheck \subseteq BOOLEAN

VARIABLES
  page,   \* the pages of the invitation that are open
  post    \* the journey of each request

pageVars == <<vars, page, post>>

(* -------------------------------- the state ---------------------------- *)

\* `token` is the edit token in the browser's session storage.
Page == [waits : Requests \cup {None}, says : Verdicts \cup {None}, token : Requests \cup {None}]

FreshPage == [waits |-> None, says |-> None, token |-> None]

Reading == {"sent", "admitted", "checked"}

\* `shaped`: RsvpSubmissionSchema takes the fields.  `trapped`: the field no person sees is
\* filled in.  `charged`: the budgets it was counted in.
Post == [pc : {"new", "begun", "answered", "over"} \cup Reading, from : Pages \cup {None},
         name : Names \cup {None}, attending : BOOLEAN, party : 0..PartyLimit,
         shaped : BOOLEAN, trapped : BOOLEAN, charged : SUBSET DOMAIN Budgets, at : Nat,
         answer : Verdicts \cup {None}, lost : BOOLEAN, told : Verdicts \cup {"left", None}]

NoPost == [pc |-> "new", from |-> None, name |-> None, attending |-> FALSE, party |-> 0,
           shaped |-> FALSE, trapped |-> FALSE, charged |-> {}, at |-> 0,
           answer |-> None, lost |-> FALSE, told |-> None]

PagesInit ==
  /\ page = [b \in Pages |-> FreshPage]
  /\ post = [q \in Requests |-> NoPost]

\* What of a post is still needed once its fields have been read.
Kept(q) == [NoPost EXCEPT !.from = post[q].from, !.trapped = post[q].trapped,
                          !.charged = post[q].charged, !.at = post[q].at,
                          !.lost = post[q].lost, !.told = post[q].told]

Becomes(q, record) == post' = [post EXCEPT ![q] = record]

(* --------------------------------- the form ---------------------------- *)

Fields == {"good", "bad", "trap"}

\* RsvpSubmissionSchema: a field that a browser lets through may still be no name.
Shaped(fields) == fields # "bad"

\* Nobody listens to what page b was waiting for any more.
Deaf(b) == [q \in Requests |-> IF q = page[b].waits THEN [post[q] EXCEPT !.told = "left"] ELSE post[q]]

\* onSubmit, or the form's own post.  A reply that is recorded takes the form away; the
\* script locks its button while a reply is on its way.
Send(b, q) ==
  /\ req[q] = Fresh /\ post[q] = NoPost
  /\ page[b].says # "ok"
  /\ b \in Scripted => page[b].waits = None
  /\ page' = [page EXCEPT ![b].waits = q, ![b].says = None]
  /\ \E n \in Names, attending \in BOOLEAN, p \in 1..PartyLimit, fields \in Fields :
       post' = [Deaf(b) EXCEPT ![q] = [NoPost EXCEPT !.pc = "sent", !.from = b, !.name = n,
                                         !.attending = attending, !.party = p,
                                         !.shaped = Shaped(fields), !.trapped = fields = "trap"]]
  /\ UNCHANGED vars

\* The connection drops: the request never arrives or goes on, and the answer is not heard.
Disconnect(q) ==
  /\ ~post[q].lost
  /\ \/ /\ post[q].pc \notin {"new", "over"} /\ post[q].told = None
        /\ Becomes(q, [post[q] EXCEPT !.lost = TRUE])
     \/ /\ post[q].pc \in Reading
        /\ Becomes(q, [Kept(q) EXCEPT !.lost = TRUE, !.pc = "over"])
  /\ UNCHANGED <<vars, page>>

\* The fetch, or the browser, fails: the button is unlocked and the guest told to try again.
GiveUp(b) == LET q == page[b].waits IN
  /\ q # None /\ post[q].lost
  /\ page' = [page EXCEPT ![b].waits = None, ![b].says = "offline"]
  /\ post' = [post EXCEPT ![q].told = "offline"]
  /\ UNCHANGED vars

\* The tab is reloaded or left; session storage outlives a reload.
Reload(b) ==
  /\ page[b].waits # None \/ page[b].says # None
  /\ page' = [page EXCEPT ![b].waits = None, ![b].says = None]
  /\ post' = Deaf(b)
  /\ UNCHANGED vars

(* -------------------------------- the route ---------------------------- *)

\* What the window of a budget holds, for whoever q is counted with.
Spent(q, budget) ==
  Cardinality({r \in Requests : /\ budget \in post[r].charged
                                /\ post[r].at > clock - Budgets[budget].window
                                /\ budget = "visitor" => post[r].from = post[q].from})

HasBudget(q, budget) == Spent(q, budget) < Budgets[budget].limit

Answered(q, verdict) == [Kept(q) EXCEPT !.pc = "answered", !.answer = verdict]

\* The budget of the visitor, then that of the invitation; then whether the invitation is
\* calm, read before this post is counted in; then the body and the trap in it.
Admit(q) ==
  LET counted == {"visitor", "invitation"} \cup (IF HasBudget(q, "pressure") THEN {"pressure"} ELSE {})
      trusted == HasBudget(q, "pressure") \/ post[q].trapped
  IN
  /\ post[q].pc = "sent"
  /\ \/ /\ ~HasBudget(q, "visitor")
        /\ Becomes(q, Answered(q, "rate"))
     \/ /\ HasBudget(q, "visitor") /\ ~HasBudget(q, "invitation")
        /\ Becomes(q, [Answered(q, "rate") EXCEPT !.charged = {"visitor"}, !.at = clock])
     \/ /\ HasBudget(q, "visitor") /\ HasBudget(q, "invitation")
        /\ Becomes(q, [post[q] EXCEPT !.charged = counted, !.at = clock,
                                       !.pc = IF trusted THEN "checked" ELSE "admitted"])
  /\ UNCHANGED <<vars, page>>

\* TurnstileHumanCheck.verify: passes without a key or without an answer in four seconds.
Challenge(q) ==
  /\ post[q].pc = "admitted"
  /\ \E human \in HumanCheck :
       Becomes(q, IF human THEN [post[q] EXCEPT !.pc = "checked"] ELSE Answered(q, "check"))
  /\ UNCHANGED <<vars, page>>

\* rsvpDedupeHash: however the name and the number are typed, they are one guest's.
Identity(p) == GuestOf[p.name]

\* submitRsvp: the trap is thanked for, and nothing is written; the shape; then the page and
\* its rules, which refuse, or let the transaction of Rsvp begin.
Begin(q) == LET p == post[q] IN
  /\ post[q].pc = "checked"
  /\ UNCHANGED page
  /\ \/ /\ p.trapped
        /\ Becomes(q, Answered(q, "ok")) /\ UNCHANGED vars
     \/ /\ ~p.trapped /\ ~p.shaped
        /\ Becomes(q, Answered(q, "invalid")) /\ UNCHANGED vars
     \/ /\ ~p.trapped /\ p.shaped /\ ~Accepts(policy, p.attending, p.party)
        /\ Becomes(q, Answered(q, "closed")) /\ UNCHANGED vars
     \/ /\ ~p.trapped /\ p.shaped
        /\ SubmitStart(q, Identity(p), p.attending, p.party)
        /\ Becomes(q, [Kept(q) EXCEPT !.pc = "begun"])

\* Seeded fault: the answer does not wait for the transaction to end.
Respond_Early(q) ==
  /\ post[q].pc = "begun"
  /\ Becomes(q, Answered(q, "ok"))
  /\ UNCHANGED <<vars, page>>

\* The couple's mail is tried, and the reply answered whatever becomes of it; a transaction
\* that failed is a 500, which the script reads as a form to be corrected and a browser
\* shows as an error of its own.
Respond(q) ==
  /\ post[q].pc = "begun" /\ req[q].pc = "done"
  /\ Becomes(q, Answered(q, IF req[q].outcome = "ok" THEN "ok"
                            ELSE IF post[q].from \in Scripted THEN "invalid" ELSE "offline"))
  /\ UNCHANGED <<vars, page>>

\* messageFor has no words for the code a refused human check is answered with.
Shown(b, verdict) == IF b \in Scripted /\ verdict = "check" THEN "invalid" ELSE verdict

\* The script hides the form or unlocks it, and keeps the token; a browser follows the
\* redirect to the page with the verdict in its address, and the token is gone.
Hear(b) == LET q == page[b].waits IN
  /\ q # None /\ post[q].pc = "answered" /\ ~post[q].lost
  /\ page' = [page EXCEPT ![b].waits = None, ![b].says = Shown(b, post[q].answer),
                          ![b].token = IF b \in Scripted /\ req[q].outcome = "ok" THEN q ELSE @]
  /\ post' = [post EXCEPT ![q] = [Kept(q) EXCEPT !.pc = "over", !.told = Shown(b, post[q].answer)]]
  /\ UNCHANGED vars

(* ------------------------------- the system ---------------------------- *)

Replies(q) == post[q] = NoPost /\ Start(q) /\ UNCHANGED <<page, post>>

Handle(q) == Admit(q) \/ Challenge(q) \/ Begin(q) \/ Respond(q)

\* The route has the request, or the database.
Serve(q) == Handle(q) \/ (Advance(q) /\ UNCHANGED <<page, post>>)

Fails(q) == Abort(q) /\ UNCHANGED <<page, post>>

Around == (ChangePolicy \/ Tick) /\ UNCHANGED <<page, post>>

PagesNext ==
  \/ \E b \in Pages : (\E q \in Requests : Send(b, q)) \/ GiveUp(b) \/ Reload(b) \/ Hear(b)
  \/ \E q \in Requests : Disconnect(q) \/ Serve(q) \/ Fails(q) \/ Replies(q)
  \/ Around

PagesSpec == Init /\ PagesInit /\ [][PagesNext]_pageVars

\* The database grants a released lock to a waiter, the server goes on with a request that
\* arrived, and a browser learns of an answer or of a connection that is lost.  Nothing says
\* that a connection holds, or that a page waits.
PagesFairness ==
  /\ \A q \in Requests : WF_pageVars(Serve(q))
  /\ \A b \in Pages : WF_pageVars(GiveUp(b) \/ Hear(b))

(* ------------------------------ properties ----------------------------- *)

PagesTypeOK ==
  /\ page \in [Pages -> Page]
  /\ post \in [Requests -> Post]

\* What a guest is told of a post is so: thanks, for a reply that is recorded or a trap that
\* was filled in; a refusal, for one that neither is nor will be.
Truthful(q) ==
  /\ post[q].told = "ok" => post[q].trapped \/ req[q].outcome = "ok"
  /\ post[q].told \in {"rate", "closed", "check", "invalid"} =>
       req[q] = Fresh \/ req[q].outcome = "aborted"

Settled(q) ==
  /\ post[q].pc = "new" \/ post[q].told # None
  /\ req[q].pc \in {"idle", "done"}
  /\ Truthful(q)

\* Every guest who sends the form is told, truthfully, what became of it, or that the
\* connection failed, unless they leave or tap again first (invitation.ts:303: "better than
\* a silent dead end"); and no request waits for the invitation's row for ever, whoever
\* dies or is refused holding it.
EveryGuestIsAnswered ==
  \A q \in Requests : post[q].pc = "sent" \/ req[q].pc = "lock" ~> Settled(q)

=============================================================================
