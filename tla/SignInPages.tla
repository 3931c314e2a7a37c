---------------------------- MODULE SignInPages ------------------------------
(***************************************************************************)
(* The pages around an account, in one browser (apps/web/src/auth          *)
(* /AuthForms.tsx over auth/api.ts and the routes app/api/v1/auth/...),    *)
(* beside everything else that is done to the account in TwoFactor.        *)
(*                                                                         *)
(* A form sends one request at a time.  Its answer may be lost, whether or *)
(* not the server did what was asked, and the person may leave before it   *)
(* comes: the request goes on at the server all the same.  A request that  *)
(* changes nothing there (a malformed address, a rate limit, a link that   *)
(* is not valid any more, no connection) is a refusal, in one step.        *)
(***************************************************************************)
EXTENDS TwoFactor

VARIABLES
  page,    \* what the browser shows
  cookie   \* the session it holds, if any

pageVars == <<vars, page, cookie>>

(* -------------------------------- the state ---------------------------- *)

Forms == {"register", "login", "forgot", "reset", "verify"}

\* `link` is the token in the address; `resent` is about the second mail asked for on the
\* page of a link that failed.
Page == [view : Forms \cup {"home", "dashboard", "admin", "closed"},
         state : {"idle", "pending", "error", "done"},
         link : Requests \cup {None}, awaits : Requests \cup {None},
         resent : {"idle", "sent", "signedOut"}]

Blank(view) == [view |-> view, state |-> "idle", link |-> None, awaits |-> None, resent |-> "idle"]

\* requireActor: the session is good, and owes no second factor.
Authenticated(s) ==
  /\ s # None /\ Resolves(s)
  /\ IF credential.confirmed # None THEN session[s].proofs # {} ELSE role # "staff"

\* The dashboard sends who is not signed in to the login form, and staff to the console.
Lands(view, s) ==
  Blank(CASE view = "dashboard" /\ ~Authenticated(s) -> "login"
          [] view = "dashboard" /\ Authenticated(s) /\ role = "staff" -> "admin"
          [] OTHER -> view)

(* ------------------------------- the browser --------------------------- *)

\* The page of a mailed link is opened with the link or without; the one that verifies an
\* address sends its request at once.
OpenLink(view, link) ==
  page' = [Blank(view) EXCEPT !.link = link,
             !.state = IF link = None THEN "error" ELSE IF view = "verify" THEN "pending" ELSE "idle"]

\* A person goes to a page.  What the last one was waiting for is not heard any more.
Open(view) ==
  /\ page.view # "closed"
  /\ IF view \in {"reset", "verify"}
       THEN \E t \in {None} \cup { u \in Requests : token[u] # "none" } : OpenLink(view, t)
       ELSE page' = Lands(view, cookie)
  /\ UNCHANGED <<vars, cookie>>

\* The button is disabled while a request is out.
MaySend ==
  \/ page.view \in Forms \ {"verify"} /\ page.state \in {"idle", "error"}
     /\ (page.view = "reset" => page.link # None)
  \/ page.view = "verify" /\ page.state = "pending" /\ page.awaits = None

\* The form's request reaches the server.
Send(q) ==
  /\ MaySend
  /\ CASE page.view = "register" -> RegisterRead(q)
       [] page.view = "login"    -> \E password \in Passwords : LoginRead(q, password)
       [] page.view = "forgot"   -> RequestReset(q)
       [] page.view = "reset"    -> ResetRead(q, page.link)
       [] page.view = "verify"   -> VerifyRead(q, page.link)
  /\ page' = [page EXCEPT !.state = "pending", !.awaits = q]
  /\ UNCHANGED <<role, credential, recovery, ask, cookie>>

\* On the page of a link that failed, another is asked for.
AskAgain(q) ==
  /\ page.view = "verify" /\ page.state = "error" /\ page.resent = "idle" /\ page.awaits = None
  /\ cookie # None /\ Resend(q, cookie)
  /\ page' = [page EXCEPT !.awaits = q]
  /\ UNCHANGED <<role, credential, recovery, ask, cookie>>

\* What a failure is shown as.  The form for a forgotten password reports no failure but a
\* rate limit: whatever else happened, it says that a message is on its way.
Failed ==
  IF page.view = "verify" /\ page.state = "error" THEN [page EXCEPT !.resent = "signedOut", !.awaits = None]
  ELSE IF page.view = "forgot" THEN [page EXCEPT !.state = "done", !.awaits = None]
  ELSE [page EXCEPT !.state = "error", !.awaits = None]

\* A request that changes nothing at the server.  One that asks for another mail, with a
\* session, is answered as if it were sent when there were too many.
Refused ==
  /\ \/ MaySend /\ page' = Failed
     \/ MaySend /\ page.view = "forgot" /\ page' = [page EXCEPT !.state = "error"]
     \/ /\ page.view = "verify" /\ page.state = "error" /\ page.resent = "idle" /\ page.awaits = None
        /\ \/ page' = Failed
           \/ cookie # None /\ Resolves(cookie) /\ page' = [page EXCEPT !.resent = "sent"]
  /\ UNCHANGED <<vars, cookie>>

\* The route has answered; its Set-Cookie counts before the page goes on.  A registration of
\* an address that was taken is answered alike, without a session; a reset clears the cookie.
Accepted(q) == LET kind == req[q].kind IN
  /\ cookie' = IF kind = "reset" THEN None
               ELSE IF kind \in {"register", "login"} /\ session[q].state # "none" THEN q
               ELSE cookie
  /\ page' = CASE kind = "register" -> Lands("dashboard", cookie')
               [] kind = "login"    -> Lands(IF credential.confirmed # None \/ role = "staff"
                                             THEN "admin" ELSE "dashboard", cookie')
               [] kind = "resend"   -> [page EXCEPT !.resent = "sent", !.awaits = None]
               [] OTHER             -> [page EXCEPT !.state = "done", !.awaits = None]

\* Seeded fault: the status of the answer is not looked at.
Answered_AnyStatus(q) ==
  /\ page.awaits = q /\ req[q].pc = "done"
  /\ Accepted(q)
  /\ UNCHANGED vars

\* The answer arrives.  A request that died half-way is answered with a failure.
Answered(q) ==
  /\ page.awaits = q /\ req[q].pc = "done"
  /\ IF req[q].ok THEN Accepted(q) ELSE page' = Failed /\ UNCHANGED cookie
  /\ UNCHANGED vars

\* The connection drops before the answer, which fetch reports by throwing.
AnswerLost ==
  /\ page.awaits # None
  /\ page' = Failed
  /\ UNCHANGED <<vars, cookie>>

\* The button on the dashboard goes home whatever the answer: the session ended now or
\* before, or the request was lost; the cleared cookie comes with the answer, or is lost too.
SignOut ==
  /\ page.view = "dashboard"
  /\ \/ cookie # None /\ Resolves(cookie) /\ Revoke({cookie}) /\ cookie' \in {None, cookie}
     \/ (cookie # None => ~Resolves(cookie)) /\ cookie' \in {None, cookie} /\ UNCHANGED session
     \/ UNCHANGED <<cookie, session>>
  /\ page' = Blank("home")
  /\ UNCHANGED <<user, token, req, role, credential, recovery, ask>>

PageNext ==
  \/ \E view \in Forms \cup {"home", "dashboard"} : Open(view)
  \/ \E q \in Requests : Send(q) \/ AskAgain(q) \/ Answered(q)
  \/ Refused \/ AnswerLost \/ SignOut

PagesNext == PageNext \/ (Next /\ UNCHANGED <<page, cookie>>)

\* One browser, which may be signed in.
PagesInit == Init /\ page = Blank("home") /\ cookie \in { s \in Devices : Live(s) } \cup {None}

PagesSpec == PagesInit /\ [][PagesNext]_pageVars

(* -------------------------------- properties --------------------------- *)

\* Every variable keeps its shape.
PagesTypeOK == TypeOK /\ page \in Page /\ cookie \in SessionIds \cup {None}

\* A page says that a link was redeemed only when it was, whatever answers were lost, links
\* used twice or requests died on the way: an address said to be confirmed is confirmed, and
\* after a reset every session from before is ended, this browser's too (AuthForms.tsx:407).
DoneMeansDone ==
  page.state = "done" =>
    /\ page.view = "verify" => user.address = "verified"
    /\ page.view = "reset" => /\ token[page.link] = "used" /\ cookie = None
                              /\ \A s \in Devices : ~Live(s)

=============================================================================
