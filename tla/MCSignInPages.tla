---------------------------- MODULE MCSignInPages ----------------------------
(* A small instance of SignInPages, TwoFactor and Sessions for TLC. *)
EXTENDS SignInPages

NoPages == page = Blank("closed") /\ cookie = None

NoFactor ==
  /\ FactorInit
  /\ role = "customer" /\ credential = NoCredential
  /\ \A s \in Devices : session[s].proofs = {}
  /\ ask = [a \in Asks |-> [NewAsk EXCEPT !.pc = "done"]]

\* The requests are about the password of a customer without a second factor.
AboutPassword == AccountInit /\ NoFactor /\ NoPages

\* Or two requests are made beside one browser that may have been signed in, after another
\* that may have mailed a link.
AboutPages ==
  /\ user \in [address : {"unknown", "unverified", "verified"}, password : {None},
               failed : {0}, locked : {FALSE}, status : {"active"}]
  /\ \E mailed \in {None, "requestReset", "resend"} :
       /\ user.address = "unknown" => mailed = None
       /\ LET earlier == CHOOSE q \in Requests : TRUE IN
          /\ req = [q \in Requests |->
                      IF q = earlier THEN [NewRequest EXCEPT !.kind = mailed, !.pc = "done", !.ok = TRUE]
                                     ELSE NewRequest]
          /\ token = [q \in Requests |-> IF q = earlier /\ mailed # None THEN "live" ELSE "none"]
  /\ NoFactor
  /\ page = Blank("home") /\ cookie \in { s \in Devices : Live(s) } \cup {None}

\* Or about the second factor, beside one login whose password was found right.
AboutFactor ==
  /\ user = [address |-> "verified", password |-> None, failed |-> 0, locked |-> FALSE, status |-> "active"]
  /\ token = [q \in Requests |-> "none"]
  /\ LET login == CHOOSE q \in Requests : TRUE
     IN req = [q \in Requests |->
                 IF q = login THEN [NewRequest EXCEPT !.kind = "login", !.pc = "success"]
                              ELSE [NewRequest EXCEPT !.pc = "done"]]
  /\ FactorInit
  /\ ask = [a \in Asks |-> NewAsk]
  /\ NoPages

MCSpec == (AboutPassword \/ AboutPages \/ AboutFactor) /\ [][PagesNext]_pageVars

=============================================================================
