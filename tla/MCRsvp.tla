------------------------------- MODULE MCRsvp -------------------------------
(* Small instances of GuestPage and Rsvp for TLC. *)
EXTENDS GuestPage

\* The couple allow two people, or one and only on the first day, or have closed replies.
TwoPolicies == { [visible |-> TRUE, enabled |-> TRUE, deadline |-> Never, max |-> 2],
                 [visible |-> TRUE, enabled |-> FALSE, deadline |-> 0, max |-> 1] }

\* Smaller than the code's, so that each of them is spent.
SmallBudgets == [visitor |-> [limit |-> 2, window |-> 1],
                 invitation |-> [limit |-> 2, window |-> 2],
                 pressure |-> [limit |-> 1, window |-> 1]]

VARIABLE sitting   \* what the behaviour is about, chosen once

\* Every guest types one name, and one of them has both pages.
OneName == [n \in Names |-> n]

idle == CHOOSE q \in Requests : TRUE

Untouched(q) == req[q] = Fresh /\ post[q] = NoPost

Starts(q) == Untouched(q) /\ (req'[q] # Fresh \/ post'[q] # NoPost)

\* Requests are alike: they are made in one order.
InOrder(requests) == \A q \in requests :
  Starts(q) => q = CHOOSE r \in requests : Untouched(r)

\* Clients of the route reply, correct and remove, and no page is open.
AboutReplies ==
  /\ sitting = "replies"
  /\ (\E q \in Requests : Replies(q) \/ Serve(q) \/ Fails(q)) \/ Around
  /\ InOrder(Requests)

FromPages == \A q \in Requests : Starts(q) => post'[q] # NoPost

\* Or a guest replies twice, from two pages or one, within a day.
AboutPages ==
  sitting = "pages" =>
    /\ ~Starts(idle) /\ InOrder(Requests \ {idle})
    /\ FromPages /\ UNCHANGED <<policy, clock>>
    /\ \A q \in Requests : Starts(q) => post'[q].attending

\* Or three times, the form well filled in, and nothing fails.
AboutCrowds ==
  sitting = "crowd" =>
    /\ FromPages /\ InOrder(Requests) /\ UNCHANGED policy
    /\ \A q \in Requests :
         /\ Starts(q) => post'[q].shaped /\ ~post'[q].trapped /\ post'[q].attending
         /\ ~post'[q].lost /\ req'[q].outcome # "aborted"
    /\ \A b \in Pages : page[b].waits # None /\ page'[b].waits = None => page'[b].says # None

MCInit == Init /\ PagesInit /\ sitting \in {"replies", "pages", "crowd"}

MCNext ==
  /\ UNCHANGED sitting
  /\ \/ AboutReplies
     \/ sitting # "replies" /\ PagesNext /\ AboutPages /\ AboutCrowds

mcVars == <<pageVars, sitting>>

MCSpec == MCInit /\ [][MCNext]_mcVars /\ PagesFairness

=============================================================================
