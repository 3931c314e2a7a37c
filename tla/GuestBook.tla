------------------------------ MODULE GuestBook ------------------------------
(***************************************************************************)
(* What the RSVP component promises a couple: one answer per guest, and    *)
(* totals that are always those of the answers, however many replies,      *)
(* corrections and removals happen at once.  Rsvp implements it.           *)
(***************************************************************************)
EXTENDS Integers, FiniteSets

CONSTANTS
  Guests,       \* whoever the identity hash tells apart
  PartyLimit    \* RSVP_PARTY_SIZE_MAX

VARIABLES
  book,         \* book[g]: the answer of guest g
  totals        \* how many come, how many decline, how many people that is

Answer == [given : BOOLEAN, attending : BOOLEAN, party : 0..PartyLimit]

Blank == [given |-> FALSE, attending |-> FALSE, party |-> 0]

Coming(b) == { g \in Guests : b[g].given /\ b[g].attending }

Declining(b) == { g \in Guests : b[g].given /\ ~b[g].attending }

\* One seat for each person of an attending party: to count them is to add the parties up.
Seats(b) == { s \in Guests \X (1..PartyLimit) : s[1] \in Coming(b) /\ s[2] <= b[s[1]].party }

Recount(b) == [yes |-> Cardinality(Coming(b)), no |-> Cardinality(Declining(b)),
               guests |-> Cardinality(Seats(b))]

Init == /\ book = [g \in Guests |-> Blank]
        /\ totals = [yes |-> 0, no |-> 0, guests |-> 0]

\* Guest g answers, corrects the answer, or has it removed.
Enter(g, answer) == /\ book' = [book EXCEPT ![g] = answer]
                    /\ totals' = Recount(book')

Next == \E g \in Guests, answer \in Answer : Enter(g, answer)

Spec == Init /\ [][Next]_<<book, totals>>

=============================================================================
