----------------------------- MODULE DraftStore -----------------------------
(***************************************************************************)
(* The server's side of the builder's autosave: PATCH .../document, which  *)
(* is updateDraftDocument (core/src/invitation/usecases/update-draft.ts)   *)
(* over updateDraft (db/src/repositories/invitation.repository.ts).        *)
(*                                                                         *)
(* A request reads the invitation, compares draftVersion, reads the row a  *)
(* second time, writes where the version still holds and, when it does     *)
(* not, reads a third time for the answer; requests interleave between     *)
(* any two of these.  A draft is a value for each path, and a patch the    *)
(* `replace` operations left once coalesced; `add` and `remove` on lists   *)
(* are left out.  The invitation is not deleted meanwhile.                 *)
(***************************************************************************)
EXTENDS Naturals, Sequences, FiniteSets

CONSTANTS
  Paths,      \* the fields of the draft that are edited
  Values,
  Initial,    \* what every field holds when the invitation is created
  Unset,      \* a field a patch leaves alone
  Tabs        \* the browser tabs, one to a device

ASSUME DraftStoreAssumption ==
  /\ Initial \in Values
  /\ Unset \notin Values

VARIABLES
  drafts,     \* drafts[n]: the document at draftVersion n, the last being the row's
  calls       \* the requests being served, and the answers on their way back

(* ------------------------------- documents ----------------------------- *)

Document == [Paths -> Values]
Patch    == [Paths -> Values \cup {Unset}]

Blank   == [p \in Paths |-> Initial]
NoEdits == [p \in Paths |-> Unset]

Touched(patch) == {p \in Paths : patch[p] # Unset}

\* What later writes to the same paths leave of an earlier document, or patch.
Apply(earlier, patch) == [p \in Paths |-> IF patch[p] = Unset THEN earlier[p] ELSE patch[p]]

(* -------------------------------- the state ---------------------------- *)

Version == Len(drafts)
Current == drafts[Version]

Answer == [kind : {"none", "saved", "conflict", "rejected"}, version : Nat, document : Document]

NoAnswer == [kind |-> "none", version |-> 0, document |-> Blank]

Saved(v)       == [kind |-> "saved", version |-> v, document |-> Blank]
Conflict(v, d) == [kind |-> "conflict", version |-> v, document |-> d]
Rejected       == [kind |-> "rejected", version |-> 0, document |-> Blank]

Call == [tab : Tabs, patch : Patch, baseVersion : Nat, existing : Nat, answer : Answer,
         live : BOOLEAN,    \* the tab still waits for the answer
         at : {"sent", "matched", "writing", "raced", "answered"}]

NewCall(t, patch, v) ==
  [tab |-> t, patch |-> patch, baseVersion |-> v, existing |-> 0, answer |-> NoAnswer,
   live |-> TRUE, at |-> "sent"]

Step(c, d) == calls' = (calls \ {c}) \cup {d}

\* Nobody hears the answer to a request its tab has given up on.
Reply(c, a) ==
  calls' = (calls \ {c}) \cup
           (IF c.live THEN {[c EXCEPT !.at = "answered", !.answer = a]} ELSE {})

DraftInit == drafts = <<Blank>> /\ calls = {}

(* -------------------------------- the steps ---------------------------- *)

\* The session, the rate limit, the ownership or the patch allowlist refuses.
Refuse(c) ==
  /\ c.at = "sent"
  /\ Reply(c, Rejected)
  /\ UNCHANGED drafts

FindStale(c) ==
  /\ c.at = "sent"
  /\ c.baseVersion # Version
  /\ Reply(c, Conflict(Version, Current))
  /\ UNCHANGED drafts

FindMatching(c) ==
  /\ c.at = "sent"
  /\ c.baseVersion = Version
  /\ Step(c, [c EXCEPT !.at = "matched"])
  /\ UNCHANGED drafts

ReadExisting(c) ==
  /\ c.at = "matched"
  /\ Step(c, [c EXCEPT !.at = "writing", !.existing = Version])
  /\ UNCHANGED drafts

\* Seeded fault: the UPDATE names the row only.
Predicate_IdOnly(c) == TRUE

\* The predicate of the UPDATE; what is written was computed from the first read.
Predicate(c) == c.baseVersion = Version

Write(c) ==
  /\ c.at = "writing"
  /\ Predicate(c)
  /\ drafts' = Append(drafts, Apply(drafts[c.baseVersion], c.patch))
  /\ Reply(c, Saved(c.baseVersion + 1))

LoseRace(c) ==
  /\ c.at = "writing"
  /\ ~Predicate(c)
  /\ Step(c, [c EXCEPT !.at = "raced"])
  /\ UNCHANGED drafts

\* The version answered is the second read's, the document the third's.
ReadFresh(c) ==
  /\ c.at = "raced"
  /\ Reply(c, Conflict(c.existing, Current))
  /\ UNCHANGED drafts

Serve(c) ==
  \/ Refuse(c) \/ FindStale(c) \/ FindMatching(c) \/ ReadExisting(c)
  \/ Write(c) \/ LoseRace(c) \/ ReadFresh(c)

=============================================================================
