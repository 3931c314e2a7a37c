----------------------------- MODULE MCAccount -------------------------------
(* What an account may do, for TLC: by its rights (one request of it), or by  *)
(* its plan (three creations).                                                *)
EXTENDS Access, PlanLimits, TLC

CONSTANTS login, beacon   \* keys of other routes

\* What a behaviour is about.
VARIABLE watched

MCLimit == (CreateKey :> 1) @@ (login :> 2) @@ (beacon :> 1)
MCWindow == (CreateKey :> 1) @@ (login :> 2) @@ (beacon :> 1)

\* The plan is asked of one account.
Anyone ==
  CHOOSE account \in User \X Session \X BOOLEAN \X Share :
    account[1].status = "active" /\ account[2].live /\ ~account[2].proved /\ ~account[4].owns

MCInit ==
  /\ Init /\ CreationInit
  /\ \/ watched = "rights"
     \/ watched = "plan" /\ <<user, session, factor, share>> = Anyone

MCNext ==
  /\ \/ watched = "rights" /\ Next /\ UNCHANGED creationVars
     \/ watched = "plan" /\ CreationNext /\ UNCHANGED vars
  /\ UNCHANGED watched

MCSpec == MCInit /\ [][MCNext]_<<vars, creationVars, watched>>

Symmetry == Permutations(Creations)

=============================================================================
