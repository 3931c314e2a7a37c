---------------------------- MODULE Provisioning ----------------------------
(***************************************************************************)
(* Applying a blueprint to the hosting account (scripts/render-provision   *)
(* .mjs, run by hand through .github/workflows/render-provision.yml, one   *)
(* run at a time) and starting what it created.                            *)
(*                                                                         *)
(* A run lists the account, then goes through the blueprint: groups of     *)
(* variables, databases and stores, services, and the links from services  *)
(* to groups.  One step is one resource.  A run may stop at any of its     *)
(* calls, whether or not the call took effect.  The account belongs to     *)
(* people too, who type secrets, edit values and delete things.            *)
(***************************************************************************)
EXTENDS ProductionEnv, Naturals

CONSTANTS
  Blueprints,   \* the committed blueprints
  Editable,     \* the variables a person edits in the dashboard
  MaxStops,     \* runs that stop half-way or misread a refusal, in a behaviour
  MaxMeddling   \* edits and deletions by people, in a behaviour

ASSUME ProvisioningAssumption == MaxStops \in Nat /\ MaxMeddling \in Nat

\* Every resource has its turn, under a name of its own.
ASSUME ResourcesAssumption ==
  \A bp \in Blueprints :
    /\ bp.order \in Seq(DOMAIN bp.vars \cup DOMAIN bp.stores \cup DOMAIN bp.services)
    /\ Range(bp.order) = DOMAIN bp.vars \cup DOMAIN bp.stores \cup DOMAIN bp.services
    /\ DOMAIN bp.vars \cap (DOMAIN bp.stores \cup DOMAIN bp.services) = {}
    /\ DOMAIN bp.stores \cap DOMAIN bp.services = {}
    /\ \A s \in DOMAIN bp.services : bp.services[s].groups \in Seq(Range(bp.services[s].groups))

\* A variable is declared once for whoever reads it, and a group that gives values also holds a
\* variable nobody starts without.
ASSUME VariablesAssumption ==
  \A bp \in Blueprints :
    /\ \A g, h \in DOMAIN bp.vars : g # h => DOMAIN bp.vars[g] \cap DOMAIN bp.vars[h] = {}
    /\ \A g \in DOMAIN bp.vars : Literals(bp.vars[g]) # {} => Required \cap DOMAIN bp.vars[g] # {}
    /\ \A s \in DOMAIN bp.services :
         /\ \A g \in DOMAIN bp.vars : DOMAIN bp.services[s].vars \cap DOMAIN bp.vars[g] = {}
         /\ \A n \in Literals(bp.services[s].vars) : bp.services[s].vars[n] # "undefined"

VARIABLES
  blueprint,    \* the one this account is deployed from
  group,        \* group[g]: the values of an existing env group
  stores,       \* the databases and key-value stores that exist
  service,      \* service[s]: an existing service's own variables
  links,        \* <<g, s>>: the group's values reach the service
  run,          \* the run under way, or the last one; misled when what it goes by is not so
  process,      \* process[s]: the instance deployed last
  edited,       \* groups holding a value a person changed
  budget        \* how often a run may still stop or misread, and a person meddle

vars == <<blueprint, group, stores, service, links, run, process, edited, budget>>

GroupNames == DOMAIN blueprint.vars

\* Existing resources, by name, as the four listings of a run return them.
Listed == DOMAIN group \cup stores \cup DOMAIN service

Declared(g) == Restrict(blueprint.vars[g], Literals(blueprint.vars[g]))

Stopped == [mode |-> "none", pc |-> "idle", at |-> 1, seen |-> {}, todo |-> <<>>,
            report |-> {}, result |-> "none", misled |-> FALSE]

Nothing == [x \in {} |-> x]

NotDeployed == [env |-> Nothing, phase |-> "none"]

Init ==
  /\ blueprint \in Blueprints
  /\ group = Nothing /\ stores = {} /\ service = Nothing /\ links = {}
  /\ run = Stopped
  /\ process = [s \in DOMAIN blueprint.services |-> NotDeployed]
  /\ edited = {}
  /\ budget = [stops |-> MaxStops, meddling |-> MaxMeddling]

account == <<group, stores, service, links>>
people == <<blueprint, process, edited, budget>>

(* ------------------------------ a run ---------------------------------- *)

\* KNOWN_KEYS: a blueprint with a key the provisioner cannot send is refused as a whole.
CheckKeys == blueprint.unknown = {}

\* The workflow is dispatched; its concurrency group lets one run at a time go on.
StartRun(mode) ==
  /\ run.pc = "idle"
  /\ CheckKeys
  /\ run' = [Stopped EXCEPT !.mode = mode, !.pc = "listing"]
  /\ UNCHANGED <<account, people>>

ListAccount ==
  /\ run.pc = "listing"
  /\ run' = [run EXCEPT !.pc = "working", !.seen = Listed]
  /\ UNCHANGED <<account, people>>

\* The resource a run has come to.
At(r) == /\ run.pc = "working"
         /\ run.at <= Len(blueprint.order)
         /\ r = blueprint.order[run.at]

Recorded(r, status) == [run EXCEPT !.at = @ + 1, !.report = @ \cup {<<r, status>>}]

Ended(result) == [run EXCEPT !.pc = "idle", !.result = result, !.seen = {}, !.todo = <<>>]

HasStatus(status) == \E row \in run.report : row[2] = status

\* Seeded fault: a group that exists is taken for one that matches.
CompareGroup_Exists(g) ==
  /\ At(g) /\ g \in GroupNames /\ g \in run.seen /\ g \in DOMAIN group
  /\ run' = Recorded(g, "exists")
  /\ UNCHANGED <<account, people>>

\* A group that exists is compared value by value and left as it is.
CompareGroup(g) ==
  /\ At(g) /\ g \in GroupNames /\ g \in run.seen /\ g \in DOMAIN group
  /\ run' = Recorded(g, IF \E n \in DOMAIN Declared(g) : ~Is(group[g], n, Declared(g)[n])
                        THEN "DRIFT" ELSE "exists")
  /\ UNCHANGED <<account, people>>

\* Past the groups, a drifted one ends the run before anything else is created.
DriftGate ==
  /\ run.pc = "working" /\ (\A g \in GroupNames : ~At(g))
  /\ HasStatus("DRIFT")
  /\ run' = Ended("drift")
  /\ UNCHANGED <<account, people>>

\* Past the gate, or still among the groups.
MayProceed(r) == r \in GroupNames \/ ~HasStatus("DRIFT")

\* What a preflight says of a resource the listing did not have.
Announce(r) ==
  /\ At(r) /\ r \notin run.seen /\ run.mode = "preflight" /\ MayProceed(r)
  /\ run' = Recorded(r, "would create")
  /\ UNCHANGED <<account, people>>

\* Seeded fault: a service that exists is left alone altogether.
Adopt_NoLinks(r) ==
  /\ At(r) /\ r \notin GroupNames /\ r \in run.seen /\ MayProceed(r)
  /\ run' = Recorded(r, "exists")
  /\ UNCHANGED <<account, people>>

\* A store or a service that exists is left as it is, save a service's links.
Adopt(r) ==
  /\ At(r) /\ r \notin GroupNames /\ r \in run.seen /\ MayProceed(r)
  /\ run' = IF r \in DOMAIN blueprint.services /\ run.mode = "provision"
            THEN [run EXCEPT !.pc = "linking", !.report = @ \cup {<<r, "exists">>},
                             !.todo = blueprint.services[r].groups]
            ELSE Recorded(r, "exists")
  /\ UNCHANGED <<account, people>>

\* What a service's own variables are when it is created: a value left to the dashboard is
\* sent as the text of undefined.
PlainVars(s) == [n \in DOMAIN blueprint.services[s].vars |->
                   IF blueprint.services[s].vars[n] = Sync THEN "undefined"
                   ELSE blueprint.services[s].vars[n]]

With(f, r, v) == [x \in DOMAIN f \cup {r} |-> IF x = r THEN v ELSE f[x]]

\* What the POST for r does to the account.
Created(r) ==
  /\ run.mode = "provision" /\ At(r) /\ r \notin run.seen /\ MayProceed(r)
  /\ r \notin Listed
  /\ group' = IF r \in GroupNames THEN With(group, r, Declared(r)) ELSE group
  /\ stores' = IF r \in DOMAIN blueprint.stores THEN stores \cup {r} ELSE stores
  /\ service' = IF r \in DOMAIN blueprint.services THEN With(service, r, PlainVars(r)) ELSE service
  /\ UNCHANGED links

Create(r) ==
  /\ Created(r)
  /\ run' = IF r \in DOMAIN blueprint.services
            THEN [run EXCEPT !.pc = "linking", !.report = @ \cup {<<r, "created">>},
                             !.todo = blueprint.services[r].groups]
            ELSE Recorded(r, "created")
  /\ UNCHANGED people

\* linkGroups, one group: known from the listing, or looked up again.
Linked(g) ==
  LET s == blueprint.order[run.at] IN
  /\ run.pc = "linking" /\ run.todo # <<>> /\ g = Head(run.todo)
  /\ g \in DOMAIN group /\ s \in DOMAIN service
  /\ links' = links \cup {<<g, s>>}
  /\ UNCHANGED <<group, stores, service>>

Link(g) ==
  /\ Linked(g)
  /\ run' = [run EXCEPT !.todo = Tail(@), !.report = @ \cup
               {<<g, IF <<g, blueprint.order[run.at]>> \in links THEN "already linked" ELSE "linked">>}]
  /\ UNCHANGED people

\* A refusal counts as a link that exists when its text holds 409 or "already" anywhere: in an
\* identifier of the path the message quotes, in words about something else.
LinkMisread(g) ==
  LET s == blueprint.order[run.at] IN
  /\ run.pc = "linking" /\ run.todo # <<>> /\ g = Head(run.todo)
  /\ g \in run.seen \cup DOMAIN group /\ <<g, s>> \notin links
  /\ budget.stops > 0
  /\ run' = [run EXCEPT !.todo = Tail(@), !.report = @ \cup {<<g, "already linked">>},
                       !.misled = TRUE]
  /\ budget' = [budget EXCEPT !.stops = @ - 1]
  /\ UNCHANGED <<account, blueprint, process, edited>>

\* Neither the listing nor a second look has the group.
LinkFails ==
  /\ run.pc = "linking" /\ run.todo # <<>>
  /\ Head(run.todo) \notin run.seen \cup DOMAIN group
  /\ run' = [run EXCEPT !.todo = Tail(@), !.report = @ \cup {<<Head(run.todo), "FAILED">>}]
  /\ UNCHANGED <<account, people>>

LinksDone ==
  /\ run.pc = "linking" /\ run.todo = <<>>
  /\ run' = [run EXCEPT !.pc = "working", !.at = @ + 1]
  /\ UNCHANGED <<account, people>>

Finish ==
  /\ run.pc = "working" /\ run.at > Len(blueprint.order) /\ ~HasStatus("DRIFT")
  /\ run' = Ended(IF HasStatus("FAILED") THEN "failed"
                  ELSE IF run.mode = "preflight" THEN "preflight" ELSE "applied")
  /\ UNCHANGED <<account, people>>

\* A call about something that was listed and has been deleted since: onFatal.
Gone ==
  /\ \/ \E g \in GroupNames : At(g) /\ g \in run.seen \ DOMAIN group
     \/ /\ run.pc = "linking" /\ run.todo # <<>>
        /\ \/ Head(run.todo) \in run.seen \ DOMAIN group
           \/ blueprint.order[run.at] \notin DOMAIN service
  /\ run' = Ended("stopped")
  /\ UNCHANGED <<account, people>>

\* A call is refused, times out or loses its answer, or the runner is killed: onFatal at best.
\* The call may have taken effect all the same.
Stops ==
  /\ run.pc # "idle" /\ budget.stops > 0
  /\ \/ UNCHANGED account
     \/ \E r \in Range(blueprint.order) : Created(r)
     \/ \E g \in GroupNames : Linked(g)
  /\ run' = Ended("stopped")
  /\ budget' = [budget EXCEPT !.stops = @ - 1]
  /\ UNCHANGED <<blueprint, process, edited>>

RunStep ==
  \/ ListAccount \/ DriftGate \/ LinkFails \/ LinksDone \/ Finish \/ Gone
  \/ \E r \in Range(blueprint.order) :
       CompareGroup(r) \/ Announce(r) \/ Adopt(r) \/ Create(r) \/ Link(r)

(* ------------------------------- people -------------------------------- *)

\* A person types the secrets of a group, or the addresses a service was left without.
TypeSecrets(r) ==
  /\ \/ /\ r \in DOMAIN group
        /\ group' = [group EXCEPT ![r] = Over(@, [n \in { m \in DOMAIN blueprint.vars[r] :
                                                     blueprint.vars[r][m] = Sync } |-> "own"])]
        /\ UNCHANGED service
     \/ /\ r \in DOMAIN service
        /\ service' = [service EXCEPT ![r] = [n \in DOMAIN @ |-> IF @[n] = "undefined" THEN "own" ELSE @[n]]]
        /\ UNCHANGED group
  /\ <<group', service'>> # <<group, service>>
  /\ UNCHANGED <<blueprint, stores, links, run, process, edited, budget>>

Meddles == /\ budget.meddling > 0
           /\ budget' = [budget EXCEPT !.meddling = @ - 1]
           /\ run' = [run EXCEPT !.misled = TRUE]
           /\ UNCHANGED <<blueprint, process>>

EditValue(g, n) ==
  /\ Meddles
  /\ g \in DOMAIN group /\ n \in DOMAIN Declared(g) \cap Editable
  /\ group' = [group EXCEPT ![g][n] = "other"]
  /\ edited' = edited \cup {g}
  /\ UNCHANGED <<stores, service, links>>

Delete(r) ==
  /\ Meddles
  /\ r \in Listed
  /\ group' = Restrict(group, DOMAIN group \ {r})
  /\ stores' = stores \ {r}
  /\ service' = Restrict(service, DOMAIN service \ {r})
  /\ links' = { l \in links : r \notin {l[1], l[2]} }
  /\ edited' = edited \ {r}

\* A person puts a group back to what render.yaml says, as a run that found drift asks.
Reconcile(g) ==
  /\ g \in edited
  /\ group' = [group EXCEPT ![g] = Over(Declared(g), @)]
  /\ edited' = edited \ {g}
  /\ run' = [run EXCEPT !.misled = TRUE]
  /\ UNCHANGED <<blueprint, stores, service, links, process, budget>>

(* ------------------------- what was created starts --------------------- *)

References == {FromDatabase, FromKeyValue}

\* What an instance of s is started with: its own variables, with the addresses of the stores
\* that exist, over those of its groups, over the image's.
EnvOf(s) ==
  LET own == service[s]
      known == { n \in DOMAIN own : own[n] \in References =>
                   \E r \in stores : blueprint.stores[r].kind = own[n] }
  IN Over([n \in known |-> IF own[n] \in References THEN "own" ELSE own[n]],
          Over(Union({ group[g] : g \in { h \in DOMAIN group : <<h, s>> \in links } }), Image))

\* Seeded fault: the worker starts on whatever it was given.
Deploy_Unparsed(s) ==
  LET env == EnvOf(s) IN
  /\ s \in DOMAIN service
  /\ process[s].env # env
  /\ process' = [process EXCEPT ![s] = [env |-> env, phase |->
                   IF blueprint.services[s].type = "web" THEN "in rotation" ELSE "serving"]]
  /\ UNCHANGED <<account, blueprint, run, edited, budget>>

\* The host starts an instance: when the service is created, and when its variables change.
\* A worker parses its environment at once.  The web answers its health check without it.
Deploy(s) ==
  LET env == EnvOf(s) IN
  /\ s \in DOMAIN service
  /\ process[s].env # env
  /\ process' = [process EXCEPT ![s] = [env |-> env, phase |->
                   IF blueprint.services[s].type = "web" THEN "in rotation"
                   ELSE IF ParseEnv(env) = {} THEN "serving" ELSE "down"]]
  /\ UNCHANGED <<account, blueprint, run, edited, budget>>

\* getEnv, in the first request that needs it: it throws, now and at every later one, or the
\* web serves.
FirstRequest(s) ==
  /\ process[s].phase = "in rotation"
  /\ ParseEnv(process[s].env) = {}
  /\ process' = [process EXCEPT ![s].phase = "serving"]
  /\ UNCHANGED <<account, blueprint, run, edited, budget>>

(* ------------------------------ the system ----------------------------- *)

Next ==
  \/ \E mode \in {"preflight", "provision"} : StartRun(mode)
  \/ RunStep
  \/ Stops
  \/ \E g \in GroupNames : LinkMisread(g)
  \/ \E r \in Range(blueprint.order) : TypeSecrets(r) \/ Delete(r) \/ Reconcile(r)
  \/ \E g \in GroupNames, n \in Editable : EditValue(g, n)
  \/ \E s \in DOMAIN service : Deploy(s) \/ FirstRequest(s)

Spec == Init /\ [][Next]_vars

\* Runs go on to their end, somebody dispatches another and reconciles what drifted.
Fairness ==
  /\ WF_vars(RunStep)
  /\ SF_vars(StartRun("provision"))
  /\ WF_vars(\E g \in GroupNames : Reconcile(g))

FairSpec == Spec /\ Fairness

(* ------------------------------ properties ----------------------------- *)

\* Everything the blueprint declares is there, with the values it gives and the links it asks.
Complete ==
  /\ Range(blueprint.order) \subseteq Listed
  /\ \A g \in GroupNames : \A n \in DOMAIN Declared(g) : Is(group[g], n, Declared(g)[n])
  /\ \A s \in DOMAIN blueprint.services : \A g \in Range(blueprint.services[s].groups) :
       <<g, s>> \in links

\* A run that says "Applied", with nobody else at the account meanwhile and no refusal taken for
\* a link, has left it complete: groups that exist are compared, services that exist are linked,
\* and whatever fails on the way ends the run otherwise.
AppliedMeansComplete == run.result = "applied" /\ ~run.misled => Complete

\* Dispatching the workflow again repairs whatever runs that died half-way, lost answers, refusals
\* taken for links, edits and deletions left behind, a service created and never linked above
\* all, whichever blueprint it can send.
RerunsRepair == CheckKeys => <>[]Complete

\* No instance serves with part of its configuration, however far the run that created it got:
\* it has every value the blueprint gives its service, save those a person edited.
ServesWhatWasReviewed ==
  \A s \in DOMAIN process : process[s].phase = "serving" =>
    LET reviewed == VariablesFor(blueprint, s) IN
    \A n \in Literals(reviewed) :
      /\ Has(process[s].env, n)
      /\ n \in Editable \/ process[s].env[n] = reviewed[n]

\* Whatever the blueprint leaves to the dashboard, or to a store, has a value.
TypedIn(s) ==
  /\ \A g \in Range(blueprint.services[s].groups) :
       \A n \in DOMAIN blueprint.vars[g] \ Literals(blueprint.vars[g]) : Is(group[g], n, "own")
  /\ \A n \in DOMAIN service[s] \ Literals(blueprint.services[s].vars) :
       LET value == service[s][n] IN
       \/ value = "own"
       \/ value \in References /\ \E r \in stores : blueprint.stores[r].kind = value

\* A blueprint the check accepts boots once runs have completed it and its secrets are typed in,
\* provided what it spells out is well-formed, its services leave all but NODE_ENV to their groups,
\* and no choice between fixed values is left to the dashboard: parseEnv can refuse the environment
\* an instance is then started with only over the mail transport, a mail credential or the secret
\* of the scheduled jobs.
CheckedBlueprintBoots ==
  /\ CheckBlueprint(blueprint) = {}
  /\ \A g \in GroupNames : \A n \in DOMAIN Declared(g) : Fits(n, Declared(g)[n])
  /\ Complete
  => \A s \in DOMAIN blueprint.services :
       LET own == blueprint.services[s].vars
           wired == VariablesFor(blueprint, s)
       IN /\ \A n \in Literals(own) : n = "NODE_ENV" /\ Fits(n, own[n])
          /\ DOMAIN Enums \cap DOMAIN wired \subseteq Literals(wired)
          /\ TypedIn(s)
          => ParseEnv(EnvOf(s))
               \subseteq {"MAIL_DRIVER", "MAIL_SMTP_URL", "MAIL_RESEND_API_KEY", "CRON_SECRET"}

\* "a rejection that names the link as existing is reported as `already linked`"
\* (render-provision.mjs:643): what a run reports as already linked is.
AlreadyLinkedIsLinked ==
  [][\A g \in GroupNames :
       <<g, "already linked">> \in run'.report \ run.report
         => <<g, blueprint.order[run.at]>> \in links']_vars

\* "Parsed once at startup so a missing or malformed variable fails immediately" (env.ts:6): an
\* instance that takes traffic has parsed its environment.
InRotationIsConfigured ==
  \A s \in DOMAIN process : process[s].phase = "in rotation" => ParseEnv(process[s].env) = {}

=============================================================================
